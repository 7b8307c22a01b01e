------------------------- MODULE CaseWorkflow_proofs -------------------------
(***************************************************************************)
(* Proofs about CaseWorkflow for all sets of items, files, windows, clerks  *)
(* and reviewers and all bounds: types, signings that cover the content,    *)
(* decisions that settle the status, approvals that stand, completion as    *)
(* submitted, and the refinement of CaseLifecycle.                          *)
(***************************************************************************)
EXTENDS CaseWorkflow, SequenceTheorems, TLAPS

-----------------------------------------------------------------------------
(* The inductive invariant *)

\* A valid signing signs this content.
Covers(content) ==
  \A k \in DOMAIN signings :
    signings[k].valid => signings[k].content = content

\* A request between its two transactions read a draft that exists, in an
\* editable status: the second transaction checks for just these.
Prepared ==
  \A w \in Windows :
    window[w].pc \in {"signing", "submitting"} =>
      window[w].draft # 0 /\ window[w].status \in Editable

\* CompletedAsSubmitted, with what a retry needs that has read PDF_FAILED and
\* writes FINALIZING whatever came in between.
Submitted ==
  /\ caseStatus \in InReview \cup Finalization => Covers(submitted)
  /\ caseStatus = "COMPLETED" => Content = submitted
  /\ \A s \in Staff :
       staff[s] = "retry" =>
         /\ caseStatus \in Finalization \cup {"CLOSED"}
         /\ AllApproved
         /\ Covers(submitted)

IInv ==
  TypeOK /\ SigningMatchesContent /\ Prepared /\ ReviewsSettleStatus
    /\ Submitted

-----------------------------------------------------------------------------
(* Types *)

\* What a customer sees is an answer for every item and a set of files.
LEMMA ContentTyped ==
  ASSUME TypeOK
  PROVE  Content \in ContentSet
<1>1. NoAnswers \in Answers
  BY DEF NoAnswers, Answers
<1>2. drafts # <<>> => drafts[Len(drafts)] \in Answers
  BY EmptySeq, ElementOfSeq DEF TypeOK
<1> QED
  BY <1>1, <1>2 DEF TypeOK, Content, ContentSet

\* Invalidating keeps the signings, in number and content, but not one valid.
LEMMA InvalidatedTyped ==
  ASSUME TypeOK
  PROVE  /\ Invalidated \in Seq(Signing)
         /\ Len(Invalidated) = Len(signings)
         /\ DOMAIN Invalidated = DOMAIN signings
         /\ \A k \in DOMAIN signings : ~Invalidated[k].valid
<1>1. Len(signings) \in Nat /\ DOMAIN signings = 1 .. Len(signings)
  BY LenProperties DEF TypeOK
<1>2. \A k \in DOMAIN signings : signings[k] \in Signing
  BY <1>1, ElementOfSeq DEF TypeOK
<1>3. \A k \in DOMAIN signings :
        [signings[k] EXCEPT !.valid = FALSE] \in Signing
  BY <1>2 DEF Signing
<1>4. Invalidated \in [1 .. Len(signings) -> Signing]
  BY <1>1, <1>3 DEF Invalidated
<1>5. Invalidated \in Seq(Signing)
  BY <1>1, <1>4, SeqDef
<1>6. \A k \in DOMAIN signings : ~Invalidated[k].valid
  BY <1>2 DEF Invalidated, Signing
<1>7. DOMAIN Invalidated = DOMAIN signings
  BY DEF Invalidated
<1>8. Len(Invalidated) = Len(signings)
  BY <1>1, <1>5, <1>7, LenProperties
<1> QED
  BY <1>5, <1>6, <1>7, <1>8

\* Disabling keeps the links in number.
LEMMA AllDisabledTyped ==
  ASSUME TypeOK
  PROVE  AllDisabled \in Seq(LinkState) /\ Len(AllDisabled) = Len(links)
<1>1. Len(links) \in Nat /\ DOMAIN links = 1 .. Len(links)
  BY LenProperties DEF TypeOK
<1>2. AllDisabled \in [1 .. Len(links) -> LinkState]
  BY <1>1 DEF AllDisabled, LinkState
<1>3. AllDisabled \in Seq(LinkState)
  BY <1>1, <1>2, SeqDef
<1> QED
  BY <1>1, <1>2, <1>3, LenProperties

\* So does ending one of them, and a new one is one more.
LEMMA LinksTyped ==
  ASSUME NEW seq \in Seq(LinkState)
  PROVE  /\ \A l \in DOMAIN seq :
              /\ [seq EXCEPT ![l] = "ended"] \in Seq(LinkState)
              /\ Len([seq EXCEPT ![l] = "ended"]) = Len(seq)
         /\ Append(seq, "live") \in Seq(LinkState)
         /\ Len(Append(seq, "live")) = Len(seq) + 1
<1>1. DOMAIN seq = 1 .. Len(seq)
  BY LenProperties
<1>2. "ended" \in LinkState /\ "live" \in LinkState
  BY DEF LinkState
<1> QED
  BY <1>1, <1>2, ExceptSeq, AppendProperties

\* The records of a window.
LEMMA WindowTyped ==
  ASSUME TypeOK
  PROVE  /\ IdleWindow \in Window
         /\ \A l \in DOMAIN links :
              /\ Rendering(l) \in Window
              /\ Reading("signing", l, 0) \in Window
              /\ \A k \in DOMAIN signings :
                   Reading("submitting", l, k) \in Window
<1>1. Content \in ContentSet /\ NoContent \in ContentSet
  BY ContentTyped DEF NoContent, ContentSet, NoAnswers, Answers
<1>2. DOMAIN links = 1 .. Len(links) /\ Len(links) \in Nat
  BY LenProperties DEF TypeOK
<1>3. DOMAIN signings = 1 .. Len(signings) /\ Len(signings) \in Nat
  BY LenProperties DEF TypeOK
<1>4. Len(drafts) \in 0 .. MaxDrafts
  BY LenProperties, ConstantsAssumption DEF TypeOK
<1>5. \A l \in DOMAIN links : l \in 0 .. MaxLinks
  BY <1>2, ConstantsAssumption DEF TypeOK
<1>6. \A k \in DOMAIN signings : k \in 0 .. MaxSignings
  BY <1>3, ConstantsAssumption DEF TypeOK
<1>7. IdleWindow \in Window
  BY <1>1, ConstantsAssumption DEF IdleWindow, Window, CaseStatuses
<1> QED
  BY <1>1, <1>4, <1>5, <1>6, <1>7, ConstantsAssumption
  DEF TypeOK, Rendering, Reading, IdleWindow, Window, CaseStatuses

\* Every step keeps every variable in its type.
LEMMA TypeStep ==
  ASSUME TypeOK, Prepared, [Next]_vars
  PROVE  TypeOK'
<1> USE ConstantsAssumption DEF TypeOK, contentVars, requestVars
<1>0. /\ Len(links) \in Nat /\ DOMAIN links = 1 .. Len(links)
      /\ Len(drafts) \in Nat /\ Len(signings) \in Nat
      /\ IdleWindow \in Window
  BY LenProperties, WindowTyped
<1>1. CASE SubmitDraft
  BY <1>1, AllDisabledTyped, LinksTyped DEF SubmitDraft, CaseStatuses
<1>2. ASSUME ReplaceLink PROVE TypeOK'
  <2>1. PICK l \in LiveLinks : links' = Append([links EXCEPT ![l] = "ended"], "live")
    BY <1>2 DEF ReplaceLink
  <2>2. l \in DOMAIN links
    BY DEF LiveLinks
  <2>3. links' \in Seq(LinkState) /\ Len(links') = Len(links) + 1
    BY <2>1, <2>2, LinksTyped
  <2> QED
    BY <1>0, <1>2, <2>3 DEF ReplaceLink
<1>3. ASSUME DisableLink \/ LinkExpires PROVE TypeOK'
  <2>1. PICK l \in LiveLinks : links' = [links EXCEPT ![l] = "ended"]
    BY <1>3 DEF DisableLink, LinkExpires
  <2>2. l \in DOMAIN links
    BY DEF LiveLinks
  <2>3. links' \in Seq(LinkState) /\ Len(links') = Len(links)
    BY <2>1, <2>2, LinksTyped
  <2> QED
    BY <1>3, <2>3 DEF DisableLink, LinkExpires
<1>4. CASE RegenerateRejectionMessage
  BY <1>2, <1>4 DEF RegenerateRejectionMessage
<1>5. ASSUME NEW l \in DOMAIN links, NEW answers \in Answers,
             SaveDraft(l, answers)
     PROVE  TypeOK'
  <2>1. drafts' \in Seq(Answers) /\ Len(drafts') <= MaxDrafts
    BY <1>0, <1>5, AppendProperties DEF SaveDraft
  <2>2. signings' \in Seq(Signing) /\ Len(signings') <= MaxSignings
    BY <1>5, InvalidatedTyped DEF SaveDraft
  <2>3. caseStatus' \in CaseStatuses
    BY <1>5 DEF SaveDraft, CaseStatuses
  <2> QED
    BY <1>5, <2>1, <2>2, <2>3 DEF SaveDraft
<1>6. ASSUME NEW l \in DOMAIN links, NEW f \in Files,
             UploadFile(l, f) \/ RemoveFile(l, f)
     PROVE  TypeOK'
  <2>1. signings' \in Seq(Signing) /\ Len(signings') <= MaxSignings
    BY <1>6, InvalidatedTyped DEF UploadFile, RemoveFile
  <2>2. files' \subseteq Files /\ removed' \subseteq Files \ files'
    BY <1>6 DEF UploadFile, RemoveFile
  <2> QED
    BY <1>6, <2>1, <2>2 DEF UploadFile, RemoveFile
<1>7. ASSUME NEW l \in DOMAIN links, NEW w \in Windows,
             \/ PreparePreview(w, l) \/ VerifySigning(w, l)
             \/ VerifySubmission(w, l)
     PROVE  TypeOK'
  <2>1. PICK reading \in Window : Enter(w, reading)
    BY <1>7, WindowTyped
    DEF PreparePreview, VerifySigning, VerifySubmission, SignedContent
  <2> QED
    BY <2>1 DEF Enter
<1>8. ASSUME NEW w \in Windows, WindowStep(w)
     PROVE  TypeOK'
  <2>1. window' \in [Windows -> Window]
    BY <1>0, <1>8
    DEF WindowStep, PersistPreview, CommitSigning, CommitSubmission,
        RequestFails, Leave
  <2>2. CASE PersistPreview(w)
    BY <2>1, <2>2, ContentTyped DEF PersistPreview
  <2>3. CASE CommitSigning(w)
    <3>1. Len(drafts) \in 1 .. MaxDrafts
      BY <1>0, <2>3 DEF CommitSigning, StillAsRead, Prepared
    <3>2. [draft |-> Len(drafts), content |-> Content, valid |-> TRUE]
            \in Signing
      BY <3>1, ContentTyped DEF Signing
    <3>3. signings' \in Seq(Signing) /\ Len(signings') <= MaxSignings
      BY <1>0, <2>3, <3>2, InvalidatedTyped, AppendProperties
      DEF CommitSigning
    <3> QED
      BY <2>1, <2>3, <3>3 DEF CommitSigning
  <2>4. CASE CommitSubmission(w)
    <3>1. window[w].link \in DOMAIN links
      BY <2>4 DEF CommitSubmission, StillAsRead, Resolves
    <3>2. links' \in Seq(LinkState) /\ Len(links') <= MaxLinks
      BY <2>4, <3>1, LinksTyped DEF CommitSubmission
    <3>3. caseStatus' \in CaseStatuses
      BY <2>4 DEF CommitSubmission, CaseStatuses
    <3> QED
      BY <2>1, <2>4, <3>2, <3>3, ContentTyped DEF CommitSubmission
  <2>5. CASE RequestFails(w)
    BY <2>1, <2>5 DEF RequestFails
  <2> QED
    BY <1>8, <2>2, <2>3, <2>4, <2>5 DEF WindowStep
<1>9. ASSUME NEW s \in Staff, StaffStep(s)
     PROVE  TypeOK'
  <2>1. staff' \in [Staff -> StaffState]
    BY <1>9
    DEF StaffStep, FindNoLink, InsertLink, CloseRead, CloseWrite, RetryRead,
        RetryWrite, StaffAborts, StaffState
  <2>2. CASE FindNoLink(s) \/ CloseRead(s) \/ RetryRead(s) \/ StaffAborts(s)
    BY <2>1, <2>2 DEF FindNoLink, CloseRead, RetryRead, StaffAborts
  <2>3. CASE InsertLink(s)
    BY <1>0, <2>1, <2>3, LinksTyped DEF InsertLink
  <2>4. CASE CloseWrite(s)
    BY <2>1, <2>4, AllDisabledTyped DEF CloseWrite, CaseStatuses
  <2>5. CASE RetryWrite(s)
    BY <2>1, <2>5 DEF RetryWrite, CaseStatuses
  <2> QED
    BY <1>9, <2>2, <2>3, <2>4, <2>5 DEF StaffStep
<1>10. ASSUME NEW r \in Reviewers, ReviewerStep(r)
      PROVE  TypeOK'
  <2>1. CASE ClaimReview(r) \/ AssignReview(r)
    BY <2>1 DEF ClaimReview, AssignReview
  <2>2. CASE ConfirmRejected(r)
    BY <2>2, AllDisabledTyped, LinksTyped DEF ConfirmRejected, CaseStatuses
  <2>3. CASE ConfirmApproved(r)
    BY <2>3 DEF ConfirmApproved, CaseStatuses
  <2>4. ASSUME NEW i \in Items, NEW d \in {"APPROVE", "REJECT"},
               ReviewItem(r, i, d)
       PROVE  TypeOK'
    BY <2>4 DEF ReviewItem
  <2> QED
    BY <1>10, <2>1, <2>2, <2>3, <2>4 DEF ReviewerStep
<1>11. CASE PdfCompletes \/ PdfFails
  BY <1>11 DEF PdfCompletes, PdfFails, CaseStatuses
<1>12. CASE UNCHANGED vars
  BY <1>12 DEF vars
<1> QED
  BY <1>1, <1>2, <1>3, <1>4, <1>5, <1>6, <1>7, <1>8, <1>9, <1>10, <1>11,
     <1>12
  DEF Next, CustomerStep

-----------------------------------------------------------------------------
(* Which steps touch what *)

\* The content and its signings change by saving, by uploading or removing a
\* file and by signing.
LEMMA ContentChanges ==
  ASSUME [Next]_vars
  PROVE  \/ UNCHANGED <<drafts, files, signings>>
         \/ \E l \in DOMAIN links :
              \/ \E answers \in Answers : SaveDraft(l, answers)
              \/ \E f \in Files : UploadFile(l, f) \/ RemoveFile(l, f)
         \/ \E w \in Windows : CommitSigning(w)
<1> USE DEF contentVars, requestVars
<1>1. CASE \/ SubmitDraft \/ ReplaceLink \/ DisableLink \/ LinkExpires
           \/ RegenerateRejectionMessage \/ PdfCompletes \/ PdfFails
  BY <1>1
  DEF SubmitDraft, ReplaceLink, DisableLink, LinkExpires,
      RegenerateRejectionMessage, PdfCompletes, PdfFails
<1>2. CASE CustomerStep
  BY <1>2
  DEF CustomerStep, PreparePreview, VerifySigning, VerifySubmission, Enter
<1>3. ASSUME NEW w \in Windows, WindowStep(w), ~CommitSigning(w)
     PROVE  UNCHANGED <<drafts, files, signings>>
  BY <1>3 DEF WindowStep, PersistPreview, CommitSubmission, RequestFails
<1>4. ASSUME NEW s \in Staff, StaffStep(s)
     PROVE  UNCHANGED <<drafts, files, signings>>
  BY <1>4
  DEF StaffStep, FindNoLink, InsertLink, CloseRead, CloseWrite, RetryRead,
      RetryWrite, StaffAborts
<1>5. ASSUME NEW r \in Reviewers, ReviewerStep(r)
     PROVE  UNCHANGED <<drafts, files, signings>>
  BY <1>5
  DEF ReviewerStep, ClaimReview, AssignReview, ConfirmRejected,
      ConfirmApproved, ReviewItem
<1>6. CASE UNCHANGED vars
  BY <1>6 DEF vars
<1> QED
  BY <1>1, <1>2, <1>3, <1>4, <1>5, <1>6 DEF Next

\* The status, the decisions, what was submitted and the staff's requests
\* change in the steps named here.
LEMMA StatusChanges ==
  ASSUME [Next]_vars
  PROVE  \/ UNCHANGED <<caseStatus, reviews, submitted, staff>>
         \/ SubmitDraft
         \/ \E l \in DOMAIN links, answers \in Answers : SaveDraft(l, answers)
         \/ \E w \in Windows : CommitSubmission(w)
         \/ \E s \in Staff : StaffStep(s)
         \/ \E r \in Reviewers :
              \/ ConfirmRejected(r) \/ ConfirmApproved(r)
              \/ \E i \in Items, d \in {"APPROVE", "REJECT"} :
                   ReviewItem(r, i, d)
         \/ PdfCompletes \/ PdfFails
<1> USE DEF contentVars, requestVars
<1>1. CASE \/ ReplaceLink \/ DisableLink \/ LinkExpires
           \/ RegenerateRejectionMessage
  BY <1>1 DEF ReplaceLink, DisableLink, LinkExpires,
              RegenerateRejectionMessage
<1>2. CASE CustomerStep
  <2>1. ASSUME NEW l \in DOMAIN links, NEW f \in Files,
               UploadFile(l, f) \/ RemoveFile(l, f)
       PROVE  UNCHANGED <<caseStatus, reviews, submitted, staff>>
    BY <2>1 DEF UploadFile, RemoveFile
  <2>2. ASSUME NEW l \in DOMAIN links, NEW w \in Windows,
               \/ PreparePreview(w, l) \/ VerifySigning(w, l)
               \/ VerifySubmission(w, l)
       PROVE  UNCHANGED <<caseStatus, reviews, submitted, staff>>
    BY <2>2 DEF PreparePreview, VerifySigning, VerifySubmission, Enter
  <2> QED
    BY <1>2, <2>1, <2>2 DEF CustomerStep
<1>3. ASSUME NEW w \in Windows, WindowStep(w), ~CommitSubmission(w)
     PROVE  UNCHANGED <<caseStatus, reviews, submitted, staff>>
  BY <1>3 DEF WindowStep, PersistPreview, CommitSigning, RequestFails
<1>4. ASSUME NEW r \in Reviewers, ClaimReview(r) \/ AssignReview(r)
     PROVE  UNCHANGED <<caseStatus, reviews, submitted, staff>>
  BY <1>4 DEF ClaimReview, AssignReview
<1>5. CASE UNCHANGED vars
  BY <1>5 DEF vars
<1> QED
  BY <1>1, <1>2, <1>3, <1>4, <1>5 DEF Next, ReviewerStep

\* A window enters a signing or submission with a draft, in an editable
\* status; otherwise windows only return to idle.
LEMMA WindowChanges ==
  ASSUME [Next]_vars
  PROVE  \/ UNCHANGED window
         \/ \E w \in Windows, l \in DOMAIN links :
              \/ PreparePreview(w, l) \/ VerifySigning(w, l)
              \/ VerifySubmission(w, l)
         \/ \E w \in Windows : Leave(w)
<1> USE DEF contentVars, requestVars
<1>1. CASE \/ SubmitDraft \/ ReplaceLink \/ DisableLink \/ LinkExpires
           \/ RegenerateRejectionMessage \/ PdfCompletes \/ PdfFails
  BY <1>1
  DEF SubmitDraft, ReplaceLink, DisableLink, LinkExpires,
      RegenerateRejectionMessage, PdfCompletes, PdfFails
<1>2. CASE CustomerStep
  <2>1. ASSUME NEW l \in DOMAIN links, NEW answers \in Answers,
               SaveDraft(l, answers)
       PROVE  UNCHANGED window
    BY <2>1 DEF SaveDraft
  <2>2. ASSUME NEW l \in DOMAIN links, NEW f \in Files,
               UploadFile(l, f) \/ RemoveFile(l, f)
       PROVE  UNCHANGED window
    BY <2>2 DEF UploadFile, RemoveFile
  <2> QED
    BY <1>2, <2>1, <2>2 DEF CustomerStep
<1>3. ASSUME NEW w \in Windows, WindowStep(w)
     PROVE  Leave(w)
  BY <1>3
  DEF WindowStep, PersistPreview, CommitSigning, CommitSubmission,
      RequestFails
<1>4. ASSUME NEW s \in Staff, StaffStep(s)
     PROVE  UNCHANGED window
  BY <1>4
  DEF StaffStep, FindNoLink, InsertLink, CloseRead, CloseWrite, RetryRead,
      RetryWrite, StaffAborts
<1>5. ASSUME NEW r \in Reviewers, ReviewerStep(r)
     PROVE  UNCHANGED window
  BY <1>5
  DEF ReviewerStep, ClaimReview, AssignReview, ConfirmRejected,
      ConfirmApproved, ReviewItem
<1>6. CASE UNCHANGED vars
  BY <1>6 DEF vars
<1> QED
  BY <1>1, <1>2, <1>3, <1>4, <1>5, <1>6 DEF Next

-----------------------------------------------------------------------------
(* The parts of the invariant, step by step *)

\* A request that enters its second transaction was prepared by the first.
LEMMA PreparedStep ==
  ASSUME TypeOK, Prepared, [Next]_vars
  PROVE  Prepared'
<1> USE DEF Prepared, TypeOK
<1>1. CASE UNCHANGED window
  BY <1>1
<1>2. ASSUME NEW w \in Windows, NEW l \in DOMAIN links, PreparePreview(w, l)
     PROVE  Prepared'
  BY <1>2 DEF PreparePreview, Enter, Rendering, IdleWindow
<1>3. ASSUME NEW w \in Windows, NEW l \in DOMAIN links,
             VerifySigning(w, l) \/ VerifySubmission(w, l)
     PROVE  Prepared'
  <2>1. Len(drafts) # 0 /\ caseStatus \in Editable
    BY <1>3, EmptySeq DEF VerifySigning, VerifySubmission, Drafted
  <2>2. \E pc \in {"signing", "submitting"}, k \in Nat :
          window' = [window EXCEPT ![w] = Reading(pc, l, k)]
    BY <1>3, LenProperties
    DEF VerifySigning, VerifySubmission, SignedContent, Enter
  <2> QED
    BY <2>1, <2>2 DEF Reading
<1>4. ASSUME NEW w \in Windows, Leave(w)
     PROVE  Prepared'
  BY <1>4 DEF Leave, IdleWindow
<1> QED
  BY <1>1, <1>2, <1>3, <1>4, WindowChanges

\* A signing that stays valid goes on covering the content.
LEMMA SigningStep ==
  ASSUME TypeOK, Prepared, SigningMatchesContent, [Next]_vars
  PROVE  SigningMatchesContent'
<1> USE DEF SigningMatchesContent
<1>1. CASE UNCHANGED <<drafts, files, signings>>
  BY <1>1 DEF Content
<1>2. ASSUME signings' = Invalidated
     PROVE  SigningMatchesContent'
  BY <1>2, InvalidatedTyped
<1>3. ASSUME NEW l \in DOMAIN links, NEW answers \in Answers,
             SaveDraft(l, answers)
     PROVE  SigningMatchesContent'
  <2>1. CASE answers # Content.answers
    BY <1>2, <1>3, <2>1 DEF SaveDraft
  <2>2. CASE answers = Content.answers
    <3>1. signings' = signings /\ files' = files
      BY <1>3, <2>2 DEF SaveDraft
    <3>2. /\ drafts' = Append(drafts, answers)
          /\ drafts' # <<>>
          /\ Len(drafts') = Len(drafts) + 1
          /\ drafts'[Len(drafts')] = answers
          /\ \A d \in 1 .. Len(drafts) : drafts'[d] = drafts[d]
          /\ Len(drafts) \in Nat
      BY <1>3, AppendProperties, LenProperties DEF SaveDraft, TypeOK
    <3>3. Content' = Content
      BY <2>2, <3>1, <3>2 DEF Content
    <3>4. \A k \in DOMAIN signings : signings[k].draft \in 1 .. MaxDrafts
      <4>1. \A k \in DOMAIN signings : signings[k] \in Signing
        BY LenProperties, ElementOfSeq DEF TypeOK
      <4> QED
        BY <4>1 DEF Signing
    <3> QED
      BY <3>1, <3>2, <3>3, <3>4, ConstantsAssumption
  <2> QED
    BY <2>1, <2>2
<1>4. ASSUME NEW l \in DOMAIN links, NEW f \in Files,
             UploadFile(l, f) \/ RemoveFile(l, f)
     PROVE  SigningMatchesContent'
  BY <1>2, <1>4 DEF UploadFile, RemoveFile
<1>5. ASSUME NEW w \in Windows, CommitSigning(w)
     PROVE  SigningMatchesContent'
  <2> DEFINE new == [draft |-> Len(drafts), content |-> Content,
                     valid |-> TRUE]
  <2>1. /\ signings' = Append(Invalidated, new)
        /\ drafts' = drafts /\ files' = files
    BY <1>5 DEF CommitSigning, contentVars
  <2>2. Content' = Content
    BY <2>1 DEF Content
  <2>3. Len(drafts) \in Nat /\ Len(drafts) # 0 /\ Len(drafts) <= MaxDrafts
    BY <1>5, LenProperties
    DEF CommitSigning, StillAsRead, Prepared, TypeOK
  <2>4. new \in Signing
    BY <2>3, ContentTyped, ConstantsAssumption DEF Signing
  <2>5. Content.answers = drafts[Len(drafts)]
    BY <2>3, EmptySeq DEF Content
  <2>6. /\ signings' \in Seq(Signing)
        /\ Len(signings') = Len(signings) + 1
        /\ \A k \in 1 .. Len(signings) : signings'[k] = Invalidated[k]
        /\ signings'[Len(signings) + 1] = new
        /\ Len(signings) \in Nat
        /\ DOMAIN signings = 1 .. Len(signings)
        /\ \A k \in DOMAIN signings : ~Invalidated[k].valid
    BY <2>1, <2>4, InvalidatedTyped, AppendProperties, LenProperties
    DEF TypeOK
  <2>7. DOMAIN signings' = 1 .. Len(signings) + 1
    BY <2>6, LenProperties
  <2>8. \A k \in DOMAIN signings' :
          signings'[k].valid => k = Len(signings') /\ signings'[k] = new
    BY <2>6, <2>7
  <2> QED
    BY <2>1, <2>2, <2>3, <2>5, <2>8
<1> QED
  BY <1>1, <1>3, <1>4, <1>5, ContentChanges

\* Decisions change in a review only, and a confirmed status needs them.
LEMMA ReviewsStep ==
  ASSUME TypeOK, ReviewsSettleStatus, Submitted, [Next]_vars
  PROVE  ReviewsSettleStatus'
<1> USE DEF ReviewsSettleStatus, AllApproved, Finalization, contentVars,
            requestVars
<1>1. CASE UNCHANGED <<caseStatus, reviews, submitted, staff>>
  BY <1>1
<1>2. CASE SubmitDraft
  BY <1>2 DEF SubmitDraft
<1>3. ASSUME NEW l \in DOMAIN links, NEW answers \in Answers,
             SaveDraft(l, answers)
     PROVE  ReviewsSettleStatus'
  BY <1>3 DEF SaveDraft
<1>4. ASSUME NEW w \in Windows, CommitSubmission(w)
     PROVE  ReviewsSettleStatus'
  BY <1>4 DEF CommitSubmission
<1>5. ASSUME NEW s \in Staff, StaffStep(s)
     PROVE  ReviewsSettleStatus'
  <2>1. CASE RetryWrite(s)
    BY <2>1 DEF RetryWrite, Submitted
  <2>2. CASE CloseWrite(s)
    BY <2>2 DEF CloseWrite
  <2> QED
    BY <1>5, <2>1, <2>2
    DEF StaffStep, FindNoLink, InsertLink, CloseRead, RetryRead, StaffAborts
<1>6. ASSUME NEW r \in Reviewers, ConfirmRejected(r)
     PROVE  ReviewsSettleStatus'
  BY <1>6 DEF ConfirmRejected, AllReviewed, TypeOK
<1>7. ASSUME NEW r \in Reviewers, ConfirmApproved(r)
     PROVE  ReviewsSettleStatus'
  BY <1>7 DEF ConfirmApproved
<1>8. ASSUME NEW r \in Reviewers, NEW i \in Items,
             NEW d \in {"APPROVE", "REJECT"}, ReviewItem(r, i, d)
     PROVE  ReviewsSettleStatus'
  BY <1>8 DEF ReviewItem, Reviewing, InReview
<1>9. CASE PdfCompletes \/ PdfFails
  BY <1>9 DEF PdfCompletes, PdfFails
<1> QED
  BY <1>1, <1>2, <1>3, <1>4, <1>5, <1>6, <1>7, <1>8, <1>9, StatusChanges

\* From the submission to the end the valid signing is the submitted one.
LEMMA SubmittedStep ==
  ASSUME TypeOK, SigningMatchesContent, Prepared, ReviewsSettleStatus,
         Submitted, [Next]_vars
  PROVE  Submitted'
<1> USE DEF Submitted, AllApproved, Covers, Finalization, InReview,
            contentVars, requestVars
<1>1. ASSUME UNCHANGED <<caseStatus, reviews, submitted, staff>>
     PROVE  Submitted'
  <2>1. CASE UNCHANGED <<drafts, files, signings>>
    BY <1>1, <2>1 DEF Content
  <2>2. ASSUME NEW l \in DOMAIN links, Resolves(l), signings' = Invalidated
       PROVE  Submitted'
    BY <1>1, <2>2, InvalidatedTyped DEF Resolves, Terminal
  <2>3. ASSUME NEW l \in DOMAIN links, NEW answers \in Answers,
               SaveDraft(l, answers)
       PROVE  Submitted'
    BY <1>1, <2>2, <2>3 DEF SaveDraft, Editable
  <2>4. ASSUME NEW l \in DOMAIN links, NEW f \in Files,
               UploadFile(l, f) \/ RemoveFile(l, f)
       PROVE  Submitted'
    BY <2>2, <2>4 DEF UploadFile, RemoveFile
  <2>5. ASSUME NEW w \in Windows, CommitSigning(w)
       PROVE  Submitted'
    BY <1>1, <2>5 DEF CommitSigning, StillAsRead, Prepared, Editable
  <2> QED
    BY <2>1, <2>3, <2>4, <2>5, ContentChanges
<1>2. CASE SubmitDraft
  BY <1>2 DEF SubmitDraft
<1>3. ASSUME NEW l \in DOMAIN links, NEW answers \in Answers,
             SaveDraft(l, answers)
     PROVE  Submitted'
  BY <1>3 DEF SaveDraft, Editable
<1>4. ASSUME NEW w \in Windows, CommitSubmission(w)
     PROVE  Submitted'
  <2>1. /\ caseStatus \in Editable
        /\ caseStatus' \in {"PENDING_REVIEW", "PENDING_REREVIEW"}
        /\ submitted' = Content
        /\ UNCHANGED <<reviews, signings, staff>>
    BY <1>4 DEF CommitSubmission, StillAsRead, Prepared
  <2> QED
    BY <2>1 DEF SigningMatchesContent, Editable
<1>5. ASSUME NEW s \in Staff, StaffStep(s)
     PROVE  Submitted'
  <2>1. UNCHANGED <<drafts, files, signings, reviews, submitted>>
    BY <1>5
    DEF StaffStep, FindNoLink, InsertLink, CloseRead, CloseWrite, RetryRead,
        RetryWrite, StaffAborts
  <2>2. Content' = Content
    BY <2>1 DEF Content
  <2>3. CASE RetryRead(s)
    BY <2>1, <2>2, <2>3 DEF RetryRead, TypeOK, ReviewsSettleStatus
  <2>4. CASE RetryWrite(s)
    BY <2>1, <2>2, <2>4 DEF RetryWrite, TypeOK
  <2>5. CASE CloseWrite(s)
    BY <2>1, <2>2, <2>5 DEF CloseWrite, TypeOK
  <2>6. ASSUME FindNoLink(s) \/ InsertLink(s) \/ CloseRead(s)
                 \/ StaffAborts(s)
       PROVE  Submitted'
    <3>1. caseStatus' = caseStatus
      BY <2>6 DEF FindNoLink, InsertLink, CloseRead, StaffAborts
    <3>2. \A q \in Staff : staff'[q] = "retry" => staff[q] = "retry"
      BY <2>6 DEF FindNoLink, InsertLink, CloseRead, StaffAborts, TypeOK
    <3> QED
      BY <2>1, <2>2, <3>1, <3>2
  <2> QED
    BY <1>5, <2>3, <2>4, <2>5, <2>6 DEF StaffStep
<1>6. ASSUME NEW r \in Reviewers, ConfirmRejected(r)
     PROVE  Submitted'
  BY <1>6 DEF ConfirmRejected, Reviewing
<1>7. ASSUME NEW r \in Reviewers, ConfirmApproved(r)
     PROVE  Submitted'
  BY <1>7 DEF ConfirmApproved, Reviewing
<1>8. ASSUME NEW r \in Reviewers, NEW i \in Items,
             NEW d \in {"APPROVE", "REJECT"}, ReviewItem(r, i, d)
     PROVE  Submitted'
  BY <1>8 DEF ReviewItem, Reviewing
<1>9. CASE PdfCompletes
  <2>1. /\ caseStatus \in Finalization /\ caseStatus' = "COMPLETED"
        /\ UNCHANGED <<drafts, files, signings, reviews, submitted, staff>>
        /\ signings # <<>> /\ signings[Len(signings)].valid
    BY <1>9 DEF PdfCompletes
  <2>2. Len(signings) \in DOMAIN signings
    BY <2>1, EmptySeq, LenProperties DEF TypeOK
  <2>3. Content = submitted /\ Content' = Content
    BY <2>1, <2>2 DEF SigningMatchesContent, Content
  <2> QED
    BY <2>1, <2>3
<1>10. CASE PdfFails
  BY <1>10 DEF PdfFails, Content
<1> QED
  BY <1>1, <1>2, <1>3, <1>4, <1>5, <1>6, <1>7, <1>8, <1>9, <1>10,
     StatusChanges

-----------------------------------------------------------------------------
(* The theorems *)

LEMMA InitInvariant == Init => IInv
<1> SUFFICES ASSUME Init
             PROVE  IInv
  OBVIOUS
<1> USE ConstantsAssumption DEF Init
<1>1. NoContent \in ContentSet
  BY DEF NoContent, ContentSet, NoAnswers, Answers
<1>2. /\ <<>> \in Seq(Answers) /\ <<>> \in Seq(Signing)
      /\ <<>> \in Seq(LinkState) /\ Len(<<>>) = 0
  BY EmptySeq
<1>3. IdleWindow \in Window
  BY <1>1 DEF IdleWindow, Window, CaseStatuses
<1>4. TypeOK
  BY <1>1, <1>2, <1>3 DEF TypeOK, CaseStatuses, StaffState
<1>5. SigningMatchesContent
  BY DEF SigningMatchesContent
<1>6. Prepared
  BY DEF Prepared, IdleWindow
<1>7. ReviewsSettleStatus /\ Submitted
  BY DEF ReviewsSettleStatus, Submitted, InReview, Finalization
<1> QED
  BY <1>4, <1>5, <1>6, <1>7 DEF IInv

\* The invariant is inductive.
LEMMA StepInvariant == IInv /\ [Next]_vars => IInv'
BY TypeStep, PreparedStep, SigningStep, ReviewsStep, SubmittedStep DEF IInv

\* The inductive invariant holds throughout.
THEOREM Invariance == Spec => []IInv
BY InitInvariant, StepInvariant, PTL DEF Spec

\* Every variable stays in its type; a signing always names a saved draft.
THEOREM TypeCorrect == Spec => []TypeOK
<1>1. IInv => TypeOK
  BY DEF IInv
<1> QED
  BY <1>1, Invariance, PTL

\* However many windows save, upload, preview, sign and submit at once, the
\* signing that counts signs what the case holds.
THEOREM SigningIsCurrent == Spec => []SigningMatchesContent
<1>1. IInv => SigningMatchesContent
  BY DEF IInv
<1> QED
  BY <1>1, Invariance, PTL

\* Decisions and status agree through rounds, retries and closes.
THEOREM ReviewsDecide == Spec => []ReviewsSettleStatus
<1>1. IInv => ReviewsSettleStatus
  BY DEF IInv
<1> QED
  BY <1>1, Invariance, PTL

\* A completed case holds what was submitted, and a signing that is valid
\* after the submission signs just that.
THEOREM CompletionIsAsSubmitted == Spec => []CompletedAsSubmitted
<1>1. IInv => CompletedAsSubmitted
  BY DEF IInv, Submitted, CompletedAsSubmitted, Covers
<1> QED
  BY <1>1, Invariance, PTL

\* No step takes back an approval of an earlier round, or decides outside a
\* review.
THEOREM ApprovalsAreKept == Spec => ApprovalsStand
<1>1. ASSUME TypeOK, Next
     PROVE  \A i \in Items :
              reviews'[i] # reviews[i] =>
                /\ caseStatus \in InReview
                /\ reviews[i] = "APPROVE" => caseStatus = "PENDING_REVIEW"
  <2>1. CASE reviews' = reviews
    BY <2>1
  <2>2. ASSUME NEW r \in Reviewers, NEW j \in Items,
               NEW d \in {"APPROVE", "REJECT"}, ReviewItem(r, j, d),
               NEW i \in Items, reviews'[i] # reviews[i]
       PROVE  /\ caseStatus \in InReview
              /\ reviews[i] = "APPROVE" => caseStatus = "PENDING_REVIEW"
    BY <1>1, <2>2 DEF TypeOK, ReviewItem, Reviewing, InReview
  <2>3. ASSUME ~\E r \in Reviewers, i \in Items,
                   d \in {"APPROVE", "REJECT"} : ReviewItem(r, i, d)
       PROVE  reviews' = reviews
    BY <1>1, <2>3, StatusChanges
    DEF SubmitDraft, SaveDraft, CommitSubmission, StaffStep, FindNoLink,
        InsertLink, CloseRead, CloseWrite, RetryRead, RetryWrite,
        StaffAborts, ConfirmRejected, ConfirmApproved, PdfCompletes,
        PdfFails, contentVars, requestVars
  <2> QED
    BY <2>1, <2>2, <2>3
<1> QED
  BY <1>1, TypeCorrect, PTL DEF Spec, ApprovalsStand
-----------------------------------------------------------------------------
(* The refinement *)

\* What some drafts and files make of a content.
LEMMA ContentOf ==
  ASSUME NEW ds \in Seq(Answers), NEW fs \in SUBSET Files
  PROVE  [answers |-> IF ds = <<>> THEN NoAnswers ELSE ds[Len(ds)],
          files |-> fs] \in ContentSet
<1>1. NoAnswers \in Answers
  BY DEF NoAnswers, Answers
<1>2. ds # <<>> => ds[Len(ds)] \in Answers
  BY EmptySeq, ElementOfSeq
<1> QED
  BY <1>1, <1>2 DEF ContentSet

\* If only the newest of some signings may be valid, and signs c, then the
\* newest tells whether c is signed.
LEMMA NewestSigns ==
  ASSUME NEW sgs \in Seq(Signing), NEW c,
         \A k \in DOMAIN sgs :
           sgs[k].valid => k = Len(sgs) /\ sgs[k].content = c
  PROVE  /\ (\E k \in DOMAIN sgs : sgs[k].valid) =>
               sgs # <<>> /\ sgs[Len(sgs)].valid
         /\ sgs # <<>> /\ sgs[Len(sgs)].valid =>
               /\ sgs[Len(sgs)].content = c
               /\ \E k \in DOMAIN sgs : sgs[k].valid
<1>1. DOMAIN sgs = 1 .. Len(sgs) /\ Len(sgs) \in Nat
  BY LenProperties
<1>2. sgs # <<>> => Len(sgs) \in DOMAIN sgs
  BY <1>1, EmptySeq
<1>3. (DOMAIN sgs # {}) => sgs # <<>>
  BY <1>1, EmptySeq
<1> QED
  BY <1>1, <1>2, <1>3

\* Every step is a step of the lifecycle, or none.
LEMMA LifecycleStep ==
  ASSUME IInv, IInv', [Next]_vars
  PROVE  [Lifecycle!Next]_(Lifecycle!vars)
<1> DEFINE Signed == \E k \in DOMAIN signings : signings[k].valid
           Passed == {i \in Items : reviews[i] = "APPROVE"}
<1>1. Signature = IF Signed THEN Content ELSE NoSignature
  BY NewestSigns DEF IInv, TypeOK, SigningMatchesContent, Signature
<1>2. Signature' = IF Signed' THEN Content' ELSE NoSignature
  <2> DEFINE c == Content'
             sgs == signings'
  <2>1. /\ sgs \in Seq(Signing)
        /\ \A k \in DOMAIN sgs :
             sgs[k].valid => k = Len(sgs) /\ sgs[k].content = c
    BY DEF IInv, TypeOK, SigningMatchesContent
  <2> HIDE DEF c, sgs
  <2>2. /\ (\E k \in DOMAIN sgs : sgs[k].valid) =>
             sgs # <<>> /\ sgs[Len(sgs)].valid
        /\ sgs # <<>> /\ sgs[Len(sgs)].valid =>
             /\ sgs[Len(sgs)].content = c
             /\ \E k \in DOMAIN sgs : sgs[k].valid
    BY <2>1, NewestSigns
  <2> USE DEF c, sgs
  <2> QED
    BY <2>2 DEF Signature
<1>3. Content \in ContentSet
  BY ContentTyped DEF IInv
<1>4. Content' \in ContentSet
  BY ContentOf DEF IInv, TypeOK, Content
<1>5. AllApproved <=> Passed = Items
  BY DEF AllApproved
<1>6. Submitted /\ TypeOK /\ Prepared /\ ReviewsSettleStatus
      /\ SigningMatchesContent
  BY DEF IInv
<1> USE DEF contentVars, requestVars
<1> HIDE DEF Signed, Passed
<1>7. ASSUME UNCHANGED <<drafts, files, signings>>
      PROVE  [Lifecycle!Next]_(Lifecycle!vars)
  <2>1. Content' = Content /\ Signature' = Signature /\ Signed' = Signed
    BY <1>7 DEF Content, Signature, Signed
  <2>2. CASE UNCHANGED <<caseStatus, reviews, submitted, staff>>
    BY <2>1, <2>2 DEF Lifecycle!vars, Passed
  <2>3. CASE SubmitDraft
    BY <2>1, <2>3
    DEF SubmitDraft, Passed, Lifecycle!Next, Lifecycle!Issue, Lifecycle!Moves
  <2>4. ASSUME NEW l \in DOMAIN links, NEW answers \in Answers,
               SaveDraft(l, answers)
        PROVE  FALSE
    <3>1. drafts' = Append(drafts, answers) /\ drafts \in Seq(Answers)
      BY <2>4, <1>6 DEF SaveDraft, TypeOK
    <3> QED
      BY <1>7, <3>1, AppendProperties, LenProperties
  <2>5. ASSUME NEW w \in Windows, CommitSubmission(w)
        PROVE  Lifecycle!Submit
    <3>1. /\ caseStatus = window[w].status /\ window[w].status \in Editable
          /\ window[w].signing \in DOMAIN signings
          /\ signings[window[w].signing].valid
          /\ submitted' = Content /\ reviews' = reviews
      BY <1>6, <2>5
      DEF CommitSubmission, StillAsRead, Prepared, SignedContent
    <3>2. Signature = Content
      BY <1>1, <3>1 DEF Signed
    <3>3. caseStatus' = IF caseStatus = "NEEDS_SUPPLEMENT"
                        THEN "PENDING_REREVIEW" ELSE "PENDING_REVIEW"
      BY <2>5 DEF CommitSubmission
    <3> QED
      BY <2>1, <3>1, <3>2, <3>3
      DEF Editable, Passed, Lifecycle!Submit, Lifecycle!Moves
  <2>6. ASSUME NEW s \in Staff, StaffStep(s)
        PROVE  [Lifecycle!Next]_(Lifecycle!vars)
    <3>1. UNCHANGED <<reviews, submitted>>
      BY <2>6
      DEF StaffStep, FindNoLink, InsertLink, CloseRead, CloseWrite, RetryRead,
          RetryWrite, StaffAborts
    <3>2. Passed' = Passed
      BY <3>1 DEF Passed
    <3>3. CASE caseStatus' = caseStatus
      BY <2>1, <3>1, <3>2, <3>3 DEF Lifecycle!vars, Passed
    <3>4. CASE CloseWrite(s) /\ caseStatus' # caseStatus
      <4>1. caseStatus' = "CLOSED" /\ caseStatus # "CLOSED"
        BY <3>4 DEF CloseWrite
      <4>2. Lifecycle!Close \/ Lifecycle!LateClose
        BY <2>1, <3>1, <3>2, <4>1
        DEF Passed, Lifecycle!Close, Lifecycle!LateClose, Lifecycle!Moves,
            Lifecycle!Terminal
      <4> QED
        BY <4>2 DEF Lifecycle!Next
    <3>5. CASE RetryWrite(s) /\ caseStatus' # caseStatus
      <4>1. /\ caseStatus' = "FINALIZING"
            /\ caseStatus \in {"PDF_FAILED", "COMPLETED", "CLOSED"}
            /\ Passed = Items
        BY <3>5, <1>5, <1>6
        DEF RetryWrite, Submitted, Finalization
      <4>2. Lifecycle!Retry \/ Lifecycle!LateRetry
        BY <2>1, <3>1, <3>2, <4>1
        DEF Passed, Lifecycle!Retry, Lifecycle!LateRetry, Lifecycle!Moves,
            Lifecycle!Terminal
      <4> QED
        BY <4>2 DEF Lifecycle!Next
    <3> QED
      BY <2>6, <3>3, <3>4, <3>5
      DEF StaffStep, FindNoLink, InsertLink, CloseRead, RetryRead, StaffAborts
  <2>7. ASSUME NEW r \in Reviewers, ConfirmRejected(r)
        PROVE  Lifecycle!SendBack
    BY <1>5, <2>1, <2>7
    DEF ConfirmRejected, Reviewing, InReview, Passed, Lifecycle!SendBack,
        Lifecycle!Moves, Lifecycle!InReview
  <2>8. ASSUME NEW r \in Reviewers, ConfirmApproved(r)
        PROVE  Lifecycle!Approve
    <3>1. /\ caseStatus \in InReview /\ caseStatus' = "FINALIZING"
          /\ AllApproved /\ Signed /\ UNCHANGED <<reviews, submitted>>
      BY <2>8 DEF ConfirmApproved, Reviewing, Signed
    <3>2. Content = submitted
      BY <1>6, <3>1 DEF Signed, Submitted, Covers, SigningMatchesContent
    <3> QED
      BY <1>1, <1>5, <2>1, <3>1, <3>2
      DEF InReview, Passed, Lifecycle!Approve, Lifecycle!Settled,
          Lifecycle!Moves, Lifecycle!InReview
  <2>9. ASSUME NEW r \in Reviewers, NEW i \in Items,
               NEW d \in {"APPROVE", "REJECT"}, ReviewItem(r, i, d)
        PROVE  Lifecycle!Decide
    <3>1. /\ caseStatus \in InReview
          /\ caseStatus = "PENDING_REREVIEW" => reviews[i] # "APPROVE"
          /\ reviews' = [reviews EXCEPT ![i] = d]
          /\ UNCHANGED <<caseStatus, submitted>>
      BY <2>9 DEF ReviewItem, Reviewing
    <3>2. caseStatus = "PENDING_REREVIEW" => Passed \subseteq Passed'
      BY <1>6, <3>1 DEF Passed, TypeOK
    <3>3. Passed' \in SUBSET Items
      BY DEF Passed
    <3> QED
      BY <2>1, <3>1, <3>2, <3>3
      DEF InReview, Passed, Lifecycle!Decide, Lifecycle!InReview
  <2>10. CASE PdfCompletes
    <3>1. /\ caseStatus \in {"FINALIZING", "PDF_FAILED"}
          /\ caseStatus' = "COMPLETED"
          /\ AllApproved /\ UNCHANGED <<reviews, submitted>>
          /\ signings # <<>> /\ signings[Len(signings)].valid
      BY <2>10 DEF PdfCompletes
    <3>2. Signed
      BY <1>6, <3>1, NewestSigns DEF Signed, TypeOK, SigningMatchesContent
    <3>3. Content = submitted
      BY <1>6, <3>1, <3>2
      DEF Signed, Submitted, Covers, SigningMatchesContent, Finalization
    <3>4. Lifecycle!Complete \/ Lifecycle!LateComplete
      BY <1>1, <1>5, <2>1, <3>1, <3>2, <3>3
      DEF Passed, Lifecycle!Complete, Lifecycle!LateComplete,
          Lifecycle!Settled, Lifecycle!Moves
    <3> QED
      BY <3>4 DEF Lifecycle!Next
  <2>11. CASE PdfFails
    BY <2>1, <2>11
    DEF PdfFails, Passed, Lifecycle!Next, Lifecycle!Fail, Lifecycle!Moves
  <2> QED
    BY <2>2, <2>3, <2>4, <2>5, <2>6, <2>7, <2>8, <2>9, <2>10, <2>11,
       StatusChanges
    DEF Lifecycle!Next
<1>8. ASSUME NEW l \in DOMAIN links, Resolves(l), signings' = Invalidated,
             UNCHANGED <<reviews, submitted>>,
             \/ caseStatus' = caseStatus
             \/ /\ caseStatus = "AWAITING_CUSTOMER"
                /\ caseStatus' = "CUSTOMER_EDITING",
             Content' # Content \/ Signed' = Signed
      PROVE  Lifecycle!Change
  <2>1. ~Signed'
    BY <1>6, <1>8, InvalidatedTyped DEF Signed
  <2>2. Signature' = IF Content' = Content THEN Signature ELSE NoSignature
    BY <1>1, <1>2, <1>8, <2>1
  <2>3. Passed' = Passed /\ caseStatus \notin {"COMPLETED", "CLOSED"}
    BY <1>8 DEF Passed, Resolves, Terminal
  <2> QED
    BY <1>4, <1>8, <2>2, <2>3
    DEF Passed, Lifecycle!Change, Lifecycle!Moves, Lifecycle!Terminal
<1>9. ASSUME NEW l \in DOMAIN links, NEW answers \in Answers,
             SaveDraft(l, answers)
      PROVE  Lifecycle!Change
  <2>1. Content' = [answers |-> answers, files |-> files]
    <3>1. drafts' = Append(drafts, answers) /\ files' = files
          /\ drafts \in Seq(Answers)
      BY <1>6, <1>9 DEF SaveDraft, TypeOK
    <3>2. drafts' # <<>> /\ drafts'[Len(drafts')] = answers
      BY <3>1, AppendProperties, LenProperties
    <3> QED
      BY <3>1, <3>2 DEF Content
  <2>2. Content = [answers |-> Content.answers, files |-> files]
    BY DEF Content
  <2>3. /\ Resolves(l) /\ UNCHANGED <<reviews, submitted>>
        /\ \/ caseStatus' = caseStatus
           \/ /\ caseStatus = "AWAITING_CUSTOMER"
              /\ caseStatus' = "CUSTOMER_EDITING"
    BY <1>9 DEF SaveDraft
  <2>4. CASE answers = Content.answers
    <3>1. signings' = signings /\ Content' = Content
      BY <1>9, <2>1, <2>2, <2>4 DEF SaveDraft
    <3>2. Signature' = Signature /\ Passed' = Passed
      BY <2>3, <3>1 DEF Signature, Passed
    <3>3. caseStatus \notin {"COMPLETED", "CLOSED"}
      BY <2>3 DEF Resolves, Terminal
    <3> QED
      BY <1>4, <2>3, <3>1, <3>2, <3>3
      DEF Passed, Lifecycle!Change, Lifecycle!Moves, Lifecycle!Terminal
  <2>5. CASE answers # Content.answers
    <3>1. Content' # Content
      BY <2>1, <2>2, <2>5
    <3>2. signings' = Invalidated
      BY <1>9, <2>5 DEF SaveDraft
    <3> QED
      BY <1>8, <2>3, <3>1, <3>2
  <2> QED
    BY <2>4, <2>5
<1>10. ASSUME NEW l \in DOMAIN links, NEW f \in Files,
              UploadFile(l, f) \/ RemoveFile(l, f)
       PROVE  Lifecycle!Change
  <2>1. files' # files /\ Content.files = files /\ Content'.files = files'
    BY <1>10 DEF UploadFile, RemoveFile, Content
  <2>2. Content' # Content
    BY <2>1
  <2>3. /\ Resolves(l) /\ signings' = Invalidated
        /\ UNCHANGED <<reviews, submitted, caseStatus>>
    BY <1>10 DEF UploadFile, RemoveFile
  <2> QED
    BY <1>8, <2>2, <2>3
<1>11. ASSUME NEW w \in Windows, CommitSigning(w)
       PROVE  Lifecycle!Sign
  <2>1. /\ caseStatus \in Editable
        /\ signings' = Append(Invalidated, [draft |-> Len(drafts),
                                            content |-> Content,
                                            valid |-> TRUE])
        /\ UNCHANGED <<caseStatus, drafts, files, reviews, submitted>>
    BY <1>6, <1>11 DEF CommitSigning, StillAsRead, Prepared
  <2>2. Content' = Content
    BY <2>1 DEF Content
  <2>3. /\ Invalidated \in Seq(Signing)
        /\ signings' \in Seq(Signing)
    BY <1>6, InvalidatedTyped DEF IInv, TypeOK
  <2>4. Signed'
    <3> DEFINE new == [draft |-> Len(drafts), content |-> Content,
                       valid |-> TRUE]
               ended == Invalidated
    <3>1. /\ signings' = Append(ended, new)
          /\ ended \in Seq(Signing)
      BY <2>1, <2>3
    <3>2. new.valid
      OBVIOUS
    <3> HIDE DEF new, ended
    <3>3. signings'[Len(ended) + 1] = new /\ Len(signings') = Len(ended) + 1
      BY <3>1, AppendProperties
    <3>4. Len(ended) + 1 \in DOMAIN signings'
      BY <2>3, <3>1, <3>3, LenProperties
    <3> QED
      BY <3>2, <3>3, <3>4 DEF Signed
  <2>5. Signature' = Content
    BY <1>2, <2>2, <2>4
  <2> QED
    BY <2>1, <2>2, <2>5
    DEF Editable, Lifecycle!Sign, Lifecycle!Editable
<1> QED
  BY <1>7, <1>9, <1>10, <1>11, ContentChanges DEF Lifecycle!Next

\* The case of links, windows and requests implements the lifecycle.
THEOREM ImplementsLifecycle == Spec => KeepsLifecycle
<1>1. Init => Lifecycle!Init
  <2> SUFFICES ASSUME Init
               PROVE  Lifecycle!Init
    OBVIOUS
  <2>1. NoContent \in ContentSet
    BY DEF NoContent, ContentSet, NoAnswers, Answers
  <2>2. Content = NoContent /\ Signature = NoSignature
    BY DEF Init, Content, NoContent, Signature
  <2> QED
    BY <2>1, <2>2 DEF Init, Lifecycle!Init
<1>2. IInv /\ IInv' /\ [Next]_vars => [Lifecycle!Next]_(Lifecycle!vars)
  BY LifecycleStep
<1> QED
  BY <1>1, <1>2, Invariance, PTL DEF Spec, KeepsLifecycle, Lifecycle!Spec

\* What the life cycle promises of every case that keeps it.
LEMMA PromiseInductive ==
  ASSUME Lifecycle!Promised, [Lifecycle!Next]_(Lifecycle!vars)
  PROVE  Lifecycle!Promised'
<1> USE DEF Lifecycle!Promised, Lifecycle!Settled, Lifecycle!Moves
<1>1. CASE Lifecycle!Change
  BY <1>1 DEF Lifecycle!Change, Lifecycle!Terminal
<1>2. CASE Lifecycle!Sign
  BY <1>2 DEF Lifecycle!Sign, Lifecycle!Editable
<1>3. CASE Lifecycle!Decide
  BY <1>3 DEF Lifecycle!Decide, Lifecycle!InReview
<1>4. CASE Lifecycle!Complete \/ Lifecycle!LateComplete
  BY <1>4 DEF Lifecycle!Complete, Lifecycle!LateComplete
<1>5. CASE \/ Lifecycle!Issue \/ Lifecycle!Submit \/ Lifecycle!SendBack
           \/ Lifecycle!Approve \/ Lifecycle!Fail \/ Lifecycle!Retry
           \/ Lifecycle!Close \/ Lifecycle!LateRetry \/ Lifecycle!LateClose
  <2>1. caseStatus' # "COMPLETED" /\ Content' = Content /\ Signature' = Signature
    BY <1>5 DEF Lifecycle!Issue, Lifecycle!Submit, Lifecycle!SendBack,
                Lifecycle!Approve, Lifecycle!Fail, Lifecycle!Retry,
                Lifecycle!Close, Lifecycle!LateRetry, Lifecycle!LateClose
  <2> QED BY <2>1
<1>6. CASE UNCHANGED Lifecycle!vars
  BY <1>6 DEF Lifecycle!vars
<1> QED BY <1>1, <1>2, <1>3, <1>4, <1>5, <1>6 DEF Lifecycle!Next

\* A case that keeps the life cycle is signed as it is, and completed only as it
\* was submitted and signed, with every item approved.
THEOREM LifecycleIsSound == KeepsLifecycle => []Lifecycle!Promised
<1>1. Lifecycle!Init => Lifecycle!Promised
  BY DEF Lifecycle!Init, Lifecycle!Promised
<1>2. Lifecycle!Promised /\ [Lifecycle!Next]_(Lifecycle!vars) => Lifecycle!Promised'
  BY PromiseInductive
<1> QED BY <1>1, <1>2, PTL DEF KeepsLifecycle, Lifecycle!Spec
=============================================================================
