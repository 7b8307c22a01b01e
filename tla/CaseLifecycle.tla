---------------------------- MODULE CaseLifecycle ----------------------------
(***************************************************************************)
(* What chapter 5 of the design promises of a case, as its parties see it:   *)
(* each of their operations is one step.  There are no links, windows,       *)
(* draft versions, requests in two transactions, tasks or queues here.  A    *)
(* case is signed when it holds what was signed last; it is submitted,       *)
(* approved and completed only as it was signed.                             *)
(*                                                                           *)
(* Three steps are not in the design.  LateRetry and LateClose: the code     *)
(* reads the status, and writes the new one by id.  LateComplete: a delivery *)
(* that passes after the failure of another was recorded completes the case. *)
(***************************************************************************)
CONSTANTS
  Contents,     \* what a case may hold: answers and files
  Items,        \* what a reviewer decides about
  NoSignature   \* nothing valid is signed

VARIABLES
  status,       \* the main status
  content,      \* what the case holds
  signature,    \* the content that is validly signed
  submitted,    \* the content at the last submission
  approved      \* the items a reviewer approved

vars == <<status, content, signature, submitted, approved>>

Terminal == {"COMPLETED", "CLOSED"}
Editable == {"AWAITING_CUSTOMER", "CUSTOMER_EDITING", "NEEDS_SUPPLEMENT"}
InReview == {"PENDING_REVIEW", "PENDING_REREVIEW"}

Init ==
  /\ status = "DRAFT"
  /\ content \in Contents
  /\ signature = NoSignature
  /\ submitted \in Contents
  /\ approved = {}

Moves(from, to) ==
  status \in from /\ status' = to

Issue ==
  /\ Moves({"DRAFT"}, "AWAITING_CUSTOMER")
  /\ UNCHANGED <<content, signature, submitted, approved>>

\* A signature never survives a change of what was signed.
Change ==
  /\ status \notin Terminal
  /\ content' \in Contents
  /\ signature' = IF content' = content THEN signature ELSE NoSignature
  /\ \/ UNCHANGED status
     \/ Moves({"AWAITING_CUSTOMER"}, "CUSTOMER_EDITING")
  /\ UNCHANGED <<submitted, approved>>

Sign ==
  /\ status \in Editable
  /\ signature' = content
  /\ UNCHANGED <<status, content, submitted, approved>>

Submit ==
  /\ signature = content
  /\ \/ Moves({"AWAITING_CUSTOMER", "CUSTOMER_EDITING"}, "PENDING_REVIEW")
     \/ Moves({"NEEDS_SUPPLEMENT"}, "PENDING_REREVIEW")
  /\ submitted' = content
  /\ UNCHANGED <<content, signature, approved>>

\* A first review may change its mind; a re-review adds approvals only.
Decide ==
  /\ status \in InReview
  /\ approved' \in SUBSET Items
  /\ status = "PENDING_REREVIEW" => approved \subseteq approved'
  /\ UNCHANGED <<status, content, signature, submitted>>

SendBack ==
  /\ approved # Items
  /\ Moves(InReview, "NEEDS_SUPPLEMENT")
  /\ UNCHANGED <<content, signature, submitted, approved>>

\* Every item approved, and what is signed is what was submitted.
Settled ==
  approved = Items /\ signature = submitted /\ content = submitted

Approve ==
  /\ Settled
  /\ Moves(InReview, "FINALIZING")
  /\ UNCHANGED <<content, signature, submitted, approved>>

Complete ==
  /\ Settled
  /\ Moves({"FINALIZING"}, "COMPLETED")
  /\ UNCHANGED <<content, signature, submitted, approved>>

Fail ==
  /\ Moves({"FINALIZING"}, "PDF_FAILED")
  /\ UNCHANGED <<content, signature, submitted, approved>>

Retry ==
  /\ Moves({"PDF_FAILED"}, "FINALIZING")
  /\ UNCHANGED <<content, signature, submitted, approved>>

Close ==
  /\ status \notin Terminal
  /\ status' = "CLOSED"
  /\ UNCHANGED <<content, signature, submitted, approved>>

\* Without the retry that the design puts in between.
LateComplete ==
  /\ Settled
  /\ Moves({"PDF_FAILED"}, "COMPLETED")
  /\ UNCHANGED <<content, signature, submitted, approved>>

LateRetry ==
  /\ approved = Items
  /\ Moves(Terminal, "FINALIZING")
  /\ UNCHANGED <<content, signature, submitted, approved>>

LateClose ==
  /\ Moves({"COMPLETED"}, "CLOSED")
  /\ UNCHANGED <<content, signature, submitted, approved>>

Next ==
  \/ Issue \/ Change \/ Sign \/ Submit \/ Decide \/ SendBack \/ Approve
  \/ Complete \/ Fail \/ Retry \/ Close
  \/ LateComplete \/ LateRetry \/ LateClose

Spec == Init /\ [][Next]_vars

-----------------------------------------------------------------------------
\* What is signed is what the case holds; and a completed case, whatever was
\* changed, reopened, retried or closed late before, holds as signed what was
\* submitted, with every item approved.
Promised ==
  /\ signature # NoSignature => signature = content
  /\ status = "COMPLETED" => Settled
=============================================================================
