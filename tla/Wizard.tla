------------------------------- MODULE Wizard -------------------------------
(***************************************************************************)
(* The customer's page over the drafts of one case: a page opens at the     *)
(* newest version, saves what is typed after a pause, saves at once and     *)
(* asks for a preview when the last step begins, asks the customer when a   *)
(* save conflicts, and submits what it shows.  Pages are windows, reloads   *)
(* or visits of the same link; their requests arrive, and are answered, in  *)
(* any order or not at all.                                                 *)
(*                                                                         *)
(* The answers of a page are the number of its edits: <<p, n>> stands for   *)
(* what page p holds after n edits, <<None, 0>> for a page as it opens.     *)
(***************************************************************************)
EXTENDS Naturals, Sequences, FiniteSets

CONSTANTS
  Pages,        \* windows, reloads and visits
  None,
  MaxEdits,     \* bound: edits of each page
  MaxSaves,     \* bound: saves sent by all pages
  MaxPreviews,  \* bound: previews asked for by all pages
  MaxLost,      \* bound: pages of which a save is lost
  MaxMoves      \* bound: steps back and disconnections of each page

ASSUME ConstantsAssumption ==
  /\ MaxEdits \in [Pages -> Nat] /\ MaxMoves \in [Pages -> Nat]
  /\ MaxSaves \in Nat /\ MaxPreviews \in Nat /\ MaxLost \in Nat
  /\ None \notin Pages

VARIABLES
  page,       \* state, refs and pending timers of each page
  saves,      \* PUT /public/draft and POST /public/draft/versions under way
  asks,       \* POST /public/signing/preview under way
  drafts,     \* CaseDraft rows, by version
  rendered,   \* contents that have a PRESIGN_PDF
  signing,    \* the valid SigningRecord, or None
  submitted,  \* what was submitted and, as a ghost, what the page showed
  sent,       \* how many saves and previews have been asked for
  lost        \* pages one of whose saves was lost (ghost)

vars == <<page, saves, asks, drafts, rendered, signing, submitted, sent, lost>>
serverVars == <<drafts, rendered, signing, submitted>>

-----------------------------------------------------------------------------
(* Types *)

Contents == (Pages \cup {None}) \X Nat
Content(p, edit) == IF edit = 0 THEN <<None, 0>> ELSE <<p, edit>>
Timer == [base : Nat, edit : Nat]
ASSUME NoneAssumption == None \notin Timer
Version == Len(drafts)
Newest == drafts[Version].content

Page ==
  [life : {"new", "open", "left"},
   opened : Nat,                             \* the version it opened at
   version : Nat, edit : Nat, step : {"filling", "signing"},
   timer : Timer \cup {None}, status : {"saved", "saving", "failed", "offline"},
   conflict : BOOLEAN, online : BOOLEAN, moves : Nat,
   again : BOOLEAN,                          \* ghost: see KeepLocal
   shown : Contents \cup {None},             \* content of the preview shown
   blobs : SUBSET (1 .. MaxPreviews),        \* object URLs not revoked
   current : 0 .. MaxPreviews,               \* previewRef
   submitting : {"no", "sent", "prepared"},
   over : Contents \cup {None}]              \* the preview submitted over

Save ==
  [id : 1 .. MaxSaves, by : Pages, how : {"auto", "next", "force"},
   base : Nat, edit : Nat, state : {"sent", "accepted", "refused"},
   version : Nat]

Ask ==
  [id : 1 .. MaxPreviews, by : Pages, state : {"sent", "ready"},
   of : Contents \cup {None}]

Draft == [content : Contents, forced : BOOLEAN, by : Pages]

TypeOK ==
  /\ page \in [Pages -> Page]
  /\ saves \subseteq Save /\ asks \subseteq Ask
  /\ drafts \in Seq(Draft)
  /\ rendered \subseteq Contents
  /\ signing \in [content : Contents, by : Pages] \cup {None}
  /\ submitted \in [content : Contents, shown : Contents \cup {None}] \cup {None}
  /\ sent \in [saves : 0 .. MaxSaves, previews : 0 .. MaxPreviews]
  /\ lost \in [Pages -> BOOLEAN]
  \* No page knows a version that does not exist.
  /\ \A p \in Pages :
       /\ page[p].opened <= Version /\ page[p].version <= Version
       /\ page[p].timer # None => page[p].timer.base <= Version
  /\ \A s \in saves : s.base <= Version /\ s.version <= Version

NewPage ==
  [life |-> "new", opened |-> 0, version |-> 0, edit |-> 0, step |-> "filling",
   timer |-> None, status |-> "saved", conflict |-> FALSE, online |-> TRUE,
   moves |-> 0, again |-> FALSE, shown |-> None, blobs |-> {}, current |-> 0,
   submitting |-> "no", over |-> None]

Init ==
  /\ page = [p \in Pages |-> NewPage]
  /\ saves = {} /\ asks = {}
  /\ drafts = <<>> /\ rendered = {} /\ signing = None /\ submitted = None
  /\ sent = [saves |-> 0, previews |-> 0]
  /\ lost = [p \in Pages |-> FALSE]

-----------------------------------------------------------------------------
(* Helpers *)

Open(p) == page[p].life = "open"

\* FAULTY: a timer that runs is not replaced.
AutosaveOnce(r) ==
  IF r.online
  THEN [r EXCEPT !.timer = IF @ = None THEN [base |-> r.version, edit |-> r.edit]
                           ELSE @,
                 !.status = "saving"]
  ELSE [r EXCEPT !.timer = None, !.status = "offline"]

\* The effect of [answers, step, online]: the earlier timer is cleared, and
\* the new one holds the version and the answers of this rendering.
Autosave(r) ==
  IF r.online
  THEN [r EXCEPT !.timer = [base |-> r.version, edit |-> r.edit],
                 !.status = "saving"]
  ELSE [r EXCEPT !.timer = None, !.status = "offline"]

Send(p, how, base, edit) ==
  /\ sent.saves < MaxSaves
  /\ sent' = [sent EXCEPT !.saves = @ + 1]
  /\ saves' = saves \cup
       {[id |-> sent.saves + 1, by |-> p, how |-> how, base |-> base,
         edit |-> edit, state |-> "sent", version |-> 0]}

\* setStep(3), and the effect if this is a change.
ToSigning(r) ==
  IF r.step = "signing" THEN r ELSE Autosave([r EXCEPT !.step = "signing"])

-----------------------------------------------------------------------------
(* The page *)

\* publicView() gives the newest version and no answers.
OpenPage(p) ==
  /\ page[p].life = "new" /\ submitted = None
  /\ page' = [page EXCEPT ![p].life = "open", ![p].opened = Version,
                          ![p].version = Version]
  /\ UNCHANGED <<saves, asks, serverVars, sent, lost>>

\* The window is closed or loaded again.
LeavePage(p) ==
  /\ Open(p)
  /\ page' = [page EXCEPT ![p] =
       [NewPage EXCEPT !.life = "left", !.opened = page[p].opened,
                       !.blobs = page[p].blobs \ {page[p].current},
                       !.submitting = page[p].submitting, !.over = page[p].over]]
  /\ UNCHANGED <<saves, asks, serverVars, sent, lost>>

\* updateAnswer(), under no dialog.
Edit(p) ==
  /\ Open(p) /\ page[p].step = "filling" /\ ~page[p].conflict
  /\ page[p].edit < MaxEdits[p]
  /\ page' = [page EXCEPT ![p] = Autosave([page[p] EXCEPT !.edit = @ + 1])]
  /\ UNCHANGED <<saves, asks, serverVars, sent, lost>>

\* The previous step, or a step before the last one.
Move(p) ==
  /\ Open(p) /\ ~page[p].conflict /\ page[p].moves < MaxMoves[p]
  /\ page' = [page EXCEPT ![p] =
       Autosave([page[p] EXCEPT !.step = "filling", !.moves = @ + 1])]
  /\ UNCHANGED <<saves, asks, serverVars, sent, lost>>

Connection(p) ==
  /\ Open(p) /\ (page[p].online => page[p].moves < MaxMoves[p])
  /\ page' = [page EXCEPT ![p] =
       Autosave([page[p] EXCEPT !.online = ~@, !.moves = IF page[p].online THEN @ + 1 ELSE @])]
  /\ UNCHANGED <<saves, asks, serverVars, sent, lost>>

\* 600 ms after the last change.
TimerFires(p) ==
  /\ page[p].timer # None
  /\ Send(p, "auto", page[p].timer.base, page[p].timer.edit)
  /\ page' = [page EXCEPT ![p].timer = None]
  /\ UNCHANGED <<asks, serverVars, lost>>

\* next() of the third step: a save at once; a timer keeps running.
NextStep(p) ==
  /\ Open(p) /\ page[p].step = "filling" /\ ~page[p].conflict
  /\ Send(p, "next", page[p].version, page[p].edit)
  /\ page' = [page EXCEPT ![p].status = "saving"]
  /\ UNCHANGED <<asks, serverVars, lost>>

\* onForceSave(): the button of the dialog, which stays while it is under way
\* and may be pressed again.
KeepLocal(p) ==
  /\ Open(p) /\ page[p].conflict
  /\ Send(p, "force", page[p].version, page[p].edit)
  /\ page' = [page EXCEPT ![p].again =
       @ \/ \E s \in saves : s.by = p /\ s.how = "force"]
  /\ UNCHANGED <<asks, serverVars, lost>>

\* The answer to an autosave.
AutosaveAnswered(s) ==
  LET p == s.by IN
  /\ s.how = "auto" /\ s.state \in {"accepted", "refused"}
  /\ saves' = saves \ {s}
  /\ page' = IF ~Open(p) THEN page
             ELSE IF s.state = "accepted"
             THEN [page EXCEPT ![p].version = s.version, ![p].status = "saved"]
             ELSE [page EXCEPT ![p].conflict = TRUE, ![p].status = "failed"]
  /\ UNCHANGED <<asks, serverVars, sent, lost>>

\* The answer to next()'s save: the step changes before the preview is there,
\* which is asked for even when the page has gone.
NextAnswered(s) ==
  LET p == s.by IN
  /\ s.how = "next" /\ s.state \in {"accepted", "refused"}
  /\ saves' = saves \ {s}
  /\ page' = IF ~Open(p) THEN page
             ELSE [page EXCEPT ![p] = ToSigning(
               IF s.state = "accepted"
               THEN [page[p] EXCEPT !.version = s.version, !.status = "saved"]
               ELSE [page[p] EXCEPT !.status = "failed"])]
  /\ IF s.state = "accepted"
     THEN /\ sent.previews < MaxPreviews
          /\ sent' = [sent EXCEPT !.previews = @ + 1]
          /\ asks' = asks \cup {[id |-> sent.previews + 1, by |-> p,
                                 state |-> "sent", of |-> None]}
     ELSE UNCHANGED <<asks, sent>>
  /\ UNCHANGED <<serverVars, lost>>

ForceAnswered(s) ==
  LET p == s.by IN
  /\ s.how = "force" /\ s.state = "accepted"
  /\ saves' = saves \ {s}
  /\ page' = IF Open(p)
             THEN [page EXCEPT ![p].version = s.version, ![p].conflict = FALSE,
                               ![p].status = "saved"]
             ELSE page
  /\ UNCHANGED <<asks, serverVars, sent, lost>>

\* A save that never arrives, or whose answer does not: status 0 for the page.
SaveLost(s) ==
  LET p == s.by IN
  /\ Cardinality({q \in Pages : lost[q]}) < MaxLost
  /\ saves' = saves \ {s}
  /\ lost' = [lost EXCEPT ![p] = TRUE]
  /\ page' = IF ~Open(p) \/ s.how = "force" THEN page
             ELSE [page EXCEPT ![p] =
               IF s.how = "next" THEN ToSigning([page[p] EXCEPT !.status = "failed"])
                                 ELSE [page[p] EXCEPT !.status = "failed"]]
  /\ UNCHANGED <<asks, serverVars, sent>>

\* FAULTY: a page that is gone is given its URL all the same.
PreviewArrivesAnyway(k) ==
  LET p == k.by IN
  /\ k.state = "ready"
  /\ asks' = asks \ {k}
  /\ page' = [page EXCEPT ![p].shown = k.of, ![p].current = k.id,
                          ![p].blobs = (@ \ {page[p].current}) \cup {k.id}]
  /\ UNCHANGED <<saves, serverVars, sent, lost>>

\* The preview arrives and replaces the one shown, whichever was asked first;
\* a page that is gone revokes what it is given.
PreviewArrives(k) ==
  LET p == k.by IN
  /\ k.state = "ready"
  /\ asks' = asks \ {k}
  /\ page' = IF Open(p)
             THEN [page EXCEPT ![p].shown = k.of, ![p].current = k.id,
                               ![p].blobs = (@ \ {page[p].current}) \cup {k.id}]
             ELSE page
  /\ UNCHANGED <<saves, serverVars, sent, lost>>

\* Rendering, or one of the two requests, fails: the preview shown stays.
PreviewFails(k) ==
  LET p == k.by IN
  /\ asks' = asks \ {k}
  /\ page' = IF Open(p)
             THEN [page EXCEPT ![p] = ToSigning([page[p] EXCEPT !.status = "failed"])]
             ELSE page
  /\ UNCHANGED <<saves, serverVars, sent, lost>>

\* submit(), with a signature and the consent given.
Submit(p) ==
  /\ Open(p) /\ page[p].step = "signing" /\ ~page[p].conflict
  /\ page[p].shown # None /\ page[p].submitting = "no"
  /\ page' = [page EXCEPT ![p].submitting = "sent", ![p].over = page[p].shown]
  /\ UNCHANGED <<saves, asks, serverVars, sent, lost>>

-----------------------------------------------------------------------------
(* The API *)

\* FAULTY: a save is refused only when it comes from the future.
VersionIsKnown(s) == s.how = "force" \/ s.base <= Version

\* Two windows: only the newest version may be replaced without being asked.
VersionMatches(s) == s.how = "force" \/ s.base = Version

\* FAULTY: the version is counted again after the insertion.
AcceptedAhead(s) == [s EXCEPT !.state = "accepted", !.version = Version + 2]

Accepted(s) == [s EXCEPT !.state = "accepted", !.version = Version + 1]

\* savePublicDraft(): a change of the content ends the signing.
SaveDraft(s) ==
  LET content == Content(s.by, s.edit) IN
  /\ s.state = "sent" /\ submitted = None
  /\ IF VersionMatches(s)
     THEN /\ drafts' = Append(drafts, [content |-> content, by |-> s.by,
                                       forced |-> s.how = "force"])
          /\ signing' = IF Version > 0 /\ Newest = content THEN signing ELSE None
          /\ saves' = (saves \ {s}) \cup {Accepted(s)}
     ELSE /\ saves' = (saves \ {s}) \cup {[s EXCEPT !.state = "refused"]}
          /\ UNCHANGED <<drafts, signing>>
  /\ UNCHANGED <<page, asks, rendered, submitted, sent, lost>>

\* createPresignPreview(): of the newest draft.
RenderPreview(k) ==
  /\ k.state = "sent" /\ submitted = None /\ Version > 0
  /\ rendered' = rendered \cup {Newest}
  /\ asks' = (asks \ {k}) \cup {[k EXCEPT !.state = "ready", !.of = Newest]}
  /\ UNCHANGED <<page, saves, drafts, signing, submitted, sent, lost>>

\* prepareOrdinarySigning(): the newest draft, which must have a preview.
PrepareSigning(p) ==
  /\ page[p].submitting = "sent"
  /\ \/ /\ submitted = None /\ Newest \in rendered
        /\ signing' = [content |-> Newest, by |-> p]
        /\ page' = [page EXCEPT ![p].submitting = "prepared"]
     \/ /\ UNCHANGED signing
        /\ page' = [page EXCEPT ![p].submitting = "no", ![p].over = None]
  /\ UNCHANGED <<saves, asks, drafts, rendered, submitted, sent, lost>>

\* submitPublic(): the signing that was prepared must be valid and current.
SubmitCase(p) ==
  /\ page[p].submitting = "prepared"
  /\ \/ /\ submitted = None
        /\ signing # None /\ signing = [content |-> Newest, by |-> p]
        /\ submitted' = [content |-> Newest, shown |-> page[p].over]
     \/ UNCHANGED submitted
  /\ page' = [page EXCEPT ![p].submitting = "no", ![p].over = None]
  /\ UNCHANGED <<saves, asks, drafts, rendered, signing, sent, lost>>

-----------------------------------------------------------------------------
PageStep(p) ==
  \/ OpenPage(p) \/ LeavePage(p) \/ Edit(p) \/ Move(p) \/ Connection(p)
  \/ TimerFires(p) \/ NextStep(p) \/ KeepLocal(p) \/ Submit(p)
  \/ PrepareSigning(p) \/ SubmitCase(p)

SaveStep(s) ==
  \/ SaveDraft(s) \/ AutosaveAnswered(s) \/ NextAnswered(s)
  \/ ForceAnswered(s) \/ SaveLost(s)

PreviewStep(k) == RenderPreview(k) \/ PreviewArrives(k) \/ PreviewFails(k)

\* After the submission everything is refused: the model ends there.
Next ==
  /\ submitted = None
  /\ \/ \E p \in Pages : PageStep(p)
     \/ \E s \in saves : SaveStep(s)
     \/ \E k \in asks : PreviewStep(k)

Spec == Init /\ [][Next]_vars

-----------------------------------------------------------------------------
(* Safety *)

\* Of two windows the second to save is asked, in whatever order saves arrive
\* and are answered: what another page stored while this one was open is never
\* replaced without the dialog.  What was stored before it opened is, by the
\* page's first draft and by no later one: publicView() gives a page the
\* version but not the answers, so it starts empty and is not asked.
DraftsMeanwhileAreKept ==
  \A v \in DOMAIN drafts :
    LET p == drafts[v].by IN
    ~drafts[v].forced /\ v > 1 /\ drafts[v - 1].by # p =>
      /\ v - 1 <= page[p].opened
      /\ \A w \in 1 .. v - 1 : drafts[w].by # p

\* A save that is not forced never brings back earlier answers of its page,
\* though an earlier save may arrive after a later one.
EditsInOrder ==
  \A v, w \in DOMAIN drafts :
    v < w /\ drafts[v].by = drafts[w].by /\ ~drafts[w].forced =>
      drafts[v].content[2] <= drafts[w].content[2]

\* The newest draft of the page holds its last edit.
Stored(p) ==
  \E v \in DOMAIN drafts :
    /\ drafts[v].by = p /\ drafts[v].content = Content(p, page[p].edit)
    /\ \A w \in DOMAIN drafts : w > v => drafts[w].by # p

\* When the page says that the draft is saved, asks nothing and has nothing
\* under way, its last edit is in its newest draft - unless one of its saves
\* was lost, or the dialog was answered twice: then the second forced save may
\* arrive after a later edit was stored, and brings back the answers before it.
SavedIsStored ==
  \A p \in Pages :
    /\ Open(p) /\ page[p].online /\ page[p].edit > 0 /\ page[p].status = "saved"
    /\ page[p].timer = None /\ ~page[p].conflict
    /\ \A s \in saves : s.by # p
    /\ ~lost[p] /\ ~page[p].again
    => Stored(p)

\* However previews are asked for again, arrive late or out of order, or find
\* their page gone: the URL shown is not revoked, and no other is left over.
UrlsAreShown ==
  \A p \in Pages :
    page[p].blobs =
      IF Open(p) /\ page[p].current > 0 THEN {page[p].current} ELSE {}
=============================================================================
