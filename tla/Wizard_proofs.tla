---------------------------- MODULE Wizard_proofs ----------------------------
(* Theorems of Wizard, for any pages and any number of edits and saves. *)
EXTENDS Wizard, SequenceTheorems, TLAPS

-----------------------------------------------------------------------------
(* One page *)

\* t is r but for what an autosave changes.
Kept(r, t) ==
  /\ t \in Page
  /\ t.life = r.life /\ t.opened = r.opened /\ t.version = r.version
  /\ t.edit = r.edit /\ t.blobs = r.blobs /\ t.current = r.current
  /\ t.timer \in {r.timer, None, [base |-> r.version, edit |-> r.edit]}

LEMMA AutosaveKeeps ==
  ASSUME NEW r \in Page
  PROVE  Kept(r, Autosave(r))
<1>1. [base |-> r.version, edit |-> r.edit] \in Timer
  BY DEF Page, Timer
<1>2. CASE r.online
  <2>1. Autosave(r) = [r EXCEPT !.timer = [base |-> r.version, edit |-> r.edit],
                                !.status = "saving"]
    BY <1>2 DEF Autosave
  <2>2. Autosave(r) \in Page
    BY <1>1, <2>1 DEF Page
  <2> QED BY <2>1, <2>2 DEF Kept, Page
<1>3. CASE ~r.online
  <2>1. Autosave(r) = [r EXCEPT !.timer = None, !.status = "offline"]
    BY <1>3 DEF Autosave
  <2>2. Autosave(r) \in Page
    BY <2>1 DEF Page
  <2> QED BY <2>1, <2>2 DEF Kept, Page
<1> QED BY <1>2, <1>3

LEMMA ToSigningKeeps ==
  ASSUME NEW r \in Page
  PROVE  Kept(r, ToSigning(r))
<1>1. CASE r.step = "signing"
  BY <1>1 DEF ToSigning, Kept
<1>2. CASE r.step # "signing"
  <2>1. PICK t \in Page : t = [r EXCEPT !.step = "signing"]
    BY DEF Page
  <2>2. ToSigning(r) = Autosave(t)
    BY <1>2, <2>1 DEF ToSigning
  <2>3. Kept(t, Autosave(t))
    BY AutosaveKeeps
  <2>4. /\ t.life = r.life /\ t.opened = r.opened /\ t.version = r.version
        /\ t.edit = r.edit /\ t.blobs = r.blobs /\ t.current = r.current
        /\ t.timer = r.timer
    BY <2>1 DEF Page
  <2> QED BY <2>2, <2>3, <2>4 DEF Kept
<1> QED BY <1>1, <1>2

\* What a step may make of a page while no draft is added.
Goes(q) ==
  \/ /\ page[q].life = "new" /\ page'[q].life = "open"
     /\ page'[q].opened = Version /\ page'[q].version = Version
     /\ page'[q].timer = None
  \/ /\ page[q].life = "open" /\ page'[q].life = "left"
     /\ page'[q].opened = page[q].opened /\ page'[q].version = 0
     /\ page'[q].timer = None
  \/ /\ page'[q].life = page[q].life /\ page'[q].opened = page[q].opened
     /\ page'[q].edit >= page[q].edit
     /\ \/ page'[q].version = page[q].version
        \/ \E s \in saves : /\ s.by = q /\ s.state = "accepted"
                            /\ page'[q].version = s.version
     /\ \/ page'[q].timer \in {page[q].timer, None}
        \/ /\ Open(q)
           /\ page'[q].timer = [base |-> page'[q].version, edit |-> page'[q].edit]

\* What it may make of the URLs of a page.
Looks(q) ==
  \/ /\ page'[q].life = page[q].life \/ page[q].life = "new"
     /\ page'[q].blobs = page[q].blobs /\ page'[q].current = page[q].current
  \/ /\ page[q].life = "open" /\ page'[q].life = "left"
     /\ page'[q].blobs = page[q].blobs \ {page[q].current}
  \/ /\ page[q].life = "open" /\ page'[q].life = "open"
     /\ page'[q].current > 0
     /\ page'[q].blobs = (page[q].blobs \ {page[q].current}) \cup {page'[q].current}

\* A save that a step adds.
Sends(s) ==
  /\ s \in Save /\ s.state = "sent" /\ s.base <= Version /\ s.version = 0
  /\ \/ /\ page[s.by].timer # None
        /\ s.base = page[s.by].timer.base /\ s.edit = page[s.by].timer.edit
     \/ /\ Open(s.by)
        /\ s.base = page[s.by].version /\ s.edit = page[s.by].edit

\* A step that adds no draft: each page goes on, saves are sent or end.
Quiet ==
  /\ page' \in [Pages -> Page] /\ drafts' = drafts
  /\ \A q \in Pages : Goes(q) /\ Looks(q)
  /\ \A s \in saves' : s \in saves \/ Sends(s)

LEMMA SamePage ==
  ASSUME TypeOK, NEW q \in Pages, page'[q] = page[q]
  PROVE  Goes(q) /\ Looks(q)
<1>1. page[q] \in Page
  BY DEF TypeOK
<1> QED BY <1>1 DEF Goes, Looks, Page

\* One page changes, to t.
LEMMA OnePage ==
  ASSUME TypeOK, NEW p \in Pages, NEW t \in Page,
         page' = [page EXCEPT ![p] = t], page'[p] = t => Goes(p) /\ Looks(p)
  PROVE  /\ page' \in [Pages -> Page] /\ page'[p] = t
         /\ \A q \in Pages : Goes(q) /\ Looks(q)
<1>1. page' \in [Pages -> Page] /\ page'[p] = t
      /\ \A q \in Pages : q # p => page'[q] = page[q]
  BY DEF TypeOK
<1> QED BY <1>1, SamePage

\* The page autosaves, from a rendering r of it.
LEMMA PageAutosaves ==
  ASSUME TypeOK, NEW p \in Pages, Open(p), NEW r \in Page, NEW t, Kept(r, t),
         r.life = page[p].life, r.opened = page[p].opened,
         r.edit >= page[p].edit, r.blobs = page[p].blobs,
         r.current = page[p].current, r.timer \in {page[p].timer, None},
         \/ r.version = page[p].version
         \/ \E s \in saves : /\ s.by = p /\ s.state = "accepted"
                             /\ r.version = s.version,
         page' = [page EXCEPT ![p] = t]
  PROVE  /\ page' \in [Pages -> Page]
         /\ \A q \in Pages : Goes(q) /\ Looks(q)
<1>1. t \in Page
  BY DEF Kept
<1>2. ASSUME page'[p] = t PROVE Goes(p)
  BY <1>2 DEF Goes, Kept
<1>3. ASSUME page'[p] = t PROVE Looks(p)
  BY <1>3 DEF Looks, Kept
<1> QED BY <1>1, <1>2, <1>3, OnePage

-----------------------------------------------------------------------------
(* Types *)

RestTyped ==
  /\ asks \subseteq Ask /\ rendered \subseteq Contents
  /\ signing \in [content : Contents, by : Pages] \cup {None}
  /\ submitted \in [content : Contents, shown : Contents \cup {None}] \cup {None}
  /\ sent \in [saves : 0 .. MaxSaves, previews : 0 .. MaxPreviews]
  /\ lost \in [Pages -> BOOLEAN]

LEMMA Versioned ==
  ASSUME TypeOK
  PROVE  Version \in Nat
  BY LenProperties DEF TypeOK, Version

LEMMA QuietTyped ==
  ASSUME TypeOK, Quiet, RestTyped'
  PROVE  TypeOK'
<1>1. Version' = Version /\ Version \in Nat
  BY Versioned DEF Quiet, Version
<1>2. saves' \subseteq Save
  BY DEF Quiet, TypeOK, Sends
<1>3. \A s \in saves' : s.base <= Version' /\ s.version <= Version'
  BY <1>1 DEF Quiet, TypeOK, Sends
<1>4. ASSUME NEW q \in Pages
      PROVE  /\ page'[q].opened <= Version' /\ page'[q].version <= Version'
             /\ page'[q].timer # None => page'[q].timer.base <= Version'
  <2>1. /\ page[q] \in Page /\ page'[q] \in Page
        /\ page[q].opened <= Version /\ page[q].version <= Version
        /\ page[q].timer # None => page[q].timer.base <= Version
    BY DEF TypeOK, Quiet
  <2>2. Goes(q)
    BY DEF Quiet
  <2>3. page'[q].opened <= Version
    BY <1>1, <2>1, <2>2 DEF Goes
  <2>4. page'[q].version <= Version
    <3>1. \A s \in saves : s.version <= Version
      BY DEF TypeOK
    <3> QED BY <1>1, <2>1, <2>2, <3>1 DEF Goes
  <2>5. page'[q].timer # None => page'[q].timer.base <= Version
    <3>1. CASE page'[q].timer \in {page[q].timer, None}
      BY <2>1, <3>1
    <3>2. CASE page'[q].timer = [base |-> page'[q].version, edit |-> page'[q].edit]
      BY <2>4, <3>2
    <3> QED BY <2>2, <3>1, <3>2 DEF Goes
  <2> QED BY <1>1, <2>3, <2>4, <2>5
<1> QED BY <1>2, <1>3, <1>4 DEF TypeOK, RestTyped, Quiet

LEMMA SendQuiet ==
  ASSUME TypeOK, NEW p \in Pages, NEW how \in {"auto", "next", "force"},
         NEW base \in Nat, NEW edit \in Nat, base <= Version,
         Send(p, how, base, edit),
         \/ /\ page[p].timer # None
            /\ base = page[p].timer.base /\ edit = page[p].timer.edit
         \/ Open(p) /\ base = page[p].version /\ edit = page[p].edit
  PROVE  /\ \A s \in saves' : s \in saves \/ Sends(s)
         /\ sent' \in [saves : 0 .. MaxSaves, previews : 0 .. MaxPreviews]
<1>1. PICK n \in Nat : n = sent.saves + 1 /\ n \in 1 .. MaxSaves
  BY ConstantsAssumption DEF Send, TypeOK
<1>2. PICK s \in Save :
        s = [id |-> n, by |-> p, how |-> how, base |-> base,
             edit |-> edit, state |-> "sent", version |-> 0]
  BY <1>1 DEF Save
<1>3. saves' = saves \cup {s}
  BY <1>1, <1>2 DEF Send
<1>4. Sends(s)
  BY <1>2 DEF Sends
<1>5. sent' \in [saves : 0 .. MaxSaves, previews : 0 .. MaxPreviews]
  BY <1>1 DEF Send, TypeOK
<1> QED BY <1>3, <1>4, <1>5

LEMMA OpenQuiet ==
  ASSUME TypeOK, NEW p \in Pages, page[p].timer = None, OpenPage(p)
  PROVE  Quiet /\ RestTyped'
<1>1. page[p] \in Page /\ Version \in Nat
  BY Versioned DEF TypeOK
<1>2. PICK t \in Page :
        t = [page[p] EXCEPT !.life = "open", !.opened = Version,
                            !.version = Version]
  BY <1>1 DEF Page
<1>3. page' = [page EXCEPT ![p] = t]
  BY <1>1, <1>2 DEF OpenPage, TypeOK
<1>4. ASSUME page'[p] = t PROVE Goes(p) /\ Looks(p)
  <2>1. /\ t.life = "open" /\ t.opened = Version /\ t.version = Version
        /\ t.timer = None /\ t.blobs = page[p].blobs
        /\ t.current = page[p].current
    BY <1>1, <1>2 DEF Page
  <2>2. page[p].life = "new"
    BY DEF OpenPage
  <2> QED BY <1>4, <2>1, <2>2 DEF Goes, Looks
<1>5. page' \in [Pages -> Page] /\ \A q \in Pages : Goes(q) /\ Looks(q)
  BY <1>3, <1>4, OnePage
<1> QED BY <1>5 DEF OpenPage, Quiet, RestTyped, TypeOK, serverVars

LEMMA LeaveQuiet ==
  ASSUME TypeOK, NEW p \in Pages, LeavePage(p)
  PROVE  Quiet /\ RestTyped'
<1>1. page[p] \in Page
  BY DEF TypeOK
<1>2. NewPage \in Page
  BY ConstantsAssumption DEF NewPage, Page
<1>3. PICK t \in Page :
        t = [NewPage EXCEPT !.life = "left", !.opened = page[p].opened,
                            !.blobs = page[p].blobs \ {page[p].current},
                            !.submitting = page[p].submitting, !.over = page[p].over]
  BY <1>1, <1>2 DEF Page
<1>4. page' = [page EXCEPT ![p] = t]
  BY <1>3 DEF LeavePage
<1>5. ASSUME page'[p] = t PROVE Goes(p) /\ Looks(p)
  <2>1. Open(p)
    BY DEF LeavePage
  <2>2. /\ t.life = "left" /\ t.opened = page[p].opened /\ t.timer = None
        /\ t.version = 0 /\ t.blobs = page[p].blobs \ {page[p].current}
    BY <1>3 DEF NewPage
  <2> QED BY <1>5, <2>1, <2>2 DEF Goes, Looks, Open
<1>6. page' \in [Pages -> Page] /\ \A q \in Pages : Goes(q) /\ Looks(q)
  BY <1>4, <1>5, OnePage
<1> QED BY <1>6 DEF LeavePage, Quiet, RestTyped, TypeOK, serverVars

\* Typing, stepping back and losing the connection.
LEMMA TypingQuiet ==
  ASSUME TypeOK, NEW p \in Pages, Edit(p) \/ Move(p) \/ Connection(p)
  PROVE  Quiet /\ RestTyped'
<1>1. page[p] \in Page /\ Open(p)
  BY DEF TypeOK, Edit, Move, Connection
<1>2. PICK r \in Page :
        /\ page' = [page EXCEPT ![p] = Autosave(r)]
        /\ r.life = page[p].life /\ r.opened = page[p].opened
        /\ r.edit >= page[p].edit /\ r.blobs = page[p].blobs
        /\ r.current = page[p].current /\ r.timer = page[p].timer
        /\ r.version = page[p].version
  <2>1. CASE Edit(p)
    <3>1. PICK n \in Nat : n = page[p].edit + 1 /\ n >= page[p].edit
      BY <1>1 DEF Page
    <3>2. PICK r \in Page : r = [page[p] EXCEPT !.edit = n]
      BY <1>1 DEF Page
    <3>3. page' = [page EXCEPT ![p] = Autosave(r)]
      BY <2>1, <3>1, <3>2 DEF Edit
    <3>4. /\ r.life = page[p].life /\ r.opened = page[p].opened
          /\ r.edit >= page[p].edit /\ r.blobs = page[p].blobs
          /\ r.current = page[p].current /\ r.timer = page[p].timer
          /\ r.version = page[p].version
      BY <1>1, <3>1, <3>2 DEF Page
    <3> QED BY <3>3, <3>4
  <2>2. CASE Move(p)
    <3>1. PICK n \in Nat : n = page[p].moves + 1
      BY <1>1 DEF Page
    <3>2. PICK r \in Page : r = [page[p] EXCEPT !.step = "filling", !.moves = n]
      BY <1>1 DEF Page
    <3>3. page' = [page EXCEPT ![p] = Autosave(r)]
      BY <2>2, <3>1, <3>2 DEF Move
    <3>4. /\ r.life = page[p].life /\ r.opened = page[p].opened
          /\ r.edit >= page[p].edit /\ r.blobs = page[p].blobs
          /\ r.current = page[p].current /\ r.timer = page[p].timer
          /\ r.version = page[p].version
      BY <1>1, <3>2 DEF Page
    <3> QED BY <3>3, <3>4
  <2>3. CASE Connection(p)
    <3>1. PICK n \in Nat : n = IF page[p].online THEN page[p].moves + 1
                                                 ELSE page[p].moves
      BY <1>1 DEF Page
    <3>2. PICK r \in Page : r = [page[p] EXCEPT !.online = ~@, !.moves = n]
      BY <1>1 DEF Page
    <3>3. page' = [page EXCEPT ![p] = Autosave(r)]
      BY <2>3, <3>1, <3>2 DEF Connection
    <3>4. /\ r.life = page[p].life /\ r.opened = page[p].opened
          /\ r.edit >= page[p].edit /\ r.blobs = page[p].blobs
          /\ r.current = page[p].current /\ r.timer = page[p].timer
          /\ r.version = page[p].version
      BY <1>1, <3>2 DEF Page
    <3> QED BY <3>3, <3>4
  <2> QED BY <2>1, <2>2, <2>3
<1>3. Kept(r, Autosave(r))
  BY AutosaveKeeps
<1>4. PICK t : t = Autosave(r)
  OBVIOUS
<1>5. page' \in [Pages -> Page] /\ \A q \in Pages : Goes(q) /\ Looks(q)
  BY <1>1, <1>2, <1>3, <1>4, PageAutosaves
<1>6. drafts' = drafts /\ saves' = saves /\ RestTyped'
  BY DEF Edit, Move, Connection, RestTyped, TypeOK, serverVars
<1> QED BY <1>5, <1>6 DEF Quiet

\* Fields other than those that Goes and Looks speak of change.
Touched(r, t) ==
  /\ t \in Page
  /\ t.life = r.life /\ t.opened = r.opened /\ t.version = r.version
  /\ t.edit = r.edit /\ t.blobs = r.blobs /\ t.current = r.current
  /\ t.timer = r.timer

LEMMA PageTouched ==
  ASSUME TypeOK, NEW p \in Pages, NEW t, Touched(page[p], t),
         page' = [page EXCEPT ![p] = t]
  PROVE  /\ page' \in [Pages -> Page]
         /\ \A q \in Pages : Goes(q) /\ Looks(q)
<1>1. t \in Page /\ page[p] \in Page
  BY DEF Touched, TypeOK
<1>2. ASSUME page'[p] = t PROVE Goes(p)
  <2>1. page'[p].edit >= page[p].edit
    BY <1>1, <1>2 DEF Touched, Page
  <2> QED BY <1>2, <2>1 DEF Goes, Touched
<1>3. ASSUME page'[p] = t PROVE Looks(p)
  BY <1>3 DEF Looks, Touched
<1> QED BY <1>1, <1>2, <1>3, OnePage

\* A save is sent by the timer, by the next step or by the dialog.
LEMMA SendingQuiet ==
  ASSUME TypeOK, NEW p \in Pages, TimerFires(p) \/ NextStep(p) \/ KeepLocal(p)
  PROVE  Quiet /\ RestTyped'
<1>1. page[p] \in Page
  BY DEF TypeOK
<1>2. /\ \A s \in saves' : s \in saves \/ Sends(s)
      /\ sent' \in [saves : 0 .. MaxSaves, previews : 0 .. MaxPreviews]
  <2>1. CASE TimerFires(p)
    <3>1. /\ page[p].timer.base \in Nat /\ page[p].timer.edit \in Nat
          /\ page[p].timer.base <= Version
      BY <1>1, <2>1 DEF TimerFires, TypeOK, Page, Timer
    <3> QED BY <2>1, <3>1, SendQuiet DEF TimerFires
  <2>2. CASE NextStep(p) \/ KeepLocal(p)
    <3>1. /\ page[p].version \in Nat /\ page[p].edit \in Nat
          /\ page[p].version <= Version /\ Open(p)
      BY <1>1, <2>2 DEF NextStep, KeepLocal, TypeOK, Page
    <3>2. PICK how \in {"next", "force"} :
            Send(p, how, page[p].version, page[p].edit)
      BY <2>2 DEF NextStep, KeepLocal
    <3> QED BY <3>1, <3>2, SendQuiet
  <2> QED BY <2>1, <2>2
<1>3. page' \in [Pages -> Page] /\ \A q \in Pages : Goes(q) /\ Looks(q)
  <2>1. CASE TimerFires(p)
    <3>1. PICK t \in Page : t = [page[p] EXCEPT !.timer = None]
      BY <1>1 DEF Page
    <3>2. page' = [page EXCEPT ![p] = t]
      BY <2>1, <3>1 DEF TimerFires
    <3>3. ASSUME page'[p] = t PROVE Goes(p) /\ Looks(p)
      BY <1>1, <3>1, <3>3 DEF Goes, Looks, Page
    <3> QED BY <3>2, <3>3, OnePage
  <2>2. CASE NextStep(p)
    <3>1. PICK t \in Page : t = [page[p] EXCEPT !.status = "saving"]
      BY <1>1 DEF Page
    <3>2. page' = [page EXCEPT ![p] = t]
      BY <2>2, <3>1 DEF NextStep
    <3>3. ASSUME page'[p] = t PROVE Goes(p) /\ Looks(p)
      BY <1>1, <3>1, <3>3 DEF Goes, Looks, Page
    <3> QED BY <3>2, <3>3, OnePage
  <2>3. CASE KeepLocal(p)
    <3>1. PICK pressed \in BOOLEAN :
            pressed <=> page[p].again \/ \E s \in saves : s.by = p /\ s.how = "force"
      OBVIOUS
    <3>2. PICK t : t = [page[p] EXCEPT !.again = pressed]
      OBVIOUS
    <3>3. Touched(page[p], t)
      BY <1>1, <3>2 DEF Page, Touched
    <3>4. page' = [page EXCEPT ![p] = t]
      <4>1. page' = [page EXCEPT ![p].again = pressed]
        <5>1. page[p].again \in BOOLEAN
          BY <1>1 DEF Page
        <5>2. (page[p].again \/ \E s \in saves : s.by = p /\ s.how = "force") = pressed
          BY <3>1, <5>1
        <5> QED BY <2>3, <5>2 DEF KeepLocal
      <4> QED BY <3>2, <4>1 DEF TypeOK
    <3> QED BY <3>3, <3>4, PageTouched
  <2> QED BY <2>1, <2>2, <2>3
<1>4. drafts' = drafts
  BY DEF TimerFires, NextStep, KeepLocal, serverVars
<1>5. RestTyped'
  BY <1>2 DEF TimerFires, NextStep, KeepLocal, RestTyped, TypeOK, serverVars
<1> QED BY <1>2, <1>3, <1>4, <1>5 DEF Quiet

\* The page takes the version s.version, and may autosave.
LEMMA PageTakes ==
  ASSUME TypeOK, NEW p \in Pages, Open(p), NEW s \in saves, s.by = p,
         s.state = "accepted", NEW r \in Page, r.version = s.version,
         r.life = page[p].life, r.opened = page[p].opened,
         r.edit = page[p].edit, r.blobs = page[p].blobs,
         r.current = page[p].current, r.timer = page[p].timer,
         NEW t, t = r \/ Kept(r, t), page' = [page EXCEPT ![p] = t]
  PROVE  /\ page' \in [Pages -> Page]
         /\ \A q \in Pages : Goes(q) /\ Looks(q)
<1>1. Kept(r, t)
  BY DEF Kept
<1>2. r.edit >= page[p].edit
  BY DEF TypeOK, Page
<1> QED BY <1>1, <1>2, PageAutosaves

\* The page fails, and may autosave.
LEMMA PageFails ==
  ASSUME TypeOK, NEW p \in Pages, Open(p), NEW r, Touched(page[p], r),
         NEW t, t = r \/ Kept(r, t), page' = [page EXCEPT ![p] = t]
  PROVE  /\ page' \in [Pages -> Page]
         /\ \A q \in Pages : Goes(q) /\ Looks(q)
<1>1. Kept(r, t) /\ r \in Page
  BY DEF Kept, Touched
<1>2. r.edit >= page[p].edit
  BY DEF TypeOK, Page, Touched
<1> QED BY <1>1, <1>2, PageAutosaves DEF Touched

LEMMA PageStays ==
  ASSUME TypeOK, page' = page
  PROVE  /\ page' \in [Pages -> Page]
         /\ \A q \in Pages : Goes(q) /\ Looks(q)
  BY SamePage DEF TypeOK

LEMMA AnswersQuiet ==
  ASSUME TypeOK, NEW s \in saves,
         AutosaveAnswered(s) \/ NextAnswered(s) \/ ForceAnswered(s) \/ SaveLost(s)
  PROVE  Quiet /\ RestTyped'
<1> DEFINE p == s.by
<1>1. p \in Pages /\ s \in Save
  BY DEF TypeOK, Save
<1>2. page[p] \in Page /\ s.version \in Nat
  BY <1>1 DEF TypeOK, Save
<1>3. saves' \subseteq saves /\ drafts' = drafts
  BY DEF AutosaveAnswered, NextAnswered, ForceAnswered, SaveLost, serverVars
<1>4. PICK taken : taken = [page[p] EXCEPT !.version = s.version, !.status = "saved"]
  OBVIOUS
<1>5. PICK failed : failed = [page[p] EXCEPT !.status = "failed"]
  OBVIOUS
<1>6. /\ taken \in Page /\ taken.version = s.version
      /\ taken.life = page[p].life /\ taken.opened = page[p].opened
      /\ taken.edit = page[p].edit /\ taken.blobs = page[p].blobs
      /\ taken.current = page[p].current /\ taken.timer = page[p].timer
  BY <1>2, <1>4 DEF Page
<1>7. Touched(page[p], failed)
  BY <1>2, <1>5 DEF Page, Touched
<1>8. Kept(taken, ToSigning(taken)) /\ Kept(failed, ToSigning(failed))
  BY <1>6, <1>7, ToSigningKeeps DEF Touched
<1> HIDE DEF p
<1>9. page' \in [Pages -> Page] /\ \A q \in Pages : Goes(q) /\ Looks(q)
  <2>1. CASE ~Open(p)
    <3>1. page' = page
      BY <2>1 DEF AutosaveAnswered, NextAnswered, ForceAnswered, SaveLost, p
    <3> QED BY <3>1, PageStays
  <2>2. CASE Open(p) /\ AutosaveAnswered(s)
    <3>1. CASE s.state = "accepted"
      <4>1. page' = [page EXCEPT ![p] = taken]
        BY <1>1, <1>4, <2>2, <3>1 DEF AutosaveAnswered, TypeOK, p
      <4> QED BY <1>1, <1>6, <2>2, <3>1, <4>1, PageTakes DEF p
    <3>2. CASE s.state # "accepted"
      <4>1. PICK t : t = [page[p] EXCEPT !.conflict = TRUE, !.status = "failed"]
        OBVIOUS
      <4>2. Touched(page[p], t)
        BY <1>2, <4>1 DEF Page, Touched
      <4>3. page' = [page EXCEPT ![p] = t]
        BY <1>1, <2>2, <3>2, <4>1 DEF AutosaveAnswered, TypeOK, p
      <4> QED BY <1>1, <4>2, <4>3, PageTouched
    <3> QED BY <3>1, <3>2
  <2>3. CASE Open(p) /\ NextAnswered(s)
    <3>1. CASE s.state = "accepted"
      <4>1. page' = [page EXCEPT ![p] = ToSigning(taken)]
        BY <1>1, <1>4, <2>3, <3>1 DEF NextAnswered, TypeOK, p
      <4> QED BY <1>1, <1>6, <1>8, <2>3, <3>1, <4>1, PageTakes DEF p
    <3>2. CASE s.state # "accepted"
      <4>1. page' = [page EXCEPT ![p] = ToSigning(failed)]
        BY <1>1, <1>5, <2>3, <3>2 DEF NextAnswered, TypeOK, p
      <4> QED BY <1>1, <1>7, <1>8, <2>3, <4>1, PageFails
    <3> QED BY <3>1, <3>2
  <2>4. CASE Open(p) /\ ForceAnswered(s)
    <3>1. PICK t \in Page :
            t = [page[p] EXCEPT !.version = s.version, !.conflict = FALSE,
                                !.status = "saved"]
      BY <1>2 DEF Page
    <3>2. /\ t.version = s.version
          /\ t.life = page[p].life /\ t.opened = page[p].opened
          /\ t.edit = page[p].edit /\ t.blobs = page[p].blobs
          /\ t.current = page[p].current /\ t.timer = page[p].timer
      BY <1>2, <3>1 DEF Page
    <3>3. page' = [page EXCEPT ![p] = t] /\ s.state = "accepted"
      BY <1>1, <2>4, <3>1 DEF ForceAnswered, TypeOK, p
    <3> QED BY <1>1, <2>4, <3>2, <3>3, PageTakes DEF p
  <2>5. CASE Open(p) /\ SaveLost(s)
    <3>1. CASE s.how = "force"
      <4>1. page' = page
        BY <2>5, <3>1 DEF SaveLost
      <4> QED BY <4>1, PageStays
    <3>2. CASE s.how = "next"
      <4>1. page' = [page EXCEPT ![p] = ToSigning(failed)]
        BY <1>5, <2>5, <3>2 DEF SaveLost, p
      <4> QED BY <1>1, <1>7, <1>8, <2>5, <4>1, PageFails
    <3>3. CASE s.how = "auto"
      <4>1. page' = [page EXCEPT ![p] = failed]
        BY <1>5, <2>5, <3>3 DEF SaveLost, p
      <4> QED BY <1>1, <1>7, <2>5, <4>1, PageFails
    <3> QED BY <1>1, <3>1, <3>2, <3>3 DEF Save
  <2> QED BY <2>1, <2>2, <2>3, <2>4, <2>5
<1>10. RestTyped'
  <2>1. CASE NextAnswered(s) /\ s.state = "accepted"
    <3>1. PICK n \in 1 .. MaxPreviews : n = sent.previews + 1
      BY <2>1, ConstantsAssumption DEF NextAnswered, TypeOK
    <3>2. [id |-> n, by |-> p, state |-> "sent", of |-> None] \in Ask
      BY <1>1, <3>1 DEF Ask
    <3>3. asks' \subseteq Ask
      BY <2>1, <3>1, <3>2 DEF NextAnswered, TypeOK, p
    <3>4. sent' \in [saves : 0 .. MaxSaves, previews : 0 .. MaxPreviews]
      BY <2>1, <3>1 DEF NextAnswered, TypeOK
    <3> QED BY <2>1, <3>3, <3>4 DEF NextAnswered, RestTyped, TypeOK, serverVars
  <2>2. CASE ~(NextAnswered(s) /\ s.state = "accepted")
    <3>1. asks' = asks /\ sent' = sent /\ UNCHANGED serverVars
      BY <2>2 DEF AutosaveAnswered, NextAnswered, ForceAnswered, SaveLost
    <3>2. lost' \in [Pages -> BOOLEAN]
      BY DEF AutosaveAnswered, NextAnswered, ForceAnswered, SaveLost, TypeOK
    <3> QED BY <3>1, <3>2 DEF RestTyped, TypeOK, serverVars
  <2> QED BY <2>1, <2>2
<1> QED BY <1>3, <1>9, <1>10 DEF Quiet

LEMMA PreviewsQuiet ==
  ASSUME TypeOK, NEW k \in asks, PreviewStep(k)
  PROVE  Quiet /\ RestTyped'
<1> DEFINE p == k.by
<1>1. p \in Pages /\ k \in Ask
  BY DEF TypeOK, Ask
<1>2. page[p] \in Page /\ k.id \in 1 .. MaxPreviews /\ k.of \in Contents \cup {None}
  BY <1>1 DEF TypeOK, Ask
<1> HIDE DEF p
<1>3. CASE RenderPreview(k)
  <2>1. Newest \in Contents
    <3>1. Version \in DOMAIN drafts
      BY <1>3, LenProperties DEF RenderPreview, TypeOK, Version
    <3>2. drafts[Version] \in Draft
      BY <3>1, ElementOfSeq, LenProperties DEF TypeOK
    <3> QED BY <3>2 DEF Newest, Draft
  <2>2. PICK done \in Ask : done = [k EXCEPT !.state = "ready", !.of = Newest]
    BY <1>1, <2>1 DEF Ask
  <2>3. asks' \subseteq Ask /\ rendered' \subseteq Contents
    BY <1>3, <2>1, <2>2 DEF RenderPreview, TypeOK
  <2>4. page' \in [Pages -> Page] /\ \A q \in Pages : Goes(q) /\ Looks(q)
    BY <1>3, PageStays DEF RenderPreview
  <2> QED BY <1>3, <2>3, <2>4 DEF RenderPreview, RestTyped, TypeOK, Quiet
<1>4. CASE PreviewArrives(k)
  <2>1. CASE Open(p)
    <3>1. PICK b \in SUBSET (1 .. MaxPreviews) :
            b = (page[p].blobs \ {page[p].current}) \cup {k.id}
      BY <1>2 DEF Page
    <3>2. PICK t \in Page :
            t = [page[p] EXCEPT !.shown = k.of, !.current = k.id, !.blobs = b]
      <4>1. k.id \in 0 .. MaxPreviews
        BY <1>2, ConstantsAssumption
      <4> QED BY <1>2, <4>1 DEF Page
    <3>3. page' = [page EXCEPT ![p] = t]
      <4>1. page' = [page EXCEPT ![p].shown = k.of, ![p].current = k.id,
                                 ![p].blobs = b]
        BY <1>4, <2>1, <3>1 DEF PreviewArrives, p
      <4>2. page \in [Pages -> Page]
        BY DEF TypeOK
      <4> QED BY <1>1, <3>2, <4>1, <4>2
    <3>4. /\ t.life = page[p].life /\ t.opened = page[p].opened
          /\ t.version = page[p].version /\ t.edit = page[p].edit
          /\ t.timer = page[p].timer /\ t.current = k.id /\ t.blobs = b
      BY <1>2, <3>2 DEF Page
    <3>5. ASSUME page'[p] = t PROVE Goes(p)
      <4>1. t.edit >= page[p].edit
        BY <1>2, <3>4 DEF Page
      <4> QED BY <3>4, <3>5, <4>1 DEF Goes
    <3>6. ASSUME page'[p] = t PROVE Looks(p)
      BY <1>2, <2>1, <3>1, <3>4, <3>6 DEF Looks, Open
    <3>7. page' \in [Pages -> Page] /\ \A q \in Pages : Goes(q) /\ Looks(q)
      BY <1>1, <3>3, <3>5, <3>6, OnePage
    <3> QED BY <1>4, <3>7 DEF PreviewArrives, RestTyped, TypeOK, Quiet, serverVars
  <2>2. CASE ~Open(p)
    <3>1. page' = page
      BY <1>4, <2>2 DEF PreviewArrives, p
    <3> QED BY <1>4, <3>1, PageStays
         DEF PreviewArrives, RestTyped, TypeOK, Quiet, serverVars
  <2> QED BY <2>1, <2>2
<1>5. CASE PreviewFails(k)
  <2>1. page' \in [Pages -> Page] /\ \A q \in Pages : Goes(q) /\ Looks(q)
    <3>1. CASE Open(p)
      <4>1. PICK r : r = [page[p] EXCEPT !.status = "failed"]
        OBVIOUS
      <4>2. Touched(page[p], r)
        BY <1>2, <4>1 DEF Page, Touched
      <4>3. Kept(r, ToSigning(r))
        BY <4>2, ToSigningKeeps DEF Touched
      <4>4. page' = [page EXCEPT ![p] = ToSigning(r)]
        BY <1>5, <3>1, <4>1 DEF PreviewFails, p
      <4> QED BY <1>1, <3>1, <4>2, <4>3, <4>4, PageFails
    <3>2. CASE ~Open(p)
      <4>1. page' = page
        BY <1>5, <3>2 DEF PreviewFails, p
      <4> QED BY <4>1, PageStays
    <3> QED BY <3>1, <3>2
  <2> QED BY <1>5, <2>1 DEF PreviewFails, RestTyped, TypeOK, Quiet, serverVars
<1> QED BY <1>3, <1>4, <1>5 DEF PreviewStep

LEMMA SubmittingQuiet ==
  ASSUME TypeOK, NEW p \in Pages, Submit(p) \/ PrepareSigning(p) \/ SubmitCase(p)
  PROVE  Quiet /\ RestTyped'
<1>1. page[p] \in Page
  BY DEF TypeOK
<1>2. PICK stage \in {"no", "sent", "prepared"}, over \in Contents \cup {None} :
        page' = [page EXCEPT ![p].submitting = stage, ![p].over = over]
  BY <1>1 DEF Submit, PrepareSigning, SubmitCase, Page
<1>3. PICK t \in Page : t = [page[p] EXCEPT !.submitting = stage, !.over = over]
  BY <1>1 DEF Page
<1>4. page' = [page EXCEPT ![p] = t]
  BY <1>2, <1>3 DEF TypeOK
<1>5. Touched(page[p], t)
  BY <1>1, <1>3 DEF Page, Touched
<1>6. page' \in [Pages -> Page] /\ \A q \in Pages : Goes(q) /\ Looks(q)
  BY <1>4, <1>5, PageTouched
<1>7. drafts' = drafts /\ saves' = saves
  BY DEF Submit, PrepareSigning, SubmitCase, serverVars
<1>8. RestTyped'
  <2>1. CASE Submit(p)
    BY <2>1 DEF Submit, RestTyped, TypeOK, serverVars
  <2>2. CASE PrepareSigning(p)
    <3>1. signing' \in [content : Contents, by : Pages] \cup {None}
      BY <2>2 DEF PrepareSigning, TypeOK
    <3> QED BY <2>2, <3>1 DEF PrepareSigning, RestTyped, TypeOK
  <2>3. CASE SubmitCase(p)
    <3>1. submitted' \in [content : Contents, shown : Contents \cup {None}] \cup {None}
      <4>1. page[p].over \in Contents \cup {None}
        BY <1>1 DEF Page
      <4>2. CASE submitted' = submitted
        BY <4>2 DEF TypeOK
      <4>3. CASE /\ signing # None /\ signing = [content |-> Newest, by |-> p]
                 /\ submitted' = [content |-> Newest, shown |-> page[p].over]
        <5>1. Newest \in Contents
          BY <4>3 DEF TypeOK
        <5> QED BY <4>1, <4>3, <5>1
      <4> QED BY <2>3, <4>2, <4>3 DEF SubmitCase
    <3> QED BY <2>3, <3>1 DEF SubmitCase, RestTyped, TypeOK
  <2> QED BY <2>1, <2>2, <2>3
<1> QED BY <1>6, <1>7, <1>8 DEF Quiet

LEMMA SaveTyped ==
  ASSUME TypeOK, NEW s \in saves, SaveDraft(s)
  PROVE  /\ TypeOK'
         /\ page' = page /\ Version' \in {Version, Version + 1}
         /\ \A v \in 1 .. Version : drafts'[v] = drafts[v]
<1>1. s \in Save /\ s.by \in Pages /\ Version \in Nat /\ page' = page
  BY Versioned DEF TypeOK, Save, SaveDraft
<1>2. RestTyped'
  BY DEF SaveDraft, RestTyped, TypeOK
<1>3. CASE VersionMatches(s)
  <2>1. Content(s.by, s.edit) \in Contents
    BY <1>1 DEF Content, Contents, Save
  <2>2. PICK d \in Draft : drafts' = Append(drafts, d)
    <3>1. [content |-> Content(s.by, s.edit), by |-> s.by,
           forced |-> s.how = "force"] \in Draft
      BY <1>1, <2>1 DEF Draft
    <3> QED BY <1>3, <3>1 DEF SaveDraft
  <2>3. /\ drafts' \in Seq(Draft) /\ Version' = Version + 1
        /\ \A v \in 1 .. Version : drafts'[v] = drafts[v]
    BY <2>2, AppendProperties DEF TypeOK, Version
  <2>4. Accepted(s) \in Save /\ Accepted(s).version = Version + 1
        /\ Accepted(s).base = s.base
    <3>1. PICK n \in Nat : n = Version + 1
      BY <1>1
    <3>2. Accepted(s) = [s EXCEPT !.state = "accepted", !.version = n]
      BY <3>1 DEF Accepted
    <3>3. [s EXCEPT !.state = "accepted", !.version = n] \in Save
      BY <1>1 DEF Save
    <3>4. Accepted(s).version = n /\ Accepted(s).base = s.base
      BY <1>1, <3>2 DEF Save
    <3> QED BY <3>1, <3>2, <3>3, <3>4
  <2>5. saves' = (saves \ {s}) \cup {Accepted(s)}
    BY <1>3 DEF SaveDraft
  <2>6. saves' \subseteq Save
    BY <2>4, <2>5 DEF TypeOK
  <2>7. \A t \in saves' : t.base <= Version' /\ t.version <= Version'
    <3>1. ASSUME NEW t \in saves PROVE t.base <= Version + 1 /\ t.version <= Version + 1
      BY <1>1 DEF TypeOK, Save
    <3>2. Accepted(s).base <= Version + 1 /\ Accepted(s).version <= Version + 1
      BY <1>1, <2>4, <3>1
    <3> QED BY <2>3, <2>5, <3>1, <3>2
  <2>8. ASSUME NEW q \in Pages
        PROVE  /\ page[q].opened <= Version + 1 /\ page[q].version <= Version + 1
               /\ page[q].timer # None => page[q].timer.base <= Version + 1
    BY <1>1 DEF TypeOK, Page, Timer
  <2> QED BY <1>1, <1>2, <2>3, <2>6, <2>7, <2>8 DEF TypeOK, RestTyped
<1>4. CASE ~VersionMatches(s)
  <2>1. PICK r \in Save : /\ r = [s EXCEPT !.state = "refused"]
                          /\ r.base = s.base /\ r.version = s.version
    <3>1. [s EXCEPT !.state = "refused"] \in Save
      BY <1>1 DEF Save
    <3>2. /\ [s EXCEPT !.state = "refused"].base = s.base
          /\ [s EXCEPT !.state = "refused"].version = s.version
      BY <1>1 DEF Save
    <3> QED BY <3>1, <3>2
  <2>2. saves' = (saves \ {s}) \cup {r} /\ drafts' = drafts /\ Version' = Version
    BY <1>4, <2>1 DEF SaveDraft, Version
  <2> QED BY <1>1, <1>2, <2>1, <2>2 DEF TypeOK, RestTyped
<1> QED BY <1>3, <1>4

-----------------------------------------------------------------------------
(* URLs *)

\* A page that has not opened is as NewPage says, and has saved nothing.
NewHasNothing ==
  \A p \in Pages : page[p].life = "new" =>
    /\ page[p].timer = None /\ page[p].current = 0
    /\ \A s \in saves : s.by # p
    /\ \A v \in DOMAIN drafts : drafts[v].by # p

Base == TypeOK /\ NewHasNothing

LEMMA InitBase ==
  ASSUME Init
  PROVE  Base
<1>1. NewPage \in Page
  BY ConstantsAssumption DEF NewPage, Page
<1>2. drafts \in Seq(Draft) /\ Version = 0 /\ DOMAIN drafts = {}
  BY EmptySeq DEF Init, Version
<1>3. TypeOK
  <2>1. page \in [Pages -> Page]
    BY <1>1 DEF Init
  <2>2. sent \in [saves : 0 .. MaxSaves, previews : 0 .. MaxPreviews]
    BY ConstantsAssumption DEF Init
  <2>3. \A p \in Pages :
          /\ page[p].opened <= Version /\ page[p].version <= Version
          /\ page[p].timer = None
    BY <1>2 DEF Init, NewPage
  <2> QED BY <1>2, <2>1, <2>2, <2>3 DEF Init, TypeOK
<1>4. NewHasNothing
  BY <1>2 DEF Init, NewPage, NewHasNothing
<1> QED BY <1>3, <1>4 DEF Base

\* Every step is quiet or is an answer of the API to a save.
LEMMA StepKinds ==
  ASSUME Base, [Next]_vars
  PROVE  \/ Quiet /\ TypeOK'
         \/ \E s \in saves : SaveDraft(s)
<1>1. TypeOK /\ NewHasNothing
  BY DEF Base
<1>2. ASSUME NEW p \in Pages, PageStep(p) PROVE Quiet /\ RestTyped'
  <2>1. CASE OpenPage(p)
    <3>1. page[p].timer = None
      BY <1>1, <2>1 DEF NewHasNothing, OpenPage
    <3> QED BY <1>1, <2>1, <3>1, OpenQuiet
  <2>2. CASE LeavePage(p)
    BY <1>1, <2>2, LeaveQuiet
  <2>3. CASE Edit(p) \/ Move(p) \/ Connection(p)
    BY <1>1, <2>3, TypingQuiet
  <2>4. CASE TimerFires(p) \/ NextStep(p) \/ KeepLocal(p)
    BY <1>1, <2>4, SendingQuiet
  <2>5. CASE Submit(p) \/ PrepareSigning(p) \/ SubmitCase(p)
    BY <1>1, <2>5, SubmittingQuiet
  <2> QED BY <1>2, <2>1, <2>2, <2>3, <2>4, <2>5 DEF PageStep
<1>3. ASSUME NEW s \in saves, SaveStep(s), ~SaveDraft(s) PROVE Quiet /\ RestTyped'
  BY <1>1, <1>3, AnswersQuiet DEF SaveStep
<1>4. ASSUME NEW k \in asks, PreviewStep(k) PROVE Quiet /\ RestTyped'
  BY <1>1, <1>4, PreviewsQuiet
<1>5. ASSUME UNCHANGED vars PROVE Quiet /\ RestTyped'
  <2>1. page' \in [Pages -> Page] /\ \A q \in Pages : Goes(q) /\ Looks(q)
    BY <1>1, <1>5, PageStays DEF vars
  <2> QED BY <1>1, <1>5, <2>1 DEF Quiet, RestTyped, TypeOK, vars
<1> QED BY <1>1, <1>2, <1>3, <1>4, <1>5, QuietTyped DEF Next

\* What SaveDraft does to the drafts and the saves.
LEMMA SaveDrafts ==
  ASSUME TypeOK, NEW s \in saves, SaveDraft(s)
  PROVE  /\ s \in Save /\ s.by \in Pages /\ Version \in Nat
         /\ DOMAIN drafts = 1 .. Version /\ DOMAIN drafts' = 1 .. Version'
         /\ \A v \in 1 .. Version : drafts'[v] = drafts[v]
         /\ \/ /\ VersionMatches(s) /\ Version' = Version + 1
               /\ drafts'[Version + 1].content = Content(s.by, s.edit)
               /\ drafts'[Version + 1].by = s.by
               /\ drafts'[Version + 1].forced <=> s.how = "force"
               /\ \A t \in saves' : t \in saves \/
                    /\ t.by = s.by /\ t.base = s.base /\ t.edit = s.edit
                    /\ t.state = "accepted" /\ t.version = Version + 1
            \/ /\ drafts' = drafts /\ Version' = Version
               /\ \A t \in saves' : t \in saves \/
                    /\ t.by = s.by /\ t.base = s.base /\ t.edit = s.edit
                    /\ t.state = "refused"
<1>1. s \in Save /\ s.by \in Pages /\ Version \in Nat
  BY Versioned DEF TypeOK, Save
<1>2. DOMAIN drafts = 1 .. Version /\ DOMAIN drafts' = 1 .. Version'
  <2>1. drafts \in Seq(Draft) /\ drafts' \in Seq(Draft)
    BY SaveTyped DEF TypeOK
  <2> QED BY <2>1, LenProperties DEF Version
<1>3. \A v \in 1 .. Version : drafts'[v] = drafts[v]
  BY SaveTyped
<1>4. CASE VersionMatches(s)
  <2>1. PICK d \in Draft :
          d = [content |-> Content(s.by, s.edit), by |-> s.by,
               forced |-> s.how = "force"]
    <3>1. Content(s.by, s.edit) \in Contents
      BY <1>1 DEF Content, Contents, Save
    <3>2. [content |-> Content(s.by, s.edit), by |-> s.by,
           forced |-> s.how = "force"] \in Draft
      BY <1>1, <3>1 DEF Draft
    <3> QED BY <3>2
  <2>2. drafts' = Append(drafts, d)
    BY <1>4, <2>1 DEF SaveDraft
  <2>3. Version' = Version + 1 /\ drafts'[Version + 1] = d
    <3>1. drafts \in Seq(Draft)
      BY DEF TypeOK
    <3>2. /\ Len(Append(drafts, d)) = Len(drafts) + 1
          /\ Append(drafts, d)[Len(drafts) + 1] = d
      BY <3>1, AppendProperties
    <3> QED BY <2>2, <3>2 DEF Version
  <2>4. saves' = (saves \ {s}) \cup {Accepted(s)}
    BY <1>4 DEF SaveDraft
  <2>5. /\ Accepted(s).by = s.by /\ Accepted(s).base = s.base
        /\ Accepted(s).edit = s.edit /\ Accepted(s).state = "accepted"
        /\ Accepted(s).version = Version + 1
    BY <1>1 DEF Accepted, Save
  <2>6. /\ d.content = Content(s.by, s.edit) /\ d.by = s.by
        /\ d.forced <=> s.how = "force"
    <3>1. d.forced = (s.how = "force")
      BY <2>1
    <3> QED BY <2>1, <3>1
  <2> QED BY <1>1, <1>2, <1>3, <1>4, <2>3, <2>4, <2>5, <2>6
<1>5. CASE ~VersionMatches(s)
  <2>1. drafts' = drafts /\ Version' = Version
    BY <1>5 DEF SaveDraft, Version
  <2>2. PICK t : t = [s EXCEPT !.state = "refused"]
    OBVIOUS
  <2>3. saves' = (saves \ {s}) \cup {t}
    BY <1>5, <2>2 DEF SaveDraft
  <2>4. t.by = s.by /\ t.base = s.base /\ t.edit = s.edit /\ t.state = "refused"
    BY <1>1, <2>2 DEF Save
  <2> QED BY <1>1, <1>2, <1>3, <2>1, <2>3, <2>4
<1> QED BY <1>4, <1>5

LEMMA NextBase ==
  ASSUME Base, [Next]_vars
  PROVE  Base'
<1>1. TypeOK /\ NewHasNothing
  BY DEF Base
<1>2. CASE Quiet /\ TypeOK'
  <2>1. ASSUME NEW q \in Pages, page'[q].life = "new"
        PROVE  /\ page'[q].timer = None /\ page'[q].current = 0
               /\ \A s \in saves' : s.by # q
               /\ \A v \in DOMAIN drafts' : drafts'[v].by # q
    <3>1. page[q].life = "new" /\ Goes(q) /\ Looks(q)
      BY <1>2, <2>1 DEF Quiet, Goes
    <3>2. /\ page[q].timer = None /\ page[q].current = 0
          /\ \A s \in saves : s.by # q
          /\ \A v \in DOMAIN drafts : drafts[v].by # q
      BY <1>1, <3>1 DEF NewHasNothing
    <3>3. page'[q].timer = None /\ page'[q].current = 0
      BY <2>1, <3>1, <3>2 DEF Goes, Looks, Open
    <3>4. \A s \in saves' : s.by # q
      BY <1>2, <3>1, <3>2 DEF Quiet, Sends, Open
    <3> QED BY <1>2, <3>2, <3>3, <3>4 DEF Quiet
  <2> QED BY <1>2, <2>1 DEF Base, NewHasNothing
<1>3. ASSUME NEW s \in saves, SaveDraft(s)
      PROVE  Base'
  <2>1. ASSUME NEW q \in Pages, page'[q].life = "new"
        PROVE  /\ page'[q].timer = None /\ page'[q].current = 0
               /\ \A t \in saves' : t.by # q
               /\ \A v \in DOMAIN drafts' : drafts'[v].by # q
    <3>1. page' = page
      BY <1>3 DEF SaveDraft
    <3>2. /\ page[q].timer = None /\ page[q].current = 0
          /\ \A t \in saves : t.by # q
          /\ \A v \in DOMAIN drafts : drafts[v].by # q
      BY <1>1, <2>1, <3>1 DEF NewHasNothing
    <3>3. s.by # q
      BY <3>2
    <3>4. \A t \in saves' : t.by # q
      BY <1>1, <1>3, <3>2, <3>3, SaveDrafts
    <3>5. ASSUME NEW v \in DOMAIN drafts' PROVE drafts'[v].by # q
      <4>1. CASE v \in 1 .. Version
        BY <1>1, <1>3, <3>2, <4>1, SaveDrafts
      <4>2. CASE v \notin 1 .. Version
        <5>1. /\ v \in 1 .. Version' /\ Version \in Nat
              /\ \/ /\ Version' = Version + 1
                    /\ drafts'[Version + 1].by = s.by
                 \/ Version' = Version
          BY <1>1, <1>3, SaveDrafts
        <5>2. v = Version + 1 /\ drafts'[v].by = s.by
          BY <4>2, <5>1
        <5> QED BY <3>3, <5>2
      <4> QED BY <4>1, <4>2
    <3> QED BY <3>1, <3>2, <3>4, <3>5
  <2> QED BY <1>1, <1>3, <2>1, SaveTyped DEF Base, NewHasNothing
<1> QED BY <1>2, <1>3, StepKinds

\* Type correctness: in particular no page knows a version that the API has
\* not given out.
THEOREM TypeCorrect == Spec => []TypeOK
<1>1. Base => TypeOK
  BY DEF Base
<1> QED BY InitBase, NextBase, <1>1, PTL DEF Spec

LEMMA NextUrls ==
  ASSUME Base, UrlsAreShown, [Next]_vars
  PROVE  UrlsAreShown'
<1>1. CASE Quiet /\ TypeOK'
  <2>1. ASSUME NEW q \in Pages
        PROVE  page'[q].blobs = IF page'[q].life = "open" /\ page'[q].current > 0
                                THEN {page'[q].current} ELSE {}
    <3>1. /\ Looks(q) /\ page[q] \in Page /\ page'[q] \in Page
          /\ page[q].blobs = IF page[q].life = "open" /\ page[q].current > 0
                             THEN {page[q].current} ELSE {}
      BY <1>1 DEF Quiet, UrlsAreShown, Open, Base, TypeOK
    <3>2. page[q].life = "new" => page[q].current = 0
      BY DEF Base, NewHasNothing
    <3>3. CASE /\ page'[q].life = page[q].life \/ page[q].life = "new"
               /\ page'[q].blobs = page[q].blobs
               /\ page'[q].current = page[q].current
      BY <3>1, <3>2, <3>3
    <3>4. CASE /\ page[q].life = "open" /\ page'[q].life = "left"
               /\ page'[q].blobs = page[q].blobs \ {page[q].current}
      BY <3>1, <3>4
    <3>5. CASE /\ page[q].life = "open" /\ page'[q].life = "open"
               /\ page'[q].current > 0
               /\ page'[q].blobs =
                    (page[q].blobs \ {page[q].current}) \cup {page'[q].current}
      <4>1. page[q].blobs \ {page[q].current} = {}
        BY <3>1
      <4> QED BY <3>5, <4>1
    <3> QED BY <3>1, <3>3, <3>4, <3>5 DEF Looks
  <2> QED BY <2>1 DEF UrlsAreShown, Open
<1>2. ASSUME NEW s \in saves, SaveDraft(s)
      PROVE  UrlsAreShown'
  BY <1>2 DEF SaveDraft, UrlsAreShown, Open
<1> QED BY <1>1, <1>2, StepKinds

\* The URL of the preview that a page shows is not revoked, and it is the only
\* one that the page holds.
THEOREM UrlsAreShownHolds == Spec => []UrlsAreShown
<1>1. Init => UrlsAreShown
  BY DEF Init, NewPage, UrlsAreShown, Open
<1> QED BY <1>1, InitBase, NextBase, NextUrls, PTL DEF Spec

-----------------------------------------------------------------------------
(* Two windows *)

\* Version b is what p found when it opened, or a draft of p.
Known(p, b) ==
  \/ b = page[p].opened
  \/ b \in DOMAIN drafts /\ drafts[b].by = p

VersionsKnown ==
  /\ \A p \in Pages : Open(p) => Known(p, page[p].version)
  /\ \A p \in Pages : page[p].timer # None => Known(p, page[p].timer.base)
  /\ \A s \in saves : Known(s.by, s.base)

AnswersAreReal ==
  \A s \in saves : s.state = "accepted" =>
    s.version \in DOMAIN drafts /\ drafts[s.version].by = s.by

\* Where it opened is settled once a page has opened.
LEMMA OpenedStays ==
  ASSUME Quiet, NEW q \in Pages, page[q].life # "new"
  PROVE  /\ page'[q].opened = page[q].opened
         /\ page'[q].life = "open" => page[q].life = "open"
  BY DEF Quiet, Goes

\* A page that has stored a draft has opened, and stays opened where it did.
LEMMA OpenedOfAuthor ==
  ASSUME TypeOK, NewHasNothing, Quiet, NEW v \in DOMAIN drafts
  PROVE  page'[drafts[v].by].opened = page[drafts[v].by].opened
<1>1. drafts[v] \in Draft
  BY ElementOfSeq, LenProperties DEF TypeOK
<1>2. drafts[v].by \in Pages /\ page[drafts[v].by].life # "new"
  BY <1>1 DEF Draft, NewHasNothing
<1> QED BY <1>2, OpenedStays

LEMMA NextKnown ==
  ASSUME Base, VersionsKnown, AnswersAreReal, [Next]_vars
  PROVE  VersionsKnown' /\ AnswersAreReal'
<1>1. TypeOK /\ NewHasNothing
  BY DEF Base
<1>2. CASE Quiet
  <2>1. AnswersAreReal'
    BY <1>2 DEF Quiet, Sends, AnswersAreReal
  <2>2. ASSUME NEW q \in Pages, NEW b, Known(q, b), page[q].life # "new"
        PROVE  b = page'[q].opened \/ (b \in DOMAIN drafts /\ drafts[b].by = q)
    BY <1>2, <2>2, OpenedStays DEF Known
  <2>3. ASSUME NEW q \in Pages, page'[q].life = "open"
        PROVE  \/ page'[q].version = page'[q].opened
               \/ /\ page'[q].version \in DOMAIN drafts
                  /\ drafts[page'[q].version].by = q
    <3>1. Goes(q)
      BY <1>2 DEF Quiet
    <3>2. CASE page[q].life = "new"
      BY <2>3, <3>1, <3>2 DEF Goes
    <3>3. CASE page[q].life # "new"
      <4>1. page[q].life = "open" /\ Known(q, page[q].version)
        BY <1>2, <2>3, <3>3, OpenedStays DEF VersionsKnown, Open
      <4>2. CASE page'[q].version = page[q].version
        BY <2>2, <3>3, <4>1, <4>2
      <4>3. CASE \E s \in saves : /\ s.by = q /\ s.state = "accepted"
                                  /\ page'[q].version = s.version
        BY <4>3 DEF AnswersAreReal
      <4> QED BY <2>3, <3>1, <3>3, <4>2, <4>3 DEF Goes
    <3> QED BY <3>2, <3>3
  <2>4. ASSUME NEW q \in Pages, page'[q].timer # None
        PROVE  \/ page'[q].timer.base = page'[q].opened
               \/ /\ page'[q].timer.base \in DOMAIN drafts
                  /\ drafts[page'[q].timer.base].by = q
    <3>1. Goes(q)
      BY <1>2 DEF Quiet
    <3>2. CASE page'[q].timer = page[q].timer
      <4>1. page[q].life # "new" /\ Known(q, page[q].timer.base)
        BY <1>1, <2>4, <3>2 DEF NewHasNothing, VersionsKnown
      <4> QED BY <2>2, <3>2, <4>1
    <3>3. CASE /\ page'[q].life = page[q].life /\ Open(q)
               /\ page'[q].timer = [base |-> page'[q].version,
                                    edit |-> page'[q].edit]
      BY <2>3, <3>3 DEF Open
    <3> QED BY <2>4, <3>1, <3>2, <3>3 DEF Goes
  <2>5. ASSUME NEW s \in saves'
        PROVE  \/ s.base = page'[s.by].opened
               \/ s.base \in DOMAIN drafts /\ drafts[s.base].by = s.by
    <3>1. /\ s.by \in Pages /\ page[s.by].life # "new" /\ Known(s.by, s.base)
      <4>1. CASE s \in saves
        <5>1. s.by \in Pages
          BY <1>1, <4>1 DEF TypeOK, Save
        <5> QED BY <1>1, <4>1, <5>1 DEF NewHasNothing, VersionsKnown
      <4>2. CASE Sends(s)
        <5>1. s.by \in Pages
          BY <4>2 DEF Sends, Save
        <5> QED BY <1>1, <4>2, <5>1 DEF NewHasNothing, VersionsKnown, Sends, Open
      <4> QED BY <1>2, <2>5, <4>1, <4>2 DEF Quiet
    <3> QED BY <2>2, <3>1
  <2>6. VersionsKnown'
    BY <1>2, <2>3, <2>4, <2>5 DEF VersionsKnown, Known, Open, Quiet
  <2> QED BY <2>1, <2>6
<1>3. ASSUME NEW s \in saves, SaveDraft(s)
      PROVE  VersionsKnown' /\ AnswersAreReal'
  <2>1. /\ page' = page /\ Version \in Nat
        /\ DOMAIN drafts = 1 .. Version /\ DOMAIN drafts' = 1 .. Version'
        /\ \A v \in 1 .. Version : drafts'[v] = drafts[v]
        /\ \/ /\ Version' = Version + 1
              /\ drafts'[Version + 1].by = s.by
              /\ \A t \in saves' : t \in saves \/
                   /\ t.by = s.by /\ t.base = s.base
                   /\ t.state = "accepted" /\ t.version = Version + 1
           \/ /\ Version' = Version
              /\ \A t \in saves' : t \in saves \/
                   /\ t.by = s.by /\ t.base = s.base /\ t.state = "refused"
    <3>1. page' = page
      BY <1>3 DEF SaveDraft
    <3> QED BY <1>1, <1>3, <3>1, SaveDrafts
  <2>2. 1 .. Version \subseteq 1 .. Version'
    BY <2>1
  <2>3. ASSUME NEW q, NEW b, Known(q, b)
        PROVE  b = page[q].opened \/ (b \in DOMAIN drafts' /\ drafts'[b].by = q)
    BY <2>1, <2>2, <2>3 DEF Known
  <2>4. \A t \in saves' : Known(t.by, t.base)
    BY <2>1 DEF VersionsKnown
  <2>5. VersionsKnown'
    BY <2>1, <2>3, <2>4 DEF VersionsKnown, Known, Open
  <2>6. ASSUME NEW t \in saves', t.state = "accepted"
        PROVE  t.version \in DOMAIN drafts' /\ drafts'[t.version].by = t.by
    <3>1. CASE t \in saves
      <4>1. t.version \in DOMAIN drafts /\ drafts[t.version].by = t.by
        BY <2>6, <3>1 DEF AnswersAreReal
      <4> QED BY <2>1, <2>2, <4>1
    <3>2. CASE t \notin saves
      <4>1. /\ Version' = Version + 1 /\ drafts'[Version + 1].by = s.by
            /\ t.by = s.by /\ t.version = Version + 1
        BY <2>1, <2>6, <3>2
      <4>2. Version + 1 \in 1 .. Version'
        BY <2>1, <4>1
      <4> QED BY <2>1, <4>1, <4>2
    <3> QED BY <3>1, <3>2
  <2> QED BY <2>5, <2>6 DEF AnswersAreReal
<1> QED BY <1>2, <1>3, StepKinds

\* A page's drafts are newer than the version it opened at.
DraftsAreNewer ==
  \A v \in DOMAIN drafts : page[drafts[v].by].opened < v

LEMMA NextNewer ==
  ASSUME Base, DraftsAreNewer, [Next]_vars
  PROVE  DraftsAreNewer'
<1>1. TypeOK /\ NewHasNothing
  BY DEF Base
<1>2. CASE Quiet
  <2>1. ASSUME NEW v \in DOMAIN drafts
        PROVE  page'[drafts[v].by].opened < v
    <3>1. page'[drafts[v].by].opened = page[drafts[v].by].opened
      BY <1>1, <1>2, <2>1, OpenedOfAuthor
    <3> QED BY <2>1, <3>1 DEF DraftsAreNewer
  <2> QED BY <1>2, <2>1 DEF DraftsAreNewer, Quiet
<1>3. ASSUME NEW s \in saves, SaveDraft(s), NEW v \in DOMAIN drafts'
      PROVE  page'[drafts'[v].by].opened < v
  <2>1. /\ s \in Save /\ Version \in Nat /\ page' = page
        /\ DOMAIN drafts = 1 .. Version /\ DOMAIN drafts' = 1 .. Version'
        /\ \A w \in 1 .. Version : drafts'[w] = drafts[w]
        /\ \/ /\ Version' = Version + 1
              /\ drafts'[Version + 1].by = s.by
           \/ Version' = Version
    <3>1. page' = page
      BY <1>3 DEF SaveDraft
    <3> QED BY <1>1, <1>3, <3>1, SaveDrafts
  <2>2. CASE v \in 1 .. Version
    BY <2>1, <2>2 DEF DraftsAreNewer
  <2>3. CASE v \notin 1 .. Version
    <3>1. v = Version + 1 /\ drafts'[v].by = s.by
      BY <1>3, <2>1, <2>3
    <3>2. s.by \in Pages
      BY <2>1 DEF Save
    <3>3. page[s.by].opened \in Nat /\ page[s.by].opened <= Version
      BY <1>1, <3>2 DEF TypeOK, Page
    <3> QED BY <2>1, <3>1, <3>3
  <2> QED BY <2>2, <2>3
<1> QED BY <1>2, <1>3, StepKinds DEF DraftsAreNewer

LEMMA NextMeanwhile ==
  ASSUME Base, VersionsKnown, DraftsAreNewer, DraftsMeanwhileAreKept, [Next]_vars
  PROVE  DraftsMeanwhileAreKept'
<1>1. TypeOK /\ NewHasNothing
  BY DEF Base
<1>2. CASE Quiet
  <2>1. ASSUME NEW v \in DOMAIN drafts
        PROVE  page'[drafts[v].by].opened = page[drafts[v].by].opened
    BY <1>1, <1>2, <2>1, OpenedOfAuthor
  <2> QED BY <1>2, <2>1 DEF DraftsMeanwhileAreKept, Quiet
<1>3. ASSUME NEW s \in saves, SaveDraft(s), NEW v \in DOMAIN drafts',
             ~drafts'[v].forced, v > 1, drafts'[v - 1].by # drafts'[v].by
      PROVE  /\ v - 1 <= page'[drafts'[v].by].opened
             /\ \A w \in 1 .. v - 1 : drafts'[w].by # drafts'[v].by
  <2>1. /\ s \in Save /\ Version \in Nat /\ page' = page
        /\ DOMAIN drafts = 1 .. Version /\ DOMAIN drafts' = 1 .. Version'
        /\ \A w \in 1 .. Version : drafts'[w] = drafts[w]
        /\ \/ /\ VersionMatches(s) /\ Version' = Version + 1
              /\ drafts'[Version + 1].by = s.by
              /\ drafts'[Version + 1].forced <=> s.how = "force"
           \/ Version' = Version
    <3>1. page' = page
      BY <1>3 DEF SaveDraft
    <3> QED BY <1>1, <1>3, <3>1, SaveDrafts
  <2>2. CASE v \in 1 .. Version
    <3>1. 1 .. v - 1 \subseteq 1 .. Version /\ v - 1 \in 1 .. Version
      BY <1>3, <2>1, <2>2
    <3>2. /\ v - 1 <= page[drafts[v].by].opened
          /\ \A w \in 1 .. v - 1 : drafts[w].by # drafts[v].by
      BY <1>3, <2>1, <2>2, <3>1 DEF DraftsMeanwhileAreKept
    <3> QED BY <2>1, <2>2, <3>1, <3>2
  <2>3. CASE v \notin 1 .. Version
    <3>1. v = Version + 1 /\ Version' = Version + 1
      BY <1>3, <2>1, <2>3
    <3>2. /\ drafts'[v].by = s.by /\ s.how # "force" /\ VersionMatches(s)
      BY <1>3, <2>1, <3>1
    <3>3. s.base = Version /\ Known(s.by, Version)
      BY <3>2 DEF VersionMatches, VersionsKnown
    <3>4. v - 1 = Version /\ Version \in 1 .. Version
      BY <1>3, <2>1, <3>1
    <3>5. page[s.by].opened = Version
      BY <1>3, <2>1, <3>2, <3>3, <3>4 DEF Known
    <3>6. ASSUME NEW w \in 1 .. Version
          PROVE  drafts[w].by # s.by
      BY <2>1, <3>5, <3>6 DEF DraftsAreNewer
    <3> QED BY <2>1, <3>2, <3>4, <3>5, <3>6
  <2> QED BY <2>2, <2>3
<1> QED BY <1>2, <1>3, StepKinds DEF DraftsMeanwhileAreKept

LEMMA InitKnown ==
  ASSUME Init
  PROVE  VersionsKnown /\ AnswersAreReal
  BY DEF Init, NewPage, VersionsKnown, AnswersAreReal, Known, Open

\* What another window stored while a page was open is never replaced by a save
\* that was not forced; what was stored before, at most by the page's first
\* draft: in whatever order saves arrive and are answered.
THEOREM DraftsMeanwhileAreKeptHolds == Spec => []DraftsMeanwhileAreKept
<1>1. Init => DraftsMeanwhileAreKept /\ DraftsAreNewer
  BY EmptySeq DEF Init, DraftsMeanwhileAreKept, DraftsAreNewer
<1> QED
  BY <1>1, InitBase, InitKnown, NextBase, NextKnown, NextNewer, NextMeanwhile,
     PTL DEF Spec

-----------------------------------------------------------------------------
(* The order of a window's answers *)

\* Up to version b no draft of p holds later answers.
Follows(p, b, edit) ==
  \A v \in DOMAIN drafts :
    v <= b /\ drafts[v].by = p => drafts[v].content[2] <= edit

EditsGrow ==
  \A p \in Pages :
    /\ page[p].timer # None =>
         /\ page[p].timer.edit <= page[p].edit
         /\ Follows(p, page[p].timer.base, page[p].timer.edit)
    /\ Open(p) => \A v \in DOMAIN drafts :
         drafts[v].by = p => drafts[v].content[2] <= page[p].edit

SavesFollow ==
  \A s \in saves :
    /\ Follows(s.by, s.base, s.edit)
    /\ Open(s.by) => s.edit <= page[s.by].edit

LEMMA DraftEdits ==
  ASSUME TypeOK, NEW v \in DOMAIN drafts
  PROVE  drafts[v].content[2] \in Nat
<1>1. drafts[v] \in Draft
  BY ElementOfSeq, LenProperties DEF TypeOK
<1> QED BY <1>1 DEF Draft, Contents

LEMMA QuietEdits ==
  ASSUME Base, EditsGrow, SavesFollow, Quiet
  PROVE  EditsGrow' /\ SavesFollow'
<1>1. TypeOK /\ NewHasNothing
  BY DEF Base
<1>2. ASSUME NEW q \in Pages
      PROVE  page[q] \in Page /\ page'[q] \in Page /\ Goes(q)
  BY <1>1 DEF Quiet, TypeOK
<1>3. ASSUME NEW q \in Pages, page'[q].life = "open", NEW v \in DOMAIN drafts,
             drafts[v].by = q
      PROVE  drafts[v].content[2] <= page'[q].edit
  <2>1. page[q].life = "open" /\ page'[q].edit >= page[q].edit
    <3>1. page[q].life # "new"
      BY <1>1, <1>3 DEF NewHasNothing
    <3> QED BY <1>2, <1>3, <3>1 DEF Goes
  <2>2. drafts[v].content[2] <= page[q].edit
    BY <1>3, <2>1 DEF EditsGrow, Open
  <2>3. /\ drafts[v].content[2] \in Nat
        /\ page[q].edit \in Nat /\ page'[q].edit \in Nat
    BY <1>1, <1>2, DraftEdits DEF Page
  <2> QED BY <2>1, <2>2, <2>3
<1>4. ASSUME NEW q \in Pages, page'[q].timer # None
      PROVE  /\ page'[q].timer.edit <= page'[q].edit
             /\ Follows(q, page'[q].timer.base, page'[q].timer.edit)
  <2>1. Goes(q) /\ page[q].edit \in Nat /\ page'[q].edit \in Nat
    BY <1>2 DEF Page
  <2>2. CASE page'[q].timer = page[q].timer
    <3>1. page[q].life # "new"
      BY <1>1, <1>4, <2>2 DEF NewHasNothing
    <3>2. page'[q].edit >= page[q].edit
      BY <1>4, <2>1, <3>1 DEF Goes
    <3>3. page[q].timer \in Timer
      BY <1>2, <1>4, <2>2 DEF Page
    <3> QED BY <1>4, <2>1, <2>2, <3>2, <3>3 DEF EditsGrow, Timer
  <2>3. CASE /\ page'[q].life = page[q].life /\ Open(q)
             /\ page'[q].timer = [base |-> page'[q].version,
                                  edit |-> page'[q].edit]
    BY <1>3, <2>1, <2>3 DEF Follows, Open
  <2> QED BY <1>4, <2>1, <2>2, <2>3 DEF Goes
<1>5. ASSUME NEW s \in saves'
      PROVE  /\ Follows(s.by, s.base, s.edit)
             /\ page'[s.by].life = "open" => s.edit <= page'[s.by].edit
  <2>1. /\ s.by \in Pages /\ s.edit \in Nat /\ page[s.by].life # "new"
        /\ Follows(s.by, s.base, s.edit)
        /\ page[s.by].life = "open" => s.edit <= page[s.by].edit
    <3>1. CASE s \in saves
      <4>1. s.by \in Pages /\ s.edit \in Nat
        BY <1>1, <3>1 DEF TypeOK, Save
      <4> QED BY <1>1, <3>1, <4>1 DEF NewHasNothing, SavesFollow, Open
    <3>2. CASE Sends(s)
      <4>1. s.by \in Pages /\ s.edit \in Nat
        BY <3>2 DEF Sends, Save
      <4>2. CASE /\ page[s.by].timer # None
                 /\ s.base = page[s.by].timer.base
                 /\ s.edit = page[s.by].timer.edit
        BY <1>1, <4>1, <4>2 DEF NewHasNothing, EditsGrow
      <4>3. CASE /\ Open(s.by)
                 /\ s.base = page[s.by].version /\ s.edit = page[s.by].edit
        BY <4>1, <4>3 DEF EditsGrow, Follows, Open
      <4> QED BY <3>2, <4>2, <4>3 DEF Sends
    <3> QED BY <3>1, <3>2 DEF Quiet
  <2>2. page'[s.by].life = "open" =>
          page[s.by].life = "open" /\ page'[s.by].edit >= page[s.by].edit
    BY <1>2, <2>1 DEF Goes
  <2>3. page[s.by].edit \in Nat /\ page'[s.by].edit \in Nat
    BY <1>2, <2>1 DEF Page
  <2> QED BY <2>1, <2>2, <2>3
<1>6. EditsGrow'
  BY <1>3, <1>4 DEF EditsGrow, Follows, Open, Quiet
<1>7. SavesFollow'
  BY <1>5 DEF SavesFollow, Follows, Open, Quiet
<1> QED BY <1>6, <1>7

LEMMA SaveEdits ==
  ASSUME Base, EditsGrow, SavesFollow, NEW s \in saves, SaveDraft(s)
  PROVE  EditsGrow' /\ SavesFollow'
<1>1. TypeOK /\ page' = page /\ s \in Save /\ s.by \in Pages
  BY DEF Base, TypeOK, Save, SaveDraft
<1>2. /\ Version \in Nat
      /\ DOMAIN drafts = 1 .. Version /\ DOMAIN drafts' = 1 .. Version'
      /\ \A v \in 1 .. Version : drafts'[v] = drafts[v]
      /\ \/ /\ Version' = Version + 1
            /\ drafts'[Version + 1].content = Content(s.by, s.edit)
            /\ drafts'[Version + 1].by = s.by
         \/ Version' = Version
      /\ \A t \in saves' : t \in saves \/
           (t.by = s.by /\ t.base = s.base /\ t.edit = s.edit)
  BY <1>1, SaveDrafts
<1>3. Content(s.by, s.edit)[2] = s.edit
  BY <1>1 DEF Content
<1>4. ASSUME NEW q, NEW b \in Nat, NEW e, b <= Version, Follows(q, b, e)
      PROVE  \A v \in DOMAIN drafts' :
               v <= b /\ drafts'[v].by = q => drafts'[v].content[2] <= e
  <2>1. \A v \in DOMAIN drafts' : v <= b => v \in 1 .. Version
    BY <1>2, <1>4
  <2> QED BY <1>2, <1>4, <2>1 DEF Follows
<1>5. ASSUME NEW q \in Pages, Open(q), NEW v \in DOMAIN drafts', drafts'[v].by = q
      PROVE  drafts'[v].content[2] <= page[q].edit
  <2>1. CASE v \in 1 .. Version
    BY <1>2, <1>5, <2>1 DEF EditsGrow
  <2>2. CASE v \notin 1 .. Version
    <3>1. v = Version + 1 /\ Version' = Version + 1
      BY <1>2, <1>5, <2>2
    <3>2. s.by = q /\ drafts'[v].content[2] = s.edit
      BY <1>2, <1>3, <1>5, <3>1
    <3> QED BY <1>5, <3>2 DEF SavesFollow
  <2> QED BY <2>1, <2>2
<1>6. ASSUME NEW q \in Pages, page[q].timer # None
      PROVE  page[q].timer.base \in Nat /\ page[q].timer.base <= Version
  BY <1>1, <1>6 DEF TypeOK, Page, Timer
<1>7. EditsGrow'
  BY <1>1, <1>4, <1>5, <1>6 DEF EditsGrow, Follows, Open
<1>8. ASSUME NEW t \in saves'
      PROVE  /\ t.base \in Nat /\ t.base <= Version
             /\ Follows(t.by, t.base, t.edit)
             /\ Open(t.by) => t.edit <= page[t.by].edit
  BY <1>1, <1>2 DEF TypeOK, Save, SavesFollow
<1>9. SavesFollow'
  BY <1>1, <1>4, <1>8 DEF SavesFollow, Follows, Open
<1> QED BY <1>7, <1>9

LEMMA NextInOrder ==
  ASSUME Base, SavesFollow, EditsInOrder, NEW s \in saves, SaveDraft(s)
  PROVE  EditsInOrder'
<1>1. /\ s \in Save /\ s.edit \in Nat /\ Version \in Nat
      /\ DOMAIN drafts = 1 .. Version /\ DOMAIN drafts' = 1 .. Version'
      /\ \A v \in 1 .. Version : drafts'[v] = drafts[v]
      /\ \/ /\ VersionMatches(s) /\ Version' = Version + 1
            /\ drafts'[Version + 1].content = Content(s.by, s.edit)
            /\ drafts'[Version + 1].by = s.by
            /\ drafts'[Version + 1].forced <=> s.how = "force"
         \/ Version' = Version
  BY SaveDrafts DEF Base, Save
<1>2. Content(s.by, s.edit)[2] = s.edit
  BY <1>1 DEF Content
<1>3. ASSUME NEW v \in DOMAIN drafts', NEW w \in DOMAIN drafts', v < w,
             drafts'[v].by = drafts'[w].by, ~drafts'[w].forced
      PROVE  drafts'[v].content[2] <= drafts'[w].content[2]
  <2>1. CASE w \in 1 .. Version
    <3>1. v \in 1 .. Version
      BY <1>1, <1>3, <2>1
    <3> QED BY <1>1, <1>3, <2>1, <3>1 DEF EditsInOrder
  <2>2. CASE w \notin 1 .. Version
    <3>1. w = Version + 1 /\ Version' = Version + 1
      BY <1>1, <1>3, <2>2
    <3>2. v \in 1 .. Version /\ v <= Version
      BY <1>1, <1>3, <3>1
    <3>3. s.how # "force" /\ VersionMatches(s) /\ drafts[v].by = s.by
      BY <1>1, <1>3, <3>1, <3>2
    <3>4. Follows(s.by, Version, s.edit)
      BY <3>3 DEF VersionMatches, SavesFollow
    <3>5. drafts[v].content[2] <= s.edit
      BY <1>1, <3>2, <3>3, <3>4 DEF Follows
    <3>6. drafts'[w].content[2] = s.edit
      BY <1>1, <1>2, <3>1
    <3> QED BY <1>1, <3>2, <3>5, <3>6
  <2> QED BY <2>1, <2>2
<1> QED BY <1>3 DEF EditsInOrder

LEMMA InitEdits ==
  ASSUME Init
  PROVE  EditsGrow /\ SavesFollow
  BY EmptySeq DEF Init, NewPage, EditsGrow, SavesFollow, Open

LEMMA NextEdits ==
  ASSUME Base, EditsGrow, SavesFollow, [Next]_vars
  PROVE  EditsGrow' /\ SavesFollow'
  BY StepKinds, QuietEdits, SaveEdits

\* A save that is not forced never brings back earlier answers of its window.
THEOREM EditsInOrderHolds == Spec => []EditsInOrder
<1>1. Init => EditsInOrder
  BY EmptySeq DEF Init, EditsInOrder
<1>2. Base /\ SavesFollow /\ EditsInOrder /\ [Next]_vars => EditsInOrder'
  <2>1. Quiet /\ EditsInOrder => EditsInOrder'
    BY DEF Quiet, EditsInOrder
  <2> QED BY <2>1, StepKinds, NextInOrder
<1> QED BY <1>1, <1>2, InitBase, NextBase, InitEdits, NextEdits, PTL DEF Spec

-----------------------------------------------------------------------------
(* The last edit *)

Forced(p) == {s \in saves : s.by = p /\ s.how = "force"}

\* Autosaves under way with the last edit of p.
Coming(p) ==
  {s \in saves : /\ s.by = p /\ s.how = "auto" /\ s.state # "accepted"
                 /\ s.edit = page[p].edit}

\* Of a page whose dialog was not answered twice one forced save is under way,
\* of what the page still shows; and while it is online its last edit waits for
\* the timer or for the customer, is on its way, or is stored.
Settled(p) ==
  /\ page[p].timer # None => page[p].timer.edit = page[p].edit
  /\ page[p].life = "new" => page[p].edit = 0
  /\ Open(p) /\ ~page[p].again =>
       /\ \A s, t \in Forced(p) : s = t
       /\ \A s \in Forced(p) : /\ page[p].conflict /\ s.edit = page[p].edit
                               /\ s.state = "accepted" => Stored(p)
       /\ page[p].online /\ page[p].edit > 0 /\ ~lost[p] =>
            \/ page[p].timer # None \/ page[p].conflict
            \/ Coming(p) # {} \/ Stored(p)

AllSettled == \A p \in Pages : Settled(p)

\* Whatever may have happened to its timer, the page keeps its last edit.
Retimed(r, t) ==
  /\ t.life = r.life /\ t.edit = r.edit
  /\ t.conflict = r.conflict /\ t.again = r.again
  /\ \/ t.online = r.online /\ t.timer = r.timer
     \/ t.online /\ t.timer # None /\ t.timer.edit = t.edit
     \/ ~t.online /\ t.timer = None

\* A step that stores nothing, forces nothing and loses sight of nothing of p.
Carried(p) ==
  /\ Retimed(page[p], page'[p])
  /\ drafts' = drafts
  /\ lost[p] => lost'[p]
  /\ \A s \in saves' : s.by = p /\ s.how = "force" => s \in saves
  /\ \/ lost'[p]
     \/ \A s \in saves : s.by = p /\ s.how = "auto" /\ s.state # "accepted" =>
          s \in saves'

LEMMA StoredStays ==
  ASSUME NEW p, page'[p].edit = page[p].edit, drafts' = drafts, Stored(p)
  PROVE  Stored(p)'
  BY DEF Stored, Content

LEMMA CarriedSettled ==
  ASSUME NEW p \in Pages, Carried(p), Settled(p)
  PROVE  Settled(p)'
<1>1. /\ page'[p].timer # None => page'[p].timer.edit = page'[p].edit
      /\ page'[p].life = "new" => page'[p].edit = 0
  BY DEF Carried, Retimed, Settled
<1>2. ASSUME page'[p].life = "open", ~page'[p].again
      PROVE  /\ \A s, t \in Forced(p)' : s = t
             /\ \A s \in Forced(p)' : /\ page'[p].conflict /\ s.edit = page'[p].edit
                                      /\ s.state = "accepted" => Stored(p)'
             /\ page'[p].online /\ page'[p].edit > 0 /\ ~lost'[p] =>
                  \/ page'[p].timer # None \/ page'[p].conflict
                  \/ Coming(p)' # {} \/ Stored(p)'
  <2>1. Open(p) /\ ~page[p].again
    BY <1>2 DEF Carried, Retimed, Open
  <2>2. Forced(p)' \subseteq Forced(p)
    BY DEF Carried, Forced
  <2>3. page'[p].edit = page[p].edit /\ page'[p].conflict = page[p].conflict
    BY DEF Carried, Retimed
  <2>4. Stored(p) => Stored(p)'
    BY <2>3, StoredStays DEF Carried
  <2>5. /\ \A s, t \in Forced(p) : s = t
        /\ \A s \in Forced(p) : /\ page[p].conflict /\ s.edit = page[p].edit
                                /\ s.state = "accepted" => Stored(p)
        /\ page[p].online /\ page[p].edit > 0 /\ ~lost[p] =>
             \/ page[p].timer # None \/ page[p].conflict
             \/ Coming(p) # {} \/ Stored(p)
    BY <2>1 DEF Settled
  <2>6. ASSUME page'[p].online, page'[p].edit > 0, ~lost'[p]
        PROVE  \/ page'[p].timer # None \/ page'[p].conflict
               \/ Coming(p)' # {} \/ Stored(p)'
    <3>1. ~lost[p] /\ Coming(p) \subseteq Coming(p)'
      BY <2>3, <2>6 DEF Carried, Coming
    <3>2. CASE page'[p].online = page[p].online /\ page'[p].timer = page[p].timer
      BY <2>3, <2>4, <2>5, <2>6, <3>1, <3>2
    <3> QED BY <2>6, <3>2 DEF Carried, Retimed
  <2> QED BY <2>2, <2>3, <2>4, <2>5, <2>6
<1> QED BY <1>1, <1>2 DEF Settled, Open

\* The pages that a step leaves alone.
LEMMA OthersCarried ==
  ASSUME NEW q \in Pages, page'[q] = page[q], lost'[q] = lost[q],
         drafts' = drafts, \A s : s.by = q => (s \in saves <=> s \in saves')
  PROVE  Carried(q)
  BY DEF Carried, Retimed

\* One page changes, to t.
LEMMA OneCarried ==
  ASSUME TypeOK, AllSettled, NEW p \in Pages, NEW t,
         page' = [page EXCEPT ![p] = t], drafts' = drafts,
         lost' = lost \/ lost' = [lost EXCEPT ![p] = TRUE],
         \A s : s.by # p => (s \in saves <=> s \in saves'),
         page'[p] = t => Settled(p)'
  PROVE  AllSettled'
<1>1. /\ page'[p] = t
      /\ \A q \in Pages : q # p => page'[q] = page[q] /\ lost'[q] = lost[q]
  BY DEF TypeOK
<1>2. ASSUME NEW q \in Pages, q # p PROVE Settled(q)'
  <2>1. Carried(q)
    BY <1>1, <1>2, OthersCarried
  <2> QED BY <2>1, CarriedSettled DEF AllSettled
<1> QED BY <1>1, <1>2 DEF AllSettled

\* The same when the page keeps its last edit.
LEMMA OneRetimed ==
  ASSUME TypeOK, AllSettled, NEW p \in Pages, NEW t, Retimed(page[p], t),
         page' = [page EXCEPT ![p] = t], drafts' = drafts,
         lost' = lost \/ lost' = [lost EXCEPT ![p] = TRUE],
         \A s : s.by # p => (s \in saves <=> s \in saves'),
         \A s \in saves' : s.by = p /\ s.how = "force" => s \in saves,
         \/ lost'[p]
         \/ \A s \in saves : s.by = p /\ s.how = "auto" /\ s.state # "accepted" =>
              s \in saves'
  PROVE  AllSettled'
<1>1. lost[p] => lost'[p]
  BY DEF TypeOK
<1>2. ASSUME page'[p] = t PROVE Settled(p)'
  <2>1. Carried(p)
    BY <1>1, <1>2 DEF Carried
  <2> QED BY <2>1, CarriedSettled DEF AllSettled
<1> QED BY <1>2, OneCarried

LEMMA AutosaveRetimes ==
  ASSUME NEW r \in Page
  PROVE  LET t == Autosave(r)
         IN  /\ t.life = r.life /\ t.edit = r.edit
             /\ t.conflict = r.conflict /\ t.again = r.again
             /\ \/ t.online /\ t.timer # None /\ t.timer.edit = t.edit
                \/ ~t.online /\ t.timer = None
<1>1. CASE r.online
  <2>1. PICK timer : timer = [base |-> r.version, edit |-> r.edit]
    OBVIOUS
  <2>2. timer \in Timer /\ timer.edit = r.edit
    BY <2>1 DEF Page, Timer
  <2>3. Autosave(r) = [r EXCEPT !.timer = timer, !.status = "saving"]
    BY <1>1, <2>1 DEF Autosave
  <2> QED BY <1>1, <2>2, <2>3, NoneAssumption DEF Page
<1>2. CASE ~r.online
  <2>1. Autosave(r) = [r EXCEPT !.timer = None, !.status = "offline"]
    BY <1>2 DEF Autosave
  <2> QED BY <1>2, <2>1 DEF Page
<1> QED BY <1>1, <1>2

LEMMA ToSigningRetimes ==
  ASSUME NEW r \in Page
  PROVE  Retimed(r, ToSigning(r))
<1>1. CASE r.step = "signing"
  BY <1>1 DEF ToSigning, Retimed
<1>2. CASE r.step # "signing"
  <2>1. PICK t \in Page : t = [r EXCEPT !.step = "signing"]
    BY DEF Page
  <2>2. ToSigning(r) = Autosave(t)
    BY <1>2, <2>1 DEF ToSigning
  <2>3. /\ t.life = r.life /\ t.edit = r.edit
        /\ t.conflict = r.conflict /\ t.again = r.again
    BY <2>1 DEF Page
  <2> QED BY <2>2, <2>3, AutosaveRetimes DEF Retimed
<1> QED BY <1>1, <1>2

LEMMA OpenSettled ==
  ASSUME Base, AllSettled, NEW p \in Pages, OpenPage(p)
  PROVE  AllSettled'
<1>1. page[p] \in Page /\ page[p].life = "new"
  BY DEF Base, TypeOK, OpenPage
<1>2. PICK t : t = [page[p] EXCEPT !.life = "open", !.opened = Version,
                                   !.version = Version]
  OBVIOUS
<1>3. page' = [page EXCEPT ![p] = t]
  BY <1>1, <1>2 DEF OpenPage, Base, TypeOK
<1>4. /\ t.life = "open" /\ t.edit = 0 /\ t.timer = None
      /\ \A s \in saves' : s.by # p
  BY <1>1, <1>2 DEF AllSettled, Settled, Base, NewHasNothing, OpenPage, Page
<1>5. ASSUME page'[p] = t PROVE Settled(p)'
  BY <1>4, <1>5 DEF Settled, Forced
<1> QED BY <1>3, <1>5, OneCarried DEF OpenPage, serverVars, Base

LEMMA LeaveSettled ==
  ASSUME Base, AllSettled, NEW p \in Pages, LeavePage(p)
  PROVE  AllSettled'
<1>1. PICK t :
        t = [NewPage EXCEPT !.life = "left", !.opened = page[p].opened,
                            !.blobs = page[p].blobs \ {page[p].current},
                            !.submitting = page[p].submitting, !.over = page[p].over]
  OBVIOUS
<1>2. page' = [page EXCEPT ![p] = t]
  BY <1>1 DEF LeavePage
<1>3. t.life = "left" /\ t.timer = None
  BY <1>1 DEF NewPage
<1>4. ASSUME page'[p] = t PROVE Settled(p)'
  BY <1>3, <1>4 DEF Settled, Open
<1> QED BY <1>2, <1>4, OneCarried DEF LeavePage, serverVars, Base

\* An edit waits for its timer, and no save is forced: there is no dialog.
LEMMA EditSettled ==
  ASSUME Base, AllSettled, NEW p \in Pages, Edit(p)
  PROVE  AllSettled'
<1>1. page[p] \in Page /\ Open(p) /\ ~page[p].conflict
  BY DEF Base, TypeOK, Edit
<1>2. PICK n \in Nat : n = page[p].edit + 1
  BY <1>1 DEF Page
<1>3. PICK r \in Page : r = [page[p] EXCEPT !.edit = n]
  BY <1>1 DEF Page
<1>4. PICK t : t = Autosave(r)
  OBVIOUS
<1>5. page' = [page EXCEPT ![p] = t]
  BY <1>2, <1>3, <1>4 DEF Edit
<1>6. /\ t.life = "open" /\ t.again = page[p].again
      /\ \/ t.online /\ t.timer # None /\ t.timer.edit = t.edit
         \/ ~t.online /\ t.timer = None
  BY <1>1, <1>3, <1>4, AutosaveRetimes DEF Open, Page
<1>7. ~page[p].again => Forced(p) = {}
  BY <1>1 DEF AllSettled, Settled
<1>8. Forced(p)' = Forced(p)
  BY DEF Edit, Forced
<1>9. ASSUME page'[p] = t PROVE Settled(p)'
  BY <1>6, <1>7, <1>8, <1>9 DEF Settled
<1> QED BY <1>5, <1>9, OneCarried DEF Edit, serverVars, Base

LEMMA MoveSettled ==
  ASSUME Base, AllSettled, NEW p \in Pages, Move(p) \/ Connection(p)
  PROVE  AllSettled'
<1>1. page[p] \in Page
  BY DEF Base, TypeOK
<1>2. PICK r \in Page :
        /\ page' = [page EXCEPT ![p] = Autosave(r)]
        /\ r.life = page[p].life /\ r.edit = page[p].edit
        /\ r.conflict = page[p].conflict /\ r.again = page[p].again
  <2>1. CASE Move(p)
    <3>1. PICK n \in Nat : n = page[p].moves + 1
      BY <1>1 DEF Page
    <3>2. PICK r \in Page : r = [page[p] EXCEPT !.step = "filling", !.moves = n]
      BY <1>1 DEF Page
    <3>3. page' = [page EXCEPT ![p] = Autosave(r)]
      BY <2>1, <3>1, <3>2 DEF Move
    <3>4. /\ r.life = page[p].life /\ r.edit = page[p].edit
          /\ r.conflict = page[p].conflict /\ r.again = page[p].again
      BY <1>1, <3>2 DEF Page
    <3> QED BY <3>3, <3>4
  <2>2. CASE Connection(p)
    <3>1. PICK n \in Nat : n = IF page[p].online THEN page[p].moves + 1
                                                 ELSE page[p].moves
      BY <1>1 DEF Page
    <3>2. PICK r \in Page : r = [page[p] EXCEPT !.online = ~@, !.moves = n]
      BY <1>1 DEF Page
    <3>3. page' = [page EXCEPT ![p] = Autosave(r)]
      BY <2>2, <3>1, <3>2 DEF Connection
    <3>4. /\ r.life = page[p].life /\ r.edit = page[p].edit
          /\ r.conflict = page[p].conflict /\ r.again = page[p].again
      BY <1>1, <3>2 DEF Page
    <3> QED BY <3>3, <3>4
  <2> QED BY <2>1, <2>2
<1>3. PICK t : t = Autosave(r)
  OBVIOUS
<1>4. Retimed(page[p], t)
  BY <1>2, <1>3, AutosaveRetimes DEF Retimed
<1>5. page' = [page EXCEPT ![p] = t]
  BY <1>2, <1>3
<1>6. saves' = saves /\ drafts' = drafts /\ lost' = lost
  BY DEF Move, Connection, serverVars
<1> QED BY <1>4, <1>5, <1>6, OneRetimed DEF Base

\* What Send adds.
LEMMA Sent ==
  ASSUME NEW p, NEW how, NEW base, NEW edit, Send(p, how, base, edit)
  PROVE  \E s : /\ saves' = saves \cup {s}
                /\ s.by = p /\ s.how = how /\ s.edit = edit /\ s.state = "sent"
<1>1. PICK s : s = [id |-> sent.saves + 1, by |-> p, how |-> how, base |-> base,
                    edit |-> edit, state |-> "sent", version |-> 0]
  OBVIOUS
<1>2. saves' = saves \cup {s}
  BY <1>1 DEF Send
<1>3. s.by = p /\ s.how = how /\ s.edit = edit /\ s.state = "sent"
  BY <1>1
<1> QED BY <1>2, <1>3

\* The timer sends what it waited with, which is the last edit.
LEMMA TimerSettled ==
  ASSUME Base, AllSettled, NEW p \in Pages, TimerFires(p)
  PROVE  AllSettled'
<1>1. page[p] \in Page
  BY DEF Base, TypeOK
<1>2. PICK t : t = [page[p] EXCEPT !.timer = None]
  OBVIOUS
<1>3. page' = [page EXCEPT ![p] = t] /\ drafts' = drafts /\ lost' = lost
  BY <1>2 DEF TimerFires, serverVars
<1>4. PICK s : /\ saves' = saves \cup {s} /\ s.by = p /\ s.how = "auto"
               /\ s.edit = page[p].edit /\ s.state = "sent"
  BY Sent DEF TimerFires, AllSettled, Settled
<1>5. /\ t.life = page[p].life /\ t.edit = page[p].edit /\ t.timer = None
      /\ t.conflict = page[p].conflict /\ t.again = page[p].again
  BY <1>1, <1>2 DEF Page
<1>6. ASSUME page'[p] = t PROVE Settled(p)'
  <2>1. Forced(p)' = Forced(p)
    BY <1>4 DEF Forced
  <2>2. s \in Coming(p)'
    BY <1>4, <1>5, <1>6 DEF Coming
  <2>3. Stored(p) => Stored(p)'
    BY <1>3, <1>5, <1>6, StoredStays
  <2> QED BY <1>5, <1>6, <2>1, <2>2, <2>3 DEF Settled, AllSettled, Open
<1> QED BY <1>3, <1>4, <1>6, OneCarried DEF Base

LEMMA NextStepSettled ==
  ASSUME Base, AllSettled, NEW p \in Pages, NextStep(p)
  PROVE  AllSettled'
<1>1. page[p] \in Page
  BY DEF Base, TypeOK
<1>2. PICK t : t = [page[p] EXCEPT !.status = "saving"]
  OBVIOUS
<1>3. page' = [page EXCEPT ![p] = t] /\ drafts' = drafts /\ lost' = lost
  BY <1>2 DEF NextStep, serverVars
<1>4. PICK s : saves' = saves \cup {s} /\ s.by = p /\ s.how = "next"
  BY Sent DEF NextStep
<1>5. Retimed(page[p], t)
  BY <1>1, <1>2 DEF Page, Retimed
<1> QED BY <1>3, <1>4, <1>5, OneRetimed DEF Base

\* A second answer to the dialog is noted; the first sends what the page shows.
LEMMA KeepSettled ==
  ASSUME Base, AllSettled, NEW p \in Pages, KeepLocal(p)
  PROVE  AllSettled'
<1>1. page[p] \in Page /\ Open(p) /\ page[p].conflict
  BY DEF Base, TypeOK, KeepLocal
<1>2. PICK pressed : pressed = (page[p].again \/ \E s \in saves : s.by = p /\ s.how = "force")
  OBVIOUS
<1>3. PICK t : t = [page[p] EXCEPT !.again = pressed]
  OBVIOUS
<1>4. page' = [page EXCEPT ![p] = t] /\ drafts' = drafts /\ lost' = lost
  BY <1>2, <1>3 DEF KeepLocal, serverVars
<1>5. PICK s : /\ saves' = saves \cup {s} /\ s.by = p /\ s.how = "force"
               /\ s.edit = page[p].edit /\ s.state = "sent"
  BY Sent DEF KeepLocal
<1>6. /\ t.life = page[p].life /\ t.edit = page[p].edit /\ t.timer = page[p].timer
      /\ t.conflict = page[p].conflict /\ t.again = pressed
  BY <1>1, <1>3 DEF Page
<1>7. ASSUME page'[p] = t, ~pressed PROVE Forced(p)' = {s}
  BY <1>2, <1>5, <1>7 DEF Forced
<1>8. ASSUME page'[p] = t PROVE Settled(p)'
  BY <1>1, <1>5, <1>6, <1>7, <1>8 DEF Settled, AllSettled, Open
<1> QED BY <1>4, <1>5, <1>8, OneCarried DEF Base

LEMMA SubmittingSettled ==
  ASSUME Base, AllSettled, NEW p \in Pages,
         Submit(p) \/ PrepareSigning(p) \/ SubmitCase(p)
  PROVE  AllSettled'
<1>1. page[p] \in Page
  BY DEF Base, TypeOK
<1>2. PICK stage, over : page' = [page EXCEPT ![p].submitting = stage, ![p].over = over]
  <2>1. CASE Submit(p)
    BY <2>1 DEF Submit
  <2>2. CASE PrepareSigning(p)
    <3>1. CASE page' = [page EXCEPT ![p].submitting = "prepared"]
      <4>1. page' = [page EXCEPT ![p].submitting = "prepared", ![p].over = page[p].over]
        BY <1>1, <3>1 DEF Page, Base, TypeOK
      <4> QED BY <4>1
    <3> QED BY <2>2, <3>1 DEF PrepareSigning
  <2>3. CASE SubmitCase(p)
    BY <2>3 DEF SubmitCase
  <2> QED BY <2>1, <2>2, <2>3
<1>3. PICK t : t = [page[p] EXCEPT !.submitting = stage, !.over = over]
  OBVIOUS
<1>4. page' = [page EXCEPT ![p] = t]
  BY <1>2, <1>3 DEF Base, TypeOK
<1>5. Retimed(page[p], t)
  BY <1>1, <1>3 DEF Page, Retimed
<1>6. drafts' = drafts /\ saves' = saves /\ lost' = lost
  BY DEF Submit, PrepareSigning, SubmitCase, serverVars
<1> QED BY <1>4, <1>5, <1>6, OneRetimed DEF Base

LEMMA PreviewsSettled ==
  ASSUME Base, AllSettled, NEW k \in asks, PreviewStep(k)
  PROVE  AllSettled'
<1>1. k.by \in Pages
  BY DEF Base, TypeOK, Ask
<1>2. page[k.by] \in Page
  BY <1>1 DEF Base, TypeOK
<1>3. saves' = saves /\ drafts' = drafts /\ lost' = lost
  BY DEF PreviewStep, RenderPreview, PreviewArrives, PreviewFails, serverVars
<1>4. CASE page' = page
  <2>1. ASSUME NEW q \in Pages PROVE Carried(q)
    BY <1>3, <1>4, OthersCarried
  <2> QED BY <2>1, CarriedSettled DEF AllSettled
<1>5. CASE PreviewArrives(k) /\ Open(k.by)
  <2>1. PICK b : b = (page[k.by].blobs \ {page[k.by].current}) \cup {k.id}
    OBVIOUS
  <2>2. PICK t : t = [page[k.by] EXCEPT !.shown = k.of, !.current = k.id, !.blobs = b]
    OBVIOUS
  <2>3. page' = [page EXCEPT ![k.by] = t]
    <3>1. page' = [page EXCEPT ![k.by].shown = k.of, ![k.by].current = k.id,
                               ![k.by].blobs = b]
      BY <1>5, <2>1 DEF PreviewArrives
    <3> QED BY <1>1, <2>2, <3>1 DEF Base, TypeOK
  <2>4. Retimed(page[k.by], t)
    BY <1>2, <2>2 DEF Page, Retimed
  <2> QED BY <1>1, <1>3, <2>3, <2>4, OneRetimed DEF Base
<1>6. CASE PreviewFails(k) /\ Open(k.by)
  <2>1. PICK r : r = [page[k.by] EXCEPT !.status = "failed"]
    OBVIOUS
  <2>2. r \in Page /\ Retimed(page[k.by], r)
    BY <1>2, <2>1 DEF Page, Retimed
  <2>3. PICK t : t = ToSigning(r)
    OBVIOUS
  <2>4. page' = [page EXCEPT ![k.by] = t]
    BY <1>6, <2>1, <2>3 DEF PreviewFails
  <2>5. Retimed(page[k.by], t)
    BY <2>2, <2>3, ToSigningRetimes DEF Retimed
  <2> QED BY <1>1, <1>3, <2>4, <2>5, OneRetimed DEF Base
<1> QED BY <1>4, <1>5, <1>6 DEF PreviewStep, RenderPreview, PreviewArrives, PreviewFails

\* An answer of the API arrives, or none: a forced save was stored before the
\* dialog closes, and an autosave that was refused opens it.
LEMMA AnswersSettled ==
  ASSUME Base, AllSettled, NEW s \in saves,
         AutosaveAnswered(s) \/ NextAnswered(s) \/ ForceAnswered(s) \/ SaveLost(s)
  PROVE  AllSettled'
<1> DEFINE p == s.by
<1>1. p \in Pages /\ s.how \in {"auto", "next", "force"}
  BY DEF Base, TypeOK, Save
<1>2. page[p] \in Page /\ page \in [Pages -> Page] /\ lost \in [Pages -> BOOLEAN]
  BY <1>1 DEF Base, TypeOK
<1>3. saves' = saves \ {s} /\ drafts' = drafts
  BY DEF AutosaveAnswered, NextAnswered, ForceAnswered, SaveLost, serverVars
<1>4. lost' = lost \/ lost' = [lost EXCEPT ![p] = TRUE]
  BY DEF AutosaveAnswered, NextAnswered, ForceAnswered, SaveLost, serverVars
<1>5. PICK taken : taken = [page[p] EXCEPT !.version = s.version, !.status = "saved"]
  OBVIOUS
<1>6. PICK failed : failed = [page[p] EXCEPT !.status = "failed"]
  OBVIOUS
<1>7. taken \in Page /\ Retimed(page[p], taken)
  <2>1. s.version \in Nat
    BY DEF Base, TypeOK, Save
  <2> QED BY <1>2, <1>5, <2>1 DEF Page, Retimed
<1>8. failed \in Page /\ Retimed(page[p], failed)
  BY <1>2, <1>6 DEF Page, Retimed
<1>9. Retimed(page[p], ToSigning(taken)) /\ Retimed(page[p], ToSigning(failed))
  BY <1>7, <1>8, ToSigningRetimes DEF Retimed
<1> HIDE DEF p
<1>10. \A r : r.by # p => (r \in saves <=> r \in saves')
  BY <1>3 DEF p
<1>11. ASSUME NEW t, Retimed(page[p], t), page' = [page EXCEPT ![p] = t],
              \/ lost'[p]
              \/ s.how # "auto" \/ s.state = "accepted"
       PROVE  AllSettled'
  BY <1>1, <1>3, <1>4, <1>10, <1>11, OneRetimed DEF Base
<1>12. CASE SaveLost(s)
  <2>1. lost'[p]
    BY <1>1, <1>2, <1>12 DEF SaveLost, p
  <2>2. PICK t : page' = [page EXCEPT ![p] = t] /\ Retimed(page[p], t)
    <3>1. CASE ~Open(p) \/ s.how = "force"
      <4>1. page' = [page EXCEPT ![p] = page[p]]
        BY <1>2, <1>12, <3>1 DEF SaveLost, p
      <4> QED BY <4>1 DEF Retimed
    <3>2. CASE Open(p) /\ s.how = "next"
      <4>1. page' = [page EXCEPT ![p] = ToSigning(failed)]
        BY <1>6, <1>12, <3>2 DEF SaveLost, p
      <4> QED BY <1>9, <4>1
    <3>3. CASE Open(p) /\ s.how = "auto"
      <4>1. page' = [page EXCEPT ![p] = failed]
        BY <1>6, <1>12, <3>3 DEF SaveLost, p
      <4> QED BY <1>8, <4>1
    <3> QED BY <1>1, <3>1, <3>2, <3>3
  <2> QED BY <1>11, <2>1, <2>2
<1>13. CASE ~Open(p) /\ ~SaveLost(s)
  <2>1. page' = page /\ lost' = lost
    BY <1>13 DEF AutosaveAnswered, NextAnswered, ForceAnswered, p
  <2>2. PICK t : t = page[p]
    OBVIOUS
  <2>3. page' = [page EXCEPT ![p] = t]
    BY <1>2, <2>1, <2>2
  <2>4. ASSUME page'[p] = t PROVE Settled(p)'
    BY <1>1, <1>13, <2>2, <2>4 DEF AllSettled, Settled, Open
  <2> QED BY <1>1, <1>3, <1>10, <2>1, <2>3, <2>4, OneCarried DEF Base
<1>14. CASE Open(p) /\ AutosaveAnswered(s)
  <2>1. CASE s.state = "accepted"
    <3>1. page' = [page EXCEPT ![p] = taken]
      BY <1>1, <1>2, <1>5, <1>14, <2>1 DEF AutosaveAnswered, p
    <3> QED BY <1>7, <1>11, <2>1, <3>1
  <2>2. CASE s.state # "accepted"
    <3>1. PICK t : t = [page[p] EXCEPT !.conflict = TRUE, !.status = "failed"]
      OBVIOUS
    <3>2. page' = [page EXCEPT ![p] = t]
      BY <1>1, <1>2, <1>14, <2>2, <3>1 DEF AutosaveAnswered, p
    <3>3. /\ t.conflict /\ t.life = page[p].life /\ t.edit = page[p].edit
          /\ t.timer = page[p].timer /\ t.again = page[p].again
      BY <1>2, <3>1 DEF Page
    <3>4. ASSUME page'[p] = t PROVE Settled(p)'
      <4>1. Forced(p)' \subseteq Forced(p)
        BY <1>3 DEF Forced
      <4>2. Stored(p) => Stored(p)'
        BY <1>3, <3>3, <3>4, StoredStays
      <4> QED BY <1>1, <1>14, <3>3, <3>4, <4>1, <4>2 DEF Settled, AllSettled, Open
    <3> QED BY <1>1, <1>3, <1>4, <1>10, <3>2, <3>4, OneCarried DEF Base
  <2> QED BY <2>1, <2>2
<1>15. CASE Open(p) /\ NextAnswered(s)
  <2>1. s.how = "next"
    BY <1>15 DEF NextAnswered
  <2>2. CASE s.state = "accepted"
    <3>1. page' = [page EXCEPT ![p] = ToSigning(taken)]
      BY <1>1, <1>2, <1>5, <1>15, <2>2 DEF NextAnswered, p
    <3> QED BY <1>9, <1>11, <2>1, <3>1
  <2>3. CASE s.state # "accepted"
    <3>1. page' = [page EXCEPT ![p] = ToSigning(failed)]
      BY <1>1, <1>2, <1>6, <1>15, <2>3 DEF NextAnswered, p
    <3> QED BY <1>9, <1>11, <2>1, <3>1
  <2> QED BY <2>2, <2>3
<1>16. CASE Open(p) /\ ForceAnswered(s)
  <2>1. PICK t : t = [page[p] EXCEPT !.version = s.version, !.conflict = FALSE,
                                     !.status = "saved"]
    OBVIOUS
  <2>2. page' = [page EXCEPT ![p] = t]
    BY <1>1, <1>2, <1>16, <2>1 DEF ForceAnswered, p
  <2>3. /\ t.life = page[p].life /\ t.edit = page[p].edit
        /\ t.timer = page[p].timer /\ t.again = page[p].again
    BY <1>2, <2>1 DEF Page
  <2>4. s \in Forced(p) /\ s.state = "accepted"
    BY <1>16 DEF ForceAnswered, Forced, p
  <2>5. ASSUME page'[p] = t PROVE Settled(p)'
    <3>1. Forced(p)' = Forced(p) \ {s}
      BY <1>3 DEF Forced
    <3>2. ~page[p].again => Forced(p)' = {} /\ Stored(p)
      BY <1>1, <1>16, <2>4, <3>1 DEF AllSettled, Settled
    <3>3. Stored(p) => Stored(p)'
      BY <1>3, <2>3, <2>5, StoredStays
    <3> QED BY <1>1, <1>16, <2>3, <2>5, <3>2, <3>3 DEF Settled, AllSettled, Open
  <2> QED BY <1>1, <1>3, <1>4, <1>10, <2>2, <2>5, OneCarried DEF Base
<1> QED BY <1>12, <1>13, <1>14, <1>15, <1>16

\* What SaveDraft does to the save that it answers.
LEMMA SaveAnswered ==
  ASSUME TypeOK, NEW s \in saves, SaveDraft(s)
  PROVE  \E t : /\ saves' = (saves \ {s}) \cup {t}
                /\ t.by = s.by /\ t.how = s.how /\ t.edit = s.edit
                /\ t.state = IF VersionMatches(s) THEN "accepted" ELSE "refused"
<1>1. s \in Save
  BY DEF TypeOK
<1>2. CASE VersionMatches(s)
  <2>1. PICK t : t = Accepted(s)
    OBVIOUS
  <2>2. saves' = (saves \ {s}) \cup {t}
    BY <1>2, <2>1 DEF SaveDraft
  <2>3. /\ t.by = s.by /\ t.how = s.how /\ t.edit = s.edit /\ t.state = "accepted"
    BY <1>1, <2>1 DEF Accepted, Save
  <2> QED BY <1>2, <2>2, <2>3
<1>3. CASE ~VersionMatches(s)
  <2>1. PICK t : t = [s EXCEPT !.state = "refused"]
    OBVIOUS
  <2>2. saves' = (saves \ {s}) \cup {t}
    BY <1>3, <2>1 DEF SaveDraft
  <2>3. t.by = s.by /\ t.how = s.how /\ t.edit = s.edit /\ t.state = "refused"
    BY <1>1, <2>1 DEF Save
  <2> QED BY <1>3, <2>2, <2>3
<1> QED BY <1>2, <1>3

\* A draft that is added: for its page it is the newest, and an open page that
\* had stored its last edit stores it again, whatever the order in which its
\* saves arrive - an earlier answer would not match the version.
LEMMA AcceptedStored ==
  ASSUME Base, SavesFollow, AllSettled, NEW s \in saves, SaveDraft(s),
         VersionMatches(s), NEW q \in Pages
  PROVE  /\ s.by # q /\ Stored(q) => Stored(q)'
         /\ s.by = q /\ s.edit = page[q].edit => Stored(q)'
         /\ s.by = q /\ Open(q) /\ ~page[q].again /\ s.how = "force" =>
              s.edit = page[q].edit
         /\ s.by = q /\ Open(q) /\ s.how # "force" /\ Stored(q) =>
              s.edit = page[q].edit
<1>1. /\ TypeOK /\ page' = page /\ s \in Save /\ s.edit \in Nat
      /\ page[q] \in Page /\ page[q].edit \in Nat
  BY DEF Base, TypeOK, Save, SaveDraft, Page
<1>2. /\ Version \in Nat
      /\ DOMAIN drafts = 1 .. Version /\ DOMAIN drafts' = 1 .. (Version + 1)
      /\ \A v \in 1 .. Version : drafts'[v] = drafts[v]
      /\ drafts'[Version + 1].content = Content(s.by, s.edit)
      /\ drafts'[Version + 1].by = s.by
  <2>1. drafts' # drafts
    <3>1. drafts' = Append(drafts, [content |-> Content(s.by, s.edit), by |-> s.by,
                                    forced |-> s.how = "force"])
      BY DEF SaveDraft
    <3>2. [content |-> Content(s.by, s.edit), by |-> s.by, forced |-> s.how = "force"] \in Draft
      <4>1. Content(s.by, s.edit) \in Contents /\ s.by \in Pages
        BY <1>1 DEF Content, Contents, Save
      <4> QED BY <4>1 DEF Draft
    <3>3. drafts \in Seq(Draft)
      BY <1>1 DEF TypeOK
    <3>4. Len(drafts') = Len(drafts) + 1 /\ Len(drafts) \in Nat
      BY <3>1, <3>2, <3>3, AppendProperties, LenProperties
    <3> QED BY <3>4
  <2> QED BY <1>1, <2>1, SaveDrafts
<1>3. ASSUME s.by # q, Stored(q) PROVE Stored(q)'
  <2>1. PICK v \in DOMAIN drafts :
          /\ drafts[v].by = q /\ drafts[v].content = Content(q, page[q].edit)
          /\ \A w \in DOMAIN drafts : w > v => drafts[w].by # q
    BY <1>3 DEF Stored
  <2>2. /\ v \in DOMAIN drafts' /\ drafts'[v].by = q
        /\ drafts'[v].content = Content(q, page'[q].edit)
    BY <1>1, <1>2, <2>1
  <2>3. ASSUME NEW w \in DOMAIN drafts', w > v PROVE drafts'[w].by # q
    <3>1. w \in 1 .. Version \/ w = Version + 1
      BY <1>2, <2>3
    <3> QED BY <1>2, <1>3, <2>1, <2>3, <3>1
  <2> QED BY <2>2, <2>3 DEF Stored, Content
<1>4. ASSUME s.by = q, s.edit = page[q].edit PROVE Stored(q)'
  <2>1. /\ Version + 1 \in DOMAIN drafts' /\ drafts'[Version + 1].by = q
        /\ drafts'[Version + 1].content = Content(q, page'[q].edit)
    BY <1>1, <1>2, <1>4
  <2>2. \A w \in DOMAIN drafts' : ~(w > Version + 1)
    BY <1>2
  <2> QED BY <2>1, <2>2 DEF Stored, Content
<1>5. ASSUME s.by = q, Open(q), ~page[q].again, s.how = "force"
      PROVE  s.edit = page[q].edit
  BY <1>5 DEF AllSettled, Settled, Forced
<1>6. ASSUME s.by = q, Open(q), s.how # "force", Stored(q)
      PROVE  s.edit = page[q].edit
  <2>1. PICK v \in DOMAIN drafts :
          drafts[v].by = q /\ drafts[v].content = Content(q, page[q].edit)
    BY <1>6 DEF Stored
  <2>2. s.base = Version /\ v <= Version
    BY <1>2, <1>6 DEF VersionMatches
  <2>3. drafts[v].content[2] <= s.edit /\ s.edit <= page[q].edit
    BY <1>6, <2>1, <2>2 DEF SavesFollow, Follows
  <2>4. drafts[v].content[2] = page[q].edit
    BY <1>1, <2>1 DEF Content
  <2> QED BY <1>1, <2>3, <2>4
<1> QED BY <1>3, <1>4, <1>5, <1>6

LEMMA SaveSettled ==
  ASSUME Base, SavesFollow, AllSettled, NEW s \in saves, SaveDraft(s)
  PROVE  AllSettled'
<1>1. page' = page /\ lost' = lost /\ s.state = "sent"
  BY DEF SaveDraft
<1>2. PICK t : /\ saves' = (saves \ {s}) \cup {t}
               /\ t.by = s.by /\ t.how = s.how /\ t.edit = s.edit
               /\ t.state = IF VersionMatches(s) THEN "accepted" ELSE "refused"
  BY SaveAnswered DEF Base
<1>3. ASSUME NEW q \in Pages, Open(q), ~page[q].again
      PROVE  /\ \A x, y \in Forced(q)' : x = y
             /\ \A x \in Forced(q)' : /\ page[q].conflict /\ x.edit = page[q].edit
                                      /\ x.state = "accepted" => Stored(q)'
             /\ page[q].online /\ page[q].edit > 0 /\ ~lost[q] =>
                  \/ page[q].timer # None \/ page[q].conflict
                  \/ Coming(q)' # {} \/ Stored(q)'
  <2>1. /\ \A x, y \in Forced(q) : x = y
        /\ \A x \in Forced(q) : /\ page[q].conflict /\ x.edit = page[q].edit
                                /\ x.state = "accepted" => Stored(q)
        /\ page[q].online /\ page[q].edit > 0 /\ ~lost[q] =>
             \/ page[q].timer # None \/ page[q].conflict
             \/ Coming(q) # {} \/ Stored(q)
    BY <1>3 DEF AllSettled, Settled
  <2>2. Stored(q) => Stored(q)'
    <3>1. CASE VersionMatches(s)
      BY <1>3, <3>1, AcceptedStored
    <3>2. CASE ~VersionMatches(s)
      BY <1>1, <3>2, StoredStays DEF SaveDraft
    <3> QED BY <3>1, <3>2
  <2>3. s.by = q /\ s.how = "force" => VersionMatches(s) /\ Stored(q)'
    BY <1>3, AcceptedStored DEF VersionMatches
  <2>4. /\ \A x, y \in Forced(q)' : x = y
        /\ \A x \in Forced(q)' : page[q].conflict /\ x.edit = page[q].edit
    <3>1. CASE s.by = q /\ s.how = "force"
      <4>1. s \in Forced(q) /\ Forced(q)' = (Forced(q) \ {s}) \cup {t}
        BY <1>2, <3>1 DEF Forced
      <4>2. Forced(q)' = {t}
        BY <2>1, <4>1
      <4> QED BY <1>2, <2>1, <4>1, <4>2
    <3>2. CASE ~(s.by = q /\ s.how = "force")
      <4>1. Forced(q)' = Forced(q)
        BY <1>2, <3>2 DEF Forced
      <4> QED BY <2>1, <4>1
    <3> QED BY <3>1, <3>2
  <2>5. ASSUME NEW x \in Forced(q)', x.state = "accepted" PROVE Stored(q)'
    <3>1. x \in Forced(q) \/ (x = t /\ s.by = q /\ s.how = "force")
      BY <1>2, <2>5 DEF Forced
    <3> QED BY <2>1, <2>2, <2>3, <2>5, <3>1
  <2>6. Coming(q) # {} => Coming(q)' # {} \/ Stored(q)'
    <3>1. CASE s \in Coming(q)
      <4>1. s.by = q /\ s.edit = page[q].edit /\ s.how = "auto"
        BY <3>1 DEF Coming
      <4>2. CASE VersionMatches(s)
        BY <4>1, <4>2, AcceptedStored
      <4>3. CASE ~VersionMatches(s)
        <5>1. t \in Coming(q)'
          BY <1>1, <1>2, <4>1, <4>3 DEF Coming
        <5> QED BY <5>1
      <4> QED BY <4>2, <4>3
    <3>2. CASE s \notin Coming(q)
      <4>1. Coming(q) \subseteq Coming(q)'
        BY <1>1, <1>2, <3>2 DEF Coming
      <4> QED BY <4>1
    <3> QED BY <3>1, <3>2
  <2> QED BY <2>1, <2>2, <2>4, <2>5, <2>6
<1>4. ASSUME NEW q \in Pages PROVE Settled(q)'
  <2>1. /\ page[q].timer # None => page[q].timer.edit = page[q].edit
        /\ page[q].life = "new" => page[q].edit = 0
    BY DEF AllSettled, Settled
  <2> QED BY <1>1, <1>3, <2>1 DEF Settled, Open
<1> QED BY <1>4 DEF AllSettled

LEMMA NextSettled ==
  ASSUME Base, SavesFollow, AllSettled, [Next]_vars
  PROVE  AllSettled'
<1>1. ASSUME NEW p \in Pages, PageStep(p) PROVE AllSettled'
  BY <1>1, OpenSettled, LeaveSettled, EditSettled, MoveSettled, TimerSettled,
     NextStepSettled, KeepSettled, SubmittingSettled DEF PageStep
<1>2. ASSUME NEW s \in saves, SaveStep(s) PROVE AllSettled'
  BY <1>2, SaveSettled, AnswersSettled DEF SaveStep
<1>3. ASSUME NEW k \in asks, PreviewStep(k) PROVE AllSettled'
  BY <1>3, PreviewsSettled
<1>4. ASSUME UNCHANGED vars PROVE AllSettled'
  <2>1. ASSUME NEW q \in Pages PROVE Carried(q)
    BY <1>4, OthersCarried DEF vars
  <2> QED BY <2>1, CarriedSettled DEF AllSettled
<1> QED BY <1>1, <1>2, <1>3, <1>4 DEF Next

\* When an open page says that the draft is saved, and neither was one of its
\* saves lost nor its dialog answered twice, the last edit is in its newest
\* draft: whatever the other windows save, and in whatever order saves arrive
\* and are answered.
THEOREM SavedIsStoredHolds == Spec => []SavedIsStored
<1>1. Init => AllSettled
  BY DEF Init, NewPage, AllSettled, Settled, Open
<1>2. AllSettled => SavedIsStored
  BY DEF AllSettled, Settled, SavedIsStored, Coming
<1> QED BY <1>1, <1>2, InitBase, NextBase, InitEdits, NextEdits, NextSettled, PTL DEF Spec
=============================================================================
