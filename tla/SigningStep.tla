----------------------------- MODULE SigningStep -----------------------------
(***************************************************************************)
(* The last step of the customer's wizard: the PDF to be signed is shown,   *)
(* the customer draws a signature or chooses the image of a seal, places it *)
(* in the template's slots and signs.                                      *)
(*                                                                         *)
(* A seal takes three slow calls: its original is uploaded, its background  *)
(* is cut out, and the result is uploaded when the customer confirms it.    *)
(* Meanwhile the page stays usable: another seal may be chosen, the method  *)
(* switched, a slider moved, the step left and entered again.  A call is    *)
(* known by the generation it was made in; and it changes the placement it  *)
(* was made with (held), not the one of the moment its answer arrives.      *)
(* Lengths are thousandths of a pixel; the vertical slider works as the     *)
(* horizontal one and is left out.                                         *)
(***************************************************************************)
EXTENDS TemplateDocument

CONSTANTS
  Images,         \* seals the customer may choose
  None,           \* no image, no resource, no signing
  Sliders,        \* horizontal positions to move to, in percent
  Scales,         \* sizes to choose, in percent
  MaxSteps        \* bound: seals chosen, methods switched and PDFs loaded

ASSUME ConstantsAssumption ==
  /\ None \notin Images
  /\ Sliders \subseteq 0 .. 100
  /\ Scales \subseteq 50 .. 160
  /\ MaxSteps \in Nat

VARIABLES
  mounted,     \* the step is on the screen
  placement,   \* the editor's placement
  signature,   \* the wizard's copy of it: what is shown and submitted
  original,    \* the seal on the screen
  processed,   \* the seal whose cut-out is on the screen
  reference,   \* the seal whose original is known to be stored (originalRef)
  failed,      \* cutoutFailed
  busy,
  generation,  \* sealGeneration
  calls,       \* calls on their way
  signing,     \* the command of the newest signing
  loads,       \* loads of the PDF, in the order of their effects
  document,    \* the load whose document is shown, or 0
  loadFailed,  \* a message is shown in its place
  currentPage

seal == <<original, processed, reference, failed, busy>>
viewer == <<loads, document, loadFailed, currentPage>>
vars == <<mounted, placement, signature, seal, generation, calls, signing, viewer>>

-----------------------------------------------------------------------------
(* Types *)

\* A picture on the page, and a stored signature resource: a cut-out names
\* the original it was made of.
Picture == [purpose : {"HANDWRITTEN"}, image : {None}]
             \cup [purpose : {"SEAL_ORIGINAL", "SEAL_PROCESSED"}, image : Images]
Resource == [purpose : {"HANDWRITTEN"}, image : {None}, original : {None}]
              \cup [purpose : {"SEAL_ORIGINAL"}, image : Images, original : {None}]
              \cup [purpose : {"SEAL_PROCESSED"}, image : Images, original : Images]

ASSUME NoneAssumption == None \notin Resource

Placement ==
  [method : {"handwritten", "seal"}, resource : Picture \cup {None},
   row : Resource \cup {None}, original : Images \cup {None},
   confirmed : BOOLEAN, x : 0 .. 100, scale : 50 .. 160]

SealCall ==
  [kind : {"read", "upload"}, generation : 0 .. MaxSteps, image : Images,
   held : Placement, left : BOOLEAN]
Cutout ==
  [kind : {"cutout"}, generation : 0 .. MaxSteps, image : Images,
   first : BOOLEAN]
Confirmation ==
  [kind : {"confirm"}, image : Images, original : Images,
   held : Placement, left : BOOLEAN]

\* PublicSigningCommand, with the resource in place of its id and version.
Position == [slotId : STRING, page : Nat, x : Int, width : Int]
Command ==
  [mode : {"HANDWRITTEN", "SEAL"}, resource : Resource,
   original : Images \cup {None}, positions : SUBSET Position]

Phase == {"importing", "loading", "open", "failed", "abandoned", "destroyed"}

TypeOK ==
  /\ mounted \in BOOLEAN
  /\ placement \in Placement /\ signature \in Placement
  /\ original \in Images \cup {None}
  /\ processed \in Images \cup {None}
  /\ reference \in Images \cup {None}
  /\ failed \in BOOLEAN /\ busy \in BOOLEAN
  /\ generation \in 0 .. MaxSteps
  /\ calls \subseteq SealCall \cup Cutout \cup Confirmation
  /\ signing = None \/ signing \in Command
  /\ \E n \in 0 .. MaxSteps :
       loads \in [1 .. n -> Phase] /\ document \in 0 .. n
  /\ loadFailed \in BOOLEAN
  /\ currentPage \in 1 .. PageCount

\* The wizard opens with an empty handwriting, before its last step.
NoSeal == [resource |-> None, row |-> None, original |-> None, confirmed |-> FALSE]

Init ==
  /\ mounted = FALSE
  /\ placement = [method |-> "handwritten", resource |-> None, row |-> None,
                  original |-> None, confirmed |-> FALSE, x |-> 62, scale |-> 100]
  /\ signature = placement
  /\ original = None /\ processed = None /\ reference = None
  /\ failed = FALSE /\ busy = FALSE
  /\ generation = 0
  /\ calls = {}
  /\ signing = None
  /\ loads = <<>> /\ document = 0 /\ loadFailed = FALSE /\ currentPage = 1

-----------------------------------------------------------------------------
(* Faulty variants of definitions below: each is a mistake the code could     *)
(* have had, and one of the properties notices it.  Nothing here uses them.   *)

\* An answer of any generation is taken.
CurrentAlways(c) == TRUE

\* Switching leaves the identifiers of the seal's stored picture behind.
SealStays(p) == [p EXCEPT !.resource = None, !.original = None, !.confirmed = FALSE]

\* An original that is stored as made of itself.
WithSealOfItself(p, purpose, image, of) ==
  [p EXCEPT !.resource = [purpose |-> purpose, image |-> image],
            !.row = [purpose |-> purpose, image |-> image, original |-> of],
            !.original = of, !.confirmed = TRUE]

-----------------------------------------------------------------------------
(* Where the picture goes: mapPlacementToSlots, and the checks on it *)

Least(a, b) == IF a < b THEN a ELSE b
Most(a, b) == IF a < b THEN b ELSE a

\* Parts of the slot's width in thousandths; a slider at 100 percent means six
\* tenths of the slot.
Ratio(scale) == Least(960, Most(300, 6 * scale))

\* The slider's percent of the free width, rounded.
Offset(length, size, percent) ==
  ((length * 1000 - size) * Least(100, Most(0, percent)) + 50) \div 100

MapPlacementToSlots(p) ==
  {LET size == s.width * Ratio(p.scale) IN
     [slotId |-> s.slotId, page |-> s.page,
      x |-> s.x * 1000 + Offset(s.width, size, p.x), width |-> size]
   : s \in Required}

InSlot(position, s) ==
  /\ position.slotId = s.slotId /\ position.page = s.page
  /\ position.width > 0
  /\ position.x >= s.x * 1000
  /\ position.x + position.width <= (s.x + s.width) * 1000

\* validateSigningCommand: every slot that must be signed has one position, each
\* position is in its slot.
ValidPositions(positions) ==
  /\ Cardinality(positions) = Cardinality(Required)
  /\ \A s \in Required : Cardinality({q \in positions : q.slotId = s.slotId}) = 1
  /\ \A q \in positions : \E s \in Required : InSlot(q, s)

\* renderFinal tests the positions again when the final PDF is made; a task whose
\* positions it refuses fails at every attempt.
Renders(positions) ==
  /\ Required # {}
  /\ \A s \in Required : \E q \in positions : InSlot(q, s)
  /\ Cardinality({s.slotId : s \in Required}) = Cardinality({q.slotId : q \in positions})

\* inspectDb tests them a third time before the case is completed.
PlacementsValid(positions) ==
  /\ Required # {}
  /\ \A s \in Required : \E q \in positions : InSlot(q, s)
  /\ Cardinality(positions) = Cardinality(Required)

\* validateSigningResourceBinding: the stored picture suits the method, and a
\* cut-out was made of the original that the command names.
ValidBinding(command) ==
  IF command.mode = "HANDWRITTEN"
  THEN command.resource.purpose = "HANDWRITTEN" /\ command.original = None
  ELSE /\ command.resource.purpose # "HANDWRITTEN"
       /\ command.original # None
       /\ command.resource.purpose = "SEAL_PROCESSED"
            => command.resource.original = command.original

Accepts(command) == ValidPositions(command.positions) /\ ValidBinding(command)

\* publicApi.submit: a picture that is not stored yet is uploaded first.
ResourceOf(p) ==
  IF p.row # None THEN p.row
  ELSE [purpose |-> IF p.method = "handwritten" THEN "HANDWRITTEN" ELSE "SEAL_ORIGINAL",
        image |-> p.resource.image, original |-> None]

CommandOf(p) ==
  [mode |-> IF p.method = "handwritten" THEN "HANDWRITTEN" ELSE "SEAL",
   resource |-> ResourceOf(p),
   original |-> IF p.method = "seal" THEN p.original ELSE None,
   positions |-> MapPlacementToSlots(p)]

-----------------------------------------------------------------------------
(* Helpers *)

WithoutSeal(p) ==
  [p EXCEPT !.resource = None, !.row = None, !.original = None, !.confirmed = FALSE]

WithSeal(p, purpose, image, of) ==
  [p EXCEPT !.resource = [purpose |-> purpose, image |-> image],
            !.row = [purpose |-> purpose, image |-> image,
                     original |-> IF purpose = "SEAL_PROCESSED" THEN of ELSE None],
            !.original = of, !.confirmed = TRUE]

\* The editor tells the wizard of every change.
Update(p) == placement' = p /\ signature' = p

\* An answer is of the generation the page is in.
Current(c) == c.generation = generation

Room == generation + Len(loads) < MaxSteps

NewerGeneration ==
  /\ Room
  /\ generation' = generation + 1

ClearSeal == original' = None /\ processed' = None /\ reference' = None /\ failed' = FALSE

Answer(c) == calls' = calls \ {c}
AnswerThenCall(c, next) == calls' = (calls \ {c}) \cup {next}

\* The clean-up of the effect that loads the PDF.  A load whose library is still
\* being imported only learns that nobody waits for it.
Dispose(phase) ==
  CASE phase = "importing" -> "abandoned"
    [] phase \in {"loading", "open"} -> "destroyed"
    [] OTHER -> phase

Disposed == [i \in DOMAIN loads |-> Dispose(loads[i])]

Load ==
  /\ Room
  /\ loads' = Append(Disposed, "importing")
  /\ document' = 0 /\ loadFailed' = FALSE /\ currentPage' = 1

-----------------------------------------------------------------------------
(* The step and its PDF *)

\* The step is entered, with the PDF of an earlier visit or before any.
Enter ==
  /\ ~ mounted
  /\ mounted' = TRUE
  /\ placement' = signature
  /\ ClearSeal /\ busy' = FALSE
  /\ Load \/ UNCHANGED viewer
  /\ UNCHANGED <<signature, generation, calls, signing>>

\* The step is left.  Its calls go on: a call of its last generation, or a
\* confirmation, still tells the wizard; the others will be ignored.
Leave ==
  /\ mounted
  /\ mounted' = FALSE
  /\ calls' =
       {[c EXCEPT !.left = TRUE] : c \in
          {d \in calls : \/ d.kind = "confirm"
                         \/ d.kind \in {"read", "upload"} /\ (d.left \/ Current(d))}}
  /\ ClearSeal /\ busy' = FALSE
  /\ loads' = Disposed
  /\ document' = 0 /\ loadFailed' = FALSE /\ currentPage' = 1
  /\ UNCHANGED <<placement, signature, generation, signing>>

\* A new preview, with another URL, has arrived.
ShowPreview ==
  /\ mounted
  /\ Load
  /\ UNCHANGED <<mounted, placement, signature, seal, generation, calls, signing>>

\* The effect's promises; those of a load that was disposed of change nothing.
LoadGoesOn(i, phase) ==
  /\ loads' = [loads EXCEPT ![i] = phase]
  /\ document' = IF phase = "open" THEN i ELSE document
  /\ loadFailed' = (loadFailed \/ phase = "failed")
  /\ UNCHANGED <<mounted, placement, signature, seal, generation, calls, signing,
                 currentPage>>

Import(i) == loads[i] = "importing" /\ LoadGoesOn(i, "loading")
Open(i) == loads[i] = "loading" /\ LoadGoesOn(i, "open")
LoadFails(i) == loads[i] \in {"importing", "loading"} /\ LoadGoesOn(i, "failed")

\* The pages of the document that are drawn: two, or the current one and its
\* neighbours.
PagesAreShown == document # 0 /\ ~ loadFailed
VisiblePages ==
  {n \in 1 .. PageCount : PageCount <= 2 \/ n - currentPage \in -1 .. 1}

\* With the picture on each of the positions that are on a shown page.
Overlays ==
  IF PagesAreShown /\ signature.resource # None
  THEN {q \in MapPlacementToSlots(signature) : q.page \in VisiblePages}
  ELSE {}

TurnPage(n) ==
  /\ PagesAreShown /\ PageCount > 2
  /\ n \in 1 .. PageCount /\ n - currentPage \in {-1, 1}
  /\ currentPage' = n
  /\ UNCHANGED <<mounted, placement, signature, seal, generation, calls, signing,
                 loads, document, loadFailed>>

\* A visible page cannot be drawn: no page is shown any more.
PageFails ==
  /\ PagesAreShown
  /\ loadFailed' = TRUE /\ currentPage' = currentPage
  /\ UNCHANGED <<mounted, placement, signature, seal, generation, calls, signing,
                 loads, document>>

-----------------------------------------------------------------------------
(* The editor *)

SwitchMode(method) ==
  /\ mounted
  /\ NewerGeneration
  /\ ClearSeal
  /\ Update([WithoutSeal(placement) EXCEPT !.method = method])
  /\ UNCHANGED <<mounted, busy, calls, signing, viewer>>

\* The end of a stroke, and clearing the canvas.
Draw(drawn) ==
  /\ mounted /\ placement.method = "handwritten"
  /\ Update([placement EXCEPT
       !.resource = IF drawn THEN [purpose |-> "HANDWRITTEN", image |-> None] ELSE None,
       !.confirmed = drawn])
  /\ UNCHANGED <<mounted, seal, generation, calls, signing, viewer>>

Slide(x) ==
  /\ mounted
  /\ Update([placement EXCEPT !.x = x])
  /\ UNCHANGED <<mounted, seal, generation, calls, signing, viewer>>

Resize(scale) ==
  /\ mounted
  /\ Update([placement EXCEPT !.scale = scale])
  /\ UNCHANGED <<mounted, seal, generation, calls, signing, viewer>>

\* uploadSeal: everything of the last seal goes, and the file is read.
UploadSeal(image) ==
  /\ mounted /\ placement.method = "seal"
  /\ NewerGeneration
  /\ ClearSeal
  /\ Update(WithoutSeal(placement))
  /\ calls' = calls \cup
       {[kind |-> "read", generation |-> generation + 1, image |-> image,
         held |-> placement, left |-> FALSE]}
  /\ UNCHANGED <<mounted, busy, signing, viewer>>

FileRead(c) ==
  /\ c.kind = "read"
  /\ IF c.left \/ Current(c)
     THEN AnswerThenCall(c, [c EXCEPT !.kind = "upload"])
     ELSE Answer(c)
  /\ IF ~ c.left /\ Current(c)
     THEN original' = c.image /\ busy' = TRUE
     ELSE UNCHANGED <<original, busy>>
  /\ UNCHANGED <<mounted, placement, signature, processed, reference, failed,
                 generation, signing, viewer>>

CutoutCall(image, first) ==
  [kind |-> "cutout", generation |-> generation, image |-> image, first |-> first]

OriginalStored(c) ==
  LET p == [c.held EXCEPT !.original = c.image] IN
  /\ c.kind = "upload" /\ ~ c.left /\ Current(c)
  /\ reference' = c.image
  /\ Update(p)
  /\ processed' = None /\ failed' = FALSE
  /\ AnswerThenCall(c, CutoutCall(c.image, TRUE))
  /\ UNCHANGED <<mounted, original, busy, generation, signing, viewer>>

\* Only the wizard hears of an upload of a step that was left.
OriginalStoredLate(c) ==
  /\ c.kind = "upload" /\ c.left
  /\ signature' = [c.held EXCEPT !.original = c.image]
  /\ Answer(c)
  /\ UNCHANGED <<mounted, placement, seal, generation, signing, viewer>>

OriginalFails(c) ==
  /\ c.kind = "upload" /\ ~ c.left /\ Current(c)
  /\ failed' = TRUE /\ busy' = FALSE
  /\ Answer(c)
  /\ UNCHANGED <<mounted, placement, signature, original, processed, reference,
                 generation, signing, viewer>>

\* Answers that nobody heeds: of an older generation, or a failure for a step
\* that was left.
Ignored(c) ==
  /\ c \in SealCall \cup Cutout
  /\ IF c.kind = "cutout" THEN ~ Current(c)
     ELSE c.kind = "upload" /\ (c.left \/ ~ Current(c))
  /\ Answer(c)
  /\ UNCHANGED <<mounted, placement, signature, seal, generation, signing, viewer>>

\* The end of process(); busy ends with the upload that began it.
CutoutDone(c) ==
  /\ c.kind = "cutout" /\ Current(c)
  /\ processed' = c.image
  /\ busy' = (busy /\ ~ c.first)
  /\ Answer(c)
  /\ UNCHANGED <<mounted, placement, signature, original, reference, failed,
                 generation, signing, viewer>>

CutoutFails(c) ==
  /\ c.kind = "cutout" /\ Current(c)
  /\ failed' = TRUE
  /\ busy' = (busy /\ ~ c.first)
  /\ Answer(c)
  /\ UNCHANGED <<mounted, placement, signature, original, processed, reference,
                 generation, signing, viewer>>

\* The buttons below the seal, while nothing is being saved.
Buttons == mounted /\ placement.method = "seal" /\ original # None /\ ~ busy

RetryCutout ==
  /\ Buttons /\ failed
  /\ failed' = FALSE /\ processed' = None
  /\ calls' = calls \cup {CutoutCall(original, FALSE)}
  /\ UNCHANGED <<mounted, placement, signature, original, reference, busy,
                 generation, signing, viewer>>

ConfirmOriginal ==
  /\ Buttons /\ failed /\ reference # None
  /\ Update(WithSeal(placement, "SEAL_ORIGINAL", original, reference))
  /\ UNCHANGED <<mounted, seal, generation, calls, signing, viewer>>

ConfirmProcessed ==
  /\ Buttons /\ ~ failed /\ processed # None /\ reference # None
  /\ busy' = TRUE
  /\ calls' = calls \cup
       {[kind |-> "confirm", image |-> processed, original |-> reference,
         held |-> placement, left |-> FALSE]}
  /\ UNCHANGED <<mounted, placement, signature, original, processed, reference,
                 failed, generation, signing, viewer>>

\* The answer is taken in whatever generation the page is by now.
ProcessedStored(c) ==
  LET p == WithSeal(c.held, "SEAL_PROCESSED", c.image, c.original) IN
  /\ c.kind = "confirm"
  /\ signature' = p
  /\ placement' = IF c.left THEN placement ELSE p
  /\ busy' = (busy /\ c.left)
  /\ Answer(c)
  /\ UNCHANGED <<mounted, original, processed, reference, failed, generation,
                 signing, viewer>>

ProcessedFails(c) ==
  /\ c.kind = "confirm"
  /\ busy' = (busy /\ c.left)
  /\ Answer(c)
  /\ UNCHANGED <<mounted, placement, signature, original, processed, reference,
                 failed, generation, signing, viewer>>

\* The wizard's submit up to the recorded signing; the submission that follows
\* and closes the page, or fails and leaves it as it is, is CaseWorkflow's.
Sign ==
  /\ mounted /\ loads # <<>>
  /\ signature.resource # None
  /\ signature.method = "seal" => signature.confirmed
  /\ Accepts(CommandOf(signature))
  /\ signing' = CommandOf(signature)
  /\ UNCHANGED <<mounted, placement, signature, seal, generation, calls, viewer>>

-----------------------------------------------------------------------------

Arrives(c) ==
  \/ FileRead(c) \/ OriginalStored(c) \/ OriginalStoredLate(c) \/ OriginalFails(c)
  \/ Ignored(c) \/ CutoutDone(c) \/ CutoutFails(c)
  \/ ProcessedStored(c) \/ ProcessedFails(c)

Next ==
  \/ Enter \/ Leave \/ ShowPreview
  \/ \E i \in DOMAIN loads : Import(i) \/ Open(i) \/ LoadFails(i)
  \/ (\E n \in 1 .. PageCount : TurnPage(n)) \/ PageFails
  \/ \E method \in {"handwritten", "seal"} : SwitchMode(method)
  \/ \E drawn \in BOOLEAN : Draw(drawn)
  \/ \E x \in Sliders : Slide(x)
  \/ \E scale \in Scales : Resize(scale)
  \/ \E image \in Images : UploadSeal(image)
  \/ \E c \in calls : Arrives(c)
  \/ RetryCutout \/ ConfirmOriginal \/ ConfirmProcessed
  \/ Sign

Spec == Init /\ [][Next]_vars

-----------------------------------------------------------------------------
(* Properties *)

\* However calls of several seals overlap, the seal on the screen, its cut-out
\* and the original known to be stored are of one choice.
SealIsCurrent ==
  /\ processed # None => processed = original
  /\ reference # None => reference = original

\* The pages on the screen are of the newest load, no other load keeps its
\* document open, and a failure that is shown is the newest load's: a message of
\* a PDF that was replaced is gone.
DocumentIsCurrent ==
  /\ document # 0 => mounted /\ document = Len(loads) /\ loads[document] = "open"
  /\ \A i \in DOMAIN loads : loads[i] = "open" => i = document
  /\ loadFailed => mounted /\ loads # <<>> /\ loads[Len(loads)] \in {"failed", "open"}

\* What a page of the final document would show signed, the customer sees on
\* that page of the preview.
SignatureIsShown ==
  PagesAreShown /\ signature.resource # None
    => \A n \in VisiblePages :
         PdfRenderDocument(MapPlacementToSlots(signature))[n].signed
           \subseteq {q \in Overlays : q.page = n}

\* What the step shows is of one seal and of one PDF, whatever answers late, and
\* it is what will be signed.
ScreenIsCurrent == SealIsCurrent /\ DocumentIsCurrent /\ SignatureIsShown

\* A drawn signature is never mixed with what a seal left behind.  Wherever the
\* sliders put it, the API takes it, the worker can draw it and the case can be
\* completed with it, though each tests it against slots it finds by itself; and
\* each slot of the top that must be signed is signed in the final document.
HandwritingIsAccepted ==
  LET positions == MapPlacementToSlots(signature)
      pages == PdfRenderDocument(positions) IN
  signature.method = "handwritten" /\ signature.resource # None
    => /\ Accepts(CommandOf(signature))
       /\ Renders(positions)
       /\ PlacementsValid(positions)
       /\ \A s \in Required \cap LiftedSlots :
            \E q \in pages[s.page].signed : InSlot(q, s)

\* A seal that counts as confirmed is the seal on the screen.
ConfirmedSealIsShown ==
  mounted /\ signature.method = "seal" /\ signature.confirmed /\ original # None
    => signature.resource.image = original
=============================================================================
