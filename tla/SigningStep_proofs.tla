------------------------- MODULE SigningStep_proofs -------------------------
(* Theorems of SigningStep, for any publishable template and any number of  *)
(* seals, switches of the method and loads of the PDF.                      *)
EXTENDS SigningStep, SequenceTheorems, FiniteSetTheorems, WellFoundedInduction, TLAPS

-----------------------------------------------------------------------------
(* Greatest elements *)

LEMMA GreatestExists ==
  ASSUME NEW S, S \subseteq Nat, S # {}, NEW n \in Nat, \A x \in S : x <= n
  PROVE  \E x \in S : \A y \in S : x >= y
<1> DEFINE T == {n - x : x \in S}
<1>1. T \subseteq Nat /\ T # {}
  <2>1. \A x \in S : n - x \in Nat
    OBVIOUS
  <2>2. PICK x \in S : TRUE
    OBVIOUS
  <2>3. n - x \in T
    BY <2>2
  <2> QED BY <2>1, <2>3
<1>2. PICK t \in T : \A u \in T : ~ (<<u, t>> \in OpToRel(<, Nat))
  BY <1>1, NatLessThanWellFounded, WFMin
<1>3. PICK x \in S : t = n - x
  OBVIOUS
<1>4. ASSUME NEW y \in S
      PROVE  x >= y
  <2>1. n - y \in T
    OBVIOUS
  <2>2. ~ (n - y < n - x)
    BY <1>1, <1>2, <1>3, <2>1 DEF OpToRel
  <2> QED BY <2>2
<1> QED BY <1>4

LEMMA MaxIsGreatest ==
  ASSUME NEW S, S \subseteq Nat, S # {}, NEW n \in Nat, \A x \in S : x <= n
  PROVE  Max(S) \in S /\ \A y \in S : Max(S) >= y
BY GreatestExists DEF Max

-----------------------------------------------------------------------------
(* The template *)

\* A container is no leaf, and what it holds are leaves.
LEMMA NodesTyped ==
  ASSUME NEW p \in Places
  PROVE  NodeAt(p) \in TemplateNode
<1>1. Template \in Seq(TemplateNode)
  BY TemplateAssumption
<1>2. ASSUME NEW i \in DOMAIN Template
      PROVE  Template[i] \in TemplateNode
  BY <1>1, <1>2
<1>3. CASE p[2] = 0
  <2>1. p[1] \in DOMAIN Template
    BY DEF Places
  <2> QED BY <1>2, <1>3, <2>1 DEF NodeAt
<1>4. CASE p[2] # 0
  <2>1. PICK i \in DOMAIN Template :
          /\ IsContainer(Template[i])
          /\ p \in {i} \X (DOMAIN Template[i].children)
    BY <1>4 DEF Places
  <2>2. Template[i] \in Container
    BY <1>2, <2>1 DEF TemplateNode, Leaf, Slot, IsContainer
  <2>3. Template[i].children \in Seq(Leaf)
    BY <2>2 DEF Container
  <2>4. Template[i].children[p[2]] \in Leaf
    BY <2>1, <2>3
  <2> QED BY <1>4, <2>1, <2>4 DEF NodeAt, TemplateNode
<1> QED BY <1>3, <1>4

LEMMA SlotsTyped == Slots \subseteq Slot
<1> SUFFICES ASSUME NEW p \in PlacesOf("signatureSlot")
             PROVE  NodeAt(p) \in Slot
  BY DEF Slots
<1>1. NodeAt(p) \in TemplateNode /\ NodeAt(p).type = "signatureSlot"
  BY NodesTyped DEF PlacesOf
<1> QED BY <1>1 DEF TemplateNode, Leaf, Container, Slot

\* Publishing lets no identifier stand for two slots.
LEMMA SlotIdsDiffer ==
  ASSUME NEW s \in Slots, NEW t \in Slots, s.slotId = t.slotId
  PROVE  s = t
BY TemplateAssumption DEF SlotsArePublishable, Slots

LEMMA PlacesFinite == IsFiniteSet(Places)
<1> DEFINE I == {i \in DOMAIN Template : IsContainer(Template[i])}
           Row(i) == {i} \X (DOMAIN Template[i].children)
<1>1. Template \in Seq(TemplateNode)
  BY TemplateAssumption
<1>2. IsFiniteSet(DOMAIN Template)
  <2>1. DOMAIN Template = 1 .. Len(Template) /\ Len(Template) \in Nat
    BY <1>1, LenProperties
  <2> QED BY <2>1, FS_Interval
<1>3. IsFiniteSet((DOMAIN Template) \X {0})
  BY <1>2, FS_Product, FS_Singleton
<1>4. IsFiniteSet(I)
  BY <1>2, FS_Subset
<1>5. ASSUME NEW i \in I
      PROVE  IsFiniteSet(Row(i))
  <2>1. Template[i] \in TemplateNode
    BY <1>1
  <2>2. Template[i] \in Container
    BY <2>1 DEF TemplateNode, Leaf, Slot, IsContainer
  <2>3. Template[i].children \in Seq(Leaf)
    BY <2>2 DEF Container
  <2>4. /\ DOMAIN Template[i].children = 1 .. Len(Template[i].children)
        /\ Len(Template[i].children) \in Nat
    BY <2>3, LenProperties
  <2>5. IsFiniteSet(DOMAIN Template[i].children)
    BY <2>4, FS_Interval
  <2> QED BY <2>5, FS_Product, FS_Singleton
<1>6. IsFiniteSet({Row(i) : i \in I})
  <2> DEFINE f == [i \in I |-> Row(i)]
  <2>1. f \in Surjection(I, {Row(i) : i \in I})
    <3> HIDE DEF I, Row
    <3> QED BY DEF Surjection
  <2> HIDE DEF f, I, Row
  <2> QED BY <1>4, <2>1, FS_Surjection
<1>7. IsFiniteSet(UNION {Row(i) : i \in I})
  <2>1. \A T \in {Row(i) : i \in I} : IsFiniteSet(T)
    BY <1>5
  <2> HIDE DEF I, Row
  <2> QED BY <1>6, <2>1, FS_UNION
<1>8. Places = ((DOMAIN Template) \X {0}) \cup UNION {Row(i) : i \in I}
  BY DEF Places
<1> HIDE DEF I, Row
<1> QED BY <1>3, <1>7, <1>8, FS_Union

LEMMA SlotsFinite ==
  /\ IsFiniteSet(Required)
  /\ IsFiniteSet(PlacesOf("pageBreak"))
<1>1. IsFiniteSet(PlacesOf("signatureSlot")) /\ IsFiniteSet(PlacesOf("pageBreak"))
  BY PlacesFinite, FS_Subset DEF PlacesOf
<1> DEFINE P == PlacesOf("signatureSlot")
           f == [p \in P |-> NodeAt(p)]
<1>2. f \in Surjection(P, Slots)
  BY DEF Surjection, Slots
<1>3. IsFiniteSet(Slots)
  <2> HIDE DEF f
  <2> QED BY <1>1, <1>2, FS_Surjection
<1>4. Required \subseteq Slots
  BY DEF Required
<1> QED BY <1>1, <1>3, <1>4, FS_Subset

\* The document has a page for each slot of the top.
LEMMA PagesSuffice ==
  /\ PageCount \in Nat \ {0}
  /\ \A s \in LiftedSlots : s.page \in 1 .. PageCount
<1> DEFINE S == {1 + Cardinality(Breaks)} \cup {s.page : s \in LiftedSlots}
           b == Cardinality(Breaks)
           n == Cardinality(PlacesOf("pageBreak"))
<1>1. b \in Nat
  <2>1. Template \in Seq(TemplateNode)
    BY TemplateAssumption
  <2>2. DOMAIN Template = 1 .. Len(Template) /\ Len(Template) \in Nat
    BY <2>1, LenProperties
  <2>3. IsFiniteSet(DOMAIN Template)
    BY <2>2, FS_Interval
  <2>4. IsFiniteSet(Breaks)
    BY <2>3, FS_Subset DEF Breaks
  <2> QED BY <2>4, FS_CardinalityType
<1>2. n \in Nat
  BY SlotsFinite, FS_CardinalityType
<1>3. \A s \in LiftedSlots : s.page \in Nat \ {0} /\ s.page <= 1 + n
  <2>1. \A s \in Slots : s.page <= 1 + n
    BY TemplateAssumption DEF SlotsArePublishable
  <2> QED BY <2>1, SlotsTyped DEF LiftedSlots, Slot
<1> HIDE DEF b, n
<1>4. S \subseteq Nat /\ S # {} /\ \A x \in S : x <= 1 + n + b
  BY <1>1, <1>2, <1>3 DEF b
<1>5. 1 + n + b \in Nat
  BY <1>1, <1>2
<1>6. Max(S) \in S /\ \A y \in S : Max(S) >= y
  <2> HIDE DEF S
  <2> QED BY <1>4, <1>5, MaxIsGreatest
<1>7. PageCount = Max(S)
  BY DEF PageCount
<1>8. Max(S) \in Nat /\ Max(S) >= 1 + b
  <2>1. 1 + b \in S
    BY DEF b
  <2> HIDE DEF S
  <2> QED BY <1>4, <1>6, <2>1
<1>9. ASSUME NEW s \in LiftedSlots
      PROVE  s.page \in 1 .. Max(S)
  <2>1. s.page \in S
    OBVIOUS
  <2> HIDE DEF S
  <2> QED BY <1>3, <1>6, <1>8, <2>1
<1> HIDE DEF S
<1> QED BY <1>1, <1>7, <1>8, <1>9

-----------------------------------------------------------------------------
(* Positions *)

LEMMA RatioBounds ==
  ASSUME NEW scale \in Int
  PROVE  Ratio(scale) \in 300 .. 960
BY DEF Ratio, Least, Most

\* At any percentage, and rounded, a picture that is smaller than the slot stays
\* in it.
LEMMA OffsetFits ==
  ASSUME NEW length \in Nat, NEW size \in Nat, size <= length * 1000,
         NEW percent \in Int
  PROVE  /\ Offset(length, size, percent) \in Nat
         /\ Offset(length, size, percent) + size <= length * 1000
<1> DEFINE h == Least(100, Most(0, percent))
           free == length * 1000 - size
<1>1. h \in 0 .. 100
  BY DEF Least, Most
<1>2. free \in Nat /\ size + free = length * 1000
  OBVIOUS
<1> HIDE DEF h, free
<1>3. free * h \in Nat /\ free * h <= free * 100
  BY <1>1, <1>2
<1>4. \A n \in Nat : n <= free * 100 => (n + 50) \div 100 \in 0 .. free
  BY <1>2
<1>5. Offset(length, size, percent) = (free * h + 50) \div 100
  BY <1>2 DEF Offset, h, free
<1>6. Offset(length, size, percent) \in 0 .. free
  BY <1>3, <1>4, <1>5
<1> QED BY <1>2, <1>6

\* The position of p in slot s, and that it is in the slot.
Place(p, s) ==
  [slotId |-> s.slotId, page |-> s.page,
   x |-> s.x * 1000 + Offset(s.width, s.width * Ratio(p.scale), p.x),
   width |-> s.width * Ratio(p.scale)]

LEMMA PositionsArePlaces ==
  ASSUME NEW p
  PROVE  MapPlacementToSlots(p) = {Place(p, s) : s \in Required}
BY DEF MapPlacementToSlots, Place

LEMMA PlaceFits ==
  ASSUME NEW p \in Placement, NEW s \in Slots
  PROVE  Place(p, s) \in Position /\ InSlot(Place(p, s), s)
<1>1. s \in Slot
  BY SlotsTyped
<1>2. s.width \in Nat \ {0} /\ s.x \in Nat /\ s.page \in Nat /\ s.slotId \in STRING
  BY <1>1 DEF Slot
<1>3. p.scale \in Int /\ p.x \in Int
  BY DEF Placement
<1> DEFINE size == s.width * Ratio(p.scale)
           off == Offset(s.width, size, p.x)
<1>4. size \in Nat \ {0} /\ off \in Nat /\ off + size <= s.width * 1000
  <2>1. Ratio(p.scale) \in 300 .. 960
    BY <1>3, RatioBounds
  <2>2. PICK w \in Nat \ {0}, r \in 300 .. 960, h \in Int :
          w = s.width /\ r = Ratio(p.scale) /\ h = p.x
    BY <1>2, <1>3, <2>1
  <2>3. size = w * r
    BY <2>2
  <2>4. off = Offset(w, size, h)
    BY <2>2
  <2> HIDE DEF size, off
  <2>5. size \in Nat \ {0} /\ size <= w * 1000
    <3>1. size \in Int
      BY <2>3
    <3>2. size > 0 /\ size <= w * 1000
      BY <2>3
    <3> QED BY <3>1, <3>2
  <2>6. Offset(w, size, h) \in Nat /\ Offset(w, size, h) + size <= w * 1000
    BY <2>5, OffsetFits
  <2> QED BY <2>2, <2>4, <2>5, <2>6
<1>5. Place(p, s) = [slotId |-> s.slotId, page |-> s.page,
                     x |-> s.x * 1000 + off, width |-> size]
  BY DEF Place
<1> HIDE DEF size, off
<1>6. (s.x + s.width) * 1000 = s.x * 1000 + s.width * 1000
  BY <1>2
<1> QED BY <1>2, <1>4, <1>5, <1>6 DEF Position, InSlot

\* One position for each slot that must be signed.
LEMMA PlacesCount ==
  ASSUME NEW p
  PROVE  Cardinality(MapPlacementToSlots(p)) = Cardinality(Required)
<1> DEFINE M == MapPlacementToSlots(p)
           f == [s \in Required |-> Place(p, s)]
<1>1. f \in Surjection(Required, M)
  BY PositionsArePlaces DEF Surjection
<1>2. f \in Injection(Required, M)
  <2>1. \A s, t \in Required : Place(p, s) = Place(p, t) => s.slotId = t.slotId
    BY DEF Place
  <2>2. \A s, t \in Required : s.slotId = t.slotId => s = t
    BY SlotIdsDiffer DEF Required
  <2> QED BY <1>1, <2>1, <2>2 DEF Injection, IsInjective, Surjection
<1> HIDE DEF f, M
<1>3. Cardinality(M) = Cardinality(Required)
  BY <1>1, <1>2, SlotsFinite, FS_Surjection
<1> QED BY <1>3 DEF M

\* So the positions pass all three tests.
LEMMA PositionsValid ==
  ASSUME NEW p \in Placement
  PROVE  /\ MapPlacementToSlots(p) \subseteq Position
         /\ ValidPositions(MapPlacementToSlots(p))
         /\ Renders(MapPlacementToSlots(p))
         /\ PlacementsValid(MapPlacementToSlots(p))
<1> DEFINE M == MapPlacementToSlots(p)
<1>1. M = {Place(p, s) : s \in Required}
  BY PositionsArePlaces
<1>2. Required \subseteq Slots /\ Required # {}
  BY TemplateAssumption DEF Required, SlotsArePublishable
<1>3. \A s \in Required : Place(p, s) \in Position /\ InSlot(Place(p, s), s)
  BY <1>2, PlaceFits
<1>4. ASSUME NEW s \in Required
      PROVE  {q \in M : q.slotId = s.slotId} = {Place(p, s)}
  <2>1. \A t \in Required : Place(p, t).slotId = t.slotId
    BY DEF Place
  <2>2. \A t \in Required : t.slotId = s.slotId => t = s
    BY <1>2, SlotIdsDiffer
  <2> QED BY <1>1, <2>1, <2>2
<1>5. Cardinality(M) = Cardinality(Required)
  BY PlacesCount
<1>6. {s.slotId : s \in Required} = {q.slotId : q \in M}
  <2>1. \A t \in Required : Place(p, t).slotId = t.slotId
    BY DEF Place
  <2> QED BY <1>1, <2>1
<1> HIDE DEF M
<1>7. ValidPositions(M)
  <2>1. \A s \in Required : Cardinality({q \in M : q.slotId = s.slotId}) = 1
    BY <1>4, FS_Singleton
  <2> QED BY <1>1, <1>3, <1>5, <2>1 DEF ValidPositions
<1>8. \A s \in Required : \E q \in M : InSlot(q, s)
  BY <1>1, <1>3
<1>9. Renders(M) /\ PlacementsValid(M)
  BY <1>2, <1>5, <1>6, <1>8 DEF Renders, PlacementsValid
<1> QED BY <1>1, <1>3, <1>7, <1>9 DEF M

\* What a page shows signed lies on that page.
LEMMA SignedOnPage ==
  ASSUME NEW p, NEW n \in 1 .. PageCount,
         NEW q \in PdfRenderDocument(MapPlacementToSlots(p))[n].signed
  PROVE  q \in MapPlacementToSlots(p) /\ q.page = n
<1>1. PdfRenderDocument(MapPlacementToSlots(p))[n].signed =
        UNION {{r \in MapPlacementToSlots(p) : r.slotId = s.slotId} :
               s \in {t \in LiftedSlots : t.page = n}}
  BY DEF PdfRenderDocument
<1>2. PICK s \in LiftedSlots :
        s.page = n /\ q \in MapPlacementToSlots(p) /\ q.slotId = s.slotId
  BY <1>1
<1>3. PICK t \in Required : q = Place(p, t)
  BY <1>2, PositionsArePlaces
<1>4. t = s
  BY <1>2, <1>3, SlotIdsDiffer DEF Place, LiftedSlots, Required
<1> QED BY <1>2, <1>3, <1>4 DEF Place

\* And a slot of the top is signed by the position made for it.
LEMMA LiftedIsSigned ==
  ASSUME NEW p \in Placement, NEW s \in Required \cap LiftedSlots
  PROVE  \E q \in PdfRenderDocument(MapPlacementToSlots(p))[s.page].signed : InSlot(q, s)
<1> DEFINE M == MapPlacementToSlots(p)
<1>1. s.page \in 1 .. PageCount
  BY PagesSuffice
<1>2. Place(p, s) \in M /\ Place(p, s).slotId = s.slotId
  BY PositionsArePlaces DEF Place
<1>3. PdfRenderDocument(M)[s.page].signed =
        UNION {{r \in M : r.slotId = t.slotId} : t \in {u \in LiftedSlots : u.page = s.page}}
  BY <1>1 DEF PdfRenderDocument
<1> HIDE DEF M
<1>4. Place(p, s) \in PdfRenderDocument(M)[s.page].signed
  BY <1>2, <1>3
<1>5. InSlot(Place(p, s), s)
  BY PlaceFits DEF Required
<1> QED BY <1>4, <1>5 DEF M

-----------------------------------------------------------------------------
(* The inductive invariant: the PDF *)

ViewerTyped ==
  /\ loads \in Seq(Phase) /\ Len(loads) \in 0 .. MaxSteps
  /\ document \in 0 .. Len(loads)
  /\ loadFailed \in BOOLEAN
  /\ currentPage \in 1 .. PageCount

\* Only the newest load may still go on or hold a document, on the screen.
Going == {"importing", "loading", "open"}
NewestGoesOn == \A i \in DOMAIN loads : loads[i] \in Going => mounted /\ i = Len(loads)

Viewed == ViewerTyped /\ NewestGoesOn /\ DocumentIsCurrent

LEMMA DisposedSettled ==
  ASSUME ViewerTyped
  PROVE  /\ Disposed \in Seq(Phase) /\ Len(Disposed) = Len(loads)
         /\ \A i \in DOMAIN Disposed : Disposed[i] \notin Going
<1>1. \A phase \in Phase : Dispose(phase) \in Phase \ Going
  BY DEF Dispose, Phase, Going
<1>2. loads \in Seq(Phase) /\ Len(loads) \in Nat /\ DOMAIN loads = 1 .. Len(loads)
  BY DEF ViewerTyped
<1>3. \A i \in DOMAIN loads : loads[i] \in Phase
  BY <1>2
<1>4. Disposed \in [1 .. Len(loads) -> Phase]
  BY <1>1, <1>2, <1>3 DEF Disposed
<1>5. Disposed \in Seq(Phase) /\ Len(Disposed) = Len(loads)
  BY <1>2, <1>4, SeqDef, LenProperties
<1> QED BY <1>1, <1>3, <1>5 DEF Disposed

\* Leaving, or another PDF, ends every load there was.
LEMMA LoadKeepsViewed ==
  ASSUME Viewed, Load, mounted', generation \in Nat
  PROVE  Viewed'
<1>1. /\ Disposed \in Seq(Phase) /\ Len(Disposed) = Len(loads)
      /\ \A i \in DOMAIN Disposed : Disposed[i] \notin Going
  BY DisposedSettled DEF Viewed
<1>2. /\ loads' = Append(Disposed, "importing") /\ document' = 0
      /\ loadFailed' = FALSE /\ currentPage' = 1
  BY DEF Load
<1>3. "importing" \in Phase
  BY DEF Phase
<1>4. /\ loads' \in Seq(Phase) /\ Len(loads') = Len(loads) + 1
      /\ \A i \in 1 .. Len(loads) : loads'[i] = Disposed[i]
      /\ loads'[Len(loads) + 1] = "importing"
  BY <1>1, <1>2, <1>3, AppendProperties
<1>5. Len(loads) \in Nat /\ DOMAIN loads' = 1 .. Len(loads) + 1
      /\ DOMAIN Disposed = 1 .. Len(loads)
  BY <1>1, <1>4
<1>6. \A i \in DOMAIN loads' : i # Len(loads) + 1 => loads'[i] \notin Going
  BY <1>1, <1>4, <1>5
<1>7. NewestGoesOn'
  BY <1>4, <1>5, <1>6 DEF NewestGoesOn
<1>8. DocumentIsCurrent'
  BY <1>2, <1>4, <1>5, <1>6 DEF DocumentIsCurrent, Going
<1>9. Len(loads') \in 0 .. MaxSteps
  BY <1>4, <1>5, ConstantsAssumption DEF Load, Room
<1>10. ViewerTyped'
  <2>1. 1 \in 1 .. PageCount
    BY PagesSuffice
  <2>2. document' \in 0 .. Len(loads')
    BY <1>2, <1>4, <1>5
  <2> QED BY <1>2, <1>4, <1>9, <2>1, <2>2 DEF ViewerTyped
<1> QED BY <1>7, <1>8, <1>10 DEF Viewed

LEMMA LeaveKeepsViewed ==
  ASSUME Viewed, Leave
  PROVE  Viewed'
<1>1. /\ Disposed \in Seq(Phase) /\ Len(Disposed) = Len(loads)
      /\ \A i \in DOMAIN Disposed : Disposed[i] \notin Going
  BY DisposedSettled DEF Viewed
<1>2. /\ loads' = Disposed /\ document' = 0
      /\ loadFailed' = FALSE /\ currentPage' = 1
  BY DEF Leave
<1>3. ViewerTyped'
  <2>1. 1 \in 1 .. PageCount
    BY PagesSuffice
  <2>2. Len(loads) \in 0 .. MaxSteps
    BY DEF Viewed, ViewerTyped
  <2>3. document' \in 0 .. Len(loads')
    BY <1>1, <1>2, <2>2, ConstantsAssumption
  <2> QED BY <1>1, <1>2, <2>1, <2>2, <2>3 DEF ViewerTyped
<1>4. NewestGoesOn' /\ DocumentIsCurrent'
  BY <1>1, <1>2 DEF NewestGoesOn, DocumentIsCurrent, Going
<1> QED BY <1>3, <1>4 DEF Viewed

\* A load that goes on is the newest, and nothing of it is shown yet.
LEMMA LoadGoesOnKeepsViewed ==
  ASSUME Viewed, NEW i \in DOMAIN loads, loads[i] \in {"importing", "loading"},
         NEW phase \in {"loading", "open", "failed"}, LoadGoesOn(i, phase)
  PROVE  Viewed'
<1>1. loads \in Seq(Phase) /\ Len(loads) \in Nat /\ DOMAIN loads = 1 .. Len(loads)
  BY DEF Viewed, ViewerTyped
<1>2. mounted /\ i = Len(loads)
  BY DEF Viewed, NewestGoesOn, Going
<1>3. document = 0 /\ ~ loadFailed
  <2>1. loads[Len(loads)] \in {"importing", "loading"}
    BY <1>2
  <2>2. document \in Nat
    BY DEF Viewed, ViewerTyped
  <2> QED BY <2>1, <2>2 DEF Viewed, DocumentIsCurrent
<1>4. /\ loads' = [loads EXCEPT ![i] = phase]
      /\ document' = IF phase = "open" THEN i ELSE 0
      /\ loadFailed' = (phase = "failed")
      /\ mounted' = mounted /\ currentPage' = currentPage
  BY <1>3 DEF LoadGoesOn
<1>5. /\ loads' \in Seq(Phase) /\ Len(loads') = Len(loads) /\ DOMAIN loads' = DOMAIN loads
      /\ loads'[i] = phase /\ \A j \in DOMAIN loads : j # i => loads'[j] = loads[j]
  <2>1. phase \in Phase
    BY DEF Phase
  <2>2. i \in 1 .. Len(loads)
    BY <1>1
  <2>3. /\ [loads EXCEPT ![i] = phase] \in Seq(Phase)
        /\ Len([loads EXCEPT ![i] = phase]) = Len(loads)
    BY <1>1, <2>1, <2>2, ExceptSeq
  <2> QED BY <1>4, <2>3
<1>6. \A j \in DOMAIN loads : j # i => loads'[j] \notin Going
  BY <1>2, <1>5 DEF Viewed, NewestGoesOn
<1>7. NewestGoesOn'
  BY <1>2, <1>4, <1>5, <1>6 DEF NewestGoesOn
<1>8. DocumentIsCurrent'
  <2>1. document' # 0 => mounted' /\ document' = Len(loads') /\ loads'[document'] = "open"
    BY <1>2, <1>4, <1>5
  <2>2. \A j \in DOMAIN loads' : loads'[j] = "open" => j = document'
    BY <1>4, <1>5, <1>6 DEF Going
  <2>3. loadFailed' => mounted' /\ loads' # <<>> /\ loads'[Len(loads')] \in {"failed", "open"}
    <3>1. DOMAIN loads' # {} /\ DOMAIN <<>> = {}
      BY <1>5
    <3>2. mounted' /\ loads' # <<>>
      BY <1>2, <1>4, <3>1
    <3>3. loads'[Len(loads')] = phase
      BY <1>2, <1>5
    <3> QED BY <1>4, <3>2, <3>3
  <2> QED BY <2>1, <2>2, <2>3 DEF DocumentIsCurrent
<1>9. ViewerTyped'
  BY <1>1, <1>4, <1>5 DEF Viewed, ViewerTyped
<1> QED BY <1>7, <1>8, <1>9 DEF Viewed

LEMMA PagesKeepViewed ==
  ASSUME Viewed, PageFails \/ \E n \in 1 .. PageCount : TurnPage(n)
  PROVE  Viewed'
<1>1. loads' = loads /\ document' = document /\ mounted' = mounted /\ document # 0
  BY DEF PageFails, TurnPage, PagesAreShown
<1>2. \/ loadFailed' = TRUE /\ currentPage' = currentPage
      \/ loadFailed' = loadFailed /\ currentPage' \in 1 .. PageCount
  BY DEF PageFails, TurnPage
<1>3. ViewerTyped' /\ NewestGoesOn'
  BY <1>1, <1>2 DEF Viewed, ViewerTyped, NewestGoesOn
<1>4. mounted /\ document = Len(loads) /\ loads[document] = "open"
  BY <1>1 DEF Viewed, DocumentIsCurrent
<1>5. loads # <<>>
  <2>1. document \in Nat
    BY DEF Viewed, ViewerTyped
  <2>2. Len(<<>>) = 0
    BY EmptySeq
  <2> QED BY <1>1, <1>4, <2>1, <2>2
<1>6. DocumentIsCurrent'
  BY <1>1, <1>4, <1>5 DEF Viewed, DocumentIsCurrent
<1> QED BY <1>3, <1>6 DEF Viewed

LEMMA QuietKeepsViewed ==
  ASSUME Viewed, UNCHANGED viewer, mounted => mounted'
  PROVE  Viewed'
<1>1. /\ loads' = loads /\ document' = document /\ loadFailed' = loadFailed
      /\ currentPage' = currentPage
  BY DEF viewer
<1> QED BY <1>1 DEF Viewed, ViewerTyped, NewestGoesOn, DocumentIsCurrent

-----------------------------------------------------------------------------
(* The inductive invariant: the editor *)

Calls == SealCall \cup Cutout \cup Confirmation

EditorTyped ==
  /\ mounted \in BOOLEAN
  /\ placement \in Placement /\ signature \in Placement
  /\ original \in Images \cup {None}
  /\ processed \in Images \cup {None}
  /\ reference \in Images \cup {None}
  /\ failed \in BOOLEAN /\ busy \in BOOLEAN
  /\ generation \in 0 .. MaxSteps
  /\ calls \subseteq Calls
  /\ signing = None \/ signing \in Command

\* A handwriting has nothing of a seal, and a seal's picture is a stored one.
Coherent(p) ==
  /\ p.method = "handwritten"
       => /\ p.row = None /\ p.original = None
          /\ p.resource \in {None, [purpose |-> "HANDWRITTEN", image |-> None]}
  /\ p.method = "seal" /\ p.resource # None => p.row # None

HeldAreSeals ==
  \A c \in calls : c.kind # "cutout" => c.held.method = "seal" /\ Coherent(c.held)

Coherence == Coherent(placement) /\ Coherent(signature) /\ HeldAreSeals

\* A call whose answer the page would show.  While the file is read the screen is
\* empty; later it shows the seal of the call.
Live(c) ==
  /\ c.kind # "confirm" /\ c.generation = generation
  /\ c.kind = "cutout" \/ ~ c.left

Followed ==
  /\ \A c \in calls : c.kind # "confirm" => c.generation <= generation
  /\ \A c \in calls : Live(c) =>
       /\ mounted
       /\ IF c.kind = "read" THEN original = None ELSE original = c.image
  /\ \A c, d \in calls : Live(c) /\ Live(d) /\ c.kind = "read" /\ d.kind = "read" => c = d

Edited == EditorTyped /\ Coherence /\ Followed /\ SealIsCurrent

IInv == Edited /\ Viewed

-----------------------------------------------------------------------------
(* Placements *)

LEMMA WithoutSealTyped ==
  ASSUME NEW p \in Placement
  PROVE  /\ WithoutSeal(p) \in Placement /\ Coherent(WithoutSeal(p))
         /\ \A method \in {"handwritten", "seal"} :
              LET q == [WithoutSeal(p) EXCEPT !.method = method] IN
              q \in Placement /\ Coherent(q)
<1>1. WithoutSeal(p) \in Placement
  BY DEF WithoutSeal, Placement
<1>2. /\ WithoutSeal(p).resource = None /\ WithoutSeal(p).row = None
      /\ WithoutSeal(p).original = None
  BY DEF WithoutSeal, Placement
<1> QED BY <1>1, <1>2 DEF Coherent, Placement

LEMMA WithSealTyped ==
  ASSUME NEW p \in Placement, p.method = "seal", NEW image \in Images,
         NEW purpose \in {"SEAL_ORIGINAL", "SEAL_PROCESSED"}, NEW of \in Images
  PROVE  /\ WithSeal(p, purpose, image, of) \in Placement
         /\ Coherent(WithSeal(p, purpose, image, of))
<1> DEFINE picture == [purpose |-> purpose, image |-> image]
           row == [purpose |-> purpose, image |-> image,
                   original |-> IF purpose = "SEAL_PROCESSED" THEN of ELSE None]
<1>1. picture \in Picture
  BY DEF Picture
<1>2. row \in Resource
  BY DEF Resource
<1>3. WithSeal(p, purpose, image, of) =
        [p EXCEPT !.resource = picture, !.row = row, !.original = of, !.confirmed = TRUE]
  BY DEF WithSeal
<1> HIDE DEF picture, row
<1>4. WithSeal(p, purpose, image, of) \in Placement
  <2>1. [p EXCEPT !.resource = picture] \in Placement
    BY <1>1 DEF Placement
  <2>2. [p EXCEPT !.resource = picture, !.row = row] \in Placement
    BY <1>2, <2>1 DEF Placement
  <2>3. [p EXCEPT !.resource = picture, !.row = row, !.original = of] \in Placement
    BY <2>2 DEF Placement
  <2>4. [p EXCEPT !.resource = picture, !.row = row, !.original = of,
                  !.confirmed = TRUE] \in Placement
    BY <2>3 DEF Placement
  <2> QED BY <1>3, <2>4
<1>5. /\ WithSeal(p, purpose, image, of).method = "seal"
      /\ WithSeal(p, purpose, image, of).row = row
  BY <1>3 DEF Placement
<1>6. row # None
  BY <1>2, NoneAssumption
<1> QED BY <1>4, <1>5, <1>6 DEF Coherent

LEMMA OriginalOfTyped ==
  ASSUME NEW p \in Placement, p.method = "seal", Coherent(p), NEW image \in Images
  PROVE  /\ [p EXCEPT !.original = image] \in Placement
         /\ Coherent([p EXCEPT !.original = image])
BY DEF Placement, Coherent

-----------------------------------------------------------------------------
(* Steps of the editor *)

LEMMA CallKinds ==
  ASSUME NEW c \in Calls
  PROVE  /\ c.kind \in {"read", "upload", "cutout", "confirm"}
         /\ c.kind \in {"read", "upload"} => c \in SealCall
         /\ c.kind = "cutout" => c \in Cutout
         /\ c.kind = "confirm" => c \in Confirmation
         /\ c.image \in Images
         /\ c.kind # "cutout" => c.held \in Placement
BY DEF Calls, SealCall, Cutout, Confirmation

\* Steps that begin no call and change nothing that is shown of the seal.
LEMMA FewerCalls ==
  ASSUME Edited, UNCHANGED <<mounted, original, processed, reference, generation>>,
         calls' \subseteq calls
  PROVE  calls' \subseteq Calls /\ HeldAreSeals' /\ Followed' /\ SealIsCurrent'
<1>1. /\ mounted' = mounted /\ original' = original /\ processed' = processed
      /\ reference' = reference /\ generation' = generation
  OBVIOUS
<1>2. calls' \subseteq Calls /\ HeldAreSeals'
  BY DEF Edited, EditorTyped, Coherence, HeldAreSeals
<1>3. \A c : Live(c)' <=> Live(c)
  BY <1>1 DEF Live
<1>4. Followed'
  BY <1>1, <1>3 DEF Edited, Followed
<1> QED BY <1>1, <1>2, <1>4 DEF Edited, SealIsCurrent

LEMMA PlacementsKeepEdited ==
  ASSUME Edited,
         \/ \E drawn \in BOOLEAN : Draw(drawn)
         \/ \E x \in Sliders : Slide(x)
         \/ \E scale \in Scales : Resize(scale)
         \/ ConfirmOriginal
  PROVE  Edited'
<1>1. /\ UNCHANGED <<mounted, original, processed, reference, generation>>
      /\ UNCHANGED <<failed, busy, calls, signing>>
  BY DEF Draw, Slide, Resize, ConfirmOriginal, seal
<1>2. placement \in Placement /\ Coherent(placement)
  BY DEF Edited, EditorTyped, Coherence
<1>3. PICK p \in Placement : Coherent(p) /\ placement' = p /\ signature' = p
  <2>1. ASSUME NEW drawn \in BOOLEAN, Draw(drawn)
        PROVE  \E p \in Placement : Coherent(p) /\ placement' = p /\ signature' = p
    <3> DEFINE r == IF drawn THEN [purpose |-> "HANDWRITTEN", image |-> None] ELSE None
    <3>1. r \in {None, [purpose |-> "HANDWRITTEN", image |-> None]}
      OBVIOUS
    <3>2. [purpose |-> "HANDWRITTEN", image |-> None] \in Picture
      BY DEF Picture
    <3>3. r \in Picture \cup {None}
      BY <3>1, <3>2
    <3> HIDE DEF r
    <3> DEFINE p == [placement EXCEPT !.resource = r, !.confirmed = drawn]
    <3>4. placement' = p /\ signature' = p /\ placement.method = "handwritten"
      BY <2>1 DEF Draw, Update, r
    <3>5. p \in Placement
      BY <1>2, <3>3 DEF Placement
    <3>6. /\ p.method = "handwritten" /\ p.row = placement.row
          /\ p.original = placement.original /\ p.resource = r
      BY <1>2, <3>4 DEF Placement
    <3> HIDE DEF p
    <3>7. Coherent(p)
      BY <1>2, <3>1, <3>4, <3>6 DEF Coherent
    <3> QED BY <3>4, <3>5, <3>7
  <2>2. ASSUME NEW x \in Sliders, Slide(x)
        PROVE  \E p \in Placement : Coherent(p) /\ placement' = p /\ signature' = p
    <3> DEFINE p == [placement EXCEPT !.x = x]
    <3>1. p \in Placement /\ Coherent(p)
      BY <1>2, ConstantsAssumption DEF Placement, Coherent
    <3> QED BY <2>2, <3>1 DEF Slide, Update
  <2>3. ASSUME NEW scale \in Scales, Resize(scale)
        PROVE  \E p \in Placement : Coherent(p) /\ placement' = p /\ signature' = p
    <3> DEFINE p == [placement EXCEPT !.scale = scale]
    <3>1. p \in Placement /\ Coherent(p)
      BY <1>2, ConstantsAssumption DEF Placement, Coherent
    <3> QED BY <2>3, <3>1 DEF Resize, Update
  <2>4. ASSUME ConfirmOriginal
        PROVE  \E p \in Placement : Coherent(p) /\ placement' = p /\ signature' = p
    <3>1. /\ placement.method = "seal" /\ original \in Images /\ reference \in Images
          /\ Update(WithSeal(placement, "SEAL_ORIGINAL", original, reference))
      BY <2>4 DEF ConfirmOriginal, Buttons, Edited, EditorTyped
    <3> DEFINE p == WithSeal(placement, "SEAL_ORIGINAL", original, reference)
    <3>2. p \in Placement /\ Coherent(p)
      BY <1>2, <3>1, WithSealTyped
    <3>3. placement' = p /\ signature' = p
      BY <3>1 DEF Update
    <3> HIDE DEF p
    <3> QED BY <3>2, <3>3
  <2> QED BY <2>1, <2>2, <2>3, <2>4
<1>4. EditorTyped'
  BY <1>1, <1>3 DEF Edited, EditorTyped
<1>5. Coherence' /\ Followed' /\ SealIsCurrent'
  BY <1>1, <1>3, FewerCalls DEF Coherence
<1> QED BY <1>4, <1>5 DEF Edited

\* Answers that leave the placements alone, and signing.
LEMMA QuietAnswersKeepEdited ==
  ASSUME Edited, NEW c \in calls,
         OriginalFails(c) \/ Ignored(c) \/ CutoutFails(c) \/ ProcessedFails(c)
  PROVE  Edited'
<1>1. /\ UNCHANGED <<mounted, original, processed, reference, generation>>
      /\ UNCHANGED <<placement, signature, signing>> /\ calls' \subseteq calls
  BY DEF OriginalFails, Ignored, CutoutFails, ProcessedFails, Answer, seal
<1>2. failed' \in BOOLEAN /\ busy' \in BOOLEAN
  <2>1. failed \in BOOLEAN /\ busy \in BOOLEAN
    BY DEF Edited, EditorTyped
  <2>2. failed' \in {failed, TRUE}
    BY DEF OriginalFails, Ignored, CutoutFails, ProcessedFails, seal
  <2>3. busy' \in {busy, FALSE} \/ busy' = (busy /\ ~ c.first) \/ busy' = (busy /\ c.left)
    BY DEF OriginalFails, Ignored, CutoutFails, ProcessedFails, seal
  <2> QED BY <2>1, <2>2, <2>3
<1>3. calls' \subseteq Calls /\ HeldAreSeals' /\ Followed' /\ SealIsCurrent'
  BY <1>1, FewerCalls
<1>4. EditorTyped'
  BY <1>1, <1>2, <1>3 DEF Edited, EditorTyped
<1>5. Coherence'
  BY <1>1, <1>3 DEF Edited, Coherence
<1> QED BY <1>3, <1>4, <1>5 DEF Edited

\* Answers that change what will be signed.
LEMMA LateSealsKeepEdited ==
  ASSUME Edited, NEW c \in calls, OriginalStoredLate(c) \/ ProcessedStored(c)
  PROVE  Edited'
<1>1. c \in Calls /\ c.kind # "cutout"
  BY DEF Edited, EditorTyped, OriginalStoredLate, ProcessedStored
<1>2. c.held \in Placement /\ c.held.method = "seal" /\ Coherent(c.held) /\ c.image \in Images
  BY <1>1, CallKinds DEF Edited, Coherence, HeldAreSeals
<1>3. PICK p \in Placement :
        Coherent(p) /\ signature' = p /\ placement' \in {placement, p}
  <2>1. CASE OriginalStoredLate(c)
    <3> DEFINE p == [c.held EXCEPT !.original = c.image]
    <3>1. p \in Placement /\ Coherent(p)
      BY <1>2, OriginalOfTyped
    <3> QED BY <2>1, <3>1 DEF OriginalStoredLate
  <2>2. CASE ProcessedStored(c)
    <3> DEFINE p == WithSeal(c.held, "SEAL_PROCESSED", c.image, c.original)
    <3>1. c.original \in Images
      BY <1>1, <2>2, CallKinds DEF ProcessedStored, Confirmation
    <3>2. p \in Placement /\ Coherent(p)
      BY <1>2, <3>1, WithSealTyped
    <3>3. signature' = p /\ placement' \in {placement, p}
      BY <2>2 DEF ProcessedStored
    <3> HIDE DEF p
    <3> QED BY <3>2, <3>3
  <2> QED BY <2>1, <2>2
<1>4. /\ UNCHANGED <<mounted, original, processed, reference, generation>>
      /\ UNCHANGED <<failed, signing>> /\ calls' \subseteq calls
  BY DEF OriginalStoredLate, ProcessedStored, Answer, seal
<1>5. busy' \in BOOLEAN
  <2>1. busy \in BOOLEAN
    BY DEF Edited, EditorTyped
  <2>2. busy' = busy \/ busy' = (busy /\ c.left)
    BY DEF OriginalStoredLate, ProcessedStored, seal
  <2> QED BY <2>1, <2>2
<1>6. calls' \subseteq Calls /\ HeldAreSeals' /\ Followed' /\ SealIsCurrent'
  BY <1>4, FewerCalls
<1>7. EditorTyped'
  BY <1>3, <1>4, <1>5, <1>6 DEF Edited, EditorTyped
<1>8. Coherence'
  BY <1>3, <1>6 DEF Edited, Coherence
<1> QED BY <1>6, <1>7, <1>8 DEF Edited

\* Entering and leaving: what was live is live no more.
LEMMA EnterKeepsEdited ==
  ASSUME Edited, Enter
  PROVE  Edited'
<1>1. /\ mounted = FALSE /\ mounted' = TRUE /\ placement' = signature
      /\ original' = None /\ processed' = None /\ reference' = None
      /\ failed' = FALSE /\ busy' = FALSE
      /\ UNCHANGED <<signature, generation, calls, signing>>
  BY DEF Enter, ClearSeal, Edited, EditorTyped
<1>2. EditorTyped'
  BY <1>1 DEF Edited, EditorTyped
<1>3. Coherence'
  BY <1>1 DEF Edited, Coherence, HeldAreSeals
<1>4. \A c \in calls : ~ Live(c)'
  BY <1>1 DEF Edited, Followed, Live
<1>5. Followed' /\ SealIsCurrent'
  BY <1>1, <1>4 DEF Edited, Followed, SealIsCurrent
<1> QED BY <1>2, <1>3, <1>5 DEF Edited

LEMMA LeaveKeepsEdited ==
  ASSUME Edited, Leave
  PROVE  Edited'
<1>1. /\ mounted' = FALSE
      /\ original' = None /\ processed' = None /\ reference' = None
      /\ failed' = FALSE /\ busy' = FALSE
      /\ UNCHANGED <<placement, signature, generation, signing>>
  BY DEF Leave, ClearSeal
<1>2. ASSUME NEW d \in calls'
      PROVE  /\ d \in Calls /\ d.kind # "cutout"
             /\ d.held.method = "seal" /\ Coherent(d.held)
             /\ d.kind # "confirm" => d.left /\ d.generation <= generation
  <2>1. PICK c \in calls : c.kind # "cutout" /\ d = [c EXCEPT !.left = TRUE]
    BY DEF Leave
  <2>2. c \in SealCall \/ c \in Confirmation
    BY <2>1, CallKinds DEF Edited, EditorTyped
  <2>3. d \in Calls /\ d.kind = c.kind /\ d.held = c.held
    BY <2>1, <2>2 DEF Calls, SealCall, Confirmation
  <2>4. d.kind # "confirm" => d.left /\ d.generation = c.generation
    BY <2>1, <2>2 DEF SealCall, Confirmation
  <2>5. c.kind # "confirm" => c.generation <= generation
    BY DEF Edited, Followed
  <2>6. c.held.method = "seal" /\ Coherent(c.held)
    BY <2>1 DEF Edited, Coherence, HeldAreSeals
  <2> QED BY <2>1, <2>3, <2>4, <2>5, <2>6
<1>3. EditorTyped'
  BY <1>1, <1>2 DEF Edited, EditorTyped
<1>4. Coherence'
  BY <1>1, <1>2 DEF Edited, Coherence, HeldAreSeals
<1>5. \A d \in calls' : ~ Live(d)'
  BY <1>2 DEF Live
<1>6. Followed' /\ SealIsCurrent'
  BY <1>1, <1>2, <1>5 DEF Followed, SealIsCurrent
<1> QED BY <1>3, <1>4, <1>6 DEF Edited

LEMMA SwitchModeKeepsEdited ==
  ASSUME Edited, NEW method \in {"handwritten", "seal"}, SwitchMode(method),
         Len(loads) \in Nat
  PROVE  Edited'
<1>1. /\ UNCHANGED <<mounted, busy, calls, signing>>
      /\ original' = None /\ processed' = None /\ reference' = None /\ failed' = FALSE
      /\ generation' = generation + 1 /\ generation + Len(loads) < MaxSteps
  BY DEF SwitchMode, ClearSeal, NewerGeneration, Room
<1>2. PICK p \in Placement : Coherent(p) /\ placement' = p /\ signature' = p
  <2>1. placement \in Placement
    BY DEF Edited, EditorTyped
  <2> DEFINE p == [WithoutSeal(placement) EXCEPT !.method = method]
  <2>2. p \in Placement /\ Coherent(p)
    BY <2>1, WithoutSealTyped
  <2>3. placement' = p /\ signature' = p
    BY DEF SwitchMode, Update
  <2> HIDE DEF p
  <2> QED BY <2>2, <2>3
<1>3. generation \in 0 .. MaxSteps /\ generation' \in 0 .. MaxSteps
  BY <1>1, ConstantsAssumption DEF Edited, EditorTyped
<1>4. EditorTyped'
  BY <1>1, <1>2, <1>3 DEF Edited, EditorTyped
<1>5. Coherence'
  BY <1>1, <1>2 DEF Edited, Coherence, HeldAreSeals
<1>6. ASSUME NEW c \in calls, c.kind # "confirm"
      PROVE  c.generation <= generation /\ c.generation \in Nat
  <2>1. c \in SealCall \cup Cutout
    BY <1>6, CallKinds DEF Edited, EditorTyped
  <2> QED BY <1>6, <2>1, ConstantsAssumption DEF Edited, Followed, SealCall, Cutout
<1>7. \A c \in calls : ~ Live(c)'
  BY <1>1, <1>3, <1>6 DEF Live
<1>8. Followed' /\ SealIsCurrent'
  BY <1>1, <1>3, <1>6, <1>7 DEF Followed, SealIsCurrent
<1> QED BY <1>4, <1>5, <1>8 DEF Edited

LEMMA UploadSealKeepsEdited ==
  ASSUME Edited, NEW image \in Images, UploadSeal(image), Len(loads) \in Nat
  PROVE  Edited'
<1> DEFINE r == [kind |-> "read", generation |-> generation + 1, image |-> image,
                 held |-> placement, left |-> FALSE]
<1>1. /\ UNCHANGED <<busy, signing>> /\ mounted' = mounted /\ mounted
      /\ original' = None /\ processed' = None /\ reference' = None /\ failed' = FALSE
      /\ generation' = generation + 1 /\ generation + Len(loads) < MaxSteps
      /\ calls' = calls \cup {r}
  BY DEF UploadSeal, ClearSeal, NewerGeneration, Room
<1>2. PICK p \in Placement : Coherent(p) /\ placement' = p /\ signature' = p
  <2>1. placement \in Placement
    BY DEF Edited, EditorTyped
  <2> DEFINE p == WithoutSeal(placement)
  <2>2. p \in Placement /\ Coherent(p)
    BY <2>1, WithoutSealTyped
  <2>3. placement' = p /\ signature' = p
    BY DEF UploadSeal, Update
  <2> HIDE DEF p
  <2> QED BY <2>2, <2>3
<1>3. generation \in 0 .. MaxSteps /\ generation' \in 0 .. MaxSteps
  BY <1>1, ConstantsAssumption DEF Edited, EditorTyped
<1>4. r \in Calls /\ r.kind = "read" /\ r.held.method = "seal" /\ Coherent(r.held)
      /\ r.generation = generation'
  <2>1. placement \in Placement /\ placement.method = "seal" /\ Coherent(placement)
    BY DEF UploadSeal, Edited, EditorTyped, Coherence
  <2>2. r \in SealCall
    BY <1>1, <1>3, <2>1 DEF SealCall
  <2> QED BY <1>1, <2>1, <2>2 DEF Calls
<1> HIDE DEF r
<1>5. EditorTyped'
  BY <1>1, <1>2, <1>3, <1>4 DEF Edited, EditorTyped
<1>6. Coherence'
  BY <1>1, <1>2, <1>4 DEF Edited, Coherence, HeldAreSeals
<1>7. ASSUME NEW c \in calls, c.kind # "confirm"
      PROVE  c.generation <= generation /\ c.generation \in Nat
  <2>1. c \in SealCall \cup Cutout
    BY <1>7, CallKinds DEF Edited, EditorTyped
  <2> QED BY <1>7, <2>1, ConstantsAssumption DEF Edited, Followed, SealCall, Cutout
<1>8. \A c \in calls : ~ Live(c)'
  BY <1>1, <1>3, <1>7 DEF Live
<1>9. /\ \A c \in calls' : c.kind # "confirm" => c.generation <= generation'
      /\ \A c \in calls' : Live(c)' => c = r
  BY <1>1, <1>3, <1>4, <1>7, <1>8
<1>10. Followed' /\ SealIsCurrent'
  BY <1>1, <1>4, <1>9 DEF Followed, SealIsCurrent
<1> QED BY <1>5, <1>6, <1>10 DEF Edited

\* The file of a live read: nothing is on the screen, and no other call will
\* change that.
LEMMA FileReadKeepsEdited ==
  ASSUME Edited, NEW c \in calls, FileRead(c)
  PROVE  Edited'
<1> DEFINE u == [c EXCEPT !.kind = "upload"]
<1>1. c \in SealCall /\ c.kind = "read"
  BY CallKinds DEF FileRead, Edited, EditorTyped
<1>2. /\ u \in Calls /\ u.kind = "upload" /\ u.held = c.held /\ u.image = c.image
      /\ u.generation = c.generation /\ u.left = c.left
  BY <1>1 DEF Calls, SealCall
<1>3. c.held.method = "seal" /\ Coherent(c.held) /\ c.generation <= generation
  BY <1>1 DEF Edited, Coherence, HeldAreSeals, Followed
<1> HIDE DEF u
<1>4. /\ UNCHANGED <<mounted, placement, signature, processed, reference, failed,
                     generation, signing>>
      /\ calls' \subseteq (calls \ {c}) \cup {u}
      /\ u \in calls' => c.left \/ c.generation = generation \/ u \in calls
  BY DEF FileRead, AnswerThenCall, Answer, Current, u
<1>5. calls' \subseteq Calls /\ HeldAreSeals'
  BY <1>2, <1>3, <1>4 DEF Edited, EditorTyped, Coherence, HeldAreSeals
<1>6. Coherence'
  BY <1>4, <1>5 DEF Edited, Coherence
<1>7. \A d : Live(d)' <=> Live(d)
  BY <1>4 DEF Live
<1>8. CASE ~ c.left /\ Current(c)
  <2>1. original' = c.image /\ busy' = TRUE
    BY <1>8 DEF FileRead
  <2>2. Live(c)
    BY <1>1, <1>8 DEF Live, Current
  <2>3. mounted /\ original = None
    BY <1>1, <2>2 DEF Edited, Followed
  <2>4. processed = None /\ reference = None
    <3>1. \A i \in Images : i # None
      BY ConstantsAssumption
    <3> QED BY <2>3, <3>1 DEF Edited, SealIsCurrent, EditorTyped
  <2>5. ASSUME NEW d \in calls, Live(d)
        PROVE  d = c
    <3>1. CASE d.kind = "read"
      BY <1>1, <2>2, <2>5, <3>1 DEF Edited, Followed
    <3>2. CASE d.kind # "read"
      <4>1. original = d.image
        BY <2>5, <3>2 DEF Edited, Followed
      <4>2. d.image \in Images
        BY CallKinds DEF Edited, EditorTyped
      <4> QED BY <2>3, <4>1, <4>2, ConstantsAssumption
    <3> QED BY <3>1, <3>2
  <2>6. \A d \in calls' : Live(d)' => d = u
    BY <1>4, <1>7, <2>5
  <2>7. Followed'
    BY <1>2, <1>3, <1>4, <2>1, <2>3, <2>6 DEF Edited, Followed
  <2>8. SealIsCurrent'
    BY <1>4, <2>4 DEF SealIsCurrent
  <2>9. EditorTyped'
    BY <1>1, <1>4, <1>5, <2>1 DEF Edited, EditorTyped, SealCall
  <2> QED BY <1>6, <2>7, <2>8, <2>9 DEF Edited
<1>9. CASE ~ (~ c.left /\ Current(c))
  <2>1. original' = original /\ busy' = busy
    BY <1>9 DEF FileRead
  <2>2. \A d \in calls' : Live(d)' => d \in calls
    <3>1. CASE c.left
      <4>1. ~ Live(u)
        BY <1>2, <3>1 DEF Live
      <4> QED BY <1>4, <1>7, <4>1
    <3>2. CASE ~ c.left
      <4>1. ~ Current(c)
        BY <1>9, <3>2
      <4> QED BY <1>4, <3>2, <4>1 DEF Current
    <3> QED BY <3>1, <3>2
  <2>3. \A d \in calls' : d.kind # "confirm" => d.generation <= generation'
    BY <1>2, <1>3, <1>4 DEF Edited, Followed
  <2>4. Followed'
    BY <1>4, <1>7, <2>1, <2>2, <2>3 DEF Edited, Followed
  <2>5. SealIsCurrent'
    BY <1>4, <2>1 DEF Edited, SealIsCurrent
  <2>6. EditorTyped'
    BY <1>4, <1>5, <2>1 DEF Edited, EditorTyped
  <2> QED BY <1>6, <2>4, <2>5, <2>6 DEF Edited
<1> QED BY <1>8, <1>9

\* The calls that follow are for the seal on the screen.
LEMMA OriginalStoredKeepsEdited ==
  ASSUME Edited, NEW c \in calls, OriginalStored(c)
  PROVE  Edited'
<1> DEFINE p == [c.held EXCEPT !.original = c.image]
           k == CutoutCall(c.image, TRUE)
<1>1. /\ c \in SealCall /\ c.kind = "upload" /\ ~ c.left /\ Current(c)
      /\ c.image \in Images
  BY CallKinds DEF OriginalStored, Edited, EditorTyped
<1>2. mounted /\ original = c.image
  BY <1>1 DEF Edited, Followed, Live, Current
<1>3. p \in Placement /\ Coherent(p)
  <2>1. c.held \in Placement /\ c.held.method = "seal" /\ Coherent(c.held)
    BY <1>1 DEF SealCall, Edited, Coherence, HeldAreSeals
  <2> QED BY <1>1, <2>1, OriginalOfTyped
<1>4. /\ placement' = p /\ signature' = p /\ reference' = c.image
      /\ processed' = None /\ failed' = FALSE /\ calls' = (calls \ {c}) \cup {k}
      /\ UNCHANGED <<mounted, original, busy, generation, signing>>
  BY DEF OriginalStored, Update, AnswerThenCall
<1>5. /\ k \in Calls /\ k.kind = "cutout" /\ k.image = c.image
      /\ k.generation = generation
  BY <1>1 DEF CutoutCall, Calls, Cutout, Edited, EditorTyped
<1> HIDE DEF p, k
<1>6. EditorTyped'
  BY <1>1, <1>3, <1>4, <1>5 DEF Edited, EditorTyped
<1>7. Coherence'
  BY <1>3, <1>4, <1>5 DEF Edited, Coherence, HeldAreSeals
<1>8. \A d : Live(d)' <=> Live(d)
  BY <1>4 DEF Live
<1>9. generation \in Int
  BY DEF Edited, EditorTyped
<1>10. Followed'
  BY <1>2, <1>4, <1>5, <1>8, <1>9 DEF Edited, Followed
<1>11. SealIsCurrent'
  BY <1>2, <1>4 DEF SealIsCurrent
<1> QED BY <1>6, <1>7, <1>10, <1>11 DEF Edited

LEMMA CutoutDoneKeepsEdited ==
  ASSUME Edited, NEW c \in calls, CutoutDone(c)
  PROVE  Edited'
<1>1. c \in Cutout /\ c.kind = "cutout" /\ c.generation = generation /\ c.image \in Images
  BY CallKinds DEF CutoutDone, Current, Edited, EditorTyped
<1>2. original = c.image
  BY <1>1 DEF Edited, Followed, Live
<1>3. /\ processed' = c.image /\ busy' = (busy /\ ~ c.first) /\ calls' = calls \ {c}
      /\ UNCHANGED <<mounted, placement, signature, original, reference, failed,
                     generation, signing>>
  BY DEF CutoutDone, Answer
<1>4. busy' \in BOOLEAN
  BY <1>3
<1>5. EditorTyped'
  BY <1>1, <1>3, <1>4 DEF Edited, EditorTyped
<1>6. Coherence'
  BY <1>3 DEF Edited, Coherence, HeldAreSeals
<1>7. \A d : Live(d)' <=> Live(d)
  BY <1>3 DEF Live
<1>8. Followed'
  BY <1>3, <1>7 DEF Edited, Followed
<1>9. SealIsCurrent'
  BY <1>2, <1>3 DEF Edited, SealIsCurrent
<1> QED BY <1>5, <1>6, <1>8, <1>9 DEF Edited

LEMMA ButtonsKeepEdited ==
  ASSUME Edited, RetryCutout \/ ConfirmProcessed
  PROVE  Edited'
<1>1. /\ mounted /\ placement.method = "seal" /\ original \in Images
      /\ UNCHANGED <<mounted, placement, signature, original, reference,
                     generation, signing>>
      /\ processed' \in {processed, None}
  BY DEF RetryCutout, ConfirmProcessed, Buttons, Edited, EditorTyped
<1>2. failed' \in BOOLEAN /\ busy' \in BOOLEAN
  BY DEF RetryCutout, ConfirmProcessed, Edited, EditorTyped
<1>3. PICK k \in Calls :
        /\ calls' = calls \cup {k}
        /\ k.kind # "cutout" => k.kind = "confirm" /\ k.held = placement
        /\ k.kind = "cutout" => k.image = original /\ k.generation = generation
  <2>1. CASE RetryCutout
    <3> DEFINE k == CutoutCall(original, FALSE)
    <3>1. k \in Calls /\ k.kind = "cutout" /\ k.image = original
          /\ k.generation = generation
      BY <1>1 DEF CutoutCall, Calls, Cutout, Edited, EditorTyped
    <3>2. calls' = calls \cup {k}
      BY <2>1 DEF RetryCutout
    <3> HIDE DEF k
    <3> QED BY <3>1, <3>2
  <2>2. CASE ConfirmProcessed
    <3> DEFINE k == [kind |-> "confirm", image |-> processed, original |-> reference,
                     held |-> placement, left |-> FALSE]
    <3>1. processed \in Images /\ reference \in Images /\ placement \in Placement
      BY <2>2 DEF ConfirmProcessed, Edited, EditorTyped
    <3>2. k \in Calls /\ k.kind = "confirm" /\ k.held = placement
      BY <3>1 DEF Calls, Confirmation
    <3>3. calls' = calls \cup {k}
      BY <2>2 DEF ConfirmProcessed
    <3> HIDE DEF k
    <3> QED BY <3>2, <3>3
  <2> QED BY <2>1, <2>2
<1>4. EditorTyped'
  BY <1>1, <1>2, <1>3 DEF Edited, EditorTyped
<1>5. Coherence'
  BY <1>1, <1>3 DEF Edited, Coherence, HeldAreSeals
<1>6. \A d : Live(d)' <=> Live(d)
  BY <1>1 DEF Live
<1>7. k.kind = "confirm" => ~ Live(k)
  BY DEF Live
<1>8. generation \in Int
  BY DEF Edited, EditorTyped
<1>9. Followed'
  <2>1. \A d \in calls' : d.kind # "confirm" => d.generation <= generation'
    BY <1>1, <1>3, <1>8 DEF Edited, Followed
  <2>2. \A d \in calls' : Live(d)' =>
          /\ mounted'
          /\ IF d.kind = "read" THEN original' = None ELSE original' = d.image
    BY <1>1, <1>3, <1>6, <1>7 DEF Edited, Followed
  <2>3. k.kind # "read"
    BY <1>3
  <2>4. \A c, d \in calls' :
          Live(c)' /\ Live(d)' /\ c.kind = "read" /\ d.kind = "read" => c = d
    BY <1>3, <1>6, <2>3 DEF Edited, Followed
  <2> QED BY <2>1, <2>2, <2>4 DEF Followed
<1>10. SealIsCurrent'
  BY <1>1 DEF Edited, SealIsCurrent
<1> QED BY <1>4, <1>5, <1>9, <1>10 DEF Edited

LEMMA SignKeepsEdited ==
  ASSUME Edited, Sign
  PROVE  Edited'
<1>1. /\ UNCHANGED <<mounted, placement, signature, original, processed, reference>>
      /\ UNCHANGED <<failed, busy, generation, calls>>
      /\ signing' = CommandOf(signature) /\ signature.resource # None
  BY DEF Sign, seal
<1>2. signature \in Placement /\ Coherent(signature)
  BY DEF Edited, EditorTyped, Coherence
<1>3. ResourceOf(signature) \in Resource
  <2>1. CASE signature.row # None
    BY <1>2, <2>1 DEF ResourceOf, Placement
  <2>2. CASE signature.row = None
    <3>1. signature.method = "handwritten"
      BY <1>1, <1>2, <2>2 DEF Coherent, Placement
    <3>2. signature.resource = [purpose |-> "HANDWRITTEN", image |-> None]
      BY <1>1, <1>2, <3>1 DEF Coherent
    <3> QED BY <2>2, <3>1, <3>2 DEF ResourceOf, Resource
  <2> QED BY <2>1, <2>2
<1>4. MapPlacementToSlots(signature) \subseteq Position
  BY <1>2, PositionsValid
<1>5. CommandOf(signature) \in Command
  <2> DEFINE mode == IF signature.method = "handwritten" THEN "HANDWRITTEN" ELSE "SEAL"
             of == IF signature.method = "seal" THEN signature.original ELSE None
  <2>1. mode \in {"HANDWRITTEN", "SEAL"} /\ of \in Images \cup {None}
    BY <1>2 DEF Placement
  <2>2. CommandOf(signature) =
          [mode |-> mode, resource |-> ResourceOf(signature), original |-> of,
           positions |-> MapPlacementToSlots(signature)]
    BY DEF CommandOf
  <2> HIDE DEF mode, of
  <2> QED BY <1>3, <1>4, <2>1, <2>2 DEF Command
<1>6. EditorTyped'
  BY <1>1, <1>5 DEF Edited, EditorTyped
<1>7. HeldAreSeals' /\ Followed' /\ SealIsCurrent'
  BY <1>1, FewerCalls
<1>8. Coherence'
  BY <1>1, <1>7 DEF Edited, Coherence
<1> QED BY <1>6, <1>7, <1>8 DEF Edited

\* Steps of the viewer.
LEMMA StutterKeepsEdited ==
  ASSUME Edited, UNCHANGED <<mounted, placement, signature, seal, generation, calls, signing>>
  PROVE  Edited'
<1>1. /\ UNCHANGED <<mounted, placement, signature, original, processed, reference>>
      /\ UNCHANGED <<failed, busy, generation, calls, signing>>
  BY DEF seal
<1>2. EditorTyped'
  BY <1>1 DEF Edited, EditorTyped
<1>3. HeldAreSeals' /\ Followed' /\ SealIsCurrent'
  BY <1>1, FewerCalls
<1>4. Coherence'
  BY <1>1, <1>3 DEF Edited, Coherence
<1> QED BY <1>2, <1>3, <1>4 DEF Edited

-----------------------------------------------------------------------------
(* The theorems *)

LEMMA TypeParts == Edited /\ Viewed => TypeOK
<1> SUFFICES ASSUME Edited, Viewed
             PROVE  TypeOK
  OBVIOUS
<1>1. \E n \in 0 .. MaxSteps : loads \in [1 .. n -> Phase] /\ document \in 0 .. n
  BY LenProperties DEF Viewed, ViewerTyped
<1> QED BY <1>1 DEF Edited, EditorTyped, Viewed, ViewerTyped, TypeOK, Calls

LEMMA InitIInv == Init => IInv
<1> SUFFICES ASSUME Init
             PROVE  IInv
  OBVIOUS
<1>1. placement \in Placement /\ Coherent(placement) /\ signature = placement
  BY DEF Init, Placement, Coherent
<1>2. EditorTyped
  <2>1. 0 \in 0 .. MaxSteps
    BY ConstantsAssumption
  <2>2. calls \subseteq Calls
    BY DEF Init
  <2> QED BY <1>1, <2>1, <2>2 DEF Init, EditorTyped
<1>3. Coherence /\ Followed /\ SealIsCurrent
  BY <1>1 DEF Init, Coherence, HeldAreSeals, Followed, SealIsCurrent
<1>4. loads \in Seq(Phase) /\ Len(loads) = 0 /\ DOMAIN loads = {}
  BY EmptySeq DEF Init
<1>5. ViewerTyped
  <2>1. 1 \in 1 .. PageCount
    BY PagesSuffice
  <2>2. Len(loads) \in 0 .. MaxSteps /\ document \in 0 .. Len(loads)
    BY <1>4, ConstantsAssumption DEF Init
  <2> QED BY <1>4, <2>1, <2>2 DEF Init, ViewerTyped
<1>6. NewestGoesOn /\ DocumentIsCurrent
  BY <1>4 DEF Init, NewestGoesOn, DocumentIsCurrent
<1> QED BY <1>2, <1>3, <1>5, <1>6 DEF IInv, Edited, Viewed

LEMMA NextIInv == IInv /\ [Next]_vars => IInv'
<1> SUFFICES ASSUME IInv, [Next]_vars
             PROVE  Edited' /\ Viewed'
  BY DEF IInv
<1>1. Edited /\ Viewed /\ generation \in Nat /\ Len(loads) \in Nat
  BY DEF IInv, Edited, EditorTyped, Viewed, ViewerTyped
<1>2. CASE Enter
  <2>1. Viewed'
    <3>1. mounted'
      BY <1>2 DEF Enter
    <3> QED BY <1>1, <1>2, <3>1, LoadKeepsViewed, QuietKeepsViewed DEF Enter
  <2> QED BY <1>1, <1>2, <2>1, EnterKeepsEdited
<1>3. CASE Leave
  BY <1>1, <1>3, LeaveKeepsEdited, LeaveKeepsViewed
<1>4. CASE ShowPreview
  <2>1. mounted' /\ Load
    BY <1>4 DEF ShowPreview
  <2>2. UNCHANGED <<mounted, placement, signature, seal, generation, calls, signing>>
    BY <1>4 DEF ShowPreview
  <2> QED BY <1>1, <2>1, <2>2, LoadKeepsViewed, StutterKeepsEdited
<1>5. ASSUME NEW i \in DOMAIN loads, Import(i) \/ Open(i) \/ LoadFails(i)
      PROVE  Edited' /\ Viewed'
  <2>1. PICK phase \in {"loading", "open", "failed"} :
          loads[i] \in {"importing", "loading"} /\ LoadGoesOn(i, phase)
    BY <1>5 DEF Import, Open, LoadFails
  <2>2. UNCHANGED <<mounted, placement, signature, seal, generation, calls, signing>>
    BY <2>1 DEF LoadGoesOn
  <2> QED BY <1>1, <2>1, <2>2, LoadGoesOnKeepsViewed, StutterKeepsEdited
<1>6. CASE PageFails \/ \E n \in 1 .. PageCount : TurnPage(n)
  <2>1. UNCHANGED <<mounted, placement, signature, seal, generation, calls, signing>>
    BY <1>6 DEF PageFails, TurnPage
  <2> QED BY <1>1, <1>6, <2>1, PagesKeepViewed, StutterKeepsEdited
<1>7. ASSUME NEW method \in {"handwritten", "seal"}, SwitchMode(method)
      PROVE  Edited' /\ Viewed'
  <2>1. UNCHANGED viewer /\ mounted' = mounted
    BY <1>7 DEF SwitchMode
  <2> QED BY <1>1, <1>7, <2>1, SwitchModeKeepsEdited, QuietKeepsViewed
<1>8. ASSUME NEW image \in Images, UploadSeal(image)
      PROVE  Edited' /\ Viewed'
  <2>1. UNCHANGED viewer /\ mounted' = mounted
    BY <1>8 DEF UploadSeal
  <2> QED BY <1>1, <1>8, <2>1, UploadSealKeepsEdited, QuietKeepsViewed
<1>9. CASE \/ \E drawn \in BOOLEAN : Draw(drawn)
           \/ \E x \in Sliders : Slide(x)
           \/ \E scale \in Scales : Resize(scale)
           \/ ConfirmOriginal
  <2>1. UNCHANGED viewer /\ mounted' = mounted
    BY <1>9 DEF Draw, Slide, Resize, ConfirmOriginal
  <2> QED BY <1>1, <1>9, <2>1, PlacementsKeepEdited, QuietKeepsViewed
<1>10. CASE RetryCutout \/ ConfirmProcessed
  <2>1. UNCHANGED viewer /\ mounted' = mounted
    BY <1>10 DEF RetryCutout, ConfirmProcessed
  <2> QED BY <1>1, <1>10, <2>1, ButtonsKeepEdited, QuietKeepsViewed
<1>11. ASSUME NEW c \in calls, Arrives(c)
       PROVE  Edited' /\ Viewed'
  <2>1. UNCHANGED viewer /\ mounted' = mounted
    BY <1>11 DEF Arrives, FileRead, OriginalStored, OriginalStoredLate, OriginalFails,
         Ignored, CutoutDone, CutoutFails, ProcessedStored, ProcessedFails
  <2>2. Edited'
    BY <1>1, <1>11, FileReadKeepsEdited, OriginalStoredKeepsEdited, CutoutDoneKeepsEdited,
       LateSealsKeepEdited, QuietAnswersKeepEdited DEF Arrives
  <2> QED BY <1>1, <2>1, <2>2, QuietKeepsViewed
<1>12. CASE Sign
  <2>1. UNCHANGED viewer /\ mounted' = mounted
    BY <1>12 DEF Sign
  <2> QED BY <1>1, <1>12, <2>1, SignKeepsEdited, QuietKeepsViewed
<1>13. CASE UNCHANGED vars
  <2>1. /\ UNCHANGED viewer /\ mounted' = mounted
        /\ UNCHANGED <<mounted, placement, signature, seal, generation, calls, signing>>
    BY <1>13 DEF vars
  <2> QED BY <1>1, <2>1, StutterKeepsEdited, QuietKeepsViewed
<1> QED BY <1>2, <1>3, <1>4, <1>5, <1>6, <1>7, <1>8, <1>9, <1>10, <1>11, <1>12, <1>13
        DEF Next

\* The editor, the calls on their way, what was signed and the viewer keep their
\* types, for every template that can be published.
THEOREM TypeCorrect == Spec => []TypeOK
<1>1. IInv => TypeOK
  BY TypeParts DEF IInv
<1> QED BY <1>1, InitIInv, NextIInv, PTL DEF Spec

\* useSealEditor's generation and PdfPreview's clean-up: whatever answers late, the
\* screen shows one seal and one PDF, and on it what will be signed.
THEOREM ScreenIsCurrentHolds == Spec => []ScreenIsCurrent
<1>1. ASSUME IInv
      PROVE  ScreenIsCurrent
  <2>1. ASSUME PagesAreShown, signature.resource # None, NEW n \in VisiblePages,
               NEW q \in PdfRenderDocument(MapPlacementToSlots(signature))[n].signed
        PROVE  q \in Overlays /\ q.page = n
    <3>1. n \in 1 .. PageCount
      BY DEF VisiblePages
    <3>2. q \in MapPlacementToSlots(signature) /\ q.page = n
      BY <2>1, <3>1, SignedOnPage
    <3> QED BY <2>1, <3>2 DEF Overlays
  <2>2. SignatureIsShown
    BY <2>1 DEF SignatureIsShown
  <2> QED BY <1>1, <2>2 DEF IInv, Edited, Viewed, ScreenIsCurrent
<1> QED BY <1>1, InitIInv, NextIInv, PTL DEF Spec

\* mapPlacementToSlots, validateSigningCommand, renderFinal and inspectDb: each slot
\* of any published template is filled by a handwriting so that all three tests
\* pass, and the final document shows it in the slots of the top.
THEOREM HandwritingIsAcceptedHolds == Spec => []HandwritingIsAccepted
<1>1. ASSUME IInv
      PROVE  HandwritingIsAccepted
  <2> SUFFICES ASSUME signature.method = "handwritten", signature.resource # None
               PROVE  /\ Accepts(CommandOf(signature))
                      /\ Renders(MapPlacementToSlots(signature))
                      /\ PlacementsValid(MapPlacementToSlots(signature))
                      /\ \A s \in Required \cap LiftedSlots :
                           \E q \in PdfRenderDocument(MapPlacementToSlots(signature))
                                      [s.page].signed : InSlot(q, s)
    BY DEF HandwritingIsAccepted
  <2>1. signature \in Placement /\ Coherent(signature)
    BY <1>1 DEF IInv, Edited, EditorTyped, Coherence
  <2>2. /\ ValidPositions(MapPlacementToSlots(signature))
        /\ Renders(MapPlacementToSlots(signature))
        /\ PlacementsValid(MapPlacementToSlots(signature))
    BY <2>1, PositionsValid
  <2>3. /\ CommandOf(signature).mode = "HANDWRITTEN"
        /\ CommandOf(signature).original = None
        /\ CommandOf(signature).resource = ResourceOf(signature)
        /\ CommandOf(signature).positions = MapPlacementToSlots(signature)
    BY DEF CommandOf
  <2>4. ResourceOf(signature).purpose = "HANDWRITTEN"
    BY <2>1 DEF Coherent, ResourceOf
  <2>5. Accepts(CommandOf(signature))
    BY <2>2, <2>3, <2>4 DEF Accepts, ValidBinding
  <2> QED BY <2>1, <2>2, <2>5, LiftedIsSigned
<1> QED BY <1>1, InitIInv, NextIInv, PTL DEF Spec
=============================================================================
