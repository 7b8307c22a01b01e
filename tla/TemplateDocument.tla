--------------------------- MODULE TemplateDocument ---------------------------
(***************************************************************************)
(* A template's page tree and the PDF that is made of it.  A tree is read by *)
(* four parts of the system, each with a traversal of its own: publishing    *)
(* counts its pages and slots, the API takes the slots a signing must fill   *)
(* wherever they stand, the worker looks for them again before it renders,   *)
(* and the renderer cuts the top of the tree into pages.                     *)
(*                                                                         *)
(* Trees are modelled to one level of nesting, a deeper one is read alike,   *)
(* and a table's rows and cells are one sequence.  Text, styles, headers and *)
(* footers, which cannot hold a slot or a break, are left out.               *)
(***************************************************************************)
EXTENDS Integers, Sequences, FiniteSets, FiniteSetsExt

CONSTANT Template  \* TemplateAst.children of a published version

PageWidth == 595

-----------------------------------------------------------------------------
(* Nodes *)

\* The node of a slot of party A, in whole pixels.
Slot == [type : {"signatureSlot"}, slotId : STRING, page : Nat \ {0}, x : Nat,
         width : Nat \ {0}, required : BOOLEAN]

Leaf == [type : {"text", "variable", "image", "loopTable", "pageBreak"}] \cup Slot
Container == [type : {"heading", "paragraph", "table"}, children : Seq(Leaf)]
TemplateNode == Leaf \cup Container

IsContainer(node) == node.type \in {"heading", "paragraph", "table"}

\* Every place of the tree: <<i, 0>> for a node of the top, <<i, j>> for the
\* j-th child of the i-th.
Places ==
  ((DOMAIN Template) \X {0})
    \cup UNION {{i} \X (DOMAIN Template[i].children) :
                i \in {n \in DOMAIN Template : IsContainer(Template[n])}}

NodeAt(place) ==
  IF place[2] = 0 THEN Template[place[1]]
  ELSE Template[place[1]].children[place[2]]

PlacesOf(type) == {p \in Places : NodeAt(p).type = type}

\* signatureSlots(): wherever they stand.
Slots == {NodeAt(p) : p \in PlacesOf("signatureSlot")}
Required == {s \in Slots : s.required}

\* What publishing asks of the slots: validateTemplateForPublish.
SlotsArePublishable ==
  /\ \A p, q \in PlacesOf("signatureSlot") : NodeAt(p).slotId = NodeAt(q).slotId => p = q
  /\ \A s \in Slots :
       /\ s.x + s.width <= PageWidth
       /\ s.page <= 1 + Cardinality(PlacesOf("pageBreak"))
  /\ Required # {}

ASSUME TemplateAssumption ==
  /\ Template \in Seq(TemplateNode)
  /\ SlotsArePublishable

-----------------------------------------------------------------------------
(* buildPdfRenderDocument *)

\* Breaks and slots of the top are taken out of the text; a break inside a
\* paragraph or a table does not begin a page.
Breaks == {i \in DOMAIN Template : Template[i].type = "pageBreak"}
LiftedSlots == {s \in Slots : \E i \in DOMAIN Template : Template[i] = s}

\* Pages are added for slots that stand behind the last break.
PageCount == Max({1 + Cardinality(Breaks)} \cup {s.page : s \in LiftedSlots})

PageOf(i) == 1 + Cardinality({j \in Breaks : j < i})

\* The slots in what is written on a page: drawn as empty boxes.
WrittenSlots(n) ==
  {s \in Slots : \E p \in PlacesOf("signatureSlot") :
     p[2] > 0 /\ PageOf(p[1]) = n /\ NodeAt(p) = s}

\* The document with the given pictures over its slots: what each page shows
\* signed, and what it shows as the box of a slot that is to be signed.
PdfRenderDocument(overlays) ==
  [n \in 1 .. PageCount |->
     LET lifted == {s \in LiftedSlots : s.page = n}
         over(s) == {q \in overlays : q.slotId = s.slotId} IN
     [signed |-> UNION {over(s) : s \in lifted},
      boxes |-> {s \in lifted : over(s) = {}} \cup WrittenSlots(n)]]
=============================================================================
