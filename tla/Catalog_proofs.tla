---------------------------- MODULE Catalog_proofs ----------------------------
(***************************************************************************)
(* Proofs about Catalog for all sets of requirements, templates, definitions *)
(* and administrators and all bounds: types, one draft at most and that the  *)
(* newest, published templates that stay complete, and cases that ask for    *)
(* the letter and never change.                                             *)
(*                                                                         *)
(* The argument: whatever the step, a row that is no draft keeps its content *)
(* (RequirementsFollow, TemplatesFollow), and a template becomes published   *)
(* only if it is complete over published sources.  All else follows from     *)
(* these two facts, without another look at the actions.                    *)
(***************************************************************************)
EXTENDS Catalog, SequenceTheorems, TLAPS

-----------------------------------------------------------------------------
(* The inductive invariant *)

\* What a case, or the request that creates it, was made of.
Backed(c) ==
  /\ c.template \in TemplateVersions
  /\ TemplateRow(c.template).status # "DRAFT"
  /\ c.snapshot \subseteq TemplateRow(c.template).content.sources
  /\ \A s \in TemplateRow(c.template).content.sources :
       s[1] = Authorization => s \in c.snapshot

CasesBacked == \A c \in cases : Backed(c)

\* Versions are never removed: what a request has read is still there.
Sound(request) ==
  /\ request.kind \in {"create", "save", "rename"} =>
       request.content.sources \subseteq RequirementVersions
  /\ request.kind = "case" => Backed(request.made)

RequestsSound == \A a \in Admins : Sound(requests[a])

IInv ==
  TypeOK /\ DraftIsNewest /\ PublishedStaysComplete /\ CasesBacked
    /\ RequestsSound

-----------------------------------------------------------------------------
(* How a step changes the versions of one key *)

\* Versions are added at the end, a version that is no draft keeps its
\* definition and stays none, and if only the last was a draft, only the last is.
RequirementsFollow(old, new) ==
  /\ new \in Seq(RequirementVersion)
  /\ Len(old) <= Len(new) /\ Len(new) <= MaxVersions
  /\ \A n \in 1 .. Len(old) :
       old[n].status # "DRAFT" =>
         new[n].status # "DRAFT" /\ new[n].definition = old[n].definition
  /\ (\A n \in 1 .. Len(old) : old[n].status = "DRAFT" => n = Len(old)) =>
       \A n \in 1 .. Len(new) : new[n].status = "DRAFT" => n = Len(new)

TemplatesFollow(old, new) ==
  /\ new \in Seq(TemplateVersion)
  /\ Len(old) <= Len(new) /\ Len(new) <= MaxVersions
  /\ \A n \in 1 .. Len(old) :
       old[n].status # "DRAFT" =>
         new[n].status # "DRAFT" /\ new[n].content = old[n].content
  /\ (\A n \in 1 .. Len(old) : old[n].status = "DRAFT" => n = Len(old)) =>
       \A n \in 1 .. Len(new) : new[n].status = "DRAFT" => n = Len(new)

\* A template version that is no draft after a step was none before, or was
\* published by the step.
Published(old, new) ==
  \A n \in 1 .. Len(new) :
    new[n].status # "DRAFT" =>
      /\ n <= Len(old)
      /\ new[n].content = old[n].content
      /\ old[n].status # "DRAFT"
           \/ (Publishable(old[n].content) /\ UNCHANGED requirements)

\* The sources of a new or edited draft were read by the request that writes it.
SourcesKnown(old, new) ==
  \A n \in 1 .. Len(new) :
    \/ n <= Len(old) /\ new[n].content.sources = old[n].content.sources
    \/ \E a \in Admins :
         /\ requests[a].kind \in {"create", "save", "rename"}
         /\ new[n].content.sources = requests[a].content.sources

-----------------------------------------------------------------------------
(* Requirements *)

\* One key's rows change and the others stay.
LEMMA RequirementsTyped ==
  ASSUME TypeOK, NEW key \in Requirements
  PROVE  /\ requirements[key] \in Seq(RequirementVersion)
         /\ Len(requirements[key]) \in Nat
         /\ Len(requirements[key]) <= MaxVersions
         /\ MaxVersions \in Nat
         /\ \A n \in 1 .. Len(requirements[key]) :
              requirements[key][n] \in RequirementVersion
BY ConstantsAssumption, LenProperties, ElementOfSeq DEF TypeOK

LEMMA UnchangedFollows ==
  ASSUME TypeOK, NEW key \in Requirements
  PROVE  RequirementsFollow(requirements[key], requirements[key])
BY RequirementsTyped DEF RequirementsFollow

\* Replacing a row that is a draft by the same row published or by a draft, or
\* a published row by itself disabled.
LEMMA ReplacedFollows ==
  ASSUME TypeOK, NEW key \in Requirements,
         NEW n \in 1 .. Len(requirements[key]),
         NEW row \in RequirementVersion,
         requirements[key][n].status # "DRAFT" =>
           /\ row.status # "DRAFT"
           /\ row.definition = requirements[key][n].definition
  PROVE  RequirementsFollow(requirements[key],
                            [requirements[key] EXCEPT ![n] = row])
<1> DEFINE old == requirements[key]
<1> DEFINE new == [old EXCEPT ![n] = row]
<1>1. old \in Seq(RequirementVersion) /\ Len(old) \in Nat
        /\ Len(old) <= MaxVersions
  BY RequirementsTyped
<1>2. /\ new \in Seq(RequirementVersion)
      /\ Len(new) = Len(old)
      /\ \A j \in 1 .. Len(old) : new[j] = IF j = n THEN row ELSE old[j]
  BY <1>1, ExceptSeq
<1>3. \A j \in 1 .. Len(old) :
        old[j].status # "DRAFT" =>
          new[j].status # "DRAFT" /\ new[j].definition = old[j].definition
  BY <1>2
<1>4. \A j \in 1 .. Len(old) : new[j].status = "DRAFT" => old[j].status = "DRAFT"
  BY <1>2
<1> HIDE DEF old, new
<1> QED
  BY <1>1, <1>2, <1>3, <1>4 DEF RequirementsFollow, old, new

\* Adding a draft after a row that is none.
LEMMA AppendedFollows ==
  ASSUME TypeOK, NEW key \in Requirements,
         NEW row \in RequirementVersion,
         Len(requirements[key]) < MaxVersions,
         requirements[key] = <<>>
           \/ requirements[key][Len(requirements[key])].status # "DRAFT"
  PROVE  RequirementsFollow(requirements[key], Append(requirements[key], row))
<1> DEFINE old == requirements[key]
<1> DEFINE new == Append(old, row)
<1>1. old \in Seq(RequirementVersion) /\ Len(old) \in Nat /\ MaxVersions \in Nat
  BY RequirementsTyped
<1>2. /\ new \in Seq(RequirementVersion)
      /\ Len(new) = Len(old) + 1
      /\ \A j \in 1 .. Len(old) : new[j] = old[j]
  BY <1>1, AppendProperties
<1>3. (\A j \in 1 .. Len(old) : old[j].status = "DRAFT" => j = Len(old)) =>
        \A j \in 1 .. Len(old) : old[j].status # "DRAFT"
  BY <1>1, EmptySeq
<1> HIDE DEF old, new
<1> QED
  BY <1>1, <1>2, <1>3 DEF RequirementsFollow, old, new

\* One key of the table changes to rows that follow, or none does.
LEMMA OneKeyFollows ==
  ASSUME TypeOK, NEW key \in Requirements, NEW new,
         RequirementsFollow(requirements[key], new),
         requirements' = [requirements EXCEPT ![key] = new]
  PROVE  /\ requirements' \in [Requirements -> Seq(RequirementVersion)]
         /\ \A k \in Requirements :
              RequirementsFollow(requirements[k], requirements'[k])
<1>1. requirements \in [Requirements -> Seq(RequirementVersion)]
  BY DEF TypeOK
<1>2. new \in Seq(RequirementVersion)
  BY DEF RequirementsFollow
<1>3. \A k \in Requirements :
        requirements'[k] = IF k = key THEN new ELSE requirements[k]
  BY <1>1
<1>4. \A k \in Requirements : RequirementsFollow(requirements[k], requirements[k])
  BY UnchangedFollows
<1> QED
  BY <1>1, <1>2, <1>3, <1>4

LEMMA UnchangedRequirements ==
  ASSUME TypeOK, UNCHANGED requirements
  PROVE  /\ requirements' \in [Requirements -> Seq(RequirementVersion)]
         /\ \A k \in Requirements :
              RequirementsFollow(requirements[k], requirements'[k])
BY UnchangedFollows DEF TypeOK

\* A change of one row's status that is no return to a draft.
LEMMA StatusFollows ==
  ASSUME TypeOK, NEW v \in RequirementVersions,
         NEW status \in {"PUBLISHED", "DISABLED"},
         requirements' = RequirementWithStatus(v, status)
  PROVE  /\ requirements' \in [Requirements -> Seq(RequirementVersion)]
         /\ \A k \in Requirements :
              RequirementsFollow(requirements[k], requirements'[k])
<1> DEFINE row == [requirements[v[1]][v[2]] EXCEPT !.status = status]
<1> DEFINE new == [requirements[v[1]] EXCEPT ![v[2]] = row]
<1>1. v[1] \in Requirements /\ v[2] \in 1 .. Len(requirements[v[1]])
  BY RequirementsTyped, ConstantsAssumption
     DEF RequirementVersions, RequirementVersionId
<1>2. requirements[v[1]][v[2]] \in RequirementVersion
  BY <1>1, RequirementsTyped
<1>3. /\ row \in RequirementVersion
      /\ row.status # "DRAFT"
      /\ row.definition = requirements[v[1]][v[2]].definition
  BY <1>2 DEF RequirementVersion, VersionStatus
<1>4. requirements' = [requirements EXCEPT ![v[1]] = new]
  BY DEF RequirementWithStatus
<1> HIDE DEF row
<1>5. RequirementsFollow(requirements[v[1]], new)
  BY <1>1, <1>3, ReplacedFollows
<1> HIDE DEF new
<1> QED
  BY <1>1, <1>4, <1>5, OneKeyFollows

\* The kind of a request tells its fields.
LEMMA RequestKinds ==
  ASSUME TypeOK, NEW a \in Admins
  PROVE  /\ requests[a].kind = "requirement" => requests[a] \in RequirementSave
         /\ requests[a].kind \in {"create", "save", "rename"} =>
              requests[a] \in TemplateWrite
         /\ requests[a].kind = "case" => requests[a] \in CaseCreation
         /\ requests[a] = Idle => requests[a].kind = "idle"
<1>1. requests[a] \in {Idle} \cup RequirementSave \cup TemplateWrite \cup CaseCreation
  BY DEF TypeOK, Request
<1>2. Idle.kind = "idle"
  BY DEF Idle
<1>3. \A r \in RequirementSave : r.kind = "requirement"
  BY DEF RequirementSave
<1>4. \A r \in TemplateWrite : r.kind \in {"create", "save", "rename"}
  BY DEF TemplateWrite
<1>5. \A r \in CaseCreation : r.kind = "case"
  BY DEF CaseCreation
<1> QED
  BY <1>1, <1>2, <1>3, <1>4, <1>5

\* Whatever the step, the versions of every requirement follow the earlier ones.
LEMMA RequirementsStep ==
  ASSUME TypeOK, RequestStep
  PROVE  /\ requirements' \in [Requirements -> Seq(RequirementVersion)]
         /\ \A k \in Requirements :
              RequirementsFollow(requirements[k], requirements'[k])
<1>1. ASSUME NEW key \in Requirements, NEW definition \in Definitions,
             CreateRequirement(key, definition)
      PROVE  /\ requirements' \in [Requirements -> Seq(RequirementVersion)]
             /\ \A k \in Requirements :
                  RequirementsFollow(requirements[k], requirements'[k])
  <2>1. NewDraft(definition) \in RequirementVersion
    BY <1>1, ConstantsAssumption DEF NewDraft, RequirementVersion, VersionStatus
  <2>2. Len(requirements[key]) < MaxVersions
    BY <1>1, EmptySeq, ConstantsAssumption DEF CreateRequirement
  <2> DEFINE draft == NewDraft(definition)
  <2> HIDE DEF draft
  <2>3. RequirementsFollow(requirements[key], Append(requirements[key], draft))
    BY <1>1, <2>1, <2>2, AppendedFollows DEF CreateRequirement, draft
  <2> QED
    BY <1>1, <2>3, OneKeyFollows DEF CreateRequirement, draft
<1>2. ASSUME NEW admin \in Admins, SaveRequirement(admin)
      PROVE  /\ requirements' \in [Requirements -> Seq(RequirementVersion)]
             /\ \A k \in Requirements :
                  RequirementsFollow(requirements[k], requirements'[k])
  <2> DEFINE key == requests[admin].key
  <2> DEFINE latest == Len(requirements[key])
  <2> DEFINE draft == NewDraft(requests[admin].definition)
  <2>1. requests[admin] \in RequirementSave
    BY <1>2, RequestKinds DEF SaveRequirement
  <2>2. key \in Requirements /\ draft \in RequirementVersion
    BY <2>1, ConstantsAssumption
       DEF RequirementSave, NewDraft, RequirementVersion, VersionStatus
  <2>3. latest = requests[admin].observed /\ latest \in 1 .. MaxVersions
    BY <1>2, <2>1 DEF SaveRequirement, RequirementSave
  <2>4. latest \in 1 .. latest
    BY <2>3, ConstantsAssumption
  <2>5. CASE /\ requirements[key][latest].status = "DRAFT"
             /\ requirements' = [requirements EXCEPT ![key][latest] = draft]
    <3>1. requirements' =
            [requirements EXCEPT ![key] = [requirements[key] EXCEPT ![latest] = draft]]
      BY <2>5
    <3> HIDE DEF draft
    <3>2. RequirementsFollow(requirements[key],
                             [requirements[key] EXCEPT ![latest] = draft])
      BY <2>2, <2>4, <2>5, ReplacedFollows
    <3> QED
      BY <2>2, <3>1, <3>2, OneKeyFollows
  <2>6. CASE /\ requirements[key][latest].status # "DRAFT"
             /\ latest < MaxVersions
             /\ requirements' =
                  [requirements EXCEPT ![key] = Append(requirements[key], draft)]
    <3> HIDE DEF draft
    <3>1. RequirementsFollow(requirements[key], Append(requirements[key], draft))
      BY <2>2, <2>6, AppendedFollows
    <3> QED
      BY <2>2, <2>6, <3>1, OneKeyFollows
  <2> QED
    BY <1>2, <2>5, <2>6 DEF SaveRequirement
<1>3. ASSUME NEW v \in RequirementVersions,
             PublishRequirement(v) \/ DisableRequirement(v)
      PROVE  /\ requirements' \in [Requirements -> Seq(RequirementVersion)]
             /\ \A k \in Requirements :
                  RequirementsFollow(requirements[k], requirements'[k])
  BY <1>3, StatusFollows DEF PublishRequirement, DisableRequirement
<1>4. \/ UNCHANGED requirements
      \/ \E key \in Requirements, definition \in Definitions :
           CreateRequirement(key, definition)
      \/ \E admin \in Admins : SaveRequirement(admin)
      \/ \E v \in RequirementVersions :
           PublishRequirement(v) \/ DisableRequirement(v)
  BY DEF RequestStep, RequirementStep, TemplateStep, CaseStep, ObserveRequirement,
         EditTemplate, CopyTemplate, CreateTemplate, SaveTemplate,
         PublishTemplate, DisableTemplate, ResolveCase, CreateCase, Fail
<1> QED
  BY <1>1, <1>2, <1>3, <1>4, UnchangedRequirements

-----------------------------------------------------------------------------
(* Templates *)

\* A request in flight is about to write these sources.
InFlight(sources) ==
  \E a \in Admins :
    /\ requests[a].kind \in {"create", "save", "rename"}
    /\ sources = requests[a].content.sources

TemplateStepOf(old, new) ==
  TemplatesFollow(old, new) /\ Published(old, new) /\ SourcesKnown(old, new)

LEMMA TemplatesTyped ==
  ASSUME TypeOK, NEW key \in Templates
  PROVE  /\ templates[key] \in Seq(TemplateVersion)
         /\ Len(templates[key]) \in Nat
         /\ Len(templates[key]) <= MaxVersions
         /\ MaxVersions \in Nat
         /\ \A n \in 1 .. Len(templates[key]) :
              templates[key][n] \in TemplateVersion
BY ConstantsAssumption, LenProperties, ElementOfSeq DEF TypeOK

LEMMA UnchangedTemplate ==
  ASSUME TypeOK, NEW key \in Templates
  PROVE  TemplateStepOf(templates[key], templates[key])
BY TemplatesTyped
   DEF TemplateStepOf, TemplatesFollow, Published, SourcesKnown

\* A row that is no draft is replaced by itself with another status; a draft by
\* itself published, or by what a request in flight holds.
LEMMA ReplacedTemplate ==
  ASSUME TypeOK, NEW key \in Templates,
         NEW n \in 1 .. Len(templates[key]),
         NEW row \in TemplateVersion,
         templates[key][n].status # "DRAFT" => row.status # "DRAFT",
         row.status # "DRAFT" =>
           /\ row.content = templates[key][n].content
           /\ templates[key][n].status # "DRAFT"
                \/ (Publishable(row.content) /\ UNCHANGED requirements),
         row.content = templates[key][n].content
           \/ InFlight(row.content.sources)
  PROVE  TemplateStepOf(templates[key], [templates[key] EXCEPT ![n] = row])
<1> DEFINE old == templates[key]
<1> DEFINE new == [old EXCEPT ![n] = row]
<1>1. old \in Seq(TemplateVersion) /\ Len(old) \in Nat
        /\ Len(old) <= MaxVersions
  BY TemplatesTyped
<1>2. /\ new \in Seq(TemplateVersion)
      /\ Len(new) = Len(old)
      /\ \A j \in 1 .. Len(old) : new[j] = IF j = n THEN row ELSE old[j]
  BY <1>1, ExceptSeq
<1>3. \A j \in 1 .. Len(old) :
        old[j].status # "DRAFT" =>
          new[j].status # "DRAFT" /\ new[j].content = old[j].content
  BY <1>2
<1>4. \A j \in 1 .. Len(old) : new[j].status = "DRAFT" => old[j].status = "DRAFT"
  BY <1>2
<1>5. Published(old, new)
  <2> SUFFICES ASSUME NEW j \in 1 .. Len(old), new[j].status # "DRAFT"
               PROVE  /\ new[j].content = old[j].content
                      /\ old[j].status # "DRAFT"
                           \/ (Publishable(old[j].content) /\ UNCHANGED requirements)
    BY <1>1, <1>2 DEF Published
  <2> QED
    BY <1>2
<1>6. SourcesKnown(old, new)
  <2> SUFFICES ASSUME NEW j \in 1 .. Len(old)
               PROVE  new[j].content = old[j].content
                        \/ InFlight(new[j].content.sources)
    BY <1>1, <1>2 DEF SourcesKnown, InFlight
  <2> QED
    BY <1>2
<1> HIDE DEF old, new
<1>7. TemplatesFollow(old, new)
  BY <1>1, <1>2, <1>3, <1>4 DEF TemplatesFollow
<1> QED
  BY <1>5, <1>6, <1>7 DEF TemplateStepOf, old, new

LEMMA AppendedTemplate ==
  ASSUME TypeOK, NEW key \in Templates,
         NEW row \in TemplateVersion, row.status = "DRAFT",
         InFlight(row.content.sources),
         Len(templates[key]) < MaxVersions,
         templates[key] = <<>>
           \/ templates[key][Len(templates[key])].status # "DRAFT"
  PROVE  TemplateStepOf(templates[key], Append(templates[key], row))
<1> DEFINE old == templates[key]
<1> DEFINE new == Append(old, row)
<1>1. old \in Seq(TemplateVersion) /\ Len(old) \in Nat /\ MaxVersions \in Nat
  BY TemplatesTyped
<1>2. /\ new \in Seq(TemplateVersion)
      /\ Len(new) = Len(old) + 1
      /\ \A j \in 1 .. Len(old) : new[j] = old[j]
      /\ new[Len(old) + 1] = row
  BY <1>1, AppendProperties
<1>3. (\A j \in 1 .. Len(old) : old[j].status = "DRAFT" => j = Len(old)) =>
        \A j \in 1 .. Len(old) : old[j].status # "DRAFT"
  BY <1>1, EmptySeq
<1> HIDE DEF old, new
<1>4. TemplatesFollow(old, new)
  BY <1>1, <1>2, <1>3 DEF TemplatesFollow, old
<1>5. Published(old, new)
  BY <1>1, <1>2 DEF Published
<1>6. SourcesKnown(old, new)
  BY <1>1, <1>2 DEF SourcesKnown, InFlight
<1> QED
  BY <1>4, <1>5, <1>6 DEF TemplateStepOf, old, new

LEMMA OneTemplateStep ==
  ASSUME TypeOK, NEW key \in Templates, NEW new,
         TemplateStepOf(templates[key], new),
         templates' = [templates EXCEPT ![key] = new]
  PROVE  /\ templates' \in [Templates -> Seq(TemplateVersion)]
         /\ \A k \in Templates : TemplateStepOf(templates[k], templates'[k])
<1>1. templates \in [Templates -> Seq(TemplateVersion)]
  BY DEF TypeOK
<1>2. new \in Seq(TemplateVersion)
  BY DEF TemplateStepOf, TemplatesFollow
<1>3. \A k \in Templates :
        templates'[k] = IF k = key THEN new ELSE templates[k]
  BY <1>1
<1> QED
  BY <1>1, <1>2, <1>3, UnchangedTemplate

\* A request that writes a template holds a row to write.
LEMMA WriteTyped ==
  ASSUME TypeOK, NEW admin \in Admins,
         requests[admin].kind \in {"create", "save", "rename"}
  PROVE  /\ requests[admin].key \in Templates
         /\ DraftOf(requests[admin].content) \in TemplateVersion
         /\ DraftOf(requests[admin].content).status = "DRAFT"
         /\ InFlight(DraftOf(requests[admin].content).content.sources)
<1>1. requests[admin] \in TemplateWrite
  BY RequestKinds
<1>2. requests[admin].key \in Templates /\ requests[admin].content \in Content
  BY <1>1 DEF TemplateWrite
<1> QED
  BY <1>2 DEF DraftOf, TemplateVersion, VersionStatus, InFlight

\* Publishing writes the content that was checked, over requirements that do not
\* change; disabling takes a published row.
LEMMA TemplateStatusStep ==
  ASSUME TypeOK, NEW v \in TemplateVersions,
         PublishTemplate(v) \/ DisableTemplate(v)
  PROVE  /\ templates' \in [Templates -> Seq(TemplateVersion)]
         /\ \A k \in Templates : TemplateStepOf(templates[k], templates'[k])
<1>1. PICK status \in {"PUBLISHED", "DISABLED"} :
        templates' = TemplateWithStatus(v, status)
  BY DEF PublishTemplate, DisableTemplate
<1> DEFINE row == [templates[v[1]][v[2]] EXCEPT !.status = status]
<1> DEFINE new == [templates[v[1]] EXCEPT ![v[2]] = row]
<1>2. v[1] \in Templates /\ v[2] \in 1 .. Len(templates[v[1]])
  BY TemplatesTyped, ConstantsAssumption DEF TemplateVersions, TemplateVersionId
<1>3. templates[v[1]][v[2]] \in TemplateVersion
  BY <1>2, TemplatesTyped
<1>4. /\ row \in TemplateVersion
      /\ row.status # "DRAFT"
      /\ row.content = templates[v[1]][v[2]].content
  BY <1>3 DEF TemplateVersion, VersionStatus
<1>5. templates[v[1]][v[2]].status # "DRAFT"
        \/ (Publishable(templates[v[1]][v[2]].content) /\ UNCHANGED requirements)
  BY DEF PublishTemplate, DisableTemplate, TemplateRow
<1>6. templates' = [templates EXCEPT ![v[1]] = new]
  BY <1>1 DEF TemplateWithStatus
<1> HIDE DEF row
<1>7. TemplateStepOf(templates[v[1]], new)
  BY <1>2, <1>4, <1>5, ReplacedTemplate
<1> HIDE DEF new
<1> QED
  BY <1>2, <1>6, <1>7, OneTemplateStep

LEMMA CreateTemplateStep ==
  ASSUME TypeOK, NEW admin \in Admins, CreateTemplate(admin)
  PROVE  /\ templates' \in [Templates -> Seq(TemplateVersion)]
         /\ \A k \in Templates : TemplateStepOf(templates[k], templates'[k])
<1> DEFINE key == requests[admin].key
<1> DEFINE draft == DraftOf(requests[admin].content)
<1>1. /\ key \in Templates
      /\ draft \in TemplateVersion /\ draft.status = "DRAFT"
      /\ InFlight(draft.content.sources)
  BY WriteTyped DEF CreateTemplate
<1>2. templates[key] = <<>> /\ Len(templates[key]) < MaxVersions
  BY EmptySeq, ConstantsAssumption DEF CreateTemplate
<1>3. templates' = [templates EXCEPT ![key] = Append(templates[key], draft)]
  BY DEF CreateTemplate
<1> HIDE DEF draft, key
<1>4. TemplateStepOf(templates[key], Append(templates[key], draft))
  BY <1>1, <1>2, AppendedTemplate
<1> QED
  BY <1>1, <1>3, <1>4, OneTemplateStep

LEMMA SaveTemplateStep ==
  ASSUME TypeOK, NEW admin \in Admins, SaveTemplate(admin)
  PROVE  /\ templates' \in [Templates -> Seq(TemplateVersion)]
         /\ \A k \in Templates : TemplateStepOf(templates[k], templates'[k])
<1> DEFINE key == requests[admin].key
<1> DEFINE latest == Len(templates[key])
<1> DEFINE draft == DraftOf(requests[admin].content)
<1>1. /\ key \in Templates
      /\ draft \in TemplateVersion /\ draft.status = "DRAFT"
      /\ InFlight(draft.content.sources)
  BY WriteTyped DEF SaveTemplate
<1>2. templates[key] # <<>>
  BY DEF SaveTemplate
<1>3. latest \in 1 .. latest
  BY <1>1, <1>2, TemplatesTyped, EmptySeq
<1>4. CASE /\ templates[key][latest].status = "DRAFT"
           /\ templates' = [templates EXCEPT ![key][latest] = draft]
  <2>1. templates' =
          [templates EXCEPT ![key] = [templates[key] EXCEPT ![latest] = draft]]
    BY <1>4
  <2> HIDE DEF draft, key
  <2>2. TemplateStepOf(templates[key], [templates[key] EXCEPT ![latest] = draft])
    BY <1>1, <1>3, <1>4, ReplacedTemplate
  <2> QED
    BY <1>1, <2>1, <2>2, OneTemplateStep
<1>5. CASE /\ templates[key][latest].status # "DRAFT"
           /\ latest < MaxVersions
           /\ templates' =
                [templates EXCEPT ![key] = Append(templates[key], draft)]
  <2> HIDE DEF draft, key
  <2>1. TemplateStepOf(templates[key], Append(templates[key], draft))
    BY <1>1, <1>5, AppendedTemplate
  <2> QED
    BY <1>1, <1>5, <2>1, OneTemplateStep
<1> QED
  BY <1>4, <1>5 DEF SaveTemplate

\* Whatever the step, the versions of every template follow the earlier ones,
\* with none published that was not complete.
LEMMA TemplatesStep ==
  ASSUME TypeOK, RequestStep
  PROVE  /\ templates' \in [Templates -> Seq(TemplateVersion)]
         /\ \A k \in Templates : TemplateStepOf(templates[k], templates'[k])
<1>1. CASE UNCHANGED templates
  BY <1>1, UnchangedTemplate DEF TypeOK
<1>2. \/ UNCHANGED templates
      \/ \E admin \in Admins : CreateTemplate(admin) \/ SaveTemplate(admin)
      \/ \E v \in TemplateVersions : PublishTemplate(v) \/ DisableTemplate(v)
  BY DEF RequestStep, RequirementStep, TemplateStep, CaseStep, CreateRequirement,
         ObserveRequirement, SaveRequirement, PublishRequirement,
         DisableRequirement, EditTemplate, CopyTemplate, ResolveCase,
         CreateCase, Fail
<1> QED
  BY <1>1, <1>2, TemplateStatusStep, CreateTemplateStep, SaveTemplateStep

-----------------------------------------------------------------------------
(* Rows, as their versions are named *)

\* A requirement version stays, and keeps its definition once it is no draft.
LEMMA RequirementRowsKept ==
  ASSUME TypeOK, RequestStep
  PROVE  /\ RequirementVersions \subseteq RequirementVersions'
         /\ \A v \in RequirementVersions :
              RequirementRow(v).status # "DRAFT" =>
                /\ RequirementRow(v)'.status # "DRAFT"
                /\ RequirementRow(v)'.definition = RequirementRow(v).definition
<1> SUFFICES ASSUME NEW v \in RequirementVersions
             PROVE  /\ v \in RequirementVersions'
                    /\ RequirementRow(v).status # "DRAFT" =>
                         /\ RequirementRow(v)'.status # "DRAFT"
                         /\ RequirementRow(v)'.definition
                              = RequirementRow(v).definition
  OBVIOUS
<1>1. /\ v[1] \in Requirements /\ v[2] \in 1 .. MaxVersions
      /\ v[2] <= Len(requirements[v[1]])
      /\ v \in RequirementVersionId
  BY DEF RequirementVersions, RequirementVersionId
<1>2. v[2] \in 1 .. Len(requirements[v[1]]) /\ MaxVersions \in Nat
  BY <1>1, RequirementsTyped
<1>3. RequirementsFollow(requirements[v[1]], requirements'[v[1]])
  BY <1>1, RequirementsStep
<1>4. Len(requirements'[v[1]]) \in Nat
  BY <1>3, LenProperties DEF RequirementsFollow
<1>5. v[2] <= Len(requirements'[v[1]])
  BY <1>1, <1>2, <1>3, <1>4, RequirementsTyped DEF RequirementsFollow
<1> QED
  BY <1>1, <1>2, <1>3, <1>5
     DEF RequirementsFollow, RequirementRow, RequirementVersions

\* A template version stays, and keeps its content once it is no draft.
LEMMA TemplateRowsKept ==
  ASSUME TypeOK, RequestStep
  PROVE  /\ TemplateVersions \subseteq TemplateVersions'
         /\ \A v \in TemplateVersions :
              TemplateRow(v).status # "DRAFT" =>
                /\ TemplateRow(v)'.status # "DRAFT"
                /\ TemplateRow(v)'.content = TemplateRow(v).content
<1> SUFFICES ASSUME NEW v \in TemplateVersions
             PROVE  /\ v \in TemplateVersions'
                    /\ TemplateRow(v).status # "DRAFT" =>
                         /\ TemplateRow(v)'.status # "DRAFT"
                         /\ TemplateRow(v)'.content = TemplateRow(v).content
  OBVIOUS
<1>1. /\ v[1] \in Templates /\ v[2] \in 1 .. MaxVersions
      /\ v[2] <= Len(templates[v[1]])
      /\ v \in TemplateVersionId
  BY DEF TemplateVersions, TemplateVersionId
<1>2. v[2] \in 1 .. Len(templates[v[1]]) /\ MaxVersions \in Nat
  BY <1>1, TemplatesTyped
<1>3. TemplatesFollow(templates[v[1]], templates'[v[1]])
  BY <1>1, TemplatesStep DEF TemplateStepOf
<1>4. Len(templates'[v[1]]) \in Nat
  BY <1>3, LenProperties DEF TemplatesFollow
<1>5. v[2] <= Len(templates'[v[1]])
  BY <1>1, <1>2, <1>3, <1>4, TemplatesTyped DEF TemplatesFollow
<1> QED
  BY <1>1, <1>2, <1>3, <1>5
     DEF TemplatesFollow, TemplateRow, TemplateVersions

\* The content that was complete over sources that are no drafts stays so.
LEMMA CompleteKept ==
  ASSUME TypeOK, RequestStep, NEW content,
         content.sources \subseteq RequirementVersions,
         \A s \in content.sources : RequirementRow(s).status # "DRAFT",
         Complete(content)
  PROVE  /\ Complete(content)'
         /\ \A s \in content.sources : RequirementRow(s)'.status # "DRAFT"
<1>1. \A s \in content.sources :
        /\ RequirementRow(s)'.status # "DRAFT"
        /\ RequirementRow(s)'.definition = RequirementRow(s).definition
  BY RequirementRowsKept
<1>2. WellFormed(content)'
  BY <1>1 DEF Complete, WellFormed
<1> QED
  BY <1>1, <1>2 DEF Complete

\* What a case was made of stays.
LEMMA BackedKept ==
  ASSUME TypeOK, RequestStep, NEW c, Backed(c)
  PROVE  Backed(c)'
BY TemplateRowsKept DEF Backed

LEMMA SoundKept ==
  ASSUME TypeOK, RequestStep, NEW request, Sound(request)
  PROVE  Sound(request)'
BY RequirementRowsKept, BackedKept DEF Sound

-----------------------------------------------------------------------------
(* Requests *)

LEMMA OneRequest ==
  ASSUME TypeOK, RequestsSound, NEW admin \in Admins,
         NEW request \in Request, Sound(request),
         requests' = [requests EXCEPT ![admin] = request]
  PROVE  /\ requests' \in [Admins -> Request]
         /\ \A a \in Admins : Sound(requests'[a])
<1>1. requests \in [Admins -> Request]
  BY DEF TypeOK
<1>2. \A a \in Admins : requests'[a] = IF a = admin THEN request ELSE requests[a]
  BY <1>1
<1> QED
  BY <1>1, <1>2 DEF RequestsSound

LEMMA EndedRequest ==
  ASSUME TypeOK, RequestsSound, NEW admin \in Admins, End(admin)
  PROVE  /\ requests' \in [Admins -> Request]
         /\ \A a \in Admins : Sound(requests'[a])
<1>1. Idle \in Request /\ Sound(Idle)
  BY DEF Request, Idle, Sound
<1> QED
  BY <1>1, OneRequest DEF End

LEMMA ObservedRequest ==
  ASSUME TypeOK, RequestsSound, NEW admin \in Admins, NEW key \in Requirements,
         NEW definition \in Definitions,
         ObserveRequirement(admin, key, definition)
  PROVE  /\ requests' \in [Admins -> Request]
         /\ \A a \in Admins : Sound(requests'[a])
<1> DEFINE request == [kind |-> "requirement", key |-> key,
                       observed |-> Len(requirements[key]),
                       definition |-> definition]
<1>1. Len(requirements[key]) \in 1 .. MaxVersions
  BY RequirementsTyped, EmptySeq DEF ObserveRequirement
<1>2. request \in RequirementSave
  BY <1>1 DEF RequirementSave
<1>3. request \in Request /\ Sound(request)
  BY <1>2 DEF Request, Sound
<1> QED
  BY <1>3, OneRequest DEF ObserveRequirement, Begin

LEMMA WritingRequest ==
  ASSUME TypeOK, RequestsSound, NEW admin \in Admins,
         NEW kind \in {"create", "save", "rename"}, NEW key \in Templates,
         NEW content \in Content,
         content.sources \subseteq RequirementVersions,
         Begin(admin, [kind |-> kind, key |-> key, content |-> content])
  PROVE  /\ requests' \in [Admins -> Request]
         /\ \A a \in Admins : Sound(requests'[a])
<1> DEFINE request == [kind |-> kind, key |-> key, content |-> content]
<1>1. request \in TemplateWrite
  BY DEF TemplateWrite
<1>2. request \in Request /\ Sound(request)
  BY <1>1 DEF Request, Sound
<1> QED
  BY <1>2, OneRequest DEF Begin

LEMMA CopyingRequest ==
  ASSUME TypeOK, RequestsSound, NEW admin \in Admins,
         NEW original \in Templates, NEW key \in Templates,
         CopyTemplate(admin, original, key)
  PROVE  /\ requests' \in [Admins -> Request]
         /\ \A a \in Admins : Sound(requests'[a])
<1> DEFINE latest == Len(templates[original])
<1> DEFINE content == templates[original][latest].content
<1>1. latest \in 1 .. latest /\ latest \in 1 .. MaxVersions
  BY TemplatesTyped, EmptySeq DEF CopyTemplate
<1>2. templates[original][latest] \in TemplateVersion
  BY <1>1, TemplatesTyped
<1>3. content \in Content
  BY <1>2 DEF TemplateVersion
<1>4. <<original, latest>> \in TemplateVersions
  BY <1>1 DEF TemplateVersions, TemplateVersionId
<1>5. content.sources \subseteq RequirementVersions
  BY <1>4 DEF TypeOK, TemplateRow
<1>6. Begin(admin, [kind |-> "create", key |-> key, content |-> content])
  BY DEF CopyTemplate
<1> HIDE DEF content
<1> QED
  BY <1>3, <1>5, <1>6, WritingRequest

LEMMA ResolvedRequest ==
  ASSUME TypeOK, RequestsSound, NEW admin \in Admins,
         NEW v \in TemplateVersions, NEW asked, ResolveCase(admin, v, asked)
  PROVE  /\ requests' \in [Admins -> Request]
         /\ \A a \in Admins : Sound(requests'[a])
<1> DEFINE made == [template |-> v, snapshot |-> Selected(v, asked)]
<1> DEFINE request == [kind |-> "case", made |-> made]
<1>1. Selected(v, asked) \subseteq TemplateRow(v).content.sources
  BY DEF Selected
<1>2. TemplateRow(v).content.sources \subseteq RequirementVersionId
  BY DEF TypeOK, RequirementVersions
<1>3. made \in Case
  BY <1>1, <1>2 DEF Case, TemplateVersions
<1>4. Backed(made)
  BY <1>1 DEF Backed, Selected, ResolveCase
<1>5. request \in CaseCreation
  BY <1>3 DEF CaseCreation
<1>6. request \in Request
  BY <1>5 DEF Request
<1>7. request.kind = "case" /\ request.made = made
  OBVIOUS
<1>8. requests' = [requests EXCEPT ![admin] = request]
  BY DEF ResolveCase, Begin
<1> HIDE DEF made, request
<1>9. Sound(request)
  BY <1>4, <1>7 DEF Sound
<1> QED
  BY <1>6, <1>8, <1>9, OneRequest

\* Whatever the step, requests stay typed and hold what exists.
LEMMA RequestsStep ==
  ASSUME TypeOK, RequestsSound, RequestStep
  PROVE  /\ requests' \in [Admins -> Request]
         /\ \A a \in Admins : Sound(requests'[a])
<1>1. CASE UNCHANGED requests
  BY <1>1 DEF TypeOK, RequestsSound
<1>2. CASE \E admin \in Admins : End(admin)
  BY <1>2, EndedRequest
<1>3. CASE \E admin \in Admins, ast \in Asts,
              sources \in SUBSET RequirementVersions,
              kind \in {"create", "save", "rename"}, key \in Templates :
             EditTemplate(admin, kind, key, [ast |-> ast, sources |-> sources])
  <2> SUFFICES ASSUME NEW admin \in Admins, NEW ast \in Asts,
                      NEW sources \in SUBSET RequirementVersions,
                      NEW kind \in {"create", "save", "rename"},
                      NEW key \in Templates,
                      EditTemplate(admin, kind, key,
                                   [ast |-> ast, sources |-> sources])
               PROVE  /\ requests' \in [Admins -> Request]
                      /\ \A a \in Admins : Sound(requests'[a])
    BY <1>3
  <2> DEFINE content == [ast |-> ast, sources |-> sources]
  <2>1. content \in Content /\ content.sources \subseteq RequirementVersions
    BY ConstantsAssumption DEF Content, RequirementVersions
  <2>2. Begin(admin, [kind |-> kind, key |-> key, content |-> content])
    BY DEF EditTemplate
  <2> HIDE DEF content
  <2> QED
    BY <2>1, <2>2, WritingRequest
<1>4. \/ UNCHANGED requests
      \/ \E admin \in Admins : End(admin)
      \/ \E admin \in Admins, key \in Requirements, definition \in Definitions :
           ObserveRequirement(admin, key, definition)
      \/ \E admin \in Admins, ast \in Asts,
            sources \in SUBSET RequirementVersions,
            kind \in {"create", "save", "rename"}, key \in Templates :
           EditTemplate(admin, kind, key, [ast |-> ast, sources |-> sources])
      \/ \E admin \in Admins, original \in Templates, key \in Templates :
           CopyTemplate(admin, original, key)
      \/ \E admin \in Admins, v \in TemplateVersions :
           \E asked \in SUBSET TemplateRow(v).content.sources :
             ResolveCase(admin, v, asked)
  BY DEF RequestStep, RequirementStep, TemplateStep, CaseStep, CreateRequirement,
         SaveRequirement, PublishRequirement, DisableRequirement,
         CreateTemplate, SaveTemplate, PublishTemplate, DisableTemplate,
         CreateCase, Fail
<1> QED
  BY <1>1, <1>2, <1>3, <1>4, ObservedRequest, CopyingRequest, ResolvedRequest

-----------------------------------------------------------------------------
(* Each part of the invariant, one step on *)

\* Versions named in the new state.
LEMMA NewRows ==
  ASSUME TypeOK, RequestStep, NEW v \in TemplateVersions'
  PROVE  /\ v[1] \in Templates
         /\ v[2] \in 1 .. Len(templates'[v[1]])
         /\ TemplateStepOf(templates[v[1]], templates'[v[1]])
         /\ v[2] <= Len(templates[v[1]]) => v \in TemplateVersions
<1>1. /\ v[1] \in Templates /\ v[2] \in 1 .. MaxVersions
      /\ v[2] <= Len(templates'[v[1]])
      /\ v \in TemplateVersionId
  BY DEF TemplateVersions, TemplateVersionId
<1>2. TemplateStepOf(templates[v[1]], templates'[v[1]])
  BY <1>1, TemplatesStep
<1>3. Len(templates'[v[1]]) \in Nat
  BY <1>2, LenProperties DEF TemplateStepOf, TemplatesFollow
<1> QED
  BY <1>1, <1>2, <1>3, ConstantsAssumption DEF TemplateVersions

LEMMA SourcesStep ==
  ASSUME TypeOK, RequestsSound, RequestStep, NEW v \in TemplateVersions'
  PROVE  TemplateRow(v)'.content.sources \subseteq RequirementVersions'
<1>1. CASE /\ v \in TemplateVersions
           /\ TemplateRow(v)'.content.sources = TemplateRow(v).content.sources
  BY <1>1, RequirementRowsKept DEF TypeOK
<1>2. CASE InFlight(TemplateRow(v)'.content.sources)
  BY <1>2, RequirementRowsKept DEF InFlight, RequestsSound, Sound
<1> QED
  BY <1>1, <1>2, NewRows
     DEF TemplateStepOf, SourcesKnown, InFlight, TemplateRow

\* Only CreateCase adds a case, the one its request has resolved.
LEMMA CasesStep ==
  ASSUME TypeOK, RequestStep, NEW c \in cases', c \notin cases
  PROVE  \E admin \in Admins :
           requests[admin].kind = "case" /\ c = requests[admin].made
BY DEF RequestStep, RequirementStep, TemplateStep, CaseStep, CreateRequirement,
       ObserveRequirement, SaveRequirement, PublishRequirement,
       DisableRequirement, EditTemplate, CopyTemplate, CreateTemplate,
       SaveTemplate, PublishTemplate, DisableTemplate, ResolveCase,
       CreateCase, Fail

LEMMA TypeStep ==
  ASSUME TypeOK, RequestsSound, RequestStep
  PROVE  TypeOK'
<1>1. /\ requirements' \in [Requirements -> Seq(RequirementVersion)]
      /\ \A key \in Requirements : Len(requirements'[key]) <= MaxVersions
  BY RequirementsStep DEF RequirementsFollow
<1>2. /\ templates' \in [Templates -> Seq(TemplateVersion)]
      /\ \A key \in Templates : Len(templates'[key]) <= MaxVersions
  BY TemplatesStep DEF TemplateStepOf, TemplatesFollow
<1>3. \A v \in TemplateVersions' :
        TemplateRow(v)'.content.sources \subseteq RequirementVersions'
  BY SourcesStep
<1>4. cases' \subseteq Case
  <2> SUFFICES ASSUME NEW c \in cases', c \notin cases
               PROVE  c \in Case
    BY DEF TypeOK
  <2>1. PICK admin \in Admins :
          requests[admin].kind = "case" /\ c = requests[admin].made
    BY CasesStep
  <2>2. requests[admin] \in CaseCreation
    BY <2>1, RequestKinds
  <2> QED
    BY <2>1, <2>2 DEF CaseCreation
<1>5. requests' \in [Admins -> Request]
  BY RequestsStep
<1> QED
  BY <1>1, <1>2, <1>3, <1>4, <1>5 DEF TypeOK

LEMMA DraftStep ==
  ASSUME TypeOK, DraftIsNewest, RequestStep
  PROVE  DraftIsNewest'
<1>1. ASSUME NEW v \in RequirementVersions', RequirementRow(v)'.status = "DRAFT"
      PROVE  v[2] = Len(requirements'[v[1]])
  <2>1. /\ v[1] \in Requirements /\ v[2] \in 1 .. MaxVersions
        /\ v[2] <= Len(requirements'[v[1]])
    BY DEF RequirementVersions, RequirementVersionId
  <2>2. RequirementsFollow(requirements[v[1]], requirements'[v[1]])
    BY <2>1, RequirementsStep
  <2>3. v[2] \in 1 .. Len(requirements'[v[1]])
    BY <2>1, <2>2, LenProperties, ConstantsAssumption DEF RequirementsFollow
  <2>4. ASSUME NEW n \in 1 .. Len(requirements[v[1]]),
               requirements[v[1]][n].status = "DRAFT"
        PROVE  n = Len(requirements[v[1]])
    <3>1. <<v[1], n>> \in RequirementVersions
      BY <2>1, RequirementsTyped DEF RequirementVersions, RequirementVersionId
    <3> QED
      BY <2>4, <3>1 DEF DraftIsNewest, RequirementRow
  <2> QED
    BY <1>1, <2>2, <2>3, <2>4 DEF RequirementsFollow, RequirementRow
<1>2. ASSUME NEW v \in TemplateVersions', TemplateRow(v)'.status = "DRAFT"
      PROVE  v[2] = Len(templates'[v[1]])
  <2>1. /\ v[1] \in Templates
        /\ v[2] \in 1 .. Len(templates'[v[1]])
        /\ TemplatesFollow(templates[v[1]], templates'[v[1]])
    BY NewRows DEF TemplateStepOf
  <2>2. ASSUME NEW n \in 1 .. Len(templates[v[1]]),
               templates[v[1]][n].status = "DRAFT"
        PROVE  n = Len(templates[v[1]])
    <3>1. <<v[1], n>> \in TemplateVersions
      BY <2>1, TemplatesTyped DEF TemplateVersions, TemplateVersionId
    <3> QED
      BY <2>2, <3>1 DEF DraftIsNewest, TemplateRow
  <2> QED
    BY <1>2, <2>1, <2>2 DEF TemplatesFollow, TemplateRow
<1> QED
  BY <1>1, <1>2 DEF DraftIsNewest

LEMMA PublishedStep ==
  ASSUME TypeOK, PublishedStaysComplete, RequestStep
  PROVE  PublishedStaysComplete'
<1> SUFFICES ASSUME NEW v \in TemplateVersions', TemplateRow(v)'.status # "DRAFT",
                    NEW content, content = TemplateRow(v)'.content
             PROVE  /\ Complete(content)'
                    /\ \A s \in content.sources : RequirementRow(s)'.status # "DRAFT"
  BY DEF PublishedStaysComplete, Complete, WellFormed
<1>1. /\ v \in TemplateVersions
      /\ TemplateRow(v).content = content
      /\ TemplateRow(v).status # "DRAFT" \/ Publishable(TemplateRow(v).content)
  BY NewRows DEF TemplateStepOf, Published, TemplateRow
<1>2. content.sources \subseteq RequirementVersions
  BY <1>1 DEF TypeOK
<1>3. /\ Complete(content)
      /\ \A s \in content.sources : RequirementRow(s).status # "DRAFT"
  BY <1>1 DEF PublishedStaysComplete, Publishable
<1> QED
  BY <1>2, <1>3, CompleteKept

LEMMA CasesBackedStep ==
  ASSUME TypeOK, CasesBacked, RequestsSound, RequestStep
  PROVE  CasesBacked'
<1>1. ASSUME NEW c \in cases'
      PROVE  Backed(c)
  BY CasesStep DEF CasesBacked, RequestsSound, Sound
<1>2. ASSUME NEW c \in cases'
      PROVE  Backed(c)'
  BY <1>1, <1>2, BackedKept
<1> QED
  BY <1>2 DEF CasesBacked, Backed

LEMMA RequestsSoundStep ==
  ASSUME TypeOK, RequestsSound, RequestStep
  PROVE  RequestsSound'
<1> SUFFICES ASSUME NEW a \in Admins, NEW request, request = requests'[a]
             PROVE  Sound(request)'
  BY DEF RequestsSound, Sound, Backed
<1>1. Sound(request)
  BY RequestsStep
<1> QED
  BY <1>1, SoundKept

-----------------------------------------------------------------------------
(* The seed *)

\* The seed writes where nothing was: every version that exists stays as it is.
LEMMA SeedKeepsRows ==
  ASSUME TypeOK, Seed
  PROVE  /\ \A v \in RequirementVersions :
              v \in RequirementVersions' /\ RequirementRow(v)' = RequirementRow(v)
         /\ \A v \in TemplateVersions :
              v \in TemplateVersions' /\ TemplateRow(v)' = TemplateRow(v)
<1>1. ASSUME NEW v \in RequirementVersions
      PROVE  v[1] \in Requirements /\ requirements'[v[1]] = requirements[v[1]]
  <2>1. v[1] \in Requirements /\ v[2] \in 1 .. MaxVersions
          /\ v[2] <= Len(requirements[v[1]])
    BY DEF RequirementVersions, RequirementVersionId
  <2>2. v[1] \notin SeedRequirements
    BY <2>1, EmptySeq DEF Seed
  <2> QED
    BY <2>1, <2>2 DEF Seed
<1>2. ASSUME NEW v \in TemplateVersions
      PROVE  v[1] \in Templates /\ templates'[v[1]] = templates[v[1]]
  <2>1. v[1] \in Templates /\ v[2] \in 1 .. MaxVersions
          /\ v[2] <= Len(templates[v[1]])
    BY DEF TemplateVersions, TemplateVersionId
  <2>2. v[1] # SeedTemplate
    BY <2>1, EmptySeq DEF Seed
  <2> QED
    BY <2>1, <2>2 DEF Seed, TypeOK
<1> QED
  BY <1>1, <1>2
     DEF RequirementVersions, TemplateVersions, RequirementRow, TemplateRow

\* And what it writes is published, the requirements and the template over them.
LEMMA SeededRows ==
  ASSUME TypeOK, Seed
  PROVE  /\ \A v \in RequirementVersions' :
              \/ v \in RequirementVersions
              \/ v \in SeedSources
         /\ \A v \in SeedSources :
              /\ v \in RequirementVersions'
              /\ RequirementRow(v)' =
                   [status |-> "PUBLISHED", definition |-> SeedDefinition(v[1])]
         /\ \A v \in TemplateVersions' :
              v \in TemplateVersions \/ v = <<SeedTemplate, 1>>
         /\ <<SeedTemplate, 1>> \in TemplateVersions'
         /\ TemplateRow(<<SeedTemplate, 1>>)' =
              [status |-> "PUBLISHED",
               content |-> [ast |-> [uses |-> {}, signed |-> TRUE],
                            sources |-> SeedSources]]
<1> DEFINE row(key) == [status |-> "PUBLISHED", definition |-> SeedDefinition(key)]
<1>1. ASSUME NEW key \in SeedRequirements
      PROVE  /\ key \in Requirements
             /\ requirements'[key] = <<row(key)>>
             /\ Len(requirements'[key]) = 1 /\ requirements'[key][1] = row(key)
  <2> HIDE DEF row
  <2>1. key \in Requirements /\ requirements'[key] = <<row(key)>>
    BY ConstantsAssumption DEF Seed, row
  <2> QED
    BY <2>1
<1>2. ASSUME NEW key \in Requirements, key \notin SeedRequirements
      PROVE  requirements'[key] = requirements[key]
  BY <1>2 DEF Seed
<1>3. ASSUME NEW v \in RequirementVersions'
      PROVE  v \in RequirementVersions \/ v \in SeedSources
  <2>1. /\ v = <<v[1], v[2]>>
        /\ v[1] \in Requirements /\ v[2] \in 1 .. MaxVersions
        /\ v[2] <= Len(requirements'[v[1]])
        /\ v \in RequirementVersionId
    BY DEF RequirementVersions, RequirementVersionId
  <2>2. CASE v[1] \in SeedRequirements
    <3>1. Len(requirements'[v[1]]) = 1
      BY <1>1, <2>2
    <3>2. v[2] \in Nat /\ v[2] >= 1
      BY <2>1, ConstantsAssumption
    <3>3. v[2] = 1
      BY <2>1, <3>1, <3>2
    <3> QED
      BY <2>1, <2>2, <3>3 DEF SeedSources
  <2>3. CASE v[1] \notin SeedRequirements
    BY <1>2, <2>1, <2>3 DEF RequirementVersions
  <2> QED
    BY <2>2, <2>3
<1>4. \A v \in SeedSources :
        v \in RequirementVersions' /\ RequirementRow(v)' = row(v[1])
  BY <1>1, ConstantsAssumption
     DEF RequirementVersions, RequirementVersionId, SeedSources, RequirementRow
<1> DEFINE seeded == [status |-> "PUBLISHED",
                      content |-> [ast |-> [uses |-> {}, signed |-> TRUE],
                                   sources |-> SeedSources]]
<1>5. /\ templates' = [templates EXCEPT ![SeedTemplate] = <<seeded>>]
      /\ SeedTemplate \in Templates
  BY ConstantsAssumption DEF Seed
<1> HIDE DEF seeded
<1>6. /\ templates'[SeedTemplate] = <<seeded>>
      /\ Len(templates'[SeedTemplate]) = 1 /\ templates'[SeedTemplate][1] = seeded
      /\ \A key \in Templates \ {SeedTemplate} : templates'[key] = templates[key]
  BY <1>5 DEF TypeOK
<1>7. /\ \A v \in TemplateVersions' :
           v \in TemplateVersions \/ v = <<SeedTemplate, 1>>
      /\ <<SeedTemplate, 1>> \in TemplateVersions'
      /\ TemplateRow(<<SeedTemplate, 1>>)' = seeded
  BY <1>5, <1>6, ConstantsAssumption
     DEF TemplateVersions, TemplateVersionId, TemplateRow
<1> QED
  BY <1>3, <1>4, <1>7 DEF seeded

LEMMA SeedTyped ==
  ASSUME TypeOK, Seed
  PROVE  TypeOK'
<1>1. SeedSources \subseteq RequirementVersionId
  BY ConstantsAssumption DEF SeedSources, RequirementVersionId
<1>2. \A key \in Requirements :
        /\ requirements'[key] \in Seq(RequirementVersion)
        /\ Len(requirements'[key]) <= MaxVersions
  <2> TAKE key \in Requirements
  <2> DEFINE row == [status |-> "PUBLISHED", definition |-> SeedDefinition(key)]
  <2>1. row \in RequirementVersion
    BY DEF SeedDefinition, RequirementVersion, VersionStatus, Definition
  <2>2. requirements'[key] = IF key \in SeedRequirements THEN <<row>>
                             ELSE requirements[key]
    BY DEF Seed
  <2> HIDE DEF row
  <2>3. <<row>> \in Seq(RequirementVersion) /\ Len(<<row>>) = 1
    BY <2>1
  <2> QED
    BY <2>2, <2>3, RequirementsTyped, ConstantsAssumption
<1>3. requirements' \in [Requirements -> Seq(RequirementVersion)]
  BY <1>2 DEF Seed
<1> DEFINE seeded == [status |-> "PUBLISHED",
                      content |-> [ast |-> [uses |-> {}, signed |-> TRUE],
                                   sources |-> SeedSources]]
<1>4. seeded \in TemplateVersion
  BY <1>1 DEF TemplateVersion, VersionStatus, Content, Ast
<1>5. /\ templates' = [templates EXCEPT ![SeedTemplate] = <<seeded>>]
      /\ SeedTemplate \in Templates
  BY ConstantsAssumption DEF Seed
<1> HIDE DEF seeded
<1>6. <<seeded>> \in Seq(TemplateVersion) /\ Len(<<seeded>>) = 1
  BY <1>4
<1>7. \A key \in Templates :
        templates'[key] = IF key = SeedTemplate THEN <<seeded>> ELSE templates[key]
  BY <1>5 DEF TypeOK
<1>8. /\ templates' \in [Templates -> Seq(TemplateVersion)]
      /\ \A key \in Templates : Len(templates'[key]) <= MaxVersions
  BY <1>5, <1>6, <1>7, ConstantsAssumption, TemplatesTyped DEF TypeOK
<1>9. ASSUME NEW v \in TemplateVersions'
      PROVE  TemplateRow(v)'.content.sources \subseteq RequirementVersions'
  <2>1. CASE v \in TemplateVersions
    BY <2>1, SeedKeepsRows DEF TypeOK
  <2>2. CASE v = <<SeedTemplate, 1>>
    BY <2>2, SeededRows
  <2> QED
    BY <2>1, <2>2, SeededRows
<1>10. cases' \subseteq Case
  <2>1. <<SeedTemplate, 1>> \in TemplateVersionId
    BY ConstantsAssumption DEF TemplateVersionId
  <2>2. [template |-> <<SeedTemplate, 1>>, snapshot |-> SeedSources] \in Case
    BY <1>1, <2>1 DEF Case
  <2> QED
    BY <2>2 DEF Seed, TypeOK
<1>11. requests' \in [Admins -> Request]
  BY DEF Seed, TypeOK
<1> QED
  BY <1>2, <1>3, <1>8, <1>9, <1>10, <1>11 DEF TypeOK

LEMMA SeedInvariant ==
  ASSUME IInv, Seed
  PROVE  IInv'
<1> USE DEF IInv
<1>1. TypeOK'
  BY SeedTyped
<1>2. DraftIsNewest'
  <2>1. ASSUME NEW v \in RequirementVersions', RequirementRow(v)'.status = "DRAFT"
        PROVE  v[2] = Len(requirements'[v[1]])
    <3>1. v \in RequirementVersions
      BY <2>1, SeededRows
    <3>2. v[2] = Len(requirements[v[1]])
      BY <2>1, <3>1, SeedKeepsRows DEF DraftIsNewest
    <3>3. v[1] \in Requirements /\ v[1] \notin SeedRequirements
      BY <3>1, <3>2, EmptySeq DEF Seed, RequirementVersions, RequirementVersionId
    <3> QED
      BY <3>2, <3>3 DEF Seed
  <2>2. ASSUME NEW v \in TemplateVersions', TemplateRow(v)'.status = "DRAFT"
        PROVE  v[2] = Len(templates'[v[1]])
    <3>1. v \in TemplateVersions
      BY <2>2, SeededRows
    <3>2. v[2] = Len(templates[v[1]])
      BY <2>2, <3>1, SeedKeepsRows DEF DraftIsNewest
    <3>3. v[1] \in Templates /\ v[1] # SeedTemplate
      BY <3>1, <3>2, EmptySeq DEF Seed, TemplateVersions, TemplateVersionId
    <3> QED
      BY <3>2, <3>3 DEF Seed, TypeOK
  <2> QED
    BY <2>1, <2>2 DEF DraftIsNewest
<1>3. PublishedStaysComplete'
  <2> SUFFICES ASSUME NEW v \in TemplateVersions', TemplateRow(v)'.status # "DRAFT",
                      NEW content, content = TemplateRow(v)'.content
               PROVE  /\ Complete(content)'
                      /\ \A s \in content.sources : RequirementRow(s)'.status # "DRAFT"
    BY DEF PublishedStaysComplete, Complete, WellFormed
  <2>1. CASE v \in TemplateVersions
    <3>1. /\ content = TemplateRow(v).content
          /\ TemplateRow(v).status # "DRAFT"
          /\ content.sources \subseteq RequirementVersions
      BY <2>1, SeedKeepsRows DEF TypeOK
    <3>2. Complete(content) /\ \A s \in content.sources : RequirementRow(s).status # "DRAFT"
      BY <2>1, <3>1 DEF PublishedStaysComplete
    <3>3. \A s \in content.sources : RequirementRow(s)' = RequirementRow(s)
      BY <3>1, SeedKeepsRows
    <3> QED
      BY <3>2, <3>3 DEF Complete, WellFormed
  <2>2. CASE v = <<SeedTemplate, 1>>
    <3>1. /\ content.ast.uses = {} /\ content.ast.signed
          /\ content.sources = SeedSources
      BY <2>2, SeededRows
    <3>2. \A s \in SeedSources :
            /\ RequirementRow(s)'.status = "PUBLISHED"
            /\ RequirementRow(s)'.definition = SeedDefinition(s[1])
            /\ RequirementRow(s)'.definition.type = "FILE"
      BY SeededRows DEF SeedDefinition
    <3>3. <<Authorization, 1>> \in SeedSources
      BY ConstantsAssumption DEF SeedSources
    <3>4. SeedDefinition(Authorization) = RequiredFile
      BY DEF SeedDefinition, RequiredFile
    <3>5. \A u, w \in SeedSources : u[1] = w[1] => u = w
      BY DEF SeedSources
    <3>6. \E s \in SeedSources :
            s[1] = Authorization /\ RequirementRow(s)'.definition = RequiredFile
      BY <3>2, <3>3, <3>4
    <3>7. WellFormed(content)'
      BY <3>1, <3>5, <3>6 DEF WellFormed
    <3> QED
      BY <3>1, <3>2, <3>7 DEF Complete
  <2> QED
    BY <2>1, <2>2, SeededRows
<1>4. CasesBacked'
  <2>1. ASSUME NEW c \in cases
        PROVE  Backed(c)'
    <3>1. Backed(c)
      BY DEF CasesBacked
    <3> QED
      BY <3>1, SeedKeepsRows DEF Backed
  <2> DEFINE made == [template |-> <<SeedTemplate, 1>>, snapshot |-> SeedSources]
  <2>2. Backed(made)'
    BY SeededRows DEF Backed
  <2>3. cases' = cases \cup {made}
    BY DEF Seed
  <2> HIDE DEF made
  <2>4. ASSUME NEW c \in cases'
        PROVE  Backed(c)'
    BY <2>1, <2>2, <2>3 DEF Backed
  <2> QED
    BY <2>4 DEF CasesBacked, Backed
<1>5. RequestsSound'
  <2> SUFFICES ASSUME NEW a \in Admins, NEW request, request = requests[a]
               PROVE  Sound(request)'
    BY DEF Seed, RequestsSound, Sound, Backed
  <2>1. Sound(request)
    BY DEF RequestsSound
  <2> QED
    BY <2>1, SeedKeepsRows DEF Sound, Backed
<1> QED
  BY <1>1, <1>2, <1>3, <1>4, <1>5

-----------------------------------------------------------------------------
(* Theorems *)

LEMMA InitInvariant == Init => IInv
<1> SUFFICES ASSUME Init
             PROVE  IInv
  OBVIOUS
<1>1. RequirementVersions = {} /\ TemplateVersions = {}
  BY ConstantsAssumption
     DEF Init, RequirementVersions, TemplateVersions, RequirementVersionId,
         TemplateVersionId
<1>2. TypeOK
  BY <1>1, ConstantsAssumption DEF Init, TypeOK, Request
<1>3. RequestsSound
  BY DEF Init, RequestsSound, Sound, Idle
<1> QED
  BY <1>1, <1>2, <1>3
     DEF Init, IInv, DraftIsNewest, PublishedStaysComplete, CasesBacked

LEMMA StutterInvariant == IInv /\ UNCHANGED vars => IInv'
<1> SUFFICES ASSUME IInv, UNCHANGED vars
             PROVE  IInv'
  OBVIOUS
<1> USE DEF vars, RequirementVersions, TemplateVersions, RequirementRow,
            TemplateRow
<1>1. TypeOK' /\ DraftIsNewest'
  BY DEF IInv, TypeOK, DraftIsNewest
<1>2. PublishedStaysComplete'
  <2> SUFFICES ASSUME NEW v \in TemplateVersions, TemplateRow(v).status # "DRAFT",
                      NEW content, content = TemplateRow(v).content
               PROVE  /\ Complete(content)'
                      /\ \A s \in content.sources :
                           RequirementRow(s)'.status # "DRAFT"
    BY DEF PublishedStaysComplete, Complete, WellFormed
  <2>1. /\ Complete(content)
        /\ \A s \in content.sources : RequirementRow(s).status # "DRAFT"
    BY DEF IInv, PublishedStaysComplete
  <2>2. \A s : RequirementRow(s)' = RequirementRow(s)
    OBVIOUS
  <2> HIDE DEF RequirementRow, vars
  <2> QED
    BY <2>1, <2>2 DEF Complete, WellFormed
<1>3. CasesBacked' /\ RequestsSound'
  BY DEF IInv, CasesBacked, RequestsSound, Sound, Backed
<1> QED
  BY <1>1, <1>2, <1>3 DEF IInv

\* The inductive invariant holds throughout.
THEOREM Invariance == Spec => []IInv
<1>1. IInv /\ RequestStep => IInv'
  BY TypeStep, DraftStep, PublishedStep, CasesBackedStep, RequestsSoundStep
     DEF IInv
<1>2. IInv /\ Next => IInv'
  BY <1>1, SeedInvariant DEF Next
<1> QED
  BY <1>2, InitInvariant, StutterInvariant, PTL DEF Spec

\* Every variable stays in its type: saves that raced name versions that exist,
\* and no key has more versions than its bound.
THEOREM TypeCorrect == Spec => []TypeOK
<1>1. IInv => TypeOK
  BY DEF IInv
<1> QED
  BY <1>1, Invariance, PTL

\* However saves, publications and disablings of any number of administrators
\* interleave, a key has one draft at most, its newest version.
THEOREM OneDraft == Spec => []DraftIsNewest
<1>1. IInv => DraftIsNewest
  BY DEF IInv
<1> QED
  BY <1>1, Invariance, PTL

\* A template version that was published stays complete over sources that are
\* no drafts, whatever is edited afterwards.
THEOREM PublicationIsSound == Spec => []PublishedStaysComplete
<1>1. IInv => PublishedStaysComplete
  BY DEF IInv
<1> QED
  BY <1>1, Invariance, PTL

\* Every case asks for the letter, also one created after its template was
\* disabled.
THEOREM EveryCaseHasLetter == Spec => []CasesAskForLetter
<1>1. ASSUME IInv
      PROVE  CasesAskForLetter
  <2> SUFFICES ASSUME NEW c \in cases
               PROVE  /\ \E s \in c.snapshot :
                           /\ s[1] = Authorization
                           /\ RequirementRow(s).definition = RequiredFile
                      /\ c.snapshot \subseteq TemplateRow(c.template).content.sources
    BY DEF CasesAskForLetter
  <2>1. Backed(c)
    BY <1>1 DEF IInv, CasesBacked
  <2>2. WellFormed(TemplateRow(c.template).content)
    BY <1>1, <2>1 DEF IInv, PublishedStaysComplete, Backed, Complete
  <2> QED
    BY <2>1, <2>2 DEF Backed, WellFormed
<1> QED
  BY <1>1, Invariance, PTL

\* No step changes the page or the definitions an existing case is made of.
THEOREM CasesNeverChange == Spec => CasesAreFixed
<1>1. ASSUME IInv, RequestStep, NEW c \in cases
      PROVE  c \in cases' /\ Rendering(c)' = Rendering(c)
  <2>1. c \in cases'
    BY <1>1
       DEF RequestStep, RequirementStep, TemplateStep, CaseStep, CreateRequirement,
           ObserveRequirement, SaveRequirement, PublishRequirement,
           DisableRequirement, EditTemplate, CopyTemplate, CreateTemplate,
           SaveTemplate, PublishTemplate, DisableTemplate, ResolveCase,
           CreateCase, Fail
  <2>2. /\ Backed(c)
        /\ \A s \in c.snapshot : RequirementRow(s).status # "DRAFT"
    BY <1>1 DEF IInv, CasesBacked, PublishedStaysComplete, Backed
  <2>3. c.snapshot \subseteq RequirementVersions
    BY <1>1, <2>2 DEF IInv, TypeOK, Backed
  <2>4. \A s \in c.snapshot :
          RequirementRow(s)'.definition = RequirementRow(s).definition
    BY <1>1, <2>2, <2>3, RequirementRowsKept DEF IInv
  <2>5. TemplateRow(c.template)'.content = TemplateRow(c.template).content
    BY <1>1, <2>2, TemplateRowsKept DEF IInv, Backed
  <2> QED
    BY <2>1, <2>4, <2>5 DEF Rendering
<1>2. ASSUME UNCHANGED vars, NEW c \in cases
      PROVE  c \in cases' /\ Rendering(c)' = Rendering(c)
  BY <1>2 DEF vars, Rendering, TemplateRow, RequirementRow
<1>3. ASSUME IInv, Seed, NEW c \in cases
      PROVE  c \in cases' /\ Rendering(c)' = Rendering(c)
  <2>1. Backed(c) /\ c.snapshot \subseteq RequirementVersions
    BY <1>3 DEF IInv, TypeOK, CasesBacked, Backed
  <2>2. /\ TemplateRow(c.template)' = TemplateRow(c.template)
        /\ \A s \in c.snapshot : RequirementRow(s)' = RequirementRow(s)
    BY <1>3, <2>1, SeedKeepsRows DEF IInv, Backed
  <2> QED
    BY <1>3, <2>2 DEF Seed, Rendering
<1>4. IInv /\ [Next]_vars
        => [\A c \in cases : c \in cases' /\ Rendering(c)' = Rendering(c)]_vars
  BY <1>1, <1>2, <1>3 DEF Next
<1> QED
  BY <1>4, Invariance, PTL DEF Spec, CasesAreFixed
=============================================================================
