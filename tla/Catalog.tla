------------------------------- MODULE Catalog -------------------------------
(***************************************************************************)
(* The catalogue of requirements and templates, and the cases made          *)
(* from them.  Both have versions that go from draft to published to        *)
(* disabled; a template version names the requirement versions it asks for; *)
(* a case keeps the template version and the requirement versions it was    *)
(* created with.                                                           *)
(*                                                                         *)
(* Administrators act at the same time.  Publishing and disabling lock what *)
(* they read and are one action each.  Saving a requirement, writing a      *)
(* template and creating a case first read without a lock and write in a    *)
(* later transaction: two actions, with a request that remembers what was   *)
(* read.  Serializable transactions that PostgreSQL aborts are tried again, *)
(* and fail at the third attempt, see Fail.                                 *)
(***************************************************************************)
EXTENDS Naturals, Sequences, FiniteSets

CONSTANTS
  Requirements,   \* machine keys of requirements
  Authorization,  \* the built-in authorization_letter
  Definitions,    \* definitions an administrator may enter
  Templates,      \* machine keys of templates
  Asts,           \* page contents an administrator may draw
  Admins,         \* requests in flight
  SeedRequirements,  \* what the seed brings: requirements and a template
  SeedTemplate,
  MaxVersions,    \* bound: versions of a requirement, or of a template
  MaxRows,        \* bound: versions of them all
  MaxCases        \* bound: cases that differ in what they were made of

\* The parts of a definition that the checks on a template look at, and of a
\* template's page: the requirements its variables name, and whether it has a
\* signature slot that party A must sign.
Definition == [type : {"FILE", "TEXT"}, required : BOOLEAN]
Ast == [uses : SUBSET Requirements, signed : BOOLEAN]

ASSUME ConstantsAssumption ==
  /\ Authorization \in Requirements
  /\ Definitions \subseteq Definition
  /\ Asts \subseteq Ast
  /\ Authorization \in SeedRequirements /\ SeedRequirements \subseteq Requirements
  /\ SeedTemplate \in Templates
  /\ MaxVersions \in Nat \ {0}
  /\ MaxRows \in Nat /\ MaxCases \in Nat

VARIABLES
  requirements,  \* RequirementVersion rows of every requirement, by version
  templates,     \* TemplateVersion rows, each with its sources
  cases,         \* BusinessCase and CaseSnapshot: what cases were made of
  requests       \* what the requests in flight have read

vars == <<requirements, templates, cases, requests>>

-----------------------------------------------------------------------------
(* Types *)

VersionStatus == {"DRAFT", "PUBLISHED", "DISABLED"}

RequirementVersion == [status : VersionStatus, definition : Definition]
RequirementVersionId == Requirements \X (1 .. MaxVersions)

\* TemplateVersion with its TemplateVersionRequirement rows.
Content == [ast : Ast, sources : SUBSET RequirementVersionId]
TemplateVersion == [status : VersionStatus, content : Content]
TemplateVersionId == Templates \X (1 .. MaxVersions)

Case == [template : TemplateVersionId, snapshot : SUBSET RequirementVersionId]

Idle == [kind |-> "idle"]
RequirementSave ==
  [kind : {"requirement"}, key : Requirements,
   observed : 1 .. MaxVersions, definition : Definitions]
TemplateWrite ==
  [kind : {"create", "save", "rename"}, key : Templates, content : Content]
CaseCreation == [kind : {"case"}, made : Case]
Request == {Idle} \cup RequirementSave \cup TemplateWrite \cup CaseCreation

RequirementRow(v) == requirements[v[1]][v[2]]
TemplateRow(v) == templates[v[1]][v[2]]

RequirementVersions ==
  {v \in RequirementVersionId : v[2] <= Len(requirements[v[1]])}
TemplateVersions == {v \in TemplateVersionId : v[2] <= Len(templates[v[1]])}

Rows == Cardinality(RequirementVersions) + Cardinality(TemplateVersions)
Room == Rows < MaxRows

TypeOK ==
  /\ requirements \in [Requirements -> Seq(RequirementVersion)]
  /\ \A key \in Requirements : Len(requirements[key]) <= MaxVersions
  /\ templates \in [Templates -> Seq(TemplateVersion)]
  /\ \A key \in Templates : Len(templates[key]) <= MaxVersions
  /\ \A v \in TemplateVersions :
       TemplateRow(v).content.sources \subseteq RequirementVersions
  /\ cases \subseteq Case
  /\ requests \in [Admins -> Request]

\* An empty database.
Init ==
  /\ requirements = [key \in Requirements |-> <<>>]
  /\ templates = [key \in Templates |-> <<>>]
  /\ cases = {}
  /\ requests = [a \in Admins |-> Idle]

-----------------------------------------------------------------------------
(* What the checks on a template ask for *)

RequiredFile == [type |-> "FILE", required |-> TRUE]

\* validateTemplateStructure, which every write of a template by an editor
\* passes: no two sources with one key, an authorization letter that must be
\* uploaded, and variables that are the text of a source.
WellFormed(content) ==
  /\ \A v, w \in content.sources : v[1] = w[1] => v = w
  /\ \E v \in content.sources :
       v[1] = Authorization /\ RequirementRow(v).definition = RequiredFile
  /\ \A key \in content.ast.uses :
       \E v \in content.sources :
         v[1] = key /\ RequirementRow(v).definition.type = "TEXT"

\* validateTemplateForPublish without the statuses: also a slot for party A to
\* sign, and no required text that the page leaves out.
Complete(content) ==
  /\ WellFormed(content)
  /\ content.ast.signed
  /\ \A v \in content.sources :
       RequirementRow(v).definition = [type |-> "TEXT", required |-> TRUE]
         => v[1] \in content.ast.uses

-----------------------------------------------------------------------------
(* Helpers *)

Begin(admin, request) ==
  /\ requests[admin] = Idle
  /\ requests' = [requests EXCEPT ![admin] = request]

End(admin) == requests' = [requests EXCEPT ![admin] = Idle]

NewDraft(definition) == [status |-> "DRAFT", definition |-> definition]
DraftOf(content) == [status |-> "DRAFT", content |-> content]

-----------------------------------------------------------------------------
(* Faulty variants of definitions below: each is a mistake the code could     *)
(* have had, and one of the properties notices it.  Nothing here uses them.   *)

\* Noting the version before the latest.
ObserveRequirementOffByOne(admin, key, definition) ==
  /\ requirements[key] # <<>>
  /\ Begin(admin, [kind |-> "requirement", key |-> key,
                   observed |-> Len(requirements[key]) - 1,
                   definition |-> definition])
  /\ UNCHANGED <<requirements, templates, cases>>

\* Adding a version although the latest is still a draft.
SaveRequirementAlwaysAdds(admin) ==
  LET save == requests[admin] IN
  /\ save.kind = "requirement"
  /\ Len(requirements[save.key]) < MaxVersions /\ Room
  /\ requirements' =
       [requirements EXCEPT ![save.key] = Append(@, NewDraft(save.definition))]
  /\ End(admin)
  /\ UNCHANGED <<templates, cases>>

\* Publishing a template over requirements that are still drafts.
PublishableOverDrafts(content) == Complete(content)

\* Leaving out the letter when it was not asked for.
SelectedAsAsked(v, asked) == TemplateRow(v).content.sources \cap asked

\* Editing the latest version whatever its status.
SaveTemplateInPlace(admin) ==
  LET write == requests[admin]
      latest == Len(templates[write.key])
  IN
  /\ write.kind \in {"save", "rename"}
  /\ latest > 0
  /\ templates' =
       [templates EXCEPT ![write.key][latest].content = write.content]
  /\ End(admin)
  /\ UNCHANGED <<requirements, cases>>

-----------------------------------------------------------------------------
(* Requirements *)

CreateRequirement(key, definition) ==
  /\ Room
  /\ requirements[key] = <<>>
  /\ requirements' =
       [requirements EXCEPT ![key] = Append(@, NewDraft(definition))]
  /\ UNCHANGED <<templates, cases, requests>>

\* saveRequirementDraft notes which version is the latest ...
ObserveRequirement(admin, key, definition) ==
  /\ requirements[key] # <<>>
  /\ Begin(admin, [kind |-> "requirement", key |-> key,
                   observed |-> Len(requirements[key]),
                   definition |-> definition])
  /\ UNCHANGED <<requirements, templates, cases>>

\* ... and, if under the locks it still is, edits that draft or adds one.
SaveRequirement(admin) ==
  LET save == requests[admin]
      latest == Len(requirements[save.key])
      draft == NewDraft(save.definition)
  IN
  /\ save.kind = "requirement"
  /\ save.observed = latest
  /\ \/ /\ requirements[save.key][latest].status = "DRAFT"
        /\ requirements' =
             [requirements EXCEPT ![save.key][latest] = draft]
     \/ /\ requirements[save.key][latest].status # "DRAFT"
        /\ latest < MaxVersions /\ Room
        /\ requirements' =
             [requirements EXCEPT ![save.key] = Append(@, draft)]
  /\ End(admin)
  /\ UNCHANGED <<templates, cases>>

RequirementWithStatus(v, status) ==
  [requirements EXCEPT ![v[1]][v[2]].status = status]

PublishRequirement(v) ==
  /\ RequirementRow(v).status = "DRAFT"
  /\ requirements' = RequirementWithStatus(v, "PUBLISHED")
  /\ UNCHANGED <<templates, cases, requests>>

\* Reads the status without a lock; if another request disables in between, the
\* trigger protect_catalog_version refuses the write.
DisableRequirement(v) ==
  /\ RequirementRow(v).status = "PUBLISHED"
  /\ requirements' = RequirementWithStatus(v, "DISABLED")
  /\ UNCHANGED <<templates, cases, requests>>

-----------------------------------------------------------------------------
(* Templates *)

\* An editor's create or save looks at the definitions of the sources first;
\* by the time it writes, drafts among them may read differently.
EditTemplate(admin, kind, key, content) ==
  /\ WellFormed(content)
  /\ Begin(admin, [kind |-> kind, key |-> key, content |-> content])
  /\ UNCHANGED <<requirements, templates, cases>>

\* A copy takes the latest version as it is, with no check.
CopyTemplate(admin, original, key) ==
  /\ templates[original] # <<>>
  /\ Begin(admin,
           [kind |-> "create", key |-> key,
            content |-> templates[original][Len(templates[original])].content])
  /\ UNCHANGED <<requirements, templates, cases>>

\* The machine key is unique: a second create fails.
CreateTemplate(admin) ==
  LET write == requests[admin] IN
  /\ write.kind = "create"
  /\ Room
  /\ templates[write.key] = <<>>
  /\ templates' =
       [templates EXCEPT ![write.key] = Append(@, DraftOf(write.content))]
  /\ End(admin)
  /\ UNCHANGED <<requirements, cases>>

\* A new name is refused (protect_catalog_parent) once a version is published.
SaveTemplate(admin) ==
  LET write == requests[admin]
      versions == templates[write.key]
      latest == Len(versions)
  IN
  /\ write.kind \in {"save", "rename"}
  /\ versions # <<>>
  /\ write.kind = "rename" =>
       \A n \in 1 .. latest : versions[n].status = "DRAFT"
  /\ \/ /\ versions[latest].status = "DRAFT"
        /\ templates' =
             [templates EXCEPT ![write.key][latest] = DraftOf(write.content)]
     \/ /\ versions[latest].status # "DRAFT"
        /\ latest < MaxVersions /\ Room
        /\ templates' =
             [templates EXCEPT ![write.key] = Append(@, DraftOf(write.content))]
  /\ End(admin)
  /\ UNCHANGED <<requirements, cases>>

TemplateWithStatus(v, status) ==
  [templates EXCEPT ![v[1]][v[2]].status = status]

\* And the sources must be published: neither drafts nor disabled.
Publishable(content) ==
  /\ Complete(content)
  /\ \A v \in content.sources : RequirementRow(v).status = "PUBLISHED"

\* The template version and all its sources are locked while they are checked.
PublishTemplate(v) ==
  /\ TemplateRow(v).status = "DRAFT"
  /\ Publishable(TemplateRow(v).content)
  /\ templates' = TemplateWithStatus(v, "PUBLISHED")
  /\ UNCHANGED <<requirements, cases, requests>>

DisableTemplate(v) ==
  /\ TemplateRow(v).status = "PUBLISHED"
  /\ templates' = TemplateWithStatus(v, "DISABLED")
  /\ UNCHANGED <<requirements, cases, requests>>

-----------------------------------------------------------------------------
(* Cases *)

\* The requirements of a new case: those asked for, and always the letter.
Selected(v, asked) ==
  {s \in TemplateRow(v).content.sources : s \in asked \/ s[1] = Authorization}

\* A reference may be an id or a key that several published versions share,
\* and an unknown one falls back to some published version: any may be found.
\* Whether the requirement versions are disabled is not looked at.
ResolveCase(admin, v, asked) ==
  /\ TemplateRow(v).status = "PUBLISHED"
  /\ Selected(v, asked) # {}
  /\ Begin(admin, [kind |-> "case",
                   made |-> [template |-> v, snapshot |-> Selected(v, asked)]])
  /\ UNCHANGED <<requirements, templates, cases>>

\* Written later, and the template version may be disabled by then.
CreateCase(admin) ==
  /\ requests[admin].kind = "case"
  /\ Cardinality(cases) < MaxCases
  /\ cases' = cases \cup {requests[admin].made}
  /\ End(admin)
  /\ UNCHANGED <<requirements, templates>>

-----------------------------------------------------------------------------
(* The seed *)

\* An image is a file that need not be uploaded, as far as templates ask.
SeedDefinition(key) == [type |-> "FILE", required |-> key = Authorization]
SeedSources == SeedRequirements \X {1}

\* The built-in requirements, a template that asks for them all and has a slot to
\* sign, and example cases, in one transaction.  A key that is taken refuses it,
\* and so does a second run: it writes the definitions of versions that are
\* published, which protect_catalog_version forbids.
Seed ==
  /\ \A key \in SeedRequirements : requirements[key] = <<>>
  /\ templates[SeedTemplate] = <<>>
  /\ Rows + Cardinality(SeedRequirements) < MaxRows
  /\ Cardinality(cases) < MaxCases
  /\ requirements' =
       [key \in Requirements |->
          IF key \in SeedRequirements
          THEN <<[status |-> "PUBLISHED", definition |-> SeedDefinition(key)]>>
          ELSE requirements[key]]
  /\ templates' =
       [templates EXCEPT ![SeedTemplate] =
          <<[status |-> "PUBLISHED",
             content |-> [ast |-> [uses |-> {}, signed |-> TRUE],
                          sources |-> SeedSources]]>>]
  /\ cases' = cases \cup {[template |-> <<SeedTemplate, 1>>, snapshot |-> SeedSources]}
  /\ UNCHANGED requests

-----------------------------------------------------------------------------

\* A request ends without an effect: what it observed is no longer the latest,
\* the key is taken, a check or a trigger refuses, the third attempt at a
\* serializable transaction fails, or the process stops.
Fail(admin) ==
  /\ requests[admin] # Idle
  /\ End(admin)
  /\ UNCHANGED <<requirements, templates, cases>>

RequirementStep ==
  \/ \E key \in Requirements, definition \in Definitions :
       CreateRequirement(key, definition)
  \/ \E admin \in Admins, key \in Requirements, definition \in Definitions :
       ObserveRequirement(admin, key, definition)
  \/ \E admin \in Admins : SaveRequirement(admin)
  \/ \E v \in RequirementVersions :
       PublishRequirement(v) \/ DisableRequirement(v)

TemplateStep ==
  \/ \E admin \in Admins, ast \in Asts, sources \in SUBSET RequirementVersions,
        kind \in {"create", "save", "rename"}, key \in Templates :
       EditTemplate(admin, kind, key, [ast |-> ast, sources |-> sources])
  \/ \E admin \in Admins, original \in Templates, key \in Templates :
       CopyTemplate(admin, original, key)
  \/ \E admin \in Admins : CreateTemplate(admin) \/ SaveTemplate(admin)
  \/ \E v \in TemplateVersions : PublishTemplate(v) \/ DisableTemplate(v)

CaseStep ==
  \/ \E admin \in Admins, v \in TemplateVersions :
       \E asked \in SUBSET TemplateRow(v).content.sources :
         ResolveCase(admin, v, asked)
  \/ \E admin \in Admins : CreateCase(admin)

RequestStep ==
  \/ RequirementStep
  \/ TemplateStep
  \/ CaseStep
  \/ \E admin \in Admins : Fail(admin)

Next == RequestStep \/ Seed

Spec == Init /\ [][Next]_vars

-----------------------------------------------------------------------------
(* Properties *)

\* Only the newest version of a requirement or template can be a draft: however
\* saves, publications and disablings interleave, there is one draft to edit.
DraftIsNewest ==
  /\ \A v \in RequirementVersions :
       RequirementRow(v).status = "DRAFT" => v[2] = Len(requirements[v[1]])
  /\ \A v \in TemplateVersions :
       TemplateRow(v).status = "DRAFT" => v[2] = Len(templates[v[1]])

\* What was checked at publication still holds: the sources of a template
\* version that is no longer a draft are no drafts either, and with them it is
\* complete, though drafts changed under the editor (publishTemplateAtomically
\* checks again, on locked rows).
PublishedStaysComplete ==
  \A v \in TemplateVersions :
    TemplateRow(v).status # "DRAFT" =>
      /\ Complete(TemplateRow(v).content)
      /\ \A s \in TemplateRow(v).content.sources :
           RequirementRow(s).status # "DRAFT"

\* Every case asks for an authorization letter that must be uploaded, whatever
\* was asked for (resolveRequirements), and only for what its template names.
CasesAskForLetter ==
  \A c \in cases :
    /\ \E s \in c.snapshot :
         s[1] = Authorization /\ RequirementRow(s).definition = RequiredFile
    /\ c.snapshot \subseteq TemplateRow(c.template).content.sources

\* What a case is rendered from.
Rendering(c) ==
  [page |-> TemplateRow(c.template).content.ast,
   asks |-> [s \in c.snapshot |-> RequirementRow(s).definition]]

\* No step of anyone changes the page or the definitions of an existing case:
\* editing, renaming and disabling leave it the versions it was made with.
CasesAreFixed ==
  [][\A c \in cases : c \in cases' /\ Rendering(c)' = Rendering(c)]_vars
=============================================================================
