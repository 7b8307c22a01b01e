------------------------------- MODULE Uploads -------------------------------
(***************************************************************************)
(* Files of one case, from the customer's page to the disk: the page's list *)
(* of uploads, the gate in front of the API, a request that writes the bytes *)
(* under a key of its own and then commits a row for them, or takes them     *)
(* away again, and the removal of a file.  Materials, signing resources and  *)
(* preview documents share the way; the worker adds the final document.      *)
(*                                                                           *)
(* Transactions of the API are serializable: each works on the rows it saw   *)
(* when it began, and of two that overlap and insert one is run again.  The  *)
(* worker's is READ COMMITTED: an open transaction of the API neither sees   *)
(* its row nor conflicts with it.                                            *)
(***************************************************************************)
EXTENDS Naturals, FiniteSets, Functions

CONSTANTS
  Uploads,      \* requests, each with a file id and a storage key of its own
  KindOf,       \* purpose of each: customers' files may be of any of them
  Contents,     \* bytes that may be sent
  Size,         \* sizeBytes of each of them
  FinalSize,    \* sizeBytes of the final document
  Capacity,     \* MAX_CASE_BYTES
  MaxFiles,     \* materials of a requirement the server accepts
  PageFiles,    \* materials of a requirement the page accepts
  MaxActive,    \* requests at once in a window of a gate
  MaxAttempts,  \* requests in a window of a gate
  MaxWindows,   \* bound: windows of a gate
  None

Gates == {"upload", "preview"}
Kinds == {"MATERIAL", "SIGNING", "PRESIGN_PDF"}

ASSUME ConstantsAssumption ==
  /\ IsFiniteSet(Uploads) /\ None \notin Uploads
  /\ KindOf \in [Uploads -> Kinds] /\ Contents # {}
  /\ Size \in [Contents -> Nat] /\ FinalSize \in Nat /\ Capacity \in Nat
  /\ MaxFiles \in Nat /\ PageFiles \in Nat /\ MaxWindows \in Nat \ {0}
  /\ MaxActive \in [Gates -> Nat] /\ MaxAttempts \in [Gates -> Nat]

VARIABLES
  page,     \* the entries of UploadStep
  deletes,  \* removals the page asked for and the server has not seen
  req,      \* requests in the API process
  gates,    \* the Map of each gate: its window, and every window's count
  rows,     \* FileRecord and FileVersion rows that are not removed
  removed,  \* those that are
  final,    \* the FINAL_PDF row
  objects,  \* keys in the storage
  signed,   \* the materials a valid signing covers, or None
  lost,     \* commits whose acknowledgement was lost (ghost)
  asked     \* files whose removal the page has asked for (ghost)

vars == <<page, deletes, req, gates, rows, removed, final, objects, signed,
          lost, asked>>
pageVars == <<page, deletes, asked>>
dbVars == <<rows, removed, final, signed>>

-----------------------------------------------------------------------------
(* Types *)

Windows == 1 .. MaxWindows

\* "removing" is an entry that left the list while its file is being deleted.
Entry ==
  [state : {"none", "uploading", "success", "error", "removing", "gone"},
   file : Uploads \cup {None}]
NoEntry == [state |-> "none", file |-> None]

Request ==
  [pc : {"idle", "sent", "gated", "written", "open", "reused", "failing",
         "ok", "failed", "dead"},
   bytes : Contents, window : 0 .. MaxWindows,
   saw : SUBSET Uploads, sawFinal : BOOLEAN,
   file : Uploads \cup {None}]

Gate == [window : Windows, attempts : Nat, active : [Windows -> Nat]]
FreshGate ==
  [window |-> 1, attempts |-> 0, active |-> [w \in Windows |-> 0]]

TypeOK ==
  /\ page \in [Uploads -> Entry]
  /\ deletes \subseteq Uploads
  /\ req \in [Uploads -> Request]
  /\ gates \in [Gates -> Gate]
  /\ rows \subseteq Uploads /\ removed \subseteq Uploads \ rows
  /\ final \in BOOLEAN
  /\ objects \subseteq Uploads
  /\ signed \in (SUBSET Uploads) \cup {None}
  /\ lost \subseteq Uploads /\ asked \subseteq Uploads

Init ==
  /\ page = [u \in Uploads |-> NoEntry]
  /\ deletes = {}
  /\ req = [u \in Uploads |->
              [pc |-> "idle", bytes |-> CHOOSE b \in Contents : TRUE,
               window |-> 0, saw |-> {}, sawFinal |-> FALSE, file |-> None]]
  /\ gates = [g \in Gates |-> FreshGate]
  /\ rows = {} /\ removed = {} /\ final = FALSE
  /\ objects = {}
  /\ signed = None
  /\ lost = {} /\ asked = {}

-----------------------------------------------------------------------------
(* Helpers *)

MaterialsOf(files) == {u \in files : KindOf[u] = "MATERIAL"}
Materials == MaterialsOf(rows)
GateOf(u) == IF KindOf[u] = "PRESIGN_PDF" THEN "preview" ELSE "upload"

\* FAULTY: the bytes are not compared.
SameKind(u, v) == KindOf[u] = KindOf[v]

\* What findFirst looks for before a row is created.
SameFile(u, v) == KindOf[u] = KindOf[v] /\ req[u].bytes = req[v].bytes

\* The sizeBytes of every upload.
Bytes == [u \in Uploads |-> Size[req[u].bytes]]

\* evidenceRetainedBytes(): no signing uses a material, and nothing else can
\* be removed, so that the rows which count are those not removed.
Retained(files, andFinal) ==
  SumFunctionOnSet(Bytes, files) + IF andFinal THEN FinalSize ELSE 0

\* FAULTY: the file itself is not counted.
WithinLimitsBefore(u) ==
  /\ KindOf[u] = "MATERIAL" => Cardinality(MaterialsOf(req[u].saw)) <= MaxFiles
  /\ Retained(req[u].saw, req[u].sawFinal) <= Capacity

\* validateMaterialCount(), maxFiles and validateCaseBytes(), over what the
\* transaction sees.
WithinLimits(u) ==
  /\ KindOf[u] = "MATERIAL" =>
       Cardinality(MaterialsOf(req[u].saw)) + 1 <= MaxFiles
  /\ Retained(req[u].saw, req[u].sawFinal) + Size[req[u].bytes] <= Capacity

\* A window of sixty seconds that is over is replaced by another, whose count
\* is zero; what is active in the old window is counted there.
NextWindow(gate) == [gate EXCEPT !.window = @ + 1, !.attempts = 0]

\* FAULTY: what ends is taken from the count of the window now open.
ReleasedNow(u) ==
  LET g == GateOf(u) IN
  [gates EXCEPT ![g].active[gates[g].window] = IF @ = 0 THEN 0 ELSE @ - 1]

Released(u) ==
  LET g == GateOf(u) IN
  [gates EXCEPT ![g].active[req[u].window] = IF @ = 0 THEN 0 ELSE @ - 1]

\* The requests whose admission is not yet released.  A preview is released
\* when it is rendered, before its bytes are written.
Holding(g) ==
  {u \in Uploads :
     /\ GateOf(u) = g
     /\ req[u].pc \in IF g = "preview" THEN {"gated"}
                      ELSE {"gated", "written", "open", "reused", "failing"}}

-----------------------------------------------------------------------------
(* The page: UploadStep *)

Listed == {u \in Uploads : page[u].state \in {"uploading", "success", "error"}}

\* What the page asks of one more file, its name and type aside: all entries
\* count, those with an error too.
PageAccepts(b) ==
  /\ Cardinality(Listed) < PageFiles
  /\ SumFunctionOnSet(Bytes, Listed) + Size[b] <= Capacity

\* beginUpload(): an entry too many is shown as an error and not sent.
BeginUpload(u, b) ==
  /\ KindOf[u] = "MATERIAL" /\ req[u].pc = "idle"
  /\ LET sent == PageAccepts(b) IN
     /\ page' = [page EXCEPT ![u].state = IF sent THEN "uploading" ELSE "error"]
     /\ req' = [req EXCEPT ![u].pc = IF sent THEN "sent" ELSE "dead",
                           ![u].bytes = b]
  /\ UNCHANGED <<deletes, gates, dbVars, objects, lost, asked>>

\* FAULTY: the entry takes the id of its own request.
AnswerOwn(u) ==
  /\ page[u].state = "uploading"
  /\ req[u].pc \in {"ok", "failed"}
  /\ page' = [page EXCEPT ![u] =
       IF req[u].pc = "ok" THEN [state |-> "success", file |-> u]
                           ELSE [state |-> "error", file |-> None]]
  /\ UNCHANGED <<deletes, req, gates, dbVars, objects, lost, asked>>

\* The answer arrives; an entry that was removed meanwhile is not there to
\* be updated.
Answer(u) ==
  /\ page[u].state = "uploading"
  /\ req[u].pc \in {"ok", "failed"}
  /\ page' = [page EXCEPT ![u] =
       IF req[u].pc = "ok" THEN [state |-> "success", file |-> req[u].file]
                           ELSE [state |-> "error", file |-> None]]
  /\ UNCHANGED <<deletes, req, gates, dbVars, objects, lost, asked>>

\* The connection breaks; the request may go on all the same.
Disconnect(u) ==
  /\ page[u].state = "uploading"
  /\ page' = [page EXCEPT ![u].state = "error"]
  /\ req' = [req EXCEPT ![u].pc = IF @ = "sent" THEN "dead" ELSE @]
  /\ UNCHANGED <<deletes, gates, dbVars, objects, lost, asked>>

\* remove(): every entry with the id leaves the list; one that has a file
\* has it deleted.  retry() is this and beginUpload() with the same bytes.
RemoveEntry(u) ==
  /\ u \in Listed
  /\ u \notin deletes
  /\ LET f == page[u].file IN
     /\ page' = [v \in Uploads |->
          IF v = u
          THEN [page[v] EXCEPT !.state = IF f = None THEN "gone" ELSE "removing"]
          ELSE IF v \in Listed /\ f # None /\ page[v].file = f
               THEN [page[v] EXCEPT !.state = "gone"] ELSE page[v]]
     /\ deletes' = IF f = None THEN deletes ELSE deletes \cup {u}
     /\ asked' = IF f = None THEN asked ELSE asked \cup {f}
  /\ UNCHANGED <<req, gates, dbVars, objects, lost>>

\* The entry comes back, unless the list has one with its id.
Restored(u) ==
  IF \E v \in Listed : page[v].file = page[u].file
  THEN [page EXCEPT ![u].state = "gone"]
  ELSE [page EXCEPT ![u].state = "success"]

\* The answer to a removal is lost, or the request before it is received.
RemovalFails(u) ==
  /\ page[u].state = "removing"
  /\ page' = Restored(u)
  /\ deletes' \in {deletes, deletes \ {u}}
  /\ UNCHANGED <<req, gates, dbVars, objects, lost, asked>>

-----------------------------------------------------------------------------
(* The API: removal *)

\* FAULTY: the record is written, the file stays among those not removed.
RemovePublicStays(u) ==
  LET f == page[u].file IN
  /\ u \in deletes
  /\ deletes' = deletes \ {u}
  /\ removed' = IF f \in Materials THEN removed \cup {f} ELSE removed
  /\ page' = IF page[u].state = "removing"
             THEN [page EXCEPT ![u].state = "gone"] ELSE page
  /\ UNCHANGED <<req, gates, rows, final, objects, signed, lost, asked>>

\* removePublic(): one serializable transaction; then its answer.  The bytes
\* stay.  404 makes the page restore the entry.
RemovePublic(u) ==
  LET f == page[u].file IN
  /\ u \in deletes
  /\ deletes' = deletes \ {u}
  /\ IF f \in Materials
     THEN /\ rows' = rows \ {f} /\ removed' = removed \cup {f}
          /\ signed' = None
          /\ page' \in {page, IF page[u].state = "removing"
                              THEN [page EXCEPT ![u].state = "gone"] ELSE page}
     ELSE /\ UNCHANGED <<rows, removed, signed>>
          /\ page' = IF page[u].state = "removing" THEN Restored(u) ELSE page
  /\ UNCHANGED <<req, gates, final, objects, lost, asked>>

-----------------------------------------------------------------------------
(* The API: an upload *)

\* uploadSigningResource() or createPresignPreview() is called.
Call(u, b) ==
  /\ KindOf[u] # "MATERIAL" /\ req[u].pc = "idle"
  /\ req' = [req EXCEPT ![u].pc = "sent", ![u].bytes = b]
  /\ UNCHANGED <<pageVars, gates, dbVars, objects, lost>>

\* canActivate() or acquirePreviewRender(): in the gate's window or, after
\* sixty seconds, in another.
Admit(u) ==
  LET g == GateOf(u) IN
  /\ req[u].pc = "sent"
  /\ \E gate \in {gates[g]} \cup
         IF 0 < gates[g].attempts /\ gates[g].window < MaxWindows
         THEN {NextWindow(gates[g])} ELSE {} :
       IF gate.attempts < MaxAttempts[g] /\ gate.active[gate.window] < MaxActive[g]
       THEN /\ gates' = [gates EXCEPT ![g] =
                           [gate EXCEPT !.attempts = @ + 1,
                                        !.active[gate.window] = @ + 1]]
            /\ req' = [req EXCEPT ![u].pc = "gated", ![u].window = gate.window]
       ELSE /\ req' = [req EXCEPT ![u].pc = "failed"]
            /\ UNCHANGED gates
  /\ UNCHANGED <<pageVars, dbVars, objects, lost>>

\* The bytes are refused by validateIncoming(), or storage.write() makes a
\* temporary file of them and renames it.
Write(u) ==
  /\ req[u].pc = "gated"
  /\ \/ objects' = objects \cup {u} /\ req' = [req EXCEPT ![u].pc = "written"]
     \/ UNCHANGED objects /\ req' = [req EXCEPT ![u].pc = "failing"]
  /\ gates' = IF GateOf(u) = "preview" THEN Released(u) ELSE gates
  /\ UNCHANGED <<pageVars, dbVars, lost>>

\* The transaction's first query takes its snapshot.
Begin(u) ==
  /\ req[u].pc = "written"
  /\ req' = [req EXCEPT ![u].pc = "open", ![u].saw = rows, ![u].sawFinal = final]
  /\ UNCHANGED <<pageVars, gates, dbVars, objects, lost>>

\* A request ends: its admission, if it still has one, is released.
Ends(u, pc, file) ==
  /\ req' = [req EXCEPT ![u].pc = pc, ![u].file = file, ![u].window = 0,
                        ![u].saw = {}, ![u].sawFinal = FALSE]
  /\ gates' = IF GateOf(u) = "upload" THEN Released(u) ELSE gates

\* The file is there already, as a row that is not removed.
Reuse(u) ==
  /\ req[u].pc = "open"
  /\ \E v \in req[u].saw :
       /\ SameFile(u, v)
       /\ req' = [req EXCEPT ![u].pc = "reused", ![u].file = v]
  /\ UNCHANGED <<pageVars, gates, dbVars, objects, lost>>

\* invalidateSigning(): a material changes what was signed; the seal and the
\* preview that a signing uses do not.
SigningAfter(u) == IF KindOf[u] = "MATERIAL" THEN None ELSE signed

\* FAULTY: READ COMMITTED, where nothing is run again.
RunOnce(r) == r

\* isRetryableWriteConflict(): transactions open while another commits its
\* insertion are run again.
RunAgain(r) == IF r.pc = "open" THEN [r EXCEPT !.pc = "written"] ELSE r

\* A row of its own; the acknowledgement of the commit may not reach the API.
Insert(u) ==
  /\ req[u].pc = "open"
  /\ ~\E v \in req[u].saw : SameFile(u, v)
  /\ WithinLimits(u)
  /\ rows' = rows \cup {u}
  /\ signed' = SigningAfter(u)
  /\ \E heard \in BOOLEAN :
       /\ req' = [v \in Uploads |->
            IF v # u THEN RunAgain(req[v])
            ELSE [req[u] EXCEPT !.pc = IF heard THEN "ok" ELSE "failing",
                                !.file = IF heard THEN u ELSE None,
                                !.window = IF heard THEN 0 ELSE @,
                                !.saw = {}, !.sawFinal = FALSE]]
       /\ gates' = IF heard /\ GateOf(u) = "upload" THEN Released(u) ELSE gates
       /\ lost' = IF heard THEN lost ELSE lost \cup {u}
  /\ UNCHANGED <<pageVars, removed, final, objects>>

\* A limit, a link that ended, changed content or the last attempt's conflict.
Refuse(u) ==
  /\ req[u].pc = "open"
  /\ req' = [req EXCEPT ![u].pc = "failing"]
  /\ UNCHANGED <<pageVars, gates, dbVars, objects, lost>>

\* FAULTY: the object of the file that is there already is removed.
DropEarlier(u) ==
  /\ req[u].pc = "reused"
  /\ objects' \in {objects, objects \ {req[u].file}}
  /\ Ends(u, "ok", req[u].file)
  /\ UNCHANGED <<pageVars, dbVars, lost>>

\* remove(storageKey).catch(): the request's own object, if it can be.
DropReused(u) ==
  /\ req[u].pc = "reused"
  /\ objects' \in {objects, objects \ {u}}
  /\ Ends(u, "ok", req[u].file)
  /\ UNCHANGED <<pageVars, dbVars, lost>>

DropFailed(u) ==
  /\ req[u].pc = "failing"
  /\ objects' \in {objects, objects \ {u}}
  /\ Ends(u, "failed", None)
  /\ UNCHANGED <<pageVars, dbVars, lost>>

\* The API process dies, and with it its requests and the gates' Maps.
Crash ==
  /\ \E g \in Gates : Holding(g) # {}
  /\ req' = [u \in Uploads |->
       IF req[u].pc \in {"idle", "ok", "failed", "dead"} THEN req[u]
       ELSE [req[u] EXCEPT !.pc = "dead", !.file = None, !.window = 0,
                           !.saw = {}, !.sawFinal = FALSE]]
  /\ gates' = [g \in Gates |-> FreshGate]
  /\ UNCHANGED <<pageVars, dbVars, objects, lost>>

-----------------------------------------------------------------------------
(* The rest of the case *)

\* prepareOrdinarySigning()
Sign ==
  /\ signed # Materials
  /\ signed' = Materials
  /\ UNCHANGED <<pageVars, req, gates, rows, removed, final, objects, lost>>

\* The worker's complete(): locks the case and counts what is committed.
CompleteFinal ==
  /\ ~final
  /\ Retained(rows, FALSE) + FinalSize <= Capacity
  /\ final' = TRUE
  /\ UNCHANGED <<pageVars, req, gates, rows, removed, objects, signed, lost>>

-----------------------------------------------------------------------------
PageStep(u) ==
  \/ \E b \in Contents : BeginUpload(u, b)
  \/ Answer(u) \/ Disconnect(u) \/ RemoveEntry(u) \/ RemovalFails(u)

ApiStep(u) ==
  \/ RemovePublic(u)
  \/ Admit(u) \/ Write(u) \/ Begin(u) \/ Reuse(u) \/ Insert(u) \/ Refuse(u)
  \/ DropReused(u) \/ DropFailed(u)

Next ==
  \/ \E u \in Uploads :
       PageStep(u) \/ ApiStep(u) \/ \E b \in Contents : Call(u, b)
  \/ Crash \/ Sign \/ CompleteFinal

Spec == Init /\ [][Next]_vars

-----------------------------------------------------------------------------
(* Safety *)

\* Bytes are written before their row is committed and, once it is, taken
\* away by nobody: after any crash, refusal, conflict, duplicate or removal a
\* row has its object - but for a commit whose acknowledgement was lost.
RowsHaveObjects ==
  rows \cup removed \subseteq objects \cup lost

\* Who is told that a file was accepted, its own or an earlier one with the
\* same bytes, can rely on it: the row is there, of this kind and with these
\* bytes, unless the customer had it removed.
AcceptedIsKept ==
  \A u \in Uploads :
    req[u].pc \in {"reused", "ok"} =>
      LET f == req[u].file IN
      /\ f \in rows \/ (f \in removed /\ f \in asked)
      /\ KindOf[f] = KindOf[u] /\ req[f].bytes = req[u].bytes

\* Requests that look for an equal file, count and insert at the same time
\* do not together pass a limit that each of them tests: no material twice
\* and none too many.
FilesAreFew ==
  /\ \A u, v \in rows :
       KindOf[u] = KindOf[v] /\ req[u].bytes = req[v].bytes => u = v
  /\ Cardinality(Materials) <= MaxFiles

\* Nor do they, nor the worker's completion between them, fill the case over
\* its capacity - but for one final document, which an open transaction
\* does not see.
CapacityKept == Retained(rows, FALSE) <= Capacity

\* A gate counts those inside it, each in the window that admitted it: the
\* count is never too low, so no window has too many, and never too high, so
\* that no customer stays locked out when the requests have ended.
GatesCount ==
  \A g \in Gates, w \in Windows :
    /\ gates[g].active[w] =
         Cardinality({u \in Holding(g) : req[u].window = w})
    /\ gates[g].active[w] <= MaxActive[g]

\* A valid signing covers the materials the case has, though uploads that
\* are reused, seals and previews do not end it.
SigningCoversFiles ==
  signed # None => signed = Materials

\* An entry the page shows as uploaded is a file the case has, unless this
\* page asked for the removal of that very file.
ShownIsKept ==
  \A u \in Uploads :
    page[u].state = "success" => page[u].file \in rows \cup asked

-----------------------------------------------------------------------------
(* Serializability *)

Accepted == [f \in rows \cup removed |-> req[f].bytes]
Answered == {u \in Uploads : req[u].pc = "ok"}
Answers ==
  [u \in Answered |-> [file |-> req[u].file, bytes |-> req[u].bytes]]

Files ==
  INSTANCE CaseFiles
    WITH files <- Accepted, kept <- rows, told <- Answers

\* However the requests overlap, conflict and are run again, fail, lose their
\* answers or die with the process, and whatever the worker commits between
\* them, the case's files are as if everybody had been served alone: what is
\* kept, what each sender is told, what is signed and what is removed.
ServedInTurn == Files!Spec
=============================================================================
