---------------------------- MODULE Uploads_proofs ----------------------------
(* Theorems of Uploads, for any uploads, contents, sizes and limits. *)
EXTENDS Uploads, FiniteSetTheorems, SumTheorems, TLAPS

-----------------------------------------------------------------------------
(* Types *)

LEMMA InitTyped ==
  ASSUME Init
  PROVE  TypeOK
<1>1. (CHOOSE b \in Contents : TRUE) \in Contents
  BY ConstantsAssumption
<1>2. req \in [Uploads -> Request]
  BY <1>1, ConstantsAssumption DEF Init, Request
<1>3. FreshGate \in Gate
  BY ConstantsAssumption DEF FreshGate, Gate, Windows
<1>4. gates \in [Gates -> Gate]
  BY <1>3 DEF Init
<1>5. page \in [Uploads -> Entry]
  BY DEF Init, NoEntry, Entry
<1>6. signed \in (SUBSET Uploads) \cup {None}
  BY DEF Init
<1> QED BY <1>2, <1>4, <1>5, <1>6 DEF Init, TypeOK

LEMMA NoWindow == 0 \in 0 .. MaxWindows
  BY ConstantsAssumption

\* A gate whose count changes in one window is a gate.
LEMMA ReleasedTyped ==
  ASSUME TypeOK, NEW u \in Uploads
  PROVE  Released(u) \in [Gates -> Gate]
<1>1. GateOf(u) \in Gates
  BY DEF GateOf, Gates
<1>2. ASSUME NEW n \in Nat PROVE (IF n = 0 THEN 0 ELSE n - 1) \in Nat
  OBVIOUS
<1>3. gates[GateOf(u)] \in Gate
  BY <1>1 DEF TypeOK
<1>4. [gates[GateOf(u)] EXCEPT !.active[req[u].window] =
         IF @ = 0 THEN 0 ELSE @ - 1] \in Gate
  BY <1>3 DEF Gate
<1> QED BY <1>1, <1>3, <1>4 DEF Released, TypeOK

LEMMA EndsTyped ==
  ASSUME TypeOK, NEW u \in Uploads, NEW pc \in {"ok", "failed"},
         NEW file \in Uploads \cup {None}, Ends(u, pc, file)
  PROVE  req' \in [Uploads -> Request] /\ gates' \in [Gates -> Gate]
<1>1. req' \in [Uploads -> Request]
  <2>1. req[u] \in Request
    BY DEF TypeOK
  <2>2. [req[u] EXCEPT !.pc = pc, !.file = file, !.window = 0, !.saw = {},
                       !.sawFinal = FALSE] \in Request
    BY <2>1, NoWindow DEF Request
  <2> QED BY <2>1, <2>2 DEF Ends, TypeOK
<1>2. gates' \in [Gates -> Gate]
  BY ReleasedTyped DEF Ends, TypeOK
<1> QED BY <1>1, <1>2

LEMMA RestoredTyped ==
  ASSUME TypeOK, NEW u \in Uploads
  PROVE  Restored(u) \in [Uploads -> Entry]
  BY DEF Restored, TypeOK, Entry

LEMMA PageTyped ==
  ASSUME TypeOK, NEW u \in Uploads, PageStep(u)
  PROVE  TypeOK'
<1> USE DEF dbVars, pageVars
<1>1. ASSUME NEW b \in Contents, BeginUpload(u, b)
      PROVE  TypeOK'
  <2>1. req' \in [Uploads -> Request]
    <3>1. req[u] \in Request
      BY DEF TypeOK
    <3>2. [req[u] EXCEPT
            !.pc = IF PageAccepts(b) THEN "sent" ELSE "dead",
            !.bytes = b] \in Request
      BY <3>1 DEF Request
    <3> QED BY <1>1, <3>1, <3>2 DEF BeginUpload, TypeOK
  <2>2. page' \in [Uploads -> Entry]
    BY <1>1 DEF BeginUpload, TypeOK, Entry
  <2> QED BY <1>1, <2>1, <2>2 DEF BeginUpload, TypeOK
<1>2. CASE Answer(u)
  <2>1. req[u].file \in Uploads \cup {None}
    BY DEF TypeOK, Request
  <2>2. page' \in [Uploads -> Entry]
    BY <1>2, <2>1 DEF Answer, TypeOK, Entry
  <2> QED BY <1>2, <2>2 DEF Answer, TypeOK
<1>3. CASE Disconnect(u)
  <2>1. req' \in [Uploads -> Request]
    BY <1>3 DEF Disconnect, TypeOK, Request
  <2>2. page' \in [Uploads -> Entry]
    BY <1>3 DEF Disconnect, TypeOK, Entry
  <2> QED BY <1>3, <2>1, <2>2 DEF Disconnect, TypeOK
<1>4. CASE RemoveEntry(u)
  <2>1. page' \in [Uploads -> Entry]
    BY <1>4 DEF RemoveEntry, TypeOK, Entry
  <2>2. page[u].file \in Uploads \cup {None}
    BY DEF TypeOK, Entry
  <2>3. deletes' \subseteq Uploads /\ asked' \subseteq Uploads
    BY <1>4, <2>2 DEF RemoveEntry, TypeOK
  <2> QED BY <1>4, <2>1, <2>3 DEF RemoveEntry, TypeOK
<1>5. CASE RemovalFails(u)
  BY <1>5, RestoredTyped DEF RemovalFails, TypeOK
<1> QED BY <1>1, <1>2, <1>3, <1>4, <1>5 DEF PageStep

LEMMA AdmitTyped ==
  ASSUME TypeOK, NEW u \in Uploads, Admit(u)
  PROVE  TypeOK'
<1>1. GateOf(u) \in Gates
  BY DEF GateOf, Gates
<1>2. gates[GateOf(u)] \in Gate
  BY <1>1 DEF TypeOK
<1>3. ASSUME gates[GateOf(u)].window < MaxWindows
      PROVE  NextWindow(gates[GateOf(u)]) \in Gate
  <2>1. gates[GateOf(u)].window + 1 \in Windows
    BY <1>2, <1>3, ConstantsAssumption DEF Gate, Windows
  <2> QED BY <1>2, <2>1 DEF NextWindow, Gate
<1>4. PICK gate \in Gate :
        \/ /\ gates' = [gates EXCEPT ![GateOf(u)] =
                         [gate EXCEPT !.attempts = @ + 1,
                                      !.active[gate.window] = @ + 1]]
           /\ req' = [req EXCEPT ![u].pc = "gated", ![u].window = gate.window]
        \/ /\ req' = [req EXCEPT ![u].pc = "failed"]
           /\ UNCHANGED gates
  BY <1>2, <1>3 DEF Admit
<1>5. [gate EXCEPT !.attempts = @ + 1, !.active[gate.window] = @ + 1] \in Gate
  <2>1. gate.window \in Windows /\ gate.attempts + 1 \in Nat
    BY DEF Gate
  <2>2. [gate.active EXCEPT ![gate.window] = @ + 1] \in [Windows -> Nat]
    BY <2>1 DEF Gate
  <2> QED BY <2>1, <2>2 DEF Gate
<1>6. gates' \in [Gates -> Gate]
  BY <1>4, <1>5 DEF TypeOK
<1>7. gate.window \in 0 .. MaxWindows
  BY ConstantsAssumption DEF Gate, Windows
<1>8. req' \in [Uploads -> Request]
  BY <1>4, <1>7 DEF TypeOK, Request
<1> QED BY <1>6, <1>8 DEF Admit, TypeOK, pageVars, dbVars

LEMMA InsertTyped ==
  ASSUME TypeOK, NEW u \in Uploads, Insert(u), u \notin removed
  PROVE  TypeOK'
<1>1. PICK heard \in BOOLEAN :
        /\ req' = [v \in Uploads |->
             IF v # u THEN RunAgain(req[v])
             ELSE [req[u] EXCEPT !.pc = IF heard THEN "ok" ELSE "failing",
                                 !.file = IF heard THEN u ELSE None,
                                 !.window = IF heard THEN 0 ELSE @,
                                 !.saw = {}, !.sawFinal = FALSE]]
        /\ gates' = IF heard /\ GateOf(u) = "upload" THEN Released(u) ELSE gates
        /\ lost' = IF heard THEN lost ELSE lost \cup {u}
  BY DEF Insert
<1>2. \A v \in Uploads : RunAgain(req[v]) \in Request
  BY DEF RunAgain, TypeOK, Request
<1>3. [req[u] EXCEPT !.pc = IF heard THEN "ok" ELSE "failing",
                     !.file = IF heard THEN u ELSE None,
                     !.window = IF heard THEN 0 ELSE @,
                     !.saw = {}, !.sawFinal = FALSE] \in Request
  <2>1. req[u] \in Request
    BY DEF TypeOK
  <2>2. (IF heard THEN 0 ELSE req[u].window) \in 0 .. MaxWindows
    BY <2>1, NoWindow DEF Request
  <2> QED BY <2>1, <2>2, NoWindow DEF Request
<1>4. req' \in [Uploads -> Request]
  BY <1>1, <1>2, <1>3
<1>5. gates' \in [Gates -> Gate]
  BY <1>1, ReleasedTyped DEF TypeOK
<1>6. signed' \in (SUBSET Uploads) \cup {None}
  <2>1. signed' = None \/ signed' = signed
    BY DEF Insert, SigningAfter
  <2> QED BY <2>1 DEF TypeOK
<1> QED BY <1>1, <1>4, <1>5, <1>6 DEF Insert, TypeOK, pageVars

LEMMA ApiTyped ==
  ASSUME TypeOK, NEW u \in Uploads, ApiStep(u),
         req[u].pc = "open" => u \notin removed
  PROVE  TypeOK'
<1> USE DEF dbVars, pageVars
<1>1. CASE RemovePublic(u)
  <2>1. page' \in [Uploads -> Entry]
    BY <1>1, RestoredTyped DEF RemovePublic, TypeOK, Entry
  <2>2. rows' \subseteq Uploads /\ removed' \subseteq Uploads \ rows'
    BY <1>1 DEF RemovePublic, TypeOK, Materials, MaterialsOf
  <2>3. signed' \in (SUBSET Uploads) \cup {None}
    <3>1. signed' = None \/ signed' = signed
      BY <1>1 DEF RemovePublic
    <3> QED BY <3>1 DEF TypeOK
  <2> QED BY <1>1, <2>1, <2>2, <2>3 DEF RemovePublic, TypeOK
<1>2. CASE Admit(u)
  BY <1>2, AdmitTyped
<1>3. CASE Write(u)
  <2>1. req' \in [Uploads -> Request]
    BY <1>3 DEF Write, TypeOK, Request
  <2> QED BY <1>3, <2>1, ReleasedTyped DEF Write, TypeOK
<1>4. CASE Begin(u)
  <2>1. req' \in [Uploads -> Request]
    <3>1. req[u] \in Request
      BY DEF TypeOK
    <3>2. [req[u] EXCEPT !.pc = "open", !.saw = rows, !.sawFinal = final] \in Request
      BY <3>1 DEF TypeOK, Request
    <3> QED BY <1>4, <3>1, <3>2 DEF Begin, TypeOK
  <2> QED BY <1>4, <2>1 DEF Begin, TypeOK
<1>5. CASE Reuse(u)
  <2>1. PICK v \in req[u].saw :
          req' = [req EXCEPT ![u].pc = "reused", ![u].file = v]
    BY <1>5 DEF Reuse
  <2>2. v \in Uploads
    BY DEF TypeOK, Request
  <2>3. req' \in [Uploads -> Request]
    <3>1. req[u] \in Request
      BY DEF TypeOK
    <3>2. [req[u] EXCEPT !.pc = "reused", !.file = v] \in Request
      BY <2>2, <3>1 DEF Request
    <3> QED BY <2>1, <3>1, <3>2 DEF TypeOK
  <2> QED BY <1>5, <2>3 DEF Reuse, TypeOK
<1>6. CASE Insert(u)
  BY <1>6, InsertTyped DEF Insert
<1>7. CASE Refuse(u)
  <2>1. req' \in [Uploads -> Request]
    BY <1>7 DEF Refuse, TypeOK, Request
  <2> QED BY <1>7, <2>1 DEF Refuse, TypeOK
<1>8. CASE DropReused(u)
  <2>1. req[u].file \in Uploads \cup {None}
    BY DEF TypeOK, Request
  <2> QED BY <1>8, <2>1, EndsTyped DEF DropReused, TypeOK
<1>9. CASE DropFailed(u)
  BY <1>9, EndsTyped DEF DropFailed, TypeOK
<1> QED BY <1>1, <1>2, <1>3, <1>4, <1>5, <1>6, <1>7, <1>8, <1>9 DEF ApiStep

LEMMA RestTyped ==
  ASSUME TypeOK,
         \/ \E u \in Uploads, b \in Contents : Call(u, b)
         \/ Crash \/ Sign \/ CompleteFinal \/ UNCHANGED vars
  PROVE  TypeOK'
<1> USE DEF dbVars, pageVars
<1>1. ASSUME NEW u \in Uploads, NEW b \in Contents, Call(u, b)
      PROVE  TypeOK'
  <2>1. req' \in [Uploads -> Request]
    BY <1>1 DEF Call, TypeOK, Request
  <2> QED BY <1>1, <2>1 DEF Call, TypeOK
<1>2. CASE Crash
  <2>1. req' \in [Uploads -> Request]
    <3>1. ASSUME NEW u \in Uploads
          PROVE  [req[u] EXCEPT !.pc = "dead", !.file = None, !.window = 0,
                                !.saw = {}, !.sawFinal = FALSE] \in Request
      <4>1. req[u] \in Request
        BY DEF TypeOK
      <4> QED BY <4>1, NoWindow DEF Request
    <3> QED BY <1>2, <3>1 DEF Crash, TypeOK
  <2>2. FreshGate \in Gate
    BY ConstantsAssumption DEF FreshGate, Gate, Windows
  <2> QED BY <1>2, <2>1, <2>2 DEF Crash, TypeOK
<1>3. CASE Sign
  BY <1>3 DEF Sign, TypeOK, Materials, MaterialsOf
<1>4. CASE CompleteFinal
  BY <1>4 DEF CompleteFinal, TypeOK
<1>5. CASE UNCHANGED vars
  BY <1>5 DEF vars, TypeOK
<1> QED BY <1>1, <1>2, <1>3, <1>4, <1>5
-----------------------------------------------------------------------------
(* Rows and objects *)

\* A request that may still insert has no row yet; one that failed has none
\* or was not told of it.
Fresh ==
  \A u \in Uploads :
    /\ req[u].pc \in {"idle", "sent", "gated", "written", "open", "reused"} =>
         u \notin rows \cup removed
    /\ req[u].pc = "failing" => u \notin rows \cup removed \/ u \in lost
    /\ req[u].pc \in {"written", "open"} => u \in objects

Stored == Fresh /\ RowsHaveObjects

\* The request in its next state, by field.
LEMMA InsertRequest ==
  ASSUME TypeOK, NEW u \in Uploads, Insert(u)
  PROVE  /\ \/ /\ req'[u].pc = "ok" /\ req'[u].file = u /\ lost' = lost
            \/ /\ req'[u].pc = "failing" /\ lost' = lost \cup {u}
         /\ req'[u].bytes = req[u].bytes
         /\ \A v \in Uploads : v # u =>
              /\ req'[v].pc = IF req[v].pc = "open" THEN "written" ELSE req[v].pc
              /\ req'[v].file = req[v].file /\ req'[v].bytes = req[v].bytes
              /\ req'[v].window = req[v].window /\ req'[v].saw = req[v].saw
<1>1. PICK heard \in BOOLEAN :
        /\ req' = [v \in Uploads |->
             IF v # u THEN RunAgain(req[v])
             ELSE [req[u] EXCEPT !.pc = IF heard THEN "ok" ELSE "failing",
                                 !.file = IF heard THEN u ELSE None,
                                 !.window = IF heard THEN 0 ELSE @,
                                 !.saw = {}, !.sawFinal = FALSE]]
        /\ lost' = IF heard THEN lost ELSE lost \cup {u}
  BY DEF Insert
<1>2. \A v \in Uploads : req[v] \in Request
  BY DEF TypeOK
<1>3. ASSUME NEW v \in Uploads, v # u
      PROVE  /\ req'[v].pc = IF req[v].pc = "open" THEN "written" ELSE req[v].pc
             /\ req'[v].file = req[v].file /\ req'[v].bytes = req[v].bytes
             /\ req'[v].window = req[v].window /\ req'[v].saw = req[v].saw
  BY <1>1, <1>2, <1>3 DEF RunAgain, Request
<1>4. req[u] \in Request
  BY <1>2
<1>5. CASE heard = TRUE
  BY <1>1, <1>3, <1>4, <1>5 DEF Request
<1>6. CASE heard = FALSE
  BY <1>1, <1>3, <1>4, <1>6 DEF Request
<1> QED BY <1>5, <1>6

LEMMA EndsRequest ==
  ASSUME TypeOK, NEW u \in Uploads, NEW pc, NEW file, Ends(u, pc, file)
  PROVE  /\ req'[u].pc = pc /\ req'[u].file = file
         /\ req'[u].bytes = req[u].bytes
         /\ \A v \in Uploads : v # u => req'[v] = req[v]
<1>1. req[u] \in Request
  BY DEF TypeOK
<1> QED BY <1>1 DEF Ends, TypeOK, Request

LEMMA CrashRequest ==
  ASSUME TypeOK, Crash, NEW u \in Uploads
  PROVE  /\ \/ req'[u] = req[u] /\ req[u].pc \in {"idle", "ok", "failed", "dead"}
            \/ req'[u].pc = "dead"
         /\ req'[u].bytes = req[u].bytes
<1>1. req[u] \in Request
  BY DEF TypeOK
<1> QED BY <1>1 DEF Crash, Request

\* Other steps of a request: its stage changes, perhaps its bytes if it was
\* idle, and its file if it is reused.
LEMMA StageRequest ==
  ASSUME TypeOK, NEW u \in Uploads, NEW b \in Contents,
         \/ BeginUpload(u, b) \/ Call(u, b) \/ Disconnect(u) \/ Admit(u)
         \/ Write(u) \/ Begin(u) \/ Reuse(u) \/ Refuse(u)
  PROVE  /\ \A v \in Uploads : v # u => req'[v] = req[v]
         /\ req'[u].bytes = req[u].bytes \/ req[u].pc = "idle"
         /\ req'[u].file = req[u].file \/ Reuse(u)
<1>1. req[u] \in Request
  BY DEF TypeOK
<1>2. CASE BeginUpload(u, b) \/ Call(u, b)
  BY <1>1, <1>2 DEF BeginUpload, Call, TypeOK, Request
<1>3. CASE Disconnect(u) \/ Write(u) \/ Begin(u) \/ Refuse(u)
  BY <1>1, <1>3 DEF Disconnect, Write, Begin, Refuse, TypeOK, Request
<1>4. CASE Admit(u)
  <2>1. \/ req' = [req EXCEPT ![u].pc = "failed"]
        \/ \E w : req' = [req EXCEPT ![u].pc = "gated", ![u].window = w]
    BY <1>4 DEF Admit
  <2> QED BY <1>1, <2>1 DEF TypeOK, Request
<1>5. CASE Reuse(u)
  <2>1. \E v : req' = [req EXCEPT ![u].pc = "reused", ![u].file = v]
    BY <1>5 DEF Reuse
  <2>2. /\ \A v \in Uploads : v # u => req'[v] = req[v]
        /\ req'[u].bytes = req[u].bytes
    BY <1>1, <2>1 DEF TypeOK, Request
  <2> QED BY <1>5, <2>2
<1> QED BY <1>2, <1>3, <1>4, <1>5

\* Where it goes.
LEMMA StageReached ==
  ASSUME TypeOK, NEW u \in Uploads
  PROVE  /\ \A b \in Contents : BeginUpload(u, b) =>
              req[u].pc = "idle" /\ req'[u].pc \in {"sent", "dead"}
         /\ \A b \in Contents : Call(u, b) =>
              req[u].pc = "idle" /\ req'[u].pc = "sent"
         /\ Disconnect(u) =>
              req'[u].pc = IF req[u].pc = "sent" THEN "dead" ELSE req[u].pc
         /\ Admit(u) => req[u].pc = "sent" /\ req'[u].pc \in {"gated", "failed"}
         /\ Write(u) =>
              /\ req[u].pc = "gated"
              /\ \/ req'[u].pc = "written" /\ objects' = objects \cup {u}
                 \/ req'[u].pc = "failing" /\ objects' = objects
         /\ Begin(u) => /\ req[u].pc = "written" /\ req'[u].pc = "open"
                        /\ req'[u].saw = rows
         /\ Reuse(u) => /\ req[u].pc = "open" /\ req'[u].pc = "reused"
                        /\ req'[u].file \in req[u].saw
                        /\ SameFile(u, req'[u].file)
         /\ Refuse(u) => req[u].pc = "open" /\ req'[u].pc = "failing"
<1>1. req[u] \in Request
  BY DEF TypeOK
<1>2. /\ \A b \in Contents : BeginUpload(u, b) =>
           req[u].pc = "idle" /\ req'[u].pc \in {"sent", "dead"}
      /\ \A b \in Contents : Call(u, b) =>
           req[u].pc = "idle" /\ req'[u].pc = "sent"
      /\ Disconnect(u) =>
           req'[u].pc = IF req[u].pc = "sent" THEN "dead" ELSE req[u].pc
  BY <1>1 DEF BeginUpload, Call, Disconnect, TypeOK, Request
<1>3. Admit(u) => req[u].pc = "sent" /\ req'[u].pc \in {"gated", "failed"}
  BY <1>1 DEF Admit, TypeOK, Request
<1>4. Write(u) =>
        /\ req[u].pc = "gated"
        /\ \/ req'[u].pc = "written" /\ objects' = objects \cup {u}
           \/ req'[u].pc = "failing" /\ objects' = objects
  BY <1>1 DEF Write, TypeOK, Request
<1>5. Begin(u) => /\ req[u].pc = "written" /\ req'[u].pc = "open"
                  /\ req'[u].saw = rows
  BY <1>1 DEF Begin, TypeOK, Request
<1>6. Reuse(u) => /\ req[u].pc = "open" /\ req'[u].pc = "reused"
                  /\ req'[u].file \in req[u].saw
                  /\ SameFile(u, req'[u].file)
  <2>1. ASSUME NEW v \in req[u].saw, SameFile(u, v),
               req' = [req EXCEPT ![u].pc = "reused", ![u].file = v]
        PROVE  /\ req'[u].pc = "reused" /\ req'[u].file \in req[u].saw
               /\ SameFile(u, req'[u].file)
    <3>1. req'[u].pc = "reused" /\ req'[u].file = v
      BY <1>1, <2>1 DEF TypeOK, Request
    <3> QED BY <2>1, <3>1 DEF SameFile
  <2> QED BY <2>1 DEF Reuse
<1>7. Refuse(u) => req[u].pc = "open" /\ req'[u].pc = "failing"
  BY <1>1 DEF Refuse, TypeOK, Request
<1> QED BY <1>2, <1>3, <1>4, <1>5, <1>6, <1>7

LEMMA StoredInductive ==
  ASSUME TypeOK, Stored, [Next]_vars
  PROVE  Stored'
<1> USE DEF dbVars, pageVars
<1>1. ASSUME NEW u \in Uploads, NEW b \in Contents,
             \/ BeginUpload(u, b) \/ Call(u, b) \/ Disconnect(u) \/ Admit(u)
             \/ Write(u) \/ Begin(u) \/ Reuse(u) \/ Refuse(u)
      PROVE  Stored'
  <2>1. /\ UNCHANGED <<rows, removed, lost>>
        /\ objects \subseteq objects'
        /\ Write(u) \/ objects' = objects
    BY <1>1 DEF BeginUpload, Call, Disconnect, Admit, Write, Begin, Reuse, Refuse
  <2>2. \A v \in Uploads : v # u => req'[v] = req[v]
    BY <1>1, StageRequest
  <2>3. /\ req'[u].pc \in {"idle", "sent", "gated", "written", "open", "reused"}
             => req[u].pc \in {"idle", "sent", "gated", "written", "open", "reused"}
        /\ req'[u].pc = "failing" => req[u].pc \in {"gated", "open", "failing"}
        /\ req'[u].pc \in {"written", "open"} =>
             u \in objects' \/ req[u].pc \in {"written", "open"}
    BY <1>1, StageReached
  <2> QED BY <2>1, <2>2, <2>3 DEF Stored, Fresh, RowsHaveObjects
<1>2. ASSUME NEW u \in Uploads, Insert(u)
      PROVE  Stored'
  <2>1. /\ req[u].pc = "open" /\ rows' = rows \cup {u}
        /\ UNCHANGED <<removed, objects>>
    BY <1>2 DEF Insert
  <2> QED BY <1>2, <2>1, InsertRequest DEF Stored, Fresh, RowsHaveObjects
<1>3. ASSUME NEW u \in Uploads, DropReused(u) \/ DropFailed(u)
      PROVE  Stored'
  <2>1. /\ UNCHANGED <<rows, removed, lost>>
        /\ objects' \in {objects, objects \ {u}}
        /\ req[u].pc \in {"reused", "failing"}
    BY <1>3 DEF DropReused, DropFailed
  <2>2. /\ req'[u].pc \in {"ok", "failed"}
        /\ \A v \in Uploads : v # u => req'[v] = req[v]
    BY <1>3, EndsRequest DEF DropReused, DropFailed
  <2> QED BY <2>1, <2>2 DEF Stored, Fresh, RowsHaveObjects
<1>4. ASSUME NEW u \in Uploads, RemovePublic(u)
      PROVE  Stored'
  <2>1. rows' \cup removed' = rows \cup removed
    BY <1>4 DEF RemovePublic, Materials, MaterialsOf
  <2> QED BY <1>4, <2>1 DEF RemovePublic, Stored, Fresh, RowsHaveObjects
<1>5. CASE Crash
  <2>1. UNCHANGED <<rows, removed, objects, lost>>
    BY <1>5 DEF Crash
  <2> QED BY <1>5, <2>1, CrashRequest DEF Stored, Fresh, RowsHaveObjects
<1>6. CASE \/ Sign \/ CompleteFinal \/ UNCHANGED vars
           \/ \E u \in Uploads : Answer(u) \/ RemoveEntry(u) \/ RemovalFails(u)
  <2>1. UNCHANGED <<req, rows, removed, objects, lost>>
    BY <1>6 DEF Sign, CompleteFinal, vars, Answer, RemoveEntry, RemovalFails
  <2> QED BY <2>1 DEF Stored, Fresh, RowsHaveObjects
<1> QED
  BY ConstantsAssumption, <1>1, <1>2, <1>3, <1>4, <1>5, <1>6
     DEF Next, PageStep, ApiStep

IInv == TypeOK /\ Stored

LEMMA IInvHolds == Spec => []IInv
<1>1. Init => IInv
  <2>1. Init => Stored
    BY DEF Init, Stored, Fresh, RowsHaveObjects
  <2> QED BY <2>1, InitTyped DEF IInv
<1>2. IInv /\ [Next]_vars => IInv'
  <2> SUFFICES ASSUME IInv, [Next]_vars PROVE IInv'
    OBVIOUS
  <2>1. ASSUME NEW u \in Uploads, ApiStep(u)
        PROVE  TypeOK'
    <3>1. req[u].pc = "open" => u \notin removed
      BY DEF IInv, Stored, Fresh
    <3> QED BY <2>1, <3>1, ApiTyped DEF IInv
  <2>2. TypeOK'
    BY <2>1, PageTyped, RestTyped DEF Next, IInv
  <2> QED BY <2>2, StoredInductive DEF IInv
<1> QED BY <1>1, <1>2, PTL DEF Spec

\* Page, requests, gates, rows, objects and signing keep their types.
THEOREM TypeCorrect == Spec => []TypeOK
<1>1. IInv => TypeOK
  BY DEF IInv
<1> QED BY <1>1, IInvHolds, PTL

\* After any crash, refusal, duplicate or removal a row has its object, but
\* for a commit whose acknowledgement was lost.
THEOREM RowsHaveObjectsHolds == Spec => []RowsHaveObjects
<1>1. IInv => RowsHaveObjects
  BY DEF IInv, Stored
<1> QED BY <1>1, IInvHolds, PTL

-----------------------------------------------------------------------------
(* What the customer is told *)

\* A file the case has, or had until the page asked for its removal.
Kept(f) == f \in rows \/ (f \in removed /\ f \in asked)

\* Who is told of a file is told of one that is kept; what a transaction saw
\* is kept.
ToldOf(u, f) ==
  Kept(f) /\ KindOf[f] = KindOf[u] /\ req[f].bytes = req[u].bytes

Told ==
  \A u \in Uploads :
    /\ req[u].pc \in {"reused", "ok"} => ToldOf(u, req[u].file)
    /\ req[u].pc = "open" => \A v \in req[u].saw : Kept(v)

\* The entries: a removal under way is of a file asked to be removed.
Shown ==
  \A u \in Uploads :
    /\ page[u].state = "success" => page[u].file \in rows \cup asked
    /\ page[u].state = "removing" => page[u].file \in asked
    /\ u \in deletes =>
         page[u].state \notin {"none", "uploading"} /\ page[u].file \in asked
    /\ req[u].pc = "idle" => page[u].state = "none"

LEMMA KeptIsUpload ==
  ASSUME TypeOK, NEW f, Kept(f)
  PROVE  f \in Uploads /\ f \in rows \cup removed
  BY DEF TypeOK, Kept

\* Kept files stay kept, and their bytes stay the same.
LEMMA KeptStays ==
  ASSUME IInv, Shown, [Next]_vars, NEW f, Kept(f)
  PROVE  Kept(f)' /\ req'[f].bytes = req[f].bytes
<1> USE DEF dbVars, pageVars
<1>1. f \in Uploads /\ req[f].pc # "idle"
  BY KeptIsUpload DEF IInv, Stored, Fresh
<1>2. ASSUME NEW u \in Uploads, NEW b \in Contents,
             \/ BeginUpload(u, b) \/ Call(u, b) \/ Disconnect(u) \/ Admit(u)
             \/ Write(u) \/ Begin(u) \/ Reuse(u) \/ Refuse(u)
      PROVE  Kept(f)' /\ req'[f].bytes = req[f].bytes
  <2>1. UNCHANGED <<rows, removed, asked>>
    BY <1>2 DEF BeginUpload, Call, Disconnect, Admit, Write, Begin, Reuse, Refuse
  <2> QED BY <1>1, <1>2, <2>1, StageRequest DEF Kept, IInv
<1>3. ASSUME NEW u \in Uploads, Insert(u)
      PROVE  Kept(f)' /\ req'[f].bytes = req[f].bytes
  <2>1. rows \subseteq rows' /\ UNCHANGED <<removed, asked>>
    BY <1>3 DEF Insert
  <2> QED BY <1>1, <1>3, <2>1, InsertRequest DEF Kept, IInv
<1>4. ASSUME NEW u \in Uploads, DropReused(u) \/ DropFailed(u)
      PROVE  Kept(f)' /\ req'[f].bytes = req[f].bytes
  <2>1. UNCHANGED <<rows, removed, asked>>
    BY <1>4 DEF DropReused, DropFailed
  <2> QED BY <1>1, <1>4, <2>1, EndsRequest DEF Kept, IInv, DropReused, DropFailed
<1>5. ASSUME NEW u \in Uploads, RemovePublic(u)
      PROVE  Kept(f)' /\ req'[f].bytes = req[f].bytes
  <2>1. page[u].file \in asked
    BY <1>5 DEF RemovePublic, Shown
  <2> QED BY <1>5, <2>1 DEF RemovePublic, Kept, Materials, MaterialsOf
<1>6. CASE Crash
  <2>1. UNCHANGED <<rows, removed, asked>>
    BY <1>6 DEF Crash
  <2> QED BY <1>1, <1>6, <2>1, CrashRequest DEF Kept, IInv
<1>7. CASE \/ Sign \/ CompleteFinal \/ UNCHANGED vars
           \/ \E u \in Uploads : Answer(u) \/ RemoveEntry(u) \/ RemovalFails(u)
  <2>1. UNCHANGED <<req, rows, removed>> /\ asked \subseteq asked'
    BY <1>7 DEF Sign, CompleteFinal, vars, Answer, RemoveEntry, RemovalFails
  <2> QED BY <2>1 DEF Kept
<1> QED
  BY ConstantsAssumption, <1>2, <1>3, <1>4, <1>5, <1>6, <1>7
     DEF Next, PageStep, ApiStep

\* What one request is told stays true when the request stays as it is.
LEMMA ToldStays ==
  ASSUME IInv, Told, Shown, [Next]_vars, NEW v \in Uploads,
         req'[v].pc = req[v].pc \/ (req[v].pc = "open" /\ req'[v].pc = "written"),
         req'[v].file = req[v].file, req'[v].saw = req[v].saw,
         req'[v].bytes = req[v].bytes
  PROVE  /\ req'[v].pc \in {"reused", "ok"} => ToldOf(v, req[v].file)'
         /\ req'[v].pc = "open" => \A w \in req[v].saw : Kept(w)'
<1>1. ASSUME req'[v].pc \in {"reused", "ok"}
      PROVE  ToldOf(v, req[v].file)'
  <2>1. ToldOf(v, req[v].file)
    BY <1>1 DEF Told
  <2> QED BY <2>1, KeptStays DEF ToldOf
<1>2. ASSUME req'[v].pc = "open", NEW w \in req[v].saw
      PROVE  Kept(w)'
  <2>1. Kept(w)
    BY <1>2 DEF Told
  <2> QED BY <2>1, KeptStays
<1> QED BY <1>1, <1>2

\* One request may change; what is told of the others stays true.
LEMMA ToldOfOne ==
  ASSUME IInv, Told, Shown, [Next]_vars, NEW u \in Uploads,
         \A v \in Uploads : v # u =>
           /\ req'[v].pc = req[v].pc \/ (req[v].pc = "open" /\ req'[v].pc = "written")
           /\ req'[v].file = req[v].file /\ req'[v].saw = req[v].saw
           /\ req'[v].bytes = req[v].bytes,
         req'[u].pc \in {"reused", "ok"} =>
           \E f : f = req'[u].file /\ ToldOf(u, f)',
         req'[u].pc = "open" => \A w \in req'[u].saw : Kept(w)'
  PROVE  Told'
<1>1. ASSUME NEW v \in Uploads
      PROVE  /\ req'[v].pc \in {"reused", "ok"} =>
                  \E f : f = req'[v].file /\ ToldOf(v, f)'
             /\ req'[v].pc = "open" => \A w \in req'[v].saw : Kept(w)'
  <2>1. CASE v = u
    BY <2>1
  <2>2. CASE v # u
    <3>1. /\ req'[v].pc \in {"reused", "ok"} => ToldOf(v, req[v].file)'
          /\ req'[v].pc = "open" => \A w \in req[v].saw : Kept(w)'
      BY <2>2, ToldStays
    <3> QED BY <2>2, <3>1
  <2> QED BY <2>1, <2>2
<1> QED BY <1>1 DEF Told, ToldOf, Kept

LEMMA ToldInductive ==
  ASSUME IInv, Told, Shown, [Next]_vars
  PROVE  Told'
<1> USE DEF dbVars, pageVars
<1>1. ASSUME NEW u \in Uploads, NEW b \in Contents,
             \/ BeginUpload(u, b) \/ Call(u, b) \/ Disconnect(u) \/ Admit(u)
             \/ Write(u) \/ Refuse(u)
      PROVE  Told'
  <2>1. \A v \in Uploads : v # u => req'[v] = req[v]
    BY <1>1, StageRequest DEF IInv
  <2>2. \/ req'[u].pc \notin {"reused", "ok", "open"}
        \/ /\ Disconnect(u) /\ req'[u] = req[u]
    <3>1. CASE Disconnect(u)
      <4>1. req[u].pc # "sent" => req' = req
        BY <3>1 DEF Disconnect, IInv, TypeOK, Request
      <4>2. req[u].pc = "sent" => req'[u].pc = "dead"
        BY <3>1, StageReached DEF IInv
      <4> QED BY <3>1, <4>1, <4>2
    <3>2. CASE ~Disconnect(u)
      BY <1>1, <3>2, StageReached DEF IInv
    <3> QED BY <3>1, <3>2
  <2>3. CASE req'[u].pc \notin {"reused", "ok", "open"}
    BY <2>1, <2>3, ToldOfOne
  <2>4. CASE req'[u] = req[u]
    <3>1. /\ req'[u].pc \in {"reused", "ok"} => ToldOf(u, req[u].file)'
          /\ req'[u].pc = "open" => \A w \in req[u].saw : Kept(w)'
      BY <2>4, ToldStays
    <3> QED BY <2>1, <2>4, <3>1, ToldOfOne
  <2> QED BY <2>2, <2>3, <2>4
<1>2. ASSUME NEW u \in Uploads, Begin(u)
      PROVE  Told'
  <2>1. \A v \in Uploads : v # u => req'[v] = req[v]
    BY <1>2, StageRequest, ConstantsAssumption DEF IInv
  <2>2. req'[u].pc = "open" /\ req'[u].saw = rows
    BY <1>2, StageReached DEF IInv
  <2>4. req'[u].pc \notin {"reused", "ok"}
    BY <2>2
  <2>3. \A w \in rows : Kept(w)'
    BY <1>2 DEF Begin, Kept
  <2>5. req'[u].pc = "open" => \A w \in req'[u].saw : Kept(w)'
    BY <2>2, <2>3
  <2> QED BY <2>1, <2>4, <2>5, ToldOfOne
<1>3. ASSUME NEW u \in Uploads, Reuse(u)
      PROVE  Told'
  <2>1. \A v \in Uploads : v # u => req'[v] = req[v]
    BY <1>3, StageRequest, ConstantsAssumption DEF IInv
  <2>2. PICK f \in req[u].saw : f = req'[u].file /\ SameFile(u, f)
    BY <1>3, StageReached DEF IInv
  <2>3. req'[u].pc = "reused" /\ req[u].pc = "open"
    BY <1>3, StageReached DEF IInv
  <2>4. Kept(f)
    BY <2>3 DEF Told
  <2>5. Kept(f)' /\ req'[f].bytes = req[f].bytes
    BY <2>4, KeptStays
  <2>6. req'[u].bytes = req[u].bytes
    BY <1>3, <2>3, StageRequest, ConstantsAssumption DEF IInv
  <2>7. ToldOf(u, f)'
    BY <2>2, <2>5, <2>6 DEF ToldOf, SameFile
  <2> QED BY <2>1, <2>2, <2>3, <2>7, ToldOfOne
<1>4. ASSUME NEW u \in Uploads, Insert(u)
      PROVE  Told'
  <2>1. Kept(u)' /\ req'[u].bytes = req[u].bytes
    <3>1. rows' = rows \cup {u}
      BY <1>4 DEF Insert
    <3>2. req'[u].bytes = req[u].bytes
      BY <1>4, InsertRequest DEF IInv
    <3> QED BY <3>1, <3>2 DEF Kept
  <2>2. ToldOf(u, u)'
    BY <2>1 DEF ToldOf
  <2>3. req'[u].pc = "failing" \/ (req'[u].pc = "ok" /\ req'[u].file = u)
    BY <1>4, InsertRequest DEF IInv
  <2>4. \A v \in Uploads : v # u =>
          /\ req'[v].pc = req[v].pc \/ (req[v].pc = "open" /\ req'[v].pc = "written")
          /\ req'[v].file = req[v].file /\ req'[v].saw = req[v].saw
          /\ req'[v].bytes = req[v].bytes
    BY <1>4, InsertRequest DEF IInv
  <2>5. req'[u].pc \in {"reused", "ok"} => \E f : f = req'[u].file /\ ToldOf(u, f)'
    BY <2>2, <2>3
  <2> QED BY <2>3, <2>4, <2>5, ToldOfOne
<1>5. ASSUME NEW u \in Uploads, DropReused(u)
      PROVE  Told'
  <2>1. /\ req[u].pc = "reused"
        /\ req'[u].pc = "ok" /\ req'[u].file = req[u].file
        /\ req'[u].bytes = req[u].bytes
        /\ \A v \in Uploads : v # u => req'[v] = req[v]
    BY <1>5, EndsRequest DEF IInv, DropReused
  <2>2. ToldOf(u, req[u].file)
    BY <2>1 DEF Told
  <2>3. ToldOf(u, req[u].file)'
    BY <2>1, <2>2, KeptStays DEF ToldOf
  <2>4. req'[u].pc \in {"reused", "ok"} => \E f : f = req'[u].file /\ ToldOf(u, f)'
    BY <2>1, <2>3
  <2> QED BY <2>1, <2>4, ToldOfOne
<1>6. ASSUME NEW u \in Uploads, DropFailed(u)
      PROVE  Told'
  <2>1. /\ req'[u].pc = "failed"
        /\ \A v \in Uploads : v # u => req'[v] = req[v]
    BY <1>6, EndsRequest DEF IInv, DropFailed
  <2> QED BY <2>1, ToldOfOne
<1>7. CASE Crash
  <2>1. ASSUME NEW u \in Uploads
        PROVE  /\ req'[u].pc \in {"reused", "ok"} =>
                    \E f : f = req'[u].file /\ ToldOf(u, f)'
               /\ req'[u].pc # "open"
    <3>1. CASE req'[u] = req[u] /\ req[u].pc \in {"idle", "ok", "failed", "dead"}
      <4>1. req'[u].pc \in {"reused", "ok"} => ToldOf(u, req[u].file)'
        BY <3>1, ToldStays
      <4> QED BY <3>1, <4>1
    <3>2. CASE req'[u].pc = "dead"
      BY <3>2
    <3> QED BY <1>7, <3>1, <3>2, CrashRequest DEF IInv
  <2> QED BY <2>1 DEF Told, ToldOf, Kept
<1>8. CASE \/ Sign \/ CompleteFinal \/ UNCHANGED vars
           \/ \E u \in Uploads : \/ Answer(u) \/ RemoveEntry(u) \/ RemovalFails(u)
                                 \/ RemovePublic(u)
  <2>1. UNCHANGED req
    BY <1>8 DEF Sign, CompleteFinal, vars, Answer, RemoveEntry, RemovalFails,
                RemovePublic
  <2>2. ASSUME NEW u \in Uploads
        PROVE  /\ req'[u].pc \in {"reused", "ok"} => ToldOf(u, req[u].file)'
               /\ req'[u].pc = "open" => \A w \in req[u].saw : Kept(w)'
    BY <2>1, ToldStays
  <2> QED BY <2>1, <2>2 DEF Told, ToldOf, Kept
<1> QED
  BY ConstantsAssumption, <1>1, <1>2, <1>3, <1>4, <1>5, <1>6, <1>7, <1>8
     DEF Next, PageStep, ApiStep

LEMMA ShownInductive ==
  ASSUME IInv, Told, Shown, [Next]_vars
  PROVE  Shown'
<1> USE DEF dbVars, pageVars
<1>0. \A u \in Uploads : page[u] \in Entry
  BY DEF IInv, TypeOK
<1>1. ASSUME NEW u \in Uploads, NEW b \in Contents, BeginUpload(u, b)
      PROVE  Shown'
  <2>0. req[u].pc = "idle" /\ req'[u].pc # "idle"
    BY <1>1, StageReached DEF IInv
  <2>1. /\ page'[u].state \in {"uploading", "error"}
        /\ page[u].state = "none" /\ req'[u].pc # "idle" /\ u \notin deletes
    <3>1. page'[u].state = IF PageAccepts(b) THEN "uploading" ELSE "error"
      BY <1>0, <1>1 DEF BeginUpload, IInv, TypeOK, Entry
    <3> QED BY <2>0, <3>1 DEF Shown
  <2>2. \A v \in Uploads : v # u => page'[v] = page[v] /\ req'[v] = req[v]
    <3>1. \A v \in Uploads : v # u => page'[v] = page[v]
      BY <1>1 DEF BeginUpload, IInv, TypeOK
    <3> QED BY <1>1, <3>1, StageRequest DEF IInv
  <2>3. UNCHANGED <<deletes, asked, rows>>
    BY <1>1 DEF BeginUpload
  <2> QED BY <2>1, <2>2, <2>3 DEF Shown
<1>2. ASSUME NEW u \in Uploads, Answer(u)
      PROVE  Shown'
  <2>1. /\ u \notin deletes
        /\ \/ /\ req[u].pc = "ok" /\ page'[u].state = "success"
              /\ page'[u].file = req[u].file
           \/ page'[u].state = "error" /\ req[u].pc = "failed"
        /\ \A v \in Uploads : v # u => page'[v] = page[v]
    BY <1>0, <1>2 DEF Answer, IInv, TypeOK, Entry, Shown
  <2>2. req[u].pc = "ok" => req[u].file \in rows \cup asked
    BY DEF Told, ToldOf, Kept
  <2> QED BY <1>2, <2>1, <2>2 DEF Answer, Shown
<1>3. ASSUME NEW u \in Uploads, Disconnect(u)
      PROVE  Shown'
  <2>1. /\ page[u].state = "uploading" /\ page'[u].state = "error"
        /\ \A v \in Uploads : v # u => page'[v] = page[v]
    BY <1>0, <1>3 DEF Disconnect, IInv, TypeOK, Entry
  <2>2. \A v \in Uploads : req'[v].pc = "idle" => req[v].pc = "idle"
    BY <1>3, StageRequest, StageReached, ConstantsAssumption DEF IInv
  <2> QED BY <1>3, <2>1, <2>2 DEF Disconnect, Shown
<1>4. ASSUME NEW u \in Uploads, RemoveEntry(u)
      PROVE  Shown'
  <2>1. /\ page[u].file # None => page'[u].state = "removing"
                                   /\ page[u].file \in asked'
        /\ page[u].file = None => page'[u].state = "gone" /\ deletes' = deletes
        /\ page'[u].file = page[u].file
    BY <1>0, <1>4 DEF RemoveEntry, IInv, TypeOK, Entry
  <2>2. \A v \in Uploads : v # u =>
          /\ page'[v].file = page[v].file
          /\ page'[v].state = page[v].state \/ page'[v].state = "gone"
    BY <1>0, <1>4 DEF RemoveEntry, IInv, TypeOK, Entry
  <2>3. /\ UNCHANGED <<req, rows>> /\ asked \subseteq asked'
        /\ u \in Listed /\ u \notin deletes
        /\ deletes' \subseteq deletes \cup {u}
    BY <1>4 DEF RemoveEntry
  <2>4. req[u].pc # "idle" /\ \A v \in Uploads : page'[v].state = "gone" =>
          page[v].state # "none" \/ page'[v].state = page[v].state
    <3>1. u \in Listed => page[u].state # "none"
      BY DEF Listed
    <3>2. \A v \in Uploads : v # u /\ page'[v].state # page[v].state => v \in Listed
      BY <1>0, <1>4 DEF RemoveEntry, IInv, TypeOK, Entry
    <3> QED BY <2>3, <3>1, <3>2 DEF Listed, Shown
  <2> QED BY <2>1, <2>2, <2>3, <2>4 DEF Shown
<1>5. ASSUME NEW u \in Uploads, RemovalFails(u)
      PROVE  Shown'
  <2>1. /\ page[u].state = "removing" /\ page'[u].state \in {"gone", "success"}
        /\ page'[u].file = page[u].file
        /\ \A v \in Uploads : v # u => page'[v] = page[v]
    BY <1>0, <1>5 DEF RemovalFails, Restored, IInv, TypeOK, Entry
  <2>2. UNCHANGED <<req, rows, asked>> /\ deletes' \subseteq deletes
    BY <1>5 DEF RemovalFails
  <2> QED BY <2>1, <2>2 DEF Shown
<1>6. ASSUME NEW u \in Uploads, RemovePublic(u)
      PROVE  Shown'
  <2>1. /\ page'[u].file = page[u].file
        /\ \/ page'[u].state = page[u].state
           \/ /\ page[u].state = "removing"
              /\ page'[u].state \in {"gone", "success"}
        /\ \A v \in Uploads : v # u => page'[v] = page[v]
    BY <1>0, <1>6 DEF RemovePublic, Restored, IInv, TypeOK, Entry
  <2>2. /\ UNCHANGED <<req, asked>> /\ deletes' \subseteq deletes
        /\ rows \subseteq rows' \cup {page[u].file}
        /\ page[u].file \in asked
    BY <1>6 DEF RemovePublic, Shown
  <2>3. rows \cup asked \subseteq rows' \cup asked'
    BY <2>2
  <2> QED BY <2>1, <2>2, <2>3 DEF Shown
<1>7. ASSUME NEW u \in Uploads, NEW b \in Contents,
             \/ Call(u, b) \/ Admit(u) \/ Write(u) \/ Begin(u) \/ Reuse(u)
             \/ Refuse(u)
      PROVE  Shown'
  <2>1. UNCHANGED <<page, deletes, asked, rows>>
    BY <1>7 DEF Call, Admit, Write, Begin, Reuse, Refuse
  <2>2. \A v \in Uploads : req'[v].pc = "idle" => req[v].pc = "idle"
    <3>1. \A v \in Uploads : v # u => req'[v] = req[v]
      BY <1>7, StageRequest DEF IInv
    <3>2. req'[u].pc # "idle"
      BY <1>7, StageReached DEF IInv
    <3> QED BY <3>1, <3>2
  <2> QED BY <2>1, <2>2 DEF Shown
<1>8. ASSUME NEW u \in Uploads, DropReused(u) \/ DropFailed(u)
      PROVE  Shown'
  <2>1. UNCHANGED <<page, deletes, asked, rows>>
    BY <1>8 DEF DropReused, DropFailed
  <2>2. \A v \in Uploads : req'[v].pc = "idle" => req[v].pc = "idle"
    BY <1>8, EndsRequest DEF DropReused, DropFailed, IInv
  <2> QED BY <2>1, <2>2 DEF Shown
<1>9. ASSUME NEW u \in Uploads, Insert(u)
      PROVE  Shown'
  <2>1. UNCHANGED <<page, deletes, asked>> /\ rows \subseteq rows'
    BY <1>9 DEF Insert
  <2>2. \A v \in Uploads : req'[v].pc = "idle" => req[v].pc = "idle"
    BY <1>9, InsertRequest DEF IInv
  <2> QED BY <2>1, <2>2 DEF Shown
<1>10. CASE Crash
  <2>1. UNCHANGED <<page, deletes, asked, rows>>
    BY <1>10 DEF Crash
  <2>2. \A v \in Uploads : req'[v].pc = "idle" => req[v].pc = "idle"
    BY <1>10, CrashRequest DEF IInv
  <2> QED BY <2>1, <2>2 DEF Shown
<1>11. CASE Sign \/ CompleteFinal \/ UNCHANGED vars
  <2>1. UNCHANGED <<page, deletes, asked, rows, req>>
    BY <1>11 DEF Sign, CompleteFinal, vars
  <2> QED BY <2>1 DEF Shown
<1> QED
  BY ConstantsAssumption, <1>1, <1>2, <1>3, <1>4, <1>5, <1>6, <1>7, <1>8, <1>9,
     <1>10, <1>11 DEF Next, PageStep, ApiStep

LEMMA ToldHolds == Spec => [](IInv /\ Told /\ Shown)
<1>1. Init => Told /\ Shown
  <2> SUFFICES ASSUME Init PROVE Told /\ Shown
    OBVIOUS
  <2>1. \A u \in Uploads : req[u].pc = "idle"
    BY DEF Init
  <2>2. deletes = {} /\ \A u \in Uploads : page[u].state = "none"
    BY DEF Init, NoEntry
  <2> QED BY <2>1, <2>2 DEF Told, Shown
<1>2. IInv /\ Told /\ Shown /\ [Next]_vars => Told' /\ Shown'
  BY ToldInductive, ShownInductive
<1> QED BY <1>1, <1>2, IInvHolds, PTL DEF Spec

\* Who is told that a file was accepted can rely on it: the row is there, of
\* its kind and with its bytes, unless the customer had it removed.
THEOREM AcceptedIsKeptHolds == Spec => []AcceptedIsKept
<1>1. Told => AcceptedIsKept
  BY DEF Told, ToldOf, Kept, AcceptedIsKept
<1> QED BY <1>1, ToldHolds, PTL

\* An entry the page shows as uploaded is a file the case has, unless the page
\* asked for its removal.
THEOREM ShownIsKeptHolds == Spec => []ShownIsKept
<1>1. Shown => ShownIsKept
  BY DEF Shown, ShownIsKept
<1> QED BY <1>1, ToldHolds, PTL

-----------------------------------------------------------------------------
(* Signing *)

LEMMA SigningCoversFilesInductive ==
  ASSUME TypeOK, SigningCoversFiles, [Next]_vars
  PROVE  SigningCoversFiles'
<1> USE DEF dbVars, pageVars
<1>1. ASSUME NEW u \in Uploads, Insert(u)
      PROVE  SigningCoversFiles'
  <2>1. rows' = rows \cup {u} /\ signed' = SigningAfter(u)
    BY <1>1 DEF Insert
  <2> QED BY <2>1 DEF SigningAfter, SigningCoversFiles, Materials, MaterialsOf
<1>2. ASSUME NEW u \in Uploads, RemovePublic(u)
      PROVE  SigningCoversFiles'
  BY <1>2 DEF RemovePublic, SigningCoversFiles, Materials, MaterialsOf
<1>3. CASE Sign
  BY <1>3 DEF Sign, SigningCoversFiles, Materials, MaterialsOf
<1>4. CASE UNCHANGED <<rows, signed>>
  BY <1>4 DEF SigningCoversFiles, Materials, MaterialsOf
<1> QED
  BY <1>1, <1>2, <1>3, <1>4
     DEF Next, PageStep, ApiStep, vars, BeginUpload, Answer, Disconnect,
         RemoveEntry, RemovalFails, Admit, Write, Begin, Reuse, Refuse,
         DropReused, DropFailed, Call, Crash, CompleteFinal

\* A valid signing covers the materials the case has.
THEOREM SigningCoversFilesHolds == Spec => []SigningCoversFiles
<1>1. Init => SigningCoversFiles
  BY DEF Init, SigningCoversFiles
<1> QED BY <1>1, SigningCoversFilesInductive, TypeCorrect, PTL DEF Spec

-----------------------------------------------------------------------------
(* Limits *)

\* An open transaction saw every row there now is: another that inserts a row
\* makes it run again.
Seen ==
  \A u \in Uploads : req[u].pc = "open" => rows \subseteq req[u].saw

LEMMA SeenInductive ==
  ASSUME IInv, Seen, [Next]_vars
  PROVE  Seen'
<1> USE DEF dbVars, pageVars
<1>1. ASSUME NEW u \in Uploads, NEW b \in Contents,
             \/ BeginUpload(u, b) \/ Call(u, b) \/ Disconnect(u) \/ Admit(u)
             \/ Write(u) \/ Reuse(u) \/ Refuse(u)
      PROVE  Seen'
  <2>1. \A v \in Uploads : v # u => req'[v] = req[v]
    BY <1>1, StageRequest DEF IInv
  <2>2. UNCHANGED rows
    BY <1>1 DEF BeginUpload, Call, Disconnect, Admit, Write, Reuse, Refuse
  <2>3. req'[u].pc # "open" \/ req'[u] = req[u]
    <3>1. CASE Disconnect(u)
      <4>1. req[u].pc # "sent" => req' = req
        BY <3>1 DEF Disconnect, IInv, TypeOK, Request
      <4>2. req[u].pc = "sent" => req'[u].pc = "dead"
        BY <3>1, StageReached DEF IInv
      <4> QED BY <4>1, <4>2
    <3>2. CASE ~Disconnect(u)
      BY <1>1, <3>2, StageReached DEF IInv
    <3> QED BY <3>1, <3>2
  <2> QED BY <2>1, <2>2, <2>3 DEF Seen
<1>2. ASSUME NEW u \in Uploads, Begin(u)
      PROVE  Seen'
  <2>1. \A v \in Uploads : v # u => req'[v] = req[v]
    BY <1>2, StageRequest, ConstantsAssumption DEF IInv
  <2>2. req'[u].saw = rows
    BY <1>2, StageReached DEF IInv
  <2>3. UNCHANGED rows
    BY <1>2 DEF Begin
  <2> QED BY <2>1, <2>2, <2>3 DEF Seen
<1>3. ASSUME NEW u \in Uploads, Insert(u)
      PROVE  Seen'
  <2>1. \A v \in Uploads : req'[v].pc # "open"
    BY <1>3, InsertRequest DEF IInv
  <2> QED BY <2>1 DEF Seen
<1>4. ASSUME NEW u \in Uploads, DropReused(u) \/ DropFailed(u)
      PROVE  Seen'
  <2>1. UNCHANGED rows
    BY <1>4 DEF DropReused, DropFailed
  <2>2. /\ req'[u].pc # "open"
        /\ \A v \in Uploads : v # u => req'[v] = req[v]
    BY <1>4, EndsRequest DEF IInv, DropReused, DropFailed
  <2> QED BY <2>1, <2>2 DEF Seen
<1>5. CASE Crash
  <2>1. \A v \in Uploads : req'[v].pc # "open"
    BY <1>5, CrashRequest DEF IInv
  <2> QED BY <2>1 DEF Seen
<1>6. ASSUME NEW u \in Uploads, RemovePublic(u)
      PROVE  Seen'
  BY <1>6 DEF RemovePublic, Seen
<1>7. CASE \/ Sign \/ CompleteFinal \/ UNCHANGED vars
           \/ \E u \in Uploads : Answer(u) \/ RemoveEntry(u) \/ RemovalFails(u)
  <2>1. UNCHANGED <<req, rows>>
    BY <1>7 DEF Sign, CompleteFinal, vars, Answer, RemoveEntry, RemovalFails
  <2> QED BY <2>1 DEF Seen
<1> QED
  BY ConstantsAssumption, <1>1, <1>2, <1>3, <1>4, <1>5, <1>6, <1>7
     DEF Next, PageStep, ApiStep

\* Rows of one kind with equal bytes are one row.
Distinct ==
  \A u, v \in rows :
    KindOf[u] = KindOf[v] /\ req[u].bytes = req[v].bytes => u = v

\* Bytes of rows stay, and new rows come by Insert only.
LEMMA RowsGrow ==
  ASSUME IInv, Told, Shown, [Next]_vars
  PROVE  /\ \A f \in rows : req'[f].bytes = req[f].bytes
         /\ rows' \subseteq rows \/ \E u \in Uploads : Insert(u)
<1> USE DEF dbVars, pageVars
<1>1. \A f \in rows : Kept(f)
  BY DEF Kept
<1>2. \A f \in rows : req'[f].bytes = req[f].bytes
  BY <1>1, KeptStays
<1>3. rows' \subseteq rows \/ \E u \in Uploads : Insert(u)
  BY DEF Next, PageStep, ApiStep, vars, BeginUpload, Answer, Disconnect,
         RemoveEntry, RemovalFails, RemovePublic, Admit, Write, Begin, Reuse,
         Refuse, DropReused, DropFailed, Call, Crash, CompleteFinal, Sign
<1> QED BY <1>2, <1>3

LEMMA FewInductive ==
  ASSUME IInv, Told, Shown, Seen, FilesAreFew, [Next]_vars
  PROVE  FilesAreFew'
<1>1. IsFiniteSet(rows) /\ IsFiniteSet(Materials) /\ Cardinality(Materials) <= MaxFiles
  <2>1. rows \subseteq Uploads /\ Materials \subseteq Uploads
    BY DEF IInv, TypeOK, Materials, MaterialsOf
  <2> QED BY <2>1, FS_Subset, ConstantsAssumption DEF FilesAreFew
<1>2. CASE rows' \subseteq rows
  <2>1. Distinct'
    BY <1>2, RowsGrow DEF FilesAreFew, Distinct
  <2>2. Materials' \subseteq Materials
    BY <1>2 DEF Materials, MaterialsOf
  <2>3. /\ Cardinality(Materials') \in Nat /\ Cardinality(Materials) \in Nat
        /\ Cardinality(Materials') <= Cardinality(Materials)
    BY <1>1, <2>2, FS_Subset, FS_CardinalityType
  <2>4. Cardinality(Materials') <= MaxFiles
    BY <1>1, <2>3, ConstantsAssumption
  <2> QED BY <2>1, <2>4 DEF FilesAreFew, Distinct
<1>3. ASSUME NEW u \in Uploads, Insert(u)
      PROVE  FilesAreFew'
  <2>1. /\ rows' = rows \cup {u} /\ req[u].pc = "open"
        /\ ~\E v \in req[u].saw : SameFile(u, v)
        /\ WithinLimits(u)
    BY <1>3 DEF Insert
  <2>2. rows \subseteq req[u].saw
    BY <2>1 DEF Seen
  <2>3. \A v \in Uploads : req'[v].bytes = req[v].bytes
    BY <1>3, InsertRequest DEF IInv
  <2>4. \A v \in rows : ~(KindOf[u] = KindOf[v] /\ req[u].bytes = req[v].bytes)
    BY <2>1, <2>2 DEF SameFile
  <2>5. rows \subseteq Uploads
    BY DEF IInv, TypeOK
  <2>6. Distinct'
    BY <2>1, <2>3, <2>4, <2>5 DEF FilesAreFew, Distinct
  <2>7. CASE KindOf[u] # "MATERIAL"
    <3>1. Materials' = Materials
      BY <2>1, <2>7 DEF Materials, MaterialsOf
    <3> QED BY <1>1, <2>6, <3>1 DEF FilesAreFew, Distinct
  <2>8. CASE KindOf[u] = "MATERIAL"
    <3> DEFINE saw == MaterialsOf(req[u].saw)
    <3>1. Materials' \subseteq saw \cup {u}
      BY <2>1, <2>2 DEF Materials, MaterialsOf
    <3>2. IsFiniteSet(saw)
      <4>1. saw \subseteq Uploads
        BY DEF IInv, TypeOK, Request, MaterialsOf
      <4> QED BY <4>1, FS_Subset, ConstantsAssumption
    <3>3. Cardinality(saw) + 1 <= MaxFiles
      BY <2>1, <2>8 DEF WithinLimits
    <3> HIDE DEF saw
    <3>4. /\ IsFiniteSet(saw \cup {u})
          /\ Cardinality(saw \cup {u}) = Cardinality(saw)
               \/ Cardinality(saw \cup {u}) = Cardinality(saw) + 1
      BY <3>2, FS_AddElement
    <3>5. /\ Cardinality(Materials') <= Cardinality(saw \cup {u})
          /\ Cardinality(Materials') \in Nat /\ Cardinality(saw) \in Nat
      BY <3>1, <3>2, <3>4, FS_Subset, FS_CardinalityType
    <3>6. Cardinality(Materials') <= MaxFiles
      BY <3>3, <3>4, <3>5, ConstantsAssumption
    <3> QED BY <2>6, <3>6 DEF FilesAreFew, Distinct
  <2> QED BY <2>7, <2>8
<1> QED BY <1>2, <1>3, RowsGrow

\* Requests that look for an equal file, count and insert at the same time
\* together leave no material twice and none too many.
THEOREM FilesAreFewHolds == Spec => []FilesAreFew
<1>1. Init => Seen /\ FilesAreFew
  <2> SUFFICES ASSUME Init PROVE Seen /\ FilesAreFew
    OBVIOUS
  <2>1. rows = {} /\ \A u \in Uploads : req[u].pc = "idle"
    BY DEF Init
  <2>2. Cardinality(Materials) = 0
    BY <2>1, FS_EmptySet DEF Materials, MaterialsOf
  <2> QED BY <2>1, <2>2, ConstantsAssumption DEF Seen, FilesAreFew
<1>2. IInv /\ Told /\ Shown /\ Seen /\ FilesAreFew /\ [Next]_vars
        => Seen' /\ FilesAreFew'
  BY SeenInductive, FewInductive
<1> QED BY <1>1, <1>2, ToldHolds, PTL DEF Spec

\* The bytes of files that are finitely many are a number.
LEMMA BytesOfUploads ==
  ASSUME TypeOK
  PROVE  /\ \A u \in Uploads : Bytes[u] = Size[req[u].bytes] /\ Bytes[u] \in Nat
         /\ \A files \in SUBSET Uploads :
              IsFiniteSet(files) /\ SumFunctionOnSet(Bytes, files) \in Nat
<1>1. \A u \in Uploads : Bytes[u] = Size[req[u].bytes] /\ Bytes[u] \in Nat
  BY ConstantsAssumption DEF Bytes, TypeOK, Request
<1>2. \A files \in SUBSET Uploads : IsFiniteSet(files)
  BY ConstantsAssumption, FS_Subset
<1>3. ASSUME NEW files \in SUBSET Uploads
      PROVE  SumFunctionOnSet(Bytes, files) \in Nat
  BY <1>1, <1>2, SumIsNat
<1> QED BY <1>1, <1>2, <1>3

\* Rows whose bytes stay weigh the same in the next state.
LEMMA SameBytes ==
  ASSUME TypeOK, TypeOK', NEW files \in SUBSET Uploads,
         \A u \in files : req'[u].bytes = req[u].bytes
  PROVE  SumFunctionOnSet(Bytes', files) = SumFunctionOnSet(Bytes, files)
<1>1. \A u \in files : Bytes[u] = Size[req[u].bytes] /\ Bytes'[u] = Size[req'[u].bytes]
  BY DEF Bytes
<1>2. \A u \in files : Bytes'[u] = Bytes[u]
  BY <1>1
<1> QED BY <1>2, BytesOfUploads, SumOfSame

LEMMA CapacityInductive ==
  ASSUME IInv, IInv', Told, Shown, Seen, CapacityKept, [Next]_vars
  PROVE  CapacityKept'
<1> DEFINE Sum(files) == SumFunctionOnSet(Bytes, files)
<1>1. TypeOK /\ TypeOK' /\ rows \subseteq Uploads /\ rows' \subseteq Uploads
  BY DEF IInv, TypeOK
<1>2. Sum(rows) <= Capacity /\ Sum(rows) \in Nat
  BY <1>1, BytesOfUploads, ConstantsAssumption DEF CapacityKept, Retained
<1>3. CapacityKept' <=> SumFunctionOnSet(Bytes', rows') + 0 <= Capacity
  BY DEF CapacityKept, Retained
<1>4. CASE rows' \subseteq rows
  <2>1. SumFunctionOnSet(Bytes', rows') = Sum(rows')
    BY <1>1, <1>4, RowsGrow, SameBytes
  <2>2. Sum(rows') <= Sum(rows)
    BY <1>1, <1>4, BytesOfUploads, SumOfPart
  <2>3. Sum(rows') \in Nat
    BY <1>1, BytesOfUploads
  <2> HIDE DEF Sum
  <2> QED BY <1>2, <1>3, <2>1, <2>2, <2>3, ConstantsAssumption
<1>5. ASSUME NEW u \in Uploads, Insert(u)
      PROVE  CapacityKept'
  <2> DEFINE saw == req[u].saw
  <2>1. rows' = rows \cup {u} /\ req[u].pc = "open" /\ WithinLimits(u)
    BY <1>5 DEF Insert
  <2>2. rows \subseteq saw /\ saw \in SUBSET Uploads
    BY <1>1, <2>1 DEF Seen, TypeOK, Request
  <2>3. u \notin rows
    BY <2>1 DEF IInv, Stored, Fresh
  <2>4. SumFunctionOnSet(Bytes', rows') = Sum(rows')
    BY <1>1, <1>5, InsertRequest, SameBytes
  <2>5. Sum(rows \cup {u}) = Sum(rows) + Bytes[u]
    BY <1>1, <2>3, BytesOfUploads, SumWith
  <2>6. Sum(rows) <= Sum(saw)
    BY <2>2, <1>1, BytesOfUploads, SumOfPart
  <2>7. Sum(saw) + (IF req[u].sawFinal THEN FinalSize ELSE 0) + Bytes[u] <= Capacity
    BY <1>1, <2>1, BytesOfUploads DEF WithinLimits, Retained
  <2>8. Sum(saw) \in Nat /\ Bytes[u] \in Nat
    BY <1>1, <2>2, BytesOfUploads
  <2> HIDE DEF Sum, saw
  <2> QED BY <1>2, <1>3, <2>1, <2>4, <2>5, <2>6, <2>7, <2>8, ConstantsAssumption
<1> QED BY <1>4, <1>5, RowsGrow

\* Nor do they together fill the case over its capacity: uploads that were
\* counted at once are not all committed.
THEOREM CapacityKeptHolds == Spec => []CapacityKept
<1>1. Init => Seen /\ CapacityKept
  <2> SUFFICES ASSUME Init PROVE Seen /\ CapacityKept
    OBVIOUS
  <2>1. rows = {} /\ \A u \in Uploads : req[u].pc = "idle"
    BY DEF Init
  <2>2. SumFunctionOnSet(Bytes, rows) = 0
    BY <2>1, SumOfNone
  <2> QED BY <2>1, <2>2, ConstantsAssumption DEF Seen, CapacityKept, Retained
<1>2. IInv /\ IInv' /\ Told /\ Shown /\ Seen /\ CapacityKept /\ [Next]_vars
        => Seen' /\ CapacityKept'
  BY SeenInductive, CapacityInductive
<1> QED BY <1>1, <1>2, ToldHolds, PTL DEF Spec

-----------------------------------------------------------------------------
(* Gates *)

Inside(g, w) == {u \in Holding(g) : req[u].window = w}

Counted ==
  /\ GatesCount
  /\ \A g \in Gates : \A u \in Holding(g) : req[u].window \in Windows

\* A request holds an admission of its own gate, by its stage.
HoldsAt(g, pc) ==
  pc \in IF g = "preview" THEN {"gated"}
         ELSE {"gated", "written", "open", "reused", "failing"}

LEMMA HoldingByStage ==
  ASSUME NEW g \in Gates, NEW u \in Uploads
  PROVE  u \in Holding(g) <=> GateOf(u) = g /\ HoldsAt(g, req[u].pc)
  BY DEF Holding, HoldsAt

LEMMA InsideFinite ==
  ASSUME NEW g \in Gates, NEW w
  PROVE  IsFiniteSet(Inside(g, w))
<1>1. Inside(g, w) \subseteq Uploads
  BY DEF Inside, Holding
<1> QED BY <1>1, FS_Subset, ConstantsAssumption

LEMMA CountStays ==
  ASSUME Counted, UNCHANGED gates,
         \A u \in Uploads :
           /\ HoldsAt(GateOf(u), req'[u].pc) <=> HoldsAt(GateOf(u), req[u].pc)
           /\ HoldsAt(GateOf(u), req[u].pc) => req'[u].window = req[u].window
  PROVE  Counted'
<1>1. \A g \in Gates : Holding(g)' = Holding(g)
  BY DEF Holding, HoldsAt
<1>2. \A g \in Gates : \A u \in Holding(g) : req'[u].window = req[u].window
  BY DEF Holding, HoldsAt
<1>3. \A g \in Gates, w \in Windows : Inside(g, w)' = Inside(g, w)
  BY <1>1, <1>2 DEF Inside
<1> QED BY <1>1, <1>2, <1>3 DEF Counted, GatesCount, Inside

LEMMA CountLeaves ==
  ASSUME TypeOK, Counted, NEW u \in Uploads,
         HoldsAt(GateOf(u), req[u].pc), gates' = Released(u),
         ~HoldsAt(GateOf(u), req'[u].pc),
         \A v \in Uploads : v # u =>
           /\ HoldsAt(GateOf(v), req'[v].pc) <=> HoldsAt(GateOf(v), req[v].pc)
           /\ HoldsAt(GateOf(v), req[v].pc) => req'[v].window = req[v].window
  PROVE  Counted'
<1> DEFINE mine == GateOf(u)
<1> DEFINE wu == req[u].window
<1>1. mine \in Gates /\ u \in Holding(mine)
  BY DEF GateOf, Gates, Holding, HoldsAt
<1>2. wu \in Windows
  BY <1>1 DEF Counted
<1>3. \A g \in Gates : Holding(g)' = Holding(g) \ {u}
  BY <1>1 DEF Holding, HoldsAt
<1>4. \A g \in Gates : \A v \in Holding(g)' : req'[v].window = req[v].window
  BY <1>3 DEF Holding, HoldsAt
<1>5. \A g \in Gates, w \in Windows : Inside(g, w)' = Inside(g, w) \ {u}
  BY <1>3, <1>4 DEF Inside
<1>6. u \in Inside(mine, wu)
  BY <1>1 DEF Inside
<1>7. \A g \in Gates, w \in Windows :
        u \in Inside(g, w) => g = mine /\ w = wu
  BY DEF Inside, Holding
<1>8. /\ IsFiniteSet(Inside(mine, wu))
      /\ Cardinality(Inside(mine, wu)) \in Nat
      /\ Cardinality(Inside(mine, wu) \ {u}) = Cardinality(Inside(mine, wu)) - 1
      /\ Cardinality(Inside(mine, wu)) # 0
  <2>1. IsFiniteSet(Inside(mine, wu))
    BY <1>1, InsideFinite
  <2>2. Cardinality(Inside(mine, wu)) # 0
    BY <1>6, <2>1, FS_EmptySet
  <2> QED BY <1>6, <2>1, <2>2, FS_RemoveElement, FS_CardinalityType
<1>9. ASSUME NEW g \in Gates, NEW w \in Windows, g # mine \/ w # wu
      PROVE  gates'[g].active[w] = gates[g].active[w]
  BY <1>1, <1>2, <1>9 DEF Released, TypeOK, Gate
<1>10. gates[mine].active[wu] = Cardinality(Inside(mine, wu))
  BY <1>1, <1>2 DEF Counted, GatesCount, Inside
<1>11. gates'[mine].active[wu] = Cardinality(Inside(mine, wu)) - 1
  <2>1. gates'[mine].active[wu] =
          IF gates[mine].active[wu] = 0 THEN 0 ELSE gates[mine].active[wu] - 1
    BY <1>1, <1>2 DEF Released, TypeOK, Gate
  <2> QED BY <1>8, <1>10, <2>1
<1> HIDE DEF mine, wu
<1>12. ASSUME NEW g \in Gates, NEW w \in Windows
       PROVE  /\ gates'[g].active[w] = Cardinality(Inside(g, w)')
              /\ gates'[g].active[w] <= MaxActive[g]
  <2>1. /\ gates[g].active[w] = Cardinality(Inside(g, w))
        /\ gates[g].active[w] <= MaxActive[g]
    BY DEF Counted, GatesCount, Inside
  <2>2. CASE g = mine /\ w = wu
    <3>1. MaxActive[g] \in Nat
      BY ConstantsAssumption
    <3>2. Inside(g, w) = Inside(mine, wu)
      BY <2>2 DEF Inside
    <3>3. Inside(g, w)' = Inside(g, w) \ {u}
      BY <1>5
    <3>4. Cardinality(Inside(g, w) \ {u}) = Cardinality(Inside(g, w)) - 1
      BY <1>8, <3>2
    <3>5. gates'[g].active[w] = Cardinality(Inside(g, w)) - 1
      BY <1>11, <2>2, <3>2
    <3>6. Cardinality(Inside(g, w)) \in Nat
      BY <1>8, <3>2
    <3>7. gates'[g].active[w] <= MaxActive[g]
      BY <2>1, <3>1, <3>5, <3>6
    <3> QED BY <3>3, <3>4, <3>5, <3>7
  <2>3. CASE g # mine \/ w # wu
    <3>1. Inside(g, w)' = Inside(g, w)
      BY <1>5, <1>7, <2>3
    <3> QED BY <1>9, <2>1, <2>3, <3>1
  <2> QED BY <2>2, <2>3
<1>13. \A g \in Gates : \A v \in Holding(g)' : req'[v].window \in Windows
  BY <1>3, <1>4 DEF Counted
<1> QED BY <1>12, <1>13 DEF Counted, GatesCount, Inside

LEMMA CountEnters ==
  ASSUME TypeOK, Counted, NEW u \in Uploads, Admit(u)
  PROVE  Counted'
<1> DEFINE mine == GateOf(u)
<1>0. mine \in Gates /\ req[u].pc = "sent" /\ req[u] \in Request /\ gates[mine] \in Gate
  BY DEF Admit, GateOf, Gates, TypeOK
<1>1. \A v \in Uploads : v # u => req'[v] = req[v]
  BY StageRequest, ConstantsAssumption
<1>2. PICK gate \in {gates[mine]} \cup
         IF 0 < gates[mine].attempts /\ gates[mine].window < MaxWindows
         THEN {NextWindow(gates[mine])} ELSE {} :
       \/ /\ gate.active[gate.window] < MaxActive[mine]
          /\ gates' = [gates EXCEPT ![mine] =
                         [gate EXCEPT !.attempts = @ + 1,
                                      !.active[gate.window] = @ + 1]]
          /\ req' = [req EXCEPT ![u].pc = "gated", ![u].window = gate.window]
       \/ /\ req' = [req EXCEPT ![u].pc = "failed"]
          /\ UNCHANGED gates
  BY DEF Admit
<1>3. gate \in Gate /\ gate.active = gates[mine].active
  <2>1. gates[mine].window < MaxWindows => gates[mine].window + 1 \in Windows
    BY <1>0, ConstantsAssumption DEF Gate, Windows
  <2>2. CASE gate = gates[mine]
    BY <1>0, <2>2
  <2>3. CASE gates[mine].window < MaxWindows /\ gate = NextWindow(gates[mine])
    <3>1. [gates[mine] EXCEPT !.window = gates[mine].window + 1, !.attempts = 0]
            \in Gate
      BY <1>0, <2>1, <2>3 DEF Gate
    <3> QED BY <1>0, <2>3, <3>1 DEF NextWindow, Gate
  <2> QED BY <1>2, <2>2, <2>3
<1> DEFINE wu == gate.window
<1>4. wu \in Windows
  BY <1>3 DEF Gate
<1>5. CASE req' = [req EXCEPT ![u].pc = "failed"] /\ UNCHANGED gates
  <2>1. req'[u].pc = "failed"
    BY <1>0, <1>5 DEF TypeOK, Request
  <2> QED BY <1>0, <1>1, <1>5, <2>1, CountStays DEF HoldsAt
<1>6. CASE /\ gate.active[wu] < MaxActive[mine]
           /\ gates' = [gates EXCEPT ![mine] =
                         [gate EXCEPT !.attempts = @ + 1, !.active[wu] = @ + 1]]
           /\ req' = [req EXCEPT ![u].pc = "gated", ![u].window = wu]
  <2>1. req'[u].pc = "gated" /\ req'[u].window = wu
    BY <1>0, <1>6 DEF TypeOK, Request
  <2>2. /\ Holding(mine)' = Holding(mine) \cup {u}
        /\ \A g \in Gates : g # mine => Holding(g)' = Holding(g)
        /\ \A g \in Gates : u \notin Holding(g)
    BY <1>0, <1>1, <2>1 DEF Holding
  <2>3. /\ Inside(mine, wu)' = Inside(mine, wu) \cup {u}
        /\ u \notin Inside(mine, wu)
        /\ \A g \in Gates, w \in Windows : g # mine \/ w # wu =>
             Inside(g, w)' = Inside(g, w)
    <3>1. \A g \in Gates : \A v \in Holding(g) : req'[v] = req[v]
      BY <1>1, <2>2 DEF Holding
    <3>2. Inside(mine, wu)' = Inside(mine, wu) \cup {u}
      BY <1>0, <2>1, <2>2, <3>1 DEF Inside
    <3>3. u \notin Inside(mine, wu)
      BY <1>0, <2>2 DEF Inside
    <3>4. ASSUME NEW g \in Gates, NEW w \in Windows, g # mine
          PROVE  Inside(g, w)' = Inside(g, w)
      BY <2>2, <3>1, <3>4 DEF Inside
    <3>5. ASSUME NEW w \in Windows, w # wu
          PROVE  Inside(mine, w)' = Inside(mine, w)
      BY <1>0, <2>1, <2>2, <3>1, <3>5 DEF Inside
    <3> QED BY <3>2, <3>3, <3>4, <3>5
  <2>4. /\ Cardinality(Inside(mine, wu) \cup {u}) = Cardinality(Inside(mine, wu)) + 1
        /\ Cardinality(Inside(mine, wu)) \in Nat
    BY <1>0, <2>3, InsideFinite, FS_AddElement, FS_CardinalityType
  <2>5. gates'[mine].active[wu] = gates[mine].active[wu] + 1
    BY <1>0, <1>3, <1>4, <1>6 DEF TypeOK, Gate
  <2>6. ASSUME NEW g \in Gates, NEW w \in Windows, g # mine \/ w # wu
        PROVE  gates'[g].active[w] = gates[g].active[w]
    BY <1>0, <1>3, <1>4, <1>6, <2>6 DEF TypeOK, Gate
  <2>7. \A g \in Gates, w \in Windows :
          /\ gates[g].active[w] = Cardinality(Inside(g, w))
          /\ gates[g].active[w] <= MaxActive[g]
    BY DEF Counted, GatesCount, Inside
  <2>8. \A g \in Gates : MaxActive[g] \in Nat
    BY ConstantsAssumption
  <2>9. gates[mine].active[wu] < MaxActive[mine]
    BY <1>3, <1>6
  <2> HIDE DEF mine, wu
  <2>10. ASSUME NEW g \in Gates, NEW w \in Windows
         PROVE  /\ gates'[g].active[w] = Cardinality(Inside(g, w)')
                /\ gates'[g].active[w] <= MaxActive[g]
    <3>1. CASE g = mine /\ w = wu
      <4>1. Inside(g, w)' = Inside(mine, wu) \cup {u}
        BY <2>3, <3>1
      <4>2. gates'[g].active[w] = Cardinality(Inside(mine, wu)) + 1
        BY <2>5, <2>7, <3>1
      <4>3. gates'[g].active[w] <= MaxActive[g]
        BY <2>4, <2>5, <2>7, <2>8, <2>9, <3>1
      <4> QED BY <2>4, <4>1, <4>2, <4>3
    <3>2. CASE g # mine \/ w # wu
      BY <2>3, <2>6, <2>7, <3>2
    <3> QED BY <3>1, <3>2
  <2>11. \A g \in Gates : \A v \in Holding(g)' : req'[v].window \in Windows
    BY <1>1, <1>4, <2>1, <2>2 DEF Counted, Holding
  <2> QED BY <2>10, <2>11 DEF Counted, GatesCount, Inside
<1> QED BY <1>2, <1>5, <1>6

LEMMA StageWindow ==
  ASSUME TypeOK, NEW u \in Uploads, NEW b \in Contents,
         \/ BeginUpload(u, b) \/ Call(u, b) \/ Disconnect(u)
         \/ Write(u) \/ Begin(u) \/ Reuse(u) \/ Refuse(u)
  PROVE  req'[u].window = req[u].window
<1>1. req[u] \in Request
  BY DEF TypeOK
<1>2. CASE BeginUpload(u, b) \/ Call(u, b)
  BY <1>1, <1>2 DEF BeginUpload, Call, TypeOK, Request
<1>3. CASE Disconnect(u) \/ Write(u) \/ Begin(u) \/ Refuse(u)
  BY <1>1, <1>3 DEF Disconnect, Write, Begin, Refuse, TypeOK, Request
<1>4. CASE Reuse(u)
  <2>1. \E v : req' = [req EXCEPT ![u].pc = "reused", ![u].file = v]
    BY <1>4 DEF Reuse
  <2> QED BY <1>1, <2>1 DEF TypeOK, Request
<1> QED BY <1>2, <1>3, <1>4

LEMMA InsertCounted ==
  ASSUME TypeOK, Counted, NEW u \in Uploads, Insert(u)
  PROVE  Counted'
<1>0. req[u].pc = "open" /\ req[u] \in Request /\ GateOf(u) \in Gates
  BY DEF Insert, TypeOK, GateOf, Gates
<1>1. \A v \in Uploads : v # u =>
        /\ HoldsAt(GateOf(v), req'[v].pc) <=> HoldsAt(GateOf(v), req[v].pc)
        /\ req'[v].window = req[v].window
  BY InsertRequest DEF HoldsAt
<1>2. PICK heard \in BOOLEAN :
        /\ req'[u] = [req[u] EXCEPT !.pc = IF heard THEN "ok" ELSE "failing",
                                    !.file = IF heard THEN u ELSE None,
                                    !.window = IF heard THEN 0 ELSE @,
                                    !.saw = {}, !.sawFinal = FALSE]
        /\ gates' = IF heard /\ GateOf(u) = "upload" THEN Released(u) ELSE gates
  BY DEF Insert
<1>3. CASE GateOf(u) = "preview"
  <2>1. ~HoldsAt(GateOf(u), req[u].pc)
    BY <1>0, <1>3 DEF HoldsAt
  <2>2. req'[u].pc \in {"ok", "failing"}
    BY InsertRequest
  <2>3. UNCHANGED gates
    BY <1>2, <1>3
  <2> QED BY <1>1, <1>3, <2>1, <2>2, <2>3, CountStays DEF HoldsAt
<1>4. CASE GateOf(u) = "upload" /\ heard = TRUE
  <2>1. req'[u].pc = "ok"
    BY <1>0, <1>2, <1>4 DEF Request
  <2>2. HoldsAt(GateOf(u), req[u].pc) /\ ~HoldsAt(GateOf(u), req'[u].pc)
    BY <1>0, <1>4, <2>1 DEF HoldsAt
  <2>3. gates' = Released(u)
    BY <1>2, <1>4
  <2> QED BY <1>1, <2>2, <2>3, CountLeaves
<1>5. CASE GateOf(u) = "upload" /\ heard = FALSE
  <2>1. req'[u].pc = "failing" /\ req'[u].window = req[u].window
    BY <1>0, <1>2, <1>5 DEF Request
  <2>2. UNCHANGED gates
    BY <1>2, <1>5
  <2>3. HoldsAt(GateOf(u), req'[u].pc) <=> HoldsAt(GateOf(u), req[u].pc)
    BY <1>0, <1>5, <2>1 DEF HoldsAt
  <2> QED BY <1>1, <2>1, <2>2, <2>3, CountStays
<1> QED BY <1>3, <1>4, <1>5 DEF GateOf

LEMMA EndsCounted ==
  ASSUME TypeOK, Counted, NEW u \in Uploads, NEW pc \in {"ok", "failed"},
         NEW file, Ends(u, pc, file), req[u].pc \in {"reused", "failing"}
  PROVE  Counted'
<1>1. req'[u].pc = pc /\ \A v \in Uploads : v # u => req'[v] = req[v]
  BY EndsRequest
<1>2. ~HoldsAt(GateOf(u), req'[u].pc)
  BY <1>1 DEF HoldsAt
<1>3. CASE GateOf(u) = "upload"
  <2>1. HoldsAt(GateOf(u), req[u].pc)
    BY <1>3 DEF HoldsAt
  <2>2. gates' = Released(u)
    BY <1>3 DEF Ends
  <2> QED BY <1>1, <1>2, <2>1, <2>2, CountLeaves
<1>4. CASE GateOf(u) = "preview"
  <2>1. ~HoldsAt(GateOf(u), req[u].pc)
    BY <1>4 DEF HoldsAt
  <2>2. UNCHANGED gates
    BY <1>4 DEF Ends
  <2> QED BY <1>1, <1>2, <2>1, <2>2, CountStays
<1> QED BY <1>3, <1>4 DEF GateOf

LEMMA WriteCounted ==
  ASSUME TypeOK, Counted, NEW u \in Uploads, Write(u)
  PROVE  Counted'
<1>1. /\ req[u].pc = "gated" /\ req'[u].pc \in {"written", "failing"}
      /\ req'[u].window = req[u].window
      /\ \A v \in Uploads : v # u => req'[v] = req[v]
  BY StageReached, StageWindow, StageRequest, ConstantsAssumption
<1>2. HoldsAt(GateOf(u), req[u].pc)
  BY <1>1 DEF HoldsAt
<1>3. CASE GateOf(u) = "preview"
  <2>1. ~HoldsAt(GateOf(u), req'[u].pc)
    BY <1>1, <1>3 DEF HoldsAt
  <2>2. gates' = Released(u)
    BY <1>3 DEF Write
  <2> QED BY <1>1, <1>2, <2>1, <2>2, CountLeaves
<1>4. CASE GateOf(u) = "upload"
  <2>1. HoldsAt(GateOf(u), req'[u].pc)
    BY <1>1, <1>4 DEF HoldsAt
  <2>2. UNCHANGED gates
    BY <1>4 DEF Write
  <2> QED BY <1>1, <1>2, <2>1, <2>2, CountStays
<1> QED BY <1>3, <1>4 DEF GateOf

\* After a crash nobody is inside and nobody is counted.
LEMMA CrashCounted ==
  ASSUME TypeOK, Crash
  PROVE  Counted'
<1>1. \A u \in Uploads : req'[u].pc \in {"idle", "ok", "failed", "dead"}
  BY CrashRequest
<1>2. \A g \in Gates : Holding(g)' = {}
  BY <1>1 DEF Holding
<1>3. \A g \in Gates, w \in Windows : Inside(g, w)' = {}
  BY <1>2 DEF Inside
<1>4. \A g \in Gates, w \in Windows : gates'[g].active[w] = 0
  BY DEF Crash, FreshGate
<1>5. \A g \in Gates : 0 <= MaxActive[g]
  BY ConstantsAssumption
<1> QED BY <1>2, <1>3, <1>4, <1>5, FS_EmptySet DEF Counted, GatesCount, Inside

LEMMA CountedInductive ==
  ASSUME TypeOK, Counted, [Next]_vars
  PROVE  Counted'
<1> USE DEF dbVars, pageVars
<1>1. ASSUME NEW u \in Uploads, NEW b \in Contents,
             \/ BeginUpload(u, b) \/ Call(u, b) \/ Disconnect(u)
             \/ Begin(u) \/ Reuse(u) \/ Refuse(u)
      PROVE  Counted'
  <2>1. \A v \in Uploads : v # u => req'[v] = req[v]
    BY <1>1, StageRequest
  <2>2. req'[u].window = req[u].window
    BY <1>1, StageWindow
  <2>3. UNCHANGED gates
    BY <1>1 DEF BeginUpload, Call, Disconnect, Begin, Reuse, Refuse
  <2>4. HoldsAt(GateOf(u), req'[u].pc) <=> HoldsAt(GateOf(u), req[u].pc)
    BY <1>1, StageReached DEF HoldsAt
  <2> QED BY <2>1, <2>2, <2>3, <2>4, CountStays
<1>2. ASSUME NEW u \in Uploads, DropReused(u) \/ DropFailed(u)
      PROVE  Counted'
  BY <1>2, EndsCounted DEF DropReused, DropFailed
<1>3. CASE \/ Sign \/ CompleteFinal \/ UNCHANGED vars
           \/ \E u \in Uploads : \/ Answer(u) \/ RemoveEntry(u) \/ RemovalFails(u)
                                 \/ RemovePublic(u)
  <2>1. UNCHANGED <<req, gates>>
    BY <1>3 DEF Sign, CompleteFinal, vars, Answer, RemoveEntry, RemovalFails,
                RemovePublic
  <2> QED BY <2>1, CountStays
<1> QED
  BY ConstantsAssumption, <1>1, <1>2, <1>3, CountEnters, WriteCounted,
     InsertCounted, CrashCounted
     DEF Next, PageStep, ApiStep

\* A gate counts those inside it, each in the window that admitted it.
THEOREM GatesCountHolds == Spec => []GatesCount
<1>1. Init => Counted
  <2> SUFFICES ASSUME Init PROVE Counted
    OBVIOUS
  <2>1. \A g \in Gates : Holding(g) = {}
    BY DEF Init, Holding
  <2>2. \A g \in Gates, w \in Windows : gates[g].active[w] = 0
    BY DEF Init, FreshGate
  <2>3. \A g \in Gates : 0 <= MaxActive[g]
    BY ConstantsAssumption
  <2>4. \A g \in Gates, w \in Windows : Inside(g, w) = {}
    BY <2>1 DEF Inside
  <2> QED BY <2>1, <2>2, <2>3, <2>4, FS_EmptySet DEF Counted, GatesCount, Inside
<1>2. TypeOK /\ Counted /\ [Next]_vars => Counted'
  BY CountedInductive
<1>3. Counted => GatesCount
  BY DEF Counted
<1> QED BY <1>1, <1>2, <1>3, TypeCorrect, PTL DEF Spec

-----------------------------------------------------------------------------
(* Serializability *)

\* An entry's file is what its request was told of.
Heard ==
  \A u \in Uploads :
    page[u].file # None => req[u].pc = "ok" /\ req[u].file = page[u].file

\* An answer is for ever, and given by Insert or DropReused only.
LEMMA AnswersStay ==
  ASSUME TypeOK, [Next]_vars, NEW u \in Uploads
  PROVE  /\ req[u].pc = "ok" => /\ req'[u].pc = "ok" /\ req'[u].file = req[u].file
                                /\ req'[u].bytes = req[u].bytes
         /\ req[u].pc # "idle" => req'[u].bytes = req[u].bytes
         /\ req'[u].pc = "ok" => req[u].pc = "ok" \/ Insert(u) \/ DropReused(u)
<1> DEFINE Good == /\ req[u].pc = "ok" => req'[u].pc = "ok" /\ req'[u].file = req[u].file
                   /\ req[u].pc # "idle" => req'[u].bytes = req[u].bytes
                   /\ req'[u].pc = "ok" => req[u].pc = "ok" \/ Insert(u) \/ DropReused(u)
<1>1. SUFFICES Good
  OBVIOUS
<1>2. ASSUME NEW v \in Uploads, NEW b \in Contents,
             \/ BeginUpload(v, b) \/ Call(v, b) \/ Admit(v)
             \/ Write(v) \/ Begin(v) \/ Reuse(v) \/ Refuse(v)
      PROVE  Good
  <2>1. req[v].pc # "ok" /\ req'[v].pc # "ok"
    BY <1>2, StageReached
  <2> QED BY <1>2, <2>1, StageRequest
<1>3. ASSUME NEW v \in Uploads, Disconnect(v)
      PROVE  Good
  <2>1. req'[v].pc = IF req[v].pc = "sent" THEN "dead" ELSE req[v].pc
    BY <1>3, StageReached
  <2>2. /\ \A w \in Uploads : w # v => req'[w] = req[w]
        /\ req'[v].bytes = req[v].bytes /\ req'[v].file = req[v].file
    BY <1>3 DEF Disconnect, TypeOK, Request
  <2> QED BY <2>1, <2>2
<1>4. ASSUME NEW v \in Uploads, Insert(v)
      PROVE  Good
  <2>1. req[v].pc = "open"
    BY <1>4 DEF Insert
  <2> QED BY <1>4, <2>1, InsertRequest
<1>5. ASSUME NEW v \in Uploads, DropReused(v) \/ DropFailed(v)
      PROVE  Good
  <2>1. /\ req[v].pc \in {"reused", "failing"}
        /\ req'[v].pc = "ok" => DropReused(v)
        /\ req'[v].bytes = req[v].bytes
        /\ \A w \in Uploads : w # v => req'[w] = req[w]
    BY <1>5, EndsRequest DEF DropReused, DropFailed
  <2> QED BY <2>1
<1>6. CASE Crash
  <2>1. req[u].pc \in {"idle", "ok", "failed", "dead"} => req'[u] = req[u]
    BY <1>6 DEF Crash
  <2> QED BY <1>6, <2>1, CrashRequest
<1>7. CASE UNCHANGED req
  BY <1>7
<1> QED
  BY ConstantsAssumption, <1>2, <1>3, <1>4, <1>5, <1>6, <1>7
     DEF Next, PageStep, ApiStep, vars, dbVars, pageVars, Answer, RemoveEntry,
         RemovalFails, RemovePublic, Sign, CompleteFinal

\* The file of an entry is the one it had, or the one its answer brings.
LEMMA EntryFile ==
  ASSUME TypeOK, [Next]_vars, NEW u \in Uploads
  PROVE  \/ page'[u].file = page[u].file
         \/ page'[u].file = None
         \/ req[u].pc = "ok" /\ page'[u].file = req[u].file
<1>1. page \in [Uploads -> Entry]
  BY DEF TypeOK
<1>2. ASSUME NEW v \in Uploads, Answer(v)
      PROVE  \/ page'[u].file = page[u].file
             \/ page'[u].file = None
             \/ req[u].pc = "ok" /\ page'[u].file = req[u].file
  BY <1>1, <1>2 DEF Answer
<1>3. ASSUME NEW v \in Uploads, NEW b \in Contents, BeginUpload(v, b) \/ Disconnect(v)
      PROVE  page'[u].file = page[u].file
  BY <1>1, <1>3 DEF BeginUpload, Disconnect, Entry
<1>4. ASSUME NEW v \in Uploads, RemoveEntry(v)
      PROVE  page'[u].file = page[u].file
  BY <1>1, <1>4 DEF RemoveEntry, Entry
<1>5. ASSUME NEW v \in Uploads
      PROVE  Restored(v)[u].file = page[u].file
  BY <1>1 DEF Restored, Entry
<1>6. ASSUME NEW v \in Uploads, RemovalFails(v) \/ RemovePublic(v)
      PROVE  page'[u].file = page[u].file
  <2>1. \/ page' = page \/ page' = Restored(v)
        \/ page' = [page EXCEPT ![v].state = "gone"]
    BY <1>6 DEF RemovalFails, RemovePublic
  <2> QED BY <1>1, <1>5, <2>1 DEF Entry
<1>7. CASE UNCHANGED page
  BY <1>7
<1> QED
  BY ConstantsAssumption, <1>2, <1>3, <1>4, <1>6, <1>7
     DEF Next, PageStep, ApiStep, vars, dbVars, pageVars, Admit, Write, Begin,
         Reuse, Insert, Refuse, DropReused, DropFailed, Call, Crash, Sign,
         CompleteFinal

LEMMA HeardInductive ==
  ASSUME TypeOK, Heard, [Next]_vars
  PROVE  Heard'
  BY AnswersStay, EntryFile DEF Heard

\* The bytes of a file that was ever accepted do not change.
LEMMA FilesStay ==
  ASSUME IInv, [Next]_vars, NEW f \in rows \cup removed
  PROVE  f \in Uploads /\ req'[f].bytes = req[f].bytes
<1>1. f \in Uploads /\ req[f].pc # "idle"
  BY DEF IInv, TypeOK, Stored, Fresh
<1> QED BY <1>1, AnswersStay DEF IInv

LEMMA HeldIsRetained ==
  ASSUME TypeOK
  PROVE  Files!Held = Retained(rows, FALSE)
<1> DEFINE sizes == [f \in rows |-> Size[Accepted[f]]]
<1>1. Files!Held = SumFunctionOnSet(sizes, rows)
  BY DEF Files!Held, Files!SumFunctionOnSet, SumFunctionOnSet,
         Files!FoldFunctionOnSet, FoldFunctionOnSet, Files!MapThenFoldSet,
         MapThenFoldSet
<1>2. rows \in SUBSET Uploads
  BY DEF TypeOK
<1>3. \A f \in rows : sizes[f] = Bytes[f]
  BY <1>2, BytesOfUploads DEF Accepted
<1>4. SumFunctionOnSet(sizes, rows) = SumFunctionOnSet(Bytes, rows)
  BY <1>2, <1>3, BytesOfUploads, SumOfSame
<1>5. SumFunctionOnSet(Bytes, rows) \in Nat
  BY <1>2, BytesOfUploads
<1> QED BY <1>1, <1>4, <1>5 DEF Retained
\* What an insertion compares, counts and weighs is all there is.
LEMMA InsertFits ==
  ASSUME IInv, Seen, NEW u \in Uploads, Insert(u)
  PROVE  /\ \A f \in rows : ~(KindOf[f] = KindOf[u] /\ req[f].bytes = req[u].bytes)
         /\ KindOf[u] = "MATERIAL" => Cardinality(Materials) < MaxFiles
         /\ Retained(rows, FALSE) + Size[req[u].bytes] <= Capacity
<1> DEFINE saw == req[u].saw
<1>1. /\ TypeOK /\ req[u].pc = "open" /\ WithinLimits(u)
      /\ ~\E v \in saw : SameFile(u, v)
  BY DEF IInv, Insert
<1>2. rows \subseteq saw /\ rows \in SUBSET Uploads /\ saw \in SUBSET Uploads
  BY <1>1 DEF Seen, TypeOK, Request
<1>3. \A f \in rows : ~(KindOf[f] = KindOf[u] /\ req[f].bytes = req[u].bytes)
  BY <1>1, <1>2 DEF SameFile
<1>4. ASSUME KindOf[u] = "MATERIAL"
      PROVE  Cardinality(Materials) < MaxFiles
  <2>1. Materials \subseteq MaterialsOf(saw) /\ MaterialsOf(saw) \in SUBSET Uploads
    BY <1>2 DEF Materials, MaterialsOf
  <2>2. IsFiniteSet(MaterialsOf(saw))
    BY <2>1, FS_Subset, ConstantsAssumption
  <2>3. /\ Cardinality(Materials) <= Cardinality(MaterialsOf(saw))
        /\ Cardinality(Materials) \in Nat /\ Cardinality(MaterialsOf(saw)) \in Nat
    BY <2>1, <2>2, FS_Subset, FS_CardinalityType
  <2>4. Cardinality(MaterialsOf(saw)) + 1 <= MaxFiles
    BY <1>1, <1>4 DEF WithinLimits
  <2> HIDE DEF saw
  <2> QED BY <2>3, <2>4, ConstantsAssumption
<1>5. Retained(rows, FALSE) + Size[req[u].bytes] <= Capacity
  <2> DEFINE Sum(files) == SumFunctionOnSet(Bytes, files)
  <2>1. Sum(rows) <= Sum(saw)
    BY <1>1, <1>2, BytesOfUploads, SumOfPart
  <2>2. Sum(saw) + (IF req[u].sawFinal THEN FinalSize ELSE 0) + Bytes[u] <= Capacity
    BY <1>1, BytesOfUploads DEF WithinLimits, Retained
  <2>3. Sum(rows) \in Nat /\ Sum(saw) \in Nat /\ Bytes[u] \in Nat
    BY <1>1, <1>2, BytesOfUploads
  <2>4. Retained(rows, FALSE) = Sum(rows)
    BY <2>3 DEF Retained
  <2> HIDE DEF Sum, saw
  <2>5. Sum(saw) + Bytes[u] <= Capacity
    BY <2>2, <2>3, ConstantsAssumption
  <2>6. Sum(rows) + Bytes[u] <= Capacity
    BY <2>1, <2>3, <2>5, ConstantsAssumption
  <2>7. Bytes[u] = Size[req[u].bytes]
    BY <1>1, BytesOfUploads
  <2> QED BY <2>4, <2>6, <2>7
<1> QED BY <1>3, <1>4, <1>5

\* The rest of the steps keep the files that were ever accepted.
LEMMA FilesMapped ==
  ASSUME IInv, [Next]_vars, rows' \cup removed' = rows \cup removed
  PROVE  Accepted' = Accepted
  BY FilesStay DEF Accepted

LEMMA ToldMapped ==
  ASSUME IInv, [Next]_vars, Answered' = Answered
  PROVE  Answers' = Answers
<1>1. \A v \in Answered : req'[v].file = req[v].file /\ req'[v].bytes = req[v].bytes
  BY AnswersStay DEF Answered, IInv
<1> QED BY <1>1 DEF Answers

\* An insertion accepts a file, in the state in which it is committed.
LEMMA InsertAccepts ==
  ASSUME IInv, Seen, [Next]_vars, NEW u \in Uploads, Insert(u),
         NEW b \in Contents, b = req[u].bytes
  PROVE  u \in Files!Waiting /\ Files!Accept(u, b)
<1> USE DEF Accepted, Answers
<1>1. /\ TypeOK /\ req[u].pc = "open" /\ u \notin rows \cup removed
      /\ rows' = rows \cup {u} /\ removed' = removed /\ final' = final
      /\ signed' = SigningAfter(u)
  BY DEF IInv, Stored, Fresh, Insert
<1>2. u \notin Answered /\ u \in Files!Waiting
  BY <1>1 DEF Answered, Files!Waiting
<1>3. ~\E f \in rows : KindOf[f] = KindOf[u] /\ Accepted[f] = b
  BY InsertFits
<1>4. KindOf[u] = "MATERIAL" => Files!Cardinality(Files!Materials) < MaxFiles
  <2>1. Files!Materials = Materials
    BY DEF Files!Materials, Materials, MaterialsOf
  <2>2. Files!Cardinality(Materials) = Cardinality(Materials)
    BY DEF Files!Cardinality, Cardinality
  <2> QED BY <2>1, <2>2, InsertFits
<1>5. Files!Held + Size[b] <= Capacity
  BY <1>1, InsertFits, HeldIsRetained
<1>6. \A v \in Uploads : req'[v].bytes = req[v].bytes
  BY <1>1, InsertRequest
<1>7. Accepted' = Files!Extended(Accepted, u, b)
  <2>1. Accepted' = [f \in rows' \cup removed' |-> req'[f].bytes]
    BY DEF Accepted
  <2>2. rows \cup removed \subseteq Uploads
    BY <1>1 DEF TypeOK
  <2>3. rows' \cup removed' = (rows \cup removed) \cup {u}
    BY <1>1
  <2>4. \A f \in rows' \cup removed' :
          req'[f].bytes = IF f = u THEN b ELSE Accepted[f]
    BY <1>6, <2>2, <2>3
  <2> QED BY <2>1, <2>3, <2>4 DEF Files!Extended
<1>8. signed' = IF KindOf[u] = "MATERIAL" THEN None ELSE signed
  BY <1>1 DEF SigningAfter
<1>9. \A v \in Uploads : v # u =>
        /\ req'[v].pc = "ok" <=> req[v].pc = "ok"
        /\ req'[v].file = req[v].file
  BY <1>1, InsertRequest
<1>10. CASE req'[u].pc = "ok" /\ req'[u].file = u
  <2>1. Answered' = Answered \cup {u}
    BY <1>9, <1>10 DEF Answered
  <2>2. \A v \in Answered' :
          [file |-> req'[v].file, bytes |-> req'[v].bytes]
            = IF v = u THEN [file |-> u, bytes |-> b] ELSE Answers[v]
    BY <1>6, <1>9, <1>10, <2>1 DEF Answered
  <2>3. Answers' = [v \in Answered' |-> [file |-> req'[v].file, bytes |-> req'[v].bytes]]
    BY DEF Answers
  <2>4. Answers' = Files!Extended(Answers, u, [file |-> u, bytes |-> b])
    BY <2>1, <2>2, <2>3 DEF Files!Extended
  <2>5. Files!Hears(u, u, b)
    BY <2>4 DEF Files!Hears
  <2> QED BY <1>1, <1>2, <1>3, <1>4, <1>5, <1>7, <1>8, <2>5 DEF Files!Accept
<1>11. CASE req'[u].pc = "failing"
  <2>1. Answered' = Answered
    BY <1>1, <1>9, <1>11 DEF Answered
  <2>2. Answers' = Answers
    BY <2>1, ToldMapped
  <2> QED BY <1>1, <1>2, <1>3, <1>4, <1>5, <1>7, <1>8, <2>2 DEF Files!Accept
<1> QED BY <1>1, <1>10, <1>11, InsertRequest

\* An equal file is recognized, kept or removed meanwhile.
LEMMA DropRecognizes ==
  ASSUME IInv, Told, [Next]_vars, NEW u \in Uploads, DropReused(u),
         NEW v, v = req[u].file
  PROVE  /\ u \in Files!Waiting /\ v \in DOMAIN Accepted
         /\ Files!Recognize(u, v)
<1> USE DEF Accepted, Answers
<1>1. /\ TypeOK /\ req[u].pc = "reused" /\ u \notin rows \cup removed
      /\ UNCHANGED <<rows, removed, final, signed>>
  BY DEF IInv, Stored, Fresh, DropReused, dbVars
<1>2. u \notin Answered /\ u \in Files!Waiting
  BY <1>1 DEF Answered, Files!Waiting
<1>3. v \in rows \cup removed /\ KindOf[v] = KindOf[u] /\ req[v].bytes = req[u].bytes
  BY <1>1 DEF Told, ToldOf, Kept
<1>4. /\ req'[u].pc = "ok" /\ req'[u].file = v /\ req'[u].bytes = req[u].bytes
      /\ \A w \in Uploads : w # u => req'[w] = req[w]
  BY <1>1, EndsRequest DEF DropReused
<1>5. Answered' = Answered \cup {u}
  BY <1>4 DEF Answered
<1>6. \A w \in Answered' :
        [file |-> req'[w].file, bytes |-> req'[w].bytes]
          = IF w = u THEN [file |-> v, bytes |-> Accepted[v]] ELSE Answers[w]
  BY <1>3, <1>4, <1>5 DEF Answered
<1>7. Answers' = [w \in Answered' |-> [file |-> req'[w].file, bytes |-> req'[w].bytes]]
  BY DEF Answers
<1>8. Answers' = Files!Extended(Answers, u, [file |-> v, bytes |-> Accepted[v]])
  BY <1>5, <1>6, <1>7 DEF Files!Extended
<1>9. Accepted' = Accepted
  BY <1>1, FilesMapped
<1> QED BY <1>1, <1>2, <1>3, <1>8, <1>9 DEF Files!Recognize, Files!Hears

\* A removal withdraws a file that its sender was told of.
LEMMA RemovalWithdraws ==
  ASSUME IInv, Heard, [Next]_vars, NEW u \in Uploads, RemovePublic(u),
         page[u].file \in Materials
  PROVE  Files!Withdraw(page[u].file)
<1> USE DEF Accepted, Answers
<1> DEFINE f == page[u].file
<1>1. /\ rows' = rows \ {f} /\ removed' = removed \cup {f} /\ signed' = None
      /\ UNCHANGED <<req, final>>
  BY DEF RemovePublic
<1>2. f \in rows /\ KindOf[f] = "MATERIAL" /\ f \in Uploads /\ f # None
  BY ConstantsAssumption DEF IInv, TypeOK, Materials, MaterialsOf
<1>3. u \in Answered /\ Answers[u].file = f
  BY <1>2 DEF Heard, Answered
<1>4. rows' \cup removed' = rows \cup removed
  BY <1>1, <1>2
<1>5. Answered' = Answered
  BY <1>1 DEF Answered
<1> QED BY <1>1, <1>2, <1>3, <1>4, <1>5, FilesMapped, ToldMapped DEF Files!Withdraw

LEMMA ServedStep ==
  ASSUME IInv, Told, Seen, Heard, [Next]_vars
  PROVE  [Files!Next]_(Files!vars)
<1>1. ASSUME NEW u \in Uploads, Insert(u)
      PROVE  Files!Next
  <2>1. PICK b \in Contents : b = req[u].bytes
    BY DEF IInv, TypeOK, Request
  <2>2. u \in Files!Waiting /\ Files!Accept(u, b)
    BY <1>1, <2>1, InsertAccepts
  <2> QED BY <2>2 DEF Files!Next
<1>2. ASSUME NEW u \in Uploads, DropReused(u)
      PROVE  Files!Next
  <2>1. PICK f : f = req[u].file
    OBVIOUS
  <2>2. u \in Files!Waiting /\ f \in DOMAIN Accepted /\ Files!Recognize(u, f)
    BY <1>2, <2>1, DropRecognizes
  <2> QED BY <2>2 DEF Files!Next
<1>3. ASSUME NEW u \in Uploads, RemovePublic(u), page[u].file \in Materials
      PROVE  Files!Next
  <2>1. page[u].file \in rows
    BY <1>3 DEF Materials, MaterialsOf
  <2> QED BY <1>3, <2>1, RemovalWithdraws DEF Files!Next
<1>4. CASE /\ rows' = rows /\ removed' = removed
           /\ \A u \in Uploads : ~Insert(u) /\ ~DropReused(u)
  <2>1. Answered' = Answered
    BY <1>4, AnswersStay DEF Answered, IInv
  <2>2. Accepted' = Accepted /\ Answers' = Answers
    BY <1>4, <2>1, FilesMapped, ToldMapped
  <2>3. CASE UNCHANGED <<final, signed>>
    BY <1>4, <2>2, <2>3 DEF Files!vars
  <2>4. CASE Sign
    <3>1. signed' = Files!Materials /\ final' = final
      BY <2>4 DEF Sign, Materials, MaterialsOf, Files!Materials
    <3> QED BY <1>4, <2>2, <3>1 DEF Files!Next, Files!Sign
  <2>5. CASE CompleteFinal
    <3>1. /\ ~final /\ final' = TRUE /\ signed' = signed
          /\ Files!Held + FinalSize <= Capacity
      BY <2>5, HeldIsRetained DEF CompleteFinal, IInv
    <3>2. Files!Complete
      BY <1>4, <2>2, <3>1 DEF Files!Complete
    <3> QED BY <3>2 DEF Files!Next
  <2>6. ASSUME NEW u \in Uploads, RemovePublic(u)
        PROVE  [Files!Next]_(Files!vars)
    <3>1. CASE page[u].file \notin Materials
      BY <2>3, <2>6, <3>1 DEF RemovePublic
    <3> QED BY <1>3, <2>6, <3>1
  <2> QED
    BY <1>4, <2>3, <2>4, <2>5, <2>6, ConstantsAssumption
       DEF Next, PageStep, ApiStep, vars, dbVars, pageVars, BeginUpload, Answer,
           Disconnect, RemoveEntry, RemovalFails, Admit, Write, Begin, Reuse,
           Refuse, DropFailed, Call, Crash
<1>5. \/ rows' = rows /\ removed' = removed
      \/ \E u \in Uploads :
           \/ Insert(u)
           \/ RemovePublic(u) /\ page[u].file \in Materials
  BY DEF Next, PageStep, ApiStep, vars, dbVars, pageVars, BeginUpload, Answer,
         Disconnect, RemoveEntry, RemovalFails, RemovePublic, Admit, Write,
         Begin, Reuse, Refuse, DropReused, DropFailed, Call, Crash, Sign,
         CompleteFinal
<1> QED BY <1>1, <1>2, <1>3, <1>4, <1>5

\* However requests overlap, conflict, fail, die or are run again, the files
\* of the case are as if each had been served alone.
THEOREM ServedInTurnHolds == Spec => ServedInTurn
<1> USE DEF Accepted, Answers
<1>1. Init => Seen /\ Heard /\ Files!Init
  <2> SUFFICES ASSUME Init PROVE Seen /\ Heard /\ Files!Init
    OBVIOUS
  <2>1. rows = {} /\ removed = {} /\ \A u \in Uploads : req[u].pc = "idle"
    BY DEF Init
  <2>2. \A u \in Uploads : page[u].file = None
    BY DEF Init, NoEntry
  <2>3. Answered = {}
    BY <2>1 DEF Answered
  <2>4. Files!Init
    BY <2>1, <2>3 DEF Init, Files!Init
  <2> QED BY <2>1, <2>2, <2>4 DEF Seen, Heard
<1>2. IInv /\ Seen /\ Heard /\ [Next]_vars => Seen' /\ Heard'
  BY SeenInductive, HeardInductive DEF IInv
<1>3. IInv /\ Told /\ Seen /\ Heard /\ [Next]_vars => [Files!Next]_(Files!vars)
  BY ServedStep
<1> QED BY <1>1, <1>2, <1>3, ToldHolds, PTL DEF Spec, ServedInTurn, Files!Spec

-----------------------------------------------------------------------------
(* What serving in turn promises *)

Weight(files, kept) == SumFunctionOnSet([f \in kept |-> Size[files[f]]], kept)

LEMMA WeightIsNat ==
  ASSUME NEW files, NEW kept \in SUBSET Uploads,
         \A f \in kept : files[f] \in Contents
  PROVE  IsFiniteSet(kept) /\ Weight(files, kept) \in Nat
<1>1. IsFiniteSet(kept)
  BY FS_Subset, ConstantsAssumption
<1>2. \A f \in kept : [g \in kept |-> Size[files[g]]][f] \in Nat
  BY ConstantsAssumption
<1> QED BY <1>1, <1>2, SumIsNat DEF Weight

LEMMA WeightGrows ==
  ASSUME NEW files, NEW more, NEW kept \in SUBSET Uploads,
         NEW u \in Uploads, u \notin kept,
         \A f \in kept : files[f] \in Contents /\ more[f] = files[f],
         more[u] \in Contents
  PROVE  Weight(more, kept \cup {u}) = Weight(files, kept) + Size[more[u]]
<1> DEFINE all == kept \cup {u}
           sizes == [f \in kept |-> Size[files[f]]]
           larger == [f \in all |-> Size[more[f]]]
<1>1. IsFiniteSet(kept)
  BY FS_Subset, ConstantsAssumption
<1>2. \A f \in all : larger[f] \in Nat
  BY ConstantsAssumption
<1>3. SumFunctionOnSet(larger, all) = SumFunctionOnSet(larger, kept) + larger[u]
  <2>1. larger[u] \in Nat /\ \A f \in kept : larger[f] \in Nat
    BY <1>2
  <2> HIDE DEF larger
  <2> QED BY <1>1, <2>1, SumWith
<1>4. \A f \in kept : larger[f] = sizes[f]
  OBVIOUS
<1>5. SumFunctionOnSet(larger, kept) = SumFunctionOnSet(sizes, kept)
  BY <1>1, <1>4, SumOfSame
<1>6. larger[u] = Size[more[u]]
  OBVIOUS
<1>7. Weight(more, all) = Weight(files, kept) + larger[u]
  BY <1>3, <1>5 DEF Weight
<1> QED BY <1>6, <1>7

LEMMA WeightOfPart ==
  ASSUME NEW files, NEW kept \in SUBSET Uploads, NEW part \in SUBSET kept,
         \A f \in kept : files[f] \in Contents
  PROVE  Weight(files, part) <= Weight(files, kept)
<1> DEFINE sizes == [f \in kept |-> Size[files[f]]]
           fewer == [f \in part |-> Size[files[f]]]
<1>1. IsFiniteSet(kept) /\ IsFiniteSet(part)
  BY FS_Subset, ConstantsAssumption
<1>2. \A f \in kept : sizes[f] \in Nat
  BY ConstantsAssumption
<1>3. SumFunctionOnSet(sizes, part) <= SumFunctionOnSet(sizes, kept)
  BY <1>1, <1>2, SumOfPart
<1>4. \A f \in part : fewer[f] = sizes[f]
  OBVIOUS
<1>5. SumFunctionOnSet(fewer, part) = SumFunctionOnSet(sizes, part)
  BY <1>1, <1>4, SumOfSame
<1> QED BY <1>3, <1>5 DEF Weight

\* In Files and its next state, the sums and sets of this module.
LEMMA FilesHeld ==
  /\ Files!Held = Weight(Accepted, rows)
  /\ Files!Held' = Weight(Accepted', rows')
  BY DEF Weight, Files!Held, Files!SumFunctionOnSet, SumFunctionOnSet,
         Files!FoldFunctionOnSet, FoldFunctionOnSet, Files!MapThenFoldSet,
         MapThenFoldSet

LEMMA FilesMaterials ==
  /\ Files!Materials = MaterialsOf(rows)
  /\ Files!Materials' = MaterialsOf(rows')
  /\ \A S : Files!Cardinality(S) = Cardinality(S)
<1>1. \A S : Files!Cardinality(S) = Cardinality(S)
  BY DEF Files!Cardinality, Cardinality
<1> QED BY <1>1 DEF Files!Materials, MaterialsOf

\* The files and answers are of this module's sets.
Filed ==
  /\ DOMAIN Accepted \subseteq Uploads /\ rows \subseteq DOMAIN Accepted
  /\ \A f \in DOMAIN Accepted : Accepted[f] \in Contents

LEMMA AcceptPromised ==
  ASSUME Filed, Files!Promised, NEW u \in Uploads, NEW b \in Contents,
         u \in Files!Waiting, Files!Accept(u, b)
  PROVE  Filed' /\ Files!Promised'
<1>1. /\ u \in Uploads /\ u \notin DOMAIN Accepted /\ u \notin DOMAIN Answers
      /\ u \notin rows
  BY DEF Files!Waiting, Filed
<1>2. /\ rows' = rows \cup {u}
      /\ Accepted' = Files!Extended(Accepted, u, b)
      /\ signed' = IF KindOf[u] = "MATERIAL" THEN None ELSE signed
      /\ \/ Answers' = Files!Extended(Answers, u, [file |-> u, bytes |-> b])
         \/ Answers' = Answers
  BY DEF Files!Accept, Files!Hears
<1>3. /\ DOMAIN Accepted' = DOMAIN Accepted \cup {u} /\ Accepted'[u] = b
      /\ \A f \in DOMAIN Accepted : Accepted'[f] = Accepted[f]
  <2>1. Accepted' = [f \in DOMAIN Accepted \cup {u} |-> IF f = u THEN b ELSE Accepted[f]]
    BY <1>2 DEF Files!Extended
  <2> QED BY <1>1, <2>1
<1>4. Filed'
  BY <1>2, <1>3 DEF Filed
<1>5. \A f, g \in rows' :
        KindOf[f] = KindOf[g] /\ Accepted'[f] = Accepted'[g] => f = g
  BY <1>1, <1>2, <1>3 DEF Files!Accept, Files!Promised, Filed
<1>6. Files!Cardinality(Files!Materials') <= MaxFiles
  <2>1. Cardinality(MaterialsOf(rows)) <= MaxFiles
    BY FilesMaterials DEF Files!Promised
  <2>2. CASE KindOf[u] # "MATERIAL"
    <3>1. MaterialsOf(rows') = MaterialsOf(rows)
      BY <1>2, <2>2 DEF MaterialsOf
    <3> QED BY <2>1, <3>1, FilesMaterials
  <2>3. CASE KindOf[u] = "MATERIAL"
    <3>1. MaterialsOf(rows') = MaterialsOf(rows) \cup {u} /\ u \notin MaterialsOf(rows)
      BY <1>1, <1>2, <2>3 DEF MaterialsOf
    <3>2. IsFiniteSet(MaterialsOf(rows))
      <4>1. MaterialsOf(rows) \subseteq Uploads
        BY DEF Filed, MaterialsOf
      <4> QED BY <4>1, FS_Subset, ConstantsAssumption
    <3>3. /\ Cardinality(MaterialsOf(rows) \cup {u}) = Cardinality(MaterialsOf(rows)) + 1
          /\ Cardinality(MaterialsOf(rows)) \in Nat
      BY <3>1, <3>2, FS_AddElement, FS_CardinalityType
    <3>4. Cardinality(MaterialsOf(rows)) < MaxFiles
      BY <2>3, FilesMaterials DEF Files!Accept
    <3>5. Cardinality(MaterialsOf(rows')) <= MaxFiles
      BY <3>1, <3>3, <3>4, ConstantsAssumption
    <3> QED BY <3>5, FilesMaterials
  <2> QED BY <2>2, <2>3
<1>7. Files!Held' <= Capacity
  <2>1. Weight(Accepted', rows \cup {u}) = Weight(Accepted, rows) + Size[b]
    <3>1. \A f \in rows : Accepted[f] \in Contents /\ Accepted'[f] = Accepted[f]
      BY <1>3 DEF Filed
    <3>2. rows \in SUBSET Uploads
      BY DEF Filed
    <3> QED BY <1>1, <1>3, <3>1, <3>2, WeightGrows
  <2>2. Weight(Accepted, rows) + Size[b] <= Capacity
    BY FilesHeld DEF Files!Accept
  <2> QED BY <1>2, <2>1, <2>2, FilesHeld
<1>8. signed' # None => signed' = Files!Materials'
  <2>1. KindOf[u] # "MATERIAL" => MaterialsOf(rows') = MaterialsOf(rows)
    BY <1>2 DEF MaterialsOf
  <2> QED BY <1>2, <2>1, FilesMaterials DEF Files!Promised
<1>9. \A v \in DOMAIN Answers' :
        /\ Answers'[v].file \in DOMAIN Accepted'
        /\ KindOf[Answers'[v].file] = KindOf[v]
        /\ Accepted'[Answers'[v].file] = Answers'[v].bytes
  <2>1. ASSUME NEW v \in DOMAIN Answers
        PROVE  /\ Answers[v].file \in DOMAIN Accepted'
               /\ KindOf[Answers[v].file] = KindOf[v]
               /\ Accepted'[Answers[v].file] = Answers[v].bytes
    BY <1>3 DEF Files!Promised
  <2>2. CASE Answers' = Answers
    BY <2>1, <2>2
  <2>3. CASE Answers' = Files!Extended(Answers, u, [file |-> u, bytes |-> b])
    <3>1. /\ DOMAIN Answers' = DOMAIN Answers \cup {u}
          /\ Answers'[u] = [file |-> u, bytes |-> b]
          /\ \A v \in DOMAIN Answers : Answers'[v] = Answers[v]
      <4>1. Answers' = [v \in DOMAIN Answers \cup {u} |->
                          IF v = u THEN [file |-> u, bytes |-> b] ELSE Answers[v]]
        BY <2>3 DEF Files!Extended
      <4> QED BY <1>1, <4>1
    <3> QED BY <1>3, <2>1, <3>1
  <2> QED BY <1>2, <2>2, <2>3
<1> QED BY <1>4, <1>5, <1>6, <1>7, <1>8, <1>9 DEF Files!Promised

LEMMA RecognizePromised ==
  ASSUME Filed, Files!Promised, NEW u \in Files!Waiting,
         NEW f \in DOMAIN Accepted, Files!Recognize(u, f)
  PROVE  Filed' /\ Files!Promised'
<1>1. /\ UNCHANGED <<Accepted, rows, final, signed>> /\ KindOf[f] = KindOf[u]
      /\ Answers' = Files!Extended(Answers, u, [file |-> f, bytes |-> Accepted[f]])
      /\ u \notin DOMAIN Answers
  BY DEF Files!Recognize, Files!Hears, Files!Waiting
<1>2. /\ DOMAIN Answers' = DOMAIN Answers \cup {u}
      /\ Answers'[u] = [file |-> f, bytes |-> Accepted[f]]
      /\ \A v \in DOMAIN Answers : Answers'[v] = Answers[v]
  <2>1. Answers' = [v \in DOMAIN Answers \cup {u} |->
           IF v = u THEN [file |-> f, bytes |-> Accepted[f]] ELSE Answers[v]]
    BY <1>1 DEF Files!Extended
  <2> QED BY <1>1, <2>1
<1>3. Files!Held' = Files!Held /\ Files!Materials' = Files!Materials
  BY <1>1, FilesHeld, FilesMaterials
<1>4. \A v \in DOMAIN Answers' :
        /\ Answers'[v].file \in DOMAIN Accepted'
        /\ KindOf[Answers'[v].file] = KindOf[v]
        /\ Accepted'[Answers'[v].file] = Answers'[v].bytes
  BY <1>1, <1>2 DEF Files!Promised
<1> QED BY <1>1, <1>3, <1>4 DEF Files!Promised, Filed

LEMMA WithdrawPromised ==
  ASSUME Filed, Files!Promised, NEW f \in rows, Files!Withdraw(f)
  PROVE  Filed' /\ Files!Promised'
<1>1. /\ UNCHANGED <<Accepted, Answers, final>>
      /\ rows' = rows \ {f} /\ signed' = None
  BY DEF Files!Withdraw
<1>2. rows \in SUBSET Uploads /\ rows' \in SUBSET rows
  BY <1>1 DEF Filed
<1>3. Files!Held' <= Capacity
  <2>1. \A g \in rows : Accepted[g] \in Contents
    BY DEF Filed
  <2>2. /\ Weight(Accepted, rows') <= Weight(Accepted, rows)
        /\ Weight(Accepted, rows') \in Nat /\ Weight(Accepted, rows) \in Nat
    BY <1>2, <2>1, WeightOfPart, WeightIsNat
  <2>3. Weight(Accepted, rows) <= Capacity
    BY FilesHeld DEF Files!Promised
  <2> QED BY <1>1, <2>2, <2>3, FilesHeld, ConstantsAssumption
<1>4. Files!Cardinality(Files!Materials') <= MaxFiles
  <2>1. MaterialsOf(rows') \subseteq MaterialsOf(rows) /\ MaterialsOf(rows) \subseteq Uploads
    BY <1>1, <1>2 DEF MaterialsOf
  <2>2. IsFiniteSet(MaterialsOf(rows))
    BY <2>1, FS_Subset, ConstantsAssumption
  <2>3. /\ Cardinality(MaterialsOf(rows')) <= Cardinality(MaterialsOf(rows))
        /\ Cardinality(MaterialsOf(rows')) \in Nat
        /\ Cardinality(MaterialsOf(rows)) \in Nat
    BY <2>1, <2>2, FS_Subset, FS_CardinalityType
  <2>4. Cardinality(MaterialsOf(rows)) <= MaxFiles
    BY FilesMaterials DEF Files!Promised
  <2> QED BY <2>3, <2>4, FilesMaterials, ConstantsAssumption
<1> QED BY <1>1, <1>2, <1>3, <1>4 DEF Files!Promised, Filed

LEMMA FilesPromised ==
  ASSUME Filed, Files!Promised, [Files!Next]_(Files!vars)
  PROVE  Filed' /\ Files!Promised'
<1>1. ASSUME UNCHANGED <<Accepted, rows, Answers>>,
             signed' = signed \/ signed' = Files!Materials
      PROVE  Filed' /\ Files!Promised'
  <2>1. Files!Held' = Files!Held /\ Files!Materials' = Files!Materials
    BY <1>1, FilesHeld, FilesMaterials
  <2> QED BY <1>1, <2>1 DEF Files!Promised, Filed
<1>2. CASE UNCHANGED Files!vars \/ Files!Idle \/ Files!Sign \/ Files!Complete
  BY <1>1, <1>2 DEF Files!vars, Files!Idle, Files!Sign, Files!Complete
<1>3. ASSUME NEW u \in Files!Waiting, NEW b \in Contents, Files!Accept(u, b)
      PROVE  Filed' /\ Files!Promised'
  BY <1>3, AcceptPromised DEF Files!Waiting
<1> QED
  BY <1>2, <1>3, RecognizePromised, WithdrawPromised DEF Files!Next

\* A case whose files are served in turn keeps no file twice and none over its
\* limits, is signed as it is, and has told everybody the truth.
THEOREM ServingInTurnIsSound == ServedInTurn => []Files!Promised
<1>1. Files!Init => Filed /\ Files!Promised
  <2> SUFFICES ASSUME Files!Init PROVE Filed /\ Files!Promised
    OBVIOUS
  <2>1. DOMAIN Accepted = {} /\ rows = {} /\ DOMAIN Answers = {} /\ signed = None
    BY DEF Files!Init
  <2>2. MaterialsOf(rows) = {} /\ Files!Held = 0
    BY <2>1, FilesHeld, SumOfNone DEF Weight, MaterialsOf
  <2>3. Files!Cardinality(Files!Materials) = 0
    BY <2>2, FilesMaterials, FS_EmptySet
  <2> QED BY <2>1, <2>2, <2>3, ConstantsAssumption DEF Filed, Files!Promised
<1>2. Filed /\ Files!Promised /\ [Files!Next]_(Files!vars) => Filed' /\ Files!Promised'
  BY FilesPromised
<1> QED BY <1>1, <1>2, PTL DEF ServedInTurn, Files!Spec
=============================================================================
