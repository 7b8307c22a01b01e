------------------------------ MODULE CaseFiles ------------------------------
(***************************************************************************)
(* What the files of a case promise to those who send, remove, sign and     *)
(* complete: each is served alone, one after the other.  A file is compared  *)
(* with all those kept, counted with all of them, and kept or refused; there *)
(* are no requests that overlap, no gates, no objects and no crashes here.   *)
(***************************************************************************)
EXTENDS Naturals, FiniteSets, Functions

CONSTANTS
  Uploads,      \* what may be sent
  KindOf,       \* purpose of each
  Contents,     \* bytes that may be sent
  Size,         \* sizeBytes of each of them
  FinalSize,    \* sizeBytes of the final document
  Capacity,     \* what a case may hold
  MaxFiles,     \* materials it may hold
  None

VARIABLES
  files,   \* the bytes of every file that was ever accepted
  kept,    \* the files that are not removed
  told,    \* for each sender who had an answer, what he sent and the file
  final,   \* whether the case is completed
  signed   \* the materials a valid signing covers, or None

vars == <<files, kept, told, final, signed>>

Materials == {f \in kept : KindOf[f] = "MATERIAL"}
Held == SumFunctionOnSet([f \in kept |-> Size[files[f]]], kept)

\* Nobody's file is accepted twice, and nobody is answered twice.
Waiting == Uploads \ (DOMAIN files \cup DOMAIN told)

Extended(fun, x, value) ==
  [y \in DOMAIN fun \cup {x} |-> IF y = x THEN value ELSE fun[y]]

\* A sender hears of the file he sent or of an equal one.
Hears(u, f, b) ==
  told' = Extended(told, u, [file |-> f, bytes |-> b])

Init ==
  /\ DOMAIN files = {} /\ kept = {}
  /\ DOMAIN told = {}
  /\ final = FALSE
  /\ signed = None

\* The answer may be lost.
Accept(u, b) ==
  /\ ~\E f \in kept : KindOf[f] = KindOf[u] /\ files[f] = b
  /\ KindOf[u] = "MATERIAL" => Cardinality(Materials) < MaxFiles
  /\ Held + Size[b] <= Capacity
  /\ kept' = kept \cup {u}
  /\ files' = Extended(files, u, b)
  /\ signed' = IF KindOf[u] = "MATERIAL" THEN None ELSE signed
  /\ Hears(u, u, b) \/ UNCHANGED told
  /\ UNCHANGED final

\* A sender whose file is there already, even if it is removed meanwhile.
Recognize(u, f) ==
  /\ KindOf[f] = KindOf[u]
  /\ Hears(u, f, files[f])
  /\ UNCHANGED <<files, kept, final, signed>>

\* Only who was told of a material can have it removed.
Withdraw(f) ==
  /\ KindOf[f] = "MATERIAL" /\ kept' = kept \ {f}
  /\ \E u \in DOMAIN told : told[u].file = f
  /\ signed' = None
  /\ UNCHANGED <<files, told, final>>

Sign ==
  /\ signed' = Materials
  /\ UNCHANGED <<files, kept, told, final>>

\* The final document finds its place among what is kept.
Complete ==
  /\ ~final /\ final' = TRUE
  /\ Held + FinalSize <= Capacity
  /\ UNCHANGED <<files, kept, told, signed>>

\* Nothing that anybody is told or that is kept, which is most of what happens.
Idle == UNCHANGED vars

Next ==
  \/ Idle
  \/ \E u \in Waiting :
       \/ \E b \in Contents : Accept(u, b)
       \/ \E f \in DOMAIN files : Recognize(u, f)
  \/ \E f \in kept : Withdraw(f)
  \/ Sign \/ Complete

Spec == Init /\ [][Next]_vars

-----------------------------------------------------------------------------
\* No file is kept twice and none over the limits; a valid signing covers the
\* materials; and who was told of a file can rely on its purpose and bytes.
Promised ==
  /\ \A f, g \in kept : KindOf[f] = KindOf[g] /\ files[f] = files[g] => f = g
  /\ Cardinality(Materials) <= MaxFiles
  /\ Held <= Capacity
  /\ signed # None => signed = Materials
  /\ \A u \in DOMAIN told :
       LET f == told[u].file IN
       /\ f \in DOMAIN files
       /\ KindOf[f] = KindOf[u] /\ files[f] = told[u].bytes
=============================================================================
