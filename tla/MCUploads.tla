------------------------------ MODULE MCUploads ------------------------------
(* Values for the constants of Uploads and the symmetry of its run. *)
EXTENDS Uploads, TLC

CONSTANTS u1, u2, u3, a, b, none

ThreeUploads == {u1, u2, u3}
TwoContents == {a, b}
AndAPreview == [u \in Uploads |-> IF u = u3 THEN "PRESIGN_PDF" ELSE "MATERIAL"]
Sizes == [c \in Contents |-> IF c = a THEN 1 ELSE 2]
OneAtOnce == [g \in {"upload", "preview"} |-> 1]
TwoAttempts == [g \in {"upload", "preview"} |-> 2]

Symmetry == Permutations({u1, u2})
=============================================================================
