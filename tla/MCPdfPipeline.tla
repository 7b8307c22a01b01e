---------------------------- MODULE MCPdfPipeline ----------------------------
(* Values for the constants of PdfPipeline and the symmetries of its runs. *)
EXTENDS PdfPipeline, TLC

CONSTANTS w1, w2, c1, s1, s2, a, b, none

Nobody == {}
OneWorker == {w1}
TwoWorkers == {w1, w2}
OneConsumer == {c1}
OneClerk == {s1}
TwoClerks == {s1, s2}
OneDigest == {a}
TwoDigests == {a, b}
WorkerAndConsumer == {w1, c1}

Symmetry ==
  Permutations({w1, w2}) \cup Permutations({s1, s2}) \cup Permutations({a, b})
=============================================================================
