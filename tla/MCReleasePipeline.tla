--------------------------- MODULE MCReleasePipeline ---------------------------
(***************************************************************************)
(* Two runners and two hosts.                                              *)
(***************************************************************************)
EXTENDS ReleasePipeline, TLC

CONSTANTS r1, r2, h1, h2

\* Runners and hosts are interchangeable in every formula checked.
Symmetry == Permutations(Runners) \cup Permutations(Hosts)
=============================================================================
