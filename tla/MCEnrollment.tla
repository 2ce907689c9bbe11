----------------------------- MODULE MCEnrollment -----------------------------
(***************************************************************************)
(* A small fleet for the enrolment and revocation specification.           *)
(***************************************************************************)
EXTENDS Enrollment, TLC

CONSTANTS h1, n1, s1, s2

\* Hosts, nonces and handlers are interchangeable in every formula checked.
Symmetry == Permutations(Hosts) \cup Permutations(Nonces) \cup Permutations(Slots)
=============================================================================
