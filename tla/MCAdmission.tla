---------------------------- MODULE MCAdmission ----------------------------
(* Instances of Admission for TLC. *)
EXTENDS Admission, TLC

\* Requests differ in nothing but their name, nor do destinations.
Symmetry == Permutations(Req) \cup Permutations(Dest)
=============================================================================
