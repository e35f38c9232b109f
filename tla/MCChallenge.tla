---------------------------- MODULE MCChallenge ----------------------------
(* Instances of Challenge for TLC. *)
EXTENDS Challenge, TLC

\* Requests differ in nothing but their name.
ReqSymmetry == Permutations(Req)
=============================================================================
