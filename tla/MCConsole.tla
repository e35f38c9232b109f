----------------------------- MODULE MCConsole -----------------------------
(* Instances of TemplateVersions, and of the sessions under it, for TLC. *)
EXTENDS TemplateVersions, TLC

\* Slots for requests differ in nothing but their names.
Symmetry == Permutations(Req)
=============================================================================
