---------------------------- MODULE MCWhatsapp ----------------------------
(* Instances of WhatsappSession for TLC. *)
EXTENDS WhatsappSession, TLC

\* Processes, requests and clients differ in nothing but their names.
Symmetry == Permutations(Proc) \cup Permutations(Req) \cup Permutations(Client)
=============================================================================
