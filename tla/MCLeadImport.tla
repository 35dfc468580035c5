----------------------------- MODULE MCLeadImport -----------------------------
(* Bounds of LeadImport for TLC. *)
EXTENDS LeadImport

CONSTANTS i1
=============================================================================
