---------------------------- MODULE MCAuditPaging ----------------------------
(* AuditPaging for TLC. *)
EXTENDS AuditPaging
==============================================================================
