--------------------------- MODULE MCAuditTrail ---------------------------
(* Small instances of AuditTrail for TLC. *)
EXTENDS AuditTrail

(* README.md, on the ring buffer: the flush thread drains all remaining    *)
(* records at shutdown.  So nothing is left when audit_shutdown returns.   *)
NothingLeftAtShutdown == mainPc = "freed" => count = 0
=============================================================================
