--------------------------- MODULE MCAuditPolling ---------------------------
(***************************************************************************)
(* An instance of AuditPolling for TLC: three threads that record events   *)
(* and a reader that asks for pages of no row, which are pages of one.     *)
(***************************************************************************)
EXTENDS AuditPolling

CONSTANTS w1, w2, w3

Three == {w1, w2, w3}
=============================================================================
