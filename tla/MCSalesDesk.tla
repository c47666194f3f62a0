---------------------------- MODULE MCSalesDesk ----------------------------
(* A small instance of SalesDesk. *)
EXTENDS SalesDesk
=============================================================================
