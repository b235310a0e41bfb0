---------------------------- MODULE MCTransferEngine ----------------------------
(* Two transfers, one with a deadline, that compete for one slot. *)
EXTENDS TransferEngine

CONSTANTS t1, t2
=============================================================================
