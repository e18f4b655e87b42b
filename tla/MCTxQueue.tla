----------------------------- MODULE MCTxQueue ------------------------------
(* TxQueue on small instances; the cfgs choose callers, window and bounds. *)
EXTENDS TxQueue
=============================================================================
