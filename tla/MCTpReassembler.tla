-------------------------- MODULE MCTpReassembler --------------------------
(* TpReassembler on payloads of a few bytes.                               *)
EXTENDS TpReassembler
=============================================================================
