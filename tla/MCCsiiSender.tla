---------------------------- MODULE MCCsiiSender ----------------------------
(* Small instances of CsiiSender.                                          *)
EXTENDS CsiiSender, TLC

(* The threads behave alike. *)
ThreadSymmetry == Permutations(Threads)
=============================================================================
