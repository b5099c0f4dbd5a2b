---------------------------- MODULE MCLifecycle ----------------------------
(* Small instances of Lifecycle: two streams, and one where close() does   *)
(* not wake a recv().                                                      *)
EXTENDS Lifecycle

OneTcp == <<{"tcp"}>>
TcpAndEither == <<{"tcp"}, {"tcp", "udp"}>>
=============================================================================
