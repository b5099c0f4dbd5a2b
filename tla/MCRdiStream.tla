---------------------------- MODULE MCRdiStream ----------------------------
(* Small instances of RdiStream.                                           *)
EXTENDS RdiStream

(* Messages of one datagram that are only lost or damaged, a sensor that   *)
(* skips slots and restarts, its Counter near the wrap.                    *)
Lossy ==
  [reorders |-> FALSE, window |-> 4, maxSession |-> 5, intact |-> BOOLEAN,
   validate |-> BOOLEAN, strict |-> BOOLEAN, sizes |-> {4},
   firstSlots |-> {0, 14}, maxSkip |-> 1, maxBoot |-> 2, maxArrival |-> 4]

(* Messages of one to three datagrams, lost, repeated and reordered.       *)
Reordering ==
  [reorders |-> TRUE, window |-> 2, maxSession |-> 3, intact |-> {TRUE},
   validate |-> {FALSE}, strict |-> {FALSE}, sizes |-> {2, 4, 9},
   firstSlots |-> {14}, maxSkip |-> 0, maxBoot |-> 1, maxArrival |-> 7]

Both == {Lossy, Reordering}

AllSessions == 1..5
AllOrigins  == 1..4
=============================================================================
