--------------------------- MODULE TpReassembler ---------------------------
(***************************************************************************)
(* SomeipTpReassembler: the segments of one SOME/IP-TP message at a time,  *)
(* copied into a buffer that is kept from one message to the next, with a  *)
(* list of the ranges that were written.                                   *)
(*                                                                         *)
(* The reassembler is a record, and its methods are operators on it: the   *)
(* RDI stream is built on them (RdiStream.tla).  TpSpec feeds it every     *)
(* segment there is.  A byte is the message it came from.                  *)
(***************************************************************************)
EXTENDS Integers, SequencesExt

CONSTANTS
  MaxPayload,   (* max_payload_size_                                       *)
  MaxSegment,   (* max_segment_size_                                       *)
  Align,        (* unit of a TP offset, 16 bytes                           *)
  Sessions,     (* session ids                                             *)
  Origins       (* the messages bytes come from                            *)

ASSUME ReassemblerAssumption ==
  /\ MaxPayload \in Nat \ {0}
  /\ MaxSegment \in Nat \ {0}
  /\ Align \in Nat \ {0}
  /\ Sessions \subseteq Nat \ {0}
  /\ Origins \subseteq Nat \ {0}

VARIABLE tp     (* the reassembler *)

(* A segment as Feed receives it, bytes begin..begin+len-1 of a message.   *)
Segments ==
  [session : Sessions, len : 0..MaxSegment + 1, more : BOOLEAN, from : Origins,
   begin : {b \in 0..MaxPayload + Align : b % Align = 0}]

End(s) == s.begin + s.len

Fresh == [buffer |-> <<>>, ranges |-> <<>>, expected |-> 0, total |-> 0,
          session |-> 0, inProgress |-> FALSE, complete |-> FALSE]

(* Reset: everything but the buffer.  session = 0 stands for !has_session_. *)
Reset(r) == [Fresh EXCEPT !.buffer = r.buffer]

-----------------------------------------------------------------------------
(* AddCoveredRange *)

Before(a, b) == a[1] < b[1] \/ (a[1] = b[1] /\ a[2] < b[2])

(* Mutant: ranges that touch stay apart. *)
ApartTouching(merged, range) ==
  merged = <<>> \/ range[1] >= Last(merged)[2]

Apart(merged, range) == merged = <<>> \/ range[1] > Last(merged)[2]

Merge(merged, range) ==
  IF Apart(merged, range)
  THEN Append(merged, range)
  ELSE ReplaceAt(merged, Len(merged),
                 <<Last(merged)[1],
                   IF range[2] > Last(merged)[2] THEN range[2]
                                                 ELSE Last(merged)[2]>>)

(* std::sort *)
Sorted(ranges) ==
  LET places == DOMAIN ranges
      order  == CHOOSE p \in Surjection(places, places) :
                  \A i, j \in places : i < j => ~Before(ranges[p[j]], ranges[p[i]])
  IN  [i \in places |-> ranges[order[i]]]

AddCoveredRange(ranges, begin, end) ==
  FoldLeft(Merge, <<>>, Sorted(Append(ranges, <<begin, end>>)))

(* Mutant: where the first range starts does not matter. *)
FullyCoveredFromAnywhere(r) ==
  r.expected # 0 /\ Len(r.ranges) = 1 /\ r.ranges[1][2] >= r.expected

IsFullyCovered(r) ==
  /\ r.expected # 0
  /\ Len(r.ranges) = 1
  /\ r.ranges[1][1] = 0
  /\ r.ranges[1][2] >= r.expected

-----------------------------------------------------------------------------
(* Feed *)

Malformed(s) == s.len > MaxSegment \/ (s.more /\ s.len % Align # 0)

(* Mutant: a segment of another session joins the message under way. *)
JoinedAnySession(r, s) ==
  [IF r.complete THEN Reset(r) ELSE r EXCEPT !.session = s.session]

(* A segment starts a new message after a complete one and when its        *)
(* session is not the session under way.                                   *)
Joined(r, s) ==
  [IF r.complete \/ r.session \notin {0, s.session} THEN Reset(r) ELSE r
   EXCEPT !.session = s.session]

TooLong(r, s) ==
  \/ s.begin > MaxPayload
  \/ s.len > MaxPayload - s.begin
  \/ r.expected # 0 /\ End(s) > r.expected

Copied(buffer, s) ==
  [i \in 1..(IF End(s) > Len(buffer) THEN End(s) ELSE Len(buffer)) |->
     IF i \in s.begin + 1..End(s) THEN s.from
     ELSE IF i <= Len(buffer) THEN buffer[i] ELSE 0]

Written(r, s) ==
  [r EXCEPT !.inProgress = TRUE,
            !.buffer = Copied(@, s),
            !.ranges = AddCoveredRange(@, s.begin, End(s))]

(* A final segment that ends elsewhere than an earlier one, or before data *)
(* that was already received.                                              *)
Conflicting(r, s) ==
  /\ ~s.more
  /\ \/ r.expected # 0 /\ r.expected # End(s)
     \/ Last(r.ranges)[2] > End(s)

Completed(r) ==
  IF IsFullyCovered(r)
  THEN [r EXCEPT !.total = r.expected, !.complete = TRUE, !.inProgress = FALSE]
  ELSE r

Feed(r, s) ==
  LET joined  == Joined(r, s)
      written == Written(joined, s)
  IN  IF s.len = 0                    THEN r
      ELSE IF Malformed(s)            THEN Reset(r)
      ELSE IF TooLong(joined, s)      THEN Reset(joined)
      ELSE IF Conflicting(written, s) THEN Reset(written)
      ELSE IF s.more                  THEN Completed(written)
      ELSE Completed([written EXCEPT !.expected = End(s)])

-----------------------------------------------------------------------------
TpInit == tp = Fresh

TpNext ==
  \/ \E s \in Segments : tp' = Feed(tp, s)
  \/ tp' = Reset(tp)

TpSpec == TpInit /\ [][TpNext]_tp

-----------------------------------------------------------------------------
(* Properties *)

Covered(r) == UNION {r.ranges[i][1]..r.ranges[i][2] - 1 : i \in DOMAIN r.ranges}

(* The range list is in normal form: IsFullyCovered may look at its length *)
(* and at its first range only, and the check against the final size at    *)
(* its last range only (someip_tp.cpp:68, 103-105).                        *)
RangesNormal ==
  /\ \A i \in DOMAIN tp.ranges : tp.ranges[i][1] < tp.ranges[i][2]
  /\ \A i \in 1..Len(tp.ranges) - 1 : tp.ranges[i][2] < tp.ranges[i + 1][1]

(* What GetPayload() and GetPayloadSize() hand out lies inside the buffer, *)
(* and a message under way never reaches past its declared end.            *)
PayloadInBuffer ==
  /\ tp.total <= Len(tp.buffer)
  /\ Covered(tp) \subseteq 0..Len(tp.buffer) - 1
  /\ tp.expected # 0 => Covered(tp) \subseteq 0..tp.expected - 1

(* The members have their types, the ranges are normal and every payload   *)
(* lies in the buffer, after any sequence of segments.                     *)
TpTypeOK ==
  /\ tp \in [buffer : Seq(Origins \cup {0}),
             ranges : Seq((0..MaxPayload) \X (0..MaxPayload)),
             expected : 0..MaxPayload, total : 0..MaxPayload,
             session : Sessions \cup {0}, inProgress : BOOLEAN, complete : BOOLEAN]
  /\ RangesNormal
  /\ PayloadInBuffer

(* The buffer, which is never cleared, and its range list do what a        *)
(* reassembler promises: no byte of an earlier message, of another session *)
(* or of nothing at all is ever part of a payload.                         *)
Abstract == INSTANCE Reassembly WITH
  session  <- tp.session,
  held     <- [p \in Covered(tp) |-> tp.buffer[p + 1]],
  size     <- tp.expected,
  finished <- tp.complete

ImplementsReassembly == Abstract!Spec

-----------------------------------------------------------------------------
(* The inductive invariant of the proofs *)

(* The ranges lie apart however far they stand from each other, and before *)
(* the first segment of a message there is none.                           *)
TpInv ==
  /\ TpTypeOK
  /\ \A i, j \in DOMAIN tp.ranges :
       i < j => tp.ranges[i][2] < tp.ranges[j][1]
  /\ tp.session = 0 => tp.ranges = <<>> /\ tp.expected = 0 /\ ~tp.complete
=============================================================================
