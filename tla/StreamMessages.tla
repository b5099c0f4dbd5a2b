--------------------------- MODULE StreamMessages ---------------------------
(***************************************************************************)
(* What a receiver thread does with one complete stream message: the       *)
(* checks of the SOME/IP envelope and of the E2E header, and the parsers   *)
(* of the RDI, SHII and SPI payloads, field by field.                      *)
(*                                                                         *)
(* A payload is its length and the values of its count fields; a count is  *)
(* chosen when the parser reads it, so a payload may hold any.  The three  *)
(* threads share nothing but stream_generation_, which a message stores in *)
(* one step: they are modelled as handling one message at a time.          *)
(***************************************************************************)
EXTENDS Integers, Sequences

CONSTANTS
  Lengths,      (* payload lengths, the E2E header not included            *)
  Counts        (* values of a count field                                 *)

ASSUME MessagesAssumption == Lengths \subseteq Nat /\ Counts \subseteq Nat

Streams     == {"RDI", "SHII", "SPI"}
Generations == {"v1.0", "v1.1"}

VARIABLES
  config,            (* validate_e2e and e2e_strict                        *)
  streamGeneration,  (* stream_generation_                                 *)
  stream,            (* the stream of the message                          *)
  len,               (* the parser's len                                   *)
  pos,               (* its offset                                         *)
  list,              (* the number of the list it reads next               *)
  counts,            (* the counts it has read                             *)
  read,              (* history: the payload was read up to here           *)
  verdict,           (* what has become of the message                     *)
  lastClean          (* history: generation of the last undamaged message  *)

parser == <<stream, len, pos, list, counts, read>>
vars   == <<config, streamGeneration, parser, verdict, lastClean>>

-----------------------------------------------------------------------------
(* The layouts: where the first count is and how wide a count is, the      *)
(* lists in their order, and the check that a list of n entries is there.  *)
(* An entry has `size` bytes; `tail` bytes follow the list.                *)

RdiHeader == 34
RdiLists  == <<[size |-> 51, max |-> 8192, tail |-> 0]>>
RdiFits(n) == len = 36 + 51 * n

ShiiHeader == 24
ShiiLists  == <<[size |-> 1, max |-> 11, tail |-> 4],
                [size |-> 2, max |-> 4,  tail |-> 1],
                [size |-> 3, max |-> 3,  tail |-> 0]>>

(* Mutant: the bytes after the list are forgotten. *)
ShiiFitsNoTail(n, l) == pos + 1 + l.size * n <= len

ShiiFits(n, l) == pos + 1 + l.size * n + l.tail <= len

SpiHeader == 57
SpiLists  == <<[size |-> 17, max |-> 16, tail |-> 0],
               [size |-> 9,  max |-> 16, tail |-> 0],
               [size |-> 16, max |-> 16, tail |-> 0]>>
SpiFits(n, l) == n <= (len - (pos + 1)) \div l.size

MinSize(s) == CASE s = "RDI" -> 36 [] s = "SHII" -> 32 [] s = "SPI" -> 60
Header(s)  == CASE s = "RDI" -> RdiHeader [] s = "SHII" -> ShiiHeader
                [] s = "SPI" -> SpiHeader
Width(s)   == IF s = "RDI" THEN 2 ELSE 1
Lists(s)   == CASE s = "RDI" -> RdiLists [] s = "SHII" -> ShiiLists
                [] s = "SPI" -> SpiLists

Fits(n) ==
  LET l == Lists(stream)[list]
  IN  /\ n <= l.max
      /\ CASE stream = "RDI" -> RdiFits(n) [] stream = "SHII" -> ShiiFits(n, l)
           [] stream = "SPI" -> SpiFits(n, l)

-----------------------------------------------------------------------------
Init ==
  /\ config \in [validate : BOOLEAN, strict : BOOLEAN]
  /\ streamGeneration = "unknown"
  /\ stream = "RDI" /\ len = 0 /\ pos = 0
  /\ list = 1 /\ counts = <<>> /\ read = 0
  /\ verdict = "none"
  /\ lastClean = "unknown"

(* A message as it arrives.  Undamaged, its header describes it and its    *)
(* CRC fits; its high CRC word is zero on interface v1.1.0 only.  Damaged, *)
(* its envelope, its length, its Data ID or its CRC is wrong, or its CRC   *)
(* is zero: a CRC finds the damage it covers.                              *)
Clean(gen) == [sender |-> gen, envelope |-> TRUE, e2e |-> TRUE,
               header |-> TRUE, crcHigh |-> gen = "v1.0", crc |-> "match"]
Messages ==
  {Clean(gen) : gen \in Generations} \cup
  {m \in [sender : Generations, envelope : BOOLEAN, e2e : BOOLEAN,
          header : BOOLEAN, crcHigh : BOOLEAN,
          crc : {"match", "mismatch", "zero"}] :
     /\ ~m.envelope \/ ~m.e2e \/ ~m.header \/ m.crc # "match"
     /\ m.crc = "zero" => ~m.crcHigh
     /\ ~m.e2e => m.header /\ ~m.crcHigh /\ m.crc = "match"
     /\ ~m.envelope => m.e2e}

(* e2e_parse: the high CRC word tells the generation. *)
ParsedGeneration(m) == IF m.crcHigh THEN "v1.0" ELSE "v1.1"

(* Mutant: a CRC of zero passes, as if it had not been filled in. *)
E2eOkZero(m) == m.header /\ (config.validate => m.crc \in {"match", "zero"})

(* e2e_validate; `header` is whether its Length and Data ID are right. *)
E2eOk(m) == m.header /\ (config.validate => m.crc = "match")

(* A message is dropped for its envelope, for having no room for an E2E    *)
(* header, or, with e2e_strict, for a failed check.  Otherwise the wire    *)
(* payload is delivered and the typed payload parsed.                      *)
Dropped(m) == ~m.envelope \/ ~m.e2e \/ (config.strict /\ ~E2eOk(m))

Consume(s, m, n) ==
  /\ verdict = "none"
  /\ streamGeneration' = IF m.envelope /\ m.e2e /\ E2eOk(m)
                         THEN ParsedGeneration(m) ELSE streamGeneration
  /\ lastClean' = IF m = Clean(m.sender) THEN m.sender ELSE lastClean
  /\ stream' = s /\ len' = n
  /\ verdict' = CASE Dropped(m) -> "dropped" [] n < MinSize(s) -> "rejected"
                  [] OTHER -> "parsing"
  /\ list' = 1 /\ counts' = <<>>
  /\ pos' = Header(s)
  /\ read' = IF verdict' = "parsing" THEN Header(s) ELSE 0
  /\ UNCHANGED config

(* The three handlers; RdiStream has what an RDI message goes through      *)
(* before it is complete.  A segment of an SHII or SPI message is dropped: *)
(* it counts as a bad envelope here.                                       *)
ProcessRdiDatagram(m, n) == Consume("RDI", m, n)
ProcessShiDatagram(m, n) == Consume("SHII", m, n)
ProcessSpiDatagram(m, n) == Consume("SPI", m, n)

-----------------------------------------------------------------------------
(* The parsers *)

(* The payload ends where a count should be. *)
CountMissing ==
  /\ verdict = "parsing" /\ list \in 2..Len(Lists(stream))
  /\ pos >= len
  /\ verdict' = "rejected"
  /\ UNCHANGED <<config, streamGeneration, parser, lastClean>>

(* The count, and the entries if they are all there. *)
ReadList(n) ==
  /\ verdict = "parsing" /\ list <= Len(Lists(stream))
  /\ list = 1 \/ pos < len
  /\ counts' = Append(counts, n)
  /\ IF Fits(n)
     THEN LET l == Lists(stream)[list]
          IN  /\ pos' = pos + Width(stream) + l.size * n + l.tail
              /\ read' = pos'
              /\ list' = list + 1
              /\ UNCHANGED verdict
     ELSE /\ read' = pos + Width(stream)
          /\ verdict' = "rejected"
          /\ UNCHANGED <<pos, list>>
  /\ UNCHANGED <<config, streamGeneration, stream, len, lastClean>>

(* Mutant: bytes after the last list are ignored. *)
ParseEndsAnywhere ==
  /\ verdict = "parsing" /\ list > Len(Lists(stream))
  /\ verdict' = "accepted"
  /\ UNCHANGED <<config, streamGeneration, parser, lastClean>>

(* The lists must end where the payload does; then the typed callback runs. *)
ParseEnds ==
  /\ verdict = "parsing" /\ list > Len(Lists(stream))
  /\ verdict' = IF pos = len THEN "accepted" ELSE "rejected"
  /\ UNCHANGED <<config, streamGeneration, parser, lastClean>>

(* The handler returns, and its thread waits for the next message. *)
Return ==
  /\ verdict \in {"dropped", "accepted", "rejected"}
  /\ verdict' = "none"
  /\ stream' = "RDI" /\ len' = 0 /\ pos' = 0
  /\ list' = 1 /\ counts' = <<>> /\ read' = 0
  /\ UNCHANGED <<config, streamGeneration, lastClean>>

Next ==
  \/ \E m \in Messages, n \in Lengths :
       ProcessRdiDatagram(m, n) \/ ProcessShiDatagram(m, n)
         \/ ProcessSpiDatagram(m, n)
  \/ CountMissing
  \/ \E n \in Counts : ReadList(n)
  \/ ParseEnds
  \/ Return

Spec == Init /\ [][Next]_vars

-----------------------------------------------------------------------------
(* Properties *)

TypeOK ==
  /\ config \in [validate : BOOLEAN, strict : BOOLEAN]
  /\ streamGeneration \in Generations \cup {"unknown"}
  /\ lastClean \in Generations \cup {"unknown"}
  /\ stream \in Streams
  /\ len \in Nat /\ pos \in Nat /\ read \in Nat
  /\ list \in 1..4 /\ counts \in Seq(Nat)
  /\ verdict \in {"none", "dropped", "parsing", "accepted", "rejected"}

(* No parser reads past the end of the payload, whatever the length and    *)
(* the counts say: not the count fields, nor the fields after a list.      *)
ReadsInPayload == read <= len

(* A payload that is exactly what its counts describe. *)
Extent(s, i, n) == Width(s) + Lists(s)[i].size * n + Lists(s)[i].tail

WellFormed(s, n, c) ==
  /\ DOMAIN c = DOMAIN Lists(s)
  /\ \A i \in DOMAIN c : c[i] <= Lists(s)[i].max
  /\ n = Header(s) + Extent(s, 1, c[1])
           + IF s = "RDI" THEN 0 ELSE Extent(s, 2, c[2]) + Extent(s, 3, c[3])

AcceptedIsExact == verdict = "accepted" => WellFormed(stream, len, counts)

(* A message is handed to the typed callback if and only if its counts     *)
(* describe exactly its payload: a parser accepts no message with bytes    *)
(* missing or left over, and rejects none that any further counts could    *)
(* complete.                                                               *)
AcceptedIffExact ==
  /\ AcceptedIsExact
  /\ verdict = "rejected" =>
       ~ \E c \in [DOMAIN Lists(stream) -> Counts] :
           /\ \A i \in DOMAIN counts : c[i] = counts[i]
           /\ WellFormed(stream, len, c)

(* With validate_e2e, the generation the SDK takes from the streams is     *)
(* that of the last undamaged message: damage never turns it, not even     *)
(* damage to the CRC word it is read from.                                 *)
GenerationIsClean == config.validate => streamGeneration = lastClean

-----------------------------------------------------------------------------
(* The inductive invariant behind the safety properties. *)

(* What the parser has read: the header, and the lists before this one.    *)
Parsed ==
  Header(stream) + (IF list > 1 THEN Extent(stream, 1, counts[1]) ELSE 0)
                 + (IF list > 2 THEN Extent(stream, 2, counts[2]) ELSE 0)
                 + (IF list > 3 THEN Extent(stream, 3, counts[3]) ELSE 0)

ParserInv ==
  verdict = "parsing" =>
    /\ list \in 1..Len(Lists(stream)) + 1
    /\ Len(counts) = list - 1
    /\ \A i \in 1..list - 1 : counts[i] <= Lists(stream)[i].max
    /\ MinSize(stream) <= len
    /\ read = pos /\ pos = Parsed /\ pos <= len

IInv == TypeOK /\ ReadsInPayload /\ ParserInv /\ AcceptedIsExact
=============================================================================
