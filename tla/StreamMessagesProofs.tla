------------------------ MODULE StreamMessagesProofs ------------------------
(***************************************************************************)
(* Proofs about StreamMessages, for payloads of every length and counts of *)
(* every value.                                                            *)
(***************************************************************************)
EXTENDS StreamMessages, TLAPS

-----------------------------------------------------------------------------
(* The layouts *)

(* The layouts of the three payloads, written out (rdi_parser.cpp,         *)
(* shi_parser.cpp, spi_parser.cpp). *)
LEMMA RdiLayout ==
  /\ Header("RDI") = 34 /\ Width("RDI") = 2 /\ MinSize("RDI") = 36
  /\ Len(Lists("RDI")) = 1 /\ DOMAIN Lists("RDI") = 1..1
  /\ Lists("RDI")[1] = [size |-> 51, max |-> 8192, tail |-> 0]
BY DEF Header, Width, MinSize, Lists, RdiHeader, RdiLists

(* The SHII payload. *)
LEMMA ShiiLayout ==
  /\ Header("SHII") = 24 /\ Width("SHII") = 1 /\ MinSize("SHII") = 32
  /\ Len(Lists("SHII")) = 3 /\ DOMAIN Lists("SHII") = 1..3
  /\ Lists("SHII")[1] = [size |-> 1, max |-> 11, tail |-> 4]
  /\ Lists("SHII")[2] = [size |-> 2, max |-> 4,  tail |-> 1]
  /\ Lists("SHII")[3] = [size |-> 3, max |-> 3,  tail |-> 0]
BY DEF Header, Width, MinSize, Lists, ShiiHeader, ShiiLists

(* The SPI payload. *)
LEMMA SpiLayout ==
  /\ Header("SPI") = 57 /\ Width("SPI") = 1 /\ MinSize("SPI") = 60
  /\ Len(Lists("SPI")) = 3 /\ DOMAIN Lists("SPI") = 1..3
  /\ Lists("SPI")[1] = [size |-> 17, max |-> 16, tail |-> 0]
  /\ Lists("SPI")[2] = [size |-> 9,  max |-> 16, tail |-> 0]
  /\ Lists("SPI")[3] = [size |-> 16, max |-> 16, tail |-> 0]
BY DEF Header, Width, MinSize, Lists, SpiHeader, SpiLists

(* A header lies in a payload of the least size that is parsed, and the    *)
(* first count behind it does too.                                         *)
LEMMA HeaderFits ==
  ASSUME NEW s \in Streams
  PROVE  /\ Header(s) \in Nat /\ Width(s) \in Nat /\ MinSize(s) \in Nat
         /\ Header(s) + Width(s) <= MinSize(s)
         /\ Len(Lists(s)) \in 1..3 /\ DOMAIN Lists(s) = 1..Len(Lists(s))
BY RdiLayout, ShiiLayout, SpiLayout DEF Streams

(* Sizes are numbers, and only an RDI payload has a single list. *)
LEMMA ListTypes ==
  ASSUME NEW s \in Streams, NEW i \in 1..Len(Lists(s))
  PROVE  /\ Lists(s)[i].size \in Nat /\ Lists(s)[i].tail \in Nat
         /\ s # "RDI" => Width(s) = 1 /\ Len(Lists(s)) = 3
         /\ s = "RDI" => i = 1
<1>1. CASE s = "RDI"
  <2>1. Len(Lists(s)) = 1 /\ i \in 1..Len(Lists(s))
    BY <1>1, RdiLayout
  <2>2. i \in 1..1
    BY <2>1
  <2>3. i = 1
    BY <2>2
  <2>4. QED
    BY <1>1, <2>3, RdiLayout
<1>2. CASE s = "SHII"
  <2>1. i \in 1..3
    BY <1>2, ShiiLayout
  <2>2. QED
    BY <1>2, <2>1, ShiiLayout
<1>3. CASE s = "SPI"
  <2>1. i \in 1..3
    BY <1>3, SpiLayout
  <2>2. QED
    BY <1>3, <2>1, SpiLayout
<1>4. QED
  BY <1>1, <1>2, <1>3 DEF Streams

(* A list takes a number of bytes. *)
LEMMA ExtentNat ==
  ASSUME NEW s \in Streams, NEW i \in 1..Len(Lists(s)), NEW n \in Nat
  PROVE  Extent(s, i, n) \in Nat
<1>1. Lists(s)[i].size \in Nat /\ Lists(s)[i].tail \in Nat
  BY ListTypes
<1>2. Lists(s)[i].size * n \in Nat
  BY <1>1
<1>3. Width(s) \in Nat
  BY HeaderFits
<1> DEFINE p == Lists(s)[i].size * n
<1>4. Extent(s, i, n) = Width(s) + p + Lists(s)[i].tail
  BY DEF Extent
<1>5. p \in Nat
  BY <1>2
<1> HIDE DEF p
<1>6. QED
  BY <1>1, <1>3, <1>4, <1>5

(* The check of the SPI parser divides, the others multiply.               *)
LEMMA DivisionBounds ==
  ASSUME NEW a \in Int, NEW n \in Nat
  PROVE  /\ n <= a \div 17 => 17 * n <= a
         /\ n <= a \div 9 => 9 * n <= a
         /\ n <= a \div 16 => 16 * n <= a
BY SMT

(* A list that fits ends in the payload. *)
LEMMA FittingListEnds ==
  ASSUME NEW n \in Nat, TypeOK, ParserInv, verdict = "parsing",
         list <= Len(Lists(stream)), Fits(n)
  PROVE  LET l == Lists(stream)[list]
         IN  /\ n <= l.max
             /\ Extent(stream, list, n) \in Nat
             /\ Extent(stream, list, n) = Width(stream) + l.size * n + l.tail
             /\ pos + Extent(stream, list, n) <= len
<1>1. /\ list \in 1..Len(Lists(stream)) /\ len \in Nat /\ pos \in Nat
      /\ stream \in Streams
  BY HeaderFits DEF ParserInv, TypeOK
<1>2. CASE stream = "RDI"
  <2>1. list = 1 /\ pos = 34
    BY <1>1, <1>2, RdiLayout DEF ParserInv, Parsed
  <2>2. n <= 8192 /\ len = 36 + 51 * n
    BY <1>2, <2>1, RdiLayout DEF Fits, RdiFits
  <2>3. QED
    BY <1>1, <1>2, <2>1, <2>2, RdiLayout DEF Extent
<1>3. CASE stream = "SHII"
  <2>1. LET l == Lists(stream)[list]
        IN  n <= l.max /\ pos + 1 + l.size * n + l.tail <= len
    BY <1>3 DEF Fits, ShiiFits
  <2>2. Lists(stream)[list].size \in Nat /\ Lists(stream)[list].tail \in Nat
    BY <1>1, ListTypes
  <2>3. Width(stream) = 1
    BY <1>3, ShiiLayout
  <2> DEFINE p == Lists(stream)[list].size * n
             t == Lists(stream)[list].tail
  <2>4. p \in Nat /\ t \in Nat
    BY <2>2
  <2>5. Extent(stream, list, n) = Width(stream) + p + t
    BY DEF Extent
  <2>6. pos + 1 + p + t <= len
    BY <2>1
  <2>7. p = Lists(stream)[list].size * n /\ t = Lists(stream)[list].tail
    OBVIOUS
  <2> HIDE DEF p, t
  <2>8. /\ Extent(stream, list, n) \in Nat
        /\ pos + Extent(stream, list, n) <= len
    BY <1>1, <2>3, <2>4, <2>5, <2>6
  <2>9. QED
    BY <2>1, <2>5, <2>7, <2>8
<1>4. CASE stream = "SPI"
  <2>1. LET l == Lists(stream)[list]
        IN  n <= l.max /\ n <= (len - (pos + 1)) \div l.size
    BY <1>4 DEF Fits, SpiFits
  <2>2. len - (pos + 1) \in Int
    BY <1>1
  <2>3. /\ Lists(stream)[list].size * n <= len - (pos + 1)
        /\ Lists(stream)[list].size \in {17, 9, 16}
        /\ Lists(stream)[list].tail = 0
    BY <1>1, <1>4, <2>1, <2>2, SpiLayout, DivisionBounds
  <2> DEFINE p == Lists(stream)[list].size * n
  <2>4. p \in Nat /\ p <= len - (pos + 1)
    BY <2>3
  <2>5. Width(stream) = 1
    BY <1>4, SpiLayout
  <2>6. Extent(stream, list, n) = Width(stream) + p + Lists(stream)[list].tail
    BY DEF Extent
  <2>7. p = Lists(stream)[list].size * n
    OBVIOUS
  <2> HIDE DEF p
  <2>8. /\ Extent(stream, list, n) \in Nat
        /\ pos + Extent(stream, list, n) <= len
    BY <1>1, <2>3, <2>4, <2>5, <2>6
  <2>9. QED
    BY <2>1, <2>6, <2>7, <2>8
<1>5. QED
  BY <1>1, <1>2, <1>3, <1>4 DEF Streams

-----------------------------------------------------------------------------
(* The invariant *)

(* No message is being handled at first. *)
LEMMA InitIInv == Init => IInv
BY DEF Init, IInv, TypeOK, ReadsInPayload, ParserInv, AcceptedIsExact,
       Generations, Streams

(* A message whose payload is parsed has room for its header and a count. *)
LEMMA ConsumeIInv ==
  ASSUME IInv, NEW s \in Streams, NEW m \in Messages, NEW n \in Lengths,
         Consume(s, m, n)
  PROVE  IInv'
<1>1. n \in Nat /\ m.sender \in Generations
  BY MessagesAssumption DEF Messages, Clean
<1>2. /\ Header(s) \in Nat /\ Header(s) + Width(s) <= MinSize(s)
      /\ Width(s) \in Nat /\ MinSize(s) \in Nat /\ Len(Lists(s)) \in 1..3
  BY HeaderFits
<1>3. TypeOK'
  BY <1>1, <1>2 DEF IInv, TypeOK, Consume, ParsedGeneration, Generations
<1>4. verdict' = "parsing" => Header(s) <= n /\ MinSize(s) <= n
  BY <1>1, <1>2 DEF Consume
<1>5. ReadsInPayload'
  BY <1>1, <1>4 DEF ReadsInPayload, Consume
<1>6. ParserInv'
  <2>1. Parsed' = Header(s)
    BY <1>2 DEF Parsed, Consume
  <2>2. QED
    BY <1>1, <1>2, <1>4, <2>1 DEF ParserInv, Consume
<1>7. AcceptedIsExact'
  BY DEF AcceptedIsExact, Consume
<1>8. QED
  BY <1>3, <1>5, <1>6, <1>7 DEF IInv

(* The sum that Parsed is, of a header and the lists before list l. *)
ParsedUpTo(h, l, e1, e2, e3) ==
  h + (IF l > 1 THEN e1 ELSE 0) + (IF l > 2 THEN e2 ELSE 0)
    + (IF l > 3 THEN e3 ELSE 0)

(* Reading a list adds its bytes to the sum, for each of the three lists. *)
LEMMA ParsedUpToStep1 ==
  ASSUME NEW h \in Nat, NEW e1, NEW e2, NEW e3, NEW f1 \in Nat, NEW f2, NEW f3
  PROVE  ParsedUpTo(h, 2, f1, f2, f3) = ParsedUpTo(h, 1, e1, e2, e3) + f1
BY DEF ParsedUpTo

(* The second list. *)
LEMMA ParsedUpToStep2 ==
  ASSUME NEW h \in Nat, NEW e1 \in Nat, NEW e2, NEW e3, NEW f2 \in Nat, NEW f3
  PROVE  ParsedUpTo(h, 3, e1, f2, f3) = ParsedUpTo(h, 2, e1, e2, e3) + f2
BY DEF ParsedUpTo

(* The third list. *)
LEMMA ParsedUpToStep3 ==
  ASSUME NEW h \in Nat, NEW e1 \in Nat, NEW e2 \in Nat, NEW e3, NEW f3 \in Nat
  PROVE  ParsedUpTo(h, 4, e1, e2, f3) = ParsedUpTo(h, 3, e1, e2, e3) + f3
BY DEF ParsedUpTo

(* There are at most three lists. *)
LEMMA NextListNumber ==
  ASSUME NEW k \in 1..3, NEW l \in 1..k
  PROVE  l \in 1..3 /\ l + 1 \in 1..4
OBVIOUS

(* A list that fits leaves the offset in the payload, and one that does    *)
(* not leaves it where it was, the count field being there. *)
LEMMA ReadListIInv ==
  ASSUME IInv, NEW n \in Counts, ReadList(n)
  PROVE  IInv'
<1> USE DEF IInv
<1>1. /\ n \in Nat /\ pos \in Nat /\ len \in Nat /\ stream \in Streams
      /\ list \in 1..Len(Lists(stream)) /\ counts \in Seq(Nat)
      /\ Len(counts) = list - 1 /\ verdict = "parsing"
  BY MessagesAssumption, HeaderFits DEF ReadList, TypeOK, ParserInv
<1>2. Width(stream) \in Nat /\ Len(Lists(stream)) \in 1..3
  BY <1>1, HeaderFits
<1>3. pos + Width(stream) <= len
  <2>1. CASE list = 1
    BY <1>1, <1>2, <2>1, HeaderFits DEF ParserInv, Parsed
  <2>2. CASE list # 1
    <3>1. stream # "RDI" /\ Width(stream) = 1
      BY <1>1, <2>2, ListTypes
    <3>2. pos < len
      BY <2>2 DEF ReadList
    <3>3. QED
      BY <1>1, <3>1, <3>2
  <2>3. QED
    BY <2>1, <2>2
<1>4. CASE ~Fits(n)
  <2>1. /\ verdict' = "rejected" /\ read' = pos + Width(stream)
        /\ counts' = Append(counts, n) /\ pos' = pos /\ list' = list
        /\ UNCHANGED <<config, streamGeneration, stream, len, lastClean>>
    BY <1>4 DEF ReadList
  <2>2. QED
    BY <1>1, <1>2, <1>3, <2>1
       DEF TypeOK, ReadsInPayload, ParserInv, AcceptedIsExact
<1>5. CASE Fits(n)
  <2>1. /\ n <= Lists(stream)[list].max
        /\ Extent(stream, list, n) \in Nat
        /\ pos + Extent(stream, list, n) <= len
        /\ Extent(stream, list, n)
             = Width(stream) + Lists(stream)[list].size * n + Lists(stream)[list].tail
    BY <1>1, <1>5, FittingListEnds
  <2>2. pos' = pos + Extent(stream, list, n)
    <3> DEFINE p == Lists(stream)[list].size * n
               t == Lists(stream)[list].tail
    <3>1. pos' = pos + Width(stream) + p + t
      BY <1>5 DEF ReadList
    <3>2. Lists(stream)[list].size \in Nat /\ t \in Nat
      BY <1>1, ListTypes
    <3>3. p \in Nat
      BY <1>1, <3>2
    <3>4. Extent(stream, list, n) = Width(stream) + p + t
      BY <2>1
    <3> HIDE DEF p, t
    <3>5. QED
      BY <1>1, <1>2, <3>1, <3>2, <3>3, <3>4
  <2>3. /\ read' = pos' /\ list' = list + 1 /\ counts' = Append(counts, n)
        /\ verdict' = "parsing"
        /\ UNCHANGED <<config, streamGeneration, stream, len, lastClean>>
    BY <1>1, <1>5 DEF ReadList
  <2>4. pos' \in Nat /\ pos' <= len
    BY <1>1, <2>1, <2>2
  <2>5. /\ Len(counts') = list /\ counts' \in Seq(Nat) /\ counts'[list] = n
        /\ \A i \in 1..list - 1 : counts'[i] = counts[i]
    BY <1>1, <2>3
  <2>6. TypeOK' /\ ReadsInPayload' /\ AcceptedIsExact'
    <3>1. list + 1 \in 1..4
      BY <1>1, <1>2, NextListNumber
    <3>2. TypeOK'
      BY <2>3, <2>4, <2>5, <3>1 DEF TypeOK
    <3>3. ReadsInPayload' /\ AcceptedIsExact'
      BY <2>3, <2>4 DEF ReadsInPayload, AcceptedIsExact
    <3>4. QED
      BY <3>2, <3>3
  <2>7. Parsed' = Parsed + Extent(stream, list, n)
    <3>1. /\ Parsed = ParsedUpTo(Header(stream), list, Extent(stream, 1, counts[1]),
                 Extent(stream, 2, counts[2]), Extent(stream, 3, counts[3]))
          /\ Parsed' = ParsedUpTo(Header(stream), list + 1, Extent(stream, 1, counts'[1]),
                 Extent(stream, 2, counts'[2]), Extent(stream, 3, counts'[3]))
      BY <2>3 DEF Parsed, ParsedUpTo
    <3>2. Header(stream) \in Nat
      BY <1>1, HeaderFits
    <3>3. \A i \in 1..list - 1 : Extent(stream, i, counts[i]) \in Nat
      <4>1. SUFFICES ASSUME NEW i \in 1..list - 1
                     PROVE  Extent(stream, i, counts[i]) \in Nat
        OBVIOUS
      <4>2. i \in 1..Len(Lists(stream)) /\ counts[i] \in Nat
        BY <1>1, <1>2
      <4>3. QED
        BY <1>1, <4>2, ExtentNat
    <3>4. list \in 1..3
      BY <1>1, <1>2, NextListNumber
    <3>5. CASE list = 1
      <4>1. counts'[1] = n
        BY <2>5, <3>5
      <4>2. /\ Parsed = ParsedUpTo(Header(stream), 1, Extent(stream, 1, counts[1]),
                   Extent(stream, 2, counts[2]), Extent(stream, 3, counts[3]))
            /\ Parsed' = ParsedUpTo(Header(stream), 2, Extent(stream, list, n),
                   Extent(stream, 2, counts'[2]), Extent(stream, 3, counts'[3]))
        BY <3>1, <3>5, <4>1
      <4>3. QED
        BY <2>1, <3>2, <4>2, ParsedUpToStep1
    <3>6. CASE list = 2
      <4>1. /\ Extent(stream, 1, counts[1]) \in Nat
            /\ counts'[1] = counts[1] /\ counts'[2] = n
        BY <2>5, <3>3, <3>6
      <4>2. /\ Parsed = ParsedUpTo(Header(stream), 2, Extent(stream, 1, counts[1]),
                   Extent(stream, 2, counts[2]), Extent(stream, 3, counts[3]))
            /\ Parsed' = ParsedUpTo(Header(stream), 3, Extent(stream, 1, counts[1]),
                   Extent(stream, list, n), Extent(stream, 3, counts'[3]))
        BY <3>1, <3>6, <4>1
      <4>3. QED
        BY <2>1, <3>2, <4>1, <4>2, ParsedUpToStep2
    <3>7. CASE list = 3
      <4>1. /\ Extent(stream, 1, counts[1]) \in Nat
            /\ Extent(stream, 2, counts[2]) \in Nat
            /\ counts'[1] = counts[1] /\ counts'[2] = counts[2] /\ counts'[3] = n
        BY <2>5, <3>3, <3>7
      <4>2. QED
        BY <2>1, <3>1, <3>2, <3>7, <4>1, ParsedUpToStep3
    <3>8. QED
      BY <3>4, <3>5, <3>6, <3>7
  <2>8. \A i \in 1..list : counts'[i] <= Lists(stream)[i].max
    <3>1. \A i \in 1..list - 1 : counts[i] <= Lists(stream)[i].max
      BY <1>1 DEF ParserInv
    <3>2. SUFFICES ASSUME NEW i \in 1..list
                   PROVE  counts'[i] <= Lists(stream)[i].max
      OBVIOUS
    <3>3. CASE i = list
      BY <2>1, <2>5, <3>3
    <3>4. CASE i # list
      <4>1. i \in 1..list - 1
        BY <1>1, <3>4
      <4>2. QED
        BY <2>5, <3>1, <4>1
    <3>5. QED
      BY <3>3, <3>4
  <2>9. ParserInv'
    BY <1>1, <1>2, <2>2, <2>3, <2>4, <2>5, <2>7, <2>8 DEF ParserInv
  <2>10. QED
    BY <2>6, <2>9
<1>6. QED
  BY <1>4, <1>5

(* A message accepted at the end of its lists is what its counts say. *)
LEMMA ParseEndsIInv ==
  ASSUME IInv, ParseEnds
  PROVE  IInv'
<1> USE DEF IInv
<1>1. /\ stream \in Streams /\ len \in Nat /\ counts \in Seq(Nat)
      /\ list = Len(Lists(stream)) + 1 /\ Len(counts) = Len(Lists(stream))
      /\ pos = Parsed
      /\ \A i \in 1..Len(Lists(stream)) : counts[i] <= Lists(stream)[i].max
  BY HeaderFits DEF ParseEnds, ParserInv, TypeOK
<1>2. WellFormed(stream, Parsed, counts)
  <2>1. CASE stream = "RDI"
    BY <1>1, <2>1, RdiLayout DEF WellFormed, Parsed, Extent
  <2>2. CASE stream # "RDI"
    <3>1. /\ list = 4 /\ DOMAIN counts = DOMAIN Lists(stream)
          /\ Header(stream) \in Nat /\ Len(Lists(stream)) = 3
      <4>1. Len(Lists(stream)) = 3
        <5>1. 1 \in 1..Len(Lists(stream))
          <6> DEFINE k == Len(Lists(stream))
          <6>1. k \in 1..3
            BY <1>1, HeaderFits
          <6> HIDE DEF k
          <6>2. 1 \in 1..k
            BY <6>1
          <6>3. QED
            BY <6>2 DEF k
        <5>2. QED
          BY <1>1, <2>2, <5>1, ListTypes
      <4>2. QED
        BY <1>1, <4>1, HeaderFits
    <3>2. \A i \in 1..3 : Extent(stream, i, counts[i]) \in Nat
      <4>1. SUFFICES ASSUME NEW i \in 1..3
                     PROVE  Extent(stream, i, counts[i]) \in Nat
        OBVIOUS
      <4>2. i \in 1..Len(counts) /\ i \in 1..Len(Lists(stream))
        BY <1>1, <3>1
      <4>3. counts[i] \in Nat
        BY <1>1, <4>2
      <4>4. QED
        BY <1>1, <4>2, <4>3, ExtentNat
    <3>3. QED
      BY <1>1, <2>2, <3>1, <3>2 DEF WellFormed, Parsed
  <2>3. QED
    BY <2>1, <2>2
<1>3. AcceptedIsExact'
  BY <1>1, <1>2 DEF AcceptedIsExact, ParseEnds, parser, WellFormed, Extent
<1>4. TypeOK' /\ ReadsInPayload' /\ ParserInv'
  BY DEF ParseEnds, parser, TypeOK, ReadsInPayload, ParserInv
<1>5. QED
  BY <1>3, <1>4

(* Every step keeps the invariant. *)
LEMMA NextIInv == IInv /\ [Next]_vars => IInv'
<1> SUFFICES ASSUME IInv, [Next]_vars
             PROVE  IInv'
  OBVIOUS
<1> USE DEF IInv
<1>1. ASSUME NEW m \in Messages, NEW n \in Lengths,
             ProcessRdiDatagram(m, n) \/ ProcessShiDatagram(m, n)
               \/ ProcessSpiDatagram(m, n)
      PROVE  IInv'
  BY <1>1, ConsumeIInv
     DEF ProcessRdiDatagram, ProcessShiDatagram, ProcessSpiDatagram, Streams
<1>2. CASE CountMissing
  BY <1>2 DEF CountMissing, parser, TypeOK, ReadsInPayload, ParserInv, AcceptedIsExact
<1>3. ASSUME NEW n \in Counts, ReadList(n)
      PROVE  IInv'
  BY <1>3, ReadListIInv
<1>4. CASE ParseEnds
  BY <1>4, ParseEndsIInv
<1>5. CASE Return
  BY <1>5 DEF Return, TypeOK, ReadsInPayload, ParserInv, AcceptedIsExact, Streams
<1>6. CASE UNCHANGED vars
  BY <1>6 DEF vars, parser, TypeOK, ReadsInPayload, ParserInv, Parsed,
              AcceptedIsExact, WellFormed, Extent
<1>7. QED
  BY <1>1, <1>2, <1>3, <1>4, <1>5, <1>6 DEF Next

(* The invariant holds of every behaviour. *)
THEOREM Invariance == Spec => []IInv
<1>1. QED
  BY InitIInv, NextIInv, PTL DEF Spec

(* No parser reads past the end of a payload (rdi_parser.cpp,              *)
(* shi_parser.cpp, spi_parser.cpp), whatever its length and its counts.    *)
THEOREM NeverReadsPast == Spec => []ReadsInPayload
<1>1. IInv => ReadsInPayload
  BY DEF IInv
<1>2. QED
  BY <1>1, Invariance, PTL

(* A payload that reaches a typed callback is exactly what its counts say. *)
THEOREM AcceptsOnlyExact == Spec => []AcceptedIsExact
<1>1. IInv => AcceptedIsExact
  BY DEF IInv
<1>2. QED
  BY <1>1, Invariance, PTL

-----------------------------------------------------------------------------
(* What is rejected *)

(* Counts that describe n bytes of stream s, those of k among them. *)
Describes(c, s, n, k) ==
  /\ c \in [DOMAIN Lists(s) -> Counts]
  /\ \A i \in DOMAIN k : c[i] = k[i]
  /\ WellFormed(s, n, c)

(* A list takes at least its count and the bytes behind it. *)
LEMMA ExtentBound ==
  ASSUME NEW s \in Streams, NEW i \in 1..Len(Lists(s)), NEW n \in Nat
  PROVE  Extent(s, i, n) >= Width(s) + Lists(s)[i].tail
<1>1. /\ Lists(s)[i].size \in Nat /\ Lists(s)[i].tail \in Nat
      /\ Width(s) \in Nat
  BY ListTypes, HeaderFits
<1> DEFINE p == Lists(s)[i].size * n
<1>2. p \in Nat
  BY <1>1
<1>3. Extent(s, i, n) = Width(s) + p + Lists(s)[i].tail
  BY DEF Extent
<1> HIDE DEF p
<1>4. QED
  BY <1>1, <1>2, <1>3

(* The counts of a message are numbers, one for each list. *)
LEMMA DescribesTypes ==
  ASSUME NEW s \in Streams, NEW c, NEW n, NEW k, Describes(c, s, n, k)
  PROVE  /\ \A i \in 1..Len(Lists(s)) :
              c[i] \in Nat /\ Extent(s, i, c[i]) \in Nat
         /\ \A i \in 1..Len(Lists(s)) : c[i] <= Lists(s)[i].max
<1>1. DOMAIN Lists(s) = 1..Len(Lists(s)) /\ DOMAIN c = DOMAIN Lists(s)
  BY HeaderFits DEF Describes
<1>2. \A i \in 1..Len(Lists(s)) : c[i] \in Nat
  BY <1>1, MessagesAssumption DEF Describes
<1>3. \A i \in 1..Len(Lists(s)) : c[i] <= Lists(s)[i].max
  BY <1>1 DEF Describes, WellFormed
<1>4. QED
  BY <1>2, <1>3, ExtentNat

(* Three lists, unless the payload is RDI's. *)
LEMMA ThreeLists ==
  ASSUME NEW s \in Streams, s # "RDI"
  PROVE  Len(Lists(s)) = 3 /\ Width(s) = 1
BY ShiiLayout, SpiLayout DEF Streams

(* No payload under the least size is what any counts describe. *)
LEMMA TooShortForAny ==
  ASSUME NEW s \in Streams, NEW c, NEW n, NEW k, Describes(c, s, n, k)
  PROVE  n >= MinSize(s)
<1>1. CASE s = "RDI"
  <2>1. c[1] \in Nat /\ n = 34 + Extent("RDI", 1, c[1])
    BY <1>1, DescribesTypes, RdiLayout DEF Describes, WellFormed
  <2>2. Extent("RDI", 1, c[1]) = 2 + 51 * c[1]
    BY <2>1, RdiLayout DEF Extent
  <2>3. QED
    BY <1>1, <2>1, <2>2, RdiLayout
<1>2. CASE s # "RDI"
  <2> DEFINE e1 == Extent(s, 1, c[1])
             e2 == Extent(s, 2, c[2])
             e3 == Extent(s, 3, c[3])
  <2>1. \A i \in 1..3 :
          /\ Extent(s, i, c[i]) \in Nat
          /\ Extent(s, i, c[i]) >= 1 + Lists(s)[i].tail
    <3>1. \A i \in 1..3 : i \in 1..Len(Lists(s)) /\ c[i] \in Nat
      BY <1>2, DescribesTypes, ThreeLists
    <3>2. Width(s) = 1
      BY <1>2, ThreeLists
    <3>3. QED
      BY <3>1, <3>2, ExtentNat, ExtentBound
  <2>2. /\ e1 \in Nat /\ e1 >= 1 + Lists(s)[1].tail
        /\ e2 \in Nat /\ e2 >= 1 + Lists(s)[2].tail
        /\ e3 \in Nat /\ e3 >= 1 + Lists(s)[3].tail
    BY <2>1
  <2>3. n = Header(s) + e1 + (e2 + e3)
    BY <1>2 DEF Describes, WellFormed
  <2> HIDE DEF e1, e2, e3
  <2>4. CASE s = "SHII"
    BY <2>2, <2>3, <2>4, ShiiLayout
  <2>5. CASE s = "SPI"
    BY <2>2, <2>3, <2>5, SpiLayout
  <2>6. QED
    BY <1>2, <2>4, <2>5 DEF Streams
<1>3. QED
  BY <1>1, <1>2

(* What counts describe goes on from the offset with the next list, and    *)
(* ends there after the last.                                              *)
LEMMA RestOfPayload ==
  ASSUME IInv, verdict = "parsing", NEW c,
         Describes(c, stream, len, counts)
  PROVE  /\ list > Len(Lists(stream)) => pos = len
         /\ list <= Len(Lists(stream)) =>
              pos + Extent(stream, list, c[list]) <= len
         /\ stream = "RDI" /\ list = 1 => len = 34 + Extent("RDI", 1, c[1])
<1> USE DEF IInv
<1>1. /\ stream \in Streams /\ len \in Nat /\ pos = Parsed /\ pos \in Nat
      /\ list \in 1..Len(Lists(stream)) + 1 /\ Len(counts) = list - 1
      /\ counts \in Seq(Nat)
  BY DEF TypeOK, ParserInv
<1>2. \A i \in 1..list - 1 : c[i] = counts[i]
  BY <1>1 DEF Describes
<1>3. CASE stream = "RDI"
  <2> DEFINE e1 == Extent("RDI", 1, c[1])
  <2>1. Len(Lists(stream)) = 1 /\ Header(stream) = 34 /\ list \in 1..2
    <3>1. Len(Lists(stream)) = 1 /\ Header(stream) = 34
      BY <1>3, RdiLayout
    <3>2. list \in 1..1 + 1
      BY <1>1, <3>1
    <3>3. QED
      BY <3>1, <3>2
  <2>2. e1 \in Nat
    <3>1. \A i \in 1..1 : Extent(stream, i, c[i]) \in Nat
      BY <1>1, <2>1, DescribesTypes
    <3>2. QED
      BY <1>3, <3>1
  <2>3. len = 34 + e1
    <3>1. len = 34 + e1 + 0
      BY <1>3, <2>1 DEF Describes, WellFormed
    <3>2. QED
      BY <2>2, <3>1
  <2>4. pos = 34 + (IF list > 1 THEN e1 ELSE 0)
    <3>1. list > 1 => c[1] = counts[1]
      BY <1>1, <1>2
    <3>2. ~(list > 2) /\ ~(list > 3)
      BY <2>1
    <3>3. pos = 34 + (IF list > 1 THEN e1 ELSE 0) + 0 + 0
      BY <1>1, <1>3, <2>1, <3>1, <3>2 DEF Parsed
    <3>4. QED
      BY <2>2, <3>3
  <2>5. list = 1 => Extent(stream, list, c[list]) = e1
    BY <1>3
  <2> HIDE DEF e1
  <2>6. /\ list > 1 => pos = len
        /\ list = 1 => pos + e1 <= len
    BY <2>1, <2>2, <2>3, <2>4
  <2>7. QED
    BY <2>1, <2>3, <2>5, <2>6 DEF e1
<1>4. CASE stream # "RDI"
  <2> DEFINE e1 == Extent(stream, 1, c[1])
             e2 == Extent(stream, 2, c[2])
             e3 == Extent(stream, 3, c[3])
             h  == Header(stream)
  <2>1. Len(Lists(stream)) = 3 /\ h \in Nat
    BY <1>1, <1>4, ThreeLists, HeaderFits
  <2>2. e1 \in Nat /\ e2 \in Nat /\ e3 \in Nat
    <3>1. \A i \in 1..3 : Extent(stream, i, c[i]) \in Nat
      BY <1>1, <2>1, DescribesTypes
    <3>2. QED
      BY <3>1
  <2>3. len = h + e1 + (e2 + e3)
    BY <1>4 DEF Describes, WellFormed
  <2>4. pos = h + (IF list > 1 THEN e1 ELSE 0) + (IF list > 2 THEN e2 ELSE 0)
                + (IF list > 3 THEN e3 ELSE 0)
    <3>1. /\ list > 1 => c[1] = counts[1]
          /\ list > 2 => c[2] = counts[2]
          /\ list > 3 => c[3] = counts[3]
      BY <1>1, <1>2
    <3>2. QED
      BY <1>1, <3>1 DEF Parsed
  <2>5. /\ list = 1 => Extent(stream, list, c[list]) = e1
        /\ list = 2 => Extent(stream, list, c[list]) = e2
        /\ list = 3 => Extent(stream, list, c[list]) = e3
    OBVIOUS
  <2> HIDE DEF e1, e2, e3, h
  <2>6. list \in 1..4
    BY <1>1, <2>1
  <2>7. QED
    BY <1>1, <1>4, <2>1, <2>2, <2>3, <2>4, <2>5, <2>6
<1>5. QED
  BY <1>3, <1>4

(* Division by the size of an entry rejects no list that is there. *)
LEMMA DivisionExact ==
  ASSUME NEW a \in Int, NEW n \in Nat
  PROVE  /\ 17 * n <= a => n <= a \div 17
         /\ 9 * n <= a => n <= a \div 9
         /\ 16 * n <= a => n <= a \div 16
BY SMT

(* Each way to check a list lets through one that is there. *)
LEMMA FitsIfThere ==
  ASSUME IInv, verdict = "parsing", list <= Len(Lists(stream)),
         NEW n \in Nat, n <= Lists(stream)[list].max,
         pos + Extent(stream, list, n) <= len,
         stream = "RDI" => len = 34 + Extent("RDI", 1, n)
  PROVE  Fits(n)
<1> USE DEF IInv
<1>1. /\ stream \in Streams /\ len \in Nat /\ pos \in Nat
      /\ list \in 1..Len(Lists(stream))
  BY HeaderFits DEF TypeOK, ParserInv
<1>2. CASE stream = "RDI"
  <2>1. len = 36 + 51 * n
    BY <1>2, RdiLayout DEF Extent
  <2>2. QED
    BY <1>2, <2>1 DEF Fits, RdiFits
<1> DEFINE p == Lists(stream)[list].size * n
           t == Lists(stream)[list].tail
<1>3. ASSUME stream # "RDI"
      PROVE  /\ p \in Nat /\ t \in Nat
             /\ pos + 1 + p + t <= len
  <2>1. Lists(stream)[list].size \in Nat /\ t \in Nat
    BY <1>1, ListTypes
  <2>2. p \in Nat
    BY <2>1
  <2>3. Extent(stream, list, n) = 1 + p + t
    BY <1>1, <1>3, ThreeLists DEF Extent
  <2> HIDE DEF p, t
  <2>4. QED
    BY <1>1, <2>1, <2>2, <2>3
<1>4. CASE stream = "SHII"
  BY <1>3, <1>4 DEF Fits, ShiiFits
<1>5. CASE stream = "SPI"
  <2>1. /\ Lists(stream)[list].size \in {17, 9, 16} /\ t = 0
    BY <1>1, <1>5, SpiLayout
  <2>2. p <= len - (pos + 1) /\ len - (pos + 1) \in Int
    <3> HIDE DEF p, t
    <3>1. QED
      BY <1>1, <1>3, <1>5, <2>1
  <2>3. n <= (len - (pos + 1)) \div Lists(stream)[list].size
    BY <2>1, <2>2, DivisionExact
  <2>4. QED
    BY <1>5, <2>3 DEF Fits, SpiFits
<1>6. QED
  BY <1>1, <1>2, <1>4, <1>5 DEF Streams

(* No counts describe a rejected payload. *)
RejectedIsNotExact ==
  verdict = "rejected" => ~ \E c : Describes(c, stream, len, counts)

(* Each way to reject a message keeps that. *)
LEMMA RejectedStep ==
  IInv /\ RejectedIsNotExact /\ [Next]_vars => RejectedIsNotExact'
<1> SUFFICES ASSUME IInv, RejectedIsNotExact, [Next]_vars,
                    verdict' = "rejected", NEW c, Describes(c, stream', len', counts')
             PROVE  FALSE
  BY DEF RejectedIsNotExact
<1>1. ASSUME NEW s \in Streams, NEW m \in Messages, NEW n \in Lengths,
             Consume(s, m, n)
      PROVE  FALSE
  <2>1. /\ stream' = s /\ len' = n /\ n \in Nat /\ n < MinSize(s)
        /\ MinSize(s) \in Nat
    BY <1>1, MessagesAssumption, HeaderFits DEF Consume
  <2>2. n >= MinSize(s)
    BY <2>1, TooShortForAny
  <2>3. QED
    BY <2>1, <2>2
<1>2. ASSUME verdict = "parsing", stream' = stream, len' = len,
             \A i \in DOMAIN counts : c[i] = counts[i]
      PROVE  /\ Describes(c, stream, len, counts)
             /\ list > Len(Lists(stream)) => pos = len
             /\ list <= Len(Lists(stream)) =>
                  pos + Extent(stream, list, c[list]) <= len
             /\ stream = "RDI" /\ list = 1 => len = 34 + Extent("RDI", 1, c[1])
  <2>1. Describes(c, stream, len, counts)
    BY <1>2 DEF Describes
  <2>2. QED
    BY <1>2, <2>1, RestOfPayload
<1>3. /\ stream \in Streams /\ len \in Nat /\ pos \in Nat
      /\ counts \in Seq(Nat)
      /\ verdict = "parsing" => list \in 1..Len(Lists(stream)) + 1
                                /\ Len(counts) = list - 1
      /\ Len(Lists(stream)) \in 1..3
  BY HeaderFits DEF IInv, TypeOK, ParserInv
<1>4. CASE CountMissing
  <2>1. /\ verdict = "parsing" /\ list \in 2..Len(Lists(stream))
        /\ pos >= len /\ stream' = stream /\ len' = len /\ counts' = counts
    BY <1>4 DEF CountMissing, parser
  <2>2. /\ Describes(c, stream, len, counts)
        /\ pos + Extent(stream, list, c[list]) <= len
    BY <1>2, <1>3, <2>1 DEF Describes
  <2>3. list \in 1..Len(Lists(stream)) /\ stream # "RDI"
    <3>1. ASSUME NEW k \in 1..3, list \in 2..k
          PROVE  list \in 1..k /\ k # 1
      BY <3>1
    <3>2. list \in 1..Len(Lists(stream)) /\ Len(Lists(stream)) # 1
      BY <1>3, <2>1, <3>1
    <3>3. QED
      BY <3>2, RdiLayout
  <2>4. c[list] \in Nat
    BY <1>3, <2>2, <2>3, DescribesTypes
  <2>5. /\ Extent(stream, list, c[list]) \in Nat
        /\ Lists(stream)[list].tail \in Nat /\ Width(stream) = 1
        /\ Extent(stream, list, c[list]) >=
             Width(stream) + Lists(stream)[list].tail
    BY <1>3, <2>3, <2>4, ExtentNat, ExtentBound, ListTypes
  <2>6. QED
    BY <1>3, <2>1, <2>2, <2>5
<1>5. ASSUME NEW n \in Counts, ReadList(n)
      PROVE  FALSE
  <2>1. /\ verdict = "parsing" /\ list \in 1..Len(Lists(stream)) /\ n \in Nat
        /\ ~Fits(n) /\ counts' = Append(counts, n)
        /\ stream' = stream /\ len' = len
    BY <1>3, <1>5, MessagesAssumption DEF ReadList
  <2>2. /\ DOMAIN counts' = 1..list /\ counts'[list] = n
        /\ \A i \in DOMAIN counts :
             i \in DOMAIN counts' /\ counts'[i] = counts[i]
    BY <1>3, <2>1
  <2>3. c[list] = n /\ \A i \in DOMAIN counts : c[i] = counts[i]
    BY <2>1, <2>2 DEF Describes
  <2>4. /\ Describes(c, stream, len, counts)
        /\ pos + Extent(stream, list, n) <= len
        /\ stream = "RDI" /\ list = 1 => len = 34 + Extent("RDI", 1, c[1])
    BY <1>2, <1>3, <2>1, <2>3
  <2>5. n <= Lists(stream)[list].max
    BY <1>3, <2>1, <2>3, <2>4, DescribesTypes
  <2>6. stream = "RDI" => list = 1
    BY <1>3, <2>1, ListTypes
  <2>7. QED
    BY <1>3, <2>1, <2>3, <2>4, <2>5, <2>6, FitsIfThere
<1>6. CASE ParseEnds
  <2>1. /\ verdict = "parsing" /\ list > Len(Lists(stream)) /\ pos # len
        /\ stream' = stream /\ len' = len /\ counts' = counts
    BY <1>6 DEF ParseEnds, parser
  <2>2. pos = len
    BY <1>2, <2>1 DEF Describes
  <2>3. QED
    BY <2>1, <2>2
<1>7. CASE Return
  BY <1>7 DEF Return
<1>8. CASE UNCHANGED vars
  BY <1>8 DEF vars, parser, RejectedIsNotExact
<1>9. QED
  BY <1>1, <1>4, <1>5, <1>6, <1>7, <1>8
     DEF Next, ProcessRdiDatagram, ProcessShiDatagram, ProcessSpiDatagram,
         Streams

(* A parser accepts exactly the payloads that some counts describe         *)
(* (rdi_parser.cpp, shi_parser.cpp, spi_parser.cpp).                       *)
THEOREM AcceptsAllAndOnlyExact == Spec => []AcceptedIffExact
<1>1. Init => RejectedIsNotExact
  BY DEF Init, RejectedIsNotExact
<1>2. IInv /\ RejectedIsNotExact => AcceptedIffExact
  BY DEF IInv, RejectedIsNotExact, Describes, AcceptedIffExact
<1>3. QED
  BY <1>1, <1>2, InitIInv, NextIInv, RejectedStep, PTL DEF Spec

-----------------------------------------------------------------------------
(* The generation *)

(* With validate_e2e, a message passes if and only if it is undamaged.     *)
LEMMA PassesIffClean ==
  ASSUME NEW m \in Messages, config.validate
  PROVE  (m.envelope /\ m.e2e /\ E2eOk(m)) <=> m = Clean(m.sender)
<1>1. CASE \E gen \in Generations : m = Clean(gen)
  BY <1>1 DEF Clean, E2eOk
<1>2. CASE ~ \E gen \in Generations : m = Clean(gen)
  BY <1>2 DEF Messages, E2eOk
<1>3. QED
  BY <1>1, <1>2

(* An undamaged message tells its sender's generation. *)
LEMMA CleanTells ==
  ASSUME NEW m \in Messages, m = Clean(m.sender)
  PROVE  ParsedGeneration(m) = m.sender
<1>1. m.sender \in Generations
  BY DEF Messages, Clean
<1>2. m.crcHigh = (m.sender = "v1.0")
  BY DEF Clean
<1>3. QED
  BY <1>1, <1>2 DEF ParsedGeneration, Generations

(* No step lets the stored generation differ from the last undamaged one. *)
LEMMA GenerationStep == GenerationIsClean /\ [Next]_vars => GenerationIsClean'
<1> SUFFICES ASSUME GenerationIsClean, [Next]_vars
             PROVE  GenerationIsClean'
  OBVIOUS
<1>1. ASSUME NEW s, NEW m \in Messages, NEW n, Consume(s, m, n)
      PROVE  GenerationIsClean'
  <2>1. config' = config
    BY <1>1 DEF Consume
  <2>2. CASE ~config.validate
    BY <2>1, <2>2 DEF GenerationIsClean
  <2>3. CASE config.validate
    BY <1>1, <2>1, <2>3, PassesIffClean, CleanTells DEF GenerationIsClean, Consume
  <2>4. QED
    BY <2>2, <2>3
<1>2. CASE UNCHANGED <<config, streamGeneration, lastClean>>
  BY <1>2 DEF GenerationIsClean
<1>3. QED
  BY <1>1, <1>2 DEF Next, vars, CountMissing, ReadList, ParseEnds, Return,
     ProcessRdiDatagram, ProcessShiDatagram, ProcessSpiDatagram

(* With validate_e2e, the generation taken from the streams is that of the *)
(* last undamaged message (afi_sdk.cpp:511, e2e.cpp:62).                   *)
THEOREM GenerationOfStreams == Spec => []GenerationIsClean
<1>1. Init => GenerationIsClean
  BY DEF Init, GenerationIsClean
<1>2. QED
  BY <1>1, GenerationStep, PTL DEF Spec
=============================================================================
