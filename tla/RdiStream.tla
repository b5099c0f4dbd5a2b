----------------------------- MODULE RdiStream -----------------------------
(***************************************************************************)
(* The RDI receiver over UDP: ProcessRdiDatagram, which reassembles a      *)
(* segmented message, checks its E2E header, delivers it and counts the    *)
(* send slots that were lost; the sensor that sends the messages; and the  *)
(* network, which may lose, repeat and reorder datagrams.                  *)
(*                                                                         *)
(* A message is its number in `sent`.  The bytes of a payload are the      *)
(* numbers of the messages they come from.  The sensor advances the E2E    *)
(* Counter once per send slot, and may leave a slot unused.                *)
(* rdi_tp_ is the variable tp of TpReassembler.                            *)
(***************************************************************************)
EXTENDS TpReassembler

CONSTANTS
  HeaderSize,   (* kE2eHeaderSize                                          *)
  Generation,   (* interface generation of the sensor's frames             *)
  CounterMod,   (* 2^32, the number of values of the E2E Counter           *)
  MaxMessage,   (* bound: messages sent                                    *)
  Networks      (* the networks and sensors a receiver may be put before   *)

(* What may happen in one of the Networks: whether it repeats and reorders *)
(* datagrams; how many messages it holds at a time; whether it may damage  *)
(* a message; the settings of the SDK; the lengths of the messages, E2E    *)
(* header included; the last session id before the wrap to 1; the slots    *)
(* the sensor may be at when the SDK starts; bounds on the slots left      *)
(* unused between two messages, on the boots of the sensor and on the      *)
(* datagrams received.                                                     *)

ASSUME StreamAssumption ==
  /\ HeaderSize \in Nat \ {0} /\ CounterMod \in Nat \ {0} /\ MaxMessage \in Nat
  /\ 1..MaxMessage \subseteq Origins
  /\ MaxSegment % Align = 0
  /\ \A n \in Networks :
       /\ n.maxSession \in Nat \ {0} /\ 1..n.maxSession \subseteq Sessions
       /\ n.window \in 1..n.maxSession - 1 /\ n.reorders \in BOOLEAN
       /\ n.sizes \subseteq 1..MaxPayload
       /\ n.firstSlots \subseteq Nat /\ n.maxSkip \in Nat
       /\ n.maxBoot \in Nat \ {0} /\ n.maxArrival \in Nat
       /\ n.validate \subseteq BOOLEAN /\ n.strict \subseteq BOOLEAN
       /\ n.intact \subseteq BOOLEAN

VARIABLES
  net,          (* the one of the Networks it is put before                *)
  config,       (* validate_e2e and e2e_strict                             *)
  firstRdi,     (* first_rdi_                                              *)
  lastCounter,  (* last_rdi_e2e_counter_                                   *)
  total,        (* total_packets_                                          *)
  lost,         (* lost_packets_                                           *)
  streamGeneration,  (* stream_generation_                                 *)
  failures,     (* e2e_failures_[0]                                        *)
  delivered,    (* history: frames given to the callbacks                  *)
  sent,         (* history: messages the sensor has sent                   *)
  session,      (* the sensor's last session id                            *)
  slot,         (* the sensor's next send slot, never reset                *)
  bootSlot,     (* the slot in which the sensor's Counter was 0            *)
  boot,         (* the sensor's boot                                       *)
  arrivals,     (* datagrams received                                      *)
  last,         (* the datagram received last, <<message, number>>         *)
  together      (* history: datagrams of one message received in a row     *)

loss    == <<firstRdi, lastCounter, total, lost>>
stream  == <<net, config, tp, loss, streamGeneration, failures, delivered>>
sensor  == <<sent, session, slot, bootSlot, boot>>
network == <<arrivals, last, together>>
vars    == <<stream, sensor, network>>

Half == CounterMod \div 2

(* A message fits one datagram or is cut into TP segments. *)
Segmented(m) == sent[m].size > MaxSegment
Datagrams(m) == {i \in 1..sent[m].size : (i - 1) * MaxSegment < sent[m].size}

Segment(m, i) ==
  LET begin == (i - 1) * MaxSegment
      more  == begin + MaxSegment < sent[m].size
  IN  [session |-> sent[m].session, begin |-> begin, more |-> more, from |-> m,
       len |-> IF more THEN MaxSegment ELSE sent[m].size - begin]

Whole(m) == [p \in 1..sent[m].size |-> m]

-----------------------------------------------------------------------------
Init ==
  /\ net \in Networks
  /\ config \in [validate : net.validate, strict : net.strict]
  /\ tp = Fresh
  /\ firstRdi = TRUE
  /\ lastCounter = 0
  /\ total = 0
  /\ lost = 0
  /\ streamGeneration = "unknown"
  /\ failures = 0
  /\ delivered = <<>>
  /\ sent = <<>>
  /\ session = 0
  /\ slot \in net.firstSlots
  /\ bootSlot = 0
  /\ boot = 1
  /\ arrivals = 0
  /\ last = <<0, 0>>
  /\ together = {}

-----------------------------------------------------------------------------
(* The receiver *)

(* Mutant: the Counter does not wrap. *)
MissedNoWrap(counter) ==
  IF counter > lastCounter THEN counter - lastCounter - 1 ELSE 0

(* Mutant: a repeated Counter is a gap. *)
MissedOnRepeat(counter) ==
  LET delta == (counter - lastCounter) % CounterMod
  IN  IF delta >= Half THEN 0 ELSE delta - 1

(* The slots between the Counter of this frame and of the frame before it; *)
(* a decrease is the restart of the sensor and a repeat is no loss.        *)
Missed(counter) ==
  LET delta == (counter - lastCounter) % CounterMod
  IN  IF delta = 0 \/ delta >= Half THEN 0 ELSE delta - 1

TrackRdiLoss(counter) ==
  /\ total' = total + 1
  /\ firstRdi' = FALSE
  /\ lastCounter' = counter
  /\ lost' = IF firstRdi THEN lost ELSE lost + Missed(counter)

(* e2e_validate: the header says how long the body is, and its CRC covers  *)
(* the body. *)
E2eOk(payload) ==
  LET m == payload[1]
  IN  /\ Len(payload) = sent[m].size
      /\ config.validate => sent[m].intact /\ payload = Whole(m)

TracksLoss(payload) == config.validate => E2eOk(payload)

(* ConsumeE2eHeader, DeliverWirePayload and TrackRdiLoss.  A frame that    *)
(* fails its check is delivered, unless e2e_strict is set.                 *)
Consume(payload) ==
  IF Len(payload) < HeaderSize
  THEN UNCHANGED <<loss, streamGeneration, failures, delivered>>
  ELSE /\ streamGeneration' = IF E2eOk(payload) THEN Generation
                                                ELSE streamGeneration
       /\ failures' = IF E2eOk(payload) THEN failures ELSE failures + 1
       /\ IF config.strict /\ ~E2eOk(payload)
          THEN UNCHANGED <<loss, delivered>>
          ELSE /\ delivered' = Append(delivered,
                    [msg   |-> payload[1],
                     whole |-> payload = Whole(payload[1]),
                     valid |-> config.validate /\ E2eOk(payload)])
               /\ IF TracksLoss(payload)
                  THEN TrackRdiLoss(sent[payload[1]].counter)
                  ELSE UNCHANGED loss

(* ProcessRdiDatagram on the datagram i of message m. *)
ProcessRdiDatagram(m, i) ==
  LET fed == Feed(tp, Segment(m, i))
  IN  \/ /\ ~Segmented(m)
         /\ tp' = IF tp.inProgress THEN Reset(tp) ELSE tp
         /\ Consume(Whole(m))
      \/ /\ Segmented(m) /\ fed.complete
         /\ tp' = Reset(fed)
         /\ Consume(SubSeq(fed.buffer, 1, fed.total))
      \/ /\ Segmented(m) /\ ~fed.complete
         /\ tp' = fed
         /\ UNCHANGED <<loss, streamGeneration, failures, delivered>>

(* Stop, Init and Start: only the generation is forgotten.  The reassembly *)
(* under way, the Counter and the totals are carried over, and a message   *)
(* that was sent in between is a lost one.                                 *)
StopAndInit ==
  /\ streamGeneration # "unknown"
  /\ streamGeneration' = "unknown"
  /\ UNCHANGED <<net, config, tp, loss, failures, delivered, sensor, network>>

-----------------------------------------------------------------------------
(* The network *)

After(a, b) == a[1] > b[1] \/ (a[1] = b[1] /\ a[2] > b[2])

(* A datagram may arrive while its message is among the last sent, any     *)
(* number of times and in any order, or once and in order.                 *)
Arrive(m, i) ==
  /\ arrivals < net.maxArrival
  /\ m > Len(sent) - net.window
  /\ net.reorders \/ After(<<m, i>>, last)
  /\ arrivals' = arrivals + 1
  /\ last' = <<m, i>>
  /\ together' = {d \in together : d[1] = m} \cup {<<m, i>>}
  /\ ProcessRdiDatagram(m, i)
  /\ UNCHANGED <<net, config, sensor>>

(* A TP header with reserved bits set ends the reassembly under way. *)
InvalidTpHeader ==
  /\ arrivals < net.maxArrival
  /\ arrivals' = arrivals + 1
  /\ together' = {}
  /\ tp' = Reset(tp)
  /\ UNCHANGED <<net, config, loss, streamGeneration, failures, delivered, sensor,
                 last>>

-----------------------------------------------------------------------------
(* The sensor *)

(* The receiver, which may be stopped for a while, hears of one message at *)
(* least before the session ids have gone round (65534 messages are almost *)
(* two hours).                                                             *)
NotSilent == last[1] = 0 \/ Len(sent) + 1 - last[1] < net.maxSession

(* It sends one message per slot, and perhaps none in some slots before.   *)
(* The message may be damaged on its way.                                  *)
SendMessage(size, skipped, intact) ==
  /\ Len(sent) < MaxMessage
  /\ NotSilent
  /\ session' = IF session = net.maxSession THEN 1 ELSE session + 1
  /\ sent' = Append(sent,
       [session |-> session', size |-> size, intact |-> intact,
        slot |-> slot + skipped,
        counter |-> (slot + skipped - bootSlot) % CounterMod])
  /\ slot' = slot + skipped + 1
  /\ UNCHANGED <<bootSlot, boot, stream, network>>

(* It starts again from Counter 0 and session 1, long before its Counter   *)
(* has reached half its range (2^31 slots are almost seven years).         *)
Restart ==
  /\ boot < net.maxBoot
  /\ slot - bootSlot < Half
  /\ boot' = boot + 1
  /\ session' = 0
  /\ bootSlot' = slot
  /\ UNCHANGED <<sent, slot, stream, network>>

Next ==
  \/ \E size \in net.sizes, skipped \in 0..net.maxSkip, intact \in net.intact :
       SendMessage(size, skipped, intact)
  \/ \E m \in DOMAIN sent : \E i \in Datagrams(m) : Arrive(m, i)
  \/ InvalidTpHeader
  \/ StopAndInit
  \/ Restart

Spec == Init /\ [][Next]_vars

-----------------------------------------------------------------------------
(* Properties *)

TypeOK ==
  /\ net \in Networks /\ config \in [validate : net.validate, strict : net.strict]
  /\ tp.expected \in 0..MaxPayload /\ tp.session \in Sessions \cup {0}
  /\ firstRdi \in BOOLEAN
  /\ lastCounter \in 0..CounterMod - 1
  /\ streamGeneration \in {Generation, "unknown"}
  /\ total \in 0..arrivals /\ lost \in Nat /\ failures \in 0..arrivals
  /\ Len(delivered) <= arrivals
  /\ \A k \in DOMAIN delivered :
       delivered[k] \in [msg : Origins, whole : BOOLEAN, valid : BOOLEAN]
  /\ Len(sent) <= MaxMessage /\ session \in Sessions \cup {0}
  /\ slot \in Nat /\ bootSlot \in 0..slot /\ boot \in 1..net.maxBoot
  /\ arrivals \in 0..net.maxArrival

(* Whatever the network does, a frame handed to the callbacks is one       *)
(* message of the sensor byte for byte, even where no CRC would tell.      *)
DeliveredIsOneMessage ==
  \A k \in DOMAIN delivered : delivered[k].whole

(* A message whose segments all arrive with no other RDI datagram among    *)
(* them is delivered, in whatever order and however often they arrive, and *)
(* whatever was left unfinished before it.                                 *)
UninterruptedIsDelivered ==
  \A m \in DOMAIN sent :
    /\ \A i \in Datagrams(m) : <<m, i>> \in together
    /\ sent[m].size >= HeaderSize
    /\ config.strict /\ config.validate => sent[m].intact
    => \E k \in DOMAIN delivered : delivered[k].msg = m

(* The frames that count for the loss statistics. *)
Counted == {m \in DOMAIN sent : \E k \in DOMAIN delivered :
              delivered[k].msg = m /\ (config.validate => delivered[k].valid)}

(* The slots from the first counted frame to the last one. *)
Span == LET slots == {sent[m].slot : m \in Counted}
        IN  Max(slots) - Min(slots) + 1

(* While the network keeps the order and the sensor does not restart, the  *)
(* loss statistics are exact, across the wrap of the Counter: each frame   *)
(* counts once, and each slot without a counted frame is one lost slot.    *)
(* A Stop and an Init in between change nothing of this.  When the sensor  *)
(* restarts, no slot is counted whose frame was delivered.                 *)
LossIsExact ==
  ~net.reorders /\ Counted # {} =>
    /\ boot = 1 => /\ total = Cardinality(Counted)
                   /\ lost = Span - Cardinality(Counted)
    /\ lost <= Span - Cardinality(Counted)

-----------------------------------------------------------------------------
(* The inductive invariants of the proofs *)

(* The histories and the members the types leave open.  A message arrives  *)
(* before the session ids have gone round since it was sent.               *)
HistoryInv ==
  /\ sent \in Seq([session : 1..net.maxSession, size : net.sizes,
                   intact : net.intact, slot : Nat, counter : 0..CounterMod - 1])
  /\ session \in 0..net.maxSession
  /\ delivered \in Seq([msg : Origins, whole : BOOLEAN, valid : BOOLEAN])
  /\ last \in (0..Len(sent)) \X Nat
  /\ last[1] # 0 => Len(sent) - last[1] < net.maxSession

(* Every byte held is one of a message that was sent.                      *)
HeldInv == \A p \in Covered(tp) : tp.buffer[p + 1] \in DOMAIN sent

StreamInv == TypeOK /\ TpInv /\ HistoryInv /\ HeldInv

(* Session ids of messages less than a round apart differ.                 *)
RoundInv ==
  net.maxBoot = 1 =>
    /\ \A m, k \in DOMAIN sent :
         m < k /\ k - m < net.maxSession =>
           sent[k].session - sent[m].session \in {k - m, k - m - net.maxSession}
    /\ IF sent = <<>> THEN session = 0 ELSE session = sent[Len(sent)].session

(* The message under way is the one of the last datagram.                  *)
UnderWayInv ==
  tp.session # 0 =>
    /\ tp.inProgress /\ ~tp.complete
    /\ last[1] \in DOMAIN sent /\ tp.session = sent[last[1]].session
    /\ \A p \in Covered(tp) : /\ tp.buffer[p + 1] = last[1]
                              /\ p < sent[last[1]].size
    /\ tp.expected \in {0, sent[last[1]].size}
    /\ tp.expected # 0 => Covered(tp) # 0..tp.expected - 1

OneMessageInv == RoundInv /\ UnderWayInv /\ DeliveredIsOneMessage

(* A message that will have to be delivered.                               *)
Due(m) ==
  /\ sent[m].size >= HeaderSize
  /\ config.strict /\ config.validate => sent[m].intact
  /\ \A k \in DOMAIN delivered : delivered[k].msg # m

(* Of a message that is due, the reassembler holds what came in a row.     *)
TogetherInv ==
  \A d \in together :
    /\ d[1] = last[1] /\ d[1] \in DOMAIN sent /\ d[2] \in Datagrams(d[1])
    /\ Due(d[1]) =>
         LET s == Segment(d[1], d[2])
         IN  /\ Segmented(d[1]) /\ tp.session = s.session
             /\ s.begin..End(s) - 1 \subseteq Covered(tp)
             /\ ~s.more => tp.expected = End(s)

(* Without reordering no datagram of an earlier place comes any more: what *)
(* is held lies before the last one, and a message is delivered once.      *)
InOrderInv ==
  ~net.reorders =>
    /\ tp.session # 0 => \A p \in Covered(tp) : p < last[2] * MaxSegment
    /\ \A k \in DOMAIN delivered :
         LET m == delivered[k].msg
         IN  /\ m \in DOMAIN sent /\ m <= last[1]
             /\ m = last[1] => sent[m].size <= last[2] * MaxSegment

(* The Counter of a message says how many slots after a boot it was sent,  *)
(* after the last boot or after an earlier one that did not last long.     *)
SlotInv ==
  /\ boot = 1 => bootSlot = 0
  /\ \A m \in DOMAIN sent :
       /\ sent[m].slot < slot
       /\ slot - sent[m].slot <= (Len(sent) + 1 - m) * (net.maxSkip + 1)
       /\ \E b \in 0..bootSlot :
            /\ b <= sent[m].slot
            /\ sent[m].counter = (sent[m].slot - b) % CounterMod
            /\ b # bootSlot =>
                 sent[m].slot < bootSlot /\ sent[m].slot - b < Half

(* So from one message to a later one the Counter advances by the slots    *)
(* between them, by fewer, or it decreases.                                *)
GapInv ==
  \A m, k \in DOMAIN sent :
    LET gap   == sent[k].slot - sent[m].slot
        delta == (sent[k].counter - sent[m].counter) % CounterMod
    IN  m < k => /\ gap \in 1..Half - 1
                 /\ boot = 1 => delta = gap
                 /\ delta <= gap \/ delta >= Half

(* What was counted so far, up to the frame the baseline is of.            *)
CountInv ==
  ~net.reorders =>
    \/ Counted = {} /\ firstRdi /\ total = 0 /\ lost = 0
    \/ /\ ~firstRdi /\ total = Cardinality(Counted)
       /\ \E a, b \in Counted :
            LET span == sent[b].slot - sent[a].slot + 1
            IN  /\ \A m \in Counted : a <= m /\ m <= b
                /\ lastCounter = sent[b].counter
                /\ lost <= span - total
                /\ boot = 1 => lost = span - total

LossInv == InOrderInv /\ SlotInv /\ GapInv /\ CountInv
=============================================================================
