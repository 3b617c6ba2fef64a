----------------------------- MODULE MqttFrames -----------------------------
(* How a stream of MQTT packets cut anywhere by TCP becomes packets again:  *)
(* the remaining-length varint and mqtt_frame of mqtt.c, and read_client's  *)
(* buffer of MAX_PACKET bytes with its loop.  A byte is a number below      *)
(* 2 * Base (Base is 128 in the code); Base or more has the top bit set.    *)
EXTENDS Naturals, Sequences, FiniteSetsExt, SequencesExt

CONSTANTS
    Base,          \* values of one varint digit: 128
    MaxDigits,     \* digits of a varint: 4
    MaxPacket,     \* MAX_PACKET
    BodyBytes,     \* the bytes that bodies are made of
    MaxBody,       \* bound: body length of a packet sent
    MaxPackets     \* bound: packets sent

\* What is left of v after each turn of mqtt_varint_encode's loop.
Left(v) == LET left[d \in 0 .. MaxDigits] == IF d = 0 THEN v ELSE left[d - 1] \div Base IN left

\* A length that is sent has at most MaxDigits digits.
ASSUME FramesAssumption ==
    /\ Base \in Nat \ {0, 1} /\ MaxDigits \in Nat \ {0} /\ MaxPacket \in Nat \ {0}
    /\ BodyBytes \subseteq 0 .. 2 * Base - 1
    /\ MaxBody \in Nat /\ MaxPackets \in Nat
    /\ \A n \in 0 .. MaxBody : Left(n)[MaxDigits] = 0

\* Digits from the least significant; every one but the last has the top bit.
Digits(v) == Min({d \in 1 .. MaxDigits : Left(v)[d] = 0})
mqtt_varint_encode(v) ==
    [d \in 1 .. Digits(v) |-> (Left(v)[d - 1] % Base) + (IF Left(v)[d] > 0 THEN Base ELSE 0)]

\* val and mult after the first n digits.
Turns(b, n) ==
    LET acc[d \in 0 .. n] == IF d = 0 THEN <<0, 1>>
                            ELSE <<acc[d - 1][1] + (b[d] % Base) * acc[d - 1][2], acc[d - 1][2] * Base>>
    IN acc[n]

\* Bytes used and value; 0 used when the digits end early, Malformed when there
\* is one too many.
Malformed == MaxDigits + 1
Final(b) == {d \in 1 .. MaxDigits : d <= Len(b) /\ b[d] < Base}
mqtt_varint_decode(b) ==
    IF Final(b) # {} THEN [used |-> Min(Final(b)), v |-> Turns(b, Min(Final(b)))[1]]
    ELSE [used |-> IF Len(b) < MaxDigits THEN 0 ELSE Malformed, v |-> 0]

\* The packet in front, or why there is none.
NoFrame(kind) == [kind |-> kind, type |-> 0, body |-> << >>, total |-> 0]
mqtt_frame(b) ==
    LET d     == mqtt_varint_decode(SubSeq(b, 2, Len(b)))
        total == 1 + d.used + d.v
    IN IF Len(b) < 2 \/ d.used = 0 THEN NoFrame("more")
       ELSE IF d.used = Malformed THEN NoFrame("malformed")
       ELSE IF Len(b) < total THEN NoFrame("more")
       ELSE [kind |-> "packet", type |-> b[1], body |-> SubSeq(b, 2 + d.used, total), total |-> total]

mqtt_build(type, body) == (<<type>> \o mqtt_varint_encode(Len(body))) \o body

VARIABLES
    bad,       \* whether a length with one digit too many follows the packets
    sent,      \* bodies of the packets the peer writes; the k-th has type k
    wire,      \* bytes on the way
    in, off,   \* read_client's buffer, and how much of it is consumed
    handled,   \* packets handed to handle_packet
    reader     \* "poll", "parse" inside the loop, "closed" for what was read,
               \* or "gone" for another reason

framing == <<bad, sent, wire, in, off, handled, reader>>

Bytes(bodies) == FlattenSeq([p \in DOMAIN bodies |-> mqtt_build(p, bodies[p])])

\* The packets as handle_packet should see them.
Packets(bodies) == [p \in DOMAIN bodies |-> <<p, bodies[p]>>]

\* What the peer writes, all in all.
TooManyDigits == [m \in 1 .. MaxDigits + 1 |-> 2 * Base - 1]
StreamSent == Bytes(sent) \o (IF bad THEN TooManyDigits ELSE << >>)

FramesInit ==
    /\ sent \in UNION {[1 .. n -> UNION {[1 .. l -> BodyBytes] : l \in 0 .. MaxBody}] : n \in 1 .. MaxPackets}
    /\ bad \in BOOLEAN
    /\ wire = StreamSent
    /\ in = << >> /\ off = 0 /\ handled = << >>
    /\ reader = "poll"

\* recv() hands over any part of what has arrived that fits.  Asked for no
\* bytes at all it returns 0, which read_client takes for the end.
Recv ==
    /\ reader = "poll" /\ wire # << >>
    /\ \/ Len(in) = MaxPacket /\ reader' = "closed" /\ UNCHANGED <<in, wire>>
       \/ \E n \in 1 .. Len(wire) :
            /\ n <= MaxPacket - Len(in)
            /\ in' = in \o SubSeq(wire, 1, n)
            /\ wire' = SubSeq(wire, n + 1, Len(wire))
            /\ reader' = "parse"
    /\ off' = 0
    /\ UNCHANGED <<bad, sent, handled>>

Rest == SubSeq(in, off + 1, Len(in))

\* As Parse, keeping what the loop consumed at the front of the buffer.
Parse_NoMove ==
    /\ reader = "parse"
    /\ LET fr == mqtt_frame(Rest)
       IN \/ /\ off < Len(in) /\ fr.kind = "malformed"
             /\ reader' = "closed" /\ UNCHANGED <<in, off, handled>>
          \/ /\ off = Len(in) \/ fr.kind = "more"
             /\ reader' = "poll" /\ UNCHANGED <<in, off, handled>>
          \/ /\ off < Len(in) /\ fr.kind = "packet"
             /\ handled' = Append(handled, <<fr.type, fr.body>>) /\ off' = off + fr.total /\ UNCHANGED <<in, reader>>
    /\ UNCHANGED <<bad, sent, wire>>

\* As Parse, handling one packet per recv().
Parse_Once ==
    /\ reader = "parse"
    /\ LET fr == mqtt_frame(Rest)
       IN \/ /\ fr.kind = "malformed" \/ (fr.kind = "more" /\ Len(Rest) = MaxPacket)
             /\ reader' = "closed" /\ UNCHANGED <<in, off, handled>>
          \/ /\ fr.kind = "more" /\ Len(Rest) < MaxPacket
             /\ reader' = "poll" /\ UNCHANGED <<in, off, handled>>
          \/ /\ fr.kind = "packet"
             /\ handled' = Append(handled, <<fr.type, fr.body>>)
             /\ in' = SubSeq(in, fr.total + 1, Len(in)) /\ reader' = "poll" /\ UNCHANGED off
    /\ UNCHANGED <<bad, sent, wire>>

\* One turn of the loop: hand a packet over, close on a malformed one or on one
\* the whole buffer cannot hold, or keep the rest and go back to poll().
Parse ==
    /\ reader = "parse"
    /\ LET fr == mqtt_frame(Rest)
           full == fr.kind = "more" /\ Len(Rest) = MaxPacket
       IN \/ /\ off < Len(in) /\ (fr.kind = "malformed" \/ full)
             /\ reader' = "closed" /\ UNCHANGED <<in, off, handled>>
          \/ /\ off = Len(in) \/ (fr.kind = "more" /\ ~full)
             /\ in' = Rest /\ off' = 0 /\ reader' = "poll" /\ UNCHANGED handled
          \/ /\ off < Len(in) /\ fr.kind = "packet"
             /\ handled' = Append(handled, <<fr.type, fr.body>>) /\ off' = off + fr.total /\ UNCHANGED <<in, reader>>
    /\ UNCHANGED <<bad, sent, wire>>

\* recv() finds the end of the stream or an error, or there is no memory for
\* the buffer; and a packet that was handled may have closed the client or set
\* closing, which ends the loop.  What is buffered is never looked at again.
ConnEnds ==
    /\ reader = "poll" \/ (reader = "parse" /\ off > 0)
    /\ reader' = "gone" /\ UNCHANGED <<bad, sent, wire, in, off, handled>>

\* Nothing is left to read, or nobody to read it.
AllRead == (reader \in {"closed", "gone"} \/ (reader = "poll" /\ wire = << >>)) /\ UNCHANGED framing

FramesNext == Recv \/ Parse \/ ConnEnds \/ AllRead

FramesSpec == FramesInit /\ [][FramesNext]_framing /\ WF_framing(Recv \/ Parse)

-----------------------------------------------------------------------------
(* Properties *)

TooLarge(p) == Len(mqtt_build(p, sent[p])) > MaxPacket

\* Whatever the cuts, the packets handed over are the packets sent, in order,
\* and no byte is lost: what was not handed over is still buffered or on the
\* way.  read_client closes only for a malformed packet or one the buffer
\* cannot hold, and after handling every packet in front of it.
FramesArePackets ==
    /\ IsPrefix(handled, Packets(sent))
    /\ reader # "closed" => (Bytes(SubSeq(sent, 1, Len(handled))) \o Rest) \o wire = StreamSent
    /\ reader = "closed" => IF handled = Packets(sent) THEN bad ELSE TooLarge(Len(handled) + 1)

\* The other way round, every packet that fits is handled once its bytes are
\* sent, and one that does not fit, or is malformed, gets the client closed
\* instead of a wait that nothing can end, unless the connection ends before.
Settled == reader = "gone" \/ IF bad \/ \E p \in DOMAIN sent : TooLarge(p) THEN reader = "closed" ELSE handled = Packets(sent)
=============================================================================
