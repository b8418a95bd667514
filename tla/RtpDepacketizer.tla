--------------------------- MODULE RtpDepacketizer ---------------------------
(***************************************************************************)
(* How the payloads of RTP packets become frames again: the depacketizers  *)
(* of src/src/depacketizer*.cpp, on the payloads of RtpPacketizer.         *)
(*                                                                         *)
(* d is the state a depacketizer keeps between frames: have, what it has   *)
(* seen of what it waits for before it gives out anything; buf and ts, the *)
(* NALUs of the frame it is putting together (H264, H265).  A frame given  *)
(* out is a sequence of pieces, in the order they are written.             *)
(***************************************************************************)
EXTENDS RtpPacketizer

NewDepacketizer == [have |-> {}, buf |-> <<>>, ts |-> 0]

\* reset
ResetDepacketizer(d) == NewDepacketizer

-----------------------------------------------------------------------------
\* The kind of a packet.

\* isFrameStart.  Key frames start with their first parameter set, others with a
\* slice whose data says it is the first one.  An aggregation packet starts a frame
\* if one of its NALUs does, a fragment only if it is the first of its NALU.
NaluStart(piece, firstParameter) ==
    \/ piece.unit.type = firstParameter
    \/ piece.unit.type = "SLICE" /\ piece.unit.first

NaluPacketStart(payload, firstParameter) ==
    /\ payload.form = "fu" => payload.start
    /\ \E i \in DOMAIN payload.nalus : NaluStart(payload.nalus[i], firstParameter)

IsFrameStartH264(payload) == NaluPacketStart(payload, "SPS")
IsFrameStartH265(payload) == NaluPacketStart(payload, "VPS")
IsFrameStartVP8(payload) == payload.S
IsFrameStartVP9(payload) == payload.B
IsFrameStartAV1(payload) ==
    /\ ~payload.Z
    /\ \E i \in DOMAIN payload.elems :
          LET u == payload.elems[i].data.unit IN u.type = "SEQ" \/ IsFrameObuType(u)

IsFrameStart(codec, payload) ==
    CASE codec = "H264" -> IsFrameStartH264(payload)
      [] codec = "H265" -> IsFrameStartH265(payload)
      [] codec = "VP8" -> IsFrameStartVP8(payload)
      [] codec = "VP9" -> IsFrameStartVP9(payload)
      [] codec = "AV1" -> IsFrameStartAV1(payload)

getPacketKind(codec, payload, marker) ==
    IF codec = "Opus" THEN "Standalone"
    ELSE IF IsFrameStart(codec, payload)
         THEN IF marker THEN "Standalone" ELSE "Start"
         ELSE IF marker THEN "End" ELSE "Middle"

-----------------------------------------------------------------------------
\* extract: the packets of one sequence, in order, to frames.

\* VP8, VP9: the pieces in order; nothing before the first key frame, and a
\* frame only if its last packet has the marker.
ExtractVP(d, items, data) ==
    LET key == d.have # {} \/ isKeyFrame(data[1].unit)
    IN [d |-> IF key THEN [d EXCEPT !.have = {"KEY"}] ELSE d,
        frames |-> IF key /\ Last(items).marker THEN <<data>> ELSE <<>>]

\* What is behind the payload descriptor of VP8, and of VP9.
extractPayload(payload) == payload.data
parsePayloadDescriptor(payload) == payload.data

ExtractVP8(d, items) ==
    ExtractVP(d, items, [i \in DOMAIN items |-> extractPayload(items[i].payload)])

ExtractVP9(d, items) ==
    ExtractVP(d, items, [i \in DOMAIN items |-> parsePayloadDescriptor(items[i].payload)])

ExtractOpus(d, items) == [d |-> d, frames |-> <<<<items[1].payload.data>>>>]

HaveAll(codec) == {ParamTypes(codec)[i] : i \in DOMAIN ParamTypes(codec)} \cup {"KEY"}

\* extractImpl of H264 and H265: one NALU into the frame being put together; the
\* frame is given out at the packet with the marker.
EmitNalu(codec, st, item, nalu) ==
    LET type == nalu[1].unit.type
        waiting == ~(HaveAll(codec) \subseteq st.d.have)
        d1 == IF waiting /\ type \in HaveAll(codec)
              THEN [st.d EXCEPT !.have = @ \cup {type}] ELSE st.d
        buf == (IF d1.ts # item.ts THEN <<>> ELSE d1.buf) \o nalu
    IN IF waiting /\ type = "SLICE" THEN st
       ELSE IF item.marker
       THEN [d |-> [d1 EXCEPT !.ts = item.ts, !.buf = <<>>], frames |-> Append(st.frames, buf)]
       ELSE [d |-> [d1 EXCEPT !.ts = item.ts, !.buf = buf], frames |-> st.frames]

\* One packet; fu is the fragment buffer of the call.
NaluPacket(codec, acc, item) ==
    LET p == item.payload
        Put(st, nalus) == FoldLeft(LAMBDA s, n : EmitNalu(codec, s, item, <<n>>), st, nalus)
        \* the NALU's own header is made again from those of the first fragment
        fu == IF p.start THEN <<Piece(p.nalus[1].unit, 0, p.nalus[1].from + p.nalus[1].len)>>
              ELSE acc.fu \o p.nalus
    IN IF p.form # "fu" THEN [acc EXCEPT !.st = Put(@, p.nalus)]
       ELSE IF p.end THEN [st |-> EmitNalu(codec, acc.st, item, fu), fu |-> fu]
       ELSE [acc EXCEPT !.fu = fu]

ExtractH26x(codec, d, items) ==
    FoldLeft(LAMBDA acc, item : NaluPacket(codec, acc, item),
             [st |-> [d |-> d, frames |-> <<>>], fu |-> <<>>], items).st

ExtractH264(d, items) == ExtractH26x("H264", d, items)
ExtractH265(d, items) == ExtractH26x("H265", d, items)

\* AV1: an OBU is buffered until the next one starts.  Z is looked at for every
\* element of the packet; an element that claims more bytes than the packet has
\* left ends the packet, one that claims more than its own takes what follows.
Garbage == Piece(NoUnit, 0, 0)

\* Mutated: the OBU before this one is not written out.
Av1ElementUnflushed(acc, p, i) ==
    LET e == p.elems[i]
        start == ~p.Z
    IN IF acc.stop \/ e.claim > e.bytes THEN [acc EXCEPT !.stop = TRUE]
       ELSE IF start THEN [acc EXCEPT !.obu = <<e.data>>]
       ELSE [acc EXCEPT !.obu = Append(@, e.data)]

Av1Element(acc, p, i) ==
    LET e == p.elems[i]
        over == e.claim > e.bytes
        start == ~p.Z
        body == IF start = e.hdr THEN <<e.data>> ELSE <<Garbage, e.data>>
    IN IF acc.stop \/ (over /\ i = Len(p.elems)) THEN [acc EXCEPT !.stop = TRUE]
       ELSE IF over THEN [acc EXCEPT !.obu = Append(@, Garbage), !.stop = TRUE]
       ELSE IF start THEN [acc EXCEPT !.out = @ \o acc.obu, !.obu = body]
       ELSE [acc EXCEPT !.obu = @ \o body]

ExtractAV1(d, items) ==
    LET Parse(acc, p) ==
            FoldLeft(LAMBDA a, i : Av1Element(a, p, i), [acc EXCEPT !.stop = FALSE],
                     [i \in DOMAIN p.elems |-> i])
        done == FoldLeft(LAMBDA a, item : Parse(a, item.payload),
                         [out |-> <<>>, obu |-> <<>>, stop |-> FALSE], items)
        seen == d.have # {} \/ \E i \in DOMAIN items : items[i].payload.N
        buf == done.out \o done.obu
    IN [d |-> IF seen THEN [d EXCEPT !.have = {"SEQ"}] ELSE d,
        frames |-> IF buf # <<>> /\ seen /\ Last(items).marker THEN <<buf>> ELSE <<>>]

\* Depacketizer::make and extract.
extract(codec, d, items) ==
    CASE codec = "VP8" -> ExtractVP8(d, items)
      [] codec = "VP9" -> ExtractVP9(d, items)
      [] codec = "Opus" -> ExtractOpus(d, items)
      [] codec = "AV1" -> ExtractAV1(d, items)
      [] codec = "H264" -> ExtractH264(d, items)
      [] codec = "H265" -> ExtractH265(d, items)
=============================================================================
