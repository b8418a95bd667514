---------------------------- MODULE RtpPacketizer ----------------------------
(***************************************************************************)
(* How a frame becomes the payloads of RTP packets: the packetizers of     *)
(* src/src/packetizer*.cpp, with the parsers of src/src/codec_*.cpp that   *)
(* cut a frame into its units.                                             *)
(*                                                                         *)
(* The bytes are abstracted to where they come from: a piece is a range of *)
(* one unit of the frame.  A unit is a NALU (H264, H265), an OBU (AV1) or  *)
(* the whole frame (VP8, VP9, Opus), with the type, the size and the one   *)
(* bit of its data that the code looks at:                                 *)
(*   first : the slice is the first one of its picture                     *)
(*   layer : the OBU has a temporal or a spatial id                        *)
(* Sizes are in bytes, as in the code.                                     *)
(***************************************************************************)
EXTENDS Integers, Sequences, SequencesExt

kMaxPayloadSize == 1200
kHeaderSize == 12

NoUnit == [id |-> 0, type |-> "none", size |-> 0, first |-> FALSE, layer |-> FALSE]

Piece(u, from, len) == [unit |-> u, from |-> from, len |-> len]

Whole(u) == Piece(u, 0, u.size)

IsParameterNalu(u) == u.type \in {"VPS", "SPS", "PPS"}

IsKeyFrameNalu(u) == u.type = "KEY"

\* The parsers' loops: the units in the order of the frame, TRUE for the last
\* one (isAtEnd).
IsAtEnd(frame, i) == i = Len(frame)

\* OBU_FRAME_HEADER, OBU_FRAME and OBU_REDUNDANT_FRAME_HEADER.
IsFrameObuType(u) == u.type = "FRAME"

-----------------------------------------------------------------------------
\* The room for payload in one packet.

getBasicPacketSize(overhead) == kMaxPayloadSize - kHeaderSize - overhead

kMinPayloadSize == 600

\* Mutated: the padding is not taken from the room.
adjustPacketSizeForgetsPadding(basic, padding, ext) ==
    IF ext = 0 \/ ext + kMinPayloadSize > basic THEN basic ELSE basic - ext

\* What the extensions and the padding leave.
adjustPacketSize(basic, padding, ext) ==
    LET less == IF padding > 0 /\ padding <= basic \div 2
                THEN basic - padding ELSE basic
    IN IF ext = 0 \/ ext + kMinPayloadSize > basic THEN less ELSE less - ext

\* The padding for video: what the extension source of TWCC asks for while it
\* probes, see getPadding in TwccFeedback.
getPadding(env, remaining) ==
    IF remaining < 300 \/ ~env.probing THEN 0 ELSE IF remaining < 500 THEN 50 ELSE 120

\* What buildExtension gives: the extension's size on the wire.
buildExtension(env, packetNumber) ==
    IF packetNumber = 0 THEN env.ext ELSE env.extLater

Packet(marker, padding, ext, payload, size) ==
    [marker |-> marker, padding |-> padding, ext |-> ext,
     payload |-> payload, size |-> size]

\* The bytes the socket is given for a packet.
WireSize(env, p) == kHeaderSize + p.ext + p.size + p.padding + env.overhead

-----------------------------------------------------------------------------
\* VP8, VP9: the frame is cut into packets behind a payload descriptor.

\* The packets that the rest of a unit of u.size bytes, from byte "from" on, is
\* cut into; Payload builds one payload from its piece and its place.
Cut(u, env, descriptor, Payload(_, _, _)) ==
    LET basic == getBasicPacketSize(env.overhead) - descriptor
        cut[from \in 0 .. u.size, n \in 0 .. u.size] ==
            IF from >= u.size THEN <<>>
            ELSE LET left == u.size - from
                     padding == getPadding(env, left)
                     ext == buildExtension(env, n)
                     room == adjustPacketSize(basic, padding, ext)
                     now == IF left < room THEN left ELSE room
                 IN <<Packet(left <= room, padding, ext,
                             Payload(Piece(u, from, now), n = 0, left <= room),
                             now + descriptor)>>
                    \o cut[from + now, n + 1]
    IN cut[0, 0]

\* isKeyFrame of VP8 and of VP9 look at the first bytes of the frame.
isKeyFrame(u) == u.type = "KEY"

VP8(frame, env) ==
    IF frame[1].size < 3 THEN <<>>
    ELSE Cut(frame[1], env, 1,
             LAMBDA piece, start, end : [S |-> start, data |-> piece])

\* The descriptor always has the two bytes of a picture id.
buildPayloadDescriptor(piece, start, end, inter) ==
    [B |-> start, E |-> end, P |-> inter, data |-> piece]

VP9(frame, env) ==
    Cut(frame[1], env, 3,
        LAMBDA piece, start, end :
            buildPayloadDescriptor(piece, start, end, ~isKeyFrame(frame[1])))

\* Audio: one packet, cut off at the largest payload.
Opus(frame, env) ==
    LET u == frame[1]
        now == IF u.size > kMaxPayloadSize THEN kMaxPayloadSize ELSE u.size
    IN <<Packet(FALSE, 0, buildExtension(env, 0), [data |-> Piece(u, 0, now)], now)>>

-----------------------------------------------------------------------------
\* H264 and H265: parameter sets are kept, and sent as one aggregation packet
\* before the key frame; other NALUs are sent alone or as fragmentation units.

Single(u) == [form |-> "single", nalus |-> <<Whole(u)>>, start |-> FALSE, end |-> FALSE]
Aggregate(us) == [form |-> "agg", nalus |-> [i \in DOMAIN us |-> Whole(us[i])],
                  start |-> FALSE, end |-> FALSE]
Fragment(piece, start, end) ==
    [form |-> "fu", nalus |-> <<piece>>, start |-> start, end |-> end]

\* The parameter sets of the codec: all of them are needed.
ParamTypes(codec) == IF codec = "H265" THEN <<"VPS", "SPS", "PPS">> ELSE <<"SPS", "PPS">>

ParamsComplete(csd, codec) ==
    \A i \in DOMAIN ParamTypes(codec) : csd[ParamTypes(codec)[i]].size > 0

\* setCodecSpecificData: what the given buffers hold replaces what there was.
setCodecSpecificData(units) ==
    FoldLeft(LAMBDA csd, u : IF IsParameterNalu(u) THEN [csd EXCEPT ![u.type] = u] ELSE csd,
             [t \in {"VPS", "SPS", "PPS"} |-> NoUnit], units)

\* One NALU cut into fragments: `hdr` bytes of it are its header, which every
\* fragment repeats in its own way, the fragment header takes one more.
FragmentNalu(u, env, hdr, last) ==
    LET basic == getBasicPacketSize(env.overhead)
        padding == getPadding(env, u.size)
        cut[from \in 0 .. u.size, n \in 0 .. u.size] ==
            IF from >= u.size THEN <<>>
            ELSE LET left == u.size - from
                     ext == buildExtension(env, n)
                     room0 == adjustPacketSize(basic - hdr - 1, padding, ext)
                     \* a fragment cannot be both start and end
                     room == IF n = 0 /\ room0 >= left THEN left - 10 ELSE room0
                     now == IF left < room THEN left ELSE room
                     end == left <= room
                 IN <<Packet(end /\ last, padding, ext,
                             Fragment(Piece(u, from, now), n = 0, end),
                             now + hdr + 1)>>
                    \o cut[from + now, n + 1]
    IN cut[hdr, 0]

NaluPackets(u, env, hdr, last) ==
    LET padding == getPadding(env, u.size)
        ext == buildExtension(env, 0)
    IN IF adjustPacketSize(getBasicPacketSize(env.overhead), padding, ext) >= u.size
       THEN <<Packet(last, padding, ext, Single(u), u.size)>>
       ELSE IF u.size > hdr THEN FragmentNalu(u, env, hdr, last) ELSE <<>>

ParameterPacket(csd, codec, env) ==
    LET us == [i \in DOMAIN ParamTypes(codec) |-> csd[ParamTypes(codec)[i]]]
    IN Packet(FALSE, 0, buildExtension(env, 0), Aggregate(us),
              FoldLeft(LAMBDA n, u : n + 2 + u.size,
                       IF codec = "H265" THEN 2 ELSE 1, us))

\* One turn of the loop over the NALUs of a frame.
NaluStep(acc, frame, i, codec, env) ==
    LET u == frame[i]
    IN IF IsParameterNalu(u) THEN [acc EXCEPT !.csd[u.type] = u]
       ELSE [acc EXCEPT
               !.added = @ \/ IsKeyFrameNalu(u),
               !.packets = @
                 \o (IF IsKeyFrameNalu(u) /\ ~acc.added /\ ParamsComplete(acc.csd, codec)
                     THEN <<ParameterPacket(acc.csd, codec, env)>> ELSE <<>>)
                 \o NaluPackets(u, env, IF codec = "H265" THEN 2 ELSE 1, IsAtEnd(frame, i))]

H26x(csd, frame, codec, env) ==
    FoldLeft(LAMBDA acc, i : NaluStep(acc, frame, i, codec, env),
             [csd |-> csd, added |-> FALSE, packets |-> <<>>],
             [i \in DOMAIN frame |-> i])

H264(csd, frame, env) == H26x(csd, frame, "H264", env)
H265(csd, frame, env) == H26x(csd, frame, "H265", env)

-----------------------------------------------------------------------------
\* AV1: several OBUs in a packet, an OBU in several packets.

\* An element of a packet: hdr, the OBU header is written (one byte, two with a
\* layer); claim, the size written before it; bytes, what really follows.
Element(u, from, now) ==
    LET extra == IF u.layer THEN 1 ELSE 0
        first == from = 0
    IN [hdr |-> first, data |-> Piece(u, from, now),
        claim |-> (IF first THEN 1 ELSE 0) + extra + now,
        bytes |-> (IF first THEN 1 + extra ELSE 0) + now]

Leb128Size(n) == IF n < 128 THEN 1 ELSE 2

\* payload is the packet being filled: <<>> when there is none.
EmptyAv1 == [Z |-> FALSE, Y |-> FALSE, N |-> FALSE, elems |-> <<>>]

Av1Size(payload) ==
    FoldLeft(LAMBDA n, e : n + Leb128Size(e.claim) + e.bytes, 1, payload.elems)

Av1Emit(acc, marker) ==
    [acc EXCEPT !.packets = Append(@, Packet(marker, acc.padding, acc.ext, acc.payload,
                                             Av1Size(acc.payload))),
                !.payload = EmptyAv1, !.n = @ + 1]

\* One turn of the while loop: the next piece of OBU u.  The room is computed
\* when a packet is begun at the top of the loop; a packet begun because the one
\* before is full keeps that room and has no extension, which was moved away.
Av1Turn(acc, u, env) ==
    LET basic == getBasicPacketSize(env.overhead) - 4
        fresh == acc.payload.elems = <<>>
        padding == IF fresh THEN getPadding(env, basic) ELSE acc.padding
        ext == IF fresh THEN buildExtension(env, acc.n) ELSE acc.ext
        usable == IF fresh THEN adjustPacketSize(basic, padding, ext) ELSE acc.usable
        left == u.size - acc.from
        sofar == Av1Size(acc.payload)
        join == ~fresh /\ sofar + 100 < usable
        room == IF join THEN usable - sofar ELSE usable
        now == IF left < room THEN left ELSE room
        a == [acc EXCEPT !.padding = padding, !.ext = ext, !.usable = usable]
        b == IF fresh \/ join THEN a ELSE [Av1Emit(a, FALSE) EXCEPT !.ext = 0]
        c == IF b.payload.elems = <<>>
             THEN [b EXCEPT !.payload.Z = b.cont, !.payload.N = b.newSeq, !.newSeq = FALSE]
             ELSE b
        d == [c EXCEPT !.payload.elems = Append(@, Element(u, acc.from, now)),
                       !.cont = now < left, !.from = acc.from + now]
    IN IF now < left THEN Av1Emit([d EXCEPT !.payload.Y = TRUE], FALSE) ELSE d

\* Every turn but the last fills a packet.
Av1Obu(acc, u, env) ==
    IF u.type = "TD" THEN acc
    ELSE FoldLeft(LAMBDA a, k : IF a.from >= u.size THEN a ELSE Av1Turn(a, u, env),
                  [acc EXCEPT !.from = 0],
                  [k \in 1 .. 2 + u.size \div 500 |-> k])

\* The last packet of the frame has the marker.
Av1Finish(acc) == IF acc.payload.elems = <<>> THEN acc ELSE Av1Emit(acc, TRUE)

AV1(frame, env) ==
    Av1Finish(FoldLeft(LAMBDA acc, u : Av1Obu(acc, u, env),
                [packets |-> <<>>, payload |-> EmptyAv1, n |-> 0, cont |-> FALSE,
                 newSeq |-> \E i \in DOMAIN frame : frame[i].type = "SEQ",
                 ext |-> 0, padding |-> 0, usable |-> 0, from |-> 0],
                frame)).packets

-----------------------------------------------------------------------------
\* Packetizer::make and generate: the parameter sets kept, and the packets.
generate(codec, csd, frame, env) ==
    CASE codec = "VP8" -> [csd |-> csd, packets |-> VP8(frame, env)]
      [] codec = "VP9" -> [csd |-> csd, packets |-> VP9(frame, env)]
      [] codec = "Opus" -> [csd |-> csd, packets |-> Opus(frame, env)]
      [] codec = "AV1" -> [csd |-> csd, packets |-> AV1(frame, env)]
      [] codec = "H264" -> H264(csd, frame, env)
      [] codec = "H265" -> H265(csd, frame, env)
=============================================================================
