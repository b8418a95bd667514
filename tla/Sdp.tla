--------------------------------- MODULE Sdp ---------------------------------
(***************************************************************************)
(* The offer a connection makes and what it makes of the peer's answer:    *)
(* src/src/sdp_offer.cpp, src/src/sdp_answer.cpp, src/src/track.cpp,       *)
(* src/src/track_selector.cpp and src/src/extension_map.cpp.               *)
(*                                                                         *)
(* An offer is a record [direction, rtx, bwe, absCaptureTime, data, media],*)
(* a media line of it a record [id, type, codecs, layers].  What generate()*)
(* writes is kept as one record per section.  An answer is a sequence of   *)
(* lines, because the parser goes through it line by line and depends on   *)
(* their order; a line is a record whose field k is the tag or attribute.  *)
(* SSRCs are random in the code and taken to be distinct: here they are    *)
(* numbered.                                                               *)
(***************************************************************************)
EXTENDS Integers, Sequences, SequencesExt

None == "none"

kSctpMaxMessageSize == 2   \* 262144 in the code

\* The order of enum Codec.
VideoCodecs == <<"VP8", "VP9", "H264", "H265", "AV1">>

isVideoCodec(codec) == codec \in ToSet(VideoCodecs)

isAudioCodec(codec) == codec = "opus"

-----------------------------------------------------------------------------
\* SdpOffer.

CodecsFit(media) ==
    \A i \in DOMAIN media.codecs :
        IF media.type = "video" THEN isVideoCodec(media.codecs[i].codec)
        ELSE isAudioCodec(media.codecs[i].codec)

\* createPublishOffer, createSubscribeOffer: validateMediaItem.
validateMediaItem(media) == media.id # None /\ CodecsFit(media)

\* Payload ids and SSRCs taken by a codec or a stream: its own, and one for RTX.
Stride(offer) == IF offer.rtx THEN 2 ELSE 1

Formats(offer, media, first) ==
    LET At(i) == first + (i - 1) * Stride(offer)
        Own(i) == [pt |-> At(i), codec |-> media.codecs[i].codec,
                   profile |-> media.codecs[i].profile, apt |-> 0]
        Rtx(i) == [pt |-> At(i) + 1, codec |-> "rtx", profile |-> 0, apt |-> At(i)]
    IN  FlattenSeq([i \in DOMAIN media.codecs |->
                        IF offer.rtx THEN <<Own(i), Rtx(i)>> ELSE <<Own(i)>>])

If(condition, name) == IF condition THEN <<name>> ELSE <<>>

Extensions(offer, simulcast) ==
    If(offer.absCaptureTime, "absCaptureTime")
    \o (IF simulcast
        THEN <<"mid", "rid">> \o If(offer.rtx, "repairedRid") \o <<"vla">> ELSE <<>>)
    \o If(offer.bwe \/ offer.direction = "Subscribe", "twcc")

\* One media line of generate(): payload ids go on from the line before, and the
\* SSRCs are those of the media, or of each layer when simulcast is published.
Section(offer, media, acc) ==
    LET simulcast == media.layers # <<>> /\ offer.direction = "Publish"
        formats == Formats(offer, media, acc.payloadId)
        Ssrc(j) == acc.ssrc + (j - 1) * Stride(offer)
        Rtx(j) == IF offer.rtx THEN Ssrc(j) + 1 ELSE 0
        streams == IF simulcast THEN Len(media.layers) ELSE 1
        layer == IF simulcast
                 THEN [j \in DOMAIN media.layers |->
                         [name |-> media.layers[j], ssrc |-> Ssrc(j), rtx |-> Rtx(j)]]
                 ELSE <<>>
    IN  [payloadId |-> acc.payloadId + Len(formats),
         ssrc |-> acc.ssrc + streams * Stride(offer),
         list |-> Append(acc.list,
            [mediaId |-> media.id, mediaType |-> media.type, formats |-> formats,
             extensions |-> Extensions(offer, simulcast), layer |-> layer,
             ssrc |-> IF simulcast THEN 0 ELSE Ssrc(1),
             rtx |-> IF simulcast THEN 0 ELSE Rtx(1)])]

\* generate(): refused, or the sections of the offer.
Generable(offer) ==
    /\ offer.media # <<>> \/ offer.data
    /\ \A i \in DOMAIN offer.media :
          offer.media[i].codecs # <<>> /\ CodecsFit(offer.media[i])

generate(offer) ==
    FoldLeft(LAMBDA acc, media : Section(offer, media, acc),
             [payloadId |-> 96, ssrc |-> 1, list |-> <<>>], offer.media).list

\* SdpOffer::mMediaLineGeneratedList, looked up by media id.
Generated(sections, mediaId) == SelectSeq(sections, LAMBDA s : s.mediaId = mediaId)

getVideoSimulcastLayerList(offer, mediaId) ==
    LET found == SelectSeq(offer.media, LAMBDA media : media.id = mediaId)
    IN  IF found = <<>> THEN <<>> ELSE found[1].layers

getMediaSSRC(sections, mediaId) ==
    LET found == Generated(sections, mediaId)
    IN  IF found = <<>> THEN <<0, 0>> ELSE <<found[1].ssrc, found[1].rtx>>

getVideoSimulastSSRC(sections, mediaId, name) ==
    LET lines == Generated(sections, mediaId)
        found == FlattenSeq([i \in DOMAIN lines |->
                    SelectSeq(lines[i].layer, LAMBDA layer : layer.name = name)])
    IN  IF found = <<>> THEN <<0, 0>> ELSE <<found[1].ssrc, found[1].rtx>>

-----------------------------------------------------------------------------
\* HighestTrackSelector.

CodecRank(codec) == CHOOSE n \in DOMAIN VideoCodecs : VideoCodecs[n] = codec

isBetter(best, curr) ==
    IF best.codec # curr.codec THEN CodecRank(best.codec) < CodecRank(curr.codec)
    ELSE best.profile < curr.profile

HighestTrack(type, list) ==
    IF type = "audio" THEN list[1]
    ELSE FoldLeft(LAMBDA best, curr : IF isBetter(best, curr) THEN curr ELSE best,
                  list[1], Tail(list))

-----------------------------------------------------------------------------
\* SdpAnswerParser.  A parser state p has the offer with its generated sections,
\* the answer so far and the media section m it is in; p.error says that the answer
\* is refused.

NewMediaState ==
    [mediaType |-> None, mediaId |-> None, extensions |-> <<>>, layerList |-> <<>>,
     payloads |-> <<>>, ssrc |-> 0, rtxSsrc |-> 0, ssrcList |-> <<>>]

NewParser(offer) ==
    [offer |-> offer, sections |-> generate(offer), error |-> FALSE, isRtcpMux |-> FALSE, inMedia |-> FALSE,
     inApplication |-> FALSE, hasMedia |-> FALSE, hasDataChannel |-> FALSE,
     maxMessageSize |-> kSctpMaxMessageSize, m |-> NewMediaState,
     mediaList |-> <<>>, trackList |-> <<>>, hostList |-> <<>>]

NewPayloadState(id) ==
    [payloadId |-> id, codec |-> None, profile |-> 0, rtxPayloadId |-> 0,
     hasNack |-> FALSE, hasPli |-> FALSE]

is_valid_payload_id(id) == id \in 96..127

setPayloadList(ids) ==
    LET valid == SelectSeq(ids, is_valid_payload_id)
    IN  [i \in DOMAIN valid |-> NewPayloadState(valid[i])]

\* The index of a payload id in the m line, 0 if it is not there.
getPayloadState(m, id) ==
    SelectInSeq(m.payloads, LAMBDA s : s.payloadId = id)

\* A track for every payload with a codec; those of a simulcast media get their
\* SSRCs later.
CandidateTracks(direction, m, ssrcMedia) ==
    LET usable == SelectSeq(m.payloads, LAMBDA s : s.codec \notin {None, "rtx"})
    IN  [i \in DOMAIN usable |->
           LET s == usable[i] IN
           [media |-> m.mediaId, layer |-> None, codec |-> s.codec, profile |-> s.profile,
            payloadId |-> s.payloadId, rtxPayloadId |-> s.rtxPayloadId,
            hasNack |-> s.hasNack, hasPli |-> s.hasPli,
            ssrc |-> IF m.layerList = <<>> THEN ssrcMedia ELSE 0,
            rtxSsrc |-> IF m.layerList = <<>> /\ s.rtxPayloadId # 0 THEN m.rtxSsrc ELSE 0]]

\* <<>> when no track can be made.
selectTrack(direction, m) ==
    LET ssrcMedia == IF direction = "Subscribe" /\ m.ssrc = 0 /\ m.ssrcList # <<>>
                     THEN m.ssrcList[1] ELSE m.ssrc
        list == CandidateTracks(direction, m, ssrcMedia)
    IN  IF list = <<>> \/ (direction = "Subscribe" /\ ssrcMedia = 0) THEN <<>>
        ELSE <<HighestTrack(m.mediaType, list)>>

makeSimulcastTrackList(sections, m, track) ==
    [i \in DOMAIN m.layerList |->
        LET ssrc == getVideoSimulastSSRC(sections, m.mediaId, m.layerList[i])
        IN  [track EXCEPT !.layer = m.layerList[i], !.ssrc = ssrc[1], !.rtxSsrc = ssrc[2]]]

\* A publisher sends on the SSRCs of its offer.
Announced(p) ==
    LET ssrc == getMediaSSRC(p.sections, p.m.mediaId)
    IN  IF p.offer.direction = "Publish"
        THEN [p.m EXCEPT !.ssrc = ssrc[1], !.rtxSsrc = ssrc[2]] ELSE p.m

AddTracks(p, m, track) ==
    IF m.mediaId = None \/ track = <<>> THEN [p EXCEPT !.error = TRUE]
    ELSE [p EXCEPT !.m = m, !.hasMedia = TRUE,
                   !.mediaList = Append(@, [id |-> m.mediaId, type |-> m.mediaType,
                                            extensions |-> m.extensions]),
                   !.trackList = @ \o IF m.layerList = <<>> THEN track
                                      ELSE makeSimulcastTrackList(p.sections, m, track[1])]

\* The end of a media section: its media and its tracks.
flush_m(p) ==
    LET m == Announced(p)
    IN  IF p.inMedia THEN AddTracks(p, m, selectTrack(p.offer.direction, m)) ELSE p

-----------------------------------------------------------------------------
\* The lines of an answer.

\* Mutated: the state of the section before is kept.
EnterMediaKeepsState(p, line) ==
    [p EXCEPT !.inMedia = line.type \in {"audio", "video"}, !.inApplication = FALSE,
              !.m.mediaType = line.type, !.m.payloads = setPayloadList(line.pts)]

\* mediaState.clear() and the payload list; other media are skipped.
EnterMedia(p, line) ==
    LET known == line.type \in {"audio", "video"}
    IN  [p EXCEPT !.inMedia = known, !.inApplication = FALSE,
                  !.m = IF known THEN [NewMediaState EXCEPT !.mediaType = line.type,
                                                 !.payloads = setPayloadList(line.pts)]
                        ELSE NewMediaState]

EnterSection(p, line) ==
    IF p.error THEN p
    ELSE IF line.type = "application"
         THEN [p EXCEPT !.m = NewMediaState, !.inMedia = FALSE,
                        !.inApplication = line.proto,
                        !.hasDataChannel = @ \/ line.proto]
    ELSE IF ~line.proto THEN [p EXCEPT !.error = TRUE]
    ELSE EnterMedia(p, line)

parseLine_m(p, line) == EnterSection(flush_m(p), line)

\* An rtpmap names the codec of a payload id of the m line.
parse_rtpmap(m, line) ==
    LET i == getPayloadState(m, line.pt)
    IN  IF i = 0 \/ line.codec = None THEN m ELSE [m EXCEPT !.payloads[i].codec = line.codec]

\* apt: only once the payload is known to be RTX.
parse_fmtp(m, line) ==
    LET i == getPayloadState(m, line.pt)
        media == getPayloadState(m, line.apt)
    IN  IF i = 0 THEN m
        ELSE IF line.apt # 0
             THEN IF m.payloads[i].codec = "rtx" /\ media # 0
                  THEN [m EXCEPT !.payloads[media].rtxPayloadId = line.pt] ELSE m
        ELSE IF line.profile # 0 THEN [m EXCEPT !.payloads[i].profile = line.profile] ELSE m

parse_rtcp_fb(m, line) ==
    LET i == getPayloadState(m, line.pt)
    IN  IF i = 0 THEN m
        ELSE [m EXCEPT !.payloads[i].hasNack = @ \/ "nack" \in line.tokens,
                       !.payloads[i].hasPli = @ \/ "pli" \in line.tokens]

\* Of the layers the peer wants, those that the offer has for this media id.
parse_simulcast(offer, m, line) ==
    LET offered == ToSet(getVideoSimulcastLayerList(offer, m.mediaId))
    IN  IF m.mediaType # "video" THEN m
        ELSE [m EXCEPT !.layerList = @ \o SelectSeq(line.rids, LAMBDA rid : rid \in offered)]

AddOnce(seq, e) == IF e \in ToSet(seq) THEN seq ELSE Append(seq, e)

\* The attributes that belong to a media section.
MediaAttributes ==
    {"mid", "extmap", "rtpmap", "fmtp", "rtcp-fb", "simulcast", "ssrc-group", "ssrc"}

ParseMediaAttribute(offer, m, line) ==
    CASE line.k = "mid"        -> [m EXCEPT !.mediaId = line.id]
      [] line.k = "extmap"     -> [m EXCEPT !.extensions = Append(@, line.name)]
      [] line.k = "rtpmap"     -> parse_rtpmap(m, line)
      [] line.k = "fmtp"       -> parse_fmtp(m, line)
      [] line.k = "rtcp-fb"    -> parse_rtcp_fb(m, line)
      [] line.k = "simulcast"  -> parse_simulcast(offer, m, line)
      [] line.k = "ssrc-group" -> [m EXCEPT !.ssrc = line.ssrc, !.rtxSsrc = line.rtx]
      [] line.k = "ssrc"       -> [m EXCEPT !.ssrcList = AddOnce(@, line.ssrc)]

\* Hosts count wherever they stand, once each.
parseLine_a(p, line) ==
    CASE line.k \in MediaAttributes ->
            IF p.inMedia THEN [p EXCEPT !.m = ParseMediaAttribute(p.offer, @, line)] ELSE p
      [] line.k = "rtcp-mux"  -> [p EXCEPT !.isRtcpMux = TRUE]
      [] line.k = "candidate" -> [p EXCEPT !.hostList = AddOnce(@, line.host)]
      [] line.k = "max-message-size" ->
            IF p.inApplication THEN [p EXCEPT !.maxMessageSize = line.size] ELSE p

\* parse_line: a line without '=' is an error.
parseLine(p, line) ==
    IF p.error THEN p
    ELSE CASE line.k = "m"       -> parseLine_m(p, line)
           [] line.k = "invalid" -> [p EXCEPT !.error = TRUE]
           [] OTHER              -> parseLine_a(p, line)

\* What the parser has at the end: the answer, or one with an error.
ParsedAnswer(p) ==
    [error |-> \/ p.error \/ (p.hasMedia /\ ~p.isRtcpMux)
               \/ p.hostList = <<>> \/ ~(p.hasMedia \/ p.hasDataChannel),
     direction |-> p.offer.direction, hostList |-> p.hostList,
     mediaList |-> p.mediaList, trackList |-> p.trackList,
     hasDataChannel |-> p.hasDataChannel, maxMessageSize |-> p.maxMessageSize]

FlushLast(p) == IF p.error THEN p ELSE flush_m(p)

\* SdpAnswer::parse
parse(offer, lines) ==
    ParsedAnswer(FlushLast(FoldLeft(parseLine, NewParser(offer), lines)))

-----------------------------------------------------------------------------
\* The peer, which is not part of the repository: it answers with the sections
\* of the offer, in their order and with their ids, payload ids and extensions.
\* style says what it takes and how it writes it down: "codecs" (all, or the
\* last only), "rtx", "aptFirst" (fmtp before rtpmap), "mid" (first, last or
\* missing), "mux", "layers", "ssrc" (a FID group, plain or none), "hosts",
\* "data" and "maxSize".

PeerSsrc(i) == 100 + 2 * i

Taken(style, section) ==
    LET last == Max(ToSet([i \in DOMAIN section.formats |->
                    IF section.formats[i].codec = "rtx" THEN 0 ELSE section.formats[i].pt]))
    IN  SelectSeq(section.formats,
            LAMBDA f : /\ f.codec = "rtx" => style.rtx
                       /\ style.codecs = "last" => last \in {f.pt, f.apt})

FormatLines(style, f) ==
    LET rtpmap == [k |-> "rtpmap", pt |-> f.pt, codec |-> f.codec]
        fmtp == [k |-> "fmtp", pt |-> f.pt, apt |-> f.apt, profile |-> f.profile]
        fb == [k |-> "rtcp-fb", pt |-> f.pt, tokens |-> {"nack", "pli"}]
    IN  IF style.aptFirst THEN <<fmtp, rtpmap, fb>> ELSE <<rtpmap, fmtp, fb>>

SsrcLines(style, i) ==
    CASE style.ssrc = "none"  -> <<>>
      [] style.ssrc = "plain" -> <<[k |-> "ssrc", ssrc |-> PeerSsrc(i)]>>
      [] style.ssrc = "FID"   -> <<[k |-> "ssrc-group", ssrc |-> PeerSsrc(i),
                                    rtx |-> PeerSsrc(i) + 1]>>

AnswerSection(offer, style, section, i) ==
    LET formats == Taken(style, section)
        mid == <<[k |-> "mid", id |-> section.mediaId]>>
        rids == SelectSeq([j \in DOMAIN section.layer |-> section.layer[j].name],
                          LAMBDA rid : rid \in style.layers)
    IN  <<[k |-> "m", type |-> section.mediaType, proto |-> TRUE,
           pts |-> [j \in DOMAIN formats |-> formats[j].pt]]>>
        \o (IF style.mid = "first" THEN mid ELSE <<>>)
        \o If(style.mux, [k |-> "rtcp-mux"])
        \o [j \in DOMAIN section.extensions |-> [k |-> "extmap", name |-> section.extensions[j]]]
        \o FlattenSeq([j \in DOMAIN formats |-> FormatLines(style, formats[j])])
        \o If(rids # <<>>, [k |-> "simulcast", rids |-> rids])
        \o (IF offer.direction = "Subscribe" THEN SsrcLines(style, i) ELSE <<>>)
        \o (IF style.mid = "last" THEN mid ELSE <<>>)

Answer(offer, style) ==
    [j \in DOMAIN style.hosts |-> [k |-> "candidate", host |-> style.hosts[j]]]
    \o FlattenSeq([i \in DOMAIN offer.media |->
                     AnswerSection(offer, style, generate(offer)[i], i)])
    \o (IF offer.data /\ style.data
        THEN <<[k |-> "m", type |-> "application", proto |-> TRUE],
               [k |-> "max-message-size", size |-> style.maxSize]>> ELSE <<>>)

=============================================================================
