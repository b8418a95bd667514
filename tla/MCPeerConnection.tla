-------------------------- MODULE MCPeerConnection --------------------------
\* Three hosts, two of which share an address family; an answer names up to two
\* of them.  Both timeouts are the same, as in the code, and longer than the delay
\* after which the second host starts.
\* Two application threads close the connection.
EXTENDS PeerConnection

CONSTANTS c1, c2, c3

Families == c1 :> "IPv4" @@ c2 :> "IPv4" @@ c3 :> "IPv6"

Video == [id |-> "v", type |-> "video", layers |-> <<>>,
          codecs |-> <<[codec |-> "H264", profile |-> 2], [codec |-> "H264", profile |-> 1],
                       [codec |-> "VP8", profile |-> 0]>>]
Audio == [id |-> "a", type |-> "audio", layers |-> <<>>,
          codecs |-> <<[codec |-> "opus", profile |-> 0]>>]

Publish == [direction |-> "Publish", rtx |-> TRUE, bwe |-> TRUE, absCaptureTime |-> FALSE,
            data |-> FALSE, media |-> <<Video, Audio>>]

\* A publisher without and with simulcast, one of data only, and a subscriber.
SomeOffers ==
    {Publish,
     [Publish EXCEPT !.media[1].layers = <<"lo", "hi">>],
     [Publish EXCEPT !.media = <<>>, !.data = TRUE],
     [Publish EXCEPT !.direction = "Subscribe", !.bwe = FALSE, !.data = TRUE]}

Full == [codecs |-> "all", rtx |-> TRUE, aptFirst |-> FALSE, mid |-> "first", mux |-> TRUE,
         layers |-> {"lo", "hi"}, ssrc |-> "FID", hosts |-> <<c2>>, data |-> TRUE,
         maxSize |-> 1]

\* Everything taken, and answers that differ from it in one respect or two.
SomeStyles ==
    {Full,
     [Full EXCEPT !.codecs = "last", !.hosts = <<c1, c2>>],
     [Full EXCEPT !.rtx = FALSE, !.hosts = <<c1, c3, c1>>],
     [Full EXCEPT !.aptFirst = TRUE, !.maxSize = 0],
     [Full EXCEPT !.mid = "last"],
     [Full EXCEPT !.layers = {"hi"}],
     [Full EXCEPT !.ssrc = "plain", !.data = FALSE],
     [Full EXCEPT !.mid = "missing"], [Full EXCEPT !.mux = FALSE],
     [Full EXCEPT !.ssrc = "none"], [Full EXCEPT !.hosts = <<>>]}

\* The shortest way to a connection that stands.
OneOffer == {Publish}
OneStyle == {Full}
=============================================================================
