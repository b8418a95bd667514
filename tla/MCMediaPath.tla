---------------------------- MODULE MCMediaPath ----------------------------
\* Instances of MediaPath for TLC.
EXTENDS MediaPath

U(id, type, size) ==
    [id |-> id, type |-> type, size |-> size, first |-> TRUE, layer |-> FALSE]
NotFirst(u) == [u EXCEPT !.first = FALSE]
Layered(u) == [u EXCEPT !.layer = TRUE]

Never == -1  \* no reports

\* Without losses or delay, with and without probing and extensions.
Plain(codec) ==
    [frames |-> codec, codec |-> codec, overhead |-> 10, probing |-> FALSE, ext |-> 0,
     extLater |-> 0, capacity |-> 16, length |-> 6, transit |-> 0, losses |-> 0,
     pubPhase |-> Never, subPhase |-> Never]
Probing(codec) ==
    [Plain(codec) EXCEPT !.overhead = 16, !.probing = TRUE, !.ext = 20, !.extLater = 8]
\* A network that delays, reorders and loses.
Lossy(codec) == [Plain(codec) EXCEPT !.transit = 1, !.losses = 2]
\* A buffer too short for a retransmission to be in time.
Late(codec) == [Lossy(codec) EXCEPT !.length = 2]
\* More packets than the ring has slots: given out in time, so that slots are used
\* again, and kept until the ring is full.
Reusing == [Plain("VP8") EXCEPT !.frames = "Burst", !.capacity = 8, !.length = 2, !.losses = 1]
Filling == [Reusing EXCEPT !.length = 6]
\* A buffer too short for a retransmission, and frames behind a delimiter or SEI.
LateLedIn == [Plain("H264") EXCEPT !.frames = "LedIn", !.transit = 1, !.losses = 1, !.length = 2]
\* RTCP reports of both ends, sent at different times, while the track is silent.
Reporting(phase) ==
    [Plain("VP8") EXCEPT !.frames = "Silent", !.length = 3, !.transit = 2, !.losses = 1,
                         !.pubPhase = 0, !.subPhase = phase]

\* Frames of one and of several units and packets, with delimiters and SEI, one that
\* just fits a packet, a key frame without parameter sets of its own.
NaluFrames(params) ==
    << <<U(10, "AUD", 2)>> \o params \o <<U(11, "SEI", 40), U(4, "KEY", 2000)>>,
       <<U(12, "SEI", 40), U(5, "SLICE", 700), NotFirst(U(6, "SLICE", 30))>>,
       <<U(7, "SLICE", 1178)>>,
       <<U(8, "KEY", 90), NotFirst(U(9, "KEY", 1300)), U(13, "SEI", 30)>>,
       <<U(14, "SLICE", 30)>> >>
AllFrames ==
    [Silent |-> <<>>,
     Burst |-> [i \in 1 .. 4 |-> <<U(i, IF i = 1 THEN "KEY" ELSE "SLICE", 2500)>>],
     VP8 |-> << <<U(1, "KEY", 1500)>>, <<U(2, "SLICE", 1177)>>, <<U(3, "SLICE", 1178)>>,
                <<U(4, "SLICE", 300)>> >>,
     VP9 |-> << <<U(1, "KEY", 2500)>>, <<U(2, "SLICE", 1175)>>, <<U(3, "SLICE", 1176)>> >>,
     Opus |-> << <<U(1, "AUDIO", 80)>>, <<U(2, "AUDIO", 1195)>>, <<U(3, "AUDIO", 1270)>> >>,
     H264 |-> NaluFrames(<<U(2, "SPS", 20), U(3, "PPS", 8)>>),
     H265 |-> NaluFrames(<<U(1, "VPS", 24), U(2, "SPS", 20), U(3, "PPS", 8)>>),
     LedIn |-> << <<U(2, "SPS", 20), U(3, "PPS", 8), U(11, "SEI", 40), U(4, "KEY", 90)>>,
                  <<U(12, "SEI", 40), U(5, "SLICE", 30)>> >>,
     AV1 |-> << <<U(1, "TD", 0), U(2, "SEQ", 10), U(3, "FRAME", 2500)>>,
                <<U(4, "FRAME", 300), U(5, "TILE", 400)>>,
                <<U(6, "FRAME", 1174)>> >>,
     \* an OBU behind the end of another one, a layered OBU in two packets, two frame
     \* OBUs in two packets, three OBUs in three
     HardAV1 |-> << <<U(1, "SEQ", 10), U(2, "FRAME", 300)>>,
                    <<U(3, "FRAME", 1500), U(4, "TILE", 200)>>,
                    <<Layered(U(5, "FRAME", 1500))>>,
                    <<U(6, "FRAME", 1150), U(7, "FRAME", 300)>>,
                    <<U(8, "FRAME", 400)>>,
                    <<U(9, "FRAME", 1150), U(10, "FRAME", 1150), U(11, "TILE", 300)>> >>]
Codecs == {"VP8", "VP9", "Opus", "H264", "H265", "AV1"}
AllEnvs ==
    {Plain(c) : c \in Codecs} \cup {Probing(c) : c \in Codecs}
    \cup {[Plain("AV1") EXCEPT !.frames = "HardAV1"]}
    \cup {Lossy("VP8"), Late("VP8"), Lossy("Opus"), LateLedIn, Reusing, Filling,
          Reporting(1), Reporting(3)}
=============================================================================
