--------------------------- MODULE MCSctpSession ----------------------------
\* Two sessions and one data channel, opened by A.  TSNs are counted modulo 16
\* and A's first one lies two before the wraparound; the window is two fragments.
EXTENDS SctpSession

OneChannelAtA == A :> <<"chat">> @@ B :> <<>>
TsnAtWrap == A :> 14 @@ B :> 5

OneFromA == A :> 1 @@ B :> 0
ThreeFromA == A :> 3 @@ B :> 0
=============================================================================
