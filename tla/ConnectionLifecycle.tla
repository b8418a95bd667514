------------------------ MODULE ConnectionLifecycle -------------------------
(***************************************************************************)
(* What a PeerConnection promises the application about its state, the     *)
(* ConnectionState of src/include/srtc/peer_connection.h: connecting comes *)
(* first, connected and connecting may alternate, and Failed and Closed    *)
(* are final.  The state meant here is the one the listener was last told. *)
(***************************************************************************)

ConnectionStates == {"Inactive", "Connecting", "Connected", "Failed", "Closed"}
Terminal == {"Failed", "Closed"}

VARIABLE state

Init == state = "Inactive"

Start      == state = "Inactive" /\ state' = "Connecting"
Connect    == state = "Connecting" /\ state' = "Connected"
Disconnect == state = "Connected" /\ state' = "Connecting"
End        == state \in {"Connecting", "Connected"} /\ state' \in Terminal

Next == Start \/ Connect \/ Disconnect \/ End

\* An attempt to connect, or to connect again, does not last for ever.
Spec == Init /\ [][Next]_state /\ WF_state(Connect \/ (state = "Connecting" /\ End))

=============================================================================
