------------------------ MODULE MCDataChannelStream -------------------------
\* Ten messages of one to three fragments over eight SSNs: the SSN wraps after
\* the second message, and the last two reuse the SSNs of the first two.  At
\* most four are outstanding, half of the SSN circle.
EXTENDS DataChannelStream

MixedFragments == <<1, 2, 1, 3, 1, 2, 1, 1, 2, 1>>
=============================================================================
