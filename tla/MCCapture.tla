------------------------------ MODULE MCCapture ------------------------------
(* Small instances of the capture service.                                 *)
EXTENDS Capture

CONSTANTS s1, main, web, demo

MCStreams == {s1}
Main == {main}
Web  == {web}
Both == {demo, web}
None == {}

Always == {TRUE}
Either == BOOLEAN

(* The two halves of one datagram and the first half of the next one, which*)
(* has the payload of a datagram that is sent whole.                       *)
Fragments ==
    {NewFragment(s1, 4, 0, 2, <<"c">>), NewFragment(s1, 4, 1, 2, <<"d">>),
     NewFragment(s1, 5, 0, 2, <<"a">>)}

Traffic == Fragments \cup {NewDatagram(s1, 1, <<"a">>), NewDatagram(s1, 2, <<"a">>),
                           NewDatagram(s1, 6, <<"b">>), NewDatagram(s1, 3, << >>)}

(* What two sessions can trip over: one key twice, and the halves of one   *)
(* datagram taken by different sessions.                                   *)
SharedTraffic ==
    {NewDatagram(s1, 1, <<"a">>), NewDatagram(s1, 2, <<"a">>),
     NewFragment(s1, 4, 0, 2, <<"c">>), NewFragment(s1, 4, 1, 2, <<"d">>)}

(* A datagram without payload, besides, and a later datagram in a single   *)
(* fragment: it replaces the window of an incomplete one, whose partial    *)
(* result then waits in `pending' for whichever session drains first.  Its *)
(* ID is taken when the other session flushed the other half before.       *)
PairTraffic ==
    SharedTraffic \cup {NewDatagram(s1, 3, << >>), NewFragment(s1, 5, 0, 1, <<"e">>)}

=============================================================================
