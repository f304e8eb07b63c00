------------------------------- MODULE MCStore -------------------------------
(* Small instance of Store: the packets callers may offer to Put.          *)
EXTENDS Store

CONSTANTS s1, s2

MCStreams == {s1, s2}

MCOffered ==
         \* stored under four IDs on two streams
    {NewDatagram(s1, 1, <<"a">>), NewDatagram(s1, 2, <<"b">>),
     NewDatagram(s2, 1, <<"a">>), Whole("reassembled", s1, 1, <<"a", "b">>)}
    \cup \* two partial rests of one window: one ID, two payloads
    {Whole("partial", s2, 1, <<"a">>), Whole("partial", s2, 1, <<"b">>)}
    \cup \* refused as invalid, except the fragment 1/2
    {NewDatagram(s2, 2, << >>), NewFragment(s1, 3, 1, 0, <<"a">>),
     NewFragment(s1, 3, 2, 2, <<"a">>), NewFragment(s1, 3, 1, 2, <<"a">>)}

=============================================================================
