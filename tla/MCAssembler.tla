----------------------------- MODULE MCAssembler -----------------------------
(* Small instance of the reassembler: three streams share two windows.     *)
EXTENDS AssemblerHistory

CONSTANTS s1, s2, s3

MCStreams == {s1, s2, s3}

Halves(streams, seqs) ==
    {NewFragment(s, n, off, 2, <<"x">>) : s \in streams, n \in seqs, off \in {0, 1}}

(* A datagram of two fragments on each stream, and the next one of the     *)
(* first stream; datagrams of one fragment, which leave a stale element in *)
(* the list at once; fragments that declare another total, no total, an    *)
(* offset beyond the total, no payload; and a whole datagram.              *)
MCArrivals ==
    Halves(MCStreams, {1}) \cup Halves({s1}, {2}) \cup
    {NewFragment(s1, 3, 0, 1, <<"x">>), NewFragment(s2, 2, 0, 1, <<"x">>),
     NewFragment(s1, 1, 2, 3, <<"x">>), NewFragment(s2, 1, 0, 0, <<"x">>),
     NewFragment(s2, 2, 3, 2, <<"x">>), NewFragment(s3, 1, 1, 2, << >>),
     NewDatagram(s1, 1, <<"x">>)}

=============================================================================
