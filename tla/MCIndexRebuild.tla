---------------------------- MODULE MCIndexRebuild ---------------------------
(* Small instances of the index, its rebuild and its searches.             *)
EXTENDS Search

CONSTANTS s1, s2, r1, r2, tcp, udp

MCStreams == {s1, s2}
OneRebuilder == {r1}
MCRebuilders == {r1, r2}
MCProtos == {tcp, udp}

MCHeader == [s \in MCStreams |->
    IF s = s1 THEN [srcip |-> 1, srcport |-> 2, dstport |-> 1, proto |-> tcp]
              ELSE [srcip |-> 2, srcport |-> 3, dstport |-> 2, proto |-> udp]]

MCKeyword == [nowhere |-> {}, once |-> {s1}, everywhere |-> {s1, s2}]

(* Packets that differ in everything the index looks at. *)
MCOffered == {NewDatagram(s1, 1, <<"a">>), NewDatagram(s2, 2, <<"a">>)}

=============================================================================
