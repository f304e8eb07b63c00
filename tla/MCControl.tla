------------------------------ MODULE MCControl ------------------------------
(* Starts and stops of the web server beside the demo, over either source. *)
EXTENDS CaptureControl

CONSTANTS s1, demo, web1, web2

MCStreams == {s1}
MCWebs == {web1, web2}
MCRunners == {demo, web1, web2}
None == {}
Always == {TRUE}
APayload == <<"a">>

(* The packets of the file of the demo have one key. *)
FileTraffic == {NewDatagram(s1, 1, <<"a">>), NewDatagram(s1, 2, <<"a">>)}

=============================================================================
