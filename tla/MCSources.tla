------------------------------ MODULE MCSources ------------------------------
(* Two capture files read by Process and by two Runs, one after the other. *)
EXTENDS FileSource

CONSTANTS s1, main, web

MCStreams == {s1}
Main == {main}
Web  == {web}

Entry(frag, seq, off, total, bad) ==
    [skip |-> FALSE, frag |-> frag, stream |-> s1, seq |-> seq, off |-> off,
     total |-> total, hex |-> <<"a">>, bad |-> bad]

Comment == [skip |-> TRUE]

(* A datagram whose offset does not parse is taken; a file may be empty,   *)
(* and begin or end with a comment.  In the second list a fragment without *)
(* an offset ends the session between two packets.                         *)
MCFileLists ==
    { << << Entry(FALSE, 1, 0, 0, {"off"}), Comment >>,
         << >>,
         << Comment, Entry(TRUE, 2, 1, 2, {}) >> >>,
      << << Entry(TRUE, 2, 0, 2, {}), Entry(TRUE, 2, 1, 2, {"off"}) >>,
         << Entry(FALSE, 3, 0, 0, {}) >> >> }

=============================================================================
