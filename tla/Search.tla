------------------------------- MODULE Search -------------------------------
(***************************************************************************)
(* What the index and the filter answer.  The three maps of the index      *)
(* (internal/index/index.go), which module IndexRebuild takes together as  *)
(* the set `indexed', are kept here as the lists they are, through the     *)
(* same rebuilds; Search combines them.  The filter (internal/filter)      *)
(* evaluates its rules on the stored packets instead.                      *)
(*                                                                         *)
(* The fields of a stream key are a record for each stream, and a text is  *)
(* known by the streams in whose key it occurs.                            *)
(***************************************************************************)
EXTENDS IndexRebuild, SequencesExt

CONSTANTS
    Header,         \* stream -> [srcip, srcport, dstport, proto]
    Protos,         \* protocol names
    MaxPort,        \* the largest uint16
    Keyword         \* text -> the streams whose key it is a part of

Ports == 1 .. MaxPort

(* A condition of a query that is not given: nil, or the empty string, which *)
(* no protocol is called. *)
Unset == "unset"

(* What StreamKey.Validate lets pass. *)
ASSUME HeaderAssumption ==
    /\ MaxPort \in Nat
    /\ Unset \notin Protos
    /\ \A s \in Streams : /\ {Header[s].srcport, Header[s].dstport} \subseteq Ports
                          /\ Header[s].proto \in Protos
    /\ \A text \in DOMAIN Keyword : Keyword[text] \subseteq Streams

VARIABLE maps       \* Index.byStream, byProto and byPort

searchVars == <<allVars, maps>>

EmptyMaps ==
    [stream |-> [s \in Streams |-> << >>],
     proto  |-> [p \in Protos |-> << >>],
     port   |-> [p \in Ports |-> << >>]]

-----------------------------------------------------------------------------
(* The maps through a rebuild *)

Extend(ids, id) == IF id \in Range(ids) THEN ids ELSE Append(ids, id)

AddLocked(m, pkt) ==
    [stream |-> [m.stream EXCEPT ![pkt.stream] = Extend(@, pkt.id)],
     proto  |-> [m.proto EXCEPT ![Header[pkt.stream].proto] = Extend(@, pkt.id)],
     port   |-> [m.port EXCEPT ![Header[pkt.stream].dstport] = Extend(@, pkt.id)]]

ContainsIDLocked(m, id) == \E s \in Streams : id \in Range(m.stream[s])

(* One round of the loop over the snapshot: an ID the lookup does not find *)
(* is passed over.                                                         *)
AddFound(m, id) == IF id \in DOMAIN byID THEN AddLocked(m, byID[id]) ELSE m

BuildMaps(g) == FoldLeft(AddFound, EmptyMaps, snap[g].ids)

(* The loop over the delta, whose packets are in the order of the store.   *)
AddMissing(g, m, pkt) ==
    IF pkt.id \in delta[g] /\ ~ ContainsIDLocked(m, pkt.id)
    THEN AddLocked(m, pkt) ELSE m

MergeMaps(g) == FoldLeft(LAMBDA m, pkt : AddMissing(g, m, pkt), maps, packets)

SearchInit == RebuildInit /\ maps = EmptyMaps

SearchGoOn(g) ==
    \/ Build(g) /\ maps' = BuildMaps(g)
    \/ Merge(g) /\ maps' = MergeMaps(g)
    \/ (ReadDelta(g) \/ Return(g)) /\ UNCHANGED maps

SearchRebuildStep(g) ==
    \/ TakeSnapshot(g) /\ UNCHANGED maps
    \/ SearchGoOn(g)

SearchNext ==
    \/ Arrive /\ UNCHANGED maps
    \/ \E g \in Rebuilders : SearchRebuildStep(g)

SearchSpec ==
    /\ SearchInit /\ [][SearchNext]_searchVars
    /\ \A g \in Rebuilders : WF_searchVars(SearchGoOn(g))

-----------------------------------------------------------------------------
(* Queries, each under Index.mu.RLock *)

(* The source address of a query is not looked at. *)
Query == [stream : Streams \cup {Unset}, proto : Protos \cup {Unset},
          port : Ports \cup {0}, text : DOMAIN Keyword \cup {Unset}]

TextMatches(text) == UNION {Range(maps.stream[s]) : s \in Keyword[text]}

(* The lists of IDs that Search applies, one per condition there is.       *)
Conditions(q) ==
    (IF q.stream = Unset THEN << >> ELSE << Range(maps.stream[q.stream]) >>)
    \o (IF q.proto = Unset THEN << >> ELSE << Range(maps.proto[q.proto]) >>)
    \o (IF q.port = 0 THEN << >> ELSE << Range(maps.port[q.port]) >>)
    \o (IF q.text = Unset THEN << >> ELSE << TextMatches(q.text) >>)

(* Mutant: no candidates are taken for no condition so far. *)
IsFirstWhenEmpty(acc) == acc.candidates = {}

IsFirstCondition(acc) == acc.first

Narrow(acc, ids) ==
    [first      |-> FALSE,
     candidates |-> IF IsFirstCondition(acc) THEN ids ELSE acc.candidates \cap ids]

(* Without a condition the answer is empty: candidates then still are.     *)
SearchIDs(q) ==
    FoldLeft(Narrow, [first |-> TRUE, candidates |-> {}], Conditions(q)).candidates

(* The packets, which SearchPackets sorts by time. *)
Resolve(ids) == {byID[id] : id \in ids \cap DOMAIN byID}

SearchPackets(q) == Resolve(SearchIDs(q))

PacketsAt(v) == IF v \in DOMAIN history THEN history[v] ELSE {}

-----------------------------------------------------------------------------
(* The filter *)

PortFields == {"srcport", "dstport"}
ValueFields == {"proto", "srcip"}

(* Rule.Validate: fields and operators that go together. *)
ValidRule(rule) ==
    \/ rule.field \in PortFields /\ rule.op = "in"
    \/ rule.field \in ValueFields /\ rule.op = "eq"

(* A rule text is a field, an operator and the arguments after them; a     *)
(* number that parsePort refuses is 0.                                     *)
Malformed == [field |-> "none", op |-> "none", lo |-> 0, hi |-> 0, value |-> Unset]

ParseRange(text) ==
    IF Len(text.args) = 2 /\ 0 \notin Range(text.args) /\ text.args[1] <= text.args[2]
    THEN [field |-> text.field, op |-> "in", lo |-> text.args[1], hi |-> text.args[2],
          value |-> Unset]
    ELSE Malformed

(* Arguments after the first one of an equality are ignored. *)
ParseEqual(text) ==
    [field |-> text.field, op |-> "eq", lo |-> 0, hi |-> 0, value |-> text.args[1]]

ParseRule(text) ==
    LET rule == CASE text.args = << >>  -> Malformed
                  [] text.args # << >> /\ text.op = "in" -> ParseRange(text)
                  [] text.args # << >> /\ text.op = "eq" -> ParseEqual(text)
                  [] OTHER -> Malformed
    IN IF ValidRule(rule) THEN rule ELSE Malformed

PortOf(rule, pkt) ==
    IF rule.field = "dstport" THEN Header[pkt.stream].dstport ELSE Header[pkt.stream].srcport

(* Mutant: the upper bound is outside. *)
InRangeOpen(rule, port) == rule.lo <= port /\ port < rule.hi

InRange(rule, port) == rule.lo <= port /\ port <= rule.hi

MatchRule(rule, pkt) ==
    CASE rule.field \in PortFields -> InRange(rule, PortOf(rule, pkt))
      [] rule.field = "proto"      -> Header[pkt.stream].proto = rule.value
      [] rule.field = "srcip"      -> Header[pkt.stream].srcip = rule.value
      [] OTHER                     -> FALSE

Match(rules, pkt) == \A i \in DOMAIN rules : MatchRule(rules[i], pkt)

(* The packets of a list that pass, in its order. *)
Apply(rules, pkts) ==
    FoldLeft(LAMBDA out, pkt : IF Match(rules, pkt) THEN Append(out, pkt) ELSE out,
             << >>, pkts)

-----------------------------------------------------------------------------
Satisfies(q, pkt) ==
    /\ q.stream \in {Unset, pkt.stream}
    /\ q.proto \in {Unset, Header[pkt.stream].proto}
    /\ q.port \in {0, Header[pkt.stream].dstport}
    /\ q.text # Unset => pkt.stream \in Keyword[q.text]

(* At every moment, between the reset and the merge of a rebuild and with  *)
(* other rebuilds in between too, a search finds the indexed packets that  *)
(* satisfy all conditions, and no others: the three maps never disagree    *)
(* about what is indexed, and no ID stands twice in a list.                *)
SearchIsExact ==
    /\ \A q \in Query :
          SearchIDs(q) = IF Conditions(q) = << >> THEN {}
                         ELSE {id \in indexed : Satisfies(q, byID[id])}
    /\ \A s \in Streams : IsInjective(maps.stream[s])
    /\ \A p \in Protos  : IsInjective(maps.proto[p])
    /\ \A p \in Ports   : IsInjective(maps.port[p])

PortRange(lo, hi) == ParseRule([field |-> "dstport", op |-> "in", args |-> <<lo, hi>>])

(* Once all rebuilds have returned and nothing was stored since the last   *)
(* reset, index and filter agree: a range of ports and a protocol pass the *)
(* filter exactly for the packets that the searches for the single ports   *)
(* and for the protocol find.                                              *)
SearchMatchesFilter ==
    (\A g \in Rebuilders : at[g] = "idle") /\ resetAt = Len(packets)
    => \A lo, hi \in Ports, p \in Protos :
          lo <= hi =>
          Range(Apply(<< PortRange(lo, hi),
                         ParseRule([field |-> "proto", op |-> "eq", args |-> <<p>>]) >>,
                      packets))
          = UNION {SearchPackets([stream |-> Unset, proto |-> p, port |-> port, text |-> Unset])
                     : port \in lo .. hi}

=============================================================================
