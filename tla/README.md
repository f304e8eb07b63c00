# Verification of PacketReplay

PacketReplay captures packets from files or from a demo source, removes
duplicates, reassembles fragments, keeps the packets in memory, indexes them for
search, and replays them in time order with a cursor from which a later run can
resume. This directory holds TLA+ modules translated from its Go source, TLC
configurations that check them on small instances, and proofs that TLAPS checks
for every value of the constants.

Check a run with `tlc -config MCStore.cfg MCStore`, a proof module with
`tlapm StoreProofs.tla`. `PROJECT.json` lists runs, theorems, the source lines
each definition stands for, and for each property a change to the model that
makes its run fail.

Paths below are relative to `src/internal/` unless they begin with `src/`.

## 1. The system

| component | state | operations | used by |
|---|---|---|---|
| packet model (`model/`) | none | constructors, `Validate`, `PacketKey` | all |
| packet store (`store/`) | packets, lookup by ID, IDs by stream, chunk sizes, generation | `Put`; `Get`, `GetStream`, `ListStreams`, `Snapshot`, `Since`, `Ordered`, `Segments` read | capture, reassembler, index, replay, web |
| deduplicator (`dedup/`) | key -> time it was recorded | `Seen`, `Record`, `Release`, `PurgeExpired` | capture; `Store.Put` calls `Release`; the purge ticker of `main` |
| fragment reassembler (`reassemble/`) | stream -> live window, eviction list, pending partial results, counters | `Feed`, `Drain`, `FlushExpired` behind `Handle` and `Flush` | capture |
| capture service (`capture/service.go`) | `running` flag, counters, per session: the packet in work | `Process`, `Run`, `ProcessOne`, `Stop` | `main`, web |
| capture sources (`capture/*_source.go`) | open file, position; number emitted | `Open`, `Next`, `Close` | capture |
| search index (`index/`) | IDs by stream, protocol, port; version; version -> IDs | `Rebuild`; `Search`, `PacketsAt` read | the demo of `main`, `Resume`, web |
| replay service (`replay/`) | outputs of the last replay, task tracker, counters; cursor file on disk | `RunTask`, `Replay`, `ReplayStream`, `Resume` | web |
| timestamp alignment (`stamp/`) | none | `Compare`, `TagAndSortBatch` | replay |
| filter (`filter/`) | rules | `Apply` | web |
| web server (`web/`) | `captureRun`, `captureCancel` | one handler per page and command | browsers |
| configuration (`config/`) | none after the start | `Load`, `Validate` | `main` |

Each component guards its own state with a mutex; nothing spans two calls. The
program is concurrent in four places, and these are where its hard behaviours
come from:

- **capture sessions**: `Process` of `main`, `Run` of the demo and `Run` of the
  web server are goroutines over one store, one deduplicator, one reassembler
  and one source. `ProcessOne` is a sequence of calls on them (`Seen`, `Record`,
  `Feed`, `Drain`, `Put` ...) between which another session may do anything.
  The source has no lock at all: one session opens, rotates and closes files
  another one is reading. Start and stop requests of the web server come at any
  moment and keep a flag of their own beside that of the service.
- **the purge ticker** removes keys of the deduplicator beside all sessions.
- **rebuilds of the index**: every `Resume` and the demo call `Rebuild`, which
  takes the locks of the store and of the index in turn while packets arrive.
- **replay requests**: each HTTP request is a goroutine in the one replay
  service; the list of outputs has no lock, and the cursor file is written by
  truncating, writing and renaming a temporary file. The process may end in the
  middle of it, and the next one starts from the file.

The reassembler is sequential but intricate: a bounded number of windows, an
eviction list whose elements outlive their windows, replacement, expiry and a
flush compete for the same fragments.

What makes each component correct, in a sentence: the *store* is an append-only
log of distinct IDs whose secondary structures agree with it; the *reassembler*
puts out every fragment it holds exactly once, in whole and unmixed datagrams or
in partial results, within its limit; the *deduplicator* holds a key for a
reason only; the *capture service* counts each packet once, runs at most one
`Run`, leaves nothing in the reassembler and ends; a *source* that one session
uses alone hands out every packet of its files in order and leaves no file open;
the *web server* never loses the cancel of a run that goes on; the *index* is
complete once rebuilds have returned and never ahead of its version, a *search*
is exact for what is indexed and agrees with the *filter*; the *replay* puts
packets out in time order, completely, and a cursor never hides a packet that
was not put out.

The hazards of the code, each at its line, are listed in `PROJECT.json` under
`hazards`, with the properties that are about them or the reason why there is
none.

## 2. The modules

```
Packets --- Store ---------- Schedule --- Replay          (MCReplay)
   |  |       |  \                          |
   |  |       |   IndexRebuild           CursorFile
   |  |       |        |
   |  |       |        Search (MCIndexRebuild)
   |  |     Capture (MCCapture)
   |  |       |  \  \
   |  |       |  |   CaptureControl (MCControl)
   |  |       |  Dedup
   +----- Assembler --- AssemblerHistory (MCAssembler)
      |
      FileSource (MCSources)

PacketLog : what Store implements (MCStore)
StoreProofs, AssemblerProofs, HistoryProofs, CaptureProofs, IndexProofs,
SourceProofs, ReplayProofs : the proofs, on the lemmas of SequenceLemmas
```

| module | models | how |
|---|---|---|
| `Packets` | `model/packet.go` | A packet is a record. A stream is an abstract value, a payload a sequence of bodies, an ID the record its text is formatted from. `PacketKey` keeps stream and payload and drops the sequence number, as the code does. |
| `Store` | `store/store.go`, `snapshot.go`, `segment.go` | The variables are the fields of `Store`. `StorePut` is `Put`: refused as invalid, refused as known, or inserted. The read operations are operators. |
| `PacketLog` | the promise of the store | An append-only log in which an ID occurs once. |
| `Assembler` | `reassemble/assembler.go`, `window.go` | `Feed` is one action with the order of the code: find, open or replace the window, evict, add, complete. The eviction goes through the list element by element (`Overflow`, `Evicted`), so elements without a window and the eviction of the window just opened happen as in the code. The end of a window is `(total - 1) % Modulus`, the uint32 of the code. |
| `AssemblerHistory` | nothing more | Adds the packets fed and the outputs as history (`ArrivalsAreCaptured` names what the sources hand out): each payload carries the number of its packet, so that an output tells where each piece came from. |
| `Dedup` | `dedup/dedup.go` | The map of keys, the clock, and a purge. |
| `Capture` | `capture/service.go`, `reassemble/reassemble.go` | Composes the three above. A session has a program counter; each call on a shared component is one step, since that call holds its lock and nothing holds one longer. `Store.Put` with the `Release` it calls under its lock is one step. |
| `FileSource` | `capture/file_source.go`, `source.go` | The fields of `FileSource` and, for each session, the step it is in: from the return of one call (of the opener, the scanner or the file) to the next call. What a step loaded before a call another session may have changed after it. Two calls of `Scan` on one scanner are a race: one of two advances may be lost, and the end, an error or a panic may come of it. Where the code compares a field with nil and loads it again for the call (lines 74-77, 100-101, 113-116), a session that clears it in between makes the call panic (`Vanishes`). Open handles and who opened them are a set. |
| `CaptureControl` | `capture/live_source.go`, start and stop in `web/handlers.go`, the demo of `src/main.go` | Composes the sessions of `Capture` with the web server: a start spawns a goroutine, which calls `Run` and then resets `captureRun`; a stop reads the cancel in one step and calls it in another. The source is a file source or `LiveSource`. |
| `IndexRebuild` | `index/rebuild.go` | Composes the store with any number of rebuilders: snapshot, reset and build, delta, merge with the count of packets, return. |
| `Search` | `index/index.go`, `index/search.go`, `filter/` | Adds the three maps to the rebuilds, as the lists they are, with the loops that fill them as folds over the rounds `AddFound` and `AddMissing`, and the queries on them as operators; the rules of the filter likewise. |
| `Schedule` | `replay/chunk.go`, `stamp/`, `Store.Ordered` | Chunks and orders as pure operators. `sort.Slice` is an insertion sort up to twelve elements and thus stable (`Sorted`: a fold of `Placed`, one round of it); for longer lists `Orders` is every order the comparison allows. |
| `CursorFile` | `replay/cursor.go` and the files it uses | Truncate, write, rename as three steps of any number of savers; an open file stays the same file when it is renamed. |
| `Replay` | `replay/replay.go`, `scheduler.go`, the replay handlers | Composes store, schedule and cursor file. A client is a request at work; it puts out one packet at a time, saves after each chunk (`RunTask`) or at the end (`Resume`). `Crash` empties the memory and keeps the files. |

### Abstractions that matter

- Text (stream keys, IDs, JSON, hex) is a value; IDs built from different
  fields are different. Dedup digests do not collide.
- `Stats` counters of the capture are counted with the step that decides them:
  nothing reads them but the display.
- In `Capture`, a source may hand out any packet of `Arrivals`, end or fail at
  every call. This covers a `FileSource` another session rewound or closed;
  what `FileSource` itself does is the subject of its own module, in which a
  session leaves its loop at any packet, as a refused `Put` or a cancel makes it.
- A line of a capture file is blank, or a record with the set of fields that do
  not parse. A closed file still yields what its scanner has buffered.
- A text query is known by the streams in whose key the text occurs; a port that
  does not parse is 0.
- The data race on `ReplayService.outputs` is the value `Torn`: once two
  requests write to the list, nothing is said about it until one that is alone
  resets it.
- Inside `Replay` the rebuild of the index is one step that sets the version;
  its own interleavings are the subject of `IndexRebuild`.
- After a crash the same traffic reaches the store again, in the same order: the
  cursor is about a capture that is read again.

## 3. What is checked

Twelve runs; the first column is the name of the configuration. Distinct states
are those TLC reports.

| run | question | bounds | result |
|---|---|---|---|
| `MCStore` | Does every order of `Put`s leave the store consistent? | 10 packets on 2 streams: distinct ones, two with one ID, three that are invalid; chunks of 2 | 3,588 states, holds |
| `MCAssembler` | Do fragments leave exactly once, unmixed, within the limit? | 3 streams, limit 2, any 4 packets of 15 in any order with drains and flushes between; uint32 has 4 values | 900,000 states, holds |
| `MCAssemblerVanishes` | assembler.go:16 | as above | violated, see 5 |
| `MCCaptureMain` | Does one `Process` end on every path, with the clock and the purge beside it? | 4 packets out of 7, window 2, time 0..2 | 186,000 states, holds |
| `MCCapturePair` | Keys and the balance of the counters, for a `Process` and a `Run` together, with an assembler or without | 3 packets out of 6; no key expires | 1,820,000 states, holds |
| `MCCaptureRuns` | Do `Run`s exclude each other, does stop reach the one that goes on, and does each end? | the demo and 2 starts, over a file of 1 packet or 3 live packets; no purge | 116,000 states, holds |
| `MCRebuild` | Do overlapping rebuilds leave a complete index, and are searches exact at any moment? | 2 rebuilders, 2 rounds each, 2 packets at any moment | 46,000 states, holds |
| `MCRebuildLoses` | rebuild.go:18 | 1 rebuilder, 1 round | violated, see 5 |
| `MCSources` | Does a session that is alone read everything and close every file, whatever came before it? Do all end? | `Process` once, the web server twice, one of these starts while another is at work; two lists of files | 169,000 states, holds |
| `MCReplay` | Does a replay that overlaps others, fails or crashes skip a packet or break the cursor? | 2 clients, 1 crash, chunks of 2, and either 3 packets, in time order or late with equal timestamps, and 2 requests of any kind, or 2 packets that arrive in the wrong order and 3 requests | 1,147,000 states up to the exchange of the clients, holds |
| `MCReplayTies` | replay.go:128 | 1 client, 2 requests, 2 packets of one instant | violated, see 5 |
| `MCCursorShared` | cursor.go:32 | 2 clients | violated, see 5 |

**Store** (`MCStore`). `IndexesAgree` relates list, lookup and stream lists;
`SinceIsExactDelta` says that a snapshot at any version followed by `Since` of it
is the whole log, which `Rebuild` rests on; `SegmentsTile` that the segments
cover the positions without gap or overlap. `ImplementsLog` is the refinement
of `PacketLog`. Four packets on one stream with chunks of two are enough to
open, fill and cross chunks; a repeated ID and each reason of `Validate` occur.

**Reassembler** (`MCAssembler`). `AggregatesAreOneDatagram`, `ReassembledIsWhole`,
`NoFragmentTwice` and `HeldIsNeverLost` follow single pieces of payload from the
fragment to the output. Three streams over two windows make every eviction happen;
datagrams of one fragment leave stale elements at once, so four packets reach
the states in which the list and the map disagree most. The arrivals include
another total for the same datagram, a total of zero, an offset beyond the end,
an empty payload and an older datagram. `ActiveWindowsBounded` is not obvious:
replacement does not enforce the limit, and the list may be longer than it.

**Capture** (`MCCaptureMain`, `MCCapturePair`, `MCCaptureRuns`).
`EveryPacketCounted` is an exact balance at every moment: received = stored +
deduplicated + failed + in flight. `KeysHeldForAReason` says when a key may
be recorded; it shows that a stored datagram never leaves its key, and that
fragments and failed packets do. `CleanEndHoldsNothing` is about two sessions
that flush each other's windows. `CountedIsStored` is about drained partial
results that are put before the packet: a session may store those of another
one, may find that the other took its own, or may be refused one whose ID is
taken, with the packet it wants to count still behind it. `RunIsExclusive` is the flag,
from the compare-and-swap to the last deferred call. In `MCCapturePair` every
interleaving of two sessions over six packets occurs: equal keys, both halves
of one datagram in different sessions, an invalid packet, and a later datagram in
one fragment that replaces the window of an incomplete one and leaves its
partial result pending, while the other session may have flushed the other half
under the same ID.

**Control** (`MCCaptureRuns`, module `CaptureControl`). `WebRunIsTracked` relates
the goroutines that are alive to `captureRun` and `captureCancel`; the hard case
is a start that finds the demo running: `Run` returns at once, and the flag has
to fall while the demo goes on. A stop that has read the cancel of a run that
ends before it is called, with another start between them, is in the run; it
reaches nobody and harms nobody. `StopIsPrompt` counts the packets received after
the cancel: at most the one whose interval was over at that instant.
`LiveStoresAll` is about the one key all live packets share: it holds because
`Put` gives the key back before the next packet is looked up.

**Sources** (`MCSources`). The first list has an empty file in the middle,
comments at both ends and a datagram with a malformed offset, which is not
looked at; the second ends a session in the middle by a fragment without an
offset. Any call of the opener or the scanner may fail. The two halves of the
question are the sessions that were alone, for which `AloneReadsAll` and
`AloneIsTidy` say what the source promises, and those that met another: for
them nothing holds but `ReadersFinish`, and they serve to leave the shared
fields in every state from which a later session has to start.

**Index** (`MCRebuild`). Two rebuilders with two rounds each overlap at every
point with both arrivals. Rebuilds do take IDs out of the index for a while;
`QuiescentIndexComplete` and `RebuildCatchesUp` say that this heals. For the whole
time `SearchIsExact` compares every query over streams, protocols, ports and
texts with the set of indexed packets that satisfy it, the query without a condition
(empty) and conditions with an empty answer included. `SearchMatchesFilter` takes
the filter, which computes the same on the stored packets, as a second opinion.

**Replay** (`MCReplay`). `SkipsNothing` is the point of the cursor: for packets
that arrive in time order, everything up to the packet the file names was put
out by this process or an earlier one, whatever overlapped, failed or died.
`CursorReadable`, `OutputsInTimeOrder`, `FinishedPutOutAll` and `ResumeContinues`
say what holds for requests that do not overlap, after crashes too where that is
so. `OutputsInTimeOrder` and `FinishedPutOutAll` are about each request beside which
no other one ran (`solo`), whatever happened before: the third request of
the smaller traffic may run alone after two that raced for the outputs or replaced
each other's task. `FinishedPutOutAll` compares with the number of packets that were
stored when the request took its list (`size`), not when it ends. A late packet, with
a timestamp before the cursor, is left out by every `Resume`: that is what the
code does, and `SkipsNothing` and `ResumeContinues` are for traffic in time order.
A chunk of two and three packets give a full chunk, a remainder and a save
between them; `StableLength` 2 makes the list of three packets one that
`sort.Slice` may permute. The clients run the same handlers, so states are
compared up to their exchange (`ClientSymmetry`; the run checks no liveness).

Deadlock is checked except in the runs of `Replay` and `FileSource`, whose
requests and sessions are bounded: the model stops when they are used up, the
server does not.
In the runs of `Capture` and `IndexRebuild`, a stopped system still has enabled
steps (the purge; refused `Put`s).

### Fairness

`CaptureSpec`, `ControlSpec`, `SourceSpec`, `RebuildSpec` and `SearchSpec` assume
weak fairness of each session and of each rebuild that has begun (`GoOn`,
`SearchGoOn`: nobody has to call `Rebuild`); `ControlSpec` also of the end
of a goroutine of the web server, which only takes `captureMu`. Each of them is a
goroutine of its own; no step of either waits for
another goroutine (each mutex is held for one step), so a scheduler that runs
every runnable goroutine gives weak fairness. `SessionsEnd` also rests on the
source being finite, as files are and as the limit of `LiveSource` makes it; the
bound `MaxFed` is its length. `StartedEnds` needs no stop: the sources are finite.
`ReadersFinish` is not obvious, since one session may rewind the files under
another; it holds because each `Open` rewinds once. Cancels, starts and stops, the
purge, arrivals and requests have no fairness.

### Bounds

`MaxFed` (packets fed), `MaxTime` (the clock), `MaxRounds` (calls of each
rebuilder), `MaxWork` (the packets of the traffic and the requests
together, so that less traffic leaves room for more requests), `MaxCrashes`, and `MaxRuns` and `MaxMeetings` (sessions of
one source, and those that start while another is at work) are the only bounds,
and each is a guard of one action. `LiveLimit` is the limit of `LiveSource` (1000 in
`main`); three packets are the first, which does not wait, one in the middle and
the last. The starts of the web server are as many as `Webs` has names: two, so
that one comes after the other has ended or was turned away. The store is bounded by the finite set of
packets offered: an ID is stored once. The theorems hold without any of them
(the constants are arbitrary).

## 4. What is proved

All theorems are for every value of the constants under the named assumptions:
`PacketsAssumption` (there is a stream; a uint32 has a value), the chunk size and
the limit are positive, as `config.Validate` demands, the live source has a payload,
as `main` gives it one (main.go:70), arrivals and offered
packets are packets, `ArrivalsAreCaptured` (what is fed to the reassembler has
the ID of a datagram or of a fragment, the two kinds the capture sources make;
`reassembled` and `partial` are the kinds of its own outputs), and `ReplayAssumption` (a traffic is a sequence of offered
packets with distinct IDs, the cursors are those of its packets, and what a race
leaves in `outputs` is told apart from a list). The bounds on requests, crashes,
time and rounds are arbitrary numbers. One theorem has a hypothesis of its own:
`CaptureTypeCorrect` asks for finitely many sessions, because it bounds a
counter by a count of sessions.

**`StoreProofs`**: the type invariant, `IndexesAgree`, `ChunksFillUp`,
`SinceIsExactDelta`, `SegmentsTile` and the refinement of `PacketLog`. The inductive invariant
`StoreInv` is the conjunction of types, agreement, generation = number of packets,
and the fill of the chunks. `Put` looks at `byID` and at the last chunk only, so
that a new ID occurs nowhere in the list needs the agreement, and that the
generation bounds `Since` needs the count. That the segments tile the log rests on
the sums of the chunk sizes (`ChunkStart`), whose equations are proved for the
recursive function first.

**`AssemblerProofs`**: the types, every live window has an element in the list
(`NoWindowOrphaned`), and the limit holds (`WindowLimitHolds`). The limit is
not inductive: opening a window bounds the list, and the list bounds the windows
because it covers them (`CoveredIsSmall`). Most of the proof shows that
`Feed` keeps the cover through eviction: the part of the list that is left holds
every stream whose window is left (`KeptInOrder`). Two further facts: a live window
is never complete, so the branches for `StateComplete` in eviction and flush
are dead (`LiveWindowsStayIncomplete`), and the window of a stream never goes back
to an older datagram (`WindowsMoveOn`).

**`HistoryProofs`**: the four properties of `AssemblerHistory`, for any packets, limit
and modulus, over the inductive invariant `HistoryInv`, which adds to the windows
of `AssemblerProofs`

- `WindowsInv`: a window is made of fragments that were fed for its datagram, each
  with the offset it is kept under, and one of them declared the end;
- `OutputsInv`: an output holds fragments of one datagram in the order of
  their offsets, and one that is put out as reassembled holds a payload for
  every offset up to the end of its window, except where the fragment was empty; a
  total of 0 makes that end the largest uint32 (`Modulus - 1`). This follows from `WindowsInv` when a window completes, is replaced, evicted or flushed,
  since the payload is the concatenation of its fragments by offset
  (`FlattenPicks`);
- `PlacesInv`: each number is in one window, one pending result or one output, and
  in one only. `NoFragmentTwice` is a count, and `HeldIsNeverLost` compares two
  counts: what a step takes from the windows it hands to the results. A live
  window is never complete, so that eviction and flush have a partial result for
  all they remove; the one window whose pieces may vanish is the one `Feed` has
  just opened, which holds nothing but the packet that is fed.

**`CaptureProofs`**: the five invariants of `Capture` for any number of
sessions, the action property `CountedIsStored`, and the three invariants of
`CaptureControl`. Every step of either specification is the step of one session
or passes the sessions by (`CaptureSteps`, `ControlSteps`), so that each invariant
is carried over once for both. The invariants that make it go through:

- exclusion: `running` is set exactly while one session is between the swap and
  the deferred reset, and it is the only one;
- counting: received = stored + deduplicated + failed + the number of sessions
  that hold a packet. A step of a session moves one unit between two terms, and
  the count of sessions is the cardinality of a set that gains or loses this one;
- keys: a recorded key belongs to a packet on its way, to a failed one or to a
  fragment. That a session on its way keeps its packet, and that a `Put`
  releases the key of what it stores, is what the purge and a second `Record` by
  another session leave alone;
- held: as long as the reassembler or its pending results hold something, a
  session is still to flush, or one has ended with an error or a cancel. The
  window list counts here, so the proof uses the cover of `AssemblerProofs`;
- stored: what a session is about to count as stored is in the store with its
  fields, by the agreement of `StoreProofs`;
- control: `captureRun` is set exactly while the goroutine of one start lives; a
  live source, once cancelled, hands out one packet at most, since the select in
  front of the next one sees the cancel;
- live source: `LiveStoresAll` rests on `LiveInv`, checked by TLC on
  `MCCaptureRuns` before it was proved. While one session exists, the store holds
  exactly the packets made so far, in order, and `OnCourse` says how far this one
  is: between two packets no key is recorded and all that was made is counted as
  stored; with a packet in its hands the only key there can be is that packet's.
  So the lookup finds nothing, although all packets have that key, and `Put`,
  which has seen no packet with this number, takes it and releases the key.

**`IndexProofs`**: types; for any number of rebuilders and rounds, history stays
within its version, the version never decreases, and the index is complete up to
the last reset once all rebuilders are idle. The key is `ResetIsCovered`: either
everything stored at the last reset is indexed, or some rebuilder is still on
its way to merge it, holding a delta that covers what its own snapshot missed
(`StillToMerge`). A reset by one rebuilder makes itself that witness, and a
merge by another never removes anything, so the witness survives. The proof
reuses `StoreInv`.

For `Search` the invariant adds one sentence: the three maps index exactly the
IDs in `indexed`, each once in the list of its stream, its protocol and its port
(`Indexes`). The maps are rebuilt in one action by a loop, so the step of the
proof is an induction over the rounds of the loop: after k of them the maps
index the IDs of the first k packets, and what they held before
(`FoldInduction` of `SequenceLemmas`; each round adds by `AddLocked`). That the
snapshot's IDs are all found, and that a packet of the delta is missing from the
maps when `containsIDLocked` says so, come from `StoreInv` and the invariant
before the step. `SearchIsExact` is then a fact about the fold over at most four
conditions: it keeps what all of them have in common. `SearchMatchesFilter` adds
that the ranges and values of the rules are parsed as they were written, and
that nothing outside `indexed` is stored. The proofs assume what
`StreamKey.Validate` and `ProtoName` ensure: ports in range and a protocol
that has a name (`HeaderAssumption`).

**`SourceProofs`**: the source under sessions that share it without a lock. Types
hold whatever they do to each other. What a session reads is settled for those
that are alone, from their start to their end; that covers every session that
follows another one, cut short or not, and the two that only the running flag
keeps apart. Positions are sequences: `Upto(files, f, l)` is what stands before
line l + 1 of file f, and `UptoSteps` says how it grows by a line and over the
border of two files (`FlattenOneMore`, `FlattenGrows`: inductions over the parts).
The inductive invariant `SourceInv` then says, for each place in the code, what a
session that is alone was given so far (`Working`): up to the scanner's position in
the loop, up to the line before it while a token is looked at, the files up to the
index in a rotation; and that every handle it has open is `current`, so that the
close that follows leaves none. A step of one session leaves the others that are
alone at rest (`Frame`), since nobody who starts beside another is alone. The
proofs assume of the constants that a list of files is not empty (main makes a
file source only then) and that there are finitely many goroutines.

**`ReplayProofs`** comes in five parts, of which the first stands for itself: the
types of *the cursor file*, for any number of savers. That the file can be read as
long as requests come one at a time is `ReplayCursorReadable`, a theorem of the
whole service; the run `MCCursorShared` shows that the condition is needed. The
others lead to the properties of `Replay`:

1. *What the operators compute.* An insertion sort keeps the packets of its list
   and puts them in time order, and leaves a list in strict order alone; the
   chunks cut a list into consecutive parts of which none is lost (`CutsList`); what
   `Ordered` returns has the packets of the store, in time order, and is the
   arrival order when that is strict. These are inductions over the length of the
   list, done with `NatInductionSet`: a set of numbers that holds 0, and n + 1
   with n, is all of them. A fold is a recursive function here, whose existence is
   part of the proof (`SortExists`).
2. *The inductive invariant* `ReplayInv`. `StoredInv`: the store holds a prefix of
   the traffic. `FilesInv`, `FilesSeen`: the files hold cursors of the traffic, and
   everything up to the packet they name was put out. `ClientsInv`: what a request
   has left is cut into chunks whose borders account for what it has put out, and
   what lies before its next packet was put out. `AloneInv`: as long as no two
   requests met, one at most is under way, the temporary file is its own and the
   outputs are whole. `TimeInv`: what was put out comes before what is left. A
   cursor is safe because the request that saves it has put out what lies
   before, and the file because it only ever takes such a cursor: the two need
   each other, since a resumed request begins where the file says.
3. *The invariants of `Replay`*: types, `SkipsNothing` with requests that overlap,
   fail and crash, `CursorReadable`, `OutputsInTimeOrder`. The last is about
   the client in `solo`, for which `AloneInv` holds after any overlap as well: it is
   the only one at work, and its own reset has made the outputs whole again.
4. *Two action properties*, each with an invariant on top of `ReplayInv`. For
   `FinishedPutOutAll`, `Covers`: what was put out and what is left are the `size`
   packets that were stored at the beginning, and the border of the chunks is the
   number put out; with nothing left, the outputs are all of them, each once. For
   `ResumeContinues`, `CourseAt`: there is a position the cursor names; what was put
   out on the way to it lies before, what a resumed request has left lies behind,
   and a request reaches no further than its own last packet, so that a rename
   moves the position and never leaves a sent packet behind it.

Only model-checked: the liveness properties (`SessionsEnd`, `StartedEnds`,
`ReadersFinish`, `RebuildCatchesUp`), which are beyond what TLAPS proves.

## 5. Where code and comments disagree

Four runs check a sentence of the repository and find it violated:

- `AcceptedNeverVanishes` (assembler.go:16 against line 60). A stale element of
  the packet's own stream at the front of the list makes
  `enforceLimitLocked` expire the window `Feed` has just opened. The fragment is
  added to a window nobody can reach: it is neither assembled nor put out as a
  partial result. `HeldIsNeverLost` shows that nothing else is lost.
- `NothingWrittenIsLost` (rebuild.go:18 against line 50). The version is the
  count of packets read after the delta; a packet stored between is counted and
  not indexed until the next rebuild.
- `ResumeOnlyNew` (replay.go:128 against line 139). `RunTask` saves the cursor
  in the order of timestamp and sequence number, `Resume` looks it up in an
  order by timestamp alone. Of packets of one instant, one that was put out is
  put out again (`MCReplayTies`). `ResumeContinues` shows that
  without equal timestamps nothing is.
- `SaveIsAtomic` (cursor.go:32 against line 41). All savers share one temporary
  file.

Other disagreements met while modelling, without a run of their own:

- assembler.go:93 says windows are evicted when the live ones exceed the limit;
  line 95 counts list elements, so that completed datagrams fill the list and a
  lone live window may be evicted.
- dedup.go:10 says a payload passes once per window; `Store.Put` releases the key
  of what it stored (store.go:77), so only packets on their way, fragments and
  failed packets are held back.
- dedup.go:32 says `Seen` looks within the window; the time is ignored, and keys
  end with the purge.
- service.go:117 says `Run` ends when `Stop` is called; `Stop` gives up if `Run`
  is not waiting at that moment. Nothing calls `Stop`.
- `TaskTracker.Begin` replaces a task of the same ID, and the monitor's history
  shows the last one several times; `Resume` overwrites the state resumed with
  complete at once (replay.go:155-156); the task of a failed request
  stays running.
- file_source.go:26 says the files are read in order, one after the other; with
  `-pcap` a start from the web server opens the same source while `Process` reads
  it. The second `Open` drops the handle of the first without closing it, each
  session gets some of the packets, and the one whose file the other closed gets
  io.EOF at line 74, which counts as a clean end. The race on the scanner may
  also end the process.
- live_source.go:35 restarts the numbering: the second `Run` over a live source
  makes an ID that is stored already, `Put` refuses it, the session ends with an
  error, and the key it has recorded swallows the packets of the next session
  until the purge.
- index.go:144 says `PacketsAt` lists IDs in the order of the store; rebuild.go:77
  sorts them as strings.
- `StreamKey.String` (model/stream.go:40) prints the number of the protocol,
  `ParseStreamKey` (line 60) takes its name: the keys that `/api/streams` shows are
  refused by `/api/replay/stream`, and the text `.../tcp` that the page suggests
  for a search occurs in no key.
- `Query.SrcIP` (index.go:17) is never looked at by `Search`, although line 12
  says that the conditions are combined.
- source.go:61 returns a fragment without the `Validate` a datagram gets; a total
  of zero reaches the reassembler that way.

## 6. What is not modelled

- Parsing and formatting of stream keys, timestamps, hex and JSON: text
  conversions. What a line that does not parse does to a session is modelled.
- Configuration: files and environment, read once; the bounds it enforces are
  the assumptions on the constants.
- The pages and the handlers that only render (`/api/status`, `/api/streams`); the
  first reads one component after the other, so its numbers may belong to
  different moments, which nothing acts on.
- The vendored digest: keys are taken to be injective.
- Sums of `Stats` that are only displayed, and the times of tasks.

## 7. Plan

Done, in this order: store and log, reassembler with its history, deduplicator
and capture, index rebuild, cursor file, schedule and replay; file source, web
control with the live source, search and filter; proofs of store, reassembler,
index and cursor file, then of the capture service under web and demo, of
the replay service with its sorts and chunks, of the reassembler's history, of
search and filter, of the file source, and of the live one.

Next: the tasks of the tracker for requests that overlap, as a property of its
own.
