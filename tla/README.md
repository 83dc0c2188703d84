# Verification of aprs-utils

aprs-utils copies files over APRS packet radio. A sender cuts a file into
chunks, every chunk (a *packet*) into fragments, and sends each fragment several
times through a TNC; a receiver collects fragments into packets and packets into
files, from its own TNC or from an APRS-IS server. Nothing is acknowledged. This
directory holds TLA+ modules of that program, TLC runs that check them, and
TLAPS proofs about the transport, the copying of files, the two together over a
radio, the pacing of transmissions, the frames of a TNC, and the session with an
APRS-IS server.

    tlc -workers 2 -config LinkReordering.cfg MCBroadcastLink.tla
    tlc -workers 2 -config RadioCopy.cfg MCRadioCopy.tla
    tlapm RadioCopy_proofs.tla

`PROJECT.json` lists the components, the runs, the source lines behind every
definition, the hazards, the findings, and for every property a mutant of the
code that breaks it.

## The system

| component | state | operations | interacts with |
|---|---|---|---|
| `net/packet_chunk_receiver` | `packets_` (fragments by payload id), `completed_packets_` | `PushPacketChunk`, `IsComplete` | called by `ReceiveBroadcastPacket` |
| `net/aprs_interface` | `next_payload_id_`, the locals of two loops | `SendBroadcastPacket`, `ReceiveBroadcastPacket` | calls `Send`/`Receive` of a TNC or internet interface |
| `net/tnc_aprs_interface` | a socket, the locals of `DecodeKISSFrame` | `Send`, `Receive` | bytes to and from a TNC |
| `net/internet_aprs_interface` | a socket, the line being read | constructor, `Receive` | lines from an APRS-IS server |
| `aprs_file_copy/file_sender` | `next_transfer_id_` | `Send` | calls `SendBroadcastPacket` |
| `aprs_file_copy/file_receiver` | `file_chunks_`, the files on the disk | `Receive`, the two handlers | calls `ReceiveBroadcastPacket`, `WriteStringToFile` |
| `aprs_file_copy/main` | none | one file sent, or receiving for ever | owns the rest |
| `util/time` | the steady clock | `GetTimeNowUs`, `SleepUntil` | paces `SendBroadcastPacket` |
| `util/*`, `proto/packet.proto` | none | conversions, files, messages | used by all |

The program has one thread. What makes it hard is between processes: several
stations send at once under ids that they choose alone; the channel loses,
delays, reorders and repeats fragments; senders and receivers are started again
while others go on; a header may be lost or late; and byte streams carry frames
of other programs. For each component, what makes it correct:

- **transport** (`SendBroadcastPacket` to `PushPacketChunk`): a packet is handed
  over at most once by a process, unmixed and whole; no tracker holds a packet
  that is complete; enough retransmissions make up for losses; transmissions keep
  the interval asked for on average;
- **file copy**: the file on the disk is always a beginning of the file sent; it
  is complete only when it is whole; it is whole once everything has arrived, and
  over a radio that loses fewer copies than are sent, everything does;
- **KISS and AX.25**: frames come out once, whole and in order, whatever stands
  between them; only frames to the broadcast callsign go on;
- **APRS-IS**: the packets of the server that are within the limit of a line go on,
  each once and in order, and nothing cut out of another line.

## Modules

| module | models | lines of code |
|---|---|---|
| `Chunking` | what both layers share: pieces, sorted insertion, counters that skip 0 | `aprs_interface.cc:61-63,124-131`, `file_receiver.cc:169-174` |
| `PacketChunkReceiver` | `PushPacketChunk` and `IsComplete` | `packet_chunk_receiver.cc:28-131` |
| `BroadcastLink` | senders, channel, one receiver | `aprs_interface.cc:33-131` |
| `PacketLink` | abstract: what a link between stations promises | `aprs_interface.h:53-60` |
| `Pacing` | when transmissions begin: due time, clock, `SleepUntil` | `aprs_interface.cc:48-82`, `time.cc` |
| `FilePackets` | the header and the chunks of a file | `packet.proto:59-95` |
| `FileSender` | `Send` and `SendBroadcast`, split where they call and return | `file_sender.cc` |
| `FileReceiver` | the two handlers, the lookup, the writes, a crash in a write | `file_receiver.cc`, `file.cc:51-80` |
| `FileCopy` | runs of the sender, `PacketLink`, the receiver | `main.cc:107-121`, `file_receiver.cc:33-66` |
| `FileTransfer` | abstract: what a receiver promises of a file | |
| `RadioCopy` | all layers: `FileSender` over `BroadcastLink` to `FileReceiver` | `main.cc:96-121` |
| `Frames` | AX.25 and KISS formats, as functions on bytes | `tnc_aprs_interface.cc:59-212` |
| `BroadcastReceive` | what `ReceiveBroadcastPacket` does with a frame | `aprs_interface.cc:85-144` |
| `FrameLink` | abstract: what an implementation of `Receive` promises | `aprs_interface.h:69-73` |
| `TNCLink` | connection, `Send`, the TNC's bytes, `DecodeKISSFrame`, `Receive` | `tnc_aprs_interface.cc:26-277` |
| `InternetLink` | connection, login, lines and packets of a session | `internet_aprs_interface.cc:27-210` |
| `MC...` | instances for TLC | |
| `Chunking_proofs` | lemmas on sorted vectors, pieces and counters | |
| `BroadcastLink_proofs` | theorems on the transport | |
| `FileCopy_proofs`, `OrderedCopy_proofs` | theorems on files | |
| `RadioCopy_proofs` | theorems on the whole | |
| `Pacing_proofs` | theorems on transmission times | |
| `TNCLink_proofs` | theorems on frames and the decoder | |
| `InternetLink_proofs` | theorems on a session | |

How they are put together:

    RadioCopy ----- implements ----> FileCopy ----- implements ----> FileTransfer
      |  EXTENDS BroadcastLink
      |  INSTANCE FileSender, FileReceiver
    BroadcastLink - implements ----> PacketLink <--- INSTANCE of FileCopy,
                                                     which EXTENDS FileSender, FileReceiver
    TNCLink, InternetLink --- implement ---> FrameLink

`FileCopy` puts `PacketLink` between its processes. That this is what the
transport gives them is shown twice, by a run and a proof each: `BroadcastLink`
implements `PacketLink`, and `RadioCopy`, where the stations of `BroadcastLink` are
the runs of the sender and a delivered packet is handled in the same step,
implements `FileCopy`. (`RadioCopy` extends the transport and instantiates the rest,
since theorems can only be cited of a module that is extended.) `TNCLink` and `InternetLink` both EXTEND `BroadcastReceive`: what they
pass on is what `PushPacketChunk` is called with.

### State and steps

*Byte strings.* In the two upper layers a byte is a pair `<<owner, position>>`
and a string the set of its bytes: enough to tell length, origin and order. In
the two lower ones, which are about bytes, a string is a sequence.

*BroadcastLink.* `phase`, `position` and `loop` are the program counter and the
locals of `SendBroadcastPacket`; one transmission and the loop control after it
are one step, since `SleepUntil` follows and nothing else does. `air` is the set
of frames a receiver may still hear, `assigned` a history of the packets
broadcast under each id. `packets_` is a function of the payload id, because a
tracker is opened only when none has the id. A station killed in the middle of a
broadcast leaves the state that `TransmitFails` leaves.

*FileSender, FileReceiver.* A run of `--send` is a process with one `FileSender`
and one file, so the first transfer id of every run is the same. `CallBroadcast`,
`BroadcastReturns` and `BroadcastFails` are the two ends of a call of
`SendBroadcastPacket` in `SendBroadcast`; what happens between them is up to the
module that joins them with a link. The receiver's handler is one step with its
write. A write that fails leaves the file as it was (`open` failed) or cut at the
end of some chunk, and `KilledInWrite` is the process killed after the truncation
and started again; cuts within a chunk are not distinguished.

*FileCopy.* The order of delivery is a parameter: `"none"`, `"header first"` or
`"as sent"`. After a restart, `"header first"` means that the header is handed to
the new process first.

*RadioCopy.* The radio is direct: a frame is heard or lost before the next one is
sent. A run of the sender is a station of `BroadcastLink` whose outbox holds the
packets of its file. `HearAndReceive` joins `PushPacketChunk` with the handler of the
packet that it completes, as one thread does both before it reads the next frame.
`PassUnheard` is a frame on the air while no receiver runs.

*Pacing.* Times are integers. `Round` and `Ulp` are the rounding of a float of
`Mantissa` bits, `TimerSpace` the width of the argument of `usleep`. A
transmission, a sleep and the clock between them take any of a few times.

*TNCLink.* One step per byte read. Sender's TNC, radio and receiver's TNC are
external and hand frames on unchanged: they may lose a frame (nobody put it on
the wire, as when `SDLNet_TCP_Send` wrote only a part of it), and add other commands, idle delimiters, frames with bad escapes.
`IsReceived` and `ReceivedFrame` together are `Receive` after the frame is there.
`connected` is FALSE before the constructor has returned and after the socket has
failed, which ends the process.

*InternetLink.* One step per character read. The history `given` holds the lines that the
server sent, each as `ReadLine` gets it (see *Long lines* below). `running` becomes FALSE at LOGFATAL
or at an uncaught exception.

In no module are `last_time_us`, `last_fragment_time_us` and `retransmit_id`
kept by the receiver: they are written and never read.

## Runs

Passing runs:

| run | question | instance |
|---|---|---|
| `LinkReordering` | is the transport right under loss, delay, reordering, repetition, malformed frames and a restart, and do enough retransmissions make up for losses? | two stations with a packet each, of 3 fragments and 1; one sends every fragment twice and the channel may lose one copy |
| `LinkCollision` | what survives two stations with one id, and do a station's own ids stay distinct through 0? | ids 0 to 3; the first station's counter wraps from 3 past 0 to the id the second uses; a third has a retransmit count of 0 |
| `CopyAnyOrder` | what holds of the disk and of the trackers in any order of packets? | a file of 3 chunks sent by two runs, strays, writes that fail, 2 restarts or crashes in a write |
| `CopyHeaderFirst` | and when each header is first? | a file of 4 chunks sent by two runs, without strays and failing writes; refinement of `FileTransfer` |
| `RadioCopy` | do the layers together do what each was assumed to do, and is a sent file saved in the end? | a file of 4 chunks; a header of two fragments, each sent twice, one copy of each lost; payload ids that wrap; 1 restart |
| `PacedTransmissions` | are transmissions the interval apart, whatever the clock, the rounding and the delays? | 2 calls of 3 transmissions that may take more than three intervals; floats of 5 bits, an interval of 10 |
| `FramesMixed` | are frames found among everything else on the wire, and what goes on? | 2 frames out of 5 kinds, among them broadcasts through 7 and 8 digipeaters, another piece of bytes, a cut frame at the start, a timeout or the end of the connection anywhere |
| `InternetSession` | do packets pass, in order, in the end, and nothing else? | greeting, answer and 3 lines, some as long as a line may be or longer, one cut between `\r` and `\n`; the session may break off anywhere |

Runs that end in a violation, each of one statement that a comment, an assertion
or a message in the code makes and the code does not keep (`findings` quotes it):

| run | what happens |
|---|---|
| `RadioRestart` | a receiver started in the middle of a transfer, with nothing lost or reordered, has two chunks behind a gap; without a header the size reads 0, so they complete the transfer; its tracker then has no id, and the next lookup ends the process |
| `CopySecondFile` | the second file has the id of the first, which is complete, and is ignored |
| `FramesWrongSSID` | a destination with SSID 4 decodes as one with SSID 0 |
| `FramesEmptyPayload` | an empty payload ends the process |

Further behaviour that a reader may not expect. It is in the models, and the
instances of the passing runs leave it out or state a property that allows it:

- *Id collisions.* `LinkCollision` reaches states in which a mixture of two
  packets has the length of one; `FailToParse` then ends the receiver.
- *Header last.* A header that arrives when all chunks are there writes nothing, and
  chunks that come again are ignored as known, so such a file is never written.
  `CopyAnyOrder` allows it, `CopyHeaderFirst` and `RadioCopy` cannot have it.
- *Lost header.* When all copies of a header are lost, the chunks behind it
  complete nothing or, with a gap, too much (`RadioRestart`); a later run of the
  sender meets that tracker.
- *Restarts rewrite.* A restarted receiver writes a file again from its beginning,
  so a file that was whole can shrink until it is whole again
  (`FileTransfer!Restart` and `Grow` allow it).
- *Bursts.* The due time runs on while a transmission takes longer than the
  interval, and the transmissions behind it follow without a pause until it has
  caught up. `PaceKept` is about the average for that reason.
- *Float times.* The due time is exact to about 8 ms after a day of uptime. When
  half the distance of neighbouring floats exceeds the interval the sum no longer
  grows and no transmission waits: after 204 days of uptime for an interval of one
  second, after some 18 years for the default of 20. `PaceKept` gives up there
  (`Ulp` at least `Interval`). An interval of more than 71 minutes is cut by the 32
  bits of `usleep`.
- *Two senders.* Both use the transfer id 1, so chunks of different files meet in
  one tracker. In `CopyAnyOrder` both runs send one file.
- *Empty files* have no chunk: the receiver never writes them.
- *Any peer.* `Receive` does not compare the source with `peer_callsign`.
- *Two escapes in a row* drop the frame but not `in_frame`, so the rest of it is
  returned as a frame. `FramesMixed` has only the other kind of bad escape.
- *Eight digipeaters* are encoded by `Send` and refused by `Receive`, so such a
  broadcast is never heard. `FramesMixed` has one, and `OnlyEighthRefused` says that
  it alone is refused.
- *No header byte.* A payload without `{` is logged and passed on (`PushText`).
- *Long lines.* The rest of a line that is too long is read as a line of its own.
  In `InternetSession` that rest is no packet. When the limit cuts a line between `\r`
  and `\n` (a text of exactly 1024 characters, or 1025 more, and so on), the `\n`
  becomes the first character of the next line. A packet there is passed on with
  a source that begins with `\n`, or is lost when that makes it too long.
  `InternetSession` has such a line (of 11 `b`), a packet that is passed on behind it
  and one that is lost. `given` holds each line as `ReadLine` will get it, with that
  `\n` before it (`Behind`), and the properties count a packet only if it is within
  the limit then (`Fits`).
- *SSIDs from APRS-IS* are cut off, so a packet to APZ222-4 is taken for one to
  APZ222.
- *Signed chars.* The encoder compares a `char` with 0xc0 and 0xdb, which never
  matches where char is signed, as on x86 (`CharIsSigned`). The encodings agree
  for frames without these bytes, and `NothingToEscape` says that the program's
  own frames have none: callsign bytes are shifted and even, the SSID byte lies
  between 0x60 and 0x7f, and base64 is ASCII.

### Bounds

All bounds are CONSTANTS of the modules or sizes of their sets. Three fragments
or chunks are the least at which a gap, a short last piece and two orders behind
a gap exist; four chunks the least at which two can follow a gap and a third
then meet the tracker they completed. Two runs of the sender are enough for one to
repeat what the other lost and for two to collide. `RadioCopy` has one run, since
what two may do to one another is in `LinkReordering`, `LinkCollision` and
`CopyAnyOrder`, and one more multiplies its states by a hundred. Losses and
restarts are counted because each makes the same states possible again: after a
restart the receiver holds nothing, and a second one adds only a file left by an
earlier life. Two frames, with another piece of bytes before, between or behind
them, cover the states of the decoder's four flags with a frame still to come. A
timeout cannot occur in the broadcast loop of today, which calls `Receive` with a
timeout of 0; `MaxTimeouts` is 1 for callers that give one. `MaxLineLength` is 11
instead of 1024 so that the limit is reached. The clock of `PacedTransmissions`
starts on both sides of the powers of two at which floats of five bits get coarser,
and runs up to where the interval is no longer more than their distance.

Deadlock is not checked where a run has an end: when all runs of the sender have
ended and all frames are delivered or lost, nothing happens any more.

### Fairness

Two specifications state fairness, each of steps that one process takes alone.

`RadioCopy!FairSpec` has weak fairness of `ListenAndReceive`, since the receiver calls
`ReceiveBroadcastPacket` in an endless loop and a frame nobody hears is over, and
of `SenderStep(r)` for every run: the loops of `Send` and `SendBroadcastPacket`
have no condition to wait for but `SleepUntil` and the socket, which return. A step
that fails (`RefuseSend`, `GiveUp`) is a sender step too, so nothing is assumed
about success, and `SentFileIsSaved` allows for a failed `Send`. It also allows for
a restart of the receiver, which forgets what it had. There is no fairness of
losses, restarts or the start of anything else.

`InternetLink!FairSpec` has weak fairness of `Read`: `ReadLine` polls the socket
without end. The server is not fair: `PacketsArrive` begins with a packet it sent.

The safety properties of these two runs are checked under the same specification,
whose reachable states are those of `RadioSpec` and `InternetLink!Spec`.

## Proofs

The theorems hold for all values of the constants that satisfy the assumptions of
the modules, whatever the number of stations, packets, fragments, files, losses
and restarts. A theorem that needs more says so, either as an assumption on
constants (ASSUME) or as a property of the behaviour (`Spec /\ []NoCollision`).

### The transport

`BroadcastLink_proofs`:

- `TypeCorrect`: `TypeOK`;
- `DeliveredAtMostOnce`: `AtMostOnce`, collisions or not;
- `TrackersStaySorted`, `NoTrackerStranded`: the receiver's bookkeeping;
- `DeliveredIsWhatWasSent`: `DeliveredAsSent`, and
- `LinkRefinement`: the link implements `PacketLink`, both while `NoCollision` holds.

`NoCollision` is an assumption about clocks, from which stations take their first
ids. `LinkCollision` reaches the failed parse without it. For one sender it is not an
assumption: `OneSenderNeverCollides` in `RadioCopy_proofs`.

None of these properties is inductive. `AtMostOnce` needs to know that a packet
handed over was assigned an id that is now in `completed_packets`, which needs to
know which packet a tracker is of, which needs to know that every frame on the
air is a genuine fragment of an assigned packet. The inductive invariant `IInv`
is the conjunction of `StationsInsidePacket` (the loop's offset and chunk_id
agree), `AssignedWereReached` and `AssignedOnce` (an id is assigned by a station
that got there, a packet once), `AirIsGenuine`, `TrackersAreGenuine`,
`TrackersSorted`, `NoStrandedTracker` and `ReturnedOnce`. The arithmetic is in
`Chunking_proofs`: `SortedInsertSorts` (an insertion keeps a sorted vector sorted
and adds its argument), `ConcatIsWhole` (sorted genuine fragments with the total
length are the packet) and `NextIdIsAnId`.

On top of `IInv`, in the same module:

- `RetransmissionsSuffice`: `ReliableBroadcastArrives`, while `NoCollision` holds. The
  invariant `ReliableInv` accounts for every copy: `EveryCopyWent` says that each
  transmission so far is on the air, lost, or known to the receiver;
  `LossesBounded` that at most `MaxLosses` copies of a fragment were lost;
  `CompletedWereReturned` that a completed id was one handed over. With more copies
  than losses one copy of every fragment is known, and `NoStrandedTracker` then
  leaves only completion. Without `NoCollision` it is false: a fragment with the id of
  a completed packet is dropped;
- `IdsStayDistinct`: `StationIdsDistinct`, through the wrap of the counter, for
  outboxes shorter than the id space (`OutboxesFitIds`; there are 2^32 ids). `IdsFollow`
  says which id the k-th packet of a station has;
- `TablesHoldBroadcasts`: `OccupiedByBroadcasts`, collisions or not.

### Files

`FileCopy_proofs`, in any order of delivery, with writes that fail and restarts:

- `TypeCorrect`, and `TransfersStayTogether`: `OneTrackerPerId`. That no two trackers
  have an id is inductive only with `TrackersTidy` (what a tracker holds without being
  asked for: its chunks are sorted, none twice, and have its id), since
  a tracker without an id is given one by the packet that comes next;
- `DiskHoldsBeginnings`: `DiskIsPrefix`, as long as no two files go by one transfer
  id (`NoIdShared`) and strays lack a field (`StraysAreIncomplete`). Both are
  about what other programs do: the first id of every run is the same, so
  senders of different files at once are outside. `GenuineInv` says that all that trackers
  hold was cut from a file some run sends, `DiskIsBeginning` that every file written
  is made of a first few of its chunks. The lemma behind it is
  `BeginningOfPieces` in `Chunking_proofs`: the unbroken run of sorted genuine chunks is a
  beginning.

`OrderedCopy_proofs`, when the header of a transfer is handed over first (`Order` not
`"none"`):

- `LookupNeverFails`: `TrackersHaveIds`;
- `CompleteFilesAreWhole`: `CompleteIsWhole`, `DeliveredFilesAreSaved`: `DeliveredMeansSaved`,
  and `CopyIsFileTransfer`: every step of `FileCopy` is a step of `FileTransfer` or
  a stutter. These three also need writes that succeed (`WriteMayFail` FALSE). The
  second is of files that are not empty, which are never written; the third of files with
  different names.

The invariants are `HeadersInv` (a run sends its header first, every tracker has a
genuine header, and the trackers remember each packet delivered), `DiskFollows`
(the file is the unbroken run of its tracker's chunks once there is one, and
`is_complete` is set exactly when it is whole) and `HeldIsTracked` (what a process has
had of a file, in the terms of `FileTransfer`, is what its one tracker has). The
theorems of this module fail without the header first: `CopyAnyOrder` and
`RadioRestart` have the counterexamples.

### The whole

`RadioCopy_proofs`:

- `RadioImplementsCopy`: `ImplementsFileCopy`, while `NoCollision` holds. `RadioInv` adds
  to `IInv` that sender and station agree on the packet they are at (`InStep`); a
  packet that `HearAndReceive` completes was sent and is handed over once, so the step is
  a delivery of `FileCopy`, and every step of a broadcast but its first and last is a
  stutter;
- `OneSenderNeverCollides`: with one sender and `OutboxesFitIds`, `NoCollision` always
  holds;
- `PacketsArriveInOrder`: `ArrivesInOrder`, when more copies are sent than may
  be lost (`CopiesOutnumberLosses`) and `NoCollision` holds. It is
  `RetransmissionsSuffice` at work: `AirInOrder` says that a frame on the air is of a
  packet whose predecessors were all handed over, because a sender only leaves a packet
  when nothing of it is on the air;
- `TrackersAlwaysHaveIds`: `TrackersHaveIdsFromStart`, under the same hypotheses. The
  violation in `RadioRestart` shows that a restart in the middle has to be
  excluded.

### Pacing

`Pacing_proofs`, for timers that are wide enough for an interval and the error of
a float (`SleepsFit`; with the 32 bits of `usleep`, intervals of up to 71 minutes):

- `PausesAreBounded`: `PauseBounded`, from `DueIsNear`: a sender never wakes before the due
  time, and the due time is never more than an interval and a rounding ahead;
- `PaceIsKept`: `PaceKept`, from `DueKeepsPace`: the due time has moved by at least the
  interval less the distance of two floats with each transmission. That distance grows
  with the clock, which is why the bound is in terms of the latest.

### Frames

`TNCLink_proofs`:

- `FramesSurvive`: what `IsReceived` and `ReceivedFrame` make of the frame `Send` builds
  is its source, destination and payload. The hypotheses are where the formats do lose
  something: at most seven digipeaters, characters of seven bits other than the space that
  pads, and an SSID without the bit that the mask 0x17 drops (`Kept`; `FramesWrongSSID`
  has the counterexample);
- `ProgramFramesNeedNoEscape`: `NothingToEscape`, when the calls with a payload of this
  program have callsigns of ASCII characters other than the backquote (twice that is 0xc0) and a payload
  of ASCII characters (`Plain`), which base64 and the marker are;
- `TypeCorrect`: `TypeOK`, in which the decoder's flags agree with its frame. Its bulk is that
  what `Send` puts on the wire are bytes, and that `ReadByte` is a function of decoder
  and byte (`ReadByteReads`, `Reads`);
- `FramesComeInOrder`: `FramesInOrder`, and `NoFrameIsSkipped`: `NoFrameSkipped`. Two
  hypotheses: `OthersAreHarmless`, that what a TNC gives besides data frames is not
  itself one to the decoder, and `EscapesWork`, that a build with signed chars is given no
  frame that needs an escape. `HypothesesAreMet` derives both for bytes without the
  header of a data frame where a header may stand (delimiters, other commands, the
  rest of a cut frame) and `Plain` calls. Two escapes in a row in a data frame of another
  program violate the first, and then the theorem is false;
- `BroadcastsGoOn`: `OnlyEighthRefused`, and `TNCRefinement`: `TNCLink` implements
  `FrameLink`. These need `BroadcastsAreKept` too: that callsigns of broadcasts are ones the
  formats keep (the destinations of other frames must be kept as well, or one could decode
  as the broadcast callsign, as in `FramesWrongSSID`). Nothing is assumed of the number
  of digipeaters: `EighthRefused` is the case of a frame with eight, which does not go on
  and is not expected to (`Passable`).

None of the last four is inductive, since bytes on the wire decide what will be heard. The
invariant `WireIsSound` therefore speaks of all ways the wire may still be read: there is a set of
outcomes (decoder, frames heard, timeouts) for every place of the wire, closed under
reading a byte and under a timeout, which begins with the present one and in
which, at every place, what was heard fits what was put. `PathsTail` keeps it when
a byte is read, `PathsJoin` when something is put behind, and `FramePaths` is the case of a
frame of `Send`, whose bytes take every decoder between frames to the frame, or with a
timeout within to nothing. `WhatGoesOn` says that the texts pushed are those of the
broadcasts among the frames heard, and the texts of `Broadcasts` those among the frames put
(`Selects`), so one order follows from the other.

Frames are built by `FlattenSeq`, a recursive function. What it computes is proved by
induction on the number of pieces (`FlattenIs`, `FlattenCuts`), where the set of numbers
for which it is right takes the place of a predicate (`SetInduction`).

### APRS-IS

`InternetLink_proofs`:

- `TypeCorrect`: `TypeOK`. Whatever the server sends, the line being read never outgrows
  the limit, and never holds the end of a line;
- `NoPacketIsSkipped`: `NoPacketSkipped`, and `SessionRefinement`: `InternetLink` implements
  `FrameLink`. Both for a server of which `ServerIsSound` holds. No line holds the end of
  another. A packet within the limit has its separators in their places only
  (`WellFormed`). Any other line may be of any length, and the limit may cut it anywhere,
  but what is held of it at its end is no packet (`NoPacket`). Both are asked of a line
  with a `\n` before it too, as it is read behind one cut between `\r` and `\n`. Without
  these the two are false: *Long lines* and *SSIDs from APRS-IS* above. TLC evaluates
  the hypothesis for the server of `InternetSession` (`MCServerIsSound`).

The invariant is of the kind of `WireIsSound`. `SessionIsSound` says that what was passed on is a
beginning of what is expected, and that reading what is left in the stream, in
every way it may be read, brings the rest (`Ahead`, `Paths`). `LinePath` is
the case of one line: after x characters of it `ReadLine` holds the last
x % (`MaxLineLength` + 1) of them (`Kept`), so a line can be followed however often it is cut.
`LeftPath` is the case of a line that begins with what is left of the one before it (`Left`).
`PacketIsRead` says that `Receive` takes the parts of a packet out of its line.

### Only model-checked

The liveness properties (`SentFileIsSaved`, `PacketsArrive`), which the prover cannot
do. The runs that end in a violation are single instances by nature.

## Not modelled

- base64, protobuf and SDL_net: external. `ParseFromString` of a mixture is a
  choice between a failure and some other packet. The functions of `util/string`
  around libb64 and `vsnprintf` keep no state and are left out with them.
- `max_packet_size` 0, with which the inner loop never ends: assumed away.
- How much memory `packets_`, `completed_packets_` and `file_chunks_` take, which
  the code does not limit; `OccupiedByBroadcasts` says what may enter the first two.
- The digipeaters that `ReceiveBroadcastPacket` collects and nobody reads.
- `ChunkAck`, `SleepFor`, `StringSplit`: declared and not used.
- Messages, flags, formatting, `util/log`.

## Plan

1. Transport: `PacketChunkReceiver`, `BroadcastLink`, `PacketLink`. *Modelled,
   checked, proved.*
2. Files: `FileSender`, `FileReceiver`, `FileCopy`, `FileTransfer`. *Modelled,
   checked, proved.*
3. The whole: `RadioCopy`. *Modelled and checked; safety and refinement proved.*
4. Frames: `Frames`, `TNCLink`, `FrameLink`. *Modelled, checked, proved.*
5. APRS-IS: `InternetLink`. *Modelled, checked, proved.*
6. Pacing: `Pacing`. *Modelled, checked, proved.*
7. Instances for the behaviours listed above that have none: mixed files, empty
   files, double escapes, the rest of a long line.
