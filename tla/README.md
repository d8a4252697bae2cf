# Verification project for the ComPair tracker firmware and server

This directory holds TLA+ models of the ComPair silicon tracker's readout: the
VHDL cores that acquire data from the VATA460.3 chips (`cores/`) and the Linux
server that controls them and sends events to the ground (`src/petalinux/apps/`).
Each module is translated from the source; `PROJECT.json` maps every definition
to the lines it stands for, lists the hazards of the code with the properties
that cover them, the runs, and the theorems.

    tlc -workers 2 -config MCVataFsm.cfg MCVataFsm      # one run
    tlapm VataCoreProofs.tla                            # one module's proofs

## 1. The system

A layer carries up to twelve VATA chips. Per chip there is one instance of
`vata_460p3`; per layer one pulser, one DAC interface, one event-identifier
generator and one sync distributor. All of them are driven by memory-mapped
registers, which the server process (and, beside it, command-line tools) reads
and writes.

| Component | State | Operations | Interacts with |
|---|---|---|---|
| Acquisition state machine (`vata_460p3_iface_fsm.vhd`) | current state, dwell counter, bit index, shift register, event counter, header latch | trigger, set / get configuration, force idle, reset of the counter | the chip's pins, the acknowledge timer, the data stream |
| Acknowledge timer (`trigger_ack_timeout_fsm.vhd`) | state, counter | start at a trigger, acknowledge, abort | the state machine's `abort_daq` |
| VATA registers (`..._S00_AXI.vhd`, `control_register_triggers.vhd`) | 64 registers, handshakes | write, read, one-clock pulses | the processor's bus, the state machine |
| Receive FIFO (vendor core) | words, packet lengths | stream in; occupancy, length and data registers out | the state machine; two server threads, `vatactrl` |
| Register library (`silayer-lib`) | the pulser's settings, in each process its own | set and check a configuration, read packets, trigger masks, counters, pulser, DAC | registers, without locks |
| Command-line tools (`silayer-ctrl`) | none | a run: the library's calls for its options, in order | the same registers as the server, as another process |
| Data emitter (`data_emitter.cpp`, `data_packet.cpp`) | map of events being assembled | poll, read, merge, send, expire; start, stop, halt | the FIFOs, subscribers, the server thread |
| Request server (`silayer_server.cpp`) | the request in hand, `data_emitter_running`, its `CalCtrl` | about fifty requests | clients (one reply socket), emitter (in-process socket), supervisor |
| Calibration pulser (`pulse_trigger_fsm.vhd`, `cal_ctrl.cpp`) | state, three counters, registers | n pulses, run until stopped | register writes made while it runs |
| Event identifiers (`event_id_gen`, `event_id_s2p.vhd`) | counter, serialiser, receivers | send on the rise of busy, software preset | busy and ready of `sync_vata_distn`, the packet header |
| Sync distribution (`sync_vata_distn_v1_0.vhd`, `stay_high_n_cycles.vhd`) | ready pulse, hit masks, clock counter | mask a chip, reset the counter | all chips, the trigger module |
| DAC interface (`dac121s101_fsm.vhd`, `dac_ctrl.cpp`) | serial state, four registers | set counts, set delay | four DAC chips, sleeps instead of a busy flag |

What is hard here: the state machine meets triggers, acknowledges, timeouts and
commands at any clock; library calls are several register accesses with nothing
that holds the hardware still in between, and with no answer from it; two server
threads and other processes share the registers; a pulse sent while a machine is
busy is lost; full FIFOs drop words silently; the server may end between any two
steps and is started again over hardware that kept its state.

What makes each component correct:

* state machine: packets whole, numbered and aligned; the chip in the mode each
  state relies on; exactly the unacknowledged events aborted; every operation ends;
* configuration: a readback leaves the chip as it was; a set takes effect;
* FIFO: no underflow, packets stay aligned, each event is handed over once;
* emitter: every frame is published once, with its event; complete events at
  once; halt always works;
* server: each request is answered exactly once, after it was done; what it
  believes of the emitter and of the pulser's settings is true; a request leaves
  the registers as it promises, and nobody's bits but those it is about change;
* pulser, DAC, identifiers, registers: what was asked happens, once, and to the
  chip it was asked for.

## 2. Modules

| Module | Models | One step is |
|---|---|---|
| `VataFsm` | state machine, acknowledge timer, event counter, header, stream | one 100 MHz clock |
| `VataConfig` | `set_check_config` / `get_config` against the shift states | one register access or one bit |
| `FifoPath` | stream, receive FIFO, and its readers: emitter, `clear-fifo`, `vatactrl` | one word or one register access |
| `DataEmitter` | the emitter thread | one FIFO looked at, one packet read, stored or sent |
| `EventBuilder` | abstract specification of the emitter | one frame gathered or event published |
| `LibraryCalls` | each call of the library as the accesses it makes | |
| `ServerRequests` | each request as accesses and answers, in order | |
| `CtrlTools` | each run of a tool as accesses | |
| `RegisterAccess` | the registers, the server's and a tool's accesses to them, the clock counter | one register access |
| `LayerContract` | what requests and tools promise: the registers after a call, as if alone | |
| `LayerServer` | request thread, emitter's message loop, supervisor, clients, tools | one message or register access |
| `CalPulse` | pulser and the library's writes | one clock |
| `EventId` | identifier generator, receivers, busy / ready, hit masks | one clock |
| `DacSerial` | DAC state machine, registers, `set_counts`, DAC chips | one clock |
| `AxiSlave` | VATA register file and pulses | one clock |
| `DataEmitterProofs`, `LayerServerProofs`, `VataConfigProofs`, `FifoPathProofs`, `CalPulseProofs`, `DacSerialProofs`, `EventIdProofs` | theorems about the module named | |
| `VataCoreProofs` | theorems about `VataFsm` and `AxiSlave`, the two halves of the VATA core | |

Modules compose in two places. `LayerServer` extends `LayerContract`, which extends
`RegisterAccess`, which extends `ServerRequests` and `CtrlTools`, which both extend
`LibraryCalls`: a request or a run is a sequence of accesses computed by the pure
operators, and the processes' steps interleave access by access. `LayerContract`
is the atomic view of the same calls, written from what each is for and used by
the properties only. `DataEmitter` contains `EventBuilder` by `INSTANCE ... WITH`.
The others share no variables: `LayerServer` keeps the emitter's message loop, and
`FifoPath` and `VataConfig` keep the parts of the state machine they meet, each at
a grain that its own questions need. The correspondence is by name: TLA+ variables
carry the names of the VHDL signals and C++ members, or say which they are where
they are declared; operators of `LibraryCalls` are the C++ methods, requests and
options the words of the protocol.

How state and actions correspond, for the largest:

* `VataFsm`. `state`, `cnt`, `regIndx` are the registers of the same name. The
  nineteen states `RO_WFIFO_nn` are one state with the variable `word`. The
  process `next_state` is split by phase (`SetConfig`, `GetConfig`, `Acquire`,
  `ReadOut`, `PadData`, `WriteFifo`, `Return`), with `Linger` for the dwell in a
  timed state, `ForceIdle` and `Abort` for its two first branches. All registers
  move in one action `Clock(in)`; `in` is the input of the cycle (trigger lines,
  command pulse, o5). `Dwell` gives the thresholds; those of the code are
  replaced by small ones, the proofs hold for all.
* `DataEmitter`. `pc` names the C++ function in progress. `Age` makes any packet
  old at any time: the clock it reads may be set back, and its age is unsigned.
* `LayerServer`. `server` says where the thread is: receiving, handling `req`,
  waiting for configuration data, joining the emitter. Handling a request is to
  take the steps of its program (`todo["server"]`): `ServerAccess` for an access,
  `AnswerRequest` for an answer, `AnswerAgain` and `ReadNull` for the two ways a
  handler ends the process. A tool's run is a program too. `ops` and `base` remember
  which operations overlap and what the registers held before them; a server or a tool
  that ends in the middle of an operation leaves an `Interruption` among them, because
  `cal-init` or `dac-write` may then stay set. `got` holds the last two fetches of the
  halves of a counter.
* `RegisterAccess`. A mask is the set of its bits, a read-modify-write is two
  accesses (`Change`), a 64-bit counter two fetches. There is one VATA: each has
  registers of its own.
* `FifoPath`. The FIFO announces a length when the last word is taken, and
  counts occupancy over complete packets only; that is how the library reads it.
  The length of no packet is 0, which `read_fifo_full_packet` returns and its
  caller takes for success.

Operators marked `Mutant` are plausible wrong versions of the definition after
them. No specification uses them; each shows that one property notices that bug.

## 3. Runs

Sizes are the smallest at which every named case occurs; reasons are in the
"bounds" column.

| Run | Properties | Bounds, and why they are enough |
|---|---|---|
| `vata_fsm` (67 thousand states) | `Aligned`, `PacketsWhole`, `PacketsEndWhole`, `PacketsNumbered`, `ChipInMode`, `LatchSetup`, `AckedNotAborted`, `UnackedNotSent`, `ReturnsToIdle` | 2 configuration bits, 3 data bits (readouts of each length), 3 words, counters that wrap at 2 and 3, timeout 2 (an acknowledge before, in and after the last cycle); one enabled and one other source |
| `emitter` (197 thousand) | `CompleteGoesOut`, `FifoDrained`, refinement `BuildsEvents` | 2 chips, 3 identifiers, 2 frames each with repeated identifiers, map limit 1, so that incomplete events are expired |
| `server` (201 thousand) | `FlagAgrees`, `EachAnsweredOnce`, `SettingsInStep`, `AnsweredIsDone`, `CountersClose`, `AloneAsAsked`, `NobodyElses`, `Answered`, `HaltEnds`, `StartTakesEffect` | fifteen sessions, see below; 2 chips, a mask of 6 bits of which "all" alone enables the last, counters of two halves of one bit, so that they carry at once |
| `config` (1.3 million) | `ReadbackKeeps`, `ReadbackTrue`, `SetTakes` | 3 chip bits in 2 words of 2 bits: one bit of the last word does not exist in the chip, as 24 bits of the last do not in the code; another process may force idle at any step |
| `fifo` (1.1 million) | `NoUnderflow`, `Aligned`, `EachEventOnce` | packets of 3 words, a FIFO of 5, no multiple of 3 (as 1024 is none of 19), 3 events; readers begin, race, are interrupted and restarted without bound |
| `cal` (169 thousand) | `TriggerOnTime`, `RunAsAsked`, `StopEnds` | arithmetic modulo 5; settings and counts of 0, which the library takes though the server refuses them, and a delay as long as the pulse; library calls at any clock, without bound |
| `event_id` (1.6 million) | `IdsAgree`, `IdsDiffer`, `GoArmed` | identifiers of 2 bits that wrap, 2 symmetric chips that are enabled and disabled at any clock, one change before the next event; shortest operations in the same proportions to the transmission as in the code |
| `dac` (781 thousand) | `CountsSet`, `OnlyAsked` | words of 3 bits, 2 heard by both DACs; delays 0 and 1 fit the sleep, 3 does not |
| `axi` (324 thousand) | `EachWriteAnswered`, `WritesTakeEffect`, `ReadIsCurrent` | one register of each kind, two words, one of them a trigger; the bus unbounded |

The last property of `emitter`, `BuildsEvents`, says that `DataEmitter` implements
`EventBuilder`: what waits is the union of the map, what was published the
packets sent.

A session of `server` is what the outside does in it: which clients send which
requests, which runs of tools an operator makes beside them, whether everyone waits
for the answer before the next command, and how far the clock runs. Each request and
run may come any number of times, in any order. One session for everything would
only multiply unrelated registers; the sessions group what touches the same ones:
the dialogue of two clients with emit, halt and `set-config-binary`; queries and
refusals; the trigger mask by bits, by chips, by sources; single values; the
pulser's settings, its delays and its pulses; the converters; the hit masks; a pulse
and a set of counts cut short by the server's end; and three with the running
counters. Every request of the protocol that this module handles and every option
that writes a register occurs in one. At most three operations overlap before the
next waits: the bound is in the session.

Runs that show the code disagreeing with what it says of itself:

| Run | Property | What happens |
|---|---|---|
| `server_double` | `NoSecondAnswer` | `trigger-enable-asic` with an unusable number: the handler answers, its caller answers again, the second send throws, the server ends and is restarted (silayer_server.cpp:1050) |
| `config_stale` | `CheckedIsHeld` | both pulses of `set_check_config` find the state machine busy; it compares with registers an earlier readback filled and returns true (vata_ctrl.cpp:133) |
| `cal_delay` | `TriggerAfterDelay` | delay 0, the library's default, wraps to 2^32 - 1: no trigger (pulse_trigger_fsm.vhd:178) |

Seen while modelling, and kept out of the properties that hold by their
preconditions (the history variables `disturbed`, `harm`, `cut`, `lost`, `clean`):

* no transition leads to `ABORT_WFIFO`, so a packet cut by `force_fsm_idle` stays
  open and the next one is appended to it (vata_460p3_iface_fsm.vhd:889, :1098);
* `GC_SET_MODE_M2` is entered with a running dwell counter, so that its set-up time,
  "100ns" at vata_460p3_iface_fsm.vhd:403, may be one cycle (:309). No property of a
  passing run is about that state; `LatchSetup` is about all others;
* a trigger that comes during an acquisition starts the acknowledge timer again when
  it rests, and that timer may abort an event already acknowledged: `AckedNotAborted`
  is about the timer an event's own trigger started, and only `PacketsWhole`,
  `PacketsNumbered` and `ChipInMode` hold of every abort
  (trigger_ack_timeout_fsm.vhd:57);
* a FIFO that was full loses a TLAST, after which 19-word reads straddle events
  (vata_ctrl.cpp:380); so does a server that ended in the middle of a packet. What
  holds then is `NoUnderflow`;
* a packet's length may be taken by another reader between the emitter's look and
  its read, or by a server that ended before it read the words: the emitter then gets
  length 0, returned as 0 for success, and puts what its buffer still holds into an
  event ("Return -1 if no data is available", vata_ctrl.cpp:365; history `stale` of
  `FifoPath`, excluded as `race` and `crash`);
* an expiry goes on from the element it erased (data_emitter.cpp:146). The freed node
  may still hold its links, but the erase may have moved its successor in its place,
  so that the walk passes over elements; or it reads what the allocator has written
  there. `Expire` does any of these or ends the process; `BuildsEvents`,
  `CompleteGoesOut` and `FifoDrained` hold for all, but old events may stay;
* data_emitter.hpp:21 says of `MAX_PACKET_MAP_SIZE` (5) "Once we get to this point,
  start checking for old packets to remove"; data_emitter.cpp:60 checks from 6 on.
  No property is stated of where the check begins;
* configuration data that comes late may be taken for another client's chip
  (silayer_server.cpp:121);
* 64-bit counters are read as two words: a carry in between gives a value up to 2^32
  too large, never too small (`CountersClose`, vata_ctrl.cpp:164);
* two processes that change one mask at the same time may lose a change, and two
  `set-counts` may send the input of one to the converter of the other
  (vata_ctrl.cpp:190, dac_ctrl.cpp:137): `NobodyElses` says what is left of
  the registers and of the converters then;
* a delay above some 25000 makes a DAC transfer outlast the 10 ms `set_counts` sleeps
  (dac_ctrl.cpp:142; up to 65535 is allowed, :26). The next call changes the bits on
  the wire and may lose its own write pulse: `CountsSet` says nothing then, `OnlyAsked`
  which DAC may take a word, and of which bits;
* `start-inf` during a counted run writes `n_pulses` 0 and its edge is lost; stopped
  then, the pulser goes on until its count comes round, 2^32 pulses at worst
  (pulse_trigger_fsm.vhd:124, :11). That is all `StopEnds` promises; `RunAsAsked` is
  about runs whose registers were left alone;
* a restarted server, and every run of `calctrl`, begin with default settings and
  write all of them at the first request, whatever the registers hold
  (cal_ctrl.cpp:76): `SettingsInStep` holds from the server's own first write;
* five of six source requests answer first and write then
  (silayer_server.cpp:331), so that the client's next command may overlap their write:
  `AnsweredIsDone` keeps it to these five, `NobodyElses` bounds what comes of it;
* `vatactrl` can pass `trigger_disable` a negative bit, which it does not refuse
  (vata_ctrl.cpp:198; section 5).

### Fairness

`VataFsm` and `CalPulse` assume that the clock runs; `VataFsm` also that a chip
asked to convert ends the conversion sooner or later (strong fairness of
`ConversionEnds`; the code waits for o5 without a timeout and could not return
otherwise). `DataEmitter` assumes its thread is scheduled. `LayerServer` assumes
that of both threads, that the supervisor restarts an ended process
(`autorestart`), and that the reply socket takes requests of all clients in turn
(strong fairness of receiving from each). Nothing is assumed of clients, tools,
the clock counter, triggers, software writes or the bus master.

`CHECK_DEADLOCK FALSE` appears only in `emitter`, where the thread ends after halt
and arrivals are bounded.

## 4. Proofs

The theorems hold for every value of the constants that satisfies the module's
assumption: any width, dwell time, timeout, packet length, number of chips,
clients or registers, any sessions of the server and any timing of its
surroundings. The assumptions are named in the modules (`SizeAssumption`,
`DwellAssumption`, `InputAssumption`, `EmitterAssumption`, `ServerAssumption`,
`ConfigAssumption`, `FifoAssumption`, `CalAssumption`, `DacAssumption`, `SendAssumption`,
`AxiAssumption`, `LibraryAssumption`). They give
constants their kind and say that sizes are not 0; beyond that they say that the
words hold the chip's register (`CfgBits <= NWords * WordBits`), that dwell times
fit their counter, that a session's requests and runs are ones the handlers and
tools know, that the values standing for nothing (`None`, `Absent`) are no data, that the
words of the protocol which are no numbers ("all", no number, missing) are none and differ,
that the bits of a mask are in order, and, for the identifiers, that a chip comes to
its header only after their transmission, which is so of all but the shortest
readouts (section 5).

| Theorem | Property | Argument |
|---|---|---|
| **`VataCoreProofs`** | | |
| `TypeCorrect` | `TypeOK` | inductive by itself; `MainFsmType` per edge, `StreamType` for the stream |
| `ChipAlwaysInMode` | `ChipInMode` | inductive with `TypeOK`; one case per edge |
| `AckedEventKept`, `PacketNeedsAck` | `AckedNotAborted`, `UnackedNotSent` | from `AckInv` |
| `PacketsAreWhole`, `ClosedPacketsComplete` | `PacketsWhole`, `PacketsEndWhole` | from `PacketInv` |
| `PacketsAreNumbered` | `PacketsNumbered` | from `NumberInv`, which needs `PacketInv` |
| `ModeIsSetUp` | `LatchSetup` | from `AgeInv` |
| `ReadoutAligned` | `Aligned` | from `AlignInv` |
| `AxiTypeCorrect` | `AxiType` | part of `AxiInv` |
| `WritesAnswered`, `WritesAreDone` | `EachWriteAnswered`, `WritesTakeEffect` | from `AxiInv`, whose `WriteInv` is the handshake |
| `ReadsAreCurrent` | `ReadIsCurrent` | from `AxiInv`, whose `ReadInv` is the handshake |
| **`DataEmitterProofs`** | | |
| `TypeCorrect` | `TypeOK` | `EmitterInv`, which numbers what waits in each FIFO |
| `CompleteEventsGoOut` | `CompleteGoesOut` | from `SendInv` |
| `EmitterBuildsEvents` | `BuildsEvents` | refinement: each action maps to `Gather`, `Publish` or a stutter; needs `HandledInv` |
| `FramesPublishedOnce` | `EventBuilder`'s `PublishedOnce` | `OnceInv` is kept by `EventBuilder`'s steps, and so by the emitter's |
| **`LayerServerProofs`** | | |
| `EachClientOnce`, `WaitersHaveThemDone` | `EachAnsweredOnce`, `AnsweredIsDone` | from `DialogueInv`; first that every program of `ServerRequests` holds its answers where they belong |
| `StatusIsTrue` | `FlagAgrees` | from `EmitterInv` |
| `SettingsHold` | `SettingsInStep` | from `SettingsInv`; first that no tool but `calctrl` writes a setting, and that `CalCtrl`'s programs write what it remembers |
| `HalvesAreClose` | `CountersClose` | from `CountersInv`: the high half was fetched right after the low one, or the low one was the last fetched |
| `OnlyWhatWasAsked` | `NobodyElses` | from `OpsInv`: what a register holds, and what is still to be written to it, is asked for by an overlapping operation or will be replaced by the same call; for the converters from `CountsInv`, and first that each program chooses converter and input as it was asked to before it sends (`RequestSends`, `RunSends`) |
| `AloneKeepsContract` | `AloneAsAsked` | from `AloneInv`: what is left of the only operation `Leads` to what it promises; first that each request and each run, call by call, makes of any register file what `LayerContract` says (`RequestFulfils`, `RunFulfils`) |
| **`VataConfigProofs`** | | |
| `TypeCorrect` | `TypeOK` | inductive with `ControlInv` |
| `ReadbackIsHarmless`, `ReadbackIsTrue`, `SetIsTaken` | `ReadbackKeeps`, `ReadbackTrue`, `SetTakes` | from `ConfigInv` |
| **`FifoPathProofs`** | | |
| `TypeCorrect`, `NeverUnderflows` | `TypeOK`, `NoUnderflow` | from `CountInv` |
| `StaysAligned` | `Aligned` | from `OrderInv`, which needs `CountInv` |
| `EventsComeOnce` | `EachEventOnce` | from `OnceInv`, which needs both |
| **`CalPulseProofs`** | | |
| `TypeCorrect` | `TypeOK` | inductive by itself |
| `TriggersOnTime`, `RunsAsAsked` | `TriggerOnTime`, `RunAsAsked` | from `ClockInv` and `PulseInv` |
| **`DacSerialProofs`** | | |
| `TypeCorrect` | `TypeOK` | inductive by itself |
| `DacsHoldTheirCounts`, `DacsTakeWhatIsAsked` | `CountsSet`, `OnlyAsked` | from `DacInv` |
| **`EventIdProofs`** | | |
| `TypeCorrect` | `TypeOK` | inductive by itself |
| `IdentifiersAgree`, `IdentifiersDiffer` | `IdsAgree`, `IdsDiffer` | from `EventInv` |
| `GoIsArmed` | `GoArmed` | from `GoInv`, a part of `EventInv` |

None of the safety properties but `ChipInMode` is inductive as it stands. The
strengthenings say what the code keeps without writing it down:

* `AckInv` ties the timer to the event: which timer states are possible while an
  event is being acquired, according to whether it was acknowledged and whose
  trigger started the timer. Without it an abort could come from a timer of which
  nothing is known. `PacketInv` ties `word` to the words on the stream, `NumberInv`
  the packets sent, the counter and the latched header, `AlignInv` the shifts made
  to the bits read. `AgeInv` ties the dwell counter to the clocks for which the mode
  pins were stable; it leaves out just the states a running counter is carried into.
* `SendInv`: an event is complete only between the store that completes it and the
  send that follows. `QueueInv` and `HandledInv` number the packets of each chip, so
  that a packet in hand is later than all that were put into the map; without that
  the same frame could be published twice.
* `DialogueInv`: while a request is handled unanswered, what is left of its program
  ends with an answer, and the client it came from has nothing else pending.
  `EmitterInv`: a halt is sent last. `SettingsInv`: each calibration register holds
  what the server remembers or is about to be written so by what is left of its
  program. `CountersInv` bounds the two halves of a counter by the value it had when
  the low one was fetched. `OpsInv` is about any number of overlapping operations:
  it says of each access still to be made that it is one of those an operation in
  `ops` may make, which no interleaving can change, where the values of the
  registers can. `CountsInv` adds for each write that may send: what is left of its
  program chooses converter and input first, or the registers already hold what was
  asked for, be it by another. That a program but `set_counts` leaves the three
  registers alone follows from the contract: whatever they hold before, they hold
  after it. `AloneInv` is about one operation that began on quiet registers, where
  they cannot either: it carries the register file that the rest of the program will
  reach.
* `ControlInv`: the server sleeps while a shift runs. `ShiftInv` says which bits are
  where in the middle of one: during a readback chip and shift register together
  are the configuration rotated. `WordInv` says it of the words before the loop's
  index.
* `CountInv` counts: what the readers have still to read and what was announced is
  covered by complete packets in the FIFO. `OrderInv` adds that its words follow one
  another as they were written, and that what is left to read brings the first one
  to the begin of a packet. `OnceInv` says that every event before that word was
  handed over or discarded.
* `ClockInv` ties the pulser's two counters to the clocks spent in a state,
  `PulseInv` the count to the pulses given.
* `CleanInv` says of a call that began on an idle interface how far the serial machine
  and the DAC's bits are with the word the call wrote, `DirtyInv` that any other call
  leaves nothing known of any DAC, `SureInv` that the DACs of which something is known
  are not selected while anything goes on, `BitsInv` that no DAC has seen more bits than
  were clocked out, `HeardInv` that a DAC which has seen as many has them in their
  places, each from what the input register held.
* `Bound` gives, for every state of FEE_ready, of gen_event_id_go and of the line, the
  clocks after which no identifier is on the line or asked for while FEE_busy stays
  high; `BoundStep` shows that it runs down, and `TimeInv` that no chip comes to its
  header, nor clears what it received, before it is over. Until then `FlagInv` keeps
  the flags of all chips in step with the line and `PartInv` the bits they took; after
  it `AgreeInv`, `NowInv` and `NewInv` say that those which have not written hold one
  identifier, used neither before nor by what was written, and `MarkInv` that the others
  hold zero, or are about to. `SentInv` ties the bits on the line and in the chips to the
  number sent. All of these hold from a busy period that begins settled
  (`SettledIsOrderly`) until a chip is enabled or disabled. The largest value of
  `Bound` is that of a rise of FEE_busy under a FEE_ready that is still high, which
  makes gen_event_id_go ask once more: hence `ReadyCycles` in `SendAssumption`.
* `WriteInv` and `ReadInv` are the handshakes: address and data are taken in one
  clock, and only when no answer is outstanding.

Lemmas on the edges (`AcquiringEdges`, `WfifoEdges`, `RiseEdges`) say which steps
enter and leave the regions of the state machine; every theorem's step cites them
rather than the machine. Induction over a set of numbers (`UpTo`) carries what is
said of the recursive function `Total` of `FifoPath`, and in `LayerServerProofs` of
the library's `FlattenSeq` and of sequences of mixed elements.

Only model-checked is liveness (`ReturnsToIdle`, `Answered`, `HaltEnds`, `FifoDrained`,
`StartTakesEffect`, `StopEnds`), which is out of the proof system's reach, and the three
violations of section 3, which are counterexamples.

A theorem `TypeCorrect` proves the type invariant its module states, which no run
checks beside it.

## 5. Not modelled

* Bit layouts and text formats, logging, the mapping of `/dev/mem` on first use,
  configuration files; pin sequences inside a state.
* Requests' words: a request is a group, a command and an argument that is a
  number, "all", no number, or missing. Numbers are natural. A negative one is refused
  like one that is too large, with one exception: `vatactrl --trigger-disable-bit -1`
  passes it to `trigger_disable`, which does not test for it (vata_ctrl.cpp:198) and
  shifts by it, which is undefined, and reports success. The server's
  `_parse_positive_int` keeps it from `trigger_disable`.
* The hit signals of `sync_vata_distn` to the trigger module: combinational gates
  towards a module that is not in this repository. `EventId` and `VataFsm` take
  triggers as inputs of any clock.
* Register files of the other cores: the same generated template as the one in
  `AxiSlave`, except that the DAC's never takes `aw_en` back. Byte strobes are taken
  as all set.
* Power cycling (a counter that is loaded and runs down) and the internal
  calibration toggle (a flip-flop): nothing depends on them.
* First-stage boot loader, block designs, board files, start-up and ground scripts:
  vendor or generated code, and scripts without state. `cal_pulse.vhd` is not
  instantiated.

`EventId` says nothing of the identifier in the packets of a chip whose hits are
disabled, of a busy period in which one was enabled or disabled, nor of a chip so
fast that it writes its header before the identifier is in. The transmission takes
640 clocks and the interface does not wait for it: a full readout lasts some 25000,
but o5 may end a readout at any bit (iface_fsm:701-711), and after one or two bits,
and a conversion that ends at once, a chip is at its header some 560 clocks after its
trigger and writes an identifier of which the last bits are missing.
`SendAssumption` states the margin and excludes such readouts.

## 6. Plan

Modelled and checked: every component that keeps state of its own. Proved: every
safety and action property of every passing run, and the refinement `BuildsEvents`.
Left is what section 5 lists.
