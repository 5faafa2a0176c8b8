# Verification of the MongoosePro JLR driver

TLA+ specifications of the Linux J2534 driver for the MongoosePro JLR adapter,
the TLC runs that check them on small instances, and TLAPS proofs of the
properties that matter most. Source paths are relative to the repository; line
numbers are in `PROJECT.json` under `map`.

## 1. The system

An application calls the J2534 functions (`src/j2534.cpp`) from any number of
threads. Each open device owns a `Session`, which sends one command at a time
over a `Transport` (tty or libusb) and matches the adapter's response. The
transport's own thread hands every received byte to the session's decoder;
responses go to the waiting command, everything else to the channel's
`CanReceiver`, where `PassThruReadMsgs` and timed `PassThruWriteMsgs` block.

| Component | State | Operations | Interacts with |
|---|---|---|---|
| Session (`session.cpp`) | command slot, pending request, sequence counter, quarantine, failure, closing, receiver | `command`, `receive`, `failed`, `set_can_receiver`, `close` | transport (calls, callbacks), receiver (`receive`, `stop`) |
| CanReceiver (`can.cpp`) | frame and message queues, loss flags, pending transmits, per-call counts, loopback, stop code | `receive`, `read`, `note_transmit`, `forget_transmit(s)`, `await_transmitted`, `flush_receive`, `set_loopback`, `stop` | reader thread, application threads |
| J2534 object model (`j2534.cpp`) | registries, handle counter, per device: lock, closed/reopen marks, channel, protocol, filters, periodic messages | the `PassThru*` calls | session, receiver, the adapter's tables |
| ISO15765 reassembler (`isotp.cpp`) | up to 32 conversations | `feed`, `reset` | called by CanReceiver |
| Codec (`codec.cpp`) | decoder buffer | `encode`, `request`, `Decoder::feed` | session |
| Configuration (`config.cpp`, `config_ioctl`) | the channel's parameters, in the adapter | GET_CONFIG, SET_CONFIG: routing, validation, one command per parameter | session, receiver (loopback) |
| Transports (`tty.cpp`, `usb.cpp`) | descriptor or transfers, worker thread, stopping/closed | `start`, `send`, `stop`, `pump` | session callbacks, kernel |
| Selector, factory, replay | none / script | parse, construct | `PassThruOpen`, tests |
| SocketCAN bridge (`tools/socketcan_bridge.c`) | socket, device, channel, filter, counters, stop flags, three threads | start-up, both pumps, statistics, shutdown | driver API, CAN socket, signals |
| Script runner (`tools/script_runner.c`) | handle names | one step per line, dry or live | driver API |
| Other tools, analysis, packaging | - | straight-line clients and offline helpers | - |

What is hard here: a response that arrives after its command has given up; a
failure that may or may not have reached the adapter, at any of the several
commands of one call; confirmations that overtake the response of the command
they confirm; calls that find their device in a registry and lock it only
later; waits that only another thread can end; small counters that wrap;
descriptors and USB transfers that are released under the threads using them;
callbacks that run on whichever thread is inside libusb; and byte and frame streams
with holes in them.
`PROJECT.json` lists these as hazards, each with its line and its properties.

What makes each component correct:

* Session: a command gets its own response or fails; a failure that leaves the
  session usable was never sent; no receiver is left running without a session
  that feeds it; everything returns.
* CanReceiver, receiving: bounded, in order, no loss unreported, wakes on stop.
* CanReceiver, transmitting: a call is credited with its own messages only.
* Object model: what the host believes of the adapter is true or the device is
  marked for reopening; a stale handle does nothing; nothing keeps transmitting
  on a channel that is reported closed.
* Reassembler: interleaved conversations do not disturb each other; a delivered
  message is one that was sent.
* Decoder: every frame is found again after noise, whatever the chunking.
* Transports: no use of a descriptor or transfer after it is released; a write
  reports what became of its bytes; everything taken from the system is given
  back; stop ends, and nothing happens after it.
* Configuration: a bad value changes nothing; a failed write leaves a prefix.
* Bridge: every frame is accounted for, once and in order; a signal ends it.
* Script runner: a dry run tells what the live run would make of the text.

## 2. Modules

| Module | Models | Notes |
|---|---|---|
| `CommandContract` | the promise of `Session::command` | abstract: no threads, numbers or time |
| `Session` | `session.cpp` | refines `CommandContract` |
| `CanReceiver` | receive half of `can.cpp`, `PassThruReadMsgs` | |
| `Transmit` | transmit half of `can.cpp`, `PassThruWriteMsgs` | composes writers, receiver and adapter; Session as its contract |
| `Device` | the rest of `j2534.cpp` | composes host and adapter state; Session as its contract |
| `IsoTp` | `isotp.cpp` | with ECUs and a faulty bus |
| `Codec` | `encode` and `Decoder` of `codec.cpp` | with a noisy wire |
| `Transport` | the contract of `transport.hpp` | abstract: what `Session` relies on |
| `Tty` | `tty.cpp` | refines `Transport` |
| `Usb` | `usb.cpp` | refines `Transport` |
| `Config` | `config.cpp`, `config_ioctl` | operators, used by `Script` |
| `Script` | `tools/script_runner.c` | a dry and a live run of one script, in step |
| `Bridge` | `tools/socketcan_bridge.c` | with the library's queue, the interface and signals |
| `SessionProofs`, `CanReceiverProofs`, `TransmitProofs`, `DeviceProofs`, `TtyProofs`, `UsbProofs` | | TLAPS proofs about the module in the name |
| `DecodersProofs` | | TLAPS proofs about `IsoTp` and `Codec` |
| `ToolsProofs` | | TLAPS proofs about `Bridge`, `Script` and `Config` |
| `MCDecoders` | | `IsoTp` and `Codec`: a behaviour drives one of them |
| `MCTools` | | `Bridge` and `Script`: a behaviour is one of the two programs |
| other `MC*` | | instances for TLC: symmetry sets only |

Definitions named `Mutant_*` stand beside the definition they distort; each is a
plausible slip in that piece of code which the named property catches. They take
no part in the specifications.

### Session

A thread's program counter passes through `slot` (waiting for `transaction_`),
`prepared` (request recorded, nothing written), `sending` (inside
`Transport::send`) and `waiting`. Each action is a stretch of code between two
points where a lock is released or the clock is read. Deadlines are not modelled
as times: wherever the code tests one, it may have passed. `used_` becomes `held`,
the set of numbers in quarantine, and `Age` lets ten seconds go by. A request the
transport took may be executed by the adapter at any later time and is answered
at most once, as the comment at session.cpp:101-108 reports of the hardware; both
adapter actions are external. A response may be too short or an unsolicited
indication. `TransportFaults` followed by `Failed` is the transport's callback:
the fault happens before the session hears of it.

### CanReceiver

Items (a frame, a reassembled message, a transmit indication or echo) are
numbered in the order of production, so a missing number is a gap. `queue` stands
for `frames_` or `messages_`, whichever the protocol uses. `dropped` and `garbled`
are history: what a reader has not been told. A read is a loop pass (`ReadLoop`),
which either finishes or gives up the mutex to wait; `ReadTimesOut` is its
deadline. How many items the reassembler makes of one ISO15765 frame (0 to 2) is
left open, which covers every reassembler.

### Transmit

A message is named by its call and its place in the batch. `Send` records it under
the sequence number its command will carry, exactly as `sequence_known` does;
`AdapterAccepts` and `AdapterTransmits` may then run before the writer sees the
response (`Accepted`). The adapter sends in buffer order, may silently drop, and
goes on confirming a periodic message under the number of the command that added
it, as the adapter of `tests/channel_tests.cpp` does. The lifecycle lock is explicit because a
timed write must give it up. Sequence numbers wrap. `reused` is history: the numbers
that were given to a command while a record, a message in the adapter or a periodic
message still had them. Until there is one, the counts are exact (`CreditExact`,
`CountsAreReal`); with or without, a confirmation reaches another message's record
only under such a number (`ShiftNeedsReuse`).

### Device

A call is `Lookup` (under `devices_mutex`) and then one action under the lifecycle
lock, or `Reject`. What a call does under the lock is written as a function of how
each of its commands ends - accepted, accepted without a handle, refused, failed
unsent, failed in doubt without or with effect - to the device afterwards and the
status returned. The last two, and the rule that a failure in doubt kills the
session, are what `CommandContract` allows. Beside the host's fields each device
carries its adapter's: the node of the open channel and the two tables. `Fault`
is a session failing between calls.

### IsoTp

`Feed` and its three cases are functions of the conversations and a frame, as in
the code. A payload byte is the pair of its message and its position, so any
mixture shows. ECUs segment messages as ISO 15765-2 says and pad the last frame.
The bus may lose a frame, repeat it or cut it down to its PCI byte, an ECU may
give up, and flow-control and unusable frames turn up. `Reset` is
CLEAR_RX_BUFFER. `intact`, `rivals`, `whole` and `owed` are history: whether every
frame of the current message arrived, which other ECUs began one meanwhile, and the
messages (number and length) that arrived whole, with those among them that the
conversation limit cannot have taken. `disturbed` counts, up to two, the faults of
an ECU since one of its first frames last arrived, and stays at two for good.

NoSplice allows any number of faults, and speaks of the ECUs that never met two with
no first frame arriving between them. Two such faults do splice: the last
frame of one message and the first frame of the next may both be lost, and the
second's consecutive frames, if their number fits, complete the first; or all
frames of a wrap of the sequence number are lost in a row. There is no
receive timer, which the vendor's code does not have either.

### Codec

A byte has `Bits` bits; the header is a length and the length combined by exclusive
or with `Key`, two bytes each. `Feed(n)` passes a chunk of n bytes through the loops
of `Decoder::feed`: `feed` over the bytes, `Settle` over the passes of the `while`,
both written as functions of the number of turns. The wire is a mixture of frames and noise.
FramesRecovered says what resynchronisation can promise: a frame is lost only if
it begins inside earlier bytes that looked like a frame.

### Transport, Tty, Usb

`Transport` is the contract: one write at a time, callbacks only while running,
and when stop returns neither is in progress, for good. Both transports are mapped
to it by their flags and program counters (`Contract`, `ContractHeld`).

In `Tty` each system call is a step with the outcomes the code tells apart, and a
failing constructor step runs `Cleanup`. The two mutexes are variables. A write's
deadline is the flag `late`, set by `Deadline` at any time and tested where the code
reads the clock. `wire` keeps the call each byte belongs to. Signals may interrupt any
number of system calls; `interrupts` keeps only whether that number is odd, so that
`SignalsCease` can say that from some time on there are no more.

In `Usb` a transfer has libusb's view (`transfer`) and the driver's (`pending`),
which differ between `CallbackSubmits` and `CallbackMarks`. Callbacks run on any
thread in `HandlesEvents`: the worker, but also a sender in
`libusb_bulk_transfer` and stop() in its control transfer, one at a time as libusb
serialises them. A transfer freed while libusb owns it is `"dangling"`. The adapter
stays plugged in; an unplugged one completes its transfers with an error
(`CallbackFaults`). `refused` holds the interfaces whose reattachment the kernel
refused. Like the code's, `Cleanup` only returns that something failed: the
constructor and a failing `start()` drop it, and a `stop()` of the application's throws
it (`reported`). `Overlap` says whether send() and stop() may overlap; the
transport must stand it, the Session does not do it.

### Config, Script

`SetConfig` gives the set of results of a SET_CONFIG: rejected as a whole, applied,
or cut off at some write, whose effect may be in doubt. `Script` chooses each line
as it is read, with the text faults a line can have, and runs it dry and live at
once. The library is reduced to which handles are open and the channel's
configuration; any call may fail.

### Bridge

`main`, `reader` and `reporter` are the three threads; `held` is what start-up has
acquired and not released. Frames are numbered on arrival on either side. `lost`,
`skipped`, `hostDrops` and `refused` are the ways to go astray; all but the
conversion skips are counters of the program, or the library's overflow flag.

## 3. Runs

| Run | Instance | Checks |
|---|---|---|
| `session_safety` | 2 threads, 3 commands, 2 numbers, 2 receivers | TypeOK, OwnResponse, FailedIsUnsent, NeverExhausted, NoOrphanReceiver, NoUseAfterStop |
| `session_calls` | 2 threads, 3 commands, 2 numbers | ImplementsContract (refines `CommandContract`), PoisonedEmitsNothing, CallsReturn |
| `receiver` | 2 readers, queue of 2, reads of 1-2, 3 items, ISO15765 | Safety (queue bound, StoppedHoldsNothing), LossFlagsExact, NoSilentGap, StopWakesReaders |
| `transmit` | 2 writers, 2 calls, batches of 2, 4 commands, 3 numbers, 2 records | Safety (record bound, CreditExact), CountsAreReal, ShiftNeedsReuse, WritersYield |
| `transmit_wrap` | 2 numbers, 3 records | finding: NoShiftedConfirmation fails |
| `device` | 2 threads, 4 IDs, 2 firmware handles, limits of 1 | TypeOK, HostAgrees, NoForgottenPeriodic, DisconnectSilences, NoStaleAction, IdsExact |
| `device_close` | 1 thread, 5 IDs | finding: CloseSilences fails |
| `decoders` | 3 ECUs, 2 conversations, messages of 1 and 3 frames, sequence modulo 2, 2 faults; 12 bytes of 2 values, bodies up to 2 | TypeOK, NoSplice, NoNeedlessLoss, FramesRecovered |
| `tty` | 2 threads, 2 writes of 2 bytes, any number of interruptions | Safety (NoUseAfterClose), WritesExact, PortReturned, ContractHeld (refines `Transport`), CallsReturn |
| `usb` | 2 threads, 2 interfaces, send against stop, 2 event failures | Safety (NoDanglingTransfer, NoUseAfterClose), InterfacesReturned, ContractHeld, QuietStopReturns |
| `usb_hang` | the same, send and stop apart, 1 event failure | finding: StopReturns fails |
| `tools` | bridge: batches of 2, queue of 2, 3 frames in and 2 out; script: 3 names, 2 slots, 4 handles | FramesAccounted, BridgeStops (CleanExit); DryRunAgrees, ConfigExact |

Bounds, and why they are enough. Two sequence numbers and three commands make a
number come round while an earlier command's answer may still be on its way, which
is all that 255 numbers add. Two threads give the one in the slot, the one waiting
for it and, in turn, the one that closes. A queue of two with three items reaches
full, partly full for a double item, lost, reported and beyond the gap (after a
malformed item); the theorems cover every other size. In `transmit` four
commands wrap three numbers, which are in use or free when they come round; the
violation run keeps the code's ratio of records to numbers (256 to 255, one more).
One adapter slot against two records makes the record list overflow. In `Device` four
IDs are a
device, a channel, and two entries or a second channel and an entry, and with two
threads are enough for a channel to be replaced while a call waits. The limits of 10
periodic messages and 64 flow filters are 1, with a firmware handle to spare. Three
ECUs against two conversations discard the oldest; a sequence number modulo 2 wraps
within a message of three frames; two faults may hit two ECUs, or one ECU in two of
its messages or within one. Twelve binary digits hold noise and two frames,
and headers occur in bodies and across frames. Two bytes make a partial write, two
calls contention. Two interfaces are what the adapter has; the first can be
detached and the second fail. `MaxCmds`, `MaxItems`, `MaxCalls`, `MaxCommands`,
`MaxHandle`, `MaxMessages`, `MaxFaults`, `MaxBytes`, `MaxErrors`,
`MaxIn` and `MaxOut` bound behaviours and are guards of the actions that count.
Deadlock is checked except in `device` and `device_close`, where the IDs run out and
every session may be dead, and in `decoders`, whose streams simply end.

Fairness. `Session`: a thread inside `command` or `close` keeps taking steps,
because every wait in them has a deadline of at most 60 s or is for a mutex whose
holder is such a thread, and the reader thread delivers a fault it has seen.
`CanReceiver` and `Transmit`: a thread that has been woken runs. `Tty`: threads
inside `send`, `stop` and `pump` run, because every poll has a timeout, and deadlines
pass; `CallsReturn` has the premise that signals cease (section 4 has the other case). `Usb`: likewise, and libusb completes a transfer that was cancelled as soon as
some thread handles events; data need never arrive. `Bridge`: its three threads run,
because every read and poll has a timeout. No fairness is assumed of the adapter, the
vehicle, callers, or the deadlines of reads and writes, which can be 49 days.

## 4. Findings

1. **Confirmations shift after a wrap** (`transmit_wrap`). `deliver_confirmed`
   takes the oldest record with the echoed number (can.cpp:189), whatever message
   was confirmed. The run shows a periodic message, still confirmed under the number
   of the command that added it, finishing a timed write that was given the same
   number, against can.cpp:136-137. By the same reuse a message the bus never took
   keeps its record and, after 255 further commands without a confirmation, takes
   that of a new message, which can.hpp:36-38 says cannot happen.
2. **Close can leave a periodic message running** (`device_close`). Disconnect
   drops the host's record of the messages before the adapter has removed them
   (j2534.cpp:88). If the firmware refuses the clear, Disconnect reports an error
   and the device must be reopened; Close then has nothing to clear and may return
   success. docs/VALIDATION.md:841-842 says nothing can keep transmitting. What the
   adapter does with its table when the board is closed is not documented; the
   model leaves it as it is, as the comment at j2534.cpp:81-82 does.
3. **stop() of the libusb transport can hang** (`usb_hang`). The worker's event loop
   fails; at that moment a thread inside `libusb_bulk_transfer` runs an input
   callback that has already seen `stopping_` false. The worker's `cancel()` finds
   the transfer not pending, the callback resubmits it, and the drain waits without
   cancelling again (usb.cpp:221-240). On a silent bus it waits for ever, and stop()
   with it. transport.hpp:26 says stop must work "even on error". While no event
   failure and no write meets the stop, it returns (`QuietStopReturns`).

Three disagreements and limits that were met on the way and are not findings of a run:

* tty.cpp:122 says "an EINTR storm, must not run past the caller's budget", but `send()`
  looks at the clock before a write only after the first byte (`sent > 0`), and not at
  all when a write was interrupted (tty.cpp:123 and 126). Signals that interrupt every
  write keep it in the loop: `SendReturns` alone, in place of `CallsReturn`, fails in
  the instance of `tty`. CallsReturn claims a return only once signals cease.
* usb.cpp:184 says "Explicit detachment lets cleanup report reattachment failures". The
  constructor's catch drops what `cleanup()` returns and rethrows the first error
  (usb.cpp:73), and a failing `start()` swallows the exception of the `stop()` it calls
  (usb.cpp:98): the interface is left without its driver and nothing says so. Only a
  `stop()` of the application's reports it, and InterfacesReturned claims no more.
* In listen-only mode the bridge's inner receive loop (socketcan_bridge.c:174) counts
  no refused frame, so while the interface is flooded without a pause it does not
  see the stop flag. `BridgeStops` is checked with a finite supply.

## 5. Proofs

Each `*Proofs` module has an inductive invariant, a conjunction of named parts
(`IInv`; `BridgeInv`, `IsoTpInv`, `SpliceInv` and `CodecInv` where a module covers
several components), one lemma per action or group of actions, and the theorems that
follow. The
bounds of the models (`MaxCalls` and the like) are arbitrary numbers in the proofs,
so a theorem covers behaviours of any length.

| Module | Theorems | Assumptions |
|---|---|---|
| `SessionProofs` | TypeOK, OwnResponse, FailedIsUnsent, NeverExhausted, NoOrphanReceiver, NoUseAfterStop, PoisonedEmitsNothing, ImplementsContract | `ConstAssumption`: there is a sequence number; `None` is distinct |
| `CanReceiverProofs` | Safety, LossFlagsExact, NoSilentGap | `ReceiverAssumption`: sizes are numbers |
| `TransmitProofs` | Safety, CountsAreReal, ShiftNeedsReuse | `TransmitAssumption`: there is a sequence number; the adapter's buffer is smaller than the record list |
| `DeviceProofs` | TypeOK, HostAgrees, NoForgottenPeriodic, DisconnectSilences, NoStaleAction, IdsExact | `DeviceAssumption`: limits are numbers; `None` is distinct |
| `TtyProofs` | Safety, WritesExact, PortReturned, ContractHeld | `TtyAssumption`: a write has at least one byte |
| `ToolsProofs` | FramesAccounted, CleanExit (the safety half of BridgeStops); DryRunAgrees, ConfigExact | `BridgeAssumption`: sizes are numbers, a batch is not empty; `ListsAssumption`: lists are of parameters and values |
| `DecodersProofs` | TypeOK, NoNeedlessLoss, NoSplice of `IsoTp`; FramesRecovered | `IsoTpAssumption`: a first frame carries no more than a consecutive one, lengths are within `MaxMessage`; `CodecAssumption`: a length and its check fit in two bytes |
| `UsbProofs` | Safety, InterfacesReturned, ContractHeld | `UsbAssumption`: the worker is not an application thread |

**Session.** OwnResponse is not inductive: a response is matched by number and node
only, and numbers are reused. `IInv` adds that the slot's owner is exactly the thread
inside the protected section (`SlotInv`), that commands are distinct and unfinished
ones have no outcome (`IdentityInv`), that while the session is usable any request or
response still under way belongs to the command in progress and there is at most one
(`OutstandingInv`), that an accepted response is that command's (`ResponseInv`), that
only the last number can be in quarantine and none while the slot is free (`HeldInv`),
and what closing and poisoning exclude (`LifecycleInv`). The argument: every way of
abandoning a request that was sent also makes the session unusable, so on a usable
session nothing is outstanding when the next command starts - whatever its number.
The refinement of `CommandContract` needs one fact more, that whatever was executed
or answered had been sent (`CausalInv`); every action then maps to one step of the
contract or to a stutter.

**CanReceiver.** Types, flags and emptiness are inductive together; NoSilentGap
follows because a read returns success only with both flags down, which by
LossFlagsExact means there is nothing left to report.

**Transmit.** Numbers wrap as often as they like; finding 1 is what comes of it, and
the theorems show that a number given away in use is the only cause. The core is
`RecordInv`: while no number in use was given away, no two records share one, no periodic
message has the number of a record, and the list ends with the messages in the adapter's
buffer, in the adapter's order, followed by the message whose command is unanswered.
So the first record under an echoed number is the message's own, and what is discarded
before it the adapter no longer holds. `NumberInv` is what remains true afterwards, and
gives ShiftNeedsReuse: two messages, or a message and a periodic one, have the same
number only if it is in `reused`. RecordInv survives a
confirmation that overtakes its response, a record pushed out of a full list (it is
never one the adapter still holds, because its buffer is smaller) and the removal of
the newest record when a command is refused or was never sent. `FrameInv` says that
no message is sent twice, `CallInv` who is inside the locked section.

**Device.** What host and adapter believe of each other is stated per device and
holds between any two calls. `TableInv`: the tables are finite, within their limits,
and name a firmware entry once. `ChannelInv`: a channel ID means a device that is not
closed, a receiver, an open channel of that protocol; no channel ID means empty
tables. `AdapterInv`: what the adapter of a device holds that is not marked for
reopening, and that a device without tracked or possibly untracked messages has none
running. Around it, `JobInv` says what a call may still assume of the object it found
before it got the lock, `RegistryInv` and `EntryInv` that IDs are issued once and name
one thing, and `ResultInv` what the finished calls reported. Each call is proved as a
function on a device, for every way its commands can end (`Commanded`,
`PeriodicsCleared`, `ChannelClosed`, `ConnectLeaves`, `TableCall`, `EndsChannel`).

**Tty.** `LockInv` ties each mutex to the program counters inside its section,
`PortInv` and `StopInv` what is open in which phase: the descriptor is closed only
after the reader has ended and with `io_mutex_` held. `WriteInv` numbers the writes in
the order in which they get that mutex and counts the bytes of the one that holds it;
the bytes on the wire are ordered by those numbers, hence never broken up.

**Usb.** Beside the locks (`LockInv`), phases (`PhaseInv`, `ThreadInv`) and the
kernel driver (`KernelInv`: until cleanup it lacks exactly the interfaces noted as
detached, afterwards those it refused), the invariant says which thread a callback may run on and
that its transfer is not pending (`CallbackInv`), that a transfer libusb owns and the
driver does not count is one whose callback is between submitting and marking
(`FlightInv`), and that a drain that is over has left none in flight (`DrainInv`). So
nothing is freed early even in the interleaving of finding 3, whose price is the hang.

**Bridge.** `HeldInv` reads off what main holds from its place in the code, and says
that the reader runs only between its creation and its join. `InwardInv` and
`OutwardInv` order the frames in all the places they pass through - library queue,
batch, interface; messages, bus - each entirely before the next, and count them.

**Script.** DryRunAgrees is inductive as it stands: while both runs go on they have
bound the same names, and what a line's text does to a run depends on nothing else.

**Config.** What `config_ioctl`'s loop has written after n turns is, for every
selector, the value of the last of the first n entries that names it; the proof goes
over the turns (`Prefix`), and ConfigExact then reads it off for the turn at which
the call ended.

**IsoTp.** None of the three properties is inductive. `IsoTpInv` follows one ECU: while
all frames of its message have arrived, a conversation of its identifier can only be
the one that holds exactly those frames' bytes and expects the next number (`InStep`),
and that conversation is in the table with only rivals' younger than it, unless there
have been `MaxConversations` rivals (`Kept`). A first frame puts its conversation last
and discards the first of a full table, so each rival can push it forward once only:
that gives NoNeedlessLoss for any faults. What a frame does to the conversations of
other ECUs is one lemma (`OthersStay`). NoSplice needs the other direction, that
nothing else can complete: while an ECU was not disturbed twice, a conversation of its
identifier is that of the current message with all its frames, or it waits for a
number that the next frame does not have (`Current`), so that the next frame ends it.
A lost or cut consecutive frame leaves the conversation one number behind or ends it;
a lost first frame would let an old conversation meet new frames, but only an earlier
fault with no first frame since can have left one: one that arrives replaces it.

**Codec.** `CodecInv` says, besides FramesRecovered's counts and order, that the
buffer is a stretch of the stream, that between bytes it *waits* - it is too short
for a header, or shows a valid header and less than its frame - and that every frame
sent before that stretch was delivered or begins inside one delivered. A waiting
buffer of four bytes or more keeps its header when a byte is appended; so a byte makes
the decoder slide only when it is the fourth, and completes a frame only as its last:
the `while` changes the decoder at most once per byte (`PushStep`). A slide passes no
frame that was sent, because its first four bytes would have been a valid header
(`HeaderSent`).

Two of these arguments are inductions over data - the turns of a loop, the bytes of a
chunk. They use that a set of numbers has a least element (`LeastOne`), from the
library's well-foundedness of `<`, for the first turn at which the claim fails; the
loops are recursive functions, whose existence is shown in the same way.

Both transports are mapped to `Transport` by their flags and program counters; from
`IInv` each action is one of its steps or a stutter.

Only model-checked:

* all liveness (`CallsReturn`, `StopWakesReaders`, `WritersYield`,
  `QuietStopReturns`, `BridgeStops`), which this prover cannot express; of
  `BridgeStops` the safety half is proved;
* that the checks and lengths of the real format fit in two bytes: `CodecAssumption`
  is assumed in the proof and evaluated for the instance, because the provers do not
  compute powers of two.

## 6. Not modelled

The byte layouts of requests and filters, voltages and versions, error texts, and
`last_error`; bad arguments are one rejecting action. Data races: all shared state
is under the mutexes the models use as atomic sections, and `stopping_` in the
transports is atomic. Failure of allocation is modelled only where the code handles
it (the two map insertions after an add, and starting a thread). The order in which
sysfs lists adapters, terminal settings and USB descriptors. What the script runner's
read steps print and count. Selector, factory and replay transport hold no state or
serve tests; `client.c`, `diagnostic.cpp` and `windows_reference.c` call the driver in
a fixed order and print what it returns; analysis scripts and packaging are not part
of the running system. See `components` in `PROJECT.json`.

## 7. Plan

The model is complete as far as section 6 says, and every invariant, action
property and refinement that a passing run checks is proved. What could be added: which
pairs of faults of one ECU splice its messages (NoSplice excludes all that no first
frame separates), and the reassembler inside `CanReceiver`, which now leaves open how
many items a frame makes.
