------------------------------- MODULE Bridge ------------------------------
(***************************************************************************)
(* mongoose-socketcan (tools/socketcan_bridge.c): a thread carries frames  *)
(* from the adapter to a CAN interface, main carries them the other way if *)
(* --transmit was given, a third thread may print statistics.  A signal or *)
(* a lost adapter ends all three and main gives back what it acquired.     *)
(*                                                                         *)
(* Frames are numbered in the order in which they arrive, on the vehicle   *)
(* bus and on the interface.  The library is the contract its own modules  *)
(* establish: a read takes what is queued and reports a loss once, a write *)
(* says how many frames the adapter accepted, and after a failure in doubt *)
(* every call fails.  The interface and other programs are external.       *)
(***************************************************************************)
EXTENDS Naturals, Sequences

CONSTANTS Batch,    \* frames moved per library call (32)
          Queue,    \* frames the library queues (4096)
          MaxIn,    \* bound: frames on the vehicle bus
          MaxOut,   \* bound: frames other programs write to the interface
          None

ASSUME BridgeAssumption ==
    Batch \in Nat \ {0} /\ Queue \in Nat /\ MaxIn \in Nat /\ MaxOut \in Nat

VARIABLES
    transmit, reporting,  \* --transmit; --stats and its thread was created
    main, reader, reporter, \* where each thread is
    stopping, failed,
    held,                 \* what main has acquired
    exit,                 \* exit status
    alive,                \* the session with the adapter works
    arrived, lost,        \* vehicle frames: all, and those a full queue lost
    queue, overflow,      \* frames the library holds; a loss it has not reported
    batch,                \* messages of vehicle_to_host
    iface,                \* frames it wrote to the interface
    skipped,              \* messages it read that are no received frames
    offered, received,    \* frames written to the interface; read by the bridge
    messages,             \* messages of host_to_vehicle
    bus,                  \* frames the adapter put on the bus
    toHost, hostDrops, overflows, toBus, refused

options == <<transmit, reporting>>
process == <<options, held, exit>>
inward == <<arrived, lost, queue, overflow, batch, iface, skipped, toHost, hostDrops, overflows>>
outward == <<offered, received, messages, bus, toBus, refused>>
bridgeVars == <<process, main, reader, reporter, stopping, failed, alive, inward, outward>>

Init ==
    /\ transmit \in BOOLEAN /\ reporting \in BOOLEAN
    /\ main = "parse" /\ reader = "none" /\ reporter = "none"
    /\ stopping = FALSE /\ failed = FALSE /\ held = {} /\ exit = None /\ alive = TRUE
    /\ arrived = 0 /\ lost = 0 /\ queue = <<>> /\ overflow = FALSE
    /\ batch = <<>> /\ iface = <<>> /\ skipped = 0
    /\ offered = 0 /\ received = 0 /\ messages = <<>> /\ bus = <<>>
    /\ toHost = 0 /\ hostDrops = 0 /\ overflows = 0 /\ toBus = 0 /\ refused = 0

Running == ~stopping /\ ~failed
Least(n, m) == IF n < m THEN n ELSE m
----------------------------------------------------------------------------
(* main(): acquire, run, join, release.                                    *)

\* Usage errors and --help end at once.
Parse ==
    /\ main = "parse"
    /\ \/ main' = "interface" /\ UNCHANGED exit
       \/ main' = "exit" /\ exit' \in {0, 2}
    /\ UNCHANGED <<options, held, reader, reporter, stopping, failed, alive, inward, outward>>

\* Each acquisition that fails jumps to the release of those before it.
Acquire(at, resource, next, label) ==
    /\ main = at
    /\ \/ held' = held \cup {resource} /\ main' = next
       \/ main' = label /\ UNCHANGED held
    /\ UNCHANGED <<options, exit, reader, reporter, stopping, failed, alive, inward, outward>>

OpenInterface == Acquire("interface", "socket", "open", "return")
Open == Acquire("open", "device", "connect", "close_socket")
Connect == Acquire("connect", "channel", "filter", "close_device")
StartFilter == Acquire("filter", "filter", "create", "disconnect")

CreateThreads ==
    /\ main = "create"
    /\ \/ /\ reader' = "loop" /\ main' = "loop"
          /\ reporter' = IF reporting THEN "loop" ELSE "none"
       \/ main' = "stop_filter" /\ UNCHANGED <<reader, reporter>>
    /\ UNCHANGED <<process, stopping, failed, alive, inward, outward>>

Join ==
    /\ main = "join" /\ reader = "ended" /\ reporter \in {"none", "ended"}
    /\ main' = "stop_filter" /\ exit' = IF failed THEN 1 ELSE 0
    /\ UNCHANGED <<options, held, reader, reporter, stopping, failed, alive, inward, outward>>

\* The labels at the end of main, which fall through.
After == [stop_filter |-> "disconnect", disconnect |-> "close_device",
          close_device |-> "close_socket", close_socket |-> "return"]
Released == [stop_filter |-> "filter", disconnect |-> "channel",
             close_device |-> "device", close_socket |-> "socket"]

Release ==
    /\ main \in DOMAIN After
    /\ main' = After[main]
    /\ held' = held \ {Released[main]}
    /\ UNCHANGED <<options, exit, reader, reporter, stopping, failed, alive, inward, outward>>

Return ==
    /\ main = "return" /\ main' = "exit" /\ exit' = IF exit = None THEN 1 ELSE exit
    /\ UNCHANGED <<options, held, reader, reporter, stopping, failed, alive, inward, outward>>
----------------------------------------------------------------------------
(* vehicle_to_host().                                                      *)

\* Bug: the reader does not look at what main found.
Mutant_ReaderLoop ==
    /\ reader = "loop" /\ reader' = IF ~stopping THEN "read" ELSE "ended"
    /\ UNCHANGED <<process, main, reporter, stopping, failed, alive, inward, outward>>

ReaderLoop ==
    /\ reader = "loop" /\ reader' = IF Running THEN "read" ELSE "ended"
    /\ UNCHANGED <<process, main, reporter, stopping, failed, alive, inward, outward>>

\* PassThruReadMsgs: what is queued, with a loss reported once.
Read(limit, idle) ==
    LET n == Least(limit, Len(queue))
    IN  /\ alive
        /\ batch' = SubSeq(queue, 1, n) /\ queue' = SubSeq(queue, n + 1, Len(queue))
        /\ overflow' = FALSE /\ overflows' = overflows + (IF overflow THEN 1 ELSE 0)
        /\ reader' = IF n = 0 /\ ~overflow THEN idle ELSE "write"
        /\ UNCHANGED failed

ReadFails ==
    /\ ~alive /\ failed' = TRUE /\ reader' = "ended"
    /\ UNCHANGED <<batch, queue, overflow, overflows>>

\* First without waiting; then for one frame, up to a timeout.
ReadBatch ==
    /\ \/ reader = "read" /\ (Read(Batch, "wait") \/ ReadFails)
       \/ reader = "wait" /\ (Read(1, "loop") \/ ReadFails)
    /\ UNCHANGED <<process, main, reporter, stopping, alive, outward>>
    /\ UNCHANGED <<arrived, lost, iface, skipped, toHost, hostDrops>>

\* to_socketcan passes over what is not a received frame; write() may fail.
WriteFrame ==
    /\ reader = "write"
    /\ \/ batch = <<>> /\ reader' = "loop" /\ UNCHANGED <<batch, iface, skipped, toHost, hostDrops>>
       \/ /\ batch # <<>> /\ batch' = Tail(batch) /\ UNCHANGED reader
          /\ \/ skipped' = skipped + 1 /\ UNCHANGED <<iface, toHost, hostDrops>>
             \/ /\ iface' = Append(iface, Head(batch)) /\ toHost' = toHost + 1
                /\ UNCHANGED <<skipped, hostDrops>>
             \/ hostDrops' = hostDrops + 1 /\ UNCHANGED <<iface, skipped, toHost>>
    /\ UNCHANGED <<process, main, reporter, stopping, failed, alive, outward>>
    /\ UNCHANGED <<arrived, lost, queue, overflow, overflows>>
----------------------------------------------------------------------------
(* host_to_vehicle(), in main, and print_stats().                          *)

MainLoop ==
    /\ main = "loop" /\ main' = IF Running THEN "poll" ELSE "join"
    /\ UNCHANGED <<process, reader, reporter, stopping, failed, alive, inward, outward>>

\* A timeout, a signal, an error, or something to receive.
Poll ==
    /\ main = "poll"
    /\ \/ main' = "loop" /\ UNCHANGED failed
       \/ main' = "join" /\ failed' = TRUE
       \/ received < offered /\ main' = "recv" /\ UNCHANGED failed
    /\ UNCHANGED <<process, reader, reporter, stopping, alive, inward, outward>>

\* Bug: frames are forwarded whether or not --transmit was given.
Mutant_RecvFrame ==
    /\ main = "recv" /\ received < offered /\ Len(messages) < Batch
    /\ received' = received + 1
    /\ \/ messages' = Append(messages, received') /\ UNCHANGED refused
       \/ refused' = refused + 1 /\ UNCHANGED messages
    /\ UNCHANGED <<main, offered, bus, toBus>>

\* from_socketcan refuses remote and error frames.
RecvFrame ==
    /\ main = "recv" /\ received < offered /\ Len(messages) < Batch
    /\ received' = received + 1
    /\ \/ transmit /\ messages' = Append(messages, received') /\ UNCHANGED refused
       \/ refused' = refused + 1 /\ UNCHANGED messages
    /\ UNCHANGED <<main, offered, bus, toBus>>

RecvEnds ==
    /\ main = "recv" /\ (received = offered \/ Len(messages) = Batch)
    /\ main' = IF messages = <<>> THEN "loop" ELSE "send"
    /\ UNCHANGED outward

Recv ==
    /\ RecvFrame \/ RecvEnds
    /\ UNCHANGED <<process, reader, reporter, stopping, failed, alive, inward>>

\* PassThruWriteMsgs with timeout 0: n frames accepted; the next one was
\* refused (the adapter's buffer is full), or its command is in doubt and the
\* session is lost.  A fatal status ends the bridge.
Send ==
    /\ main = "send" /\ main' = "loop" /\ messages' = <<>>
    /\ \E n \in 0 .. Len(messages) :
          /\ toBus' = toBus + n /\ refused' = refused + (Len(messages) - n)
          /\ \/ alive /\ bus' = bus \o SubSeq(messages, 1, n) /\ UNCHANGED <<alive, failed>>
             \/ /\ alive /\ n < Len(messages) /\ alive' = FALSE
                /\ bus' \in {bus \o SubSeq(messages, 1, n), bus \o SubSeq(messages, 1, n + 1)}
                /\ failed' \in {failed, TRUE}
             \/ ~alive /\ n = 0 /\ failed' = TRUE /\ UNCHANGED <<alive, bus>>
    /\ UNCHANGED <<process, reader, reporter, stopping, inward, offered, received>>

PrintStats ==
    /\ reporter = "loop" /\ reporter' = IF Running THEN "loop" ELSE "ended"
    /\ UNCHANGED <<process, main, reader, stopping, failed, alive, inward, outward>>
----------------------------------------------------------------------------
(* The world outside.                                                      *)

\* SIGINT or SIGTERM, once the handlers are installed.
Signal ==
    /\ ~stopping /\ main \notin {"parse", "interface", "exit"} /\ stopping' = TRUE
    /\ UNCHANGED <<process, main, reader, reporter, failed, alive, inward, outward>>

Arrive ==
    /\ arrived < MaxIn /\ alive /\ "filter" \in held /\ arrived' = arrived + 1
    /\ IF Len(queue) = Queue THEN lost' = lost + 1 /\ overflow' = TRUE /\ UNCHANGED queue
       ELSE queue' = Append(queue, arrived') /\ UNCHANGED <<lost, overflow>>
    /\ UNCHANGED <<process, main, reader, reporter, stopping, failed, alive, outward>>
    /\ UNCHANGED <<batch, iface, skipped, toHost, hostDrops, overflows>>

Offer ==
    /\ offered < MaxOut /\ "socket" \in held /\ offered' = offered + 1
    /\ UNCHANGED <<process, main, reader, reporter, stopping, failed, alive, inward>>
    /\ UNCHANGED <<received, messages, bus, toBus, refused>>

Unplug ==
    /\ alive /\ "device" \in held /\ alive' = FALSE
    /\ UNCHANGED <<process, main, reader, reporter, stopping, failed, inward, outward>>

MainStep ==
    \/ Parse \/ OpenInterface \/ Open \/ Connect \/ StartFilter \/ CreateThreads
    \/ MainLoop \/ Poll \/ Recv \/ Send \/ Join \/ Release \/ Return
ReaderStep == ReaderLoop \/ ReadBatch \/ WriteFrame
Exited == main = "exit" /\ UNCHANGED bridgeVars

Next ==
    \/ MainStep \/ ReaderStep \/ PrintStats
    \/ Signal \/ Arrive \/ Offer \/ Unplug \/ Exited

Spec == Init /\ [][Next]_bridgeVars

\* The threads run and every call they make returns: poll, the timed read and
\* the sleeps are bounded, and so are the commands of the library.
Fairness ==
    WF_bridgeVars(MainStep) /\ WF_bridgeVars(ReaderStep) /\ WF_bridgeVars(PrintStats)
FairSpec == Spec /\ Fairness
----------------------------------------------------------------------------
Increasing(s) == \A i, j \in 1 .. Len(s) : i < j => s[i] < s[j]

\* No frame is invented, repeated or reordered in either direction, the
\* counters account for every one of them, and a frame lost before the bridge
\* saw it shows as an overflow; nothing reaches the vehicle without --transmit,
\* and only a command in doubt can put one frame more on the bus than counted
\* (socketcan_bridge.c:140 to 187).
FramesAccounted ==
    /\ Increasing(iface) /\ Len(iface) = toHost
    /\ toHost + hostDrops + skipped + Len(batch) + Len(queue) + lost = arrived
    /\ lost > 0 => overflow \/ overflows > 0
    /\ Increasing(bus) /\ toBus + refused + Len(messages) = received
    /\ Len(bus) \in {toBus, toBus + 1} /\ (alive => Len(bus) = toBus)
    /\ ~transmit => bus = <<>>

\* No thread is left in a library call when its channel goes (the threads are
\* joined first), and the process exits, after a failed start-up too, with all
\* it acquired given back (socketcan_bridge.c:244 to 259).
CleanExit ==
    /\ reader \in {"read", "wait"} => "channel" \in held
    /\ main = "exit" => held = {}

\* Besides, after a signal or a fatal status the process does exit, with 0
\* only after a signal: no thread keeps another from ending.
BridgeStops ==
    /\ []CleanExit
    /\ (stopping \/ failed) ~> (main = "exit" /\ (exit = 0 => stopping))
============================================================================
