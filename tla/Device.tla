------------------------------ MODULE Device -------------------------------
(***************************************************************************)
(* The J2534 object model (src/j2534.cpp): handles, the device and channel *)
(* registries, and each device's view of what its adapter holds - an open  *)
(* channel, filters, periodic messages - beside what the adapter (external)*)
(* really holds.                                                           *)
(*                                                                         *)
(* A call finds its device in a registry under devices_mutex and only then *)
(* waits for the device's lifecycle lock, so the handle can go stale in    *)
(* between; these are two actions.  What a call does under the lock is one *)
(* action: nothing else touches the device then except a failing session,  *)
(* which is one of the ways each command can end:                          *)
(*   ok        accepted by the firmware                                    *)
(*   short     accepted, but the response lacks the entry's handle         *)
(*   refused   answered with an error status, not executed                 *)
(*   unsent    failed before the write; the session stays usable           *)
(*   lost      failed in doubt, not executed; the session is unusable      *)
(*   lostDone  failed in doubt although executed; likewise                 *)
(* which is what CommandContract leaves a caller to expect.                *)
(***************************************************************************)
EXTENDS Naturals, FiniteSets

CONSTANTS Threads,       \* application threads
          Objects,       \* Device objects that may be created
          MaxHandle,     \* last public ID (2^32 - 1 in the code)
          FwHandles,     \* handles the firmware gives table entries
          MaxPeriodics,  \* periodic messages per channel (10 in the code)
          MaxFlow,       \* flow-control filters per channel (64 in the code)
          None

ASSUME DeviceAssumption ==
    /\ MaxHandle \in Nat /\ MaxPeriodics \in Nat /\ MaxFlow \in Nat
    /\ None \notin Objects \cup Nat

Handles == 1 .. MaxHandle
Protocols == {"CAN", "ISO15765"}
Tables == {"pass", "block", "flow"}
Outcomes == {"ok", "short", "refused", "unsent", "lost", "lostDone"}
DeviceOps == {"Close", "Connect", "GetValue"}
ChannelOps == {"Disconnect", "StartPeriodic", "StopPeriodic", "ClearPeriodics",
               "StartFilter", "StopFilter", "ClearFilters", "Exchange", "Read"}

VARIABLES
    devices,     \* devices: public ID -> object, None where unused
    channels,    \* channels: likewise
    nextHandle,  \* next_handle
    dev,         \* the Device objects and their adapters
    pc,          \* per thread: "idle" or "found"
    job,         \* per thread: the call it makes
    result       \* history: the last call to run, the channel it found, its status

registryVars == <<devices, channels, nextHandle>>
vars == <<registryVars, dev, pc, job, result>>

\* The first ten fields are Device's own (usable stands for its session),
\* the last three the adapter's: the node of the open channel and the two
\* tables.
Fresh ==
    [exists |-> FALSE, closed |-> FALSE, reopen |-> FALSE, usable |-> TRUE,
     wireOpen |-> FALSE, untracked |-> FALSE, channel |-> 0, protocol |-> "CAN",
     receiver |-> "none", filters |-> {}, periodics |-> {},
     node |-> "none", fwFilters |-> {}, fwPeriodics |-> {}]

NoJob == [op |-> "none", id |-> 0, obj |-> None]

Init ==
    /\ devices = [h \in Handles |-> None]
    /\ channels = [h \in Handles |-> None]
    /\ nextHandle = 1
    /\ dev = [o \in Objects |-> Fresh]
    /\ pc = [t \in Threads |-> "idle"]
    /\ job = [t \in Threads |-> NoJob]
    /\ result = [job |-> NoJob, channel |-> 0, ok |-> TRUE]

---------------------------------------------------------------------------
(* Commands.  d is a device before the command, eff the device with the    *)
(* command's effect on the adapter, o how the command ends.                *)

\* A session that has failed fails every command.
Out(d, o) == IF d.usable THEN o ELSE "lost"
Accepted(d, o) == Out(d, o) \in {"ok", "short"}
Halt(receiver) == IF receiver = "none" THEN "none" ELSE "stopped"

\* The session dies, and the receiver it feeds is stopped.
Fail(d) == [d EXCEPT !.usable = FALSE, !.receiver = Halt(@)]

\* Session::command, as its contract: a failure in doubt kills the session.
Command(d, o, eff) ==
    LET e == IF Out(d, o) \in {"ok", "short", "lostDone"} THEN eff ELSE d
    IN  IF Out(d, o) \in {"lost", "lostDone"} THEN Fail(e) ELSE e

\* Mutant: an uncertain channel loses its receiver.
Mutant_Uncertain(d) == [d EXCEPT !.reopen = TRUE, !.receiver = "none"]

\* uncertain_channel
Uncertain(d) == [d EXCEPT !.reopen = TRUE, !.receiver = Halt(@)]

\* channel_command: addressed to the node of the device's protocol, where it
\* reaches only a channel that is open there; a failure that leaves the
\* session unusable makes the channel uncertain.
ChannelCommand(d, o, eff) ==
    LET e == Command(d, o, IF d.node \in {"none", d.protocol} THEN eff ELSE d)
    IN  IF Out(d, o) \in {"unsent", "lost", "lostDone"} /\ ~e.usable
        THEN Uncertain(e) ELSE e

---------------------------------------------------------------------------
(* What each call does under the lifecycle lock, as a function of how its  *)
(* commands end: the device afterwards and the status returned.            *)

Ret(d, ok) == [dev |-> d, ok |-> ok]

HadPeriodic(d) == d.untracked \/ d.periodics # {}

\* Mutant: the protocol is reset with the rest.
Mutant_Retire(d) ==
    [d EXCEPT !.receiver = "none", !.filters = {}, !.periodics = {},
              !.channel = 0, !.protocol = "CAN"]

\* retire_channel, but for the registry entry.  protocol stays.
Retire(d) ==
    [d EXCEPT !.receiver = "none", !.filters = {}, !.periodics = {},
              !.channel = 0]

\* clear_periodic_table
ClearPeriodics(d, o) ==
    LET e == ChannelCommand(d, o, [d EXCEPT !.fwPeriodics = {}])
    IN  IF Accepted(d, o)
        THEN Ret([e EXCEPT !.periodics = {}, !.untracked = FALSE], TRUE)
        ELSE Ret(e, FALSE)

\* cCloseChannel; the adapter forgets the channel's filters with it.
CloseChannel(d, o) ==
    LET e == ChannelCommand(d, o, [d EXCEPT !.node = "none", !.fwFilters = {}])
    IN  IF Accepted(d, o) THEN Ret([e EXCEPT !.wireOpen = FALSE], TRUE)
        ELSE Ret(e, FALSE)

\* Mutant: the clear's error is not reported.
Mutant_Disconnect(d, o1, o2) ==
    LET r == Retire(d)
        c == IF HadPeriodic(d) THEN ClearPeriodics(r, o1) ELSE Ret(r, TRUE)
        e == CloseChannel(c.dev, o2)
    IN  Ret([e.dev EXCEPT !.reopen = @ \/ ~e.ok], e.ok)

\* The channel is gone for the host whatever happens; if either command
\* fails the device must be reopened.
Disconnect(d, o1, o2) ==
    LET r == Retire(d)
        c == IF HadPeriodic(d) THEN ClearPeriodics(r, o1) ELSE Ret(r, TRUE)
        e == CloseChannel(c.dev, o2)
        ok == c.ok /\ e.ok
    IN  Ret([e.dev EXCEPT !.reopen = @ \/ ~ok], ok)

\* Close runs every step whatever the ones before it did, and then reports
\* an error; clean is whether Session::close stops the transport without one.
Close(d, o1, o2, o3, clean) ==
    LET r == [Retire(d) EXCEPT !.closed = TRUE]
        c == IF d.wireOpen /\ HadPeriodic(d) THEN ClearPeriodics(r, o1)
             ELSE Ret(r, TRUE)
        e == IF d.wireOpen THEN CloseChannel(c.dev, o2) ELSE Ret(c.dev, TRUE)
        s == Command(e.dev, o3, e.dev)
    IN  Ret([s EXCEPT !.usable = FALSE],
            c.ok /\ e.ok /\ Accepted(e.dev, o3) /\ clean)

\* Connect: open the channel, then start its receive path; if that fails
\* the channel is closed again, or the device must be reopened.
Connect(d, id, p, o1, o2, o3) ==
    LET d0 == [d EXCEPT !.protocol = p]
        d1 == ChannelCommand(d0, o1, [d0 EXCEPT !.node = p])
        d2 == [d1 EXCEPT !.wireOpen = TRUE]
        d3 == ChannelCommand(d2, o2, d2)
        undone == CloseChannel(d3, o3)
    IN  IF ~Accepted(d0, o1) THEN Ret(d1, FALSE)
        ELSE IF Accepted(d2, o2)
        THEN Ret([d3 EXCEPT !.channel = id, !.receiver = "live"], TRUE)
        ELSE IF d3.reopen THEN Ret(d3, FALSE)
        ELSE Ret([undone.dev EXCEPT !.reopen = @ \/ ~undone.ok], FALSE)

\* Mutant: the entry counts as tracked while the add is in flight.
Mutant_StartPeriodic(d, id, fw, o1, stored, o2) ==
    LET e == ChannelCommand(d, o1, [d EXCEPT !.fwPeriodics = @ \cup {fw}])
    IN  IF Out(d, o1) = "short" THEN Ret(Uncertain(e), FALSE)
        ELSE IF Out(d, o1) # "ok" THEN Ret(e, FALSE)
        ELSE Ret([e EXCEPT !.periodics = @ \cup {[id |-> id, fw |-> fw]}], TRUE)

\* StartPeriodicMsg.  stored is whether the map has room for the entry; if
\* not, it is removed from the adapter again.
StartPeriodic(d, id, fw, o1, stored, o2) ==
    LET d0 == [d EXCEPT !.untracked = TRUE]
        e == ChannelCommand(d0, o1, [d0 EXCEPT !.fwPeriodics = @ \cup {fw}])
        f == ChannelCommand(e, o2, [e EXCEPT !.fwPeriodics = @ \ {fw}])
    IN  CASE Out(d, o1) = "refused" -> Ret([e EXCEPT !.untracked = d.untracked], FALSE)
          [] Out(d, o1) = "short" -> Ret(Uncertain(e), FALSE)
          [] Out(d, o1) \in {"unsent", "lost", "lostDone"} -> Ret(e, FALSE)
          [] Out(d, o1) = "ok" /\ stored ->
               Ret([e EXCEPT !.periodics = @ \cup {[id |-> id, fw |-> fw]},
                             !.untracked = d.untracked], TRUE)
          [] Out(d, o1) = "ok" /\ ~stored ->
               Ret(IF Accepted(e, o2) THEN [f EXCEPT !.untracked = d.untracked]
                   ELSE Uncertain(f), FALSE)

\* StopPeriodicMsg: the entry is forgotten only once the adapter has
\* removed it.
StopPeriodic(d, p, o) ==
    LET e == ChannelCommand(d, o, [d EXCEPT !.fwPeriodics = @ \ {p.fw}])
    IN  IF Accepted(d, o) THEN Ret([e EXCEPT !.periodics = @ \ {p}], TRUE)
        ELSE Ret(e, FALSE)

InTable(entries, table) == {x \in entries : x.table = table}

\* StartMsgFilter
StartFilter(d, id, fw, table, o1, stored, o2) ==
    LET new == [fw |-> fw, table |-> table]
        e == ChannelCommand(d, o1, [d EXCEPT !.fwFilters = @ \cup {new}])
        f == ChannelCommand(e, o2, [e EXCEPT !.fwFilters = @ \ {new}])
    IN  CASE Out(d, o1) = "short" -> Ret(Uncertain(e), FALSE)
          [] Out(d, o1) \in {"refused", "unsent", "lost", "lostDone"} -> Ret(e, FALSE)
          [] Out(d, o1) = "ok" /\ stored ->
               Ret([e EXCEPT !.filters = @ \cup {[id |-> id, fw |-> fw, table |-> table]}],
                   TRUE)
          [] Out(d, o1) = "ok" /\ ~stored ->
               Ret(IF Accepted(e, o2) THEN f ELSE Uncertain(f), FALSE)

\* Mutant: the filter is removed from the pass table, whatever its own.
Mutant_StopFilter(d, x, o) ==
    LET e == ChannelCommand(d, o, [d EXCEPT !.fwFilters = @ \
                                     {[fw |-> x.fw, table |-> "pass"]}])
    IN  IF Accepted(d, o) THEN Ret([e EXCEPT !.filters = @ \ {x}], TRUE)
        ELSE Ret(e, FALSE)

\* StopMsgFilter: removed from the table it was added to.
StopFilter(d, x, o) ==
    LET e == ChannelCommand(d, o, [d EXCEPT !.fwFilters = @ \
                                     {[fw |-> x.fw, table |-> x.table]}])
    IN  IF Accepted(d, o) THEN Ret([e EXCEPT !.filters = @ \ {x}], TRUE)
        ELSE Ret(e, FALSE)

\* One turn of the CLEAR_MSG_FILTERS loop: skipped after a failure, and for
\* a table the channel has not used.
ClearTable(r, table, o) ==
    LET d == r.dev
        e == ChannelCommand(d, o, [d EXCEPT !.fwFilters = @ \ InTable(@, table)])
    IN  IF ~r.ok \/ InTable(d.filters, table) = {} THEN r
        ELSE IF Accepted(d, o)
        THEN Ret([e EXCEPT !.filters = @ \ InTable(@, table)], TRUE)
        ELSE Ret(e, FALSE)

ClearFilters(d, o1, o2, o3) ==
    ClearTable(ClearTable(ClearTable(Ret(d, TRUE), "pass", o1), "block", o2),
               "flow", o3)

\* CLEAR_PERIODIC_MSGS says nothing to the adapter when it has nothing.
ClearPeriodicMsgs(d, o) ==
    IF HadPeriodic(d) THEN ClearPeriodics(d, o) ELSE Ret(d, TRUE)

\* A channel command with no effect on the tables: WriteMsgs, SET_CONFIG,
\* GET_CONFIG, CLEAR_RX_BUFFER, CLEAR_TX_BUFFER.
Exchange(d, o) == Ret(ChannelCommand(d, o, d), Accepted(d, o))

\* ReadMsgs copies the receiver under the lock and reads from it after.
Read(d) == Ret(d, d.receiver # "none")

\* A device-level query (ReadVersion, READ_VBATT) does not go through
\* channel_command: its failure leaves the channel certain.
GetValue(d, o) == Ret(Command(d, o, d), Out(d, o) = "ok")

---------------------------------------------------------------------------
(* What the calls require before they allocate an ID or send anything.     *)

MayConnect(d) == d.channel = 0

\* Mutant: one message too many.
Mutant_MayStartPeriodic(d) ==
    d.protocol = "CAN" /\ Cardinality(d.periodics) <= MaxPeriodics

MayStartPeriodic(d) ==
    d.protocol = "CAN" /\ Cardinality(d.periodics) < MaxPeriodics

MayStartFilter(d, table) ==
    IF d.protocol = "CAN" THEN table \in {"pass", "block"}
    ELSE table = "flow" /\ Cardinality(InTable(d.filters, "flow")) < MaxFlow

---------------------------------------------------------------------------
(* The calls.                                                              *)

\* PassThruOpen that succeeds: the device exists and is registered.  One that
\* fails leaves nothing behind but the error.
Open(o) ==
    /\ ~dev[o].exists
    /\ nextHandle <= MaxHandle
    /\ devices' = [devices EXCEPT ![nextHandle] = o]
    /\ nextHandle' = nextHandle + 1
    /\ dev' = [dev EXCEPT ![o] = [Fresh EXCEPT !.exists = TRUE]]
    /\ UNCHANGED <<channels, pc, job, result>>

\* lookup, up to the release of devices_mutex.
Lookup(t, op, h) ==
    /\ pc[t] = "idle"
    /\ LET o == IF op \in DeviceOps THEN devices[h] ELSE channels[h]
       IN  /\ o # None
           /\ job' = [job EXCEPT ![t] = [op |-> op, id |-> h, obj |-> o]]
    /\ pc' = [pc EXCEPT ![t] = "found"]
    /\ UNCHANGED <<registryVars, dev, result>>

\* Mutant: only a closed device is stale.
Mutant_Stale(j) == dev[j.obj].closed

\* LockedDevice: the handle died while the call waited for the lock.
Stale(j) ==
    \/ dev[j.obj].closed
    \/ j.op \in ChannelOps /\ dev[j.obj].channel # j.id

\* The call returns an error and has changed nothing: its handle is stale,
\* the device must be reopened, the IDs have run out, or an argument is bad.
Reject(t) ==
    /\ pc[t] = "found"
    /\ pc' = [pc EXCEPT ![t] = "idle"]
    /\ job' = [job EXCEPT ![t] = NoJob]
    /\ UNCHANGED <<registryVars, dev, result>>

\* Thread t holds the lifecycle lock of a live handle of its call op.
Holds(t, op) ==
    /\ pc[t] = "found"
    /\ job[t].op = op
    /\ ~Stale(job[t])
    /\ op \notin {"Close", "Disconnect"} => ~dev[job[t].obj].reopen

Device(t) == dev[job[t].obj]

\* The call leaves the device as r.dev and returns r.ok.
Return(t, r) ==
    /\ dev' = [dev EXCEPT ![job[t].obj] = r.dev]
    /\ pc' = [pc EXCEPT ![t] = "idle"]
    /\ job' = [job EXCEPT ![t] = NoJob]
    /\ result' = [job |-> job[t], channel |-> Device(t).channel, ok |-> r.ok]

\* Mutant: the ID is taken but not counted.
Mutant_Allocate == nextHandle <= MaxHandle /\ nextHandle' = nextHandle

\* allocate_handle: IDs are not reused, not even those of calls that fail.
Allocate == nextHandle <= MaxHandle /\ nextHandle' = nextHandle + 1

\* Mutant: a retired channel stays in the registry.
Mutant_WithoutChannel(d) == channels

\* The registry without the channel that retire_channel retires.
WithoutChannel(d) ==
    [h \in Handles |-> IF h = d.channel THEN None ELSE channels[h]]

PassThruClose(t) ==
    /\ Holds(t, "Close")
    /\ \E r \in {Close(Device(t), o1, o2, o3, clean) :
                  o1, o2, o3 \in Outcomes, clean \in BOOLEAN} : Return(t, r)
    /\ devices' = [devices EXCEPT ![job[t].id] = None]
    /\ channels' = WithoutChannel(Device(t))
    /\ UNCHANGED nextHandle

PassThruConnect(t) ==
    /\ Holds(t, "Connect") /\ MayConnect(Device(t)) /\ Allocate
    /\ \E r \in {Connect(Device(t), nextHandle, p, o1, o2, o3) :
                  p \in Protocols, o1, o2, o3 \in Outcomes} :
          /\ Return(t, r)
          /\ channels' = IF r.ok THEN [channels EXCEPT ![nextHandle] = job[t].obj]
                         ELSE channels
    /\ UNCHANGED devices

PassThruDisconnect(t) ==
    /\ Holds(t, "Disconnect")
    /\ \E r \in {Disconnect(Device(t), o1, o2) : o1, o2 \in Outcomes} : Return(t, r)
    /\ channels' = WithoutChannel(Device(t))
    /\ UNCHANGED <<devices, nextHandle>>

PassThruStartPeriodicMsg(t) ==
    /\ Holds(t, "StartPeriodic") /\ MayStartPeriodic(Device(t)) /\ Allocate
    /\ \E r \in {StartPeriodic(Device(t), nextHandle, fw, o1, stored, o2) :
                  fw \in FwHandles \ Device(t).fwPeriodics, stored \in BOOLEAN,
                  o1, o2 \in Outcomes} : Return(t, r)
    /\ UNCHANGED <<devices, channels>>

PassThruStopPeriodicMsg(t) ==
    /\ Holds(t, "StopPeriodic")
    /\ \E p \in Device(t).periodics, o \in Outcomes :
          Return(t, StopPeriodic(Device(t), p, o))
    /\ UNCHANGED registryVars

PassThruStartMsgFilter(t) ==
    /\ Holds(t, "StartFilter") /\ Allocate
    /\ \E table \in Tables, fw \in FwHandles :
          /\ MayStartFilter(Device(t), table)
          /\ [fw |-> fw, table |-> table] \notin Device(t).fwFilters
          /\ \E r \in {StartFilter(Device(t), nextHandle, fw, table, o1, stored, o2) :
                        stored \in BOOLEAN, o1, o2 \in Outcomes} : Return(t, r)
    /\ UNCHANGED <<devices, channels>>

PassThruStopMsgFilter(t) ==
    /\ Holds(t, "StopFilter")
    /\ \E x \in Device(t).filters, o \in Outcomes :
          Return(t, StopFilter(Device(t), x, o))
    /\ UNCHANGED registryVars

\* PassThruIoctl's CLEAR_MSG_FILTERS and CLEAR_PERIODIC_MSGS
ClearIoctl(t) ==
    /\ \/ /\ Holds(t, "ClearFilters")
          /\ \E r \in {ClearFilters(Device(t), o1, o2, o3) : o1, o2, o3 \in Outcomes} :
                Return(t, r)
       \/ /\ Holds(t, "ClearPeriodics")
          /\ \E r \in {ClearPeriodicMsgs(Device(t), o) : o \in Outcomes} : Return(t, r)
    /\ UNCHANGED registryVars

\* The calls that leave the tables alone.
Converse(t) ==
    /\ \/ Holds(t, "Exchange") /\ \E o \in Outcomes : Return(t, Exchange(Device(t), o))
       \/ Holds(t, "GetValue") /\ \E o \in Outcomes : Return(t, GetValue(Device(t), o))
       \/ Holds(t, "Read") /\ Return(t, Read(Device(t)))
    /\ UNCHANGED registryVars

\* The session fails outside any call: the transport broke, or a protocol
\* violation arrived.  The device is not told; its receiver is stopped.
Fault(o) ==
    /\ dev[o].exists /\ dev[o].usable
    /\ dev' = [dev EXCEPT ![o] = Fail(@)]
    /\ UNCHANGED <<registryVars, pc, job, result>>

Call(t) ==
    \/ \E op \in DeviceOps \cup ChannelOps, h \in Handles : Lookup(t, op, h)
    \/ Reject(t)
    \/ PassThruClose(t) \/ PassThruConnect(t) \/ PassThruDisconnect(t)
    \/ PassThruStartPeriodicMsg(t) \/ PassThruStopPeriodicMsg(t)
    \/ PassThruStartMsgFilter(t) \/ PassThruStopMsgFilter(t)
    \/ ClearIoctl(t) \/ Converse(t)

Next ==
    \/ \E t \in Threads : Call(t)
    \/ \E o \in Objects : Open(o) \/ Fault(o)

Spec == Init /\ [][Next]_vars

---------------------------------------------------------------------------
(* Properties.                                                             *)

\* Every variable has its type, and no channel ever has more periodic
\* messages or flow-control filters than the code allows.
TypeOK ==
    /\ devices \in [Handles -> Objects \cup {None}]
    /\ channels \in [Handles -> Objects \cup {None}]
    /\ nextHandle \in 1 .. MaxHandle + 1
    /\ \A o \in Objects :
         /\ dev[o] \in [exists : BOOLEAN, closed : BOOLEAN, reopen : BOOLEAN,
              usable : BOOLEAN, wireOpen : BOOLEAN, untracked : BOOLEAN,
              channel : 0 .. MaxHandle, protocol : Protocols,
              receiver : {"none", "live", "stopped"},
              filters : SUBSET [id : Handles, fw : FwHandles, table : Tables],
              periodics : SUBSET [id : Handles, fw : FwHandles],
              node : Protocols \cup {"none"},
              fwFilters : SUBSET [fw : FwHandles, table : Tables],
              fwPeriodics : SUBSET FwHandles]
         /\ Cardinality(dev[o].periodics) <= MaxPeriodics
         /\ Cardinality(InTable(dev[o].filters, "flow")) <= MaxFlow
    /\ pc \in [Threads -> {"idle", "found"}]
    /\ \A t \in Threads : (pc[t] = "found") = (job[t] # NoJob)

\* The host still vouches for what it keeps about the device.
Certain(d) == d.exists /\ ~d.closed /\ ~d.reopen

\* Until a device is closed or marked for reopening, host and adapter agree
\* whether a channel is open and on which node, however the commands of
\* earlier calls failed: in particular after a Connect that failed half way
\* and after a Disconnect of either protocol.
ChannelAgrees ==
    \A o \in Objects : LET d == dev[o] IN Certain(d) =>
        /\ (d.channel # 0) = d.wireOpen
        /\ d.wireOpen = (d.node # "none")
        /\ d.wireOpen => d.node = d.protocol

\* The filters and periodic messages the host tracks for an open, certain
\* channel are those of the adapter, entry for entry and in the same tables;
\* the adapter may hold further periodic messages only while the device
\* remembers that it may.
TablesAgree ==
    \A o \in Objects : LET d == dev[o] IN Certain(d) /\ d.channel # 0 =>
        /\ {[fw |-> x.fw, table |-> x.table] : x \in d.filters} = d.fwFilters
        /\ {p.fw : p \in d.periodics} \subseteq d.fwPeriodics
        /\ ~d.untracked => {p.fw : p \in d.periodics} = d.fwPeriodics

\* Host and adapter agree on everything the host vouches for.
HostAgrees == ChannelAgrees /\ TablesAgree

\* As long as the channel is open for the host - even uncertain - a periodic
\* message in the adapter is one that Disconnect and Close know to clear.
NoForgottenPeriodic ==
    \A o \in Objects : LET d == dev[o] IN
        d.channel # 0 /\ d.fwPeriodics # {} => HadPeriodic(d)

\* A Disconnect that reports success has silenced the adapter: no periodic
\* message is left transmitting.
DisconnectSilences ==
    result.job.op = "Disconnect" /\ result.ok =>
        dev[result.job.obj].fwPeriodics = {}

\* Whenever a channel ID is valid its receiver is there, running or stopped:
\* ReadMsgs uses it without a test.
ReceiverPresent ==
    \A o \in Objects : (dev[o].channel # 0) = (dev[o].receiver # "none")

\* A call acts only on the channel its ID was issued for, even when that
\* channel was closed, and another opened on the same device, while the
\* call waited for the lifecycle lock.
NoStaleAction ==
    result.job.op \in ChannelOps => result.job.id = result.channel

\* The registries hold exactly the live devices and channels, each once.
RegistryExact ==
    /\ \A o \in Objects, h \in Handles :
         (channels[h] = o) = (dev[o].channel = h)
    /\ \A o \in Objects :
         Cardinality({h \in Handles : devices[h] = o})
           = IF dev[o].exists /\ ~dev[o].closed THEN 1 ELSE 0
    /\ \A o \in Objects : dev[o].closed => dev[o].channel = 0

\* An ID is issued once: device, channel, filter and periodic message IDs
\* are all different while they are live.
IdsDistinct ==
    /\ \A h \in Handles : devices[h] # None => channels[h] = None
    /\ \A o \in Objects :
         /\ \A x \in dev[o].filters : devices[x.id] = None /\ channels[x.id] = None
         /\ \A x, y \in dev[o].filters : x.id = y.id => x = y
         /\ \A p \in dev[o].periodics : devices[p.id] = None /\ channels[p.id] = None
         /\ \A p, q \in dev[o].periodics : p.id = q.id => p = q
         /\ \A x \in dev[o].filters, p \in dev[o].periodics : x.id # p.id

\* An ID an application may hold names one live thing, and what the calls
\* reach through it is there.
IdsExact == RegistryExact /\ IdsDistinct /\ ReceiverPresent

\* A Close that reports success leaves no periodic message in the adapter.
\* NOT so in the code: a Disconnect whose clear was refused has already
\* dropped what it knew of the messages.
CloseSilences ==
    result.job.op = "Close" /\ result.ok =>
        dev[result.job.obj].fwPeriodics = {}
============================================================================
