-------------------------------- MODULE Usb --------------------------------
(***************************************************************************)
(* The libusb transport (src/usb.cpp).  The constructor locks the device   *)
(* node, opens it, takes the interfaces from the kernel driver and claims  *)
(* them; start() submits one transfer per input endpoint and a worker      *)
(* handles their completions, each of which resubmits its transfer;        *)
(* stop() lets the worker cancel and drain them, then frees the transfers  *)
(* and gives the interfaces back.                                          *)
(*                                                                         *)
(* libusb is external: one thread at a time handles events, and that is    *)
(* any thread inside a libusb call that waits, so the synchronous bulk     *)
(* transfer of send() and the control transfer of stop() run callbacks     *)
(* too.  A transfer completes when there is data or an error, or once it   *)
(* is cancelled.                                                           *)
(***************************************************************************)
EXTENDS Naturals, FiniteSets

CONSTANTS Users,     \* application threads
          Worker,    \* worker_
          Ifaces,    \* the interfaces that carry the three endpoints
          Overlap,   \* send() and stop() may overlap; the Session keeps them apart
          MaxErrors, \* bound: failures of the libusb event loop
          None

ASSUME UsbAssumption ==
    /\ Worker \notin Users /\ None \notin Users \cup {Worker}
    /\ Overlap \in BOOLEAN /\ MaxErrors \in Nat

Threads == Users \cup {Worker}
Inputs == {"bulk", "interrupt"}
NoCallback == [thread |-> None, input |-> "none", at |-> "none"]

VARIABLES
    phase,              \* where the constructor is; "dead" after it threw
    todo,               \* interfaces its current loop has left
    lockFd, handle,     \* lock_fd_ and handle_ are open
    kernel, kernel0,    \* interfaces bound to the kernel driver, now and at first
    detached, claimed,  \* detached_ and claimed_
    refused,            \* history: interfaces the kernel driver could not be reattached to
    reported,           \* an application's stop() threw for them
    started, stopping, closed, drainFailed,
    transfer,           \* what libusb knows of each transfer
    pending,            \* Input::pending
    stopMutex, ioMutex,
    cb,                 \* the callback being run: thread, input and place
    pc,                 \* where each thread is
    errors

resources == <<phase, todo, lockFd, handle, kernel, kernel0, detached, claimed,
               refused, reported>>
flags == <<started, stopping, closed, drainFailed>>
vars == <<resources, flags, transfer, pending, stopMutex, ioMutex, cb, pc, errors>>

Init ==
    /\ phase = "lock" /\ todo = {} /\ lockFd = FALSE /\ handle = FALSE
    /\ kernel0 \in SUBSET Ifaces /\ kernel = kernel0
    /\ detached = {} /\ claimed = {} /\ refused = {} /\ reported = FALSE
    /\ started = FALSE /\ stopping = FALSE /\ closed = FALSE /\ drainFailed = FALSE
    /\ transfer = [i \in Inputs |-> "none"] /\ pending = [i \in Inputs |-> FALSE]
    /\ stopMutex = None /\ ioMutex = None /\ cb = NoCallback
    /\ pc = [t \in Threads |-> IF t = Worker THEN "none" ELSE "idle"]
    /\ errors = 0

InFlight(i) == transfer[i] \in {"submitted", "cancelled"}
----------------------------------------------------------------------------
(* Constructor and cleanup.                                                *)

\* Bug: transfers are freed whether or not they could be drained.
Mutant_FreeTransfers ==
    transfer' = [i \in Inputs |-> CASE transfer[i] = "none" -> "none"
                                    [] InFlight(i) -> "dangling" [] OTHER -> "freed"]

\* A transfer that libusb still owns when it is freed is left dangling; one
\* that could not be drained is leaked.
FreeTransfers ==
    transfer' = [i \in Inputs |-> CASE transfer[i] = "none" -> "none"
                                    [] drainFailed /\ pending[i] -> "leaked"
                                    [] InFlight(i) /\ ~(drainFailed /\ pending[i]) -> "dangling"
                                    [] OTHER -> "freed"]

\* It only returns what failed; the caller decides what becomes of that.  The
\* adapter stays plugged in: one that is gone has no interfaces to give back.
Cleanup ==
    /\ FreeTransfers
    /\ \E failed \in SUBSET detached :
          kernel' = kernel \cup (detached \ failed) /\ refused' = refused \cup failed
    /\ claimed' = {} /\ detached' = {} /\ handle' = FALSE /\ lockFd' = FALSE
    /\ UNCHANGED <<todo, kernel0>>

Construct == UNCHANGED <<flags, pending, stopMutex, ioMutex, cb, pc, errors>>

\* The first error is thrown again; what cleanup() returned is dropped.
Throw == Cleanup /\ phase' = "dead" /\ UNCHANGED reported /\ Construct

\* Exactly one adapter must match; open and flock.
TakeLock ==
    /\ phase = "lock" /\ phase' = "open" /\ lockFd' = TRUE /\ Construct
    /\ UNCHANGED <<todo, handle, kernel, kernel0, detached, claimed, refused, reported, transfer>>

\* libusb_open, and the endpoints are the expected ones.
OpenHandle ==
    /\ phase = "open" /\ phase' = "detach" /\ handle' = TRUE /\ todo' = Ifaces /\ Construct
    /\ UNCHANGED <<lockFd, kernel, kernel0, detached, claimed, refused, reported, transfer>>

\* Bug: an interface is recorded only when all of them are detached.
Mutant_Detach ==
    /\ phase = "detach" /\ Construct
    /\ \/ \E i \in todo : /\ todo' = todo \ {i} /\ kernel' = kernel \ {i}
                          /\ UNCHANGED <<phase, detached>>
       \/ /\ todo = {} /\ phase' = "claim" /\ todo' = Ifaces
          /\ detached' = kernel0 /\ UNCHANGED kernel
    /\ UNCHANGED <<lockFd, handle, kernel0, claimed, refused, reported, transfer>>

Detach ==
    /\ phase = "detach" /\ Construct
    /\ \/ \E i \in todo :
             /\ todo' = todo \ {i} /\ kernel' = kernel \ {i}
             /\ detached' = detached \cup ({i} \cap kernel)
             /\ UNCHANGED phase
       \/ todo = {} /\ phase' = "claim" /\ todo' = Ifaces /\ UNCHANGED <<kernel, detached>>
    /\ UNCHANGED <<lockFd, handle, kernel0, claimed, refused, reported, transfer>>

Claim ==
    /\ phase = "claim" /\ Construct
    /\ \/ \E i \in todo : todo' = todo \ {i} /\ claimed' = claimed \cup {i} /\ UNCHANGED phase
       \/ todo = {} /\ phase' = "ready" /\ UNCHANGED <<todo, claimed>>
    /\ UNCHANGED <<lockFd, handle, kernel, kernel0, detached, refused, reported, transfer>>

\* Any step of the constructor may fail.
AcquireFails == phase \in {"lock", "open", "detach", "claim"} /\ Throw
----------------------------------------------------------------------------
(* Threads.  A thread that runs a callback is back in its libusb call when *)
(* the callback has returned.                                              *)

Free(t) == cb.thread # t
At(t, label) == pc[t] = label /\ Free(t)
Go(t, label) == pc' = [pc EXCEPT ![t] = label]
HandlesEvents(t) == pc[t] \in {"events", "drain events", "transfer", "control"}

\* The Session lets no send() overlap a stop().
Alone(u) == Overlap \/ \A v \in Users \ {u} : pc[v] = "idle"

StopBody(u) ==
    /\ stopMutex' = u /\ stopping' = TRUE
    /\ Go(u, IF pc[Worker] = "none" THEN "cancel bulk" ELSE "join")

\* start(): the control transfer, then a transfer per input, then the worker;
\* after a failure start() stops the transport, which has no worker.
Start(u) ==
    /\ phase = "ready" /\ ~started /\ ~closed /\ \A v \in Users : pc[v] = "idle"
    /\ started' = TRUE
    /\ \E submitted \in {{}, {"bulk"}, Inputs} :
          /\ transfer' = [i \in Inputs |-> IF i \in submitted THEN "submitted" ELSE "none"]
          /\ pending' = [i \in Inputs |-> i \in submitted]
          /\ \/ submitted = Inputs /\ Go(Worker, "loop") /\ UNCHANGED <<stopMutex, stopping>>
             \/ StopBody(u)
    /\ UNCHANGED <<resources, closed, drainFailed, ioMutex, cb, errors>>

Send(u) ==
    /\ phase = "ready" /\ pc[u] = "idle" /\ ioMutex = None /\ Alone(u)
    /\ ~stopping /\ started
    /\ ioMutex' = u /\ Go(u, "transfer")
    /\ UNCHANGED <<resources, flags, transfer, pending, stopMutex, cb, errors>>

SendReturns(u) ==
    /\ At(u, "transfer")
    /\ ioMutex' = None /\ Go(u, "idle")
    /\ UNCHANGED <<resources, flags, transfer, pending, stopMutex, cb, errors>>

Stop(u) ==
    /\ phase = "ready" /\ pc[u] = "idle" /\ stopMutex = None /\ ~closed /\ Alone(u)
    /\ StopBody(u)
    /\ UNCHANGED <<resources, started, closed, drainFailed, transfer, pending, ioMutex, cb, errors>>

\* Bug: stop() does not wait for the worker.
Mutant_Join(u) ==
    /\ pc[u] = "join" /\ Go(u, "lock io")
    /\ UNCHANGED <<resources, flags, transfer, pending, stopMutex, ioMutex, cb, errors>>

Join(u) ==
    /\ pc[u] = "join" /\ pc[Worker] = "ended" /\ Go(u, "lock io")
    /\ UNCHANGED <<resources, flags, transfer, pending, stopMutex, ioMutex, cb, errors>>

\* Bug: the handle is closed under a write.
Mutant_LockIo(u) ==
    /\ pc[u] = "lock io"
    /\ ioMutex' = u /\ Go(u, IF started /\ handle THEN "control" ELSE "cleanup")
    /\ UNCHANGED <<resources, flags, transfer, pending, stopMutex, cb, errors>>

LockIo(u) ==
    /\ pc[u] = "lock io" /\ ioMutex = None
    /\ ioMutex' = u /\ Go(u, IF started /\ handle THEN "control" ELSE "cleanup")
    /\ UNCHANGED <<resources, flags, transfer, pending, stopMutex, cb, errors>>

\* control(0); a failure is only added to what stop() throws at the end.
Control(u) ==
    /\ At(u, "control") /\ Go(u, "cleanup")
    /\ UNCHANGED <<resources, flags, transfer, pending, stopMutex, ioMutex, cb, errors>>

\* The worker is created last in start(), which stops the transport without
\* one after a failure, drops what that stop() throws and throws its own error.
StartFailed == started /\ pc[Worker] = "none"

\* stop() throws for the interfaces that cleanup() could not give back.
Release(u) ==
    /\ pc[u] = "cleanup"
    /\ Cleanup /\ reported' = (refused' # {} /\ ~StartFailed)
    /\ closed' = TRUE /\ stopMutex' = None /\ ioMutex' = None /\ Go(u, "idle")
    /\ UNCHANGED <<phase, started, stopping, drainFailed, pending, cb, errors>>
----------------------------------------------------------------------------
(* Callbacks.                                                              *)

\* Bug: pending stays set while the callback runs.
Mutant_CallbackBegins(t, i) ==
    /\ HandlesEvents(t) /\ cb = NoCallback /\ InFlight(i)
    /\ cb' = [thread |-> t, input |-> i, at |-> "entered"]
    /\ transfer' = [transfer EXCEPT ![i] = "idle"]
    /\ UNCHANGED <<resources, flags, pending, stopMutex, ioMutex, pc, errors>>

\* A transfer is done; its callback begins on a thread that handles events.
CallbackBegins(t, i) ==
    /\ HandlesEvents(t) /\ cb = NoCallback /\ InFlight(i)
    /\ cb' = [thread |-> t, input |-> i, at |-> "entered"]
    /\ transfer' = [transfer EXCEPT ![i] = "idle"]
    /\ pending' = [pending EXCEPT ![i] = FALSE]
    /\ UNCHANGED <<resources, flags, stopMutex, ioMutex, pc, errors>>

\* A bad status, an exception of receiver_ or a failed resubmission.
CallbackFaults ==
    /\ cb.at \in {"entered", "submit"}
    /\ stopping' = TRUE /\ cb' = NoCallback
    /\ UNCHANGED <<resources, started, closed, drainFailed, transfer, pending>>
    /\ UNCHANGED <<stopMutex, ioMutex, pc, errors>>

CallbackChecks ==
    /\ cb.at = "entered"
    /\ cb' = IF stopping THEN NoCallback ELSE [cb EXCEPT !.at = "submit"]
    /\ UNCHANGED <<resources, flags, transfer, pending, stopMutex, ioMutex, pc, errors>>

CallbackSubmits ==
    /\ cb.at = "submit"
    /\ transfer' = [transfer EXCEPT ![cb.input] = "submitted"]
    /\ cb' = [cb EXCEPT !.at = "mark"]
    /\ UNCHANGED <<resources, flags, pending, stopMutex, ioMutex, pc, errors>>

CallbackMarks ==
    /\ cb.at = "mark"
    /\ pending' = [pending EXCEPT ![cb.input] = TRUE] /\ cb' = NoCallback
    /\ UNCHANGED <<resources, flags, transfer, stopMutex, ioMutex, pc, errors>>
----------------------------------------------------------------------------
(* pump() and drain().                                                     *)

Step(t, label) ==
    /\ Go(t, label)
    /\ UNCHANGED <<resources, started, closed, transfer, pending, stopMutex, ioMutex, cb>>

\* libusb_handle_events_timeout() fails, in the thread that handles events.
EventsFail == cb = NoCallback /\ errors < MaxErrors /\ errors' = errors + 1

PumpLoop ==
    /\ pc[Worker] = "loop" /\ Step(Worker, IF stopping THEN "cancel bulk" ELSE "events")
    /\ UNCHANGED <<stopping, drainFailed, errors>>

PumpEvents ==
    /\ At(Worker, "events") /\ UNCHANGED <<stopping, drainFailed>>
    /\ \/ Step(Worker, "loop") /\ UNCHANGED errors
       \/ EventsFail /\ Step(Worker, "fault")

PumpFaults ==
    /\ pc[Worker] = "fault" /\ Step(Worker, "loop") /\ stopping' = TRUE
    /\ UNCHANGED <<drainFailed, errors>>

\* Bug: nothing is cancelled; the drain waits for the vehicle to speak.
Mutant_Cancel(t) ==
    /\ pc[t] \in {"cancel bulk", "cancel interrupt"}
    /\ Go(t, IF pc[t] = "cancel bulk" THEN "cancel interrupt" ELSE "drain")
    /\ UNCHANGED <<resources, flags, transfer, pending, stopMutex, ioMutex, cb, errors>>

Cancel(t) ==
    \E i \in Inputs :
        /\ pc[t] = IF i = "bulk" THEN "cancel bulk" ELSE "cancel interrupt"
        /\ transfer' = [transfer EXCEPT ![i] = IF pending[i] /\ InFlight(i) THEN "cancelled" ELSE @]
        /\ Go(t, IF i = "bulk" THEN "cancel interrupt" ELSE "drain")
        /\ UNCHANGED <<resources, flags, pending, stopMutex, ioMutex, cb, errors>>

Drained(t) == IF t = Worker THEN "ended" ELSE "lock io"

Drain(t) ==
    /\ pc[t] = "drain"
    /\ Step(t, IF \E i \in Inputs : pending[i] THEN "drain events" ELSE Drained(t))
    /\ UNCHANGED <<stopping, drainFailed, errors>>

DrainEvents(t) ==
    /\ At(t, "drain events")
    /\ \/ Step(t, "drain") /\ UNCHANGED <<stopping, drainFailed, errors>>
       \/ /\ EventsFail
          /\ stopping' = TRUE /\ drainFailed' = TRUE /\ Step(t, Drained(t))
----------------------------------------------------------------------------
ThreadStep(t) ==
    \/ t \in Users /\ (SendReturns(t) \/ Join(t) \/ LockIo(t) \/ Control(t) \/ Release(t))
    \/ t = Worker /\ (PumpLoop \/ PumpEvents \/ PumpFaults)
    \/ Cancel(t) \/ Drain(t) \/ DrainEvents(t)
CallbackStep == CallbackFaults \/ CallbackChecks \/ CallbackSubmits \/ CallbackMarks

\* Everything is closed and every thread has returned.
Quiet ==
    /\ closed \/ phase = "dead"
    /\ \A u \in Users : pc[u] = "idle"
    /\ UNCHANGED vars

Next ==
    \/ TakeLock \/ OpenHandle \/ Detach \/ Claim \/ AcquireFails
    \/ \E u \in Users : Start(u) \/ Send(u) \/ Stop(u)
    \/ \E t \in Threads : ThreadStep(t) \/ \E i \in Inputs : CallbackBegins(t, i)
    \/ CallbackStep \/ Quiet

Spec == Init /\ [][Next]_vars

\* Threads run; libusb completes what is cancelled, as soon as a thread that
\* handles events lets it.  Data need never arrive.
FairSpec ==
    /\ Spec
    /\ \A t \in Threads : WF_vars(ThreadStep(t))
    /\ WF_vars(CallbackStep)
    /\ \A t \in Threads, i \in Inputs : SF_vars(transfer[i] = "cancelled" /\ CallbackBegins(t, i))
----------------------------------------------------------------------------
\* Type invariant; a transfer marked pending is one libusb knows of (usb.cpp:201).
TypeOK ==
    /\ phase \in {"lock", "open", "detach", "claim", "ready", "dead"}
    /\ {lockFd, handle, started, stopping, closed, drainFailed, reported} \subseteq BOOLEAN
    /\ {detached, refused} \subseteq SUBSET kernel0 /\ {kernel, claimed} \subseteq SUBSET Ifaces
    /\ transfer \in [Inputs -> {"none", "idle", "submitted", "cancelled", "freed", "leaked", "dangling"}]
    /\ pending \in [Inputs -> BOOLEAN]
    /\ \A i \in Inputs : pending[i] => transfer[i] \notin {"none", "idle", "freed"}
    /\ cb = NoCallback \/ (cb.thread \in Threads /\ cb.at \in {"entered", "submit", "mark"})
    /\ stopMutex \in Users \cup {None} /\ ioMutex \in Users \cup {None}

\* "Never free submitted transfers; stop() drains completion callbacks first"
\* (usb.cpp:250).
NoDanglingTransfer == \A i \in Inputs : transfer[i] # "dangling"

\* No write and no callback is in progress once the handle is closed
\* (usb.cpp:119 against 101).
NoUseAfterClose ==
    ~handle => (\A u \in Users : pc[u] \notin {"transfer", "control"}) /\ cb = NoCallback

\* The flags tell what libusb holds, and nothing libusb or a thread still
\* uses is freed or closed.
Safety == TypeOK /\ NoDanglingTransfer /\ NoUseAfterClose

\* A constructor that failed half way and a finished stop() give everything
\* back: the lock, the claimed interfaces, and each interface they took from
\* the kernel driver but those it refused; and a stop() of the application's
\* throws for these.  The constructor and start() leave them behind unreported
\* (usb.cpp:73, 98, 124 and 249).
InterfacesReturned ==
    closed \/ phase = "dead" =>
        /\ ~lockFd /\ ~handle /\ claimed = {} /\ kernel = kernel0 \ refused
        /\ closed /\ refused # {} /\ ~StartFailed => reported

\* "Stop must join callbacks before returning ..., even on error"
\* (transport.hpp:26): it returns, even when the vehicle is silent.
StopReturns ==
    \A u \in Users : (stopMutex = u) ~> (stopMutex # u)

\* While the event loop works and no write is in progress, a stop() returns
\* although the vehicle is silent: each transfer in flight is seen as pending
\* and cancelled, and no callback resubmits one behind the drain (usb.cpp:216,
\* 225).
QuietStopReturns ==
    [](errors = 0 /\ \A u \in Users : stopMutex # None => pc[u] # "transfer") => StopReturns

\* The contract of transport.hpp.
Contract == INSTANCE Transport WITH
    Threads <- Users,
    life <- IF closed \/ phase = "dead" THEN "closed" ELSE IF started THEN "running" ELSE "new",
    sending <- {u \in Users : pc[u] = "transfer"},
    delivering <- cb # NoCallback

\* The transport keeps the contract: when stop() returns no callback and no
\* write is in progress, and none begins (transport.hpp:26).
ContractHeld == Contract!Spec
============================================================================
