-------------------------------- MODULE Tty --------------------------------
(***************************************************************************)
(* The cdc_acm transport (src/tty.cpp).  The constructor takes the port    *)
(* step by step; start() adds a reader thread that polls the port and an   *)
(* eventfd; send() writes under io_mutex_ until all bytes are out or the   *)
(* caller's budget is spent; stop() rings the eventfd, joins the reader    *)
(* and closes the port under both mutexes.                                 *)
(*                                                                         *)
(* The kernel (external) chooses what poll, write and read return.  The    *)
(* bytes of a write are abstracted to the number of the call they belong   *)
(* to, time to whether a write's deadline has passed.  A thread that waits *)
(* for a mutex is one whose next step is not enabled yet.                  *)
(***************************************************************************)
EXTENDS Naturals, Sequences, FiniteSets

CONSTANTS Users,        \* application threads
          Size,         \* bytes of a write
          MaxCalls,     \* bound: writes in a behaviour
          None

ASSUME TtyAssumption ==
    /\ Size \in Nat \ {0} /\ MaxCalls \in Nat /\ None \notin Users

VARIABLES
    phase,      \* where the constructor is; "dead" after it threw
    fd, wake,   \* fd_ and wake_ are open
    exclusive,  \* exclusive_, which is the port's TIOCEXCL
    started, stopping, closed,
    stopMutex, ioMutex,
    pc,         \* where each application thread is
    worker,     \* where the reader thread is
    rung,       \* stop() wrote to the eventfd
    call,       \* number of each thread's current write
    left,       \* its bytes not yet written
    late,       \* its deadline has passed
    result,     \* what each write reported, by number
    wire,       \* what reached the port: the numbers of the writes, byte by byte
    interrupts  \* parity of the system calls that signals interrupted

ports == <<phase, fd, wake, exclusive>>
flags == <<started, stopping, closed>>
writes == <<call, left, late, result, wire>>
vars == <<ports, flags, stopMutex, ioMutex, pc, worker, rung, writes, interrupts>>

Init ==
    /\ phase = "resolve" /\ fd = FALSE /\ wake = FALSE /\ exclusive = FALSE
    /\ started = FALSE /\ stopping = FALSE /\ closed = FALSE
    /\ stopMutex = None /\ ioMutex = None
    /\ pc = [u \in Users |-> "idle"] /\ worker = "none" /\ rung = FALSE
    /\ call = [u \in Users |-> 0] /\ left = [u \in Users |-> 0] /\ late = [u \in Users |-> FALSE]
    /\ result = <<>> /\ wire = <<>> /\ interrupts = 0
----------------------------------------------------------------------------
(* Constructor and cleanup.                                                *)

\* Bug: the port stays exclusive after its descriptor is closed.
Mutant_Cleanup == fd' = FALSE /\ wake' = FALSE /\ UNCHANGED exclusive

Cleanup ==
    /\ fd' = FALSE /\ wake' = FALSE
    /\ exclusive' = (exclusive /\ ~fd)

\* No adapter or several match, or open() fails: nothing is held yet.
OpenPort ==
    /\ phase = "resolve"
    /\ \/ fd' = TRUE /\ phase' = "lock" /\ UNCHANGED <<wake, exclusive>>
       \/ Cleanup /\ phase' = "dead"
    /\ UNCHANGED <<flags, stopMutex, ioMutex, pc, worker, rung, writes, interrupts>>

\* flock, then TIOCEXCL, whose failure is only traced.
LockPort ==
    /\ phase = "lock"
    /\ \/ phase' = "configure" /\ exclusive' \in BOOLEAN /\ UNCHANGED <<fd, wake>>
       \/ Cleanup /\ phase' = "dead"
    /\ UNCHANGED <<flags, stopMutex, ioMutex, pc, worker, rung, writes, interrupts>>

Configure ==
    /\ phase = "configure"
    /\ \/ phase' = "ready" /\ UNCHANGED <<fd, wake, exclusive>>
       \/ Cleanup /\ phase' = "dead"
    /\ UNCHANGED <<flags, stopMutex, ioMutex, pc, worker, rung, writes, interrupts>>
----------------------------------------------------------------------------
(* start() and stop().                                                     *)

Ready == phase = "ready"

\* stop() from the moment it owns stop_mutex_.
StopBody(u) ==
    /\ stopMutex' = u /\ stopping' = TRUE /\ rung' = TRUE
    /\ pc' = [pc EXCEPT ![u] = "join"]

\* The Session calls start() before it shares the transport; when the eventfd
\* or the thread cannot be had, start() stops the transport before it throws.
Start(u) ==
    /\ Ready /\ ~started /\ ~closed /\ \A v \in Users : pc[v] = "idle"
    /\ started' = TRUE
    /\ \/ wake' = TRUE /\ worker' = "loop" /\ UNCHANGED <<stopMutex, stopping, rung, pc>>
       \/ wake' \in BOOLEAN /\ StopBody(u) /\ UNCHANGED worker
    /\ UNCHANGED <<phase, fd, exclusive, closed, ioMutex, writes, interrupts>>

Stop(u) ==
    /\ Ready /\ pc[u] = "idle" /\ stopMutex = None /\ ~closed
    /\ StopBody(u)
    /\ UNCHANGED <<ports, started, closed, ioMutex, worker, writes, interrupts>>

\* Bug: a reader that has reported a fault is taken for one that has ended.
Mutant_JoinFaulted(u) ==
    /\ pc[u] = "join" /\ worker \in {"none", "report", "ended"}
    /\ pc' = [pc EXCEPT ![u] = "release"]
    /\ UNCHANGED <<ports, flags, stopMutex, ioMutex, worker, rung, writes, interrupts>>

Join(u) ==
    /\ pc[u] = "join" /\ worker \in {"none", "ended"}
    /\ pc' = [pc EXCEPT ![u] = "release"]
    /\ UNCHANGED <<ports, flags, stopMutex, ioMutex, worker, rung, writes, interrupts>>

\* Bug: the port is closed without the lock that fences writes.
Mutant_Release(u) ==
    /\ pc[u] = "release"
    /\ Cleanup /\ closed' = TRUE /\ stopMutex' = None
    /\ pc' = [pc EXCEPT ![u] = "idle"]
    /\ UNCHANGED <<phase, started, stopping, ioMutex, worker, rung, writes, interrupts>>

Release(u) ==
    /\ pc[u] = "release" /\ ioMutex = None
    /\ Cleanup /\ closed' = TRUE /\ stopMutex' = None
    /\ pc' = [pc EXCEPT ![u] = "idle"]
    /\ UNCHANGED <<phase, started, stopping, ioMutex, worker, rung, writes, interrupts>>
----------------------------------------------------------------------------
(* send().                                                                 *)

Sent(u) == Size - left[u]
Unchanged == UNCHANGED <<ports, flags, stopMutex, worker, rung>>

\* Bug: writes are not serialised.
Mutant_Send(u) ==
    /\ Ready /\ pc[u] = "idle" /\ Len(result) < MaxCalls
    /\ IF stopping \/ ~started \/ ~fd
       THEN result' = Append(result, "refused") /\ UNCHANGED <<ioMutex, pc, call, left, late>>
       ELSE /\ result' = Append(result, "pending") /\ call' = [call EXCEPT ![u] = Len(result) + 1]
            /\ left' = [left EXCEPT ![u] = Size] /\ late' = [late EXCEPT ![u] = FALSE]
            /\ ioMutex' = u /\ pc' = [pc EXCEPT ![u] = "write"]
    /\ Unchanged /\ UNCHANGED <<wire, interrupts>>

Send(u) ==
    /\ Ready /\ pc[u] = "idle" /\ ioMutex = None /\ Len(result) < MaxCalls
    /\ IF stopping \/ ~started \/ ~fd
       THEN result' = Append(result, "refused") /\ UNCHANGED <<ioMutex, pc, call, left, late>>
       ELSE /\ result' = Append(result, "pending") /\ call' = [call EXCEPT ![u] = Len(result) + 1]
            /\ left' = [left EXCEPT ![u] = Size] /\ late' = [late EXCEPT ![u] = FALSE]
            /\ ioMutex' = u /\ pc' = [pc EXCEPT ![u] = "write"]
    /\ Unchanged /\ UNCHANGED <<wire, interrupts>>

Return(u, r) ==
    /\ result' = [result EXCEPT ![call[u]] = r]
    /\ ioMutex' = None /\ pc' = [pc EXCEPT ![u] = "idle"]

\* Bug: a write that got nowhere and one that stopped half way are the same.
Mutant_Outcome(u) == IF left[u] = 0 THEN "ok" ELSE "timeout"

Outcome(u) ==
    CASE Sent(u) = Size -> "ok" [] Sent(u) = 0 -> "timeout" [] OTHER -> "partial"

\* The loop ends: everything is written, or the budget is spent.
OverBudget(u) == Sent(u) > 0 /\ late[u]
LoopEnds(u) ==
    /\ pc[u] = "write" /\ (left[u] = 0 \/ OverBudget(u))
    /\ Return(u, Outcome(u))
    /\ Unchanged /\ UNCHANGED <<call, left, late, wire, interrupts>>

AtWrite(u) == pc[u] = "write" /\ left[u] > 0 /\ ~OverBudget(u)

WriteSome(u) ==
    /\ AtWrite(u)
    /\ \E n \in 1 .. left[u] :
          /\ left' = [left EXCEPT ![u] = @ - n]
          /\ wire' = wire \o [i \in 1 .. n |-> call[u]]
    /\ Unchanged /\ UNCHANGED <<ioMutex, pc, call, late, result, interrupts>>

\* Any number of system calls may be interrupted, in a row too.
Interrupted == interrupts' = 1 - interrupts

WriteInterrupted(u) ==
    /\ AtWrite(u) /\ Interrupted
    /\ Unchanged /\ UNCHANGED <<ioMutex, pc, writes>>

\* Bug: a full buffer is waited for without a look at the clock.
Mutant_WriteWouldBlock(u) ==
    /\ AtWrite(u)
    /\ pc' = [pc EXCEPT ![u] = "pollout"]
    /\ Unchanged /\ UNCHANGED <<ioMutex, writes, interrupts>>

\* EAGAIN: wait for room, unless the budget is spent.
WriteWouldBlock(u) ==
    /\ AtWrite(u)
    /\ IF late[u] THEN Return(u, Outcome(u))
       ELSE pc' = [pc EXCEPT ![u] = "pollout"] /\ UNCHANGED <<ioMutex, result>>
    /\ Unchanged /\ UNCHANGED <<call, left, late, wire, interrupts>>

\* write() or poll() fails, or poll() reports that the adapter is gone.
WriteFails(u) ==
    /\ AtWrite(u) \/ pc[u] = "pollout"
    /\ Return(u, "error")
    /\ Unchanged /\ UNCHANGED <<call, left, late, wire, interrupts>>

PollOut(u) ==
    /\ pc[u] = "pollout"
    /\ \/ pc' = [pc EXCEPT ![u] = "write"] /\ UNCHANGED <<ioMutex, result, interrupts>>
       \/ Interrupted /\ pc' = [pc EXCEPT ![u] = "write"] /\ UNCHANGED <<ioMutex, result>>
       \/ Return(u, Outcome(u)) /\ UNCHANGED interrupts
    /\ Unchanged /\ UNCHANGED <<call, left, late, wire>>

\* Time passes.
Deadline(u) ==
    /\ pc[u] \in {"write", "pollout"} /\ ~late[u]
    /\ late' = [late EXCEPT ![u] = TRUE]
    /\ Unchanged /\ UNCHANGED <<ioMutex, pc, call, left, result, wire, interrupts>>
----------------------------------------------------------------------------
(* pump().                                                                 *)

WorkerTo(label) ==
    /\ worker' = label
    /\ stopping' = (stopping \/ label = "report")
    /\ UNCHANGED <<ports, started, closed, stopMutex, ioMutex, pc, rung, writes>>

\* Bug: the reader does not look at the flag.
Mutant_PumpLoop == worker = "loop" /\ WorkerTo("poll") /\ UNCHANGED interrupts

PumpLoop ==
    /\ worker = "loop"
    /\ WorkerTo(IF stopping THEN "ended" ELSE "poll") /\ UNCHANGED interrupts

\* A timeout, the eventfd, an error or hang-up, or something to read.
PumpPoll ==
    /\ worker = "poll"
    /\ \/ WorkerTo("loop") /\ UNCHANGED interrupts
       \/ Interrupted /\ WorkerTo("loop")
       \/ rung /\ WorkerTo("ended") /\ UNCHANGED interrupts
       \/ WorkerTo("report") /\ UNCHANGED interrupts
       \/ WorkerTo("read") /\ UNCHANGED interrupts

PumpRead ==
    /\ worker = "read"
    /\ \E label \in {"loop", "report", "deliver"} : WorkerTo(label)
    /\ UNCHANGED interrupts

\* receiver_ returns or throws; after a fault, failure_ returns.
PumpCallback ==
    /\ \/ worker = "deliver" /\ (WorkerTo("loop") \/ WorkerTo("report"))
       \/ worker = "report" /\ WorkerTo("ended")
    /\ UNCHANGED interrupts
----------------------------------------------------------------------------
UserStep(u) ==
    \/ Join(u) \/ Release(u) \/ LoopEnds(u) \/ WriteSome(u) \/ WriteInterrupted(u)
    \/ WriteWouldBlock(u) \/ WriteFails(u) \/ PollOut(u)
WorkerStep == PumpLoop \/ PumpPoll \/ PumpRead \/ PumpCallback

\* Everything is closed and every thread has returned.
Quiet ==
    /\ closed \/ phase = "dead"
    /\ \A u \in Users : pc[u] = "idle"
    /\ UNCHANGED vars

Next ==
    \/ OpenPort \/ LockPort \/ Configure
    \/ \E u \in Users : Start(u) \/ Stop(u) \/ Send(u) \/ UserStep(u) \/ Deadline(u)
    \/ WorkerStep \/ Quiet

Spec == Init /\ [][Next]_vars

\* Threads run, and deadlines pass; nobody has to call anything.
FairSpec ==
    /\ Spec
    /\ \A u \in Users : WF_vars(UserStep(u)) /\ WF_vars(Deadline(u))
    /\ WF_vars(WorkerStep)
----------------------------------------------------------------------------
Writing(u) == pc[u] \in {"write", "pollout"}

\* Type invariant.
TypeOK ==
    /\ phase \in {"resolve", "lock", "configure", "ready", "dead"}
    /\ {fd, wake, exclusive, started, stopping, closed, rung} \subseteq BOOLEAN
    /\ stopMutex \in Users \cup {None} /\ ioMutex \in Users \cup {None}
    /\ pc \in [Users -> {"idle", "join", "release", "write", "pollout"}]
    /\ worker \in {"none", "loop", "poll", "read", "deliver", "report", "ended"}
    /\ left \in [Users -> 0 .. Size] /\ late \in [Users -> BOOLEAN]
    /\ \A u \in Users : Writing(u) => ioMutex = u /\ call[u] \in 1 .. Len(result)

\* No thread polls, reads or writes a descriptor that stop() has closed and
\* the kernel may have given away again (tty.cpp:146 against 108 and 227).
NoUseAfterClose ==
    /\ \A u \in Users : Writing(u) => fd
    /\ worker \in {"loop", "poll", "read", "deliver"} => fd /\ wake

\* The locks are held by who uses what they guard, and nothing is used after
\* it is closed.
Safety == TypeOK /\ NoUseAfterClose

\* Where the bytes of write c are on the wire.
Places(c) == {i \in 1 .. Len(wire) : wire[i] = c}

\* The bytes of one write are never broken up by another's, and a write
\* reports what became of its bytes: all, none or some of them are out
\* (tty.cpp:108 to 143).
WritesExact ==
    /\ \A i, j, k \in 1 .. Len(wire) :
          i < j /\ j < k /\ wire[i] = wire[k] => wire[j] = wire[i]
    /\ \A c \in 1 .. Len(result) :
          /\ result[c] = "ok" => Cardinality(Places(c)) = Size
          /\ result[c] \in {"refused", "timeout"} => Places(c) = {}
          /\ result[c] = "partial" => Cardinality(Places(c)) \in 1 .. Size - 1

\* A failed constructor and a finished stop() leave the port as they found
\* it: closed, and open to others (tty.cpp:263).
PortReturned ==
    closed \/ phase = "dead" => ~fd /\ ~wake /\ ~exclusive

\* stop() returns, whatever the reader and the writers are doing.
StopReturns == \A u \in Users : (pc[u] \in {"join", "release"}) ~> (pc[u] = "idle")

\* A write returns.
SendReturns == \A u \in Users : Writing(u) ~> ~Writing(u)

\* Signals interrupt no more system calls from some time on.
SignalsCease == <>[](interrupts = 0) \/ <>[](interrupts = 1)

\* send() and stop() return, once signals leave them alone: a write that goes
\* on by bits or waits for room ends with the caller's budget, and a stop()
\* waits for no more than that (tty.cpp:123, 129 and 151).  Without the premise
\* SendReturns fails: the clock is not read before the first byte (tty.cpp:123)
\* nor after an interrupted write (tty.cpp:126).
CallsReturn == SignalsCease => StopReturns /\ SendReturns

\* The contract of transport.hpp.
Contract == INSTANCE Transport WITH
    Threads <- Users,
    life <- IF closed \/ phase = "dead" THEN "closed" ELSE IF started THEN "running" ELSE "new",
    sending <- {u \in Users : Writing(u)},
    delivering <- worker \in {"deliver", "report"}

\* The transport keeps the contract: when stop() returns no callback and no
\* write is in progress, and none begins (transport.hpp:26).
ContractHeld == Contract!Spec
============================================================================
