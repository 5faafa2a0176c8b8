---------------------------- MODULE CanReceiver ----------------------------
(***************************************************************************)
(* The receive half of CanReceiver (src/can.cpp): a bounded queue filled   *)
(* by the transport's reader thread and drained by PassThruReadMsgs on     *)
(* application threads, with two sticky loss flags and a stop that must    *)
(* wake every blocked reader.  The transmit half is module Transmit.       *)
(*                                                                         *)
(* An item is a received frame, a reassembled message or the echo of a     *)
(* transmitted one; items are numbered in the order in which the adapter   *)
(* produced them, so a number the reader never sees is a gap.  Each action *)
(* is one critical section of mutex_; a read that waits gives it up.       *)
(***************************************************************************)
EXTENDS Naturals, Sequences, FiniteSets

CONSTANTS Readers,   \* application threads calling PassThruReadMsgs
          Protocol,  \* "CAN" or "ISO15765"
          Capacity,  \* capacity or message_capacity: items the queue holds
          MaxCount,  \* bound: messages requested by one read
          MaxItems   \* bound: items produced in a behaviour

ASSUME ReceiverAssumption ==
    /\ Protocol \in {"CAN", "ISO15765"}
    /\ Capacity \in Nat \ {0}
    /\ MaxCount \in Nat \ {0}
    /\ MaxItems \in Nat

Items == 1 .. MaxItems

VARIABLES
    queue,      \* frames_ (CAN) or messages_ (ISO15765)
    overflow,   \* overflow_
    malformed,  \* malformed_
    loopback,   \* loopback_
    stopped,    \* stopped_ is nonzero
    pc,         \* per reader: "idle", "ready" (in the loop) or "waiting"
    want,       \* requested
    timed,      \* timeout_ms # 0
    got,        \* the items copied out by the current or last read
    status,     \* how the last read ended
    produced,   \* history: items produced so far
    dropped,    \* history: items lost to a full buffer, not yet reported
    garbled     \* history: malformed items discarded, not yet reported

readVars == <<pc, want, timed, got, status>>
lossVars == <<overflow, malformed, dropped, garbled>>
vars == <<queue, lossVars, loopback, stopped, readVars, produced>>

Init ==
    /\ queue = <<>>
    /\ overflow = FALSE /\ malformed = FALSE
    /\ loopback = FALSE /\ stopped = FALSE
    /\ pc = [r \in Readers |-> "idle"]
    /\ want = [r \in Readers |-> 1]
    /\ timed = [r \in Readers |-> FALSE]
    /\ got = [r \in Readers |-> <<>>]
    /\ status = [r \in Readers |-> "none"]
    /\ produced = 0 /\ dropped = {} /\ garbled = {}

---------------------------------------------------------------------------
(* The reader thread of the transport *)

Min2(a, b) == IF a <= b THEN a ELSE b

\* Mutant: the newest item replaces the oldest of a full queue, unreported.
Mutant_Push(n) ==
    LET fits == Min2(n, Capacity - Len(queue))
        all == queue \o [i \in 1 .. n |-> produced + i]
    IN  /\ produced + n <= MaxItems
        /\ produced' = produced + n
        /\ queue' = SubSeq(all, n - fits + 1, Len(all))
        /\ dropped' = dropped \cup {all[i] : i \in 1 .. (n - fits)}
        /\ UNCHANGED <<overflow, malformed, garbled>>

\* Queue the next n items; the ones that do not fit are dropped and the loss
\* is flagged, never the ones already queued.
Push(n) ==
    LET fits == Min2(n, Capacity - Len(queue))
    IN  /\ produced + n <= MaxItems
        /\ produced' = produced + n
        /\ queue' = queue \o [i \in 1 .. fits |-> produced + i]
        /\ overflow' = (overflow \/ fits < n)
        /\ dropped' = dropped \cup (produced + fits + 1) .. (produced + n)
        /\ UNCHANGED <<malformed, garbled>>

\* Mutant: a retired receiver goes on filling its queue.
Mutant_ReceiveData ==
    /\ \E n \in (IF Protocol = "CAN" THEN {1} ELSE 0 .. 2) : Push(n)
    /\ UNCHANGED <<loopback, stopped, readVars>>

\* A well-formed data frame: one item on CAN; on ISO15765 whatever the
\* reassembler makes of it (nothing, a start indication, a message, both).
ReceiveData ==
    /\ ~stopped
    /\ \E n \in (IF Protocol = "CAN" THEN {1} ELSE 0 .. 2) : Push(n)
    /\ UNCHANGED <<loopback, stopped, readVars>>

\* iMsgTxDone for a recorded write: ISO15765 delivers a transmit indication,
\* and either protocol delivers the frame itself when LOOPBACK is set.
ReceiveConfirmation ==
    /\ ~stopped
    /\ Push((IF Protocol = "CAN" THEN 0 ELSE 1) + (IF loopback THEN 1 ELSE 0))
    /\ UNCHANGED <<loopback, stopped, readVars>>

\* A data frame whose lengths disagree is discarded and flagged.
ReceiveMalformed ==
    /\ ~stopped /\ produced < MaxItems
    /\ malformed' = TRUE
    /\ produced' = produced + 1 /\ garbled' = garbled \cup {produced + 1}
    /\ UNCHANGED <<queue, overflow, dropped, loopback, stopped, readVars>>

\* The firmware reports a loss of its own (indications 0x10b and 0x119).
ReceiveFirmwareLoss ==
    /\ ~stopped /\ produced < MaxItems
    /\ overflow' = TRUE
    /\ produced' = produced + 1 /\ dropped' = dropped \cup {produced + 1}
    /\ UNCHANGED <<queue, malformed, garbled, loopback, stopped, readVars>>

---------------------------------------------------------------------------
(* read() *)

ReadCall(r, n, t) ==
    /\ pc[r] = "idle"
    /\ pc' = [pc EXCEPT ![r] = "ready"]
    /\ want' = [want EXCEPT ![r] = n]
    /\ timed' = [timed EXCEPT ![r] = t]
    /\ got' = [got EXCEPT ![r] = <<>>]
    /\ UNCHANGED <<queue, lossVars, loopback, stopped, status, produced>>

\* Mutant: the wait does not look at stopped_.
Mutant_Runnable(r) ==
    \/ pc[r] = "ready"
    \/ pc[r] = "waiting" /\ (queue # <<>> \/ overflow \/ malformed)

\* The loop is about to run: it was just entered, or the wait's predicate
\* holds.
Runnable(r) ==
    \/ pc[r] = "ready"
    \/ pc[r] = "waiting" /\ (stopped \/ queue # <<>> \/ overflow \/ malformed)

Leave(r, s) ==
    /\ pc' = [pc EXCEPT ![r] = "idle"]
    /\ status' = [status EXCEPT ![r] = s]

\* Mutant: a full read returns before the loss flags are looked at.
Mutant_Finish(r, copied) ==
    \/ /\ Len(copied) = want[r]
       /\ Leave(r, "ok")
       /\ UNCHANGED lossVars
    \/ /\ Len(copied) < want[r] /\ overflow
       /\ Leave(r, "overflow")
       /\ overflow' = FALSE /\ dropped' = {}
       /\ UNCHANGED <<malformed, garbled>>
    \/ /\ Len(copied) < want[r] /\ ~overflow /\ malformed
       /\ Leave(r, "malformed")
       /\ malformed' = FALSE /\ garbled' = {}
       /\ UNCHANGED <<overflow, dropped>>
    \/ /\ Len(copied) < want[r] /\ ~overflow /\ ~malformed
       /\ Leave(r, IF copied = <<>> THEN "empty"
                   ELSE IF timed[r] THEN "timeout" ELSE "ok")
       /\ UNCHANGED lossVars

\* After the loop: a pending loss is reported first, and cleared; a flag
\* that is not the one reported stays for the next read.
Finish(r, copied) ==
    \/ /\ overflow
       /\ Leave(r, "overflow")
       /\ overflow' = FALSE /\ dropped' = {}
       /\ UNCHANGED <<malformed, garbled>>
    \/ /\ ~overflow /\ malformed
       /\ Leave(r, "malformed")
       /\ malformed' = FALSE /\ garbled' = {}
       /\ UNCHANGED <<overflow, dropped>>
    \/ /\ ~overflow /\ ~malformed
       /\ Leave(r, IF copied = <<>> THEN "empty"
                   ELSE IF timed[r] /\ Len(copied) < want[r] THEN "timeout"
                   ELSE "ok")
       /\ UNCHANGED lossVars

\* A stopped receiver throws, whatever the read had copied.
ReadStopped(r) ==
    /\ Runnable(r) /\ stopped
    /\ Leave(r, "stopped")
    /\ UNCHANGED <<queue, lossVars, loopback, stopped, want, timed, got, produced>>

\* One pass of the loop: copy what is there, then return or wait.
ReadLoop(r) ==
    LET k == Min2(want[r] - Len(got[r]), Len(queue))
        copied == got[r] \o SubSeq(queue, 1, k)
    IN  /\ Runnable(r) /\ ~stopped
        /\ got' = [got EXCEPT ![r] = copied]
        /\ queue' = SubSeq(queue, k + 1, Len(queue))
        /\ IF Len(copied) = want[r] \/ ~timed[r] \/ overflow \/ malformed
           THEN Finish(r, copied)
           ELSE /\ pc' = [pc EXCEPT ![r] = "waiting"]
                /\ UNCHANGED <<lossVars, status>>
        /\ UNCHANGED <<loopback, stopped, want, timed, produced>>

\* The wait reaches its deadline with nothing to wake it.
ReadTimesOut(r) ==
    /\ pc[r] = "waiting" /\ ~Runnable(r)
    /\ Finish(r, got[r])
    /\ UNCHANGED <<queue, loopback, stopped, want, timed, got, produced>>

---------------------------------------------------------------------------
(* set_loopback(), flush_receive() and stop() *)

SetLoopback(enabled) ==
    /\ loopback' = enabled
    /\ UNCHANGED <<queue, lossVars, stopped, readVars, produced>>

\* Mutant: CLEAR_RX_BUFFER leaves a pending loss report behind.
Mutant_FlushReceive ==
    /\ queue' = <<>>
    /\ dropped' = {} /\ garbled' = {}
    /\ UNCHANGED <<overflow, malformed, loopback, stopped, readVars, produced>>

\* CLEAR_RX_BUFFER discards the queue and the loss it would have reported.
FlushReceive ==
    /\ queue' = <<>>
    /\ overflow' = FALSE /\ malformed' = FALSE
    /\ dropped' = {} /\ garbled' = {}
    /\ UNCHANGED <<loopback, stopped, readVars, produced>>

\* Disconnect, Close, a failed session or an uncertain channel.
Stop ==
    /\ stopped' = TRUE
    /\ queue' = <<>>
    /\ UNCHANGED <<lossVars, loopback, readVars, produced>>

---------------------------------------------------------------------------
ReaderStep(r) == ReadStopped(r) \/ ReadLoop(r)

Next ==
    \/ ReceiveData
    \/ ReceiveConfirmation
    \/ ReceiveMalformed
    \/ ReceiveFirmwareLoss
    \/ \E r \in Readers :
         \/ \E n \in 1 .. MaxCount, t \in BOOLEAN : ReadCall(r, n, t)
         \/ ReaderStep(r)
         \/ ReadTimesOut(r)
    \/ \E b \in BOOLEAN : SetLoopback(b)
    \/ FlushReceive
    \/ Stop

\* A reader that has been woken gets the mutex and runs.  Nothing is assumed
\* of deadlines: a timeout may be weeks away.
Fairness == \A r \in Readers : WF_vars(ReaderStep(r))

Spec == Init /\ [][Next]_vars
FairSpec == Spec /\ Fairness

---------------------------------------------------------------------------
(* Properties *)

\* Every variable holds a value of its kind, and the queue its bound.
TypeOK ==
    /\ queue \in Seq(Items) /\ Len(queue) <= Capacity
    /\ overflow \in BOOLEAN /\ malformed \in BOOLEAN
    /\ loopback \in BOOLEAN /\ stopped \in BOOLEAN
    /\ pc \in [Readers -> {"idle", "ready", "waiting"}]
    /\ want \in [Readers -> 1 .. MaxCount]
    /\ timed \in [Readers -> BOOLEAN]
    /\ got \in [Readers -> Seq(Items)]
    /\ \A r \in Readers : Len(got[r]) <= want[r]
    /\ status \in [Readers -> {"none", "ok", "timeout", "empty", "overflow",
                               "malformed", "stopped"}]
    /\ produced \in 0 .. MaxItems
    /\ dropped \in SUBSET Items /\ garbled \in SUBSET Items

\* No read that returns without an error has handed out an item from beyond
\* a gap nobody has been told of: with several readers, whichever of them
\* crosses a gap first reports it, or another already has.
NoSilentGap ==
    [][\A r \in Readers :
         pc[r] # "idle" /\ pc'[r] = "idle" /\ status'[r] \in {"ok", "timeout"} =>
           \A i \in 1 .. Len(got'[r]), a \in dropped' \cup garbled' :
             got'[r][i] < a]_vars

\* A loss flag is up exactly while there is a loss to report: none is
\* forgotten, and none reported twice or after CLEAR_RX_BUFFER.
LossFlagsExact ==
    /\ overflow <=> dropped # {}
    /\ malformed <=> garbled # {}

\* A stopped receiver holds nothing and accepts nothing: it may live on in
\* a blocked reader's shared_ptr for as long as that read takes.
StoppedHoldsNothing == stopped => queue = <<>>

\* The queue keeps its bound while the receiver runs, and is empty for good
\* once it is stopped.
Safety == TypeOK /\ StoppedHoldsNothing

\* stop() wakes every reader, whatever its timeout.
StopWakesReaders ==
    \A r \in Readers : (stopped /\ pc[r] # "idle") ~> pc[r] = "idle"
============================================================================
