----------------------------- MODULE Transmit ------------------------------
(***************************************************************************)
(* PassThruWriteMsgs (src/j2534.cpp) and the transmit half of CanReceiver  *)
(* (src/can.cpp).  Every message is one command to the adapter; before it  *)
(* is sent it is recorded under the command's sequence number, and the     *)
(* adapter's iMsgTxDone, which echoes that number and can overtake the     *)
(* command's response, credits the call that recorded it.  A timed write   *)
(* gives up the lifecycle lock and blocks until its own messages are       *)
(* credited.                                                               *)
(*                                                                         *)
(* Session::command appears as its contract (module CommandContract):      *)
(* accepted or refused by the firmware, failed unsent, or failed in doubt, *)
(* which stops the receiver.  The adapter (external) transmits in the      *)
(* order of its buffer, confirms what it transmitted and silently drops    *)
(* what the bus never took; a running periodic message is confirmed under  *)
(* the number of the command that added it, as the tests' adapter does.    *)
(***************************************************************************)
EXTENDS Naturals, Sequences, FiniteSets

CONSTANTS Writers,     \* application threads calling PassThruWriteMsgs
          MaxSeq,      \* largest sequence number (255 in the code)
          Capacity,    \* message_capacity: records kept (256 in the code)
          Depth,       \* messages the adapter's transmit buffer holds
          MaxBatch,    \* bound: messages in one call
          MaxCalls,    \* bound: write calls in a behaviour
          MaxCommands, \* bound: commands in a behaviour
          None

\* A full adapter buffer still leaves room for one record more.
ASSUME TransmitAssumption ==
    /\ MaxSeq \in Nat \ {0} /\ Capacity \in Nat /\ Depth \in Nat
    /\ Depth < Capacity
    /\ MaxBatch \in Nat \ {0} /\ MaxCalls \in Nat /\ MaxCommands \in Nat
    /\ None \notin Writers

Calls == 1 .. MaxCalls
Seqs == 1 .. MaxSeq
\* A message is named by its call and its place in the batch; <<0, 0>> is a
\* periodic message.
Frames == Calls \X (1 .. MaxBatch)
Periodic == <<0, 0>>
Pending == [seq : Seqs, frame : Frames]

VARIABLES
    lock,       \* owner of Device::lifecycle
    pc,         \* where each writer is
    call,       \* its current call
    size,       \* requested
    timed,      \* timeout # 0
    index,      \* messages of the batch the adapter has accepted
    calls,      \* calls made so far
    sequence,   \* Session::sequence_
    commands,   \* commands used so far
    records,    \* pending_transmits_
    confirmed,  \* TransmitCount::confirmed of each call
    stopped,    \* the receiver is stopped
    buffer,     \* the adapter's transmit buffer
    periodics,  \* sequence numbers under which periodic messages run
    onBus,      \* history: messages transmitted
    paired,     \* history: which transmission was credited to which record
    reused,     \* history: numbers given to a message while still in use
    ended       \* history: how each call ended

writerVars == <<lock, pc, call, size, timed, index, calls>>
sessionVars == <<sequence, commands, reused>>
creditVars == <<records, confirmed, paired>>
adapterVars == <<buffer, periodics, onBus>>
vars == <<writerVars, sessionVars, creditVars, stopped, adapterVars, ended>>

Init ==
    /\ lock = None
    /\ pc = [w \in Writers |-> "idle"]
    /\ call = [w \in Writers |-> 0]
    /\ size = [w \in Writers |-> 0]
    /\ timed = [w \in Writers |-> FALSE]
    /\ index = [w \in Writers |-> 0]
    /\ calls = 0
    /\ sequence = 0 /\ commands = 0 /\ reused = {}
    /\ records = <<>> /\ confirmed = [c \in Calls |-> 0] /\ paired = {}
    /\ stopped = FALSE
    /\ buffer = <<>> /\ periodics = {} /\ onBus = {}
    /\ ended = [c \in Calls |-> None]

---------------------------------------------------------------------------
(* Session and CanReceiver operations *)

\* The number the next command carries.
NextSeq == (sequence % MaxSeq) + 1
UseCommand ==
    /\ commands < MaxCommands
    /\ commands' = commands + 1
    /\ sequence' = NextSeq

\* The numbers under which a confirmation is waited for or may still come.
InUse ==
    {records[i].seq : i \in 1 .. Len(records)} \cup
    {buffer[i].seq : i \in 1 .. Len(buffer)} \cup periodics

\* The command adds a message, or a periodic one, that will be confirmed under
\* its number.  The session asks only whether the number is in quarantine
\* (used_), not whether a record or the adapter still holds it.
UseNumber == UseCommand /\ reused' = reused \cup ({NextSeq} \cap InUse)

\* Mutant: the list is not bounded.
Mutant_NoteTransmit(f) == records' = Append(records, [seq |-> NextSeq, frame |-> f])

\* note_transmit: the oldest record makes room for the newest.
NoteTransmit(f) ==
    records' = Append(IF Len(records) = Capacity THEN Tail(records) ELSE records,
                      [seq |-> NextSeq, frame |-> f])

\* forget_transmit: drop the newest record.
ForgetTransmit ==
    records' = IF records = <<>> THEN records
               ELSE SubSeq(records, 1, Len(records) - 1)

\* Mutant: confirmations are paired in the order of arrival.
Mutant_DeliverConfirmed(s, f) ==
    IF stopped \/ records = <<>>
    THEN UNCHANGED creditVars
    ELSE /\ records' = Tail(records)
         /\ confirmed' = [confirmed EXCEPT ![Head(records).frame[1]] = @ + 1]
         /\ paired' = paired \cup {[seq |-> s, frame |-> f, record |-> Head(records).frame]}

\* deliver_confirmed: the first record under the echoed number is credited;
\* it and the older ones, which the bus never confirmed, are discarded.
DeliverConfirmed(s, f) ==
    LET hits == {i \in 1 .. Len(records) : records[i].seq = s}
        hit == CHOOSE i \in hits : \A j \in hits : i <= j
    IN  IF stopped \/ hits = {}
        THEN UNCHANGED creditVars
        ELSE /\ records' = SubSeq(records, hit + 1, Len(records))
             /\ confirmed' = [confirmed EXCEPT ![records[hit].frame[1]] = @ + 1]
             /\ paired' = paired \cup {[seq |-> s, frame |-> f, record |-> records[hit].frame]}

---------------------------------------------------------------------------
(* PassThruWriteMsgs *)

\* The call has passed its checks and owns the lifecycle lock.
WriteCall(w, n, t) ==
    /\ pc[w] = "idle" /\ lock = None /\ ~stopped /\ calls < MaxCalls
    /\ lock' = w
    /\ calls' = calls + 1
    /\ pc' = [pc EXCEPT ![w] = "sending"]
    /\ call' = [call EXCEPT ![w] = calls + 1]
    /\ size' = [size EXCEPT ![w] = n]
    /\ timed' = [timed EXCEPT ![w] = t]
    /\ index' = [index EXCEPT ![w] = 0]
    /\ UNCHANGED <<sessionVars, creditVars, stopped, adapterVars, ended>>

\* Leave the call with the given count, by return or by exception.
End(w, ok, count) ==
    /\ pc' = [pc EXCEPT ![w] = "idle"]
    /\ lock' = IF lock = w THEN None ELSE lock
    /\ ended' = [ended EXCEPT ![call[w]] =
                   [ok |-> ok, timed |-> timed[w], size |-> size[w], count |-> count]]
    /\ UNCHANGED <<call, size, timed, index, calls>>

\* The catch block: a timed write reports what was confirmed, a queued one
\* what was accepted.
Throw(w) == End(w, FALSE, IF timed[w] THEN confirmed[call[w]] ELSE index[w])

\* A timed write finds its deadline expired, or the command fails before it
\* has a sequence number.
FailUnrecorded(w) ==
    /\ pc[w] = "sending"
    /\ Throw(w)
    /\ UNCHANGED <<sessionVars, creditVars, stopped, adapterVars>>

\* sequence_known: the message is recorded, then written.  The session may
\* have failed since command() looked: note_transmit does not ask.
Send(w) ==
    /\ pc[w] = "sending"
    /\ UseNumber
    /\ NoteTransmit(<<call[w], index[w] + 1>>)
    /\ pc' = [pc EXCEPT ![w] = "sent"]
    /\ UNCHANGED <<lock, call, size, timed, index, calls, confirmed, paired,
                   stopped, adapterVars, ended>>

\* The adapter takes the message into its buffer ...
AdapterAccepts(w) ==
    /\ pc[w] = "sent" /\ Len(buffer) < Depth
    /\ buffer' = Append(buffer, [seq |-> sequence,
                                 frame |-> <<call[w], index[w] + 1>>])
    /\ pc' = [pc EXCEPT ![w] = "accepted"]
    /\ UNCHANGED <<lock, call, size, timed, index, calls, sessionVars,
                   creditVars, stopped, periodics, onBus, ended>>

\* ... or the command fails unsent, or the firmware refuses it (buffer full
\* or any other status): the record is withdrawn.
Refused(w) ==
    /\ pc[w] = "sent" /\ ~stopped
    /\ ForgetTransmit
    /\ Throw(w)
    /\ UNCHANGED <<sessionVars, confirmed, paired, stopped, adapterVars>>

\* The command fails in doubt: the session is poisoned and the receiver
\* stopped, which drops every record; one noted since is withdrawn.
Ambiguous(w) ==
    /\ pc[w] \in {"sent", "accepted"}
    /\ stopped' = TRUE
    /\ records' = <<>>
    /\ Throw(w)
    /\ UNCHANGED <<sessionVars, confirmed, paired, adapterVars>>

\* Mutant: the writer waits with the lifecycle lock held.
Mutant_UnlockBeforeWait == UNCHANGED lock

\* "Disconnect/Close must be able to wake a blocked writer."
UnlockBeforeWait == lock' = None

\* The response: the next message, or the end of the loop.
Accepted(w) ==
    /\ pc[w] = "accepted" /\ ~stopped
    /\ index' = [index EXCEPT ![w] = @ + 1]
    /\ \/ /\ index[w] + 1 < size[w]
          /\ pc' = [pc EXCEPT ![w] = "sending"]
          /\ UNCHANGED <<lock, ended>>
       \/ /\ index[w] + 1 = size[w] /\ ~timed[w]
          /\ pc' = [pc EXCEPT ![w] = "idle"]
          /\ lock' = None
          /\ ended' = [ended EXCEPT ![call[w]] = [ok |-> TRUE, timed |-> FALSE,
                         size |-> size[w], count |-> size[w]]]
       \/ /\ index[w] + 1 = size[w] /\ timed[w]
          /\ pc' = [pc EXCEPT ![w] = "blocked"]
          /\ UnlockBeforeWait
          /\ UNCHANGED ended
    /\ UNCHANGED <<call, size, timed, calls, sessionVars, creditVars, stopped,
                   adapterVars>>

\* Mutant: the wait's target is one message short.
Mutant_Satisfied(w) == confirmed[call[w]] + 1 >= size[w]

\* await_transmitted's target is reached.
Satisfied(w) == confirmed[call[w]] >= size[w]

\* Mutant: await_transmitted does not look at stopped_.
Mutant_Await(w) ==
    /\ pc[w] = "blocked" /\ Satisfied(w)
    /\ End(w, ~stopped, confirmed[call[w]])
    /\ UNCHANGED <<sessionVars, creditVars, stopped, adapterVars>>

\* await_transmitted is woken: stop() wins over completion.
Await(w) ==
    /\ pc[w] = "blocked" /\ (stopped \/ Satisfied(w))
    /\ End(w, ~stopped, confirmed[call[w]])
    /\ UNCHANGED <<sessionVars, creditVars, stopped, adapterVars>>

AwaitTimesOut(w) ==
    /\ pc[w] = "blocked" /\ ~stopped /\ ~Satisfied(w)
    /\ Throw(w)
    /\ UNCHANGED <<sessionVars, creditVars, stopped, adapterVars>>

---------------------------------------------------------------------------
(* Other calls on the channel, each under the lifecycle lock *)

\* Any command that neither transmits nor touches a table (ReadVersion,
\* Ioctl, filters) uses up a sequence number.
OtherCommand ==
    /\ lock = None /\ ~stopped
    /\ UseCommand
    /\ UNCHANGED <<writerVars, reused, creditVars, stopped, adapterVars, ended>>

StartPeriodic ==
    /\ lock = None /\ ~stopped
    /\ UseNumber
    /\ periodics' = periodics \cup {NextSeq}
    /\ UNCHANGED <<writerVars, creditVars, stopped, buffer, onBus, ended>>

StopPeriodic(s) ==
    /\ lock = None /\ ~stopped
    /\ UseCommand
    /\ periodics' = periodics \ {s}
    /\ UNCHANGED <<writerVars, reused, creditVars, stopped, buffer, onBus, ended>>

\* CLEAR_TX_BUFFER: the adapter drops what it had not sent, forget_transmits
\* the records of it.
ClearTransmits ==
    /\ lock = None /\ ~stopped
    /\ UseCommand
    /\ buffer' = <<>>
    /\ records' = <<>>
    /\ UNCHANGED <<writerVars, reused, confirmed, paired, stopped, periodics, onBus, ended>>

\* Disconnect, Close or a failed session.
Stop ==
    /\ ~stopped
    /\ stopped' = TRUE
    /\ records' = <<>>
    /\ UNCHANGED <<writerVars, sessionVars, confirmed, paired, adapterVars, ended>>

---------------------------------------------------------------------------
(* The adapter (external) *)

\* The oldest message goes out and is confirmed under its number.
AdapterTransmits ==
    /\ buffer # <<>>
    /\ buffer' = Tail(buffer)
    /\ onBus' = onBus \cup {Head(buffer).frame}
    /\ DeliverConfirmed(Head(buffer).seq, Head(buffer).frame)
    /\ UNCHANGED <<writerVars, sessionVars, stopped, periodics, ended>>

\* The bus never takes it.
AdapterDrops ==
    /\ buffer # <<>>
    /\ buffer' = Tail(buffer)
    /\ UNCHANGED <<writerVars, sessionVars, creditVars, stopped, periodics,
                   onBus, ended>>

AdapterRunsPeriodic(s) ==
    /\ s \in periodics
    /\ DeliverConfirmed(s, Periodic)
    /\ UNCHANGED <<writerVars, sessionVars, stopped, adapterVars, ended>>

---------------------------------------------------------------------------
WriterStep(w) ==
    \/ FailUnrecorded(w) \/ Send(w) \/ AdapterAccepts(w) \/ Refused(w)
    \/ Ambiguous(w) \/ Accepted(w) \/ Await(w)

\* No call is in progress and none will come.
Finished ==
    /\ stopped \/ calls = MaxCalls
    /\ \A w \in Writers : pc[w] = "idle"
    /\ UNCHANGED vars

Next ==
    \/ \E w \in Writers :
         \/ \E n \in 1 .. MaxBatch, t \in BOOLEAN : WriteCall(w, n, t)
         \/ WriterStep(w)
         \/ AwaitTimesOut(w)
    \/ OtherCommand
    \/ StartPeriodic
    \/ \E s \in periodics : StopPeriodic(s) \/ AdapterRunsPeriodic(s)
    \/ ClearTransmits
    \/ Stop
    \/ AdapterTransmits
    \/ AdapterDrops
    \/ Finished

\* Session::command returns in bounded time (CommandReturns of Session) and
\* a woken writer runs; a write's own deadline may be weeks away.
Fairness == \A w \in Writers : WF_vars(WriterStep(w))

Spec == Init /\ [][Next]_vars
FairSpec == Spec /\ Fairness

---------------------------------------------------------------------------
(* Properties *)

Own(c) == {f \in onBus : f[1] = c}

\* Every variable holds a value of its kind, and the record list its bound.
TypeOK ==
    /\ lock \in Writers \cup {None}
    /\ pc \in [Writers -> {"idle", "sending", "sent", "accepted", "blocked"}]
    /\ call \in [Writers -> 0 .. MaxCalls]
    /\ size \in [Writers -> 0 .. MaxBatch]
    /\ timed \in [Writers -> BOOLEAN]
    /\ index \in [Writers -> 0 .. MaxBatch]
    /\ calls \in 0 .. MaxCalls
    /\ sequence \in 0 .. MaxSeq /\ commands \in 0 .. MaxCommands
    /\ records \in Seq(Pending) /\ Len(records) <= Capacity
    /\ confirmed \in [Calls -> Nat]
    /\ stopped \in BOOLEAN
    /\ buffer \in Seq(Pending) /\ Len(buffer) <= Depth
    /\ periodics \subseteq Seqs
    /\ onBus \subseteq Frames
    /\ paired \subseteq [seq : Seqs, frame : Frames \cup {Periodic}, record : Frames]
    /\ reused \subseteq Seqs
    /\ \A c \in Calls : ended[c] = None \/
         ended[c] \in [ok : BOOLEAN, timed : BOOLEAN, size : 1 .. MaxBatch, count : Nat]

\* While the receiver runs, and no number was given away that was still in
\* use, every call is credited with exactly its own messages that went out:
\* none is lost to another call's refusal, timeout or full record list, and
\* none is gained from another call or a periodic message.  Numbers wrap.
CreditExact ==
    reused = {} => \A c \in Calls :
        /\ confirmed[c] <= Cardinality(Own(c))
        /\ ~stopped => confirmed[c] = Cardinality(Own(c))

\* The record list keeps its bound, and what is credited is exact.
Safety == TypeOK /\ CreditExact

\* As long as no number in use was given away, a timed write reports only
\* messages that were really transmitted, and succeeds only if all of them
\* were; a queued one succeeds only if all were accepted.
CountsAreReal ==
    reused = {} => \A c \in Calls : ended[c] # None =>
        /\ ended[c].timed => ended[c].count <= Cardinality(Own(c))
        /\ ended[c].ok => ended[c].count = ended[c].size

\* Whatever happened before, a confirmation is credited to the record of the
\* message it confirms, unless that very number was given away while it was in
\* use (can.cpp:189).
ShiftNeedsReuse ==
    \A p \in paired : p.frame = p.record \/ p.seq \in reused

\* "A frame the bus never confirmed cannot shift later confirmations onto
\* the wrong request", and "a running periodic message ... must not be
\* mistaken for a timed write finishing": a confirmation is credited to the
\* record of the message it confirms.
NoShiftedConfirmation ==
    \A p \in paired : p.frame = p.record

\* stop() wakes every writer blocked on confirmations.
StopWakesWriters ==
    \A w \in Writers : (stopped /\ pc[w] = "blocked") ~> pc[w] # "blocked"

\* The lifecycle lock is always given back, also by a write whose messages
\* are never confirmed: Disconnect and Close can always get in.
LockIsReleased ==
    \A w \in Writers : (lock = w) ~> (lock # w)

\* No write holds up stop(), Disconnect or Close.
WritersYield == StopWakesWriters /\ LockIsReleased
============================================================================
