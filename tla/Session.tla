------------------------------ MODULE Session ------------------------------
(***************************************************************************)
(* Session (src/session.cpp): one command at a time to the adapter over a  *)
(* transport with its own reader thread.  Application threads call         *)
(* command() and close(), the reader thread calls receive() and failed(),  *)
(* the API layer installs and retires the CAN receiver.                    *)
(*                                                                         *)
(* Each action is one critical section of mutex_ or one transport call.    *)
(* Time is not represented: a deadline may pass whenever a thread waits    *)
(* for it, and the ten-second quarantine of a sequence number may end at   *)
(* any moment (Age).  The adapter (external) executes each request once    *)
(* and answers at most once, whenever it likes.                            *)
(***************************************************************************)
EXTENDS Naturals, FiniteSets

CONSTANTS Threads,    \* application threads
          Nodes,      \* wire nodes a command can be addressed to
          Receivers,  \* CanReceiver objects the API layer may install
          MaxSeq,     \* largest sequence number (255 in the code)
          MaxCmds,    \* bound: commands issued in a behaviour
          None

ASSUME ConstAssumption ==
    /\ MaxSeq \in Nat \ {0}
    /\ MaxCmds \in Nat
    /\ None \notin Threads \cup Nodes \cup Receivers \cup Nat

Cmds == 1 .. MaxCmds
Seqs == 1 .. MaxSeq
Requests == [cmd : Cmds, seq : Seqs, node : Nodes]
\* Decoded bodies from the adapter; long means minimum_ bytes or more and
\* addressed to the host, op what response_opcode makes of the opcode.
Bodies == [op : {"response", "indication"}, src : Nodes, seq : Seqs,
           long : BOOLEAN, cmd : Cmds]

VARIABLES
    pc,           \* where each thread is
    cmd,          \* the command each thread is executing (ghost identity)
    node,         \* the node it is addressed to
    issued,       \* commands issued so far
    transaction,  \* owner of the timed mutex transaction_
    sequence,     \* sequence_: last number handed out
    pending,      \* pending_: sequence awaited, 0 for none
    pendingSource,\* pending_source_
    response,     \* response_
    failure,      \* failure_: "none" stands for the empty string
    closing,      \* closing_
    stopped,      \* stopped_
    held,         \* sequence numbers still in quarantine (used_)
    closer,       \* owner of close_mutex_
    current,      \* can_receiver_
    rx,           \* state of every CanReceiver
    transport,    \* "up", "faulting", "down" or "stopped"
    inbox,        \* requests on their way to the adapter
    outbox,       \* bodies on their way to the host
    sent,         \* history: commands whose request may have reached the wire
    executed,     \* history: commands the adapter executed
    outcome,      \* history: how each command ended
    reply         \* history: the response each command returned

threadVars == <<pc, cmd, node, issued>>
matchVars == <<pending, pendingSource, response>>
seqVars == <<sequence, held>>
closeVars == <<closing, stopped, closer>>
rxVars == <<current, rx>>
wireVars == <<inbox, outbox, sent, executed>>
resultVars == <<outcome, reply>>
vars == <<threadVars, transaction, matchVars, seqVars, failure, closeVars,
          rxVars, transport, wireVars, resultVars>>

usable == ~closing /\ failure = "none"
Active(t) == pc[t] \in {"prepared", "sending", "waiting"}

Init ==
    /\ pc = [t \in Threads |-> "idle"]
    /\ cmd = [t \in Threads |-> None]
    /\ node = [t \in Threads |-> None]
    /\ issued = 0
    /\ transaction = None
    /\ sequence = 0 /\ held = {}
    /\ pending = 0 /\ pendingSource = None /\ response = None
    /\ failure = "none"
    /\ closing = FALSE /\ stopped = FALSE /\ closer = None
    /\ current = None /\ rx = [r \in Receivers |-> "new"]
    /\ transport = "up"
    /\ inbox = {} /\ outbox = {} /\ sent = {} /\ executed = {}
    /\ outcome = [c \in Cmds |-> "none"]
    /\ reply = [c \in Cmds |-> None]

---------------------------------------------------------------------------
(* Helpers *)

\* can_receiver_->stop(...) if a receiver is installed.
StopReceiver ==
    rx' = [r \in Receivers |-> IF r = current THEN "stopped" ELSE rx[r]]

\* The thread leaves command() by an exception.
Throw(t) ==
    /\ pc' = [pc EXCEPT ![t] = "idle"]
    /\ outcome' = [outcome EXCEPT ![cmd[t]] = "error"]
    /\ UNCHANGED <<cmd, node, issued, reply>>

\* Mutant: the wrap at 255 forgotten.
Mutant_Nth(i) == sequence + i

\* Scan order of the allocation loop: sequence_ % 255 + 1, and so on.
Nth(i) == ((sequence + i - 1) % MaxSeq) + 1

\* The first sequence number after sequence_ that is not in quarantine.
NextSeq ==
    LET free == {i \in 1 .. MaxSeq : Nth(i) \notin held}
    IN  IF free = {} THEN 0
        ELSE Nth(CHOOSE i \in free : \A j \in free : i <= j)

\* Mutant: response_opcode not consulted.
Mutant_Matches(b) ==
    /\ pending # 0 /\ response = None
    /\ b.long /\ b.src = pendingSource /\ b.seq = pending

\* receive(): which body satisfies the waiting command.
Matches(b) ==
    /\ pending # 0 /\ response = None
    /\ b.long
    /\ b.op = "response"
    /\ b.src = pendingSource
    /\ b.seq = pending

---------------------------------------------------------------------------
(* command() *)

Call(t, n) ==
    /\ pc[t] = "idle" /\ issued < MaxCmds
    /\ pc' = [pc EXCEPT ![t] = "slot"]
    /\ cmd' = [cmd EXCEPT ![t] = issued + 1]
    /\ node' = [node EXCEPT ![t] = n]
    /\ issued' = issued + 1
    /\ UNCHANGED <<transaction, matchVars, seqVars, failure, closeVars, rxVars,
                   transport, wireVars, resultVars>>

\* try_lock_until gives up.
SlotTimesOut(t) ==
    /\ pc[t] = "slot"
    /\ Throw(t)
    /\ UNCHANGED <<transaction, matchVars, seqVars, failure, closeVars, rxVars,
                   transport, wireVars>>

\* The slot is free, but the session is closing, has failed, or has no
\* sequence number left.
Refuse(t) ==
    /\ pc[t] = "slot" /\ transaction = None
    /\ ~usable \/ NextSeq = 0
    /\ Throw(t)
    /\ UNCHANGED <<transaction, matchVars, seqVars, failure, closeVars, rxVars,
                   transport, wireVars>>

\* request() or encode() rejects the payload: the number has been stepped
\* over, but neither the quarantine nor the matcher has been touched.
Unencodable(t) ==
    /\ pc[t] = "slot" /\ transaction = None
    /\ usable /\ NextSeq # 0
    /\ sequence' = NextSeq
    /\ Throw(t)
    /\ UNCHANGED <<transaction, matchVars, held, failure, closeVars, rxVars,
                   transport, wireVars>>

\* Mutant: only closing_ is tested before a number is allocated.
Mutant_Prepare(t) ==
    /\ pc[t] = "slot" /\ transaction = None
    /\ ~closing /\ NextSeq # 0
    /\ transaction' = t
    /\ sequence' = NextSeq
    /\ held' = held \cup {NextSeq}
    /\ pending' = NextSeq /\ pendingSource' = node[t] /\ response' = None
    /\ pc' = [pc EXCEPT ![t] = "prepared"]
    /\ UNCHANGED <<cmd, node, issued, failure, closeVars, rxVars, transport,
                   wireVars, resultVars>>

\* Take the slot, allocate a sequence number and start expecting its answer.
Prepare(t) ==
    /\ pc[t] = "slot" /\ transaction = None
    /\ usable /\ NextSeq # 0
    /\ transaction' = t
    /\ sequence' = NextSeq
    /\ held' = held \cup {NextSeq}
    /\ pending' = NextSeq /\ pendingSource' = node[t] /\ response' = None
    /\ pc' = [pc EXCEPT ![t] = "prepared"]
    /\ UNCHANGED <<cmd, node, issued, failure, closeVars, rxVars, transport,
                   wireVars, resultVars>>

\* Mutant: the number stays in quarantine although nothing was written.
Mutant_ReleaseUnsent(t) ==
    /\ pc[t] = "prepared"
    /\ Throw(t)
    /\ transaction' = None
    /\ pending' = 0
    /\ UNCHANGED <<pendingSource, response, seqVars, failure, closeVars,
                   rxVars, transport, wireVars>>

\* sequence_known threw, or the deadline passed before the write.
ReleaseUnsent(t) ==
    /\ pc[t] = "prepared"
    /\ Throw(t)
    /\ transaction' = None
    /\ pending' = 0
    /\ held' = held \ {sequence}
    /\ UNCHANGED <<pendingSource, response, sequence, failure, closeVars,
                   rxVars, transport, wireVars>>

\* transport_->send writes: all of the request, or not enough of it.
Write(t) ==
    /\ pc[t] = "prepared"
    /\ pc' = [pc EXCEPT ![t] = "sending"]
    /\ \/ /\ transport = "up"
          /\ inbox' = inbox \cup {[cmd |-> cmd[t], seq |-> sequence, node |-> node[t]]}
          /\ sent' = sent \cup {cmd[t]}
       \/ UNCHANGED <<inbox, sent>>
    /\ UNCHANGED <<cmd, node, issued, transaction, matchVars, seqVars, failure,
                   closeVars, rxVars, transport, outbox, executed, resultVars>>

\* send returns, only when the whole request was written.
WriteReturns(t) ==
    /\ pc[t] = "sending" /\ cmd[t] \in sent
    /\ pc' = [pc EXCEPT ![t] = "waiting"]
    /\ UNCHANGED <<cmd, node, issued, transaction, matchVars, seqVars, failure,
                   closeVars, rxVars, transport, wireVars, resultVars>>

\* Mutant: a failed write does not poison the session.
Mutant_WriteFails(t) ==
    /\ pc[t] = "sending"
    /\ Throw(t)
    /\ transaction' = None
    /\ pending' = 0
    /\ UNCHANGED <<pendingSource, response, seqVars, failure, closeVars,
                   rxVars, transport, wireVars>>

\* send throws: a write may have been partially delivered.
WriteFails(t) ==
    /\ pc[t] = "sending"
    /\ Throw(t)
    /\ transaction' = None
    /\ pending' = 0
    /\ failure' = IF failure = "none" THEN "write" ELSE failure
    /\ StopReceiver
    /\ UNCHANGED <<pendingSource, response, seqVars, closeVars, current,
                   transport, wireVars>>

\* The wait ends with an answer on a session that is still good.
Return(t) ==
    /\ pc[t] = "waiting" /\ response # None /\ usable
    /\ pc' = [pc EXCEPT ![t] = "idle"]
    /\ transaction' = None
    /\ pending' = 0
    /\ held' = held \ {sequence}
    /\ outcome' = [outcome EXCEPT ![cmd[t]] = "ok"]
    /\ reply' = [reply EXCEPT ![cmd[t]] = response]
    /\ UNCHANGED <<cmd, node, issued, pendingSource, response, sequence,
                   failure, closeVars, rxVars, transport, wireVars>>

\* Mutant: close() does not end the wait.
Mutant_WaitBroken(t) ==
    /\ pc[t] = "waiting" /\ failure # "none"
    /\ Throw(t)
    /\ transaction' = None
    /\ pending' = 0
    /\ held' = IF response # None THEN held \ {sequence} ELSE held
    /\ UNCHANGED <<pendingSource, response, sequence, failure, closeVars,
                   rxVars, transport, wireVars>>

\* The wait ends because the session is closing or has failed; only an
\* answered sequence number is released.
WaitBroken(t) ==
    /\ pc[t] = "waiting" /\ ~usable
    /\ Throw(t)
    /\ transaction' = None
    /\ pending' = 0
    /\ held' = IF response # None THEN held \ {sequence} ELSE held
    /\ UNCHANGED <<pendingSource, response, sequence, failure, closeVars,
                   rxVars, transport, wireVars>>

\* Mutant: a timed-out command leaves the session usable.
Mutant_WaitTimesOut(t) ==
    /\ pc[t] = "waiting" /\ response = None /\ usable
    /\ Throw(t)
    /\ transaction' = None
    /\ pending' = 0
    /\ UNCHANGED <<pendingSource, response, seqVars, failure, closeVars,
                   rxVars, transport, wireVars>>

\* Mutant: wait() instead of wait_until().
Mutant_WaitForever(t) == FALSE

\* wait_until reaches the deadline: the session is poisoned.
WaitTimesOut(t) ==
    /\ pc[t] = "waiting" /\ response = None /\ usable
    /\ Throw(t)
    /\ transaction' = None
    /\ pending' = 0
    /\ failure' = "timeout"
    /\ StopReceiver
    /\ UNCHANGED <<pendingSource, response, seqVars, closeVars, current,
                   transport, wireVars>>

---------------------------------------------------------------------------
(* close(), usable() and set_can_receiver() *)

CloseBegin(t) ==
    /\ pc[t] = "idle" /\ closer = None /\ ~stopped
    /\ closer' = t
    /\ closing' = TRUE
    /\ StopReceiver
    /\ pc' = [pc EXCEPT ![t] = "closing"]
    /\ UNCHANGED <<cmd, node, issued, transaction, matchVars, seqVars, failure,
                   stopped, current, transport, wireVars, resultVars>>

\* Mutant: the transport is stopped without waiting for the transaction.
Mutant_CloseStop(t) ==
    /\ pc[t] = "closing"
    /\ transaction' = t
    /\ stopped' = TRUE
    /\ pc' = [pc EXCEPT ![t] = "stopping"]
    /\ UNCHANGED <<cmd, node, issued, matchVars, seqVars, failure, closing,
                   closer, rxVars, transport, wireVars, resultVars>>

\* close() waits for the transaction in flight before it stops the transport.
CloseStop(t) ==
    /\ pc[t] = "closing" /\ transaction = None
    /\ transaction' = t
    /\ stopped' = TRUE
    /\ pc' = [pc EXCEPT ![t] = "stopping"]
    /\ UNCHANGED <<cmd, node, issued, matchVars, seqVars, failure, closing,
                   closer, rxVars, transport, wireVars, resultVars>>

\* transport_->stop() joins the reader thread, then both mutexes are released.
CloseEnd(t) ==
    /\ pc[t] = "stopping" /\ transport # "faulting"
    /\ transport' = "stopped"
    /\ transaction' = None /\ closer' = None
    /\ pc' = [pc EXCEPT ![t] = "idle"]
    /\ UNCHANGED <<cmd, node, issued, matchVars, seqVars, failure, closing,
                   stopped, rxVars, wireVars, resultVars>>

\* Mutant: a receiver installed on a dead session is not stopped.
Mutant_SetCanReceiver(new) ==
    /\ new # None => rx[new] = "new"
    /\ current' = new
    /\ rx' = [r \in Receivers |->
                IF r = new THEN "live"
                ELSE IF r = current THEN "stopped" ELSE rx[r]]
    /\ UNCHANGED <<threadVars, transaction, matchVars, seqVars, failure,
                   closeVars, transport, wireVars, resultVars>>

\* The old receiver is retired; a new one on a dead session starts stopped.
SetCanReceiver(new) ==
    /\ new # None => rx[new] = "new"
    /\ current' = new
    /\ rx' = [r \in Receivers |->
                IF r = new THEN (IF usable THEN "live" ELSE "stopped")
                ELSE IF r = current THEN "stopped" ELSE rx[r]]
    /\ UNCHANGED <<threadVars, transaction, matchVars, seqVars, failure,
                   closeVars, transport, wireVars, resultVars>>

---------------------------------------------------------------------------
(* Reader thread and transport *)

\* receive(): one decoded body.
Receive(b) ==
    /\ transport = "up" /\ b \in outbox
    /\ outbox' = outbox \ {b}
    /\ response' = IF Matches(b) THEN b ELSE response
    /\ UNCHANGED <<threadVars, transaction, pending, pendingSource, seqVars,
                   failure, closeVars, rxVars, transport, inbox, sent,
                   executed, resultVars>>

\* The transport faults: it stops itself, then calls Session::failed.
TransportFaults ==
    /\ transport = "up"
    /\ transport' = "faulting"
    /\ UNCHANGED <<threadVars, transaction, matchVars, seqVars, failure,
                   closeVars, rxVars, wireVars, resultVars>>

Failed ==
    /\ transport = "faulting"
    /\ transport' = "down"
    /\ failure' = IF failure = "none" THEN "fault" ELSE failure
    /\ StopReceiver
    /\ UNCHANGED <<threadVars, transaction, matchVars, seqVars, closeVars,
                   current, wireVars, resultVars>>

\* Ten seconds have passed since the number was handed out.
Age(s) ==
    /\ s \in held
    /\ held' = held \ {s}
    /\ UNCHANGED <<threadVars, transaction, matchVars, sequence, failure,
                   closeVars, rxVars, transport, wireVars, resultVars>>

---------------------------------------------------------------------------
(* The adapter (external) *)

Body(m, op, long) ==
    [op |-> op, src |-> m.node, seq |-> m.seq, long |-> long, cmd |-> m.cmd]

\* The request is executed; it is answered, answered with a body too short
\* to be a general response, or not answered, and an indication that echoes
\* its sequence number (iMsgTxDone) may be sent as well.
AdapterExecutes(m) ==
    /\ m \in inbox
    /\ inbox' = inbox \ {m}
    /\ executed' = executed \cup {m.cmd}
    /\ \E answer \in {{}, {Body(m, "response", TRUE)}, {Body(m, "response", FALSE)}},
          extra \in {{}, {Body(m, "indication", TRUE)}} :
            outbox' = outbox \cup answer \cup extra
    /\ UNCHANGED <<threadVars, transaction, matchVars, seqVars, failure,
                   closeVars, rxVars, transport, sent, resultVars>>

---------------------------------------------------------------------------
CommandStep(t) ==
    \/ SlotTimesOut(t) \/ Refuse(t) \/ Unencodable(t) \/ Prepare(t)
    \/ ReleaseUnsent(t)
    \/ Write(t) \/ WriteReturns(t) \/ WriteFails(t)
    \/ Return(t) \/ WaitBroken(t) \/ WaitTimesOut(t)

CloseStep(t) == CloseStop(t) \/ CloseEnd(t)

\* Nothing is left to do: every call has returned.
Finished ==
    /\ issued = MaxCmds /\ \A t \in Threads : pc[t] = "idle"
    /\ UNCHANGED vars

Next ==
    \/ \E t \in Threads :
         \/ \E n \in Nodes : Call(t, n)
         \/ CommandStep(t)
         \/ CloseBegin(t)
         \/ CloseStep(t)
    \/ \E r \in Receivers \cup {None} : SetCanReceiver(r)
    \/ \E b \in outbox : Receive(b)
    \/ \E m \in inbox : AdapterExecutes(m)
    \/ \E s \in Seqs : Age(s)
    \/ TransportFaults
    \/ Failed
    \/ Finished

\* Every wait in command() has a deadline and mutexes are released in
\* bounded time, so a thread inside a call keeps taking steps; so does the
\* reader thread between a fault and its report.  Nothing is assumed of the
\* adapter or of the callers.
Fairness ==
    /\ \A t \in Threads : WF_vars(CommandStep(t)) /\ WF_vars(CloseStep(t))
    /\ WF_vars(Failed)

Spec == Init /\ [][Next]_vars
FairSpec == Spec /\ Fairness

---------------------------------------------------------------------------
(* Properties *)

\* Every variable holds a value of its kind.
TypeOK ==
    /\ pc \in [Threads -> {"idle", "slot", "prepared", "sending", "waiting",
                           "closing", "stopping"}]
    /\ cmd \in [Threads -> Cmds \cup {None}]
    /\ node \in [Threads -> Nodes \cup {None}]
    /\ issued \in 0 .. MaxCmds
    /\ transaction \in Threads \cup {None}
    /\ sequence \in 0 .. MaxSeq
    /\ held \in SUBSET Seqs
    /\ pending \in 0 .. MaxSeq
    /\ pendingSource \in Nodes \cup {None}
    /\ response \in Bodies \cup {None}
    /\ failure \in {"none", "fault", "write", "timeout"}
    /\ closing \in BOOLEAN /\ stopped \in BOOLEAN
    /\ closer \in Threads \cup {None}
    /\ current \in Receivers \cup {None}
    /\ rx \in [Receivers -> {"new", "live", "stopped"}]
    /\ transport \in {"up", "faulting", "down", "stopped"}
    /\ inbox \in SUBSET Requests
    /\ outbox \in SUBSET Bodies
    /\ sent \in SUBSET Cmds
    /\ executed \in SUBSET Cmds
    /\ outcome \in [Cmds -> {"none", "ok", "error"}]
    /\ reply \in [Cmds -> Bodies \cup {None}]

\* A command that returns normally returns the adapter's response to that
\* very command, never an indication and never a late answer to an earlier
\* command whose sequence number was handed out again.
OwnResponse ==
    \A c \in Cmds : outcome[c] = "ok" =>
        /\ reply[c] # None
        /\ reply[c].cmd = c /\ reply[c].op = "response"

\* A command that failed while the session remains usable never reached the
\* wire: the distinction channel_command relies on when it decides whether
\* the channel state is uncertain.
FailedIsUnsent ==
    \A c \in Cmds : outcome[c] = "error" /\ usable => c \notin sent

\* "At most one [sequence] can be held and this cannot trigger": a usable
\* session whose slot is free has none in quarantine, so command() never
\* runs out of sequence numbers.
NeverExhausted ==
    /\ \A s1, s2 \in held : s1 = s2
    /\ usable /\ transaction = None => held = {}

\* A CanReceiver that is still live belongs to a usable session and is the
\* one installed: every other one has been stopped, which is what wakes a
\* reader or writer blocked on it.
NoOrphanReceiver ==
    \A r \in Receivers : rx[r] = "live" => usable /\ r = current

\* Once transport_->stop() may have started no thread is between allocating
\* a sequence number and the end of its wait, so nothing is written to, and
\* nothing waits on, a stopped transport.
NoUseAfterStop ==
    stopped => \A t \in Threads : ~Active(t)

\* "Poisoned session must emit no further commands": no request reaches the
\* wire once command() has poisoned the session.
PoisonedEmitsNothing ==
    [][(failure \in {"timeout", "write"}) => sent' = sent]_vars

\* Every command() call returns, whatever the adapter does.
CommandReturns ==
    \A t \in Threads : pc[t] = "slot" ~> pc[t] = "idle"

\* close() returns, even while other threads hold the transaction.
CloseReturns ==
    \A t \in Threads : pc[t] = "closing" ~> pc[t] = "idle"

\* command() and close() return, whatever the adapter, the transport and the
\* other threads do.
CallsReturn == CommandReturns /\ CloseReturns

\* Session implements the contract its callers rely on.
Contract == INSTANCE CommandContract WITH
    usable <- usable,
    current <- IF transaction # None /\ Active(transaction)
               THEN cmd[transaction] ELSE None,
    sent <- sent, executed <- executed, outcome <- outcome

ImplementsContract == Contract!Spec
============================================================================
