--------------------------- MODULE SessionProofs ---------------------------
(***************************************************************************)
(* Proofs that Session keeps its safety properties for any number of       *)
(* threads, nodes, receivers, commands and sequence numbers.               *)
(***************************************************************************)
EXTENDS Session, TLAPS

\* The program counters of a thread in command(), in the section under
\* transaction_, and past its write.
CommandPcs == {"slot", "prepared", "sending", "waiting"}
OwnerPcs == {"prepared", "sending", "waiting", "stopping"}
WrittenPcs == {"sending", "waiting"}

\* The thread that holds transaction_ is exactly the one inside the section
\* it protects.
SlotInv ==
    \A t \in Threads : transaction = t <=> pc[t] \in OwnerPcs

\* Commands are told apart, and an unfinished one has no outcome yet.
IdentityInv ==
    /\ \A t \in Threads : pc[t] \in CommandPcs =>
        /\ cmd[t] \in 1 .. issued /\ node[t] \in Nodes
        /\ outcome[cmd[t]] = "none"
        /\ pc[t] \in {"slot", "prepared"} => cmd[t] \notin sent
    /\ \A t, u \in Threads :
        pc[t] \in CommandPcs /\ pc[u] \in CommandPcs /\ t # u => cmd[t] # cmd[u]
    /\ \A c \in Cmds : c > issued => outcome[c] = "none" /\ c \notin sent

\* No response is outstanding that does not answer the command in progress.
OutstandingInv ==
    usable =>
        /\ \A m \in inbox : \E t \in Threads :
            /\ pc[t] \in WrittenPcs
            /\ m = [cmd |-> cmd[t], seq |-> sequence, node |-> node[t]]
        /\ \A b \in outbox : b.op = "response" =>
            /\ \E t \in Threads : pc[t] \in WrittenPcs /\ b.cmd = cmd[t]
            /\ inbox = {}
            /\ \A b2 \in outbox : b2.op = "response" => b2 = b

\* An answer that has been accepted is the answer to the command in progress,
\* and nothing else can still arrive for it.
ResponseInv ==
    usable => \A t \in Threads : Active(t) /\ response # None =>
        /\ pc[t] \in WrittenPcs
        /\ response.cmd = cmd[t] /\ response.op = "response"
        /\ inbox = {}
        /\ \A b \in outbox : b.op # "response"

\* Only the last number handed out can be in quarantine.
HeldInv ==
    /\ held \subseteq {sequence}
    /\ usable /\ transaction = None => held = {}
    /\ \A t \in Threads : Active(t) => sequence \in Seqs

\* close() and a poisoned session leave no command in progress.
LifecycleInv ==
    /\ stopped => closing /\ \A t \in Threads : ~Active(t)
    /\ \A t \in Threads : pc[t] \in {"closing", "stopping"} => closing
    /\ failure \in {"timeout", "write"} => \A t \in Threads : ~Active(t)

\* The inductive invariant.
IInv ==
    /\ TypeOK
    /\ SlotInv
    /\ IdentityInv
    /\ OutstandingInv
    /\ ResponseInv
    /\ HeldInv
    /\ LifecycleInv
    /\ OwnResponse
    /\ FailedIsUnsent
    /\ NoOrphanReceiver

---------------------------------------------------------------------------
\* With no number in quarantine the allocation loop takes the next one.
LEMMA NextSeqType ==
    ASSUME TypeOK, held = {}
    PROVE  NextSeq \in Seqs
<1> DEFINE free == {i \in 1 .. MaxSeq : Nth(i) \notin held}
<1>1. ASSUME NEW i \in 1 .. MaxSeq
      PROVE  Nth(i) \in 1 .. MaxSeq
  BY ConstAssumption DEF Nth, TypeOK
<1>2. free = 1 .. MaxSeq
  OBVIOUS
<1>3. 1 \in free /\ \A j \in free : 1 <= j
  BY <1>2, ConstAssumption
<1> DEFINE first == CHOOSE i \in free : \A j \in free : i <= j
<1>4. first \in 1 .. MaxSeq
  BY <1>2, <1>3
<1>5. NextSeq = Nth(first)
  BY <1>3 DEF NextSeq
<1> HIDE DEF first
<1> QED BY <1>1, <1>4, <1>5 DEF Seqs

\* A fresh session satisfies the inductive invariant.
LEMMA InitInv == Init => IInv
<1> SUFFICES ASSUME Init PROVE IInv
  OBVIOUS
<1>1. TypeOK
  <2>1. /\ issued \in 0 .. MaxCmds /\ sequence \in 0 .. MaxSeq
        /\ pending \in 0 .. MaxSeq
    BY ConstAssumption DEF Init
  <2>2. /\ pc \in [Threads -> {"idle", "slot", "prepared", "sending",
                             "waiting", "closing", "stopping"}]
        /\ rx \in [Receivers -> {"new", "live", "stopped"}]
        /\ outcome \in [Cmds -> {"none", "ok", "error"}]
    BY DEF Init
  <2>3. /\ cmd \in [Threads -> Cmds \cup {None}]
        /\ node \in [Threads -> Nodes \cup {None}]
        /\ reply \in [Cmds -> Bodies \cup {None}]
    BY DEF Init
  <2> QED BY <2>1, <2>2, <2>3 DEF Init, TypeOK
<1>2. SlotInv /\ IdentityInv /\ NoOrphanReceiver
  BY ConstAssumption
  DEF Init, SlotInv, OwnerPcs, IdentityInv, CommandPcs, Cmds, NoOrphanReceiver
<1>3. OutstandingInv /\ ResponseInv /\ HeldInv /\ LifecycleInv
  BY DEF Init, OutstandingInv, ResponseInv, HeldInv, LifecycleInv, Active
<1>4. OwnResponse /\ FailedIsUnsent
  BY DEF Init, OwnResponse, FailedIsUnsent
<1> QED BY <1>1, <1>2, <1>3, <1>4 DEF IInv

\* Every step of the system preserves the inductive invariant.
LEMMA StepInv == IInv /\ [Next]_vars => IInv'
<1> SUFFICES ASSUME IInv, [Next]_vars PROVE IInv'
  OBVIOUS
<1> USE DEF threadVars, matchVars, seqVars, closeVars, rxVars, wireVars,
            resultVars, CommandPcs, OwnerPcs, WrittenPcs, Active, usable
<1>1. CASE UNCHANGED vars
  BY <1>1
  DEF vars, IInv, TypeOK, SlotInv, IdentityInv, OutstandingInv, ResponseInv,
      HeldInv, LifecycleInv, OwnResponse, FailedIsUnsent, NoOrphanReceiver
<1>2. CASE Next
  <2>1. ASSUME NEW t \in Threads, NEW n \in Nodes, Call(t, n)
       PROVE  IInv'
    <3>1. TypeOK'
      BY <2>1, ConstAssumption
      DEF IInv, Call, TypeOK, Cmds, Seqs, Requests, Bodies
    <3>2. SlotInv'
      BY <2>1, ConstAssumption DEF IInv, Call, TypeOK, Cmds, SlotInv
    <3>3. IdentityInv'
      BY <2>1, ConstAssumption DEF IInv, Call, TypeOK, Cmds, IdentityInv
    <3>4. HeldInv'
      BY <2>1 DEF IInv, Call, TypeOK, Cmds, HeldInv
    <3>5. LifecycleInv'
      BY <2>1 DEF IInv, Call, TypeOK, Cmds, SlotInv, LifecycleInv
    <3>6. OutstandingInv' /\ ResponseInv' /\ OwnResponse' /\ FailedIsUnsent'
          /\ NoOrphanReceiver'
      BY <2>1, ConstAssumption
      DEF IInv, Call, OutstandingInv, ResponseInv, OwnResponse, Cmds,
          FailedIsUnsent, NoOrphanReceiver
    <3> QED BY <3>1, <3>2, <3>3, <3>4, <3>5, <3>6 DEF IInv
  <2>2. ASSUME NEW t \in Threads, SlotTimesOut(t)
       PROVE  IInv'
    <3>1. TypeOK'
      BY <2>2, ConstAssumption
      DEF IInv, SlotTimesOut, Throw, IdentityInv, TypeOK, Cmds, Seqs, Requests,
          Bodies
    <3>2. SlotInv'
      BY <2>2, ConstAssumption
      DEF IInv, SlotTimesOut, Throw, TypeOK, Cmds, SlotInv
    <3>3. IdentityInv'
      BY <2>2 DEF IInv, SlotTimesOut, Throw, TypeOK, Cmds, IdentityInv
    <3>4. HeldInv'
      BY <2>2 DEF IInv, SlotTimesOut, Throw, TypeOK, Cmds, HeldInv
    <3>5. FailedIsUnsent'
      BY <2>2
      DEF IInv, SlotTimesOut, Throw, TypeOK, Cmds, IdentityInv, FailedIsUnsent
    <3>6. OutstandingInv' /\ ResponseInv' /\ LifecycleInv' /\ OwnResponse'
          /\ NoOrphanReceiver'
      BY <2>2, ConstAssumption
      DEF IInv, SlotTimesOut, Throw, OutstandingInv, ResponseInv, LifecycleInv,
          OwnResponse, Cmds, NoOrphanReceiver
    <3> QED BY <3>1, <3>2, <3>3, <3>4, <3>5, <3>6 DEF IInv
  <2>3. ASSUME NEW t \in Threads, Refuse(t)
       PROVE  IInv'
    <3>1. TypeOK'
      BY <2>3, ConstAssumption
      DEF IInv, Refuse, Throw, IdentityInv, TypeOK, Cmds, Seqs, Requests,
          Bodies
    <3>2. SlotInv'
      BY <2>3, ConstAssumption DEF IInv, Refuse, Throw, TypeOK, Cmds, SlotInv
    <3>3. IdentityInv'
      BY <2>3 DEF IInv, Refuse, Throw, TypeOK, Cmds, IdentityInv
    <3>4. HeldInv'
      BY <2>3 DEF IInv, Refuse, Throw, TypeOK, Cmds, HeldInv
    <3>5. FailedIsUnsent'
      BY <2>3
      DEF IInv, Refuse, Throw, TypeOK, Cmds, IdentityInv, FailedIsUnsent
    <3>6. OutstandingInv' /\ ResponseInv' /\ LifecycleInv' /\ OwnResponse'
          /\ NoOrphanReceiver'
      BY <2>3, ConstAssumption
      DEF IInv, Refuse, Throw, OutstandingInv, ResponseInv, LifecycleInv,
          OwnResponse, Cmds, NoOrphanReceiver
    <3> QED BY <3>1, <3>2, <3>3, <3>4, <3>5, <3>6 DEF IInv
  <2>4. ASSUME NEW t \in Threads, Unencodable(t)
       PROVE  IInv'
    <3>a. NextSeq \in Seqs /\ held = {}
      BY <2>4, NextSeqType DEF IInv, HeldInv, Unencodable
    <3>1. TypeOK'
      BY <2>4, <3>a, ConstAssumption
      DEF IInv, Unencodable, Throw, TypeOK, Cmds, Seqs, Requests, Bodies,
          IdentityInv
    <3>2. SlotInv'
      BY <2>4, ConstAssumption
      DEF IInv, Unencodable, Throw, TypeOK, Cmds, SlotInv
    <3>3. IdentityInv'
      BY <2>4 DEF IInv, Unencodable, Throw, TypeOK, Cmds, IdentityInv
    <3>b. \A u \in Threads : pc[u] \notin WrittenPcs
      BY <2>4, ConstAssumption DEF IInv, SlotInv, Unencodable
    <3>c. inbox = {} /\ \A b \in outbox : b.op # "response"
      BY <2>4, <3>b DEF IInv, OutstandingInv, Unencodable
    <3>4. OutstandingInv'
      BY <2>4, <3>c DEF OutstandingInv, Unencodable
    <3>5. HeldInv'
      BY <2>4, <3>a, ConstAssumption
      DEF IInv, Unencodable, Throw, TypeOK, HeldInv, SlotInv
    <3>6. FailedIsUnsent'
      BY <2>4
      DEF IInv, Unencodable, Throw, TypeOK, Cmds, IdentityInv, FailedIsUnsent
    <3>7. ResponseInv' /\ LifecycleInv' /\ OwnResponse' /\ NoOrphanReceiver'
      BY <2>4, ConstAssumption
      DEF IInv, Unencodable, Throw, ResponseInv, LifecycleInv, OwnResponse,
          Cmds, NoOrphanReceiver
    <3> QED BY <3>1, <3>2, <3>3, <3>4, <3>5, <3>6, <3>7 DEF IInv
  <2>5. ASSUME NEW t \in Threads, Prepare(t)
       PROVE  IInv'
    <3>a. NextSeq \in Seqs /\ held = {}
      BY <2>5, NextSeqType DEF IInv, HeldInv, Prepare
    <3>1. TypeOK'
      BY <2>5, <3>a, ConstAssumption
      DEF IInv, Prepare, TypeOK, Cmds, Seqs, Requests, Bodies, IdentityInv
    <3>2. SlotInv'
      BY <2>5, ConstAssumption DEF IInv, Prepare, TypeOK, Cmds, SlotInv
    <3>3. IdentityInv'
      BY <2>5, ConstAssumption DEF IInv, Prepare, TypeOK, Cmds, IdentityInv
    <3>b. \A u \in Threads : pc[u] \notin WrittenPcs
      BY <2>5, ConstAssumption DEF IInv, SlotInv, Prepare
    <3>c. inbox = {} /\ \A b \in outbox : b.op # "response"
      BY <2>5, <3>b DEF IInv, OutstandingInv, Prepare
    <3>4. OutstandingInv'
      BY <2>5, <3>c DEF OutstandingInv, Prepare
    <3>5. ResponseInv'
      BY <2>5 DEF ResponseInv, Prepare
    <3>6. HeldInv'
      BY <2>5, <3>a, ConstAssumption DEF IInv, Prepare, TypeOK, HeldInv
    <3>7. LifecycleInv'
      BY <2>5 DEF IInv, Prepare, TypeOK, Cmds, SlotInv, LifecycleInv
    <3>8. OwnResponse' /\ FailedIsUnsent' /\ NoOrphanReceiver'
      BY <2>5, ConstAssumption
      DEF IInv, Prepare, OwnResponse, Cmds, FailedIsUnsent, NoOrphanReceiver
    <3> QED BY <3>1, <3>2, <3>3, <3>4, <3>5, <3>6, <3>7, <3>8 DEF IInv
  <2>6. ASSUME NEW t \in Threads, ReleaseUnsent(t)
       PROVE  IInv'
    <3>1. TypeOK'
      BY <2>6, ConstAssumption
      DEF IInv, ReleaseUnsent, Throw, IdentityInv, TypeOK, Cmds, Seqs,
          Requests, Bodies
    <3>2. SlotInv'
      BY <2>6, ConstAssumption
      DEF IInv, ReleaseUnsent, Throw, TypeOK, Cmds, SlotInv
    <3>3. IdentityInv'
      BY <2>6 DEF IInv, ReleaseUnsent, Throw, TypeOK, Cmds, IdentityInv
    <3>4. HeldInv'
      BY <2>6 DEF IInv, ReleaseUnsent, Throw, TypeOK, Cmds, HeldInv
    <3>5. FailedIsUnsent'
      BY <2>6
      DEF IInv, ReleaseUnsent, Throw, TypeOK, Cmds, IdentityInv, FailedIsUnsent
    <3>6. OutstandingInv' /\ ResponseInv' /\ LifecycleInv' /\ OwnResponse'
          /\ NoOrphanReceiver'
      BY <2>6, ConstAssumption
      DEF IInv, ReleaseUnsent, Throw, OutstandingInv, ResponseInv,
          LifecycleInv, OwnResponse, Cmds, NoOrphanReceiver
    <3> QED BY <3>1, <3>2, <3>3, <3>4, <3>5, <3>6 DEF IInv
  <2>7. ASSUME NEW t \in Threads, Write(t)
       PROVE  IInv'
    <3>a. [cmd |-> cmd[t], seq |-> sequence, node |-> node[t]] \in Requests
      BY <2>7, ConstAssumption
      DEF IInv, Write, TypeOK, IdentityInv, HeldInv, Cmds, Requests
    <3>b. inbox' \in SUBSET Requests /\ sent' \in SUBSET Cmds
      BY <2>7, <3>a DEF IInv, Write, TypeOK, Requests
    <3>1. TypeOK'
      BY <2>7, <3>b DEF IInv, Write, TypeOK
    <3>2. SlotInv'
      BY <2>7, ConstAssumption DEF IInv, Write, TypeOK, Cmds, SlotInv
    <3>3. IdentityInv'
      BY <2>7 DEF IInv, Write, TypeOK, Cmds, IdentityInv
    <3>c. /\ usable => response = None
          /\ \A u \in Threads : pc[u] \notin WrittenPcs
      BY <2>7 DEF IInv, SlotInv, ResponseInv, Write
    <3>d. usable => inbox = {} /\ \A b \in outbox : b.op # "response"
      BY <3>c DEF IInv, OutstandingInv
    <3>e. pc'[t] \in WrittenPcs /\ UNCHANGED <<cmd, node, sequence, outbox, usable>>
      BY <2>7 DEF IInv, TypeOK, Write
    <3>4. OutstandingInv'
      BY <2>7, <3>d, <3>e DEF OutstandingInv, Write
    <3>5. ResponseInv'
      BY <2>7, <3>c DEF ResponseInv, Write
    <3>6. HeldInv'
      BY <2>7 DEF IInv, Write, TypeOK, Cmds, HeldInv
    <3>7. LifecycleInv'
      BY <2>7 DEF IInv, Write, TypeOK, Cmds, SlotInv, LifecycleInv
    <3>8. FailedIsUnsent'
      BY <2>7 DEF IInv, Write, TypeOK, Cmds, IdentityInv, FailedIsUnsent
    <3>9. OwnResponse' /\ NoOrphanReceiver'
      BY <2>7, ConstAssumption
      DEF IInv, Write, OwnResponse, Cmds, NoOrphanReceiver
    <3> QED BY <3>1, <3>2, <3>3, <3>4, <3>5, <3>6, <3>7, <3>8, <3>9 DEF IInv
  <2>8. ASSUME NEW t \in Threads, WriteReturns(t)
       PROVE  IInv'
    <3>1. TypeOK'
      BY <2>8, ConstAssumption
      DEF IInv, WriteReturns, TypeOK, Cmds, Seqs, Requests, Bodies
    <3>2. SlotInv'
      BY <2>8, ConstAssumption DEF IInv, WriteReturns, TypeOK, Cmds, SlotInv
    <3>3. IdentityInv'
      BY <2>8, ConstAssumption
      DEF IInv, WriteReturns, TypeOK, Cmds, IdentityInv
    <3>4. HeldInv'
      BY <2>8 DEF IInv, WriteReturns, TypeOK, Cmds, HeldInv
    <3>5. LifecycleInv'
      BY <2>8 DEF IInv, WriteReturns, TypeOK, Cmds, SlotInv, LifecycleInv
    <3>6. OutstandingInv' /\ ResponseInv' /\ OwnResponse' /\ FailedIsUnsent'
          /\ NoOrphanReceiver'
      BY <2>8, ConstAssumption
      DEF IInv, WriteReturns, OutstandingInv, ResponseInv, OwnResponse, Cmds,
          FailedIsUnsent, NoOrphanReceiver
    <3> QED BY <3>1, <3>2, <3>3, <3>4, <3>5, <3>6 DEF IInv
  <2>9. ASSUME NEW t \in Threads, WriteFails(t)
       PROVE  IInv'
    <3>1. TypeOK'
      BY <2>9, ConstAssumption
      DEF IInv, WriteFails, Throw, StopReceiver, IdentityInv, TypeOK, Cmds,
          Seqs, Requests, Bodies
    <3>2. SlotInv'
      BY <2>9, ConstAssumption
      DEF IInv, WriteFails, Throw, StopReceiver, TypeOK, Cmds, SlotInv
    <3>3. IdentityInv'
      BY <2>9
      DEF IInv, WriteFails, Throw, StopReceiver, TypeOK, Cmds, IdentityInv
    <3>4. HeldInv'
      BY <2>9 DEF IInv, WriteFails, Throw, StopReceiver, TypeOK, Cmds, HeldInv
    <3>5. LifecycleInv'
      BY <2>9, ConstAssumption
      DEF IInv, WriteFails, Throw, StopReceiver, TypeOK, Cmds, SlotInv,
          LifecycleInv
    <3>6. FailedIsUnsent'
      BY <2>9
      DEF IInv, WriteFails, Throw, StopReceiver, TypeOK, Cmds, IdentityInv,
          FailedIsUnsent
    <3>7. OutstandingInv' /\ ResponseInv' /\ OwnResponse' /\
          NoOrphanReceiver'
      BY <2>9, ConstAssumption
      DEF IInv, WriteFails, Throw, StopReceiver, OutstandingInv, ResponseInv,
          OwnResponse, Cmds, NoOrphanReceiver
    <3> QED BY <3>1, <3>2, <3>3, <3>4, <3>5, <3>6, <3>7 DEF IInv
  <2>10. ASSUME NEW t \in Threads, Return(t)
       PROVE  IInv'
    <3>1. TypeOK'
      BY SMTT(30), <2>10, ConstAssumption
      DEF IInv, Return, IdentityInv, TypeOK, Cmds, Seqs, Requests, Bodies
    <3>2. SlotInv'
      BY <2>10, ConstAssumption DEF IInv, Return, TypeOK, Cmds, SlotInv
    <3>3. IdentityInv'
      BY <2>10 DEF IInv, Return, TypeOK, Cmds, IdentityInv
    <3>b. inbox = {} /\ \A b \in outbox : b.op # "response"
      BY <2>10 DEF IInv, ResponseInv, Return
    <3>4. OutstandingInv'
      BY <2>10, <3>b DEF OutstandingInv, Return
    <3>5. HeldInv'
      BY <2>10 DEF IInv, Return, TypeOK, Cmds, HeldInv
    <3>6. OwnResponse'
      BY <2>10, ConstAssumption
      DEF IInv, Return, TypeOK, Cmds, IdentityInv, ResponseInv, OwnResponse
    <3>7. FailedIsUnsent'
      BY <2>10 DEF IInv, Return, TypeOK, Cmds, IdentityInv, FailedIsUnsent
    <3>8. ResponseInv' /\ LifecycleInv' /\ NoOrphanReceiver'
      BY <2>10, ConstAssumption
      DEF IInv, Return, ResponseInv, LifecycleInv, NoOrphanReceiver
    <3> QED BY <3>1, <3>2, <3>3, <3>4, <3>5, <3>6, <3>7, <3>8 DEF IInv
  <2>11. ASSUME NEW t \in Threads, WaitBroken(t)
       PROVE  IInv'
    <3>1. TypeOK'
      BY <2>11, ConstAssumption
      DEF IInv, WaitBroken, Throw, IdentityInv, TypeOK, Cmds, Seqs, Requests,
          Bodies
    <3>2. SlotInv'
      BY <2>11, ConstAssumption
      DEF IInv, WaitBroken, Throw, TypeOK, Cmds, SlotInv
    <3>3. IdentityInv'
      BY <2>11 DEF IInv, WaitBroken, Throw, TypeOK, Cmds, IdentityInv
    <3>4. HeldInv'
      BY <2>11 DEF IInv, WaitBroken, Throw, TypeOK, Cmds, HeldInv
    <3>5. FailedIsUnsent'
      BY <2>11
      DEF IInv, WaitBroken, Throw, TypeOK, Cmds, IdentityInv, FailedIsUnsent
    <3>6. OutstandingInv' /\ ResponseInv' /\ LifecycleInv' /\ OwnResponse'
          /\ NoOrphanReceiver'
      BY <2>11, ConstAssumption
      DEF IInv, WaitBroken, Throw, OutstandingInv, ResponseInv, LifecycleInv,
          OwnResponse, Cmds, NoOrphanReceiver
    <3> QED BY <3>1, <3>2, <3>3, <3>4, <3>5, <3>6 DEF IInv
  <2>12. ASSUME NEW t \in Threads, WaitTimesOut(t)
       PROVE  IInv'
    <3>1. TypeOK'
      BY <2>12, ConstAssumption
      DEF IInv, WaitTimesOut, Throw, StopReceiver, IdentityInv, TypeOK, Cmds,
          Seqs, Requests, Bodies
    <3>2. SlotInv'
      BY <2>12, ConstAssumption
      DEF IInv, WaitTimesOut, Throw, StopReceiver, TypeOK, Cmds, SlotInv
    <3>3. IdentityInv'
      BY <2>12
      DEF IInv, WaitTimesOut, Throw, StopReceiver, TypeOK, Cmds, IdentityInv
    <3>4. HeldInv'
      BY <2>12
      DEF IInv, WaitTimesOut, Throw, StopReceiver, TypeOK, Cmds, HeldInv
    <3>5. LifecycleInv'
      BY <2>12, ConstAssumption
      DEF IInv, WaitTimesOut, Throw, StopReceiver, TypeOK, Cmds, SlotInv,
          LifecycleInv
    <3>6. FailedIsUnsent'
      BY <2>12
      DEF IInv, WaitTimesOut, Throw, StopReceiver, TypeOK, Cmds, IdentityInv,
          FailedIsUnsent
    <3>7. OutstandingInv' /\ ResponseInv' /\ OwnResponse' /\
          NoOrphanReceiver'
      BY <2>12, ConstAssumption
      DEF IInv, WaitTimesOut, Throw, StopReceiver, OutstandingInv, ResponseInv,
          OwnResponse, Cmds, NoOrphanReceiver
    <3> QED BY <3>1, <3>2, <3>3, <3>4, <3>5, <3>6, <3>7 DEF IInv
  <2>13. ASSUME NEW t \in Threads, CloseBegin(t)
       PROVE  IInv'
    <3>1. TypeOK'
      BY <2>13, ConstAssumption
      DEF IInv, CloseBegin, StopReceiver, TypeOK, Cmds, Seqs, Requests, Bodies
    <3>2. SlotInv'
      BY <2>13, ConstAssumption
      DEF IInv, CloseBegin, StopReceiver, TypeOK, Cmds, SlotInv
    <3>3. IdentityInv'
      BY <2>13, ConstAssumption
      DEF IInv, CloseBegin, StopReceiver, TypeOK, Cmds, IdentityInv
    <3>4. HeldInv'
      BY <2>13 DEF IInv, CloseBegin, StopReceiver, TypeOK, Cmds, HeldInv
    <3>5. LifecycleInv'
      BY <2>13
      DEF IInv, CloseBegin, StopReceiver, TypeOK, Cmds, SlotInv, LifecycleInv
    <3>6. OutstandingInv' /\ ResponseInv' /\ OwnResponse' /\ FailedIsUnsent'
          /\ NoOrphanReceiver'
      BY <2>13, ConstAssumption
      DEF IInv, CloseBegin, StopReceiver, OutstandingInv, ResponseInv,
          OwnResponse, Cmds, FailedIsUnsent, NoOrphanReceiver
    <3> QED BY <3>1, <3>2, <3>3, <3>4, <3>5, <3>6 DEF IInv
  <2>14. ASSUME NEW t \in Threads, CloseStop(t)
       PROVE  IInv'
    <3>1. TypeOK'
      BY <2>14, ConstAssumption
      DEF IInv, CloseStop, TypeOK, Cmds, Seqs, Requests, Bodies
    <3>2. SlotInv'
      BY <2>14, ConstAssumption DEF IInv, CloseStop, TypeOK, Cmds, SlotInv
    <3>3. IdentityInv'
      BY <2>14, ConstAssumption DEF IInv, CloseStop, TypeOK, Cmds, IdentityInv
    <3>4. HeldInv'
      BY <2>14 DEF IInv, CloseStop, TypeOK, Cmds, HeldInv
    <3>5. LifecycleInv'
      BY <2>14, ConstAssumption
      DEF IInv, CloseStop, TypeOK, Cmds, SlotInv, LifecycleInv
    <3>6. OutstandingInv' /\ ResponseInv' /\ OwnResponse' /\ FailedIsUnsent'
          /\ NoOrphanReceiver'
      BY <2>14, ConstAssumption
      DEF IInv, CloseStop, OutstandingInv, ResponseInv, OwnResponse, Cmds,
          FailedIsUnsent, NoOrphanReceiver
    <3> QED BY <3>1, <3>2, <3>3, <3>4, <3>5, <3>6 DEF IInv
  <2>15. ASSUME NEW t \in Threads, CloseEnd(t)
       PROVE  IInv'
    <3>1. TypeOK'
      BY <2>15, ConstAssumption
      DEF IInv, CloseEnd, TypeOK, Cmds, Seqs, Requests, Bodies
    <3>2. SlotInv'
      BY <2>15, ConstAssumption DEF IInv, CloseEnd, TypeOK, Cmds, SlotInv
    <3>3. IdentityInv'
      BY <2>15, ConstAssumption DEF IInv, CloseEnd, TypeOK, Cmds, IdentityInv
    <3>4. HeldInv'
      BY <2>15 DEF IInv, CloseEnd, TypeOK, Cmds, LifecycleInv, HeldInv
    <3>5. LifecycleInv'
      BY <2>15 DEF IInv, CloseEnd, TypeOK, Cmds, SlotInv, LifecycleInv
    <3>6. OutstandingInv' /\ ResponseInv' /\ OwnResponse' /\ FailedIsUnsent'
          /\ NoOrphanReceiver'
      BY <2>15, ConstAssumption
      DEF IInv, CloseEnd, OutstandingInv, ResponseInv, OwnResponse, Cmds,
          FailedIsUnsent, NoOrphanReceiver
    <3> QED BY <3>1, <3>2, <3>3, <3>4, <3>5, <3>6 DEF IInv
  <2>16. ASSUME NEW new \in Receivers \cup {None}, SetCanReceiver(new)
       PROVE  IInv'
    <3>1. TypeOK'
      BY <2>16, ConstAssumption
      DEF IInv, SetCanReceiver, TypeOK, Cmds, Seqs, Requests, Bodies
    <3>2. SlotInv' /\ IdentityInv' /\ OutstandingInv' /\ ResponseInv' /\
          HeldInv' /\ LifecycleInv' /\ OwnResponse' /\ FailedIsUnsent' /\
          NoOrphanReceiver'
      BY <2>16, ConstAssumption
      DEF IInv, SetCanReceiver, SlotInv, IdentityInv, OutstandingInv,
          ResponseInv, HeldInv, LifecycleInv, OwnResponse, Cmds,
          FailedIsUnsent, NoOrphanReceiver
    <3> QED BY <3>1, <3>2 DEF IInv
  <2>17. ASSUME NEW b \in outbox, Receive(b)
       PROVE  IInv'
    <3>1. TypeOK'
      BY <2>17, ConstAssumption
      DEF IInv, Receive, Matches, TypeOK, Cmds, Seqs, Requests, Bodies
    <3>2. ResponseInv'
      BY <2>17, ConstAssumption
      DEF IInv, Receive, Matches, TypeOK, Cmds, SlotInv, OutstandingInv,
          ResponseInv
    <3>3. SlotInv' /\ IdentityInv' /\ OutstandingInv' /\ HeldInv' /\
          LifecycleInv' /\ OwnResponse' /\ FailedIsUnsent' /\
          NoOrphanReceiver'
      BY <2>17, ConstAssumption
      DEF IInv, Receive, Matches, SlotInv, IdentityInv, OutstandingInv,
          HeldInv, LifecycleInv, OwnResponse, Cmds, FailedIsUnsent,
          NoOrphanReceiver
    <3> QED BY <3>1, <3>2, <3>3 DEF IInv
  <2>18. ASSUME NEW m \in inbox, AdapterExecutes(m)
       PROVE  IInv'
    <3>1. TypeOK'
      <4>1. \A op \in {"response", "indication"}, l \in BOOLEAN :
              Body(m, op, l) \in Bodies
        BY <2>18 DEF IInv, TypeOK, Body, Bodies, Requests
      <4>2. m.cmd \in Cmds /\ inbox' \subseteq inbox
        BY <2>18 DEF IInv, TypeOK, AdapterExecutes, Requests
      <4>3. outbox' \subseteq outbox \cup {Body(m, "response", TRUE),
              Body(m, "response", FALSE), Body(m, "indication", TRUE)}
        BY <2>18 DEF AdapterExecutes
      <4>4. outbox' \in SUBSET Bodies
        BY <4>1, <4>3 DEF IInv, TypeOK
      <4> QED
        BY <2>18, <4>2, <4>4 DEF IInv, TypeOK, AdapterExecutes
    <3>2. OutstandingInv'
      <4> SUFFICES ASSUME usable' PROVE OutstandingInv'
        BY DEF OutstandingInv
      <4>1. usable /\ UNCHANGED <<threadVars, sequence>>
        BY <2>18 DEF AdapterExecutes
      <4>2. PICK t \in Threads : /\ pc[t] \in WrittenPcs /\ m.cmd = cmd[t]
                              /\ inbox = {m}
        BY <4>1, <2>18, ConstAssumption DEF IInv, OutstandingInv, SlotInv
      <4>3. \A b \in outbox : b.op # "response"
        BY <4>1, <4>2 DEF IInv, OutstandingInv
      <4>4. inbox' = {}
        BY <4>2, <2>18 DEF AdapterExecutes
      <4>5. \A b \in outbox' : b.op = "response" =>
              b = Body(m, "response", TRUE) \/ b = Body(m, "response", FALSE)
        BY <4>3, <2>18 DEF AdapterExecutes, Body
      <4>6. ~(Body(m, "response", TRUE) \in outbox' /\ Body(m, "response", FALSE) \in outbox')
        BY <4>3, <2>18 DEF AdapterExecutes, Body
      <4>7. \A b, b2 \in outbox' : b.op = "response" /\ b2.op = "response" => b = b2
        BY <4>5, <4>6
      <4> QED
        BY <4>1, <4>2, <4>4, <4>5, <4>7 DEF OutstandingInv, Body
    <3>3. SlotInv' /\ IdentityInv' /\ ResponseInv' /\ HeldInv' /\
          LifecycleInv' /\ OwnResponse' /\ FailedIsUnsent' /\
          NoOrphanReceiver'
      BY <2>18, ConstAssumption
      DEF IInv, AdapterExecutes, Body, SlotInv, IdentityInv, ResponseInv,
          HeldInv, LifecycleInv, OwnResponse, Cmds, FailedIsUnsent,
          NoOrphanReceiver
    <3> QED BY <3>1, <3>2, <3>3 DEF IInv
  <2>19. ASSUME NEW s \in Seqs, Age(s)
       PROVE  IInv'
    <3>1. TypeOK'
      BY <2>19, ConstAssumption
      DEF IInv, Age, TypeOK, Cmds, Seqs, Requests, Bodies
    <3>2. SlotInv' /\ IdentityInv' /\ OutstandingInv' /\ ResponseInv' /\
          HeldInv' /\ LifecycleInv' /\ OwnResponse' /\ FailedIsUnsent' /\
          NoOrphanReceiver'
      BY <2>19, ConstAssumption
      DEF IInv, Age, SlotInv, IdentityInv, OutstandingInv, ResponseInv,
          HeldInv, LifecycleInv, OwnResponse, Cmds, FailedIsUnsent,
          NoOrphanReceiver
    <3> QED BY <3>1, <3>2 DEF IInv
  <2>20. CASE TransportFaults
    <3>1. TypeOK'
      BY <2>20, ConstAssumption
      DEF IInv, TransportFaults, TypeOK, Cmds, Seqs, Requests, Bodies
    <3>2. SlotInv' /\ IdentityInv' /\ OutstandingInv' /\ ResponseInv' /\
          HeldInv' /\ LifecycleInv' /\ OwnResponse' /\ FailedIsUnsent' /\
          NoOrphanReceiver'
      BY <2>20, ConstAssumption
      DEF IInv, TransportFaults, SlotInv, IdentityInv, OutstandingInv,
          ResponseInv, HeldInv, LifecycleInv, OwnResponse, Cmds,
          FailedIsUnsent, NoOrphanReceiver
    <3> QED BY <3>1, <3>2 DEF IInv
  <2>21. CASE Failed
    <3>1. TypeOK'
      BY <2>21, ConstAssumption
      DEF IInv, Failed, StopReceiver, TypeOK, Cmds, Seqs, Requests, Bodies
    <3>2. SlotInv' /\ IdentityInv' /\ OutstandingInv' /\ ResponseInv' /\
          HeldInv' /\ LifecycleInv' /\ OwnResponse' /\ FailedIsUnsent' /\
          NoOrphanReceiver'
      BY <2>21, ConstAssumption
      DEF IInv, Failed, StopReceiver, SlotInv, IdentityInv, OutstandingInv,
          ResponseInv, HeldInv, LifecycleInv, OwnResponse, Cmds,
          FailedIsUnsent, NoOrphanReceiver
    <3> QED BY <3>1, <3>2 DEF IInv
  <2>22. CASE Finished
    <3>1. TypeOK'
      BY <2>22, ConstAssumption
      DEF IInv, Finished, vars, TypeOK, Cmds, Seqs, Requests, Bodies
    <3>2. SlotInv' /\ IdentityInv' /\ OutstandingInv' /\ ResponseInv' /\
          HeldInv' /\ LifecycleInv' /\ OwnResponse' /\ FailedIsUnsent' /\
          NoOrphanReceiver'
      BY <2>22, ConstAssumption
      DEF IInv, Finished, vars, SlotInv, IdentityInv, OutstandingInv,
          ResponseInv, HeldInv, LifecycleInv, OwnResponse, Cmds,
          FailedIsUnsent, NoOrphanReceiver
    <3> QED BY <3>1, <3>2 DEF IInv
  <2> QED
    BY <2>1, <2>2, <2>3, <2>4, <2>5, <2>6, <2>7, <2>8, <2>9, <2>10, <2>11,
       <2>12, <2>13, <2>14, <2>15, <2>16, <2>17, <2>18, <2>19, <2>20, <2>21,
       <2>22, <1>2
    DEF Next, CommandStep, CloseStep
<1> QED BY <1>1, <1>2

\* The inductive invariant holds throughout.
LEMMA Invariance == Spec => []IInv
BY InitInv, StepInv, PTL DEF Spec

---------------------------------------------------------------------------
\* Type correctness of Session.
THEOREM TypeCorrect == Spec => []TypeOK
BY Invariance, PTL DEF IInv

\* A command that returns normally returns the adapter's answer to it.
THEOREM CommandsGetTheirOwnResponse == Spec => []OwnResponse
BY Invariance, PTL DEF IInv

\* A failure on a session that stays usable means nothing was sent.
THEOREM FailureOnUsableSessionIsUnsent == Spec => []FailedIsUnsent
BY Invariance, PTL DEF IInv

\* The quarantine never runs the session out of sequence numbers, as the
\* comment at session.cpp:56 claims.
THEOREM QuarantineHoldsAtMostOne == Spec => []NeverExhausted
<1>1. IInv => NeverExhausted
  BY DEF IInv, HeldInv, NeverExhausted
<1> QED BY Invariance, <1>1, PTL

\* Every receiver that is not the installed one of a live session is stopped.
THEOREM ReceiversAreStopped == Spec => []NoOrphanReceiver
BY Invariance, PTL DEF IInv

\* The transport is stopped only when no command can be using it.
THEOREM StopExcludesCommands == Spec => []NoUseAfterStop
<1>1. IInv => NoUseAfterStop
  BY DEF IInv, LifecycleInv, NoUseAfterStop
<1> QED BY Invariance, <1>1, PTL

\* A session poisoned by command() emits nothing more.
THEOREM PoisonIsFinal == Spec => PoisonedEmitsNothing
<1> DEFINE Quiet == (failure \in {"timeout", "write"}) => sent' = sent
<1>1. IInv /\ [Next]_vars => [Quiet]_vars
  <2> SUFFICES ASSUME IInv, Next, failure \in {"timeout", "write"}
               PROVE  sent' = sent
    BY DEF vars
  <2>1. \A t \in Threads : ~Write(t)
    BY DEF IInv, LifecycleInv, Active, Write
  <2> QED
    BY <2>1
    DEF Next, CommandStep, CloseStep, Call, SlotTimesOut, Refuse, Unencodable,
        Prepare, ReleaseUnsent, WriteReturns, WriteFails, Return, WaitBroken,
        WaitTimesOut, CloseBegin, CloseStop, CloseEnd, SetCanReceiver, Receive,
        AdapterExecutes, Age, TransportFaults, Failed, Finished, vars, wireVars
<1> QED BY Invariance, <1>1, PTL DEF Spec, PoisonedEmitsNothing
---------------------------------------------------------------------------
(* Refinement of CommandContract.                                          *)

\* What is on its way back was executed, and what was executed had been sent.
CausalInv ==
    /\ \A m \in inbox : m.cmd \in sent
    /\ \A b \in outbox : b.cmd \in executed
    /\ response # None => response.cmd \in executed

\* Responses have a cause from the start.
LEMMA CausalInit == Init => CausalInv
BY DEF Init, CausalInv

\* No step makes an answer up.
LEMMA CausalStep == TypeOK /\ CausalInv /\ [Next]_vars => CausalInv'
<1> SUFFICES ASSUME TypeOK, CausalInv, [Next]_vars PROVE CausalInv'
  OBVIOUS
<1> USE DEF threadVars, matchVars, seqVars, closeVars, rxVars, wireVars, resultVars
<1>1. ASSUME NEW t \in Threads, Prepare(t) PROVE CausalInv'
  BY <1>1 DEF Prepare, CausalInv
<1>2. ASSUME NEW t \in Threads, Write(t) PROVE CausalInv'
  <2>1. UNCHANGED <<outbox, executed, response>>
    BY <1>2 DEF Write
  <2>2. sent \subseteq sent' /\ \A m \in inbox' : m \in inbox \/ m.cmd \in sent'
    BY <1>2 DEF Write
  <2> QED BY <2>1, <2>2 DEF CausalInv
<1>3. ASSUME NEW b \in outbox, Receive(b) PROVE CausalInv'
  BY <1>3 DEF Receive, CausalInv
<1>4. ASSUME NEW m \in inbox, AdapterExecutes(m) PROVE CausalInv'
  <2>1. UNCHANGED <<sent, response>> /\ inbox' \subseteq inbox
    BY <1>4 DEF AdapterExecutes
  <2>2. executed' = executed \cup {m.cmd}
        /\ \A b \in outbox' : b \in outbox \/ b.cmd = m.cmd
    BY <1>4 DEF AdapterExecutes, Body
  <2> QED BY <2>1, <2>2 DEF CausalInv
<1>5. CASE UNCHANGED <<inbox, outbox, sent, executed, response>>
  BY <1>5 DEF CausalInv
<1>6. ASSUME NEW t \in Threads,
             \/ SlotTimesOut(t) \/ Refuse(t) \/ Unencodable(t) \/ ReleaseUnsent(t)
             \/ WriteReturns(t) \/ WriteFails(t) \/ Return(t) \/ WaitBroken(t)
             \/ WaitTimesOut(t) \/ CloseBegin(t) \/ CloseStep(t)
             \/ \E n \in Nodes : Call(t, n)
      PROVE  UNCHANGED <<inbox, outbox, sent, executed, response>>
  BY <1>6
  DEF SlotTimesOut, Refuse, Unencodable, ReleaseUnsent, WriteReturns, WriteFails,
     Return, WaitBroken, WaitTimesOut, CloseBegin, CloseStep, CloseStop, CloseEnd, Call
<1>7. ASSUME \/ \E r \in Receivers \cup {None} : SetCanReceiver(r)
             \/ \E s \in Seqs : Age(s)
             \/ TransportFaults \/ Failed \/ Finished \/ UNCHANGED vars
      PROVE  UNCHANGED <<inbox, outbox, sent, executed, response>>
  BY <1>7 DEF SetCanReceiver, Age, TransportFaults, Failed, Finished, vars
<1> QED
  BY <1>1, <1>2, <1>3, <1>4, <1>5, <1>6, <1>7 DEF Next, CommandStep

\* Session::command keeps the contract its callers rely on: one command at a
\* time, success only for a command the adapter executed, and a failure that
\* leaves the session usable only for one that never left the host
\* (session.cpp command, close and failed).
THEOREM SessionKeepsContract == Spec => ImplementsContract
<1>1. Init => Contract!Init
  BY DEF Init, Contract!Init, usable
<1>2. IInv /\ CausalInv /\ [Next]_vars => [Contract!Next]_(Contract!contractVars)
  <2> SUFFICES ASSUME IInv, CausalInv, [Next]_vars
               PROVE  [Contract!Next]_(Contract!contractVars)
    OBVIOUS
  <2> DEFINE cur == IF transaction # None /\ Active(transaction)
                    THEN cmd[transaction] ELSE None
             Stutter == UNCHANGED <<usable, cur, sent, executed, outcome>>
  <2> USE DEF threadVars, matchVars, seqVars, closeVars, rxVars, wireVars, resultVars
  <2>a. ASSUME NEW t \in Threads
        PROVE  /\ Active(t) <=> transaction = t /\ pc[t] # "stopping"
               /\ Active(t) => cur = cmd[t]
               /\ t # None
    BY ConstAssumption DEF IInv, SlotInv, OwnerPcs, Active
  <2>b. ASSUME NEW t \in Threads, pc[t] \in CommandPcs
        PROVE  /\ cmd[t] \in Cmds /\ cmd[t] # None /\ outcome[cmd[t]] = "none"
               /\ pc[t] = "slot" => cur # cmd[t]
    <3>0. cmd[t] \in 1 .. issued /\ outcome[cmd[t]] = "none" /\ issued \in 0 .. MaxCmds
      BY <2>b DEF IInv, TypeOK, IdentityInv
    <3>1. cmd[t] \in Cmds /\ outcome[cmd[t]] = "none"
      BY <3>0, ConstAssumption DEF Cmds
    <3>2. cmd[t] # None
      BY <3>1, ConstAssumption DEF Cmds
    <3>3. ASSUME pc[t] = "slot", cur = cmd[t] PROVE FALSE
      <4>1. transaction \in Threads /\ Active(transaction) /\ transaction # t
        BY <3>2, <3>3 DEF IInv, TypeOK, Active
      <4>2. cmd[transaction] = cmd[t]
        BY <2>a, <3>3, <4>1
      <4>3. pc[transaction] \in CommandPcs
        BY <4>1 DEF Active, CommandPcs
      <4> QED BY <2>b, <4>1, <4>2, <4>3 DEF IInv, IdentityInv
    <3> QED BY <3>1, <3>2, <3>3
  \* A step of t that leaves the slot as it is moves no command.
  <2>c. ASSUME NEW t \in Threads, ~Active(t), UNCHANGED transaction,
               NEW label \in {"idle", "slot", "closing"},
               pc' = [pc EXCEPT ![t] = label],
               \A u \in Threads : u # t => cmd'[u] = cmd[u]
        PROVE  cur' = cur
    <3>1. transaction # t => pc'[transaction] = pc[transaction] \/ transaction = None
      BY <2>c DEF IInv, TypeOK
    <3>2. ~Active(t)'
      BY <2>c DEF IInv, TypeOK, Active
    <3> QED BY <2>c, <3>1, <3>2 DEF IInv, TypeOK, Active
  <2>1. ASSUME NEW t \in Threads, NEW n \in Nodes, Call(t, n)
        PROVE  Stutter
    <3>1. ~Active(t) /\ UNCHANGED <<usable, transaction, sent, executed, outcome>>
      BY <2>1 DEF Call, Active, usable
    <3>2. pc' = [pc EXCEPT ![t] = "slot"] /\ \A u \in Threads : u # t => cmd'[u] = cmd[u]
      BY <2>1 DEF Call, IInv, TypeOK
    <3> QED BY <2>c, <3>1, <3>2
  <2>2. ASSUME NEW t \in Threads, SlotTimesOut(t) \/ Refuse(t) \/ Unencodable(t)
        PROVE  Contract!FailUnsent(cmd[t])
    <3>1. /\ pc[t] = "slot" /\ pc' = [pc EXCEPT ![t] = "idle"]
          /\ outcome' = [outcome EXCEPT ![cmd[t]] = "error"]
          /\ UNCHANGED <<usable, transaction, sent, executed, cmd>>
      BY <2>2 DEF SlotTimesOut, Refuse, Unencodable, Throw, usable
    <3>2. cmd[t] \notin sent /\ outcome[cmd[t]] = "none" /\ cur # cmd[t]
      BY <2>b, <3>1 DEF IInv, IdentityInv, CommandPcs
    <3>3. cur' = cur
      BY <2>c, <3>1 DEF Active
    <3> QED BY <3>1, <3>2, <3>3 DEF Contract!FailUnsent
  <2>3. ASSUME NEW t \in Threads, Prepare(t)
        PROVE  Contract!Start(cmd[t])
    <3>1. /\ pc[t] = "slot" /\ transaction = None /\ usable /\ transaction' = t
          /\ pc' = [pc EXCEPT ![t] = "prepared"]
          /\ UNCHANGED <<usable, cmd, sent, executed, outcome>>
      BY <2>3 DEF Prepare, usable
    <3>2. cmd[t] \notin sent /\ outcome[cmd[t]] = "none"
      BY <3>1 DEF IInv, IdentityInv, CommandPcs
    <3>3. cur = None /\ cur' = cmd[t]
      BY <2>a, <3>1 DEF IInv, TypeOK, Active
    <3> QED BY <3>1, <3>2, <3>3 DEF Contract!Start
  <2>4. ASSUME NEW t \in Threads, ReleaseUnsent(t)
        PROVE  Contract!FailUnsent(cmd[t])
    <3>1. /\ pc[t] = "prepared" /\ transaction' = None
          /\ outcome' = [outcome EXCEPT ![cmd[t]] = "error"]
          /\ UNCHANGED <<usable, sent, executed>>
      BY <2>4 DEF ReleaseUnsent, Throw, usable
    <3>2. cmd[t] \notin sent /\ outcome[cmd[t]] = "none"
      BY <3>1 DEF IInv, IdentityInv, CommandPcs
    <3>3. cur = cmd[t] /\ cur' = None
      BY <2>a, <3>1 DEF Active
    <3> QED BY <3>1, <3>2, <3>3 DEF Contract!FailUnsent
  <2>5. ASSUME NEW t \in Threads, Write(t) \/ WriteReturns(t)
        PROVE  Stutter \/ Contract!Transmit
    <3>1. /\ Active(t) /\ UNCHANGED <<usable, transaction, cmd, executed, outcome>>
          /\ sent' = sent \/ sent' = sent \cup {cmd[t]}
          /\ pc' \in {[pc EXCEPT ![t] = "sending"], [pc EXCEPT ![t] = "waiting"]}
      BY <2>5 DEF Write, WriteReturns, Active, usable
    <3>2. cmd[t] # None
      BY <2>b, <3>1 DEF Active, CommandPcs
    <3>3. cur = cmd[t] /\ cur' = cur
      BY <2>a, <3>1 DEF IInv, TypeOK, Active
    <3> QED BY <3>1, <3>2, <3>3 DEF Contract!Transmit
  <2>6. ASSUME NEW t \in Threads, WriteFails(t) \/ WaitBroken(t) \/ WaitTimesOut(t)
        PROVE  Contract!FailAmbiguous
    <3>1. /\ Active(t) /\ transaction' = None /\ usable' = FALSE
          /\ outcome' = [outcome EXCEPT ![cmd[t]] = "error"] /\ UNCHANGED <<sent, executed>>
      BY <2>6 DEF WriteFails, WaitBroken, WaitTimesOut, Throw, Active, usable
    <3>2. cmd[t] # None
      BY <2>b, <3>1 DEF Active, CommandPcs
    <3>3. cur = cmd[t] /\ cur' = None
      BY <2>a, <3>1
    <3> QED BY <3>1, <3>2, <3>3 DEF Contract!FailAmbiguous
  <2>7. ASSUME NEW t \in Threads, Return(t)
        PROVE  Contract!Succeed
    <3>1. /\ pc[t] = "waiting" /\ response # None /\ usable /\ transaction' = None
          /\ outcome' = [outcome EXCEPT ![cmd[t]] = "ok"]
          /\ UNCHANGED <<usable, sent, executed>>
      BY <2>7 DEF Return, usable
    <3>2. cur = cmd[t] /\ cur' = None
      BY <2>a, <3>1 DEF Active
    <3>3. cmd[t] \in executed
      BY <3>1 DEF IInv, ResponseInv, Active, CausalInv
    <3> QED BY <3>1, <3>2, <3>3 DEF Contract!Succeed
  <2>8. ASSUME NEW t \in Threads, CloseBegin(t)
        PROVE  Contract!Break
    <3>1. /\ pc[t] = "idle" /\ pc' = [pc EXCEPT ![t] = "closing"] /\ ~usable'
          /\ UNCHANGED <<transaction, cmd, sent, executed, outcome>>
      BY <2>8 DEF CloseBegin, usable
    <3>2. cur' = cur
      BY <2>c, <3>1 DEF Active
    <3> QED BY <3>1, <3>2 DEF Contract!Break
  <2>9. ASSUME NEW t \in Threads, CloseStep(t)
        PROVE  Stutter
    <3>1. UNCHANGED <<usable, sent, executed, outcome>>
      BY <2>9 DEF CloseStep, CloseStop, CloseEnd, usable
    <3>2. CASE CloseStop(t)
      <4>1. transaction = None /\ transaction' = t /\ pc'[t] = "stopping"
        BY <3>2 DEF CloseStop, IInv, TypeOK
      <4> QED BY <3>1, <4>1 DEF Active
    <3>3. CASE CloseEnd(t)
      <4>1. pc[t] = "stopping" /\ transaction' = None /\ transaction = t
        BY <3>3 DEF CloseEnd, IInv, SlotInv, OwnerPcs
      <4> QED BY <3>1, <4>1 DEF Active
    <3> QED BY <2>9, <3>2, <3>3 DEF CloseStep
  <2>10. ASSUME NEW m \in inbox, AdapterExecutes(m)
         PROVE  Contract!Execute(m.cmd) /\ m.cmd \in Cmds
    <3>1. m.cmd \in sent /\ m.cmd \in Cmds
      BY DEF CausalInv, IInv, TypeOK
    <3>2. /\ executed' = executed \cup {m.cmd}
          /\ UNCHANGED <<usable, pc, cmd, transaction, sent, outcome>>
      BY <2>10 DEF AdapterExecutes, usable
    <3> QED BY <3>1, <3>2 DEF Contract!Execute, Active
  <2>11. CASE Failed
    <3>1. ~usable' /\ UNCHANGED <<pc, cmd, transaction, sent, executed, outcome>>
      BY <2>11 DEF Failed, usable
    <3> QED BY <3>1 DEF Contract!Break, Contract!Next, Active
  <2>12. ASSUME \/ \E r \in Receivers \cup {None} : SetCanReceiver(r)
                \/ \E b \in outbox : Receive(b)
                \/ \E s \in Seqs : Age(s)
                \/ TransportFaults \/ Finished \/ UNCHANGED vars
         PROVE  Stutter
    <3>1. UNCHANGED <<closing, failure, pc, cmd, transaction, sent, executed, outcome>>
      BY <2>12 DEF SetCanReceiver, Receive, Age, TransportFaults, Finished, vars
    <3> QED BY <3>1 DEF Active, usable
  <2> QED
    <3> HIDE DEF cur
    <3>1. ASSUME NEW t \in Threads, CommandStep(t) PROVE Stutter \/ Contract!Next
      <4>1. pc[t] \in CommandPcs
        BY <3>1
        DEF CommandStep, SlotTimesOut, Refuse, Unencodable, Prepare, ReleaseUnsent,
           Write, WriteReturns, WriteFails, Return, WaitBroken, WaitTimesOut, CommandPcs
      <4>2. cmd[t] \in Cmds
        BY <2>b, <4>1
      <4> QED
        BY <2>2, <2>3, <2>4, <2>5, <2>6, <2>7, <3>1, <4>2
        DEF CommandStep, Contract!Next
    <3>2. Stutter => UNCHANGED Contract!contractVars
      BY DEF Contract!contractVars, cur
    <3> QED
      BY <2>1, <2>8, <2>9, <2>10, <2>11, <2>12, <3>1, <3>2 DEF Next, Contract!Next
<1>3. IInv => TypeOK
  BY DEF IInv
<1> QED
  BY Invariance, CausalInit, CausalStep, <1>1, <1>2, <1>3, PTL
  DEF Spec, ImplementsContract, Contract!Spec
============================================================================
