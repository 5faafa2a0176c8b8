------------------------- MODULE CanReceiverProofs -------------------------
(***************************************************************************)
(* Proofs that the receive queue is bounded, never loses an item without a *)
(* report and is empty once stopped, for any number of readers, any queue  *)
(* size, and reads of any length.                                          *)
(***************************************************************************)
EXTENDS CanReceiver, SequenceTheorems, TLAPS

\* The invariant that is inductive; each part needs only the types.
IInv == TypeOK /\ LossFlagsExact /\ StoppedHoldsNothing

LEMMA EmptyLemma == <<>> \in Seq(Items) /\ Len(<<>>) = 0
BY EmptySeq

LEMMA MinLemma ==
    ASSUME NEW a \in Nat, NEW b \in Nat
    PROVE  Min2(a, b) \in Nat /\ Min2(a, b) <= a /\ Min2(a, b) <= b
BY DEF Min2

\* A run of consecutive items is a sequence of items.
LEMMA RunLemma ==
    ASSUME NEW p \in Nat, NEW n \in Nat, p + n <= MaxItems
    PROVE  /\ [i \in 1 .. n |-> p + i] \in Seq(Items)
           /\ Len([i \in 1 .. n |-> p + i]) = n
BY ReceiverAssumption DEF Items

\* Queueing n items keeps the queue within its bound and the loss flags
\* exact: the flag goes up exactly when an item did not fit.
LEMMA PushLemma ==
    ASSUME IInv, NEW n \in Nat, Push(n)
    PROVE  /\ queue' \in Seq(Items) /\ Len(queue') <= Capacity
           /\ overflow' \in BOOLEAN /\ malformed' \in BOOLEAN
           /\ produced' \in 0 .. MaxItems
           /\ dropped' \in SUBSET Items /\ garbled' \in SUBSET Items
           /\ LossFlagsExact'
<1> DEFINE fits == Min2(n, Capacity - Len(queue))
           new == [i \in 1 .. fits |-> produced + i]
<1>0. queue \in Seq(Items) /\ Len(queue) \in Nat /\ Len(queue) <= Capacity
      /\ Capacity \in Nat /\ produced \in Nat /\ MaxItems \in Nat
  BY ReceiverAssumption, LenProperties DEF IInv, TypeOK
<1>1. fits \in Nat /\ fits <= n /\ fits <= Capacity - Len(queue)
  <2>1. Capacity - Len(queue) \in Nat
    BY <1>0
  <2> QED BY <2>1, MinLemma
<1>2. produced + n <= MaxItems /\ produced' = produced + n
      /\ queue' = queue \o new
      /\ overflow' = (overflow \/ fits < n)
      /\ dropped' = dropped \cup (produced + fits + 1) .. (produced + n)
      /\ malformed' = malformed /\ garbled' = garbled
  BY DEF Push
<1> HIDE DEF fits
<1>3. new \in Seq(Items) /\ Len(new) = fits
  <2>1. produced + fits <= MaxItems
    BY <1>0, <1>1, <1>2
  <2> QED BY <2>1, <1>0, <1>1, RunLemma
<1> HIDE DEF new
<1>4. queue' \in Seq(Items) /\ Len(queue') <= Capacity
  BY <1>0, <1>1, <1>2, <1>3, ConcatProperties
<1>5. (produced + fits + 1) .. (produced + n) \subseteq Items
  BY <1>0, <1>1, <1>2 DEF Items
<1>6. fits < n <=> (produced + fits + 1) .. (produced + n) # {}
  <2>1. CASE fits < n
    <3>1. produced + n \in (produced + fits + 1) .. (produced + n)
      BY <1>0, <1>1, <2>1
    <3> QED BY <3>1, <2>1
  <2>2. CASE ~(fits < n)
    BY <1>0, <1>1, <2>2
  <2> QED BY <2>1, <2>2
<1>7. LossFlagsExact'
  BY <1>2, <1>6 DEF IInv, LossFlagsExact
<1> QED BY <1>0, <1>1, <1>2, <1>4, <1>5, <1>7 DEF IInv, TypeOK

\* One pass of read()'s loop moves items from the queue to the caller.
LEMMA TakeLemma ==
    ASSUME IInv, NEW r \in Readers, NEW k, NEW copied,
           k = Min2(want[r] - Len(got[r]), Len(queue)),
           copied = got[r] \o SubSeq(queue, 1, k)
    PROVE  /\ copied \in Seq(Items) /\ Len(copied) <= want[r]
           /\ SubSeq(queue, k + 1, Len(queue)) \in Seq(Items)
           /\ Len(SubSeq(queue, k + 1, Len(queue))) <= Capacity
           /\ queue = <<>> => SubSeq(queue, k + 1, Len(queue)) = <<>>
<1>0. queue \in Seq(Items) /\ Len(queue) \in Nat /\ Len(queue) <= Capacity
      /\ Capacity \in Nat
      /\ got[r] \in Seq(Items) /\ Len(got[r]) \in Nat
      /\ want[r] \in Nat /\ Len(got[r]) <= want[r]
  BY ReceiverAssumption, LenProperties DEF IInv, TypeOK
<1>1. k \in Nat /\ k <= want[r] - Len(got[r]) /\ k <= Len(queue)
  <2>1. want[r] - Len(got[r]) \in Nat
    BY <1>0
  <2> QED BY <2>1, <1>0, MinLemma
<1>2. \A i \in 1 .. Len(queue) : queue[i] \in Items
  BY <1>0, ElementOfSeq
<1>3. SubSeq(queue, 1, k) \in Seq(Items) /\ Len(SubSeq(queue, 1, k)) = k
  <2>1. \A i \in 1 .. k : queue[i] \in Items
    BY <1>0, <1>1, <1>2
  <2> QED BY <2>1, <1>1, SubSeqProperties
<1>4. /\ SubSeq(queue, k + 1, Len(queue)) \in Seq(Items)
      /\ Len(SubSeq(queue, k + 1, Len(queue))) <= Capacity
  <2>1. \A i \in k + 1 .. Len(queue) : queue[i] \in Items
    BY <1>0, <1>1, <1>2
  <2>2. /\ SubSeq(queue, k + 1, Len(queue)) \in Seq(Items)
        /\ Len(SubSeq(queue, k + 1, Len(queue)))
             = IF k + 1 <= Len(queue) THEN Len(queue) - (k + 1) + 1 ELSE 0
    BY <2>1, <1>0, <1>1, SubSeqProperties
  <2> QED BY <2>2, <1>0, <1>1
<1>5. copied \in Seq(Items) /\ Len(copied) = Len(got[r]) + k
  BY <1>0, <1>3, ConcatProperties
<1>6. ASSUME queue = <<>> PROVE SubSeq(queue, k + 1, Len(queue)) = <<>>
  BY <1>0, <1>1, <1>6, EmptySeq, SubSeqEmpty
<1> QED BY <1>0, <1>1, <1>4, <1>5, <1>6

---------------------------------------------------------------------------
LEMMA InitInv == Init => IInv
<1> SUFFICES ASSUME Init PROVE IInv
  OBVIOUS
<1>1. queue \in Seq(Items) /\ Len(queue) <= Capacity
  BY EmptyLemma, ReceiverAssumption DEF Init
<1>2. got \in [Readers -> Seq(Items)] /\ want \in [Readers -> 1 .. MaxCount]
      /\ \A r \in Readers : Len(got[r]) <= want[r]
  BY EmptyLemma, ReceiverAssumption DEF Init
<1>3. dropped \in SUBSET Items /\ garbled \in SUBSET Items /\ produced \in 0 .. MaxItems
  BY ReceiverAssumption DEF Init
<1>4. TypeOK
  BY <1>1, <1>2, <1>3 DEF Init, TypeOK
<1> QED BY <1>4 DEF Init, IInv, LossFlagsExact, StoppedHoldsNothing

\* Leaving read() reports at most one kind of loss and keeps the other.
LEMMA FinishLemma ==
    ASSUME IInv, NEW r \in Readers, NEW copied, Finish(r, copied)
    PROVE  /\ pc' \in [Readers -> {"idle", "ready", "waiting"}]
           /\ status' \in [Readers -> {"none", "ok", "timeout", "empty",
                                       "overflow", "malformed", "stopped"}]
           /\ overflow' \in BOOLEAN /\ malformed' \in BOOLEAN
           /\ dropped' \in SUBSET Items /\ garbled' \in SUBSET Items
           /\ LossFlagsExact'
<1>1. pc' \in [Readers -> {"idle", "ready", "waiting"}]
      /\ status' \in [Readers -> {"none", "ok", "timeout", "empty",
                                  "overflow", "malformed", "stopped"}]
  BY DEF IInv, TypeOK, Finish, Leave
<1>2. overflow' \in BOOLEAN /\ malformed' \in BOOLEAN
      /\ dropped' \in SUBSET Items /\ garbled' \in SUBSET Items
  BY DEF IInv, TypeOK, Finish, lossVars
<1>3. LossFlagsExact'
  <2>1. CASE overflow' = FALSE /\ dropped' = {} /\ UNCHANGED <<malformed, garbled>>
    BY <2>1 DEF IInv, LossFlagsExact
  <2>2. CASE malformed' = FALSE /\ garbled' = {} /\ UNCHANGED <<overflow, dropped>>
    BY <2>2 DEF IInv, LossFlagsExact
  <2>3. CASE UNCHANGED lossVars
    BY <2>3 DEF IInv, LossFlagsExact, lossVars
  <2> QED BY <2>1, <2>2, <2>3 DEF Finish
<1> QED BY <1>1, <1>2, <1>3

LEMMA StepInv == IInv /\ [Next]_vars => IInv'
<1> SUFFICES ASSUME IInv, [Next]_vars PROVE IInv'
  OBVIOUS
<1> USE DEF IInv
<1>1. ASSUME NEW n \in Nat, ~stopped, Push(n), UNCHANGED <<loopback, stopped, readVars>>
      PROVE  IInv'
  BY <1>1, PushLemma DEF TypeOK, StoppedHoldsNothing, readVars
<1>2. CASE ReceiveData
  <2>1. PICK n \in Nat : Push(n)
    BY <1>2 DEF ReceiveData
  <2> QED BY <2>1, <1>1, <1>2 DEF ReceiveData
<1>3. CASE ReceiveConfirmation
  <2>1. (IF Protocol = "CAN" THEN 0 ELSE 1) + (IF loopback THEN 1 ELSE 0) \in Nat
    OBVIOUS
  <2> QED BY <2>1, <1>1, <1>3 DEF ReceiveConfirmation
<1>4. CASE ReceiveMalformed
  BY <1>4, ReceiverAssumption
  DEF ReceiveMalformed, TypeOK, LossFlagsExact, StoppedHoldsNothing, readVars, Items
<1>5. CASE ReceiveFirmwareLoss
  BY <1>5, ReceiverAssumption
  DEF ReceiveFirmwareLoss, TypeOK, LossFlagsExact, StoppedHoldsNothing, readVars, Items
<1>6. ASSUME NEW r \in Readers, NEW n \in 1 .. MaxCount, NEW t \in BOOLEAN,
             ReadCall(r, n, t)
      PROVE  IInv'
  <2>1. got' \in [Readers -> Seq(Items)] /\ \A q \in Readers : Len(got'[q]) <= want'[q]
    BY <1>6, EmptySeq DEF ReadCall, TypeOK
  <2> QED BY <1>6, <2>1
          DEF ReadCall, TypeOK, LossFlagsExact, StoppedHoldsNothing, lossVars
<1>7. ASSUME NEW r \in Readers, ReadStopped(r) PROVE IInv'
  BY <1>7 DEF ReadStopped, Leave, TypeOK, LossFlagsExact, StoppedHoldsNothing, lossVars
<1>8. ASSUME NEW r \in Readers, ReadLoop(r) PROVE IInv'
  <2> DEFINE k == Min2(want[r] - Len(got[r]), Len(queue))
             copied == got[r] \o SubSeq(queue, 1, k)
             rest == SubSeq(queue, k + 1, Len(queue))
  <2>1. /\ copied \in Seq(Items) /\ Len(copied) <= want[r]
        /\ rest \in Seq(Items) /\ Len(rest) <= Capacity
    BY TakeLemma
  <2>2. /\ ~stopped /\ got' = [got EXCEPT ![r] = copied] /\ queue' = rest
        /\ \/ Finish(r, copied)
           \/ pc' = [pc EXCEPT ![r] = "waiting"] /\ UNCHANGED <<lossVars, status>>
        /\ UNCHANGED <<loopback, stopped, want, timed, produced>>
    BY <1>8 DEF ReadLoop
  <2> HIDE DEF copied, rest, k
  <2>3. got' \in [Readers -> Seq(Items)] /\ \A q \in Readers : Len(got'[q]) <= want'[q]
    BY <2>1, <2>2 DEF TypeOK
  <2>4. CASE Finish(r, copied)
    <3>1. TypeOK'
      BY <2>1, <2>2, <2>3, <2>4, FinishLemma DEF TypeOK
    <3> QED BY <3>1, <2>2, <2>4, FinishLemma DEF StoppedHoldsNothing
  <2>5. CASE pc' = [pc EXCEPT ![r] = "waiting"] /\ UNCHANGED <<lossVars, status>>
    BY <2>1, <2>2, <2>3, <2>5
    DEF TypeOK, LossFlagsExact, StoppedHoldsNothing, lossVars
  <2> QED BY <2>2, <2>4, <2>5
<1>9. ASSUME NEW r \in Readers, ReadTimesOut(r) PROVE IInv'
  <2>1. Finish(r, got[r]) /\ UNCHANGED <<queue, loopback, stopped, want, timed, got, produced>>
    BY <1>9 DEF ReadTimesOut
  <2> QED BY <2>1, FinishLemma DEF TypeOK, StoppedHoldsNothing
<1>10. ASSUME NEW b \in BOOLEAN, SetLoopback(b) PROVE IInv'
  BY <1>10 DEF SetLoopback, TypeOK, LossFlagsExact, StoppedHoldsNothing, lossVars, readVars
<1>11. CASE FlushReceive
  <2>1. TypeOK'
    <3>1. queue' \in Seq(Items) /\ Len(queue') <= Capacity
      BY <1>11, EmptyLemma, ReceiverAssumption DEF FlushReceive
    <3>2. overflow' \in BOOLEAN /\ malformed' \in BOOLEAN
          /\ dropped' \in SUBSET Items /\ garbled' \in SUBSET Items
      BY <1>11 DEF FlushReceive
    <3> QED BY <1>11, <3>1, <3>2 DEF FlushReceive, TypeOK, readVars
  <2>2. LossFlagsExact' /\ StoppedHoldsNothing'
    BY <1>11 DEF FlushReceive, LossFlagsExact, StoppedHoldsNothing
  <2> QED BY <2>1, <2>2
<1>12. CASE Stop
  BY <1>12, EmptySeq, ReceiverAssumption
  DEF Stop, TypeOK, LossFlagsExact, StoppedHoldsNothing, lossVars, readVars
<1>13. CASE UNCHANGED vars
  BY <1>13 DEF vars, TypeOK, LossFlagsExact, StoppedHoldsNothing, lossVars, readVars
<1> QED
  BY <1>2, <1>3, <1>4, <1>5, <1>6, <1>7, <1>8, <1>9, <1>10, <1>11, <1>12, <1>13
  DEF Next, ReaderStep

\* The inductive invariant holds throughout.
LEMMA Invariance == Spec => []IInv
BY InitInv, StepInv, PTL DEF Spec

---------------------------------------------------------------------------
\* Type correctness, in particular the queue never exceeds its capacity, and a
\* stopped receiver stays empty.
THEOREM QueueIsBounded == Spec => []Safety
<1>1. IInv => Safety
  BY DEF IInv, Safety
<1> QED BY Invariance, <1>1, PTL

\* A loss flag is up exactly while a loss is unreported.
THEOREM LossIsFlagged == Spec => []LossFlagsExact
BY Invariance, PTL DEF IInv

\* No read succeeds across a gap that has not been reported.
THEOREM GapsAreReported == Spec => NoSilentGap
<1> DEFINE Told == \A r \in Readers :
             pc[r] # "idle" /\ pc'[r] = "idle" /\ status'[r] \in {"ok", "timeout"} =>
               \A i \in 1 .. Len(got'[r]), a \in dropped' \cup garbled' : got'[r][i] < a
<1>1. IInv /\ [Next]_vars => [Told]_vars
  <2> SUFFICES ASSUME IInv, Next, NEW r \in Readers, pc[r] # "idle", pc'[r] = "idle",
                      status'[r] \in {"ok", "timeout"}
               PROVE  dropped' = {} /\ garbled' = {}
    BY DEF vars
  <2>1. ASSUME NEW q \in Readers, NEW copied, Finish(q, copied)
        PROVE  dropped' = {} /\ garbled' = {}
    <3>1. q = r
      BY <2>1 DEF Finish, Leave, IInv, TypeOK
    <3>2. ~overflow /\ ~malformed /\ UNCHANGED lossVars
      BY <2>1, <3>1 DEF Finish, Leave, IInv, TypeOK
    <3> QED BY <3>2 DEF lossVars, IInv, LossFlagsExact
  <2>2. ASSUME NEW q \in Readers, ReadLoop(q) \/ ReadTimesOut(q)
        PROVE  \E copied : Finish(q, copied)
    BY <2>2 DEF ReadLoop, ReadTimesOut, IInv, TypeOK
  <2>3. \E q \in Readers : ReadLoop(q) \/ ReadTimesOut(q)
    BY DEF Next, ReaderStep, ReceiveData, ReceiveConfirmation, ReceiveMalformed,
           ReceiveFirmwareLoss, ReadCall, ReadStopped, SetLoopback, FlushReceive,
           Stop, Leave, readVars, IInv, TypeOK
  <2> QED BY <2>1, <2>2, <2>3
<1> QED BY Invariance, <1>1, PTL DEF Spec, NoSilentGap
============================================================================
