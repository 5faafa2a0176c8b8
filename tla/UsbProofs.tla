----------------------------- MODULE UsbProofs -----------------------------
(***************************************************************************)
(* Proofs that the libusb transport keeps its safety properties and the    *)
(* contract of transport.hpp, for any number of threads and interfaces and *)
(* any number of failures of the event loop.                               *)
(***************************************************************************)
EXTENDS Usb, TLAPS

DrainPcs == {"cancel bulk", "cancel interrupt", "drain", "drain events"}
ClosePcs == {"lock io", "control", "cleanup"}
UserPcs == {"idle", "transfer", "join"} \cup DrainPcs \cup ClosePcs
WorkerPcs == {"none", "loop", "events", "fault", "ended"} \cup DrainPcs

\* The types TypeOK leaves out.
TypeInv ==
    /\ pc \in [Threads -> UserPcs \cup WorkerPcs]
    /\ \A u \in Users : pc[u] \in UserPcs
    /\ pc[Worker] \in WorkerPcs
    /\ cb \in [thread : Threads \cup {None}, input : Inputs \cup {"none"},
               at : {"none", "entered", "submit", "mark"}]
    /\ todo \subseteq Ifaces /\ kernel0 \subseteq Ifaces

\* Each mutex is held by the thread inside the section it guards.
LockInv ==
    \A u \in Users :
        /\ stopMutex = u <=> pc[u] \in {"join"} \cup DrainPcs \cup ClosePcs
        /\ ioMutex = u <=> pc[u] \in {"transfer", "control", "cleanup"}

\* Nothing runs before the constructor is done or start() is called.
PhaseInv ==
    /\ handle <=> phase \in {"detach", "claim", "ready"} /\ ~closed
    /\ phase # "ready" =>
        ~started /\ ~stopping /\ ~closed /\ stopMutex = None /\ ioMutex = None
    /\ ~started =>
        /\ transfer = [i \in Inputs |-> "none"] /\ pending = [i \in Inputs |-> FALSE]
        /\ cb = NoCallback /\ pc[Worker] = "none"

\* What the constructor took from the kernel driver is remembered until it is
\* given back.
KernelInv ==
    /\ ~closed /\ phase # "dead" =>
        kernel = kernel0 \ detached /\ detached \subseteq kernel0 /\ refused = {}
    /\ InterfacesReturned

\* stop() goes on only when the worker has ended, or drains in its place when
\* there is none.
ThreadInv ==
    /\ stopMutex # None \/ closed \/ drainFailed => stopping
    /\ \A u \in Users : pc[u] \in DrainPcs => pc[Worker] = "none"
    /\ \A u \in Users : pc[u] \in ClosePcs => pc[Worker] \in {"none", "ended"}
    /\ pc[Worker] \in DrainPcs \cup {"ended"} => stopping
    /\ \A u \in Users : pc[u] = "transfer" => started
    /\ closed => /\ pc[Worker] \in {"none", "ended"} /\ cb = NoCallback
                 /\ stopMutex = None /\ ioMutex = None

\* A callback runs on a thread inside libusb, and its transfer is not pending
\* until it has been submitted again; that happens only while the other
\* transfer is in flight.
CallbackInv ==
    /\ cb = NoCallback \/
        /\ cb.thread \in Threads /\ HandlesEvents(cb.thread)
        /\ cb.input \in Inputs /\ ~pending[cb.input] /\ cb.at # "none"
        /\ transfer[cb.input] = IF cb.at = "mark" THEN "submitted" ELSE "idle"
    /\ cb.at \in {"submit", "mark"} =>
        /\ ~drainFailed
        /\ \A i \in Inputs \ {cb.input} : pending[i]

\* While the transport is open, libusb holds the pending transfers and the
\* one a callback is about to mark, and no others.
FlightInv ==
    /\ closed => \A i \in Inputs : ~InFlight(i) /\ transfer[i] # "dangling"
    /\ ~closed => \A i \in Inputs :
        /\ transfer[i] \in {"none", "idle", "submitted", "cancelled"}
        /\ InFlight(i) <=> pending[i] \/ (cb.at = "mark" /\ cb.input = i)

\* Until something stops the transport every transfer is in flight or in its
\* callback; when the drain has ended without an error none is.
DrainInv ==
    /\ started /\ ~stopping => \A i \in Inputs \ {cb.input} : pending[i]
    /\ /\ ~closed /\ ~drainFailed
       /\ pc[Worker] = "ended" \/ \E u \in Users : pc[u] \in ClosePcs
       => \A i \in Inputs : ~pending[i]

\* The inductive invariant.
IInv ==
    /\ TypeOK /\ TypeInv
    /\ LockInv /\ PhaseInv /\ KernelInv /\ ThreadInv
    /\ CallbackInv /\ FlightInv /\ DrainInv
---------------------------------------------------------------------------
\* A transport whose constructor has not begun satisfies the invariant.
LEMMA InitInv == Init => IInv
<1> SUFFICES ASSUME Init PROVE IInv
  OBVIOUS
<1> USE DEF Init
<1>1. TypeOK
  BY DEF TypeOK
<1>2. TypeInv
  BY UsbAssumption
  DEF TypeInv, UserPcs, WorkerPcs, DrainPcs, ClosePcs, Threads, NoCallback
<1>3. LockInv /\ PhaseInv /\ ThreadInv
  BY UsbAssumption DEF LockInv, PhaseInv, ThreadInv, DrainPcs, ClosePcs, Threads
<1>4. KernelInv
  BY DEF KernelInv, InterfacesReturned
<1>5. CallbackInv /\ FlightInv /\ DrainInv
  BY UsbAssumption
  DEF CallbackInv, FlightInv, DrainInv, InFlight, NoCallback, Threads, DrainPcs,
      ClosePcs
<1> QED BY <1>1, <1>2, <1>3, <1>4, <1>5 DEF IInv

\* A step that touches no resource leaves the kernel driver's part alone; once
\* the transport is closed its worker takes no step.
LEMMA KernelKept ==
    ASSUME KernelInv, UNCHANGED <<resources, started, closed>>,
           closed => pc'[Worker] = pc[Worker]
    PROVE  KernelInv'
BY DEF KernelInv, InterfacesReturned, StartFailed, resources

\* Every step preserves the inductive invariant.
LEMMA StepInv == IInv /\ [Next]_vars => IInv'
<1> SUFFICES ASSUME IInv, [Next]_vars PROVE IInv'
  OBVIOUS
<1> USE DEF resources, flags
<1>1. CASE UNCHANGED vars
  <2>1. TypeOK' /\ TypeInv' /\ LockInv' /\ PhaseInv' /\ KernelInv' /\ ThreadInv'
    BY <1>1 DEF vars, IInv, TypeOK, TypeInv, LockInv, PhaseInv, KernelInv, ThreadInv,
       InterfacesReturned, StartFailed
  <2>2. CallbackInv' /\ FlightInv' /\ DrainInv'
    BY <1>1 DEF vars, IInv, CallbackInv, HandlesEvents, FlightInv, InFlight, DrainInv
  <2> QED BY <2>1, <2>2 DEF IInv
<1>2. CASE Next
  <2>1. CASE TakeLock
    <3>1. TypeOK'
      BY <2>1, UsbAssumption
      DEF IInv, TypeOK, TypeInv, FlightInv, InFlight, TakeLock, Construct
    <3>2. TypeInv'
      BY <2>1, UsbAssumption
      DEF IInv, TypeInv, Threads, DrainPcs, ClosePcs, UserPcs, WorkerPcs, TakeLock,
          Construct
    <3>3. LockInv'
      BY <2>1, UsbAssumption
      DEF IInv, TypeInv, LockInv, PhaseInv, Threads, DrainPcs, ClosePcs, UserPcs,
          WorkerPcs, TakeLock, Construct
    <3>4. PhaseInv'
      BY <2>1, UsbAssumption
      DEF IInv, TypeInv, LockInv, PhaseInv, ThreadInv, Threads, TakeLock, Construct
    <3>5. KernelInv'
      BY <2>1, UsbAssumption
      DEF IInv, TypeOK, LockInv, PhaseInv, KernelInv, InterfacesReturned, ClosePcs,
          TakeLock, Construct
    <3>6. ThreadInv'
      BY <2>1, UsbAssumption
      DEF IInv, TypeInv, LockInv, PhaseInv, ThreadInv, Threads, DrainPcs, ClosePcs,
          UserPcs, WorkerPcs, TakeLock, Construct
    <3>7. CallbackInv'
      BY <2>1, UsbAssumption
      DEF IInv, TypeInv, PhaseInv, CallbackInv, HandlesEvents, NoCallback, Threads,
          TakeLock, Construct
    <3>8. FlightInv'
      BY <2>1, UsbAssumption
      DEF IInv, TypeOK, PhaseInv, FlightInv, InFlight, NoCallback, TakeLock,
          Construct
    <3>9. DrainInv'
      BY <2>1, UsbAssumption
      DEF IInv, TypeInv, PhaseInv, LockInv, DrainInv, Threads, DrainPcs, ClosePcs,
          UserPcs, WorkerPcs, TakeLock, Construct
    <3> QED BY <3>1, <3>2, <3>3, <3>4, <3>5, <3>6, <3>7, <3>8, <3>9 DEF IInv
  <2>2. CASE OpenHandle
    <3>1. TypeOK'
      BY <2>2, UsbAssumption
      DEF IInv, TypeOK, TypeInv, FlightInv, InFlight, OpenHandle, Construct
    <3>2. TypeInv'
      BY <2>2, UsbAssumption
      DEF IInv, TypeInv, Threads, DrainPcs, ClosePcs, UserPcs, WorkerPcs, OpenHandle,
          Construct
    <3>3. LockInv'
      BY <2>2, UsbAssumption
      DEF IInv, TypeInv, LockInv, PhaseInv, Threads, DrainPcs, ClosePcs, UserPcs,
          WorkerPcs, OpenHandle, Construct
    <3>4. PhaseInv'
      BY <2>2, UsbAssumption
      DEF IInv, TypeInv, LockInv, PhaseInv, ThreadInv, Threads, OpenHandle, Construct
    <3>5. KernelInv'
      BY <2>2, UsbAssumption
      DEF IInv, TypeOK, LockInv, PhaseInv, KernelInv, InterfacesReturned, ClosePcs,
          OpenHandle, Construct
    <3>6. ThreadInv'
      BY <2>2, UsbAssumption
      DEF IInv, TypeInv, LockInv, PhaseInv, ThreadInv, Threads, DrainPcs, ClosePcs,
          UserPcs, WorkerPcs, OpenHandle, Construct
    <3>7. CallbackInv'
      BY <2>2, UsbAssumption
      DEF IInv, TypeInv, PhaseInv, CallbackInv, HandlesEvents, NoCallback, Threads,
          OpenHandle, Construct
    <3>8. FlightInv'
      BY <2>2, UsbAssumption
      DEF IInv, TypeOK, PhaseInv, FlightInv, InFlight, NoCallback, OpenHandle,
          Construct
    <3>9. DrainInv'
      BY <2>2, UsbAssumption
      DEF IInv, TypeInv, PhaseInv, LockInv, DrainInv, Threads, DrainPcs, ClosePcs,
          UserPcs, WorkerPcs, OpenHandle, Construct
    <3> QED BY <3>1, <3>2, <3>3, <3>4, <3>5, <3>6, <3>7, <3>8, <3>9 DEF IInv
  <2>3. CASE Detach
    <3>1. TypeOK'
      BY <2>3 DEF IInv, TypeOK, TypeInv, KernelInv, PhaseInv, Detach, Construct
    <3>2. TypeInv'
      BY <2>3, UsbAssumption
      DEF IInv, TypeInv, Threads, DrainPcs, ClosePcs, UserPcs, WorkerPcs, Detach,
          Construct
    <3>3. LockInv'
      BY <2>3, UsbAssumption
      DEF IInv, TypeInv, LockInv, PhaseInv, Threads, DrainPcs, ClosePcs, UserPcs,
          WorkerPcs, Detach, Construct
    <3>4. PhaseInv'
      BY <2>3, UsbAssumption
      DEF IInv, TypeInv, LockInv, PhaseInv, ThreadInv, Threads, Detach, Construct
    <3>5. KernelInv'
      BY <2>3, UsbAssumption
      DEF IInv, TypeOK, LockInv, PhaseInv, KernelInv, InterfacesReturned, ClosePcs,
          Detach, Construct
    <3>6. ThreadInv'
      BY <2>3, UsbAssumption
      DEF IInv, TypeInv, LockInv, PhaseInv, ThreadInv, Threads, DrainPcs, ClosePcs,
          UserPcs, WorkerPcs, Detach, Construct
    <3>7. CallbackInv'
      BY <2>3, UsbAssumption
      DEF IInv, TypeInv, PhaseInv, CallbackInv, HandlesEvents, NoCallback, Threads,
          Detach, Construct
    <3>8. FlightInv'
      BY <2>3, UsbAssumption
      DEF IInv, TypeOK, PhaseInv, FlightInv, InFlight, NoCallback, Detach, Construct
    <3>9. DrainInv'
      BY <2>3, UsbAssumption
      DEF IInv, TypeInv, PhaseInv, LockInv, DrainInv, Threads, DrainPcs, ClosePcs,
          UserPcs, WorkerPcs, Detach, Construct
    <3> QED BY <3>1, <3>2, <3>3, <3>4, <3>5, <3>6, <3>7, <3>8, <3>9 DEF IInv
  <2>4. CASE Claim
    <3>1. TypeOK'
      BY <2>4 DEF IInv, TypeOK, TypeInv, Claim, Construct
    <3>2. TypeInv'
      BY <2>4, UsbAssumption
      DEF IInv, TypeInv, Threads, DrainPcs, ClosePcs, UserPcs, WorkerPcs, Claim,
          Construct
    <3>3. LockInv'
      BY <2>4, UsbAssumption
      DEF IInv, TypeInv, LockInv, PhaseInv, Threads, DrainPcs, ClosePcs, UserPcs,
          WorkerPcs, Claim, Construct
    <3>4. PhaseInv'
      BY <2>4, UsbAssumption
      DEF IInv, TypeInv, LockInv, PhaseInv, ThreadInv, Threads, Claim, Construct
    <3>5. KernelInv'
      BY <2>4, UsbAssumption
      DEF IInv, TypeOK, LockInv, PhaseInv, KernelInv, InterfacesReturned, ClosePcs,
          Claim, Construct
    <3>6. ThreadInv'
      BY <2>4, UsbAssumption
      DEF IInv, TypeInv, LockInv, PhaseInv, ThreadInv, Threads, DrainPcs, ClosePcs,
          UserPcs, WorkerPcs, Claim, Construct
    <3>7. CallbackInv'
      BY <2>4, UsbAssumption
      DEF IInv, TypeInv, PhaseInv, CallbackInv, HandlesEvents, NoCallback, Threads,
          Claim, Construct
    <3>8. FlightInv'
      BY <2>4, UsbAssumption
      DEF IInv, TypeOK, PhaseInv, FlightInv, InFlight, NoCallback, Claim, Construct
    <3>9. DrainInv'
      BY <2>4, UsbAssumption
      DEF IInv, TypeInv, PhaseInv, LockInv, DrainInv, Threads, DrainPcs, ClosePcs,
          UserPcs, WorkerPcs, Claim, Construct
    <3> QED BY <3>1, <3>2, <3>3, <3>4, <3>5, <3>6, <3>7, <3>8, <3>9 DEF IInv
  <2>5. CASE AcquireFails
    <3>a. /\ phase \in {"lock", "open", "detach", "claim"} /\ phase' = "dead"
          /\ ~started /\ transfer = [i \in Inputs |-> "none"] /\ Construct
      BY <2>5 DEF IInv, PhaseInv, AcquireFails, Throw
    <3>b. transfer' = transfer
      <4>1. transfer' = [i \in Inputs |-> CASE transfer[i] = "none" -> "none"
                              [] drainFailed /\ pending[i] -> "leaked"
                              [] InFlight(i) /\ ~(drainFailed /\ pending[i]) -> "dangling"
                              [] OTHER -> "freed"]
        BY <2>5 DEF AcquireFails, Throw, Cleanup, FreeTransfers
      <4>2. \A i \in Inputs : transfer[i] = "none" /\ ~pending[i]
        BY <3>a DEF IInv, PhaseInv
      <4>3. \A i \in Inputs : transfer'[i] = "none"
        BY <4>1, <4>2 DEF InFlight
      <4>4. transfer' = [i \in Inputs |-> transfer'[i]]
        BY <4>1
      <4> QED BY <3>a, <4>3, <4>4
    <3>1. TypeOK'
      <4>1. kernel' \subseteq Ifaces /\ refused' \subseteq kernel0
        BY <2>5 DEF IInv, TypeOK, TypeInv, AcquireFails, Throw, Cleanup
      <4> QED BY <2>5, <3>a, <3>b, <4>1
          DEF IInv, TypeOK, AcquireFails, Throw, Cleanup, Construct
    <3>2. TypeInv'
      BY <2>5, UsbAssumption
      DEF IInv, TypeInv, Threads, DrainPcs, ClosePcs, UserPcs, WorkerPcs,
          AcquireFails, Throw, Cleanup, FreeTransfers, Construct
    <3>3. LockInv'
      BY <2>5, UsbAssumption
      DEF IInv, TypeInv, LockInv, PhaseInv, Threads, DrainPcs, ClosePcs, UserPcs,
          WorkerPcs, AcquireFails, Throw, Cleanup, FreeTransfers, Construct
    <3>4. PhaseInv'
      BY <2>5, <3>a, <3>b DEF IInv, PhaseInv, AcquireFails, Throw, Cleanup, Construct
    <3>5. KernelInv'
      BY <2>5, UsbAssumption
      DEF IInv, TypeOK, LockInv, PhaseInv, KernelInv, InterfacesReturned, ClosePcs,
          AcquireFails, Throw, Cleanup, FreeTransfers, Construct
    <3>6. ThreadInv'
      BY <2>5, UsbAssumption
      DEF IInv, TypeInv, LockInv, PhaseInv, ThreadInv, Threads, DrainPcs, ClosePcs,
          UserPcs, WorkerPcs, AcquireFails, Throw, Cleanup, FreeTransfers, Construct
    <3>7. CallbackInv'
      BY <2>5, UsbAssumption
      DEF IInv, TypeInv, PhaseInv, CallbackInv, HandlesEvents, NoCallback, Threads,
          AcquireFails, Throw, Cleanup, FreeTransfers, Construct
    <3>8. FlightInv'
      BY <3>a, <3>b DEF IInv, PhaseInv, FlightInv, InFlight, Construct
    <3>9. DrainInv'
      BY <2>5, UsbAssumption
      DEF IInv, TypeInv, PhaseInv, LockInv, DrainInv, Threads, DrainPcs, ClosePcs,
          UserPcs, WorkerPcs, AcquireFails, Throw, Cleanup, FreeTransfers, Construct
    <3> QED BY <3>1, <3>2, <3>3, <3>4, <3>5, <3>6, <3>7, <3>8, <3>9 DEF IInv
  <2>6. ASSUME NEW u \in Users, Start(u)
        PROVE  IInv'
    <3>a. /\ phase = "ready" /\ ~started /\ ~closed /\ started' = TRUE
          /\ \A v \in Users : pc[v] = "idle"
          /\ UNCHANGED <<resources, closed, drainFailed, ioMutex, cb, errors>>
      BY <2>6 DEF Start
    <3>b. cb = NoCallback /\ pc[Worker] = "none" /\ u # Worker
      BY <3>a, UsbAssumption DEF IInv, PhaseInv
    <3>c. PICK submitted \in {{}, {"bulk"}, Inputs} :
               /\ transfer' = [i \in Inputs |-> IF i \in submitted THEN "submitted" ELSE "none"]
               /\ pending' = [i \in Inputs |-> i \in submitted]
               /\ \/ submitted = Inputs /\ Go(Worker, "loop") /\ UNCHANGED <<stopMutex, stopping>>
                  \/ StopBody(u)
      BY <2>6 DEF Start
    <3>d. \/ /\ submitted = Inputs /\ pc' = [pc EXCEPT ![Worker] = "loop"]
             /\ UNCHANGED <<stopMutex, stopping>>
          \/ stopMutex' = u /\ stopping' = TRUE /\ pc' = [pc EXCEPT ![u] = "cancel bulk"]
      BY <3>b, <3>c DEF StopBody, Go
    <3>e. stopMutex = None /\ ioMutex = None
      <4>1. stopMutex \notin Users /\ ioMutex \notin Users
        BY <3>a DEF IInv, LockInv, DrainPcs, ClosePcs
      <4> QED BY <4>1 DEF IInv, TypeOK
    <3>1. TypeOK'
      <4>1. transfer' \in [Inputs -> {"none", "submitted"}] /\ pending' \in [Inputs -> BOOLEAN]
        BY <3>c
      <4>2. \A i \in Inputs : pending'[i] => transfer'[i] = "submitted"
        BY <3>c
      <4> QED BY <3>a, <3>d, <4>1, <4>2 DEF IInv, TypeOK
    <3>2. TypeInv'
      <4>1. pc' \in [Threads -> UserPcs \cup WorkerPcs]
        BY <3>d DEF IInv, TypeInv, DrainPcs, UserPcs, WorkerPcs
      <4>2. \A v \in Users : pc'[v] \in UserPcs
        BY <3>d, UsbAssumption DEF IInv, TypeInv, Threads, DrainPcs, UserPcs
      <4>3. pc'[Worker] \in WorkerPcs
        BY <3>b, <3>d DEF IInv, TypeInv, Threads, WorkerPcs
      <4> QED BY <3>a, <4>1, <4>2, <4>3 DEF IInv, TypeInv
    <3>3. LockInv'
      <4>1. CASE stopMutex' = u /\ pc' = [pc EXCEPT ![u] = "cancel bulk"]
        <5>1. pc'[u] = "cancel bulk" /\ \A v \in Users \ {u} : pc'[v] = "idle"
          BY <3>a, <4>1 DEF IInv, TypeInv, Threads
        <5> QED
          BY <3>a, <3>e, <4>1, <5>1, UsbAssumption
          DEF LockInv, DrainPcs, ClosePcs
      <4>2. CASE stopMutex' = stopMutex /\ pc' = [pc EXCEPT ![Worker] = "loop"]
        <5>1. \A v \in Users : pc'[v] = "idle"
          BY <3>a, <4>2, UsbAssumption DEF IInv, TypeInv, Threads
        <5> QED
          BY <3>a, <3>e, <4>2, <5>1, UsbAssumption
          DEF LockInv, DrainPcs, ClosePcs
      <4> QED BY <3>d, <4>1, <4>2
    <3>4. PhaseInv'
      BY <3>a DEF IInv, PhaseInv
    <3>5. KernelInv'
      BY <3>a DEF IInv, KernelInv, InterfacesReturned
    <3>6. ThreadInv'
      BY <3>a, <3>b, <3>d, <3>e, UsbAssumption
      DEF IInv, TypeInv, ThreadInv, Threads, DrainPcs, ClosePcs
    <3>7. CallbackInv'
      BY <3>a, <3>b, UsbAssumption DEF NoCallback, CallbackInv
    <3>8. FlightInv'
      <4>1. \A i \in Inputs : pending'[i] <=> transfer'[i] = "submitted"
        BY <3>c
      <4>2. \A i \in Inputs : transfer'[i] \in {"none", "submitted"}
        BY <3>c
      <4> QED BY <3>a, <3>b, <4>1, <4>2 DEF FlightInv, InFlight, NoCallback
    <3>9. DrainInv'
      BY <3>a, <3>b, <3>c, <3>d, UsbAssumption
      DEF IInv, TypeInv, DrainInv, Threads, ClosePcs
    <3> QED BY <3>1, <3>2, <3>3, <3>4, <3>5, <3>6, <3>7, <3>8, <3>9 DEF IInv
  <2>7. ASSUME NEW u \in Users, Send(u)
        PROVE  IInv'
    <3>1. TypeOK'
      BY <2>7, UsbAssumption DEF IInv, TypeOK, TypeInv, FlightInv, InFlight, Send, Go
    <3>2. TypeInv'
      BY <2>7, UsbAssumption
      DEF IInv, TypeInv, Threads, DrainPcs, ClosePcs, UserPcs, WorkerPcs, Send, Go
    <3>3. LockInv'
      BY <2>7, UsbAssumption
      DEF IInv, TypeInv, LockInv, PhaseInv, Threads, DrainPcs, ClosePcs, UserPcs,
          WorkerPcs, Send, Go
    <3>4. PhaseInv'
      BY <2>7, UsbAssumption
      DEF IInv, TypeInv, LockInv, PhaseInv, ThreadInv, Threads, Send, Go
    <3>5. KernelInv'
      BY <2>7, KernelKept, UsbAssumption DEF IInv, TypeInv, Threads, Send, Go
    <3>6. ThreadInv'
      BY <2>7, UsbAssumption
      DEF IInv, TypeInv, LockInv, PhaseInv, ThreadInv, Threads, DrainPcs, ClosePcs,
          UserPcs, WorkerPcs, Send, Go
    <3>7. CallbackInv'
      BY <2>7, UsbAssumption
      DEF IInv, TypeInv, PhaseInv, CallbackInv, HandlesEvents, NoCallback, Threads,
          Send, Go
    <3>8. FlightInv'
      BY <2>7, UsbAssumption
      DEF IInv, TypeOK, PhaseInv, FlightInv, InFlight, NoCallback, Send, Go
    <3>9. DrainInv'
      BY <2>7, UsbAssumption
      DEF IInv, TypeInv, PhaseInv, LockInv, DrainInv, Threads, DrainPcs, ClosePcs,
          UserPcs, WorkerPcs, Send, Go
    <3> QED BY <3>1, <3>2, <3>3, <3>4, <3>5, <3>6, <3>7, <3>8, <3>9 DEF IInv
  <2>8. ASSUME NEW u \in Users, SendReturns(u)
        PROVE  IInv'
    <3>1. TypeOK'
      BY <2>8, UsbAssumption
      DEF IInv, TypeOK, TypeInv, FlightInv, InFlight, SendReturns, At, Free, Go
    <3>2. TypeInv'
      BY <2>8, UsbAssumption
      DEF IInv, TypeInv, Threads, DrainPcs, ClosePcs, UserPcs, WorkerPcs,
          SendReturns, At, Free, Go
    <3>3. LockInv'
      BY <2>8, UsbAssumption
      DEF IInv, TypeInv, LockInv, PhaseInv, Threads, DrainPcs, ClosePcs, UserPcs,
          WorkerPcs, SendReturns, At, Free, Go
    <3>4. PhaseInv'
      BY <2>8, UsbAssumption
      DEF IInv, TypeInv, LockInv, PhaseInv, ThreadInv, Threads, SendReturns, At,
          Free, Go
    <3>5. KernelInv'
      BY <2>8, KernelKept, UsbAssumption DEF IInv, TypeInv, Threads, SendReturns, Go
    <3>6. ThreadInv'
      BY <2>8, UsbAssumption
      DEF IInv, TypeInv, LockInv, PhaseInv, ThreadInv, Threads, DrainPcs, ClosePcs,
          UserPcs, WorkerPcs, SendReturns, At, Free, Go
    <3>7. CallbackInv'
      BY <2>8, UsbAssumption
      DEF IInv, TypeInv, PhaseInv, CallbackInv, HandlesEvents, NoCallback, Threads,
          SendReturns, At, Free, Go
    <3>8. FlightInv'
      BY <2>8, UsbAssumption
      DEF IInv, TypeOK, PhaseInv, FlightInv, InFlight, NoCallback, SendReturns, At,
          Free, Go
    <3>9. DrainInv'
      BY <2>8, UsbAssumption
      DEF IInv, TypeInv, PhaseInv, LockInv, DrainInv, Threads, DrainPcs, ClosePcs,
          UserPcs, WorkerPcs, SendReturns, At, Free, Go
    <3> QED BY <3>1, <3>2, <3>3, <3>4, <3>5, <3>6, <3>7, <3>8, <3>9 DEF IInv
  <2>9. ASSUME NEW u \in Users, Stop(u)
        PROVE  IInv'
    <3>1. TypeOK'
      BY <2>9, UsbAssumption
      DEF IInv, TypeOK, TypeInv, FlightInv, InFlight, Stop, StopBody, Go
    <3>2. TypeInv'
      BY <2>9, UsbAssumption
      DEF IInv, TypeInv, Threads, DrainPcs, ClosePcs, UserPcs, WorkerPcs, Stop,
          StopBody, Go
    <3>3. LockInv'
      BY <2>9, UsbAssumption
      DEF IInv, TypeInv, LockInv, PhaseInv, Threads, DrainPcs, ClosePcs, UserPcs,
          WorkerPcs, Stop, StopBody, Go
    <3>4. PhaseInv'
      BY <2>9, UsbAssumption
      DEF IInv, TypeInv, LockInv, PhaseInv, ThreadInv, Threads, Stop, StopBody, Go
    <3>5. KernelInv'
      BY <2>9, UsbAssumption
      DEF IInv, TypeOK, LockInv, PhaseInv, KernelInv, InterfacesReturned, ClosePcs,
          Stop, StopBody, Go
    <3>6. ThreadInv'
      BY <2>9, UsbAssumption
      DEF IInv, TypeInv, LockInv, PhaseInv, ThreadInv, Threads, DrainPcs, ClosePcs,
          UserPcs, WorkerPcs, Stop, StopBody, Go
    <3>7. CallbackInv'
      BY <2>9, UsbAssumption
      DEF IInv, TypeInv, PhaseInv, CallbackInv, HandlesEvents, NoCallback, Threads,
          Stop, StopBody, Go
    <3>8. FlightInv'
      BY <2>9, UsbAssumption
      DEF IInv, TypeOK, PhaseInv, FlightInv, InFlight, NoCallback, Stop, StopBody, Go
    <3>9. DrainInv'
      BY <2>9, UsbAssumption
      DEF IInv, TypeInv, PhaseInv, LockInv, DrainInv, Threads, DrainPcs, ClosePcs,
          UserPcs, WorkerPcs, Stop, StopBody, Go
    <3> QED BY <3>1, <3>2, <3>3, <3>4, <3>5, <3>6, <3>7, <3>8, <3>9 DEF IInv
  <2>10. ASSUME NEW u \in Users, Join(u)
        PROVE  IInv'
    <3>1. TypeOK'
      BY <2>10, UsbAssumption DEF IInv, TypeOK, TypeInv, FlightInv, InFlight, Join, Go
    <3>2. TypeInv'
      BY <2>10, UsbAssumption
      DEF IInv, TypeInv, Threads, DrainPcs, ClosePcs, UserPcs, WorkerPcs, Join, Go
    <3>3. LockInv'
      BY <2>10, UsbAssumption
      DEF IInv, TypeInv, LockInv, PhaseInv, Threads, DrainPcs, ClosePcs, UserPcs,
          WorkerPcs, Join, Go
    <3>4. PhaseInv'
      BY <2>10, UsbAssumption
      DEF IInv, TypeInv, LockInv, PhaseInv, ThreadInv, Threads, Join, Go
    <3>5. KernelInv'
      BY <2>10, KernelKept, UsbAssumption DEF IInv, TypeInv, Threads, Join, Go
    <3>6. ThreadInv'
      BY <2>10, UsbAssumption
      DEF IInv, TypeInv, LockInv, PhaseInv, ThreadInv, Threads, DrainPcs, ClosePcs,
          UserPcs, WorkerPcs, Join, Go
    <3>7. CallbackInv'
      BY <2>10, UsbAssumption
      DEF IInv, TypeInv, PhaseInv, CallbackInv, HandlesEvents, NoCallback, Threads,
          Join, Go
    <3>8. FlightInv'
      BY <2>10, UsbAssumption
      DEF IInv, TypeOK, PhaseInv, FlightInv, InFlight, NoCallback, Join, Go
    <3>9. DrainInv'
      BY <2>10, UsbAssumption
      DEF IInv, TypeInv, PhaseInv, LockInv, DrainInv, Threads, DrainPcs, ClosePcs,
          UserPcs, WorkerPcs, Join, Go
    <3> QED BY <3>1, <3>2, <3>3, <3>4, <3>5, <3>6, <3>7, <3>8, <3>9 DEF IInv
  <2>11. ASSUME NEW u \in Users, LockIo(u)
        PROVE  IInv'
    <3>1. TypeOK'
      BY <2>11, UsbAssumption
      DEF IInv, TypeOK, TypeInv, FlightInv, InFlight, LockIo, Go
    <3>2. TypeInv'
      BY <2>11, UsbAssumption
      DEF IInv, TypeInv, Threads, DrainPcs, ClosePcs, UserPcs, WorkerPcs, LockIo, Go
    <3>3. LockInv'
      BY <2>11, UsbAssumption
      DEF IInv, TypeInv, LockInv, PhaseInv, Threads, DrainPcs, ClosePcs, UserPcs,
          WorkerPcs, LockIo, Go
    <3>4. PhaseInv'
      BY <2>11, UsbAssumption
      DEF IInv, TypeInv, LockInv, PhaseInv, ClosePcs, Threads, LockIo, Go
    <3>5. KernelInv'
      BY <2>11, KernelKept, UsbAssumption DEF IInv, TypeInv, Threads, LockIo, Go
    <3>6. ThreadInv'
      BY <2>11, UsbAssumption
      DEF IInv, TypeInv, LockInv, PhaseInv, ThreadInv, Threads, DrainPcs, ClosePcs,
          UserPcs, WorkerPcs, LockIo, Go
    <3>7. CallbackInv'
      BY <2>11, UsbAssumption
      DEF IInv, TypeInv, PhaseInv, CallbackInv, HandlesEvents, NoCallback, Threads,
          LockIo, Go
    <3>8. FlightInv'
      BY <2>11, UsbAssumption
      DEF IInv, TypeOK, PhaseInv, FlightInv, InFlight, NoCallback, LockIo, Go
    <3>9. DrainInv'
      BY <2>11, UsbAssumption
      DEF IInv, TypeInv, PhaseInv, LockInv, DrainInv, Threads, DrainPcs, ClosePcs,
          UserPcs, WorkerPcs, LockIo, Go
    <3> QED BY <3>1, <3>2, <3>3, <3>4, <3>5, <3>6, <3>7, <3>8, <3>9 DEF IInv
  <2>12. ASSUME NEW u \in Users, Control(u)
        PROVE  IInv'
    <3>1. TypeOK'
      BY <2>12, UsbAssumption
      DEF IInv, TypeOK, TypeInv, FlightInv, InFlight, Control, At, Free, Go
    <3>2. TypeInv'
      BY <2>12, UsbAssumption
      DEF IInv, TypeInv, Threads, DrainPcs, ClosePcs, UserPcs, WorkerPcs, Control,
          At, Free, Go
    <3>3. LockInv'
      BY <2>12, UsbAssumption
      DEF IInv, TypeInv, LockInv, PhaseInv, Threads, DrainPcs, ClosePcs, UserPcs,
          WorkerPcs, Control, At, Free, Go
    <3>4. PhaseInv'
      BY <2>12, UsbAssumption
      DEF IInv, TypeInv, LockInv, PhaseInv, ThreadInv, Threads, Control, At, Free, Go
    <3>5. KernelInv'
      BY <2>12, KernelKept, UsbAssumption DEF IInv, TypeInv, Threads, Control, Go
    <3>6. ThreadInv'
      BY <2>12, UsbAssumption
      DEF IInv, TypeInv, LockInv, PhaseInv, ThreadInv, Threads, DrainPcs, ClosePcs,
          UserPcs, WorkerPcs, Control, At, Free, Go
    <3>7. CallbackInv'
      BY <2>12, UsbAssumption
      DEF IInv, TypeInv, PhaseInv, CallbackInv, HandlesEvents, NoCallback, Threads,
          Control, At, Free, Go
    <3>8. FlightInv'
      BY <2>12, UsbAssumption
      DEF IInv, TypeOK, PhaseInv, FlightInv, InFlight, NoCallback, Control, At, Free,
          Go
    <3>9. DrainInv'
      BY <2>12, UsbAssumption
      DEF IInv, TypeInv, PhaseInv, LockInv, DrainInv, Threads, DrainPcs, ClosePcs,
          UserPcs, WorkerPcs, Control, At, Free, Go
    <3> QED BY <3>1, <3>2, <3>3, <3>4, <3>5, <3>6, <3>7, <3>8, <3>9 DEF IInv
  <2>13. ASSUME NEW u \in Users, Release(u)
        PROVE  IInv'
    <3>a. /\ pc[u] = "cleanup" /\ pc' = [pc EXCEPT ![u] = "idle"] /\ u # Worker
          /\ stopMutex = u /\ ioMutex = u /\ closed' = TRUE /\ stopMutex' = None /\ ioMutex' = None
          /\ UNCHANGED <<phase, todo, kernel0, started, stopping, drainFailed, pending, cb, errors>>
      BY <2>13, UsbAssumption DEF IInv, LockInv, ClosePcs, Release, Cleanup, Go
    <3>b. phase = "ready" /\ ~closed /\ stopping /\ pc[Worker] \in {"none", "ended"}
      BY <3>a, UsbAssumption DEF IInv, PhaseInv, ThreadInv, ClosePcs
    <3>c. \A v \in Users : v # u => pc[v] = "idle"
      <4>1. \A v \in Users : v # u => stopMutex # v /\ ioMutex # v
        BY <3>a
      <4> QED BY <4>1 DEF IInv, TypeInv, LockInv, UserPcs, DrainPcs, ClosePcs
    <3>d. cb = NoCallback
      BY <3>a, <3>b, <3>c DEF IInv, CallbackInv, HandlesEvents, Threads
    <3>e. \A i \in Inputs : InFlight(i) => drainFailed /\ pending[i]
      BY <3>a, <3>b, <3>d DEF IInv, FlightInv, DrainInv, ClosePcs, NoCallback
    <3>f. \A i \in Inputs :
             /\ transfer'[i] \in {"none", "freed", "leaked"}
             /\ pending[i] => transfer'[i] = "leaked"
             /\ transfer[i] = "none" => transfer'[i] = "none"
      <4>1. \A i \in Inputs : pending[i] => InFlight(i)
        BY <3>b DEF IInv, FlightInv
      <4>2. \A i \in Inputs :
               transfer'[i] = CASE transfer[i] = "none" -> "none"
                                [] drainFailed /\ pending[i] -> "leaked"
                                [] InFlight(i) /\ ~(drainFailed /\ pending[i]) -> "dangling"
                                [] OTHER -> "freed"
        BY <2>13 DEF Release, Cleanup, FreeTransfers
      <4> QED BY <3>e, <4>1, <4>2 DEF InFlight
    <3>1. TypeOK'
      <4>1. /\ kernel' \subseteq Ifaces /\ refused' \subseteq kernel0 /\ reported' \in BOOLEAN
            /\ handle' = FALSE /\ lockFd' = FALSE
            /\ detached' = {} /\ claimed' = {}
        BY <2>13 DEF IInv, TypeOK, TypeInv, Release, Cleanup
      <4>2. transfer' \in [Inputs -> {"none", "freed", "leaked"}]
        <5>1. transfer' = [i \in Inputs |-> transfer'[i]]
          BY <2>13 DEF Release, Cleanup, FreeTransfers
        <5> QED BY <3>f, <5>1
      <4> QED BY <3>a, <3>d, <3>f, <4>1, <4>2 DEF IInv, TypeOK
    <3>2. TypeInv'
      BY <3>a DEF IInv, TypeInv, Threads, DrainPcs, ClosePcs, UserPcs, WorkerPcs
    <3>3. LockInv'
      BY <3>a, <3>c, UsbAssumption
      DEF IInv, TypeInv, LockInv, Threads, DrainPcs, ClosePcs
    <3>4. PhaseInv'
      <4>1. handle' = FALSE
        BY <2>13 DEF Release, Cleanup
      <4>2. ASSUME ~started PROVE transfer' = [i \in Inputs |-> "none"]
        <5>1. transfer' = [i \in Inputs |-> transfer'[i]]
          BY <2>13 DEF Release, Cleanup, FreeTransfers
        <5>2. \A i \in Inputs : transfer[i] = "none"
          BY <4>2 DEF IInv, PhaseInv
        <5> QED BY <3>f, <5>1, <5>2
      <4> QED BY <3>a, <3>b, <4>1, <4>2 DEF IInv, TypeInv, PhaseInv, Threads
    <3>5. KernelInv'
      <4>1. kernel = kernel0 \ detached /\ detached \subseteq kernel0 /\ refused = {}
        BY <3>b DEF IInv, KernelInv
      <4>2. PICK failed \in SUBSET detached :
                 kernel' = kernel \cup (detached \ failed) /\ refused' = refused \cup failed
        BY <2>13 DEF Release, Cleanup
      <4>3. kernel' = kernel0' \ refused'
        BY <3>a, <4>1, <4>2
      <4>4. pc'[Worker] = pc[Worker]
        BY <3>a
      <4>5. ~lockFd' /\ ~handle' /\ claimed' = {}
        BY <2>13 DEF Release, Cleanup
      <4>6. refused' # {} /\ ~StartFailed' => reported'
        <5>1. StartFailed' <=> StartFailed
          BY <3>a, <4>4 DEF StartFailed
        <5>2. reported' = (refused' # {} /\ ~StartFailed)
          BY <2>13 DEF Release
        <5> QED BY <5>1, <5>2
      <4> QED BY <3>a, <4>3, <4>5, <4>6 DEF KernelInv, InterfacesReturned
    <3>6. ThreadInv'
      BY <3>a, <3>b, <3>c, <3>d
      DEF IInv, TypeInv, ThreadInv, Threads, DrainPcs, ClosePcs
    <3>7. CallbackInv'
      BY <3>a, <3>d DEF CallbackInv, NoCallback
    <3>8. FlightInv'
      BY <3>a, <3>f DEF FlightInv, InFlight
    <3>9. DrainInv'
      BY <3>a, <3>b, <3>c DEF IInv, DrainInv
    <3> QED BY <3>1, <3>2, <3>3, <3>4, <3>5, <3>6, <3>7, <3>8, <3>9 DEF IInv
  <2>14. ASSUME NEW t \in Threads, NEW i \in Inputs, CallbackBegins(t, i)
        PROVE  IInv'
    <3>a. /\ HandlesEvents(t) /\ cb = NoCallback /\ InFlight(i)
          /\ cb' = [thread |-> t, input |-> i, at |-> "entered"]
          /\ transfer' = [transfer EXCEPT ![i] = "idle"] /\ pending' = [pending EXCEPT ![i] = FALSE]
          /\ UNCHANGED <<resources, flags, stopMutex, ioMutex, pc, errors>>
      BY <2>14 DEF CallbackBegins
    <3>b. started /\ ~closed /\ phase = "ready"
      BY <3>a DEF IInv, PhaseInv, FlightInv, InFlight
    <3>c. /\ transfer'[i] = "idle" /\ ~pending'[i]
          /\ \A j \in Inputs \ {i} : transfer'[j] = transfer[j] /\ pending'[j] = pending[j]
          /\ transfer' \in [Inputs -> {"none", "idle", "submitted", "cancelled", "freed", "leaked", "dangling"}]
          /\ pending' \in [Inputs -> BOOLEAN]
      BY <3>a DEF IInv, TypeOK
    <3>1. TypeOK'
      BY <3>a, <3>c DEF IInv, TypeOK
    <3>2. TypeInv' /\ LockInv' /\ PhaseInv' /\ KernelInv' /\ ThreadInv'
      BY <3>a, <3>b
      DEF IInv, TypeInv, LockInv, PhaseInv, KernelInv, InterfacesReturned, ThreadInv
    <3>3. CallbackInv'
      BY <3>a, <3>c DEF CallbackInv, HandlesEvents
    <3>4. FlightInv'
      BY <3>a, <3>b, <3>c DEF IInv, FlightInv, InFlight, NoCallback
    <3>5. DrainInv'
      <4>1. started /\ ~stopping => \A j \in Inputs \ {i} : pending'[j]
        <5>1. started /\ ~stopping => \A j \in Inputs : pending[j]
          BY <3>a DEF IInv, DrainInv, NoCallback, Inputs
        <5> QED BY <3>c, <5>1
      <4>2. \A j \in Inputs : pending'[j] => pending[j]
        BY <3>c
      <4>3. cb'.input = i
        BY <3>a
      <4> QED BY <3>a, <4>1, <4>2, <4>3 DEF IInv, DrainInv
    <3> QED BY <3>1, <3>2, <3>3, <3>4, <3>5 DEF IInv
  <2>15. CASE CallbackFaults
    <3>a. cb # NoCallback /\ started /\ ~closed /\ phase = "ready"
      BY <2>15 DEF IInv, PhaseInv, ThreadInv, NoCallback, CallbackFaults
    <3>b. /\ cb.thread \in Threads /\ HandlesEvents(cb.thread) /\ cb.input \in Inputs
          /\ ~pending[cb.input] /\ transfer[cb.input] = IF cb.at = "mark" THEN "submitted" ELSE "idle"
      BY <3>a DEF IInv, CallbackInv
    <3>c. cb = [thread |-> cb.thread, input |-> cb.input, at |-> cb.at]
      BY DEF IInv, TypeInv
    <3>1. TypeOK'
      BY <2>15, UsbAssumption
      DEF IInv, TypeOK, TypeInv, FlightInv, InFlight, CallbackFaults
    <3>2. TypeInv'
      BY <2>15 DEF IInv, TypeInv, NoCallback, CallbackFaults
    <3>3. LockInv'
      BY <2>15, UsbAssumption
      DEF IInv, TypeInv, LockInv, PhaseInv, Threads, DrainPcs, ClosePcs, UserPcs,
          WorkerPcs, CallbackFaults
    <3>4. PhaseInv'
      BY <2>15, <3>a DEF IInv, PhaseInv, CallbackFaults
    <3>5. KernelInv'
      BY <2>15, KernelKept DEF IInv, CallbackFaults
    <3>6. ThreadInv'
      BY <2>15, UsbAssumption
      DEF IInv, TypeInv, LockInv, PhaseInv, ThreadInv, Threads, DrainPcs, ClosePcs,
          UserPcs, WorkerPcs, CallbackFaults
    <3>7. CallbackInv'
      BY <2>15, UsbAssumption
      DEF IInv, TypeInv, PhaseInv, CallbackInv, HandlesEvents, NoCallback, Threads,
          CallbackFaults
    <3>8. FlightInv'
      BY <2>15, UsbAssumption
      DEF IInv, TypeOK, PhaseInv, FlightInv, InFlight, NoCallback, CallbackFaults
    <3>9. DrainInv'
      BY <2>15, UsbAssumption
      DEF IInv, TypeInv, PhaseInv, LockInv, DrainInv, Threads, DrainPcs, ClosePcs,
          UserPcs, WorkerPcs, CallbackFaults
    <3> QED BY <3>1, <3>2, <3>3, <3>4, <3>5, <3>6, <3>7, <3>8, <3>9 DEF IInv
  <2>16. CASE CallbackChecks
    <3>a. cb # NoCallback /\ started /\ ~closed /\ phase = "ready"
      BY <2>16 DEF IInv, PhaseInv, ThreadInv, NoCallback, CallbackChecks
    <3>b. /\ cb.thread \in Threads /\ HandlesEvents(cb.thread) /\ cb.input \in Inputs
          /\ ~pending[cb.input] /\ transfer[cb.input] = IF cb.at = "mark" THEN "submitted" ELSE "idle"
      BY <3>a DEF IInv, CallbackInv
    <3>c. cb = [thread |-> cb.thread, input |-> cb.input, at |-> cb.at]
      BY DEF IInv, TypeInv

    <3>d. CASE stopping
      <4>1. cb.at = "entered" /\ cb' = NoCallback
        BY <2>16, <3>d DEF CallbackChecks
      <4>2. UNCHANGED <<resources, flags, transfer, pending, stopMutex, ioMutex, pc, errors>>
        BY <2>16 DEF CallbackChecks
      <4>3. TypeOK' /\ TypeInv' /\ LockInv' /\ PhaseInv' /\ KernelInv' /\ ThreadInv'
        BY <3>a, <4>1, <4>2
        DEF IInv, TypeOK, TypeInv, NoCallback, LockInv, PhaseInv, KernelInv, InterfacesReturned,
            ThreadInv
      <4>4. CallbackInv' /\ DrainInv'
        BY <3>d, <4>1, <4>2 DEF IInv, CallbackInv, DrainInv, NoCallback
      <4>5. FlightInv'
        BY <4>1, <4>2 DEF IInv, FlightInv, InFlight, NoCallback
      <4> QED BY <4>3, <4>4, <4>5 DEF IInv
    <3>e. CASE ~stopping
      <4>1. /\ cb.at = "entered" /\ cb' = [cb EXCEPT !.at = "submit"]
            /\ cb'.at = "submit" /\ cb'.input = cb.input /\ cb'.thread = cb.thread
        BY <2>16, <3>c, <3>e DEF CallbackChecks
      <4>2. UNCHANGED <<resources, flags, transfer, pending, stopMutex, ioMutex, pc, errors>>
        BY <2>16 DEF CallbackChecks
      <4>3. TypeOK' /\ TypeInv' /\ LockInv' /\ PhaseInv' /\ KernelInv' /\ ThreadInv'
        BY <3>a, <3>b, <4>1, <4>2
        DEF IInv, TypeOK, TypeInv, LockInv, PhaseInv, KernelInv, InterfacesReturned, ThreadInv
      <4>4. CallbackInv'
        BY <3>a, <3>b, <3>e, <4>1, <4>2
        DEF IInv, ThreadInv, DrainInv, CallbackInv, HandlesEvents
      <4>5. FlightInv' /\ DrainInv'
        BY <4>1, <4>2 DEF IInv, FlightInv, InFlight, DrainInv
      <4> QED BY <4>3, <4>4, <4>5 DEF IInv
    <3> QED BY <3>d, <3>e
  <2>17. CASE CallbackSubmits
    <3>a. cb # NoCallback /\ started /\ ~closed /\ phase = "ready"
      BY <2>17 DEF IInv, PhaseInv, ThreadInv, NoCallback, CallbackSubmits
    <3>b. /\ cb.thread \in Threads /\ HandlesEvents(cb.thread) /\ cb.input \in Inputs
          /\ ~pending[cb.input] /\ transfer[cb.input] = IF cb.at = "mark" THEN "submitted" ELSE "idle"
      BY <3>a DEF IInv, CallbackInv
    <3>c. cb = [thread |-> cb.thread, input |-> cb.input, at |-> cb.at]
      BY DEF IInv, TypeInv

    <3>d. /\ cb.at = "submit" /\ cb'.at = "mark" /\ cb'.input = cb.input /\ cb'.thread = cb.thread
          /\ cb' = [cb EXCEPT !.at = "mark"]
          /\ transfer' = [transfer EXCEPT ![cb.input] = "submitted"]
          /\ UNCHANGED <<resources, flags, pending, stopMutex, ioMutex, pc, errors>>
      BY <2>17, <3>c DEF CallbackSubmits
    <3>e. /\ transfer'[cb.input] = "submitted"
          /\ \A i \in Inputs \ {cb.input} : transfer'[i] = transfer[i]
          /\ transfer' \in [Inputs -> {"none", "idle", "submitted", "cancelled", "freed", "leaked", "dangling"}]
      BY <3>b, <3>d DEF IInv, TypeOK
    <3>1. TypeOK'
      BY <3>b, <3>d, <3>e DEF IInv, TypeOK
    <3>2. TypeInv' /\ LockInv' /\ PhaseInv' /\ KernelInv' /\ ThreadInv'
      BY <3>a, <3>d
      DEF IInv, TypeInv, LockInv, PhaseInv, KernelInv, InterfacesReturned, ThreadInv
    <3>3. CallbackInv'
      BY <3>b, <3>d, <3>e DEF IInv, CallbackInv, HandlesEvents
    <3>4. FlightInv'
      BY <3>a, <3>b, <3>d, <3>e DEF IInv, FlightInv, InFlight
    <3>5. DrainInv'
      BY <3>d DEF IInv, DrainInv
    <3> QED BY <3>1, <3>2, <3>3, <3>4, <3>5 DEF IInv
  <2>18. CASE CallbackMarks
    <3>a. cb # NoCallback /\ started /\ ~closed /\ phase = "ready"
      BY <2>18 DEF IInv, PhaseInv, ThreadInv, NoCallback, CallbackMarks
    <3>b. /\ cb.thread \in Threads /\ HandlesEvents(cb.thread) /\ cb.input \in Inputs
          /\ ~pending[cb.input] /\ transfer[cb.input] = IF cb.at = "mark" THEN "submitted" ELSE "idle"
      BY <3>a DEF IInv, CallbackInv
    <3>c. cb = [thread |-> cb.thread, input |-> cb.input, at |-> cb.at]
      BY DEF IInv, TypeInv

    <3>d. /\ cb.at = "mark" /\ cb' = NoCallback
          /\ pending' = [pending EXCEPT ![cb.input] = TRUE]
          /\ UNCHANGED <<resources, flags, transfer, stopMutex, ioMutex, pc, errors>>
      BY <2>18 DEF CallbackMarks
    <3>e. /\ pending'[cb.input] /\ transfer[cb.input] = "submitted"
          /\ \A i \in Inputs \ {cb.input} : pending'[i] = pending[i] /\ pending[i]
          /\ pending' \in [Inputs -> BOOLEAN]
      BY <3>b, <3>d DEF IInv, TypeOK, CallbackInv
    <3>1. TypeOK'
      BY <3>d, <3>e DEF IInv, TypeOK
    <3>2. TypeInv' /\ LockInv' /\ PhaseInv' /\ KernelInv' /\ ThreadInv'
      BY <3>a, <3>d
      DEF IInv, TypeInv, LockInv, PhaseInv, KernelInv, InterfacesReturned, ThreadInv, NoCallback
    <3>3. CallbackInv'
      BY <3>d DEF CallbackInv, NoCallback
    <3>4. FlightInv'
      BY <3>a, <3>d, <3>e DEF IInv, FlightInv, InFlight, NoCallback
    <3>5. DrainInv'
      <4>1. PICK i \in Inputs : i # cb.input
        BY DEF Inputs
      <4> QED BY <3>b, <3>d, <3>e, <4>1 DEF IInv, DrainInv
    <3> QED BY <3>1, <3>2, <3>3, <3>4, <3>5 DEF IInv
  <2>19. CASE PumpLoop
    <3>1. TypeOK'
      BY <2>19, UsbAssumption
      DEF IInv, TypeOK, TypeInv, FlightInv, InFlight, PumpLoop, Step, Go
    <3>2. TypeInv'
      BY <2>19, UsbAssumption
      DEF IInv, TypeInv, Threads, DrainPcs, ClosePcs, UserPcs, WorkerPcs, PumpLoop,
          Step, Go
    <3>3. LockInv'
      BY <2>19, UsbAssumption
      DEF IInv, TypeInv, LockInv, PhaseInv, Threads, DrainPcs, ClosePcs, UserPcs,
          WorkerPcs, PumpLoop, Step, Go
    <3>4. PhaseInv'
      BY <2>19, UsbAssumption
      DEF IInv, TypeInv, LockInv, PhaseInv, ThreadInv, Threads, PumpLoop, Step, Go
    <3>5. KernelInv'
      BY <2>19, KernelKept DEF IInv, ThreadInv, PumpLoop, Step
    <3>6. ThreadInv'
      BY <2>19, UsbAssumption
      DEF IInv, TypeInv, LockInv, PhaseInv, ThreadInv, Threads, DrainPcs, ClosePcs,
          UserPcs, WorkerPcs, PumpLoop, Step, Go
    <3>7. CallbackInv'
      BY <2>19, UsbAssumption
      DEF IInv, TypeInv, PhaseInv, CallbackInv, HandlesEvents, NoCallback, Threads,
          PumpLoop, Step, Go
    <3>8. FlightInv'
      BY <2>19, UsbAssumption
      DEF IInv, TypeOK, PhaseInv, FlightInv, InFlight, NoCallback, PumpLoop, Step, Go
    <3>9. DrainInv'
      BY <2>19, UsbAssumption
      DEF IInv, TypeInv, PhaseInv, LockInv, DrainInv, Threads, DrainPcs, ClosePcs,
          UserPcs, WorkerPcs, PumpLoop, Step, Go
    <3> QED BY <3>1, <3>2, <3>3, <3>4, <3>5, <3>6, <3>7, <3>8, <3>9 DEF IInv
  <2>20. CASE PumpEvents
    <3>a. /\ pc[Worker] = "events" /\ cb.thread # Worker
          /\ UNCHANGED <<resources, flags, transfer, pending, stopMutex, ioMutex, cb>>
      BY <2>20 DEF PumpEvents, At, Free, Step
    <3>b. PICK label \in {"loop", "fault"} : pc' = [pc EXCEPT ![Worker] = label]
      BY <2>20 DEF PumpEvents, Step, Go
    <3>0. KernelInv'
      BY <3>a, KernelKept DEF IInv, ThreadInv
    <3>1. TypeOK' /\ PhaseInv'
      BY <3>a, <3>b DEF IInv, TypeInv, TypeOK, PhaseInv, Threads
    <3>2. TypeInv'
      BY <3>a, <3>b, UsbAssumption DEF IInv, TypeInv, Threads, UserPcs, WorkerPcs
    <3>3. LockInv' /\ ThreadInv'
      BY <3>a, <3>b, UsbAssumption
      DEF IInv, TypeInv, LockInv, ThreadInv, Threads, DrainPcs, ClosePcs
    <3>4. CallbackInv'
      BY <3>a, <3>b DEF IInv, TypeInv, CallbackInv, HandlesEvents
    <3>5. FlightInv' /\ DrainInv'
      BY <3>a, <3>b, UsbAssumption
      DEF IInv, TypeInv, FlightInv, InFlight, DrainInv, Threads, ClosePcs
    <3> QED BY <3>0, <3>1, <3>2, <3>3, <3>4, <3>5 DEF IInv
  <2>21. CASE PumpFaults
    <3>1. TypeOK'
      BY <2>21, UsbAssumption
      DEF IInv, TypeOK, TypeInv, FlightInv, InFlight, PumpFaults, Step, Go
    <3>2. TypeInv'
      BY <2>21, UsbAssumption
      DEF IInv, TypeInv, Threads, DrainPcs, ClosePcs, UserPcs, WorkerPcs, PumpFaults,
          Step, Go
    <3>3. LockInv'
      BY <2>21, UsbAssumption
      DEF IInv, TypeInv, LockInv, PhaseInv, Threads, DrainPcs, ClosePcs, UserPcs,
          WorkerPcs, PumpFaults, Step, Go
    <3>4. PhaseInv'
      BY <2>21, UsbAssumption
      DEF IInv, TypeInv, LockInv, PhaseInv, ThreadInv, Threads, PumpFaults, Step, Go
    <3>5. KernelInv'
      BY <2>21, KernelKept DEF IInv, ThreadInv, PumpFaults, Step
    <3>6. ThreadInv'
      BY <2>21, UsbAssumption
      DEF IInv, TypeInv, LockInv, PhaseInv, ThreadInv, Threads, DrainPcs, ClosePcs,
          UserPcs, WorkerPcs, PumpFaults, Step, Go
    <3>7. CallbackInv'
      BY <2>21, UsbAssumption
      DEF IInv, TypeInv, PhaseInv, CallbackInv, HandlesEvents, NoCallback, Threads,
          PumpFaults, Step, Go
    <3>8. FlightInv'
      BY <2>21, UsbAssumption
      DEF IInv, TypeOK, PhaseInv, FlightInv, InFlight, NoCallback, PumpFaults, Step,
          Go
    <3>9. DrainInv'
      BY <2>21, UsbAssumption
      DEF IInv, TypeInv, PhaseInv, LockInv, DrainInv, Threads, DrainPcs, ClosePcs,
          UserPcs, WorkerPcs, PumpFaults, Step, Go
    <3> QED BY <3>1, <3>2, <3>3, <3>4, <3>5, <3>6, <3>7, <3>8, <3>9 DEF IInv
  <2>22. ASSUME NEW t \in Threads, Cancel(t)
        PROVE  IInv'
    <3>a. PICK i \in Inputs :
               /\ pc[t] = IF i = "bulk" THEN "cancel bulk" ELSE "cancel interrupt"
               /\ transfer' = [transfer EXCEPT ![i] =
                                 IF pending[i] /\ InFlight(i) THEN "cancelled" ELSE @]
               /\ pc' = [pc EXCEPT ![t] = IF i = "bulk" THEN "cancel interrupt" ELSE "drain"]
               /\ UNCHANGED <<resources, flags, pending, stopMutex, ioMutex, cb, errors>>
      BY <2>22 DEF Cancel, Go
    <3>b. pc[t] \in DrainPcs /\ pc'[t] \in DrainPcs /\ ~HandlesEvents(t)
          /\ \A v \in Threads \ {t} : pc'[v] = pc[v]
      BY <3>a DEF IInv, TypeInv, HandlesEvents, DrainPcs
    <3>c. /\ transfer' \in [Inputs -> {"none", "idle", "submitted", "cancelled", "freed", "leaked", "dangling"}]
          /\ \A j \in Inputs : /\ transfer'[j] = transfer[j] \/ (InFlight(j) /\ pending[j] /\ transfer'[j] = "cancelled")
      BY <3>a DEF IInv, TypeOK
    <3>1. TypeOK'
      BY <3>a, <3>c DEF IInv, TypeOK
    <3>2. TypeInv'
      BY <3>a, <3>b DEF IInv, TypeInv, Threads, UserPcs, WorkerPcs
    <3>3. LockInv' /\ ThreadInv'
      BY <3>a, <3>b, UsbAssumption
      DEF IInv, LockInv, ThreadInv, Threads, DrainPcs, ClosePcs
    <3>0. KernelInv'
      <4>1. closed => t # Worker
        BY <3>b DEF IInv, ThreadInv, DrainPcs
      <4> QED BY <3>a, <3>b, <4>1, KernelKept, UsbAssumption DEF IInv, Threads
    <3>4. PhaseInv'
      BY ZenonT(60), <3>a, <3>b, <3>c
      DEF IInv, TypeOK, PhaseInv, Threads, InFlight, DrainPcs
    <3>5. CallbackInv'
      <4>1. cb # NoCallback => cb.thread # t /\ transfer'[cb.input] = transfer[cb.input]
        BY <3>b, <3>c DEF IInv, CallbackInv
      <4>2. cb # NoCallback => HandlesEvents(cb.thread)'
        BY <3>a, <3>b, <4>1 DEF IInv, CallbackInv, HandlesEvents
      <4> QED BY <3>a, <4>1, <4>2 DEF IInv, CallbackInv
    <3>6. FlightInv'
      BY <3>a, <3>c DEF IInv, FlightInv, InFlight
    <3>7. DrainInv'
      BY <3>a, <3>b, UsbAssumption DEF IInv, DrainInv, Threads, DrainPcs, ClosePcs
    <3> QED BY <3>0, <3>1, <3>2, <3>3, <3>4, <3>5, <3>6, <3>7 DEF IInv
  <2>23. ASSUME NEW t \in Threads, Drain(t)
        PROVE  IInv'
    <3>a. /\ pc[t] = "drain"
          /\ pc' = [pc EXCEPT ![t] = IF \E i \in Inputs : pending[i] THEN "drain events" ELSE Drained(t)]
          /\ UNCHANGED <<resources, flags, transfer, pending, stopMutex, ioMutex, cb, errors>>
      BY <2>23 DEF Drain, Step, Go
    <3>b. /\ pc'[t] = "drain events" \/ (pc'[t] = Drained(t) /\ \A i \in Inputs : ~pending[i])
          /\ \A v \in Threads \ {t} : pc'[v] = pc[v]
      BY <3>a DEF IInv, TypeInv
    <3>c. \/ t = Worker /\ pc'[t] \in {"drain events", "ended"}
          \/ t \in Users /\ t # Worker /\ pc'[t] \in {"drain events", "lock io"}
      BY <3>b, UsbAssumption DEF Threads, Drained
    <3>0. KernelInv'
      <4>1. closed => t # Worker
        BY <3>a DEF IInv, ThreadInv, DrainPcs
      <4> QED BY <3>a, <3>b, <4>1, KernelKept, UsbAssumption DEF IInv, Threads
    <3>1. TypeOK'
      BY <3>a DEF IInv, TypeOK
    <3>2. TypeInv'
      <4>1. pc' \in [Threads -> UserPcs \cup WorkerPcs]
        <5>1. PICK label \in {"drain events", "ended", "lock io"} :
                   pc' = [pc EXCEPT ![t] = label]
          BY <3>a DEF Drained
        <5>2. label \in UserPcs \cup WorkerPcs
          BY DEF UserPcs, WorkerPcs, DrainPcs, ClosePcs
        <5> QED BY <5>1, <5>2 DEF IInv, TypeInv
      <4>2. ASSUME NEW v \in Users PROVE pc'[v] \in UserPcs
        <5>1. CASE v = t
          BY <3>c, <5>1, UsbAssumption DEF UserPcs, DrainPcs, ClosePcs
        <5>2. CASE v # t
          BY <3>b, <5>2 DEF IInv, TypeInv, Threads
        <5> QED BY <5>1, <5>2
      <4>3. pc'[Worker] \in WorkerPcs
        BY <3>b, <3>c, UsbAssumption DEF IInv, TypeInv, Threads, WorkerPcs, DrainPcs
      <4> QED BY <3>a, <4>1, <4>2, <4>3 DEF IInv, TypeInv
    <3>3. LockInv'
      BY <3>a, <3>b, <3>c, UsbAssumption
      DEF IInv, LockInv, Threads, DrainPcs, ClosePcs
    <3>4. PhaseInv'
      BY <3>a, <3>b DEF IInv, PhaseInv, Threads
    <3>5. ThreadInv'
      <4>1. stopping /\ pc[t] \in DrainPcs
        BY <3>a, <3>c, UsbAssumption DEF IInv, LockInv, ThreadInv, DrainPcs
      <4> QED BY <3>a, <3>b, <3>c, <4>1, UsbAssumption
          DEF IInv, ThreadInv, Threads, DrainPcs, ClosePcs
    <3>6. CallbackInv'
      BY <3>a, <3>b DEF IInv, CallbackInv, HandlesEvents
    <3>7. FlightInv'
      BY <3>a DEF IInv, FlightInv, InFlight
    <3>8. DrainInv'
      BY <3>a, <3>b, UsbAssumption
      DEF IInv, DrainInv, Threads, Drained, DrainPcs, ClosePcs
    <3> QED BY <3>0, <3>1, <3>2, <3>3, <3>4, <3>5, <3>6, <3>7, <3>8 DEF IInv
  <2>24. ASSUME NEW t \in Threads, DrainEvents(t)
        PROVE  IInv'
    <3>a. /\ pc[t] = "drain events" /\ cb.thread # t
          /\ UNCHANGED <<resources, started, closed, transfer, pending, stopMutex, ioMutex, cb>>
      BY <2>24 DEF DrainEvents, At, Free, Step
    <3>b. \/ pc' = [pc EXCEPT ![t] = "drain"] /\ UNCHANGED <<stopping, drainFailed>>
          \/ /\ pc' = [pc EXCEPT ![t] = Drained(t)] /\ cb = NoCallback
             /\ stopping' = TRUE /\ drainFailed' = TRUE
      BY <2>24 DEF DrainEvents, EventsFail, Step, Go
    <3>c. /\ \/ pc'[t] = "drain" /\ UNCHANGED <<stopping, drainFailed>>
             \/ pc'[t] = Drained(t) /\ cb = NoCallback /\ stopping' = TRUE /\ drainFailed' = TRUE
          /\ \A v \in Threads \ {t} : pc'[v] = pc[v]
      BY <3>b DEF IInv, TypeInv
    <3>e. \/ t = Worker /\ pc'[t] \in {"drain", "ended"}
          \/ t \in Users /\ t # Worker /\ pc'[t] \in {"drain", "lock io"}
      BY <3>c, UsbAssumption DEF Threads, Drained
    <3>d. phase = "ready"
      BY <3>a, UsbAssumption DEF IInv, LockInv, PhaseInv, Threads, DrainPcs
    <3>0. KernelInv'
      <4>1. closed => t # Worker
        BY <3>a DEF IInv, ThreadInv, DrainPcs
      <4> QED BY <3>a, <3>c, <4>1, KernelKept, UsbAssumption DEF IInv, Threads
    <3>1. TypeOK'
      BY <3>a, <3>c DEF IInv, TypeOK
    <3>2. TypeInv'
      <4>1. pc' \in [Threads -> UserPcs \cup WorkerPcs]
        <5>1. PICK label \in {"drain", "ended", "lock io"} :
                   pc' = [pc EXCEPT ![t] = label]
          BY <3>b DEF Drained
        <5>2. label \in UserPcs \cup WorkerPcs
          BY DEF UserPcs, WorkerPcs, DrainPcs, ClosePcs
        <5> QED BY <5>1, <5>2 DEF IInv, TypeInv
      <4>2. ASSUME NEW v \in Users PROVE pc'[v] \in UserPcs
        <5>1. CASE v = t
          BY <3>e, <5>1, UsbAssumption DEF UserPcs, DrainPcs, ClosePcs
        <5>2. CASE v # t
          BY <3>c, <5>2 DEF IInv, TypeInv, Threads
        <5> QED BY <5>1, <5>2
      <4>3. pc'[Worker] \in WorkerPcs
        BY <3>c, <3>e, UsbAssumption DEF IInv, TypeInv, Threads, WorkerPcs, DrainPcs
      <4> QED BY <3>a, <4>1, <4>2, <4>3 DEF IInv, TypeInv
    <3>3. LockInv'
      BY <3>a, <3>c, <3>e, UsbAssumption
      DEF IInv, LockInv, Threads, DrainPcs, ClosePcs
    <3>4. PhaseInv'
      BY <3>a, <3>c, <3>d DEF IInv, PhaseInv, Threads
    <3>5. ThreadInv'
      <4>0. stopping /\ pc[t] \in DrainPcs
        BY <3>a, <3>e, UsbAssumption DEF IInv, LockInv, ThreadInv, DrainPcs
      <4>1. stopping /\ stopping' /\ pc[t] \in DrainPcs
        BY <3>c, <4>0
      <4> QED BY <3>a, <3>c, <3>e, <4>1, UsbAssumption
          DEF IInv, ThreadInv, Threads, DrainPcs, ClosePcs
    <3>6. CallbackInv'
      <4>1. CASE cb = NoCallback
        BY <3>a, <4>1 DEF CallbackInv, NoCallback
      <4>2. CASE cb # NoCallback
        <5>1. UNCHANGED <<stopping, drainFailed>> /\ pc'[cb.thread] = pc[cb.thread]
          BY <3>a, <3>c, <4>2 DEF IInv, CallbackInv
        <5> QED BY <3>a, <4>2, <5>1 DEF IInv, CallbackInv, HandlesEvents
      <4> QED BY <4>1, <4>2
    <3>7. FlightInv'
      BY <3>a DEF IInv, FlightInv, InFlight
    <3>8. DrainInv'
      <4>1. CASE drainFailed' = TRUE /\ stopping' = TRUE
        BY <4>1 DEF DrainInv
      <4>2. CASE pc'[t] = "drain" /\ UNCHANGED <<stopping, drainFailed>>
        BY <3>a, <3>c, <4>2, UsbAssumption DEF IInv, DrainInv, Threads, ClosePcs
      <4> QED BY <3>c, <4>1, <4>2
    <3> QED BY <3>0, <3>1, <3>2, <3>3, <3>4, <3>5, <3>6, <3>7, <3>8 DEF IInv
  <2>25. CASE Quiet
    <3>1. TypeOK'
      BY <2>25, UsbAssumption
      DEF IInv, TypeOK, TypeInv, FlightInv, InFlight, Quiet, vars
    <3>2. TypeInv'
      BY <2>25, UsbAssumption
      DEF IInv, TypeInv, Threads, DrainPcs, ClosePcs, UserPcs, WorkerPcs, Quiet, vars
    <3>3. LockInv'
      BY <2>25, UsbAssumption
      DEF IInv, TypeInv, LockInv, PhaseInv, Threads, DrainPcs, ClosePcs, UserPcs,
          WorkerPcs, Quiet, vars
    <3>4. PhaseInv'
      BY <2>25, UsbAssumption
      DEF IInv, TypeInv, LockInv, PhaseInv, ThreadInv, Threads, Quiet, vars
    <3>5. KernelInv'
      BY <2>25, KernelKept DEF IInv, Quiet, vars
    <3>6. ThreadInv'
      BY <2>25, UsbAssumption
      DEF IInv, TypeInv, LockInv, PhaseInv, ThreadInv, Threads, DrainPcs, ClosePcs,
          UserPcs, WorkerPcs, Quiet, vars
    <3>7. CallbackInv'
      BY <2>25, UsbAssumption
      DEF IInv, TypeInv, PhaseInv, CallbackInv, HandlesEvents, NoCallback, Threads,
          Quiet, vars
    <3>8. FlightInv'
      BY <2>25, UsbAssumption
      DEF IInv, TypeOK, PhaseInv, FlightInv, InFlight, NoCallback, Quiet, vars
    <3>9. DrainInv'
      BY <2>25, UsbAssumption
      DEF IInv, TypeInv, PhaseInv, LockInv, DrainInv, Threads, DrainPcs, ClosePcs,
          UserPcs, WorkerPcs, Quiet, vars
    <3> QED BY <3>1, <3>2, <3>3, <3>4, <3>5, <3>6, <3>7, <3>8, <3>9 DEF IInv
  <2> QED
    BY <2>1, <2>2, <2>3, <2>4, <2>5, <2>6, <2>7, <2>8, <2>9, <2>10, <2>11, <2>12,
       <2>13, <2>14, <2>15, <2>16, <2>17, <2>18, <2>19, <2>20, <2>21, <2>22, <2>23,
       <2>24, <2>25, <1>2
    DEF Next, ThreadStep, CallbackStep
<1> QED BY <1>1, <1>2

\* The invariant always holds.
LEMMA Invariance == Spec => []IInv
BY InitInv, StepInv, PTL DEF Spec
---------------------------------------------------------------------------
\* The flags tell what libusb holds; nothing that libusb or a thread still
\* uses is freed or closed (usb.cpp:119, 201 and 250).
THEOREM NothingInUseIsFreed == Spec => []Safety
<1> SUFFICES IInv => Safety
  BY Invariance, PTL
<1> SUFFICES ASSUME IInv PROVE Safety
  OBVIOUS
<1>1. NoDanglingTransfer
  BY DEF IInv, FlightInv, NoDanglingTransfer
<1>2. ASSUME ~handle, NEW u \in Users PROVE pc[u] \notin {"transfer", "control"}
  <2>1. CASE closed
    BY <2>1, UsbAssumption DEF IInv, ThreadInv, LockInv
  <2>2. CASE ~closed
    BY <1>2, <2>2, UsbAssumption DEF IInv, PhaseInv, LockInv
  <2> QED BY <2>1, <2>2
<1>3. ~handle => cb = NoCallback
  BY DEF IInv, PhaseInv, ThreadInv
<1> QED BY <1>1, <1>2, <1>3 DEF IInv, Safety, NoUseAfterClose

\* A constructor that fails half way and a finished stop() give the lock, the
\* handle and the interfaces back, but those the kernel driver refused, for
\* which an application's stop() throws (usb.cpp:73, 98, 124 and 249).
THEOREM EverythingIsGivenBack == Spec => []InterfacesReturned
<1>1. IInv => InterfacesReturned
  BY DEF IInv, KernelInv
<1> QED BY Invariance, <1>1, PTL

\* The libusb transport implements the contract of transport.hpp.
THEOREM UsbKeepsContract == Spec => ContractHeld
<1>1. Init => Contract!Init
  BY UsbAssumption DEF Init, Contract!Init, Threads
<1>2. IInv /\ [Next]_vars => [Contract!Next]_(Contract!contractVars)
  <2> SUFFICES ASSUME IInv, [Next]_vars
               PROVE  [Contract!Next]_(Contract!contractVars)
    OBVIOUS
  <2> DEFINE life == IF closed \/ phase = "dead" THEN "closed"
                     ELSE IF started THEN "running" ELSE "new"
             sending == {v \in Users : pc[v] = "transfer"}
             delivering == cb # NoCallback
             Stutter == UNCHANGED <<life, sending, delivering>>
  <2> USE DEF resources, flags
  <2>1. ASSUME TakeLock \/ OpenHandle \/ Detach \/ Claim
        PROVE  Stutter
    BY <2>1 DEF IInv, PhaseInv, TakeLock, OpenHandle, Detach, Claim, Construct
  <2>2. CASE AcquireFails
    <3>1. phase # "dead" /\ phase # "ready" /\ phase' = "dead" /\ UNCHANGED <<pc, cb>>
      BY <2>2 DEF AcquireFails, Throw, Construct
    <3>2. life # "closed" /\ life' = "closed"
      BY <3>1 DEF IInv, PhaseInv
    <3>3. sending = {} /\ cb = NoCallback
      BY <3>1, UsbAssumption DEF IInv, PhaseInv, LockInv
    <3> QED BY <3>1, <3>2, <3>3 DEF Contract!Stopped, Contract!Next
  <2>3. ASSUME NEW u \in Users, Start(u)
        PROVE  Contract!Start
    <3>1. life = "new" /\ life' = "running" /\ cb' = cb
      BY <2>3 DEF Start
    <3>2. sending' = sending
      BY <2>3, UsbAssumption DEF IInv, TypeInv, Start, StopBody, Go, Threads
    <3> QED BY <3>1, <3>2 DEF Contract!Start
  <2>4. ASSUME NEW u \in Users, Send(u)
        PROVE  Contract!BeginSend(u)
    <3>1. UNCHANGED <<life, cb>>
      BY <2>4 DEF Send
    <3>2. sending = {}
      BY <2>4, UsbAssumption DEF IInv, LockInv, Send
    <3>3. sending' = {u}
      BY <2>4, <3>2 DEF IInv, TypeInv, Send, Go, Threads
    <3>4. life = "running"
      BY <2>4 DEF IInv, ThreadInv, Send
    <3> QED BY <3>1, <3>2, <3>3, <3>4 DEF Contract!BeginSend
  <2>5. ASSUME NEW u \in Users, SendReturns(u)
        PROVE  Contract!EndSend(u)
    <3>1. UNCHANGED <<life, cb>>
      BY <2>5 DEF SendReturns
    <3>2. sending = {u}
      BY <2>5, UsbAssumption DEF IInv, LockInv, SendReturns, At
    <3>3. sending' = {}
      BY <2>5, <3>2 DEF IInv, TypeInv, SendReturns, Go, Threads
    <3> QED BY <3>1, <3>2, <3>3 DEF Contract!EndSend
  <2>6. ASSUME NEW u \in Users, Stop(u) \/ Join(u) \/ LockIo(u) \/ Control(u)
        PROVE  Stutter
    <3>1. UNCHANGED <<closed, phase, started, cb>>
      BY <2>6 DEF Stop, Join, LockIo, Control
    <3>2. PICK label \in {"cancel bulk", "join", "lock io", "control", "cleanup"} :
               pc[u] # "transfer" /\ pc' = [pc EXCEPT ![u] = label]
      BY <2>6 DEF Stop, StopBody, Join, LockIo, Control, At, Go
    <3>3. sending' = sending
      BY <3>2 DEF IInv, TypeInv, Threads
    <3> QED BY <3>1, <3>3
  <2>7. ASSUME NEW u \in Users, Release(u)
        PROVE  Contract!Stopped
    <3>1. pc[u] = "cleanup" /\ stopMutex = u /\ ioMutex = u /\ closed' = TRUE /\ cb' = cb
      BY <2>7 DEF IInv, LockInv, ClosePcs, Release
    <3>2. sending = {} /\ sending' = {}
      BY <2>7, <3>1 DEF IInv, TypeInv, LockInv, Release, Go, Threads
    <3>3. life # "closed" /\ life' = "closed"
      BY <3>1, UsbAssumption DEF IInv, ThreadInv, PhaseInv
    <3>4. cb = NoCallback
      <4>1. \A v \in Users : v # u => pc[v] \notin {"transfer", "control", "drain events"}
        BY <3>1 DEF IInv, LockInv, DrainPcs, ClosePcs
      <4>2. pc[Worker] \in {"none", "ended"}
        BY <3>1 DEF IInv, ThreadInv, ClosePcs
      <4>3. \A v \in Users : pc[v] # "events"
        BY DEF IInv, TypeInv, UserPcs, DrainPcs, ClosePcs
      <4> QED BY <3>1, <4>1, <4>2, <4>3 DEF IInv, CallbackInv, HandlesEvents, Threads
    <3> QED BY <3>1, <3>2, <3>3, <3>4 DEF Contract!Stopped
  <2>8. ASSUME NEW t \in Threads, NEW i \in Inputs, CallbackBegins(t, i)
        PROVE  Contract!BeginDelivery
    <3>1. UNCHANGED <<life, sending>> /\ cb = NoCallback /\ cb'.at = "entered"
      BY <2>8 DEF CallbackBegins
    <3>2. life = "running"
      BY <2>8 DEF IInv, PhaseInv, FlightInv, CallbackBegins, InFlight
    <3> QED BY <3>1, <3>2 DEF Contract!BeginDelivery, NoCallback
  <2>9. CASE CallbackStep
    <3>1. /\ UNCHANGED <<sending, closed, phase, started>>
          /\ cb.at \in {"entered", "submit", "mark"}
      BY <2>9
      DEF CallbackStep, CallbackFaults, CallbackChecks, CallbackSubmits,
          CallbackMarks
    <3>2. delivering
      BY <3>1 DEF NoCallback
    <3> QED
      BY <3>1, <3>2
      DEF Contract!Next, Contract!EndDelivery, Contract!contractVars
  <2>10. ASSUME PumpLoop \/ PumpEvents \/ PumpFaults \/
                \E t \in Threads : Cancel(t) \/ Drain(t) \/ DrainEvents(t)
         PROVE  Stutter
    <3>1. UNCHANGED <<closed, phase, started, cb>>
      BY <2>10 DEF PumpLoop, PumpEvents, PumpFaults, Cancel, Drain, DrainEvents, Step
    <3>2. PICK t \in Threads, label \in WorkerPcs \cup {"lock io"} :
               pc[t] # "transfer" /\ pc' = [pc EXCEPT ![t] = label]
      <4>1. CASE PumpLoop \/ PumpEvents \/ PumpFaults
        BY <4>1, UsbAssumption
        DEF PumpLoop, PumpEvents, PumpFaults, At, Step, Go, Threads, WorkerPcs, DrainPcs
      <4>2. CASE \E t \in Threads : Cancel(t) \/ Drain(t) \/ DrainEvents(t)
        BY <4>2
        DEF Cancel, Drain, DrainEvents, Drained, At, Step, Go, WorkerPcs, DrainPcs
      <4> QED BY <2>10, <4>1, <4>2
    <3>3. sending' = sending
      BY <3>2 DEF IInv, TypeInv, Threads, WorkerPcs, DrainPcs
    <3> QED BY <3>1, <3>3
  <2>11. CASE Quiet \/ UNCHANGED vars
    BY <2>11 DEF Quiet, vars, Contract!contractVars
  <2> QED
    BY <2>1, <2>2, <2>3, <2>4, <2>5, <2>6, <2>7, <2>8, <2>9, <2>10, <2>11
    DEF Next, ThreadStep, Contract!Next, Contract!contractVars
<1> QED BY Invariance, <1>1, <1>2, PTL DEF Spec, ContractHeld, Contract!Spec
============================================================================
