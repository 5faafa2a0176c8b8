----------------------------- MODULE TtyProofs -----------------------------
(***************************************************************************)
(* Proofs that the cdc_acm transport keeps its safety properties and the   *)
(* contract of transport.hpp, for any number of threads, writes, bytes and *)
(* interrupted system calls.                                               *)
(***************************************************************************)
EXTENDS Tty, FiniteSetTheorems, SequenceTheorems, TLAPS

Results == {"pending", "ok", "timeout", "partial", "error", "refused"}

\* The types TypeOK leaves out.
TypeInv ==
    /\ call \in [Users -> Nat]
    /\ result \in Seq(Results)
    /\ wire \in Seq(Nat)

\* Each mutex is held by the thread inside the section it guards.
LockInv ==
    \A u \in Users :
        /\ stopMutex = u <=> pc[u] \in {"join", "release"}
        /\ ioMutex = u <=> Writing(u)

\* What the constructor has taken, and that nothing runs before it is done.
PortInv ==
    /\ fd <=> phase \in {"lock", "configure", "ready"} /\ ~closed
    /\ exclusive => fd /\ phase # "lock"
    /\ ~started => worker = "none" /\ ~wake
    /\ phase # "ready" => ~started /\ ~closed /\ stopMutex = None /\ ioMutex = None

\* stop() closes the port only after the reader has ended.
StopInv ==
    /\ closed => ~wake /\ worker \in {"none", "ended"}
    /\ worker # "none" /\ ~closed => wake
    /\ \A u \in Users : pc[u] \in {"join", "release"} => ~closed
    /\ \A u \in Users : pc[u] = "release" => worker \in {"none", "ended"}
    /\ \A u \in Users : Writing(u) => started /\ ~closed

\* Writes are numbered in the order in which they get io_mutex_, and the one
\* that holds it is the last.
WriteInv ==
    /\ \A i \in 1 .. Len(wire) : wire[i] \in 1 .. Len(result)
    /\ \A i, j \in 1 .. Len(wire) : i < j => wire[i] <= wire[j]
    /\ \A u \in Users : Writing(u) =>
        /\ call[u] = Len(result) /\ result[call[u]] = "pending"
        /\ Cardinality(Places(call[u])) = Size - left[u]
        /\ pc[u] = "pollout" => left[u] > 0

\* What each finished write has reported of its bytes.
ReportInv ==
    \A c \in 1 .. Len(result) :
        /\ result[c] = "ok" => Cardinality(Places(c)) = Size
        /\ result[c] \in {"refused", "timeout"} => Places(c) = {}
        /\ result[c] = "partial" => Cardinality(Places(c)) \in 1 .. Size - 1

\* The inductive invariant.
IInv ==
    /\ TypeOK /\ TypeInv
    /\ LockInv /\ PortInv /\ StopInv
    /\ WriteInv /\ ReportInv
---------------------------------------------------------------------------
\* The bytes on the wire are finitely many, and none is of a later write.
LEMMA PlacesFinite ==
    ASSUME TypeInv, NEW c
    PROVE  IsFiniteSet(Places(c)) /\ Cardinality(Places(c)) \in Nat
<1>1. Places(c) \subseteq 1 .. Len(wire) /\ Len(wire) \in Nat
  BY DEF Places, TypeInv
<1>2. IsFiniteSet(1 .. Len(wire))
  BY <1>1, FS_Interval
<1>3. IsFiniteSet(Places(c))
  BY <1>1, <1>2, FS_Subset
<1> QED BY <1>3, FS_CardinalityType

\* n places follow place a.
LEMMA IntervalSize ==
    ASSUME NEW a \in Nat, NEW n \in Nat
    PROVE  IsFiniteSet(a + 1 .. a + n) /\ Cardinality(a + 1 .. a + n) = n
<1>1. a + 1 \in Int /\ a + n \in Int
  OBVIOUS
<1>2. /\ IsFiniteSet(a + 1 .. a + n)
      /\ Cardinality(a + 1 .. a + n) =
            IF a + 1 > a + n THEN 0 ELSE (a + n) - (a + 1) + 1
  BY <1>1, FS_Interval
<1> QED BY <1>2

\* Thread v begins no write and goes to no new wait in this step.
KeepsWrite(v) ==
    Writing(v)' => Writing(v) /\ (pc'[v] = "pollout" => pc[v] = "pollout")

\* A step that leaves the writes alone keeps what is known of them.
LEMMA WritesKept ==
    ASSUME IInv, UNCHANGED <<call, left, result, wire>>,
           \A v \in Users : KeepsWrite(v)
    PROVE  TypeInv' /\ WriteInv' /\ ReportInv'
<1>1. \A c : Places(c)' = Places(c)
  BY DEF Places
<1>2. TypeInv'
  BY DEF IInv, TypeInv
<1>3. WriteInv'
  BY <1>1 DEF IInv, WriteInv, KeepsWrite
<1>4. ReportInv'
  BY <1>1 DEF IInv, ReportInv
<1> QED BY <1>2, <1>3, <1>4

\* A write that returns reports what became of its bytes.
LEMMA WriteReturns ==
    ASSUME IInv, NEW u \in Users, Writing(u), NEW r \in {"error", Outcome(u)},
           Return(u, r), UNCHANGED <<call, left, wire>>
    PROVE  /\ TypeInv' /\ WriteInv' /\ ReportInv'
           /\ \A v \in Users : ~Writing(v)'
<1>1. \A c : Places(c)' = Places(c)
  BY DEF Places
<1>2. /\ call[u] = Len(result) /\ Len(result) \in Nat \ {0}
      /\ Cardinality(Places(call[u])) = Size - left[u]
      /\ left[u] \in 0 .. Size
  BY DEF IInv, WriteInv, TypeOK, TypeInv
<1>3. /\ r = "ok" => left[u] = 0
      /\ r = "timeout" => left[u] = Size
      /\ r = "partial" => left[u] \in 1 .. Size - 1
      /\ r \in {"error", "ok", "timeout", "partial"}
  BY <1>2, TtyAssumption DEF Outcome, Sent
<1>4. result' = [result EXCEPT ![call[u]] = r] /\ Len(result') = Len(result)
      /\ result' \in Seq(Results)
  BY <1>2, <1>3 DEF IInv, TypeInv, Return, Results
<1>5. TypeInv'
  BY <1>4 DEF IInv, TypeInv
<1>6. \A v \in Users : ~Writing(v)'
  BY TtyAssumption DEF IInv, LockInv, TypeOK, Return, Writing
<1>7. WriteInv'
  BY <1>4, <1>6 DEF IInv, WriteInv
<1>8. Places(call[u]) = {} <=> left[u] = Size
  BY <1>2, PlacesFinite, FS_EmptySet, TtyAssumption DEF IInv
<1>9. ReportInv'
  <2> SUFFICES ASSUME NEW c \in 1 .. Len(result)
               PROVE  /\ result'[c] = "ok" => Cardinality(Places(c)) = Size
                      /\ result'[c] \in {"refused", "timeout"} => Places(c) = {}
                      /\ result'[c] = "partial" => Cardinality(Places(c)) \in 1 .. Size - 1
    BY <1>1, <1>4 DEF ReportInv
  <2>1. CASE c = call[u]
    BY <2>1, <1>2, <1>3, <1>4, <1>8, TtyAssumption DEF IInv, TypeInv
  <2>2. CASE c # call[u]
    BY <2>2, <1>4 DEF IInv, ReportInv, TypeInv
  <2> QED BY <2>1, <2>2
<1> QED BY <1>5, <1>6, <1>7, <1>9

\* A transport whose constructor has not begun satisfies the invariant.
LEMMA InitInv == Init => IInv
<1> SUFFICES ASSUME Init PROVE IInv
  OBVIOUS
<1> USE DEF Init, Writing
<1>1. TypeOK
  <2>1. /\ pc \in [Users -> {"idle", "join", "release", "write", "pollout"}]
        /\ left \in [Users -> 0 .. Size] /\ late \in [Users -> BOOLEAN]
    BY TtyAssumption
  <2> QED BY <2>1 DEF TypeOK
<1>4. TypeInv
  BY DEF TypeInv
<1>2. LockInv /\ PortInv /\ StopInv
  BY TtyAssumption DEF LockInv, PortInv, StopInv
<1>3. WriteInv /\ ReportInv
  BY DEF WriteInv, ReportInv
<1> QED BY <1>1, <1>2, <1>3, <1>4 DEF IInv

\* Every step preserves the inductive invariant.
LEMMA StepInv == IInv /\ [Next]_vars => IInv'
<1> SUFFICES ASSUME IInv, [Next]_vars PROVE IInv'
  OBVIOUS
<1> USE DEF ports, flags, writes, Writing
<1>1. CASE UNCHANGED vars
  <2>1. TypeInv' /\ WriteInv' /\ ReportInv'
    BY <1>1, WritesKept DEF vars, KeepsWrite
  <2> QED BY <1>1, <2>1 DEF vars, IInv, TypeOK, LockInv, PortInv, StopInv
<1>2. CASE Next
  <2>1. CASE OpenPort
    <3>1. TypeOK'
      BY <2>1 DEF IInv, TypeOK, LockInv, OpenPort, Cleanup
    <3>2. UNCHANGED <<call, left, result, wire>> /\ \A v \in Users : KeepsWrite(v)
      BY <2>1 DEF KeepsWrite, IInv, TypeOK, OpenPort, Cleanup
    <3>3. TypeInv' /\ WriteInv' /\ ReportInv'
      BY <3>2, WritesKept
    <3>4. LockInv'
      BY <2>1, TtyAssumption DEF IInv, TypeOK, LockInv, PortInv, OpenPort, Cleanup
    <3>5. PortInv'
      BY <2>1 DEF IInv, TypeOK, LockInv, PortInv, StopInv, OpenPort, Cleanup
    <3>6. StopInv'
      BY <2>1, TtyAssumption
      DEF IInv, TypeOK, LockInv, PortInv, StopInv, OpenPort, Cleanup
    <3> QED BY <3>1, <3>3, <3>4, <3>5, <3>6 DEF IInv
  <2>2. CASE LockPort
    <3>1. TypeOK'
      BY <2>2 DEF IInv, TypeOK, LockInv, LockPort, Cleanup
    <3>2. UNCHANGED <<call, left, result, wire>> /\ \A v \in Users : KeepsWrite(v)
      BY <2>2 DEF KeepsWrite, IInv, TypeOK, LockPort, Cleanup
    <3>3. TypeInv' /\ WriteInv' /\ ReportInv'
      BY <3>2, WritesKept
    <3>4. LockInv'
      BY <2>2, TtyAssumption DEF IInv, TypeOK, LockInv, PortInv, LockPort, Cleanup
    <3>5. PortInv'
      BY <2>2 DEF IInv, TypeOK, LockInv, PortInv, StopInv, LockPort, Cleanup
    <3>6. StopInv'
      BY <2>2, TtyAssumption
      DEF IInv, TypeOK, LockInv, PortInv, StopInv, LockPort, Cleanup
    <3> QED BY <3>1, <3>3, <3>4, <3>5, <3>6 DEF IInv
  <2>3. CASE Configure
    <3>1. TypeOK'
      BY <2>3 DEF IInv, TypeOK, LockInv, Configure, Cleanup
    <3>2. UNCHANGED <<call, left, result, wire>> /\ \A v \in Users : KeepsWrite(v)
      BY <2>3 DEF KeepsWrite, IInv, TypeOK, Configure, Cleanup
    <3>3. TypeInv' /\ WriteInv' /\ ReportInv'
      BY <3>2, WritesKept
    <3>4. LockInv'
      BY <2>3, TtyAssumption DEF IInv, TypeOK, LockInv, PortInv, Configure, Cleanup
    <3>5. PortInv'
      BY <2>3 DEF IInv, TypeOK, LockInv, PortInv, StopInv, Configure, Cleanup
    <3>6. StopInv'
      BY <2>3, TtyAssumption
      DEF IInv, TypeOK, LockInv, PortInv, StopInv, Configure, Cleanup
    <3> QED BY <3>1, <3>3, <3>4, <3>5, <3>6 DEF IInv
  <2>4. ASSUME NEW u \in Users, Start(u)
        PROVE  IInv'
    <3>1. TypeOK'
      BY <2>4 DEF IInv, TypeOK, LockInv, Start, Ready, StopBody
    <3>2. UNCHANGED <<call, left, result, wire>> /\ \A v \in Users : KeepsWrite(v)
      BY <2>4 DEF KeepsWrite, IInv, TypeOK, Start, Ready, StopBody
    <3>3. TypeInv' /\ WriteInv' /\ ReportInv'
      BY <3>2, WritesKept
    <3>4. LockInv'
      BY <2>4, TtyAssumption
      DEF IInv, TypeOK, LockInv, PortInv, Start, Ready, StopBody
    <3>5. PortInv'
      BY <2>4 DEF IInv, TypeOK, LockInv, PortInv, StopInv, Start, Ready, StopBody
    <3>6. StopInv'
      BY <2>4, TtyAssumption
      DEF IInv, TypeOK, LockInv, PortInv, StopInv, Start, Ready, StopBody
    <3> QED BY <3>1, <3>3, <3>4, <3>5, <3>6 DEF IInv
  <2>5. ASSUME NEW u \in Users, Stop(u)
        PROVE  IInv'
    <3>1. TypeOK'
      BY <2>5 DEF IInv, TypeOK, LockInv, Stop, Ready, StopBody
    <3>2. UNCHANGED <<call, left, result, wire>> /\ \A v \in Users : KeepsWrite(v)
      BY <2>5 DEF KeepsWrite, IInv, TypeOK, Stop, Ready, StopBody
    <3>3. TypeInv' /\ WriteInv' /\ ReportInv'
      BY <3>2, WritesKept
    <3>4. LockInv'
      BY <2>5, TtyAssumption DEF IInv, TypeOK, LockInv, PortInv, Stop, Ready, StopBody
    <3>5. PortInv'
      BY <2>5 DEF IInv, TypeOK, LockInv, PortInv, StopInv, Stop, Ready, StopBody
    <3>6. StopInv'
      BY <2>5, TtyAssumption
      DEF IInv, TypeOK, LockInv, PortInv, StopInv, Stop, Ready, StopBody
    <3> QED BY <3>1, <3>3, <3>4, <3>5, <3>6 DEF IInv
  <2>6. ASSUME NEW u \in Users, Join(u)
        PROVE  IInv'
    <3>1. TypeOK'
      BY <2>6 DEF IInv, TypeOK, LockInv, Join
    <3>2. UNCHANGED <<call, left, result, wire>> /\ \A v \in Users : KeepsWrite(v)
      BY <2>6 DEF KeepsWrite, IInv, TypeOK, Join
    <3>3. TypeInv' /\ WriteInv' /\ ReportInv'
      BY <3>2, WritesKept
    <3>4. LockInv'
      BY <2>6, TtyAssumption DEF IInv, TypeOK, LockInv, PortInv, Join
    <3>5. PortInv'
      BY <2>6 DEF IInv, TypeOK, LockInv, PortInv, StopInv, Join
    <3>6. StopInv'
      BY <2>6, TtyAssumption DEF IInv, TypeOK, LockInv, PortInv, StopInv, Join
    <3> QED BY <3>1, <3>3, <3>4, <3>5, <3>6 DEF IInv
  <2>7. ASSUME NEW u \in Users, Release(u)
        PROVE  IInv'
    <3>1. TypeOK'
      BY <2>7 DEF IInv, TypeOK, LockInv, Release, Cleanup
    <3>2. UNCHANGED <<call, left, result, wire>> /\ \A v \in Users : KeepsWrite(v)
      BY <2>7 DEF KeepsWrite, IInv, TypeOK, Release, Cleanup
    <3>3. TypeInv' /\ WriteInv' /\ ReportInv'
      BY <3>2, WritesKept
    <3>4. LockInv'
      BY <2>7, TtyAssumption DEF IInv, TypeOK, LockInv, PortInv, Release, Cleanup
    <3>5. PortInv'
      BY <2>7 DEF IInv, TypeOK, LockInv, PortInv, StopInv, Release, Cleanup
    <3>6. StopInv'
      BY <2>7, TtyAssumption
      DEF IInv, TypeOK, LockInv, PortInv, StopInv, Release, Cleanup
    <3> QED BY <3>1, <3>3, <3>4, <3>5, <3>6 DEF IInv
  <2>8. ASSUME NEW u \in Users, Send(u)
        PROVE  IInv'
    <3>4. LockInv' /\ PortInv' /\ StopInv'
      BY <2>8, TtyAssumption
      DEF IInv, TypeOK, LockInv, PortInv, StopInv, Send, Ready, Unchanged
    <3>a. CASE stopping \/ ~started \/ ~fd
      <4>1. /\ result' = Append(result, "refused") /\ Len(result') = Len(result) + 1
            /\ \A c \in 1 .. Len(result) : result'[c] = result[c]
            /\ result'[Len(result) + 1] = "refused" /\ result' \in Seq(Results)
            /\ UNCHANGED <<wire, pc, call, left>> /\ Len(result) \in Nat
        <5>1. result' = Append(result, "refused") /\ UNCHANGED <<wire, pc, call, left>>
          BY <2>8, <3>a DEF Send
        <5>2. result \in Seq(Results) /\ "refused" \in Results
          BY DEF IInv, TypeInv, Results
        <5> QED BY <5>1, <5>2, AppendProperties, LenProperties
      <4>2. \A v \in Users : ~Writing(v)
        BY <2>8, TtyAssumption DEF IInv, LockInv, Send
      <4>3. Places(Len(result) + 1) = {} /\ \A c : Places(c)' = Places(c)
        BY <4>1 DEF IInv, WriteInv, TypeInv, Places
      <4>4. TypeOK' /\ TypeInv'
        BY <2>8, <4>1, <4>2 DEF IInv, TypeOK, TypeInv, Send, Unchanged
      <4>5. WriteInv'
        BY <4>1, <4>2 DEF IInv, WriteInv, TypeInv
      <4>6. ReportInv'
        BY <4>1, <4>3 DEF IInv, ReportInv
      <4> QED BY <3>4, <4>4, <4>5, <4>6 DEF IInv
    <3>b. CASE ~(stopping \/ ~started \/ ~fd)
      <4>1. /\ result' = Append(result, "pending") /\ Len(result') = Len(result) + 1
            /\ \A c \in 1 .. Len(result) : result'[c] = result[c]
            /\ result'[Len(result) + 1] = "pending" /\ result' \in Seq(Results)
            /\ wire' = wire /\ Len(result) \in Nat
        <5>1. result' = Append(result, "pending") /\ wire' = wire
          BY <2>8, <3>b DEF Send
        <5>2. result \in Seq(Results) /\ "pending" \in Results
          BY DEF IInv, TypeInv, Results
        <5> QED BY <5>1, <5>2, AppendProperties, LenProperties
      <4>2. \A v \in Users : ~Writing(v)
        BY <2>8, TtyAssumption DEF IInv, LockInv, Send
      <4>3. Places(Len(result) + 1) = {} /\ \A c : Places(c)' = Places(c)
        BY <4>1 DEF IInv, WriteInv, TypeInv, Places
      <4>4. /\ call' = [call EXCEPT ![u] = Len(result) + 1]
            /\ left' = [left EXCEPT ![u] = Size] /\ late' = [late EXCEPT ![u] = FALSE]
            /\ pc' = [pc EXCEPT ![u] = "write"] /\ ioMutex' = u
        BY <2>8, <3>b DEF Send
      <4>5. TypeOK' /\ TypeInv'
        BY <2>8, <4>1, <4>2, <4>4, TtyAssumption
        DEF IInv, TypeOK, TypeInv, Send, Unchanged
      <4>6. WriteInv'
        <5>1. \A v \in Users : Writing(v)' => v = u
          BY <4>2, <4>4 DEF IInv, TypeOK
        <5>2. /\ call'[u] = Len(result') /\ result'[call'[u]] = "pending"
              /\ left'[u] = Size /\ pc'[u] = "write"
          BY <4>1, <4>4 DEF IInv, TypeInv, TypeOK
        <5>3. Cardinality(Places(call[u]))' = Size - left'[u]
          <6>1. Places(call[u])' = {}
            BY <4>1, <5>2 DEF IInv, WriteInv, TypeInv, Places
          <6> QED BY <5>2, <6>1, FS_EmptySet, TtyAssumption
        <5>4. /\ \A i \in 1 .. Len(wire') : wire'[i] \in 1 .. Len(result')
              /\ \A i, j \in 1 .. Len(wire') : i < j => wire'[i] <= wire'[j]
          BY <4>1 DEF IInv, WriteInv, TypeInv
        <5> QED BY <5>1, <5>2, <5>3, <5>4 DEF WriteInv
      <4>7. ReportInv'
        BY <4>1, <4>3 DEF IInv, ReportInv, TypeInv
      <4> QED BY <3>4, <4>5, <4>6, <4>7 DEF IInv
    <3> QED BY <3>a, <3>b
  <2>9. ASSUME NEW u \in Users, LoopEnds(u)
        PROVE  IInv'
    <3>4. LockInv' /\ PortInv' /\ StopInv'
      BY <2>9, TtyAssumption
      DEF IInv, TypeOK, LockInv, PortInv, StopInv, LoopEnds, OverBudget, Return,
          Unchanged
    <3>1. TypeOK'
      BY <2>9, TtyAssumption
      DEF IInv, TypeOK, TypeInv, LockInv, WriteInv, LoopEnds, OverBudget, Return,
          Unchanged
    <3>3. TypeInv' /\ WriteInv' /\ ReportInv'
      BY <2>9, WriteReturns DEF LoopEnds, OverBudget, Return, Unchanged
    <3> QED BY <3>1, <3>3, <3>4 DEF IInv
  <2>10. ASSUME NEW u \in Users, WriteSome(u)
        PROVE  IInv'
    <3>4. LockInv' /\ PortInv' /\ StopInv'
      BY <2>10, TtyAssumption
      DEF IInv, TypeOK, LockInv, PortInv, StopInv, WriteSome, AtWrite, Unchanged
    <3>a. PICK n \in 1 .. left[u] :
               /\ left' = [left EXCEPT ![u] = @ - n]
               /\ wire' = wire \o [i \in 1 .. n |-> call[u]]
      BY <2>10 DEF WriteSome
    <3>b. /\ n \in Nat \ {0} /\ left[u] \in 0 .. Size
          /\ call[u] = Len(result) /\ Len(result) \in Nat /\ Len(wire) \in Nat
          /\ UNCHANGED <<pc, call, result>> /\ Writing(u)
          /\ \A v \in Users : Writing(v) => v = u
      BY <2>10, <3>a, TtyAssumption
      DEF IInv, TypeOK, TypeInv, LockInv, WriteInv, WriteSome, AtWrite
    <3>c. /\ wire' \in Seq(Nat) /\ Len(wire') = Len(wire) + n
          /\ \A i \in 1 .. Len(wire) : wire'[i] = wire[i]
          /\ \A i \in Len(wire) + 1 .. Len(wire) + n : wire'[i] = call[u]
      BY <3>a, <3>b DEF IInv, TypeInv
    <3>d. \A c : c # call[u] => Places(c)' = Places(c)
      BY SMTT(30), <3>b, <3>c DEF Places
    <3>e. Cardinality(Places(call[u]))' = Cardinality(Places(call[u])) + n
      <4> DEFINE New == Len(wire) + 1 .. Len(wire) + n
      <4>1. Places(call[u])' = Places(call[u]) \cup New
        <5>1. \A i \in 1 .. Len(wire) + n : i \in 1 .. Len(wire) \/ i \in New
          BY <3>b
        <5>2. \A i \in New : i \in 1 .. Len(wire) + n
          BY <3>b
        <5>3. \A i \in 1 .. Len(wire) : i \in 1 .. Len(wire) + n
          BY <3>b
        <5> QED BY <3>b, <3>c, <5>1, <5>2, <5>3 DEF Places
      <4>2. Places(call[u]) \cap New = {}
        BY <3>b DEF Places
      <4>3. IsFiniteSet(New) /\ Cardinality(New) = n
        BY <3>b, IntervalSize
      <4>4. /\ IsFiniteSet(Places(call[u])) /\ Cardinality(Places(call[u])) \in Nat
        BY PlacesFinite DEF IInv
      <4> HIDE DEF New
      <4>5. Cardinality(Places(call[u]) \cup New) = Cardinality(Places(call[u])) + n - 0
        <5>1. Cardinality(Places(call[u]) \cup New) =
                Cardinality(Places(call[u])) + Cardinality(New)
                  - Cardinality(Places(call[u]) \cap New)
          BY <4>3, <4>4, FS_Union
        <5> QED BY <4>2, <4>3, <5>1, FS_EmptySet
      <4> QED BY <4>1, <4>4, <4>5, <3>b
    <3>h. left' \in [Users -> 0 .. Size]
      BY <3>a, <3>b, TtyAssumption DEF IInv, TypeOK
    <3>1. TypeOK' /\ TypeInv'
      BY <2>10, <3>b, <3>c, <3>h DEF IInv, TypeOK, TypeInv, WriteSome, Unchanged
    <3>f. WriteInv'
      <4>1. \A v \in Users : Writing(v)' => pc'[v] = "write" /\ v = u
        BY <2>10, <3>b DEF WriteSome, AtWrite
      <4>2. Cardinality(Places(call[u]))' = Size - left'[u]
        BY <3>a, <3>b, <3>e, TtyAssumption DEF IInv, WriteInv, TypeOK
      <4>3. \A i \in 1 .. Len(wire') : wire'[i] \in 1 .. Len(result')
        <5>1. \A i \in 1 .. Len(wire) : wire[i] \in 1 .. Len(result)
          BY DEF IInv, WriteInv
        <5>2. Len(result) \in 1 .. Len(result)
          BY <3>b DEF IInv, TypeOK
        <5>3. \A i \in 1 .. Len(wire') :
                 i \in 1 .. Len(wire) \/ i \in Len(wire) + 1 .. Len(wire) + n
          BY <3>b, <3>c
        <5> QED BY <3>b, <3>c, <5>1, <5>2, <5>3
      <4>4. \A i, j \in 1 .. Len(wire') : i < j => wire'[i] <= wire'[j]
        <5> SUFFICES ASSUME NEW i \in 1 .. Len(wire'), NEW j \in 1 .. Len(wire'), i < j
                     PROVE  wire'[i] <= wire'[j]
          OBVIOUS
        <5>1. CASE j \in 1 .. Len(wire)
          <6>1. i \in 1 .. Len(wire)
            BY <3>b, <3>c, <5>1
          <6> QED BY <3>c, <5>1, <6>1 DEF IInv, WriteInv
        <5>2. CASE j \notin 1 .. Len(wire)
          <6>1. wire'[j] = Len(result')
            BY <3>b, <3>c, <5>2
          <6> QED BY <3>b, <4>3, <6>1
        <5> QED BY <5>1, <5>2
      <4> QED BY <3>b, <4>1, <4>2, <4>3, <4>4 DEF IInv, WriteInv
    <3>g. ReportInv'
      BY <3>b, <3>d DEF IInv, WriteInv, ReportInv
    <3>3. WriteInv' /\ ReportInv'
      BY <3>f, <3>g
    <3> QED BY <3>1, <3>3, <3>4 DEF IInv
  <2>11. ASSUME NEW u \in Users, WriteInterrupted(u)
        PROVE  IInv'
    <3>1. TypeOK'
      BY <2>11
      DEF IInv, TypeOK, LockInv, WriteInterrupted, AtWrite, Interrupted, Unchanged
    <3>2. UNCHANGED <<call, left, result, wire>> /\ \A v \in Users : KeepsWrite(v)
      BY <2>11 DEF KeepsWrite, IInv, TypeOK, WriteInterrupted, AtWrite, Interrupted, Unchanged
    <3>3. TypeInv' /\ WriteInv' /\ ReportInv'
      BY <3>2, WritesKept
    <3>4. LockInv'
      BY <2>11, TtyAssumption
      DEF IInv, TypeOK, LockInv, PortInv, WriteInterrupted, AtWrite, Interrupted,
          Unchanged
    <3>5. PortInv'
      BY <2>11
      DEF IInv, TypeOK, LockInv, PortInv, StopInv, WriteInterrupted, AtWrite,
          Interrupted, Unchanged
    <3>6. StopInv'
      BY <2>11, TtyAssumption
      DEF IInv, TypeOK, LockInv, PortInv, StopInv, WriteInterrupted, AtWrite,
          Interrupted, Unchanged
    <3> QED BY <3>1, <3>3, <3>4, <3>5, <3>6 DEF IInv
  <2>12. ASSUME NEW u \in Users, WriteWouldBlock(u)
        PROVE  IInv'
    <3>4. LockInv' /\ PortInv' /\ StopInv'
      BY <2>12, TtyAssumption
      DEF IInv, TypeOK, LockInv, PortInv, StopInv, WriteWouldBlock, AtWrite, Return,
          Unchanged
    <3>1. TypeOK'
      <4>1. CASE late[u]
        BY <2>12, <4>1, WriteReturns
        DEF IInv, TypeOK, WriteWouldBlock, AtWrite, Return, Unchanged
      <4>2. CASE ~late[u]
        BY <2>12, <4>2 DEF IInv, TypeOK, WriteWouldBlock, AtWrite, Unchanged
      <4> QED BY <4>1, <4>2
    <3>a. ASSUME late[u] PROVE TypeInv' /\ WriteInv' /\ ReportInv'
      BY <2>12, <3>a, WriteReturns DEF WriteWouldBlock, AtWrite
    <3>b. ASSUME ~late[u] PROVE TypeInv' /\ WriteInv' /\ ReportInv'
      <4>1. UNCHANGED <<call, left, result, wire>>
        BY <2>12, <3>b DEF WriteWouldBlock, AtWrite, Return, Unchanged
      <4>2. \A c : Places(c)' = Places(c)
        BY <4>1 DEF Places
      <4>3. TypeInv' /\ ReportInv'
        BY <4>1, <4>2 DEF IInv, TypeInv, ReportInv
      <4>4. WriteInv'
        BY <2>12, <3>b, <4>1, <4>2
        DEF IInv, TypeOK, WriteInv, WriteWouldBlock, AtWrite, Return, Unchanged
      <4> QED BY <4>3, <4>4
    <3>3. TypeInv' /\ WriteInv' /\ ReportInv'
      BY <3>a, <3>b
    <3> QED BY <3>1, <3>3, <3>4 DEF IInv
  <2>13. ASSUME NEW u \in Users, WriteFails(u)
        PROVE  IInv'
    <3>4. LockInv' /\ PortInv' /\ StopInv'
      BY <2>13, TtyAssumption
      DEF IInv, TypeOK, LockInv, PortInv, StopInv, WriteFails, AtWrite, Return,
          Unchanged
    <3>1. TypeOK'
      BY <2>13, TtyAssumption
      DEF IInv, TypeOK, TypeInv, LockInv, WriteInv, WriteFails, AtWrite, Return,
          Unchanged
    <3>3. TypeInv' /\ WriteInv' /\ ReportInv'
      BY <2>13, WriteReturns DEF WriteFails, AtWrite, Return, Unchanged
    <3> QED BY <3>1, <3>3, <3>4 DEF IInv
  <2>14. ASSUME NEW u \in Users, PollOut(u)
        PROVE  IInv'
    <3>4. LockInv' /\ PortInv' /\ StopInv'
      BY <2>14, TtyAssumption
      DEF IInv, TypeOK, LockInv, PortInv, StopInv, PollOut, Interrupted, Return,
          Unchanged
    <3>1. TypeOK'
      <4>1. CASE Return(u, Outcome(u))
        BY <2>14, <4>1, WriteReturns DEF IInv, TypeOK, PollOut, Return, Unchanged
      <4>2. CASE pc' = [pc EXCEPT ![u] = "write"] /\ UNCHANGED <<ioMutex, result>>
        BY <2>14, <4>2 DEF IInv, TypeOK, PollOut, Unchanged
      <4> QED BY <2>14, <4>1, <4>2 DEF PollOut
    <3>a. ASSUME Return(u, Outcome(u)) PROVE TypeInv' /\ WriteInv' /\ ReportInv'
      BY <2>14, <3>a, WriteReturns DEF PollOut
    <3>b. ASSUME pc' = [pc EXCEPT ![u] = "write"] /\ UNCHANGED <<ioMutex, result>>
          PROVE  TypeInv' /\ WriteInv' /\ ReportInv'
      BY <2>14, <3>b, WritesKept DEF IInv, TypeOK, PollOut, KeepsWrite
    <3>3. TypeInv' /\ WriteInv' /\ ReportInv'
      BY <2>14, <3>a, <3>b DEF PollOut
    <3> QED BY <3>1, <3>3, <3>4 DEF IInv
  <2>15. ASSUME NEW u \in Users, Deadline(u)
        PROVE  IInv'
    <3>1. TypeOK'
      BY <2>15 DEF IInv, TypeOK, LockInv, Deadline, Unchanged
    <3>2. UNCHANGED <<call, left, result, wire>> /\ \A v \in Users : KeepsWrite(v)
      BY <2>15 DEF KeepsWrite, IInv, TypeOK, Deadline, Unchanged
    <3>3. TypeInv' /\ WriteInv' /\ ReportInv'
      BY <3>2, WritesKept
    <3>4. LockInv'
      BY <2>15, TtyAssumption DEF IInv, TypeOK, LockInv, PortInv, Deadline, Unchanged
    <3>5. PortInv'
      BY <2>15 DEF IInv, TypeOK, LockInv, PortInv, StopInv, Deadline, Unchanged
    <3>6. StopInv'
      BY <2>15, TtyAssumption
      DEF IInv, TypeOK, LockInv, PortInv, StopInv, Deadline, Unchanged
    <3> QED BY <3>1, <3>3, <3>4, <3>5, <3>6 DEF IInv
  <2>16. CASE PumpLoop
    <3>1. TypeOK'
      BY <2>16 DEF IInv, TypeOK, LockInv, PumpLoop, WorkerTo
    <3>2. UNCHANGED <<call, left, result, wire>> /\ \A v \in Users : KeepsWrite(v)
      BY <2>16 DEF KeepsWrite, IInv, TypeOK, PumpLoop, WorkerTo
    <3>3. TypeInv' /\ WriteInv' /\ ReportInv'
      BY <3>2, WritesKept
    <3>4. LockInv'
      BY <2>16, TtyAssumption DEF IInv, TypeOK, LockInv, PortInv, PumpLoop, WorkerTo
    <3>5. PortInv'
      BY <2>16 DEF IInv, TypeOK, LockInv, PortInv, StopInv, PumpLoop, WorkerTo
    <3>6. StopInv'
      BY <2>16, TtyAssumption
      DEF IInv, TypeOK, LockInv, PortInv, StopInv, PumpLoop, WorkerTo
    <3> QED BY <3>1, <3>3, <3>4, <3>5, <3>6 DEF IInv
  <2>17. CASE PumpPoll
    <3>1. TypeOK'
      BY <2>17 DEF IInv, TypeOK, LockInv, PumpPoll, WorkerTo, Interrupted
    <3>2. UNCHANGED <<call, left, result, wire>> /\ \A v \in Users : KeepsWrite(v)
      BY <2>17 DEF KeepsWrite, IInv, TypeOK, PumpPoll, WorkerTo, Interrupted
    <3>3. TypeInv' /\ WriteInv' /\ ReportInv'
      BY <3>2, WritesKept
    <3>4. LockInv'
      BY <2>17, TtyAssumption
      DEF IInv, TypeOK, LockInv, PortInv, PumpPoll, WorkerTo, Interrupted
    <3>5. PortInv'
      BY <2>17
      DEF IInv, TypeOK, LockInv, PortInv, StopInv, PumpPoll, WorkerTo, Interrupted
    <3>6. StopInv'
      BY <2>17, TtyAssumption
      DEF IInv, TypeOK, LockInv, PortInv, StopInv, PumpPoll, WorkerTo, Interrupted
    <3> QED BY <3>1, <3>3, <3>4, <3>5, <3>6 DEF IInv
  <2>18. CASE PumpRead
    <3>1. TypeOK'
      BY <2>18 DEF IInv, TypeOK, LockInv, PumpRead, WorkerTo
    <3>2. UNCHANGED <<call, left, result, wire>> /\ \A v \in Users : KeepsWrite(v)
      BY <2>18 DEF KeepsWrite, IInv, TypeOK, PumpRead, WorkerTo
    <3>3. TypeInv' /\ WriteInv' /\ ReportInv'
      BY <3>2, WritesKept
    <3>4. LockInv'
      BY <2>18, TtyAssumption DEF IInv, TypeOK, LockInv, PortInv, PumpRead, WorkerTo
    <3>5. PortInv'
      BY <2>18 DEF IInv, TypeOK, LockInv, PortInv, StopInv, PumpRead, WorkerTo
    <3>6. StopInv'
      BY <2>18, TtyAssumption
      DEF IInv, TypeOK, LockInv, PortInv, StopInv, PumpRead, WorkerTo
    <3> QED BY <3>1, <3>3, <3>4, <3>5, <3>6 DEF IInv
  <2>19. CASE PumpCallback
    <3>1. TypeOK'
      BY <2>19 DEF IInv, TypeOK, LockInv, PumpCallback, WorkerTo
    <3>2. UNCHANGED <<call, left, result, wire>> /\ \A v \in Users : KeepsWrite(v)
      BY <2>19 DEF KeepsWrite, IInv, TypeOK, PumpCallback, WorkerTo
    <3>3. TypeInv' /\ WriteInv' /\ ReportInv'
      BY <3>2, WritesKept
    <3>4. LockInv'
      BY <2>19, TtyAssumption
      DEF IInv, TypeOK, LockInv, PortInv, PumpCallback, WorkerTo
    <3>5. PortInv'
      BY <2>19 DEF IInv, TypeOK, LockInv, PortInv, StopInv, PumpCallback, WorkerTo
    <3>6. StopInv'
      BY <2>19, TtyAssumption
      DEF IInv, TypeOK, LockInv, PortInv, StopInv, PumpCallback, WorkerTo
    <3> QED BY <3>1, <3>3, <3>4, <3>5, <3>6 DEF IInv
  <2>20. CASE Quiet
    <3>1. TypeOK'
      BY <2>20 DEF IInv, TypeOK, LockInv, Quiet, vars
    <3>2. UNCHANGED <<call, left, result, wire>> /\ \A v \in Users : KeepsWrite(v)
      BY <2>20 DEF KeepsWrite, IInv, TypeOK, Quiet, vars
    <3>3. TypeInv' /\ WriteInv' /\ ReportInv'
      BY <3>2, WritesKept
    <3>4. LockInv'
      BY <2>20, TtyAssumption DEF IInv, TypeOK, LockInv, PortInv, Quiet, vars
    <3>5. PortInv'
      BY <2>20 DEF IInv, TypeOK, LockInv, PortInv, StopInv, Quiet, vars
    <3>6. StopInv'
      BY <2>20, TtyAssumption DEF IInv, TypeOK, LockInv, PortInv, StopInv, Quiet, vars
    <3> QED BY <3>1, <3>3, <3>4, <3>5, <3>6 DEF IInv
  <2> QED
    BY <2>1, <2>2, <2>3, <2>4, <2>5, <2>6, <2>7, <2>8, <2>9, <2>10, <2>11, <2>12,
       <2>13, <2>14, <2>15, <2>16, <2>17, <2>18, <2>19, <2>20, <1>2
    DEF Next, UserStep, WorkerStep
<1> QED BY <1>1, <1>2

\* The inductive invariant holds throughout.
LEMMA Invariance == Spec => []IInv
BY InitInv, StepInv, PTL DEF Spec
---------------------------------------------------------------------------
\* The locks are held by who uses what they guard, and no thread polls, reads
\* or writes a descriptor that stop() has closed (tty.cpp:146).
THEOREM PortIsNotUsedAfterClose == Spec => []Safety
<1>1. IInv => Safety
  BY TtyAssumption
  DEF IInv, Safety, NoUseAfterClose, PortInv, StopInv, LockInv, TypeOK
<1> QED BY Invariance, <1>1, PTL

\* A write's bytes stay together and it reports what became of them
\* (tty.cpp:108 to 143).
THEOREM WritesAreExact == Spec => []WritesExact
<1>1. IInv => WritesExact
  <2> SUFFICES ASSUME IInv,
                      NEW i \in 1 .. Len(wire), NEW j \in 1 .. Len(wire),
                      NEW k \in 1 .. Len(wire), i < j, j < k, wire[i] = wire[k]
               PROVE  wire[j] = wire[i]
    BY DEF IInv, ReportInv, WritesExact
  <2>1. wire[i] \in Nat /\ wire[j] \in Nat /\ wire[k] \in Nat
    BY DEF IInv, TypeInv
  <2>2. wire[i] <= wire[j] /\ wire[j] <= wire[k]
    BY DEF IInv, WriteInv
  <2> QED BY <2>1, <2>2
<1> QED BY Invariance, <1>1, PTL

\* A failed constructor and a finished stop() leave the port as they found
\* it (tty.cpp:263).
THEOREM PortIsReturned == Spec => []PortReturned
<1>1. IInv => PortReturned
  BY DEF IInv, PortReturned, PortInv, StopInv
<1> QED BY Invariance, <1>1, PTL

\* The tty transport implements the contract of transport.hpp.
THEOREM TtyKeepsContract == Spec => ContractHeld
<1>1. Init => Contract!Init
  BY DEF Init, Contract!Init, Writing
<1>2. IInv /\ [Next]_vars => [Contract!Next]_(Contract!contractVars)
  <2> SUFFICES ASSUME IInv, [Next]_vars
               PROVE  [Contract!Next]_(Contract!contractVars)
    OBVIOUS
  <2> DEFINE life == IF closed \/ phase = "dead" THEN "closed"
                     ELSE IF started THEN "running" ELSE "new"
             sending == {v \in Users : Writing(v)}
             delivering == worker \in {"deliver", "report"}
             Stutter == UNCHANGED <<life, sending, delivering>>
  <2> USE DEF ports, flags, writes, Writing
  <2>1. ASSUME OpenPort \/ LockPort \/ Configure
        PROVE  Stutter \/ Contract!Stopped
    <3>1. sending = {} /\ ~delivering /\ UNCHANGED <<sending, delivering>>
      BY <2>1, TtyAssumption
      DEF IInv, TypeOK, LockInv, PortInv, OpenPort, LockPort, Configure
    <3>2. life = "new" /\ life' \in {"new", "closed"}
      BY <2>1 DEF IInv, PortInv, OpenPort, LockPort, Configure
    <3> QED BY <3>1, <3>2 DEF Contract!Stopped
  <2>2. ASSUME NEW u \in Users, Start(u)
        PROVE  Contract!Start
    <3>1. life = "new" /\ life' = "running"
      BY <2>2 DEF IInv, PortInv, Start, Ready
    <3>2. UNCHANGED <<sending, delivering>>
      BY <2>2 DEF IInv, TypeOK, PortInv, Start, StopBody
    <3> QED BY <3>1, <3>2 DEF Contract!Start
  <2>3. ASSUME NEW u \in Users, Send(u)
        PROVE  Stutter \/ Contract!BeginSend(u)
    <3>1. UNCHANGED <<life, delivering>>
      BY <2>3 DEF Send, Unchanged
    <3>2. sending = {}
      BY <2>3, TtyAssumption DEF IInv, LockInv, Send
    <3>3. CASE stopping \/ ~started \/ ~fd
      BY <2>3, <3>1, <3>3 DEF Send
    <3>4. CASE ~(stopping \/ ~started \/ ~fd)
      <4>1. life = "running"
        BY <2>3, <3>4 DEF IInv, PortInv, Send, Ready
      <4>2. sending' = {u}
        BY <2>3, <3>2, <3>4 DEF IInv, TypeOK, Send
      <4> QED BY <3>1, <3>2, <4>1, <4>2 DEF Contract!BeginSend
    <3> QED BY <3>3, <3>4
  <2>4. ASSUME NEW u \in Users,
               \/ LoopEnds(u) \/ WriteSome(u) \/ WriteInterrupted(u)
               \/ WriteWouldBlock(u) \/ WriteFails(u) \/ PollOut(u) \/ Deadline(u)
        PROVE  Stutter \/ Contract!EndSend(u)
    <3>1. Writing(u) /\ UNCHANGED <<life, delivering>>
      BY <2>4
      DEF LoopEnds, WriteSome, WriteInterrupted, WriteWouldBlock, WriteFails,
          PollOut, Deadline, AtWrite, Unchanged
    <3>2. sending = {u}
      BY <3>1, TtyAssumption DEF IInv, LockInv
    <3>3. pc' = pc \/ \E label \in {"idle", "write", "pollout"} :
                         pc' = [pc EXCEPT ![u] = label]
      BY <2>4
      DEF LoopEnds, WriteSome, WriteInterrupted, WriteWouldBlock, WriteFails,
          PollOut, Deadline, Return
    <3>4. sending' = {} \/ sending' = sending
      BY <3>1, <3>2, <3>3 DEF IInv, TypeOK
    <3> QED BY <3>1, <3>2, <3>4 DEF Contract!EndSend
  <2>5. ASSUME NEW u \in Users, Stop(u) \/ Join(u)
        PROVE  Stutter
    <3>1. UNCHANGED <<life, delivering>>
      BY <2>5 DEF Stop, Join
    <3>2. sending' = sending
      BY <2>5 DEF IInv, TypeOK, Stop, StopBody, Join
    <3> QED BY <3>1, <3>2
  <2>6. ASSUME NEW u \in Users, Release(u)
        PROVE  Contract!Stopped
    <3>1. sending = {} /\ sending' = {}
      BY <2>6, TtyAssumption DEF IInv, TypeOK, LockInv, Release
    <3>2. ~delivering /\ ~delivering'
      BY <2>6 DEF IInv, StopInv, Release
    <3>3. life # "closed" /\ life' = "closed"
      BY <2>6, TtyAssumption DEF IInv, PortInv, StopInv, LockInv, Release
    <3> QED BY <3>1, <3>2, <3>3 DEF Contract!Stopped
  <2>7. CASE WorkerStep
    <3>1. UNCHANGED <<life, sending>>
      BY <2>7 DEF WorkerStep, PumpLoop, PumpPoll, PumpRead, PumpCallback, WorkerTo
    <3>2. life = "running"
      BY <2>7
      DEF IInv, PortInv, StopInv, WorkerStep, PumpLoop, PumpPoll, PumpRead, PumpCallback
    <3> QED
      BY <3>1, <3>2 DEF Contract!Next, Contract!BeginDelivery, Contract!EndDelivery,
         Contract!contractVars
  <2>8. CASE Quiet \/ UNCHANGED vars
    BY <2>8 DEF Quiet, vars, Contract!contractVars
  <2> QED
    BY <2>1, <2>2, <2>3, <2>4, <2>5, <2>6, <2>7, <2>8
    DEF Next, UserStep, Contract!Next, Contract!contractVars
<1> QED BY Invariance, <1>1, <1>2, PTL DEF Spec, ContractHeld, Contract!Spec
============================================================================
