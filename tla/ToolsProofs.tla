---------------------------- MODULE ToolsProofs ----------------------------
(***************************************************************************)
(* Proofs that the SocketCAN bridge accounts for every frame and releases  *)
(* what it acquired, for any batch and queue sizes and any number of       *)
(* frames, that a dry run of a script agrees with the live run, and that   *)
(* SET_CONFIG leaves no configuration but those its list allows.           *)
(***************************************************************************)
EXTENDS MCTools, SequenceTheorems, WellFoundedInduction, TLAPS

StartPcs == {"parse", "interface", "open", "connect", "filter", "create"}
RunPcs == {"loop", "poll", "recv", "send", "join"}
ReleasePcs == {"stop_filter", "disconnect", "close_device", "close_socket"}
IdlePcs == {"parse", "interface", "return", "exit"}
ReaderPcs == {"none", "loop", "read", "wait", "write", "ended"}

PlaceType ==
    /\ main \in StartPcs \cup RunPcs \cup ReleasePcs \cup {"return", "exit"}
    /\ reader \in ReaderPcs

InwardType ==
    /\ queue \in Seq(Nat) /\ batch \in Seq(Nat) /\ iface \in Seq(Nat)
    /\ arrived \in Nat /\ lost \in Nat /\ skipped \in Nat
    /\ toHost \in Nat /\ hostDrops \in Nat /\ overflows \in Nat

OutwardType ==
    /\ messages \in Seq(Nat) /\ bus \in Seq(Nat)
    /\ received \in Nat /\ toBus \in Nat /\ refused \in Nat

\* main holds what its place in the code says, and the reader runs only
\* between its creation and its join.
HeldInv ==
    /\ held \subseteq {"socket", "device", "channel", "filter"}
    /\ "socket" \in held <=> main \notin IdlePcs
    /\ "device" \in held <=> main \notin IdlePcs \cup {"open", "close_socket"}
    /\ "channel" \in held <=>
          main \notin IdlePcs \cup {"open", "close_socket", "connect", "close_device"}
    /\ "filter" \in held <=> main \in RunPcs \cup {"create", "stop_filter"}
    /\ reader \notin {"none", "ended"} => main \in RunPcs

\* Every number in s is smaller than every one in t.
Before(s, t) == \A i \in 1 .. Len(s), j \in 1 .. Len(t) : s[i] < t[j]
Upto(s, n) == \A i \in 1 .. Len(s) : s[i] <= n

\* Frames pass from the queue through the batch to the interface in order.
InwardInv ==
    /\ reader # "write" => batch = <<>>
    /\ Increasing(iface) /\ Increasing(batch) /\ Increasing(queue)
    /\ Before(iface, batch) /\ Before(iface, queue) /\ Before(batch, queue)
    /\ Upto(iface, arrived) /\ Upto(batch, arrived) /\ Upto(queue, arrived)
    /\ Len(iface) = toHost
    /\ toHost + hostDrops + skipped + Len(batch) + Len(queue) + lost = arrived
    /\ lost > 0 => overflow \/ overflows > 0

\* Likewise from the interface to the bus, where one frame more than counted
\* may have gone when the session was lost.
OutwardInv ==
    /\ main \notin {"recv", "send"} => messages = <<>>
    /\ Increasing(bus) /\ Increasing(messages) /\ Before(bus, messages)
    /\ Upto(bus, received) /\ Upto(messages, received)
    /\ toBus + refused + Len(messages) = received
    /\ Len(bus) \in {toBus, toBus + 1} /\ (alive => Len(bus) = toBus)
    /\ ~transmit => bus = <<>> /\ messages = <<>>

\* The inductive invariant of the bridge.
BridgeInv ==
    /\ PlaceType /\ HeldInv
    /\ InwardType /\ InwardInv
    /\ OutwardType /\ OutwardInv
----------------------------------------------------------------------------
\* A stretch of an ordered sequence.
LEMMA PartOf ==
    ASSUME NEW q \in Seq(Nat), NEW m \in 1 .. (Len(q) + 1), NEW n \in (m - 1) .. Len(q)
    PROVE  /\ SubSeq(q, m, n) \in Seq(Nat) /\ Len(SubSeq(q, m, n)) = n - m + 1
           /\ \A i \in 1 .. Len(SubSeq(q, m, n)) : SubSeq(q, m, n)[i] = q[m + i - 1]
           /\ Increasing(q) => Increasing(SubSeq(q, m, n))
           /\ \A t \in Seq(Nat) : Before(t, q) => Before(t, SubSeq(q, m, n))
           /\ \A t \in Seq(Nat) : Before(q, t) => Before(SubSeq(q, m, n), t)
           /\ \A k \in Nat : Upto(q, k) => Upto(SubSeq(q, m, n), k)
<1> DEFINE part == SubSeq(q, m, n)
<1>1. /\ part \in Seq(Nat) /\ Len(part) = n - m + 1
      /\ \A i \in 1 .. Len(part) : part[i] = q[m + i - 1]
  OBVIOUS
<1>2. Len(q) \in Nat /\ \A i \in 1 .. Len(part) : m + i - 1 \in 1 .. Len(q)
  BY <1>1
<1> HIDE DEF part
<1>3. Increasing(q) => Increasing(part)
  <2>1. \A i, j \in 1 .. Len(part) : i < j => m + i - 1 < m + j - 1
    BY <1>1
  <2> QED BY <1>1, <1>2, <2>1 DEF Increasing
<1>4. /\ \A t \in Seq(Nat) : Before(t, q) => Before(t, part)
      /\ \A t \in Seq(Nat) : Before(q, t) => Before(part, t)
      /\ \A k \in Nat : Upto(q, k) => Upto(part, k)
  BY <1>1, <1>2 DEF Before, Upto
<1> QED BY <1>1, <1>3, <1>4 DEF part

\* The lower part of an ordered sequence comes before the upper.
LEMMA PartsInOrder ==
    ASSUME NEW q \in Seq(Nat), NEW n \in 0 .. Len(q), Increasing(q)
    PROVE  Before(SubSeq(q, 1, n), SubSeq(q, n + 1, Len(q)))
<1> DEFINE low == SubSeq(q, 1, n)
           high == SubSeq(q, n + 1, Len(q))
<1>0. Len(q) \in Nat /\ n \in Nat
  OBVIOUS
<1>1. /\ Len(low) = n /\ Len(high) = Len(q) - n
      /\ \A i \in 1 .. Len(low) : low[i] = q[1 + i - 1]
      /\ \A i \in 1 .. Len(high) : high[i] = q[(n + 1) + i - 1]
  BY <1>0, PartOf
<1> HIDE DEF low, high
<1> SUFFICES ASSUME NEW i \in 1 .. Len(low), NEW j \in 1 .. Len(high)
             PROVE  low[i] < high[j]
  BY DEF Before, low, high
<1>2. low[i] = q[i] /\ high[j] = q[n + j]
  <2>1. 1 + i - 1 = i /\ (n + 1) + j - 1 = n + j
    BY SMTT(30), <1>0, <1>1
  <2> QED BY <1>1, <2>1
<1>3. i \in 1 .. Len(q) /\ n + j \in 1 .. Len(q) /\ i < n + j
  BY <1>0, <1>1
<1> QED BY <1>2, <1>3 DEF Increasing

\* What is left of an ordered sequence without its head.
LEMMA TailOf ==
    ASSUME NEW q \in Seq(Nat), q # <<>>
    PROVE  /\ Tail(q) \in Seq(Nat) /\ Len(Tail(q)) = Len(q) - 1
           /\ Head(q) \in Nat /\ Head(q) = q[1] /\ 1 \in 1 .. Len(q)
           /\ Increasing(q) => Increasing(Tail(q)) /\ Before(<<Head(q)>>, Tail(q))
           /\ \A t \in Seq(Nat) : Before(t, q) => Before(t, Tail(q))
           /\ \A t \in Seq(Nat) : Before(q, t) => Before(Tail(q), t)
           /\ \A k \in Nat : Upto(q, k) => Upto(Tail(q), k)
<1>1. /\ Tail(q) \in Seq(Nat) /\ Len(Tail(q)) = Len(q) - 1
      /\ Head(q) \in Nat /\ Head(q) = q[1] /\ 1 \in 1 .. Len(q)
      /\ \A i \in 1 .. Len(Tail(q)) : Tail(q)[i] = q[i + 1]
  OBVIOUS
<1>2. Len(q) \in Nat /\ \A i \in 1 .. Len(Tail(q)) : i + 1 \in 1 .. Len(q) /\ 1 < i + 1
  BY <1>1
<1>3. ASSUME Increasing(q) PROVE Increasing(Tail(q)) /\ Before(<<Head(q)>>, Tail(q))
  <2>1. \A i, j \in 1 .. Len(Tail(q)) : i < j => i + 1 < j + 1
    BY <1>1
  <2>2. Increasing(Tail(q))
    BY <1>1, <1>2, <1>3, <2>1 DEF Increasing
  <2>3. \A j \in 1 .. Len(Tail(q)) : Head(q) < Tail(q)[j]
    BY <1>1, <1>2, <1>3 DEF Increasing
  <2>4. Len(<<Head(q)>>) = 1 /\ <<Head(q)>>[1] = Head(q)
    OBVIOUS
  <2> HIDE DEF Increasing
  <2> QED BY <2>2, <2>3, <2>4 DEF Before
<1>4. /\ \A t \in Seq(Nat) : Before(t, q) => Before(t, Tail(q))
      /\ \A t \in Seq(Nat) : Before(q, t) => Before(Tail(q), t)
      /\ \A k \in Nat : Upto(q, k) => Upto(Tail(q), k)
  BY <1>1, <1>2 DEF Before, Upto
<1> QED BY <1>1, <1>3, <1>4

\* One ordered sequence after another.
LEMMA Joined ==
    ASSUME NEW s \in Seq(Nat), NEW t \in Seq(Nat)
    PROVE  /\ s \o t \in Seq(Nat) /\ Len(s \o t) = Len(s) + Len(t)
           /\ Increasing(s) /\ Increasing(t) /\ Before(s, t) => Increasing(s \o t)
           /\ \A u \in Seq(Nat) : Before(s, u) /\ Before(t, u) => Before(s \o t, u)
           /\ \A u \in Seq(Nat) : Before(u, s) /\ Before(u, t) => Before(u, s \o t)
           /\ \A k \in Nat : Upto(s, k) /\ Upto(t, k) => Upto(s \o t, k)
<1> DEFINE st == s \o t
<1>1. /\ st \in Seq(Nat) /\ Len(st) = Len(s) + Len(t)
      /\ \A i \in 1 .. Len(st) : st[i] = IF i <= Len(s) THEN s[i] ELSE t[i - Len(s)]
  BY ConcatProperties
<1> HIDE DEF st
<1>2. /\ Len(s) \in Nat /\ Len(t) \in Nat
      /\ \A i \in 1 .. Len(st) : i <= Len(s) => i \in 1 .. Len(s) /\ st[i] = s[i]
      /\ \A i \in 1 .. Len(st) :
            i > Len(s) => i - Len(s) \in 1 .. Len(t) /\ st[i] = t[i - Len(s)]
      /\ \A i \in 1 .. Len(st) : i <= Len(s) \/ i > Len(s)
  BY <1>1
<1>3. ASSUME Increasing(s), Increasing(t), Before(s, t) PROVE Increasing(st)
  <2> SUFFICES ASSUME NEW i \in 1 .. Len(st), NEW j \in 1 .. Len(st), i < j
               PROVE  st[i] < st[j]
    BY DEF Increasing
  <2>1. CASE j <= Len(s)
    <3>1. i <= Len(s)
      BY <1>1, <1>2, <2>1
    <3> QED BY <1>2, <1>3, <2>1, <3>1 DEF Increasing
  <2>2. CASE i <= Len(s) /\ j > Len(s)
    BY <1>2, <1>3, <2>2 DEF Before
  <2>3. CASE i > Len(s)
    <3>1. j > Len(s) /\ i - Len(s) < j - Len(s)
      BY SMTT(30), <1>1, <1>2, <2>3
    <3>2. /\ i - Len(s) \in 1 .. Len(t) /\ j - Len(s) \in 1 .. Len(t)
          /\ st[i] = t[i - Len(s)] /\ st[j] = t[j - Len(s)]
      BY <1>2, <2>3, <3>1
    <3> QED BY <1>3, <3>1, <3>2 DEF Increasing
  <2> QED BY <1>2, <2>1, <2>2, <2>3
<1>4. /\ \A u \in Seq(Nat) : Before(s, u) /\ Before(t, u) => Before(st, u)
      /\ \A u \in Seq(Nat) : Before(u, s) /\ Before(u, t) => Before(u, st)
      /\ \A k \in Nat : Upto(s, k) /\ Upto(t, k) => Upto(st, k)
  BY <1>1, <1>2 DEF Before, Upto
<1> QED BY <1>1, <1>3, <1>4 DEF st

\* One number more.
LEMMA Appended ==
    ASSUME NEW s \in Seq(Nat), NEW x \in Nat
    PROVE  /\ Append(s, x) \in Seq(Nat) /\ Len(Append(s, x)) = Len(s) + 1
           /\ Increasing(s) /\ Before(s, <<x>>) => Increasing(Append(s, x))
           /\ \A u \in Seq(Nat) : Before(s, u) /\ Before(<<x>>, u) => Before(Append(s, x), u)
           /\ \A u \in Seq(Nat) : Before(u, s) /\ Before(u, <<x>>) => Before(u, Append(s, x))
           /\ \A k \in Nat : Upto(s, k) /\ x <= k => Upto(Append(s, x), k)
<1>1. Append(s, x) = s \o <<x>> /\ <<x>> \in Seq(Nat) /\ Len(<<x>>) = 1
  BY AppendIsConcat
<1>2. Increasing(<<x>>) /\ \A k \in Nat : x <= k => Upto(<<x>>, k)
  BY DEF Increasing, Upto
<1> QED BY <1>1, <1>2, Joined

\* The bridge starts with nothing.
LEMMA BridgeStart == Init => BridgeInv
<1> SUFFICES ASSUME Init PROVE BridgeInv
  OBVIOUS
<1>1. PlaceType /\ HeldInv
  BY DEF Init, PlaceType, HeldInv, StartPcs, RunPcs, ReleasePcs, IdlePcs, ReaderPcs
<1>2. InwardType /\ OutwardType
  BY DEF Init, InwardType, OutwardType
<1>3. InwardInv /\ OutwardInv
  BY DEF Init, InwardInv, OutwardInv, Increasing, Before, Upto
<1> QED BY <1>1, <1>2, <1>3 DEF BridgeInv

\* What main holds follows its place in the code, start-up failing anywhere.
LEMMA HeldStep ==
    ASSUME PlaceType, HeldInv, [Next]_bridgeVars
    PROVE  PlaceType' /\ HeldInv'
<1> USE DEF PlaceType, HeldInv, StartPcs, RunPcs, ReleasePcs, IdlePcs, ReaderPcs
<1>1. CASE Parse \/ OpenInterface \/ Open \/ Connect \/ StartFilter
  BY <1>1 DEF Parse, OpenInterface, Open, Connect, StartFilter, Acquire
<1>2. CASE CreateThreads \/ MainLoop \/ Poll \/ Recv \/ Send
  BY <1>2
  DEF CreateThreads, MainLoop, Poll, Recv, RecvFrame, RecvEnds, Send, process,
      options
<1>3. CASE Join \/ Release \/ Return
  BY <1>3 DEF Join, Release, Return, After, Released
<1>4. CASE ReaderStep
  BY <1>4
  DEF ReaderStep, ReaderLoop, ReadBatch, Read, ReadFails, WriteFrame, process,
      options
<1>5. CASE PrintStats \/ Signal \/ Arrive \/ Offer \/ Unplug
  BY <1>5 DEF PrintStats, Signal, Arrive, Offer, Unplug, process, options
<1>6. CASE Exited \/ UNCHANGED bridgeVars
  BY <1>6 DEF Exited, bridgeVars, process, options
<1> QED BY <1>1, <1>2, <1>3, <1>4, <1>5, <1>6 DEF Next, MainStep

\* The steps that move no frame inward keep InwardInv, those that move none
\* outward OutwardInv.
LEMMA InwardKept ==
    ASSUME InwardType, InwardInv, UNCHANGED inward, reader = "write" => reader' = "write"
    PROVE  InwardType' /\ InwardInv'
BY DEF InwardType, InwardInv, inward, Increasing, Before, Upto

\* The account of the vehicle's frames.
LEMMA InwardSum ==
    ASSUME InwardType, InwardInv
    PROVE  /\ toHost + hostDrops + skipped + Len(batch) + Len(queue) + lost = arrived
           /\ toHost \in Nat /\ hostDrops \in Nat /\ skipped \in Nat /\ lost \in Nat
           /\ Len(batch) \in Nat /\ Len(queue) \in Nat /\ arrived \in Nat
BY DEF InwardType, InwardInv

\* See InwardKept.
LEMMA OutwardKept ==
    ASSUME OutwardType, OutwardInv, UNCHANGED <<messages, received, bus, toBus, refused>>,
           UNCHANGED transmit, alive' => alive,
           main \in {"recv", "send"} => main' \in {"recv", "send"}
    PROVE  OutwardType' /\ OutwardInv'
BY DEF OutwardType, OutwardInv, Increasing, Before, Upto

\* No step breaks the order or the account of the vehicle's frames.
LEMMA InwardStep ==
    ASSUME PlaceType, HeldInv, InwardType, InwardInv, [Next]_bridgeVars
    PROVE  InwardType' /\ InwardInv'
<1>1. CASE Parse \/ OpenInterface \/ Open \/ Connect \/ StartFilter
  BY <1>1, InwardKept DEF Parse, OpenInterface, Open, Connect, StartFilter, Acquire
<1>2. CASE CreateThreads
  <2>1. reader # "write"
    BY <1>2 DEF CreateThreads, HeldInv, RunPcs
  <2> QED BY <1>2, <2>1, InwardKept DEF CreateThreads
<1>3. CASE MainLoop \/ Poll \/ Recv \/ Send
  BY <1>3, InwardKept DEF MainLoop, Poll, Recv, Send
<1>4. CASE Join \/ Release \/ Return
  BY <1>4, InwardKept DEF Join, Release, Return
<1>5. CASE ReaderLoop \/ PrintStats \/ Signal \/ Unplug \/ Offer
  BY <1>5, InwardKept DEF ReaderLoop, PrintStats, Signal, Unplug, Offer
<1>6. CASE Exited \/ UNCHANGED bridgeVars
  BY <1>6, InwardKept DEF Exited, bridgeVars
<1>7. CASE ReadBatch
  <2>0. batch = <<>> /\ reader # "write"
    BY <1>7 DEF ReadBatch, InwardInv
  <2>a. UNCHANGED <<arrived, lost, iface, skipped, toHost, hostDrops>>
    BY <1>7 DEF ReadBatch
  <2>1. CASE ReadFails
    BY <2>0, <2>a, <2>1 DEF ReadFails, InwardType, InwardInv, Increasing, Before, Upto
  <2>2. CASE ~ReadFails
    <3>1. PICK limit \in {1, Batch}, idle \in {"wait", "loop"} : Read(limit, idle)
      BY <1>7, <2>2 DEF ReadBatch
    <3> DEFINE n == Least(limit, Len(queue))
    <3>2. n \in 0 .. Len(queue) /\ Len(queue) \in Nat
      BY BridgeAssumption DEF Least, InwardType
    <3>3. /\ batch' = SubSeq(queue, 1, n) /\ queue' = SubSeq(queue, n + 1, Len(queue))
          /\ overflow' = FALSE /\ overflows' = overflows + (IF overflow THEN 1 ELSE 0)
          /\ reader' # "write" => n = 0
      BY <3>1 DEF Read
    <3> HIDE DEF n
    <3>4. queue \in Seq(Nat) /\ Increasing(queue) /\ iface \in Seq(Nat) /\ arrived \in Nat
      BY DEF InwardType, InwardInv
    <3>5. /\ batch' \in Seq(Nat) /\ Len(batch') = n /\ Increasing(batch')
          /\ Before(iface, batch') /\ Upto(batch', arrived)
      BY <3>2, <3>3, <3>4, PartOf DEF InwardInv
    <3>6. /\ queue' \in Seq(Nat) /\ Len(queue') = Len(queue) - n /\ Increasing(queue')
          /\ Before(iface, queue') /\ Upto(queue', arrived)
      <4>1. /\ n + 1 \in 1 .. (Len(queue) + 1) /\ Len(queue) \in ((n + 1) - 1) .. Len(queue)
            /\ Len(queue) - (n + 1) + 1 = Len(queue) - n
        BY <3>2
      <4>2. Before(iface, queue) /\ Upto(queue, arrived)
        BY DEF InwardInv
      <4>3. /\ queue' \in Seq(Nat) /\ Len(queue') = Len(queue) - (n + 1) + 1
            /\ Increasing(queue')
        BY <3>3, <3>4, <4>1, PartOf
      <4>4. Before(iface, queue')
        BY <3>3, <3>4, <4>1, <4>2, PartOf
      <4>5. Upto(queue', arrived)
        BY <3>3, <3>4, <4>1, <4>2, PartOf
      <4> QED BY <4>1, <4>3, <4>4, <4>5
    <3>7. Before(batch', queue')
      BY <3>2, <3>3, <3>4, PartsInOrder
    <3>8. InwardType'
      BY <2>a, <3>3, <3>5, <3>6 DEF InwardType
    <3>9. reader' # "write" => batch' = <<>>
      BY <3>3, <3>5
    <3>10. toHost + hostDrops + skipped + Len(batch') + Len(queue') + lost = arrived
      <4>1. Len(batch) = 0
        BY <2>0
      <4> QED BY <3>2, <3>5, <3>6, <4>1, InwardSum
    <3>11. lost > 0 => overflows' > 0
      BY <3>3 DEF InwardType, InwardInv
    <3> QED
      BY <2>a, <3>5, <3>6, <3>7, <3>8, <3>9, <3>10, <3>11
      DEF InwardInv, Increasing, Upto, Before
  <2> QED BY <2>1, <2>2
<1>8. CASE WriteFrame
  <2>a. UNCHANGED <<arrived, lost, queue, overflow, overflows>>
    BY <1>8 DEF WriteFrame
  <2>1. CASE batch = <<>>
    BY <1>8, <2>a, <2>1
    DEF WriteFrame, InwardType, InwardInv, Increasing, Before, Upto
  <2>2. CASE batch # <<>>
    <3>1. /\ queue \in Seq(Nat) /\ batch \in Seq(Nat) /\ iface \in Seq(Nat) /\ arrived \in Nat
          /\ reader' = "write" /\ batch' = Tail(batch)
      BY <1>8, <2>2 DEF InwardType, WriteFrame
    <3>2. /\ batch' \in Seq(Nat) /\ Len(batch') = Len(batch) - 1 /\ Increasing(batch')
          /\ Before(iface, batch') /\ Before(batch', queue) /\ Upto(batch', arrived)
          /\ Before(<<Head(batch)>>, batch')
      BY <2>2, <3>1, TailOf DEF InwardInv
    <3>3. /\ Head(batch) \in Nat /\ Head(batch) = batch[1] /\ 1 \in 1 .. Len(batch)
      BY <2>2, <3>1, TailOf
    <3>4. CASE UNCHANGED iface
      <4>1. \/ skipped' = skipped + 1 /\ UNCHANGED <<toHost, hostDrops>>
            \/ hostDrops' = hostDrops + 1 /\ UNCHANGED <<skipped, toHost>>
        <5>1. Append(iface, Head(batch)) # iface
          BY <3>1, <3>3
        <5> QED BY <1>8, <2>2, <3>4, <5>1 DEF WriteFrame
      <4>2. InwardType'
        BY SMTT(30), <2>a, <3>2, <3>4, <4>1 DEF InwardType
      <4>3. toHost' + hostDrops' + skipped' + Len(batch') + Len(queue) + lost = arrived
        BY SMTT(30), <3>2, <4>1, InwardSum
      <4> QED BY <2>a, <3>1, <3>2, <3>4, <4>1, <4>2, <4>3
              DEF InwardInv, Increasing, Before, Upto
    <3>5. CASE ~UNCHANGED iface
      <4>1. /\ iface' = Append(iface, Head(batch)) /\ toHost' = toHost + 1
            /\ UNCHANGED <<skipped, hostDrops>>
        BY <1>8, <2>2, <3>5 DEF WriteFrame
      <4>2. Before(iface, <<Head(batch)>>) /\ Before(<<Head(batch)>>, queue) /\ Head(batch) <= arrived
        BY <3>1, <3>3 DEF InwardInv, Before, Upto
      <4>3. /\ iface' \in Seq(Nat) /\ Len(iface') = Len(iface) + 1 /\ Increasing(iface')
            /\ Before(iface', batch') /\ Before(iface', queue) /\ Upto(iface', arrived)
        BY <3>1, <3>2, <3>3, <4>1, <4>2, Appended DEF InwardInv
      <4>4. InwardType'
        BY <2>a, <3>2, <4>1, <4>3 DEF InwardType
      <4>5. toHost' + hostDrops' + skipped' + Len(batch') + Len(queue) + lost = arrived
        BY SMTT(30), <3>2, <4>1, InwardSum
      <4>6. Len(iface') = toHost'
        BY <4>1, <4>3 DEF InwardInv
      <4> QED
        BY <2>a, <3>1, <3>2, <4>3, <4>4, <4>5, <4>6
        DEF InwardInv, Increasing, Before, Upto
    <3> QED BY <3>4, <3>5
  <2> QED BY <2>1, <2>2
<1>9. CASE Arrive
  <2>a. arrived' = arrived + 1 /\ UNCHANGED <<reader, batch, iface, skipped, toHost, hostDrops, overflows>>
    BY <1>9 DEF Arrive
  <2>b. \A s \in Seq(Nat) : Upto(s, arrived) => Upto(s, arrived')
    <3>1. arrived \in Nat
      BY DEF InwardType
    <3> QED BY <2>a, <3>1 DEF Upto
  <2>c. /\ iface \in Seq(Nat) /\ batch \in Seq(Nat) /\ queue \in Seq(Nat) /\ arrived \in Nat
        /\ Upto(iface, arrived') /\ Upto(batch, arrived') /\ Upto(queue, arrived')
    BY <2>b DEF InwardType, InwardInv
  <2>1. CASE Len(queue) = Queue
    <3>1. lost' = lost + 1 /\ overflow' = TRUE /\ queue' = queue
      BY <1>9, <2>1 DEF Arrive
    <3>2. toHost + hostDrops + skipped + Len(batch) + Len(queue) + lost' = arrived'
      BY SMTT(30), <2>a, <3>1, InwardSum
    <3>3. InwardType'
      BY <2>a, <3>1 DEF InwardType
    <3> QED BY <2>a, <2>c, <3>1, <3>2, <3>3 DEF InwardInv, Increasing, Before, Upto
  <2>2. CASE Len(queue) # Queue
    <3>1. queue' = Append(queue, arrived') /\ UNCHANGED <<lost, overflow>>
      BY <1>9, <2>2 DEF Arrive
    <3>2. /\ Before(queue, <<arrived'>>) /\ Before(batch, <<arrived'>>) /\ Before(iface, <<arrived'>>)
          /\ arrived' \in Nat
      <4>1. arrived' \in Nat /\ \A x \in Nat : x <= arrived => x < arrived'
        BY <2>a, <2>c
      <4>2. \A s \in Seq(Nat) : Upto(s, arrived) => Before(s, <<arrived'>>)
        BY <4>1 DEF Upto, Before
      <4> QED BY <2>c, <4>1, <4>2 DEF InwardInv
    <3>3. /\ queue' \in Seq(Nat) /\ Len(queue') = Len(queue) + 1 /\ Increasing(queue')
          /\ Before(iface, queue') /\ Before(batch, queue') /\ Upto(queue', arrived')
      BY <2>c, <3>1, <3>2, Appended DEF InwardInv
    <3>4. toHost + hostDrops + skipped + Len(batch) + Len(queue') + lost = arrived'
      <4>1. Len(queue') = Len(queue) + 1 /\ arrived' = arrived + 1
        BY <2>a, <3>3
      <4> QED BY SMTT(30), <4>1, InwardSum
    <3>5. InwardType'
      BY <2>a, <3>1, <3>2, <3>3 DEF InwardType
    <3>6. /\ Increasing(iface)' /\ Increasing(batch)' /\ Increasing(queue)'
          /\ Before(iface, batch)' /\ Before(iface, queue)' /\ Before(batch, queue)'
      BY <2>a, <3>3 DEF InwardInv, Increasing, Before
    <3>7. Upto(iface, arrived)' /\ Upto(batch, arrived)' /\ Upto(queue, arrived)'
      BY <2>a, <2>c, <3>3 DEF Upto
    <3>8. /\ (reader # "write" => batch = <<>>)' /\ (Len(iface) = toHost)'
          /\ (lost > 0 => overflow \/ overflows > 0)'
      BY <2>a, <3>1 DEF InwardInv
    <3> QED BY <2>a, <3>1, <3>4, <3>5, <3>6, <3>7, <3>8 DEF InwardInv
  <2> QED BY <2>1, <2>2
<1> QED
  BY <1>1, <1>2, <1>3, <1>4, <1>5, <1>6, <1>7, <1>8, <1>9
  DEF Next, MainStep, ReaderStep

\* Nor of the frames for the vehicle.
LEMMA OutwardStep ==
    ASSUME PlaceType, OutwardType, OutwardInv, [Next]_bridgeVars
    PROVE  OutwardType' /\ OutwardInv'
<1>1. CASE Parse \/ OpenInterface \/ Open \/ Connect \/ StartFilter
  BY <1>1, OutwardKept
  DEF Parse, OpenInterface, Open, Connect, StartFilter, Acquire, outward, options
<1>2. CASE CreateThreads \/ MainLoop \/ Poll
  BY <1>2, OutwardKept DEF CreateThreads, MainLoop, Poll, outward, process, options
<1>3. CASE Join \/ Release \/ Return
  BY <1>3, OutwardKept DEF Join, Release, Return, outward, options, After
<1>4. CASE ReaderStep
  BY <1>4, OutwardKept
  DEF ReaderStep, ReaderLoop, ReadBatch, WriteFrame, outward, process, options
<1>5. CASE PrintStats \/ Signal \/ Arrive \/ Unplug \/ Offer
  BY <1>5, OutwardKept
  DEF PrintStats, Signal, Arrive, Unplug, Offer, outward, process, options
<1>6. CASE Exited \/ UNCHANGED bridgeVars
  BY <1>6, OutwardKept DEF Exited, bridgeVars, outward, process, options
<1>7. CASE Recv
  <2>a. /\ messages \in Seq(Nat) /\ bus \in Seq(Nat) /\ received \in Nat
        /\ UNCHANGED <<transmit, alive>>
    BY <1>7 DEF Recv, process, options, OutwardType
  <2>1. CASE RecvEnds
    <3>1. /\ UNCHANGED <<messages, received, bus, toBus, refused>>
          /\ main' \notin {"recv", "send"} => messages = <<>>
      BY <2>1 DEF RecvEnds, outward
    <3> QED BY <2>a, <3>1 DEF OutwardType, OutwardInv, Increasing, Before, Upto
  <2>2. CASE RecvFrame
    <3>1. /\ main = "recv" /\ received' = received + 1 /\ UNCHANGED <<main, bus, toBus>>
          /\ \/ transmit /\ messages' = Append(messages, received') /\ UNCHANGED refused
             \/ refused' = refused + 1 /\ UNCHANGED messages
      BY <2>2 DEF RecvFrame
    <3>2. /\ received' \in Nat
          /\ \A q \in Seq(Nat) : Upto(q, received) => Upto(q, received')
      BY <2>a, <3>1 DEF Upto
    <3>3. Upto(bus, received)' /\ Increasing(bus)'
      BY <2>a, <3>1, <3>2 DEF OutwardInv, Increasing, Upto
    <3>4. /\ messages' \in Seq(Nat) /\ Increasing(messages') /\ Before(bus, messages')
          /\ Upto(messages', received')
          /\ \/ Len(messages') = Len(messages) + 1 /\ refused' = refused /\ transmit
             \/ messages' = messages /\ refused' = refused + 1
      <4>1. CASE messages' = Append(messages, received') /\ refused' = refused /\ transmit
        <5>1. \A x \in Nat : x <= received => x < received'
          BY <2>a, <3>1
        <5>2. \A q \in Seq(Nat) : Upto(q, received) => Before(q, <<received'>>)
          BY <5>1 DEF Upto, Before
        <5>3. Before(messages, <<received'>>) /\ Before(bus, <<received'>>) /\ received' <= received'
          BY <2>a, <3>2, <5>2 DEF OutwardInv
        <5>4. /\ Increasing(messages) /\ Before(bus, messages) /\ Upto(messages, received')
          BY <2>a, <3>2 DEF OutwardInv
        <5> QED BY <2>a, <3>2, <4>1, <5>3, <5>4, Appended
      <4>2. CASE messages' = messages /\ refused' = refused + 1
        BY <2>a, <3>2, <4>2 DEF OutwardInv
      <4> QED BY <3>1, <4>1, <4>2
    <3>5. toBus' + refused' + Len(messages') = received' /\ refused' \in Nat
      <4>1. /\ toBus + refused + Len(messages) = received
            /\ toBus \in Nat /\ refused \in Nat /\ Len(messages) \in Nat
        BY DEF OutwardType, OutwardInv
      <4>2. Len(messages') + refused' = Len(messages) + refused + 1 /\ refused' \in Nat
            /\ Len(messages') \in Nat
        BY <3>4, <4>1
      <4>3. toBus' = toBus /\ received' = received + 1
        BY <3>1
      <4> QED BY SMTT(30), <4>1, <4>2, <4>3
    <3>6. OutwardType'
      BY <3>1, <3>2, <3>4, <3>5 DEF OutwardType
    <3>7. /\ Increasing(messages)' /\ Before(bus, messages)' /\ Upto(messages, received)'
      BY <3>1, <3>4 DEF Increasing, Before, Upto
    <3>8. /\ Len(bus') \in {toBus', toBus' + 1} /\ (alive' => Len(bus') = toBus')
          /\ ~transmit' => bus' = <<>> /\ messages' = <<>>
      BY <2>a, <3>1, <3>4 DEF OutwardInv
    <3> QED BY <2>a, <3>1, <3>3, <3>5, <3>6, <3>7, <3>8 DEF OutwardInv
  <2> QED BY <1>7, <2>1, <2>2 DEF Recv
<1>8. CASE Send
  <2>a. /\ messages \in Seq(Nat) /\ bus \in Seq(Nat) /\ received \in Nat /\ toBus \in Nat
        /\ refused \in Nat /\ Len(messages) \in Nat
        /\ messages' = <<>> /\ UNCHANGED <<transmit, received>>
    BY <1>8 DEF Send, process, options, OutwardType
  <2>b. PICK n \in 0 .. Len(messages) :
          /\ toBus' = toBus + n /\ refused' = refused + (Len(messages) - n)
          /\ \/ alive /\ bus' = bus \o SubSeq(messages, 1, n) /\ UNCHANGED <<alive, failed>>
             \/ /\ alive /\ n < Len(messages) /\ alive' = FALSE
                /\ bus' \in {bus \o SubSeq(messages, 1, n), bus \o SubSeq(messages, 1, n + 1)}
                /\ failed' \in {failed, TRUE}
             \/ ~alive /\ n = 0 /\ failed' = TRUE /\ UNCHANGED <<alive, bus>>
    BY <1>8 DEF Send
  <2>1. toBus' + refused' + Len(messages') = received' /\ toBus' \in Nat /\ refused' \in Nat
    <3>1. toBus + refused + Len(messages) = received /\ Len(messages') = 0
      BY <2>a DEF OutwardInv
    <3>2. /\ toBus' = toBus + n /\ refused' = refused + (Len(messages) - n)
          /\ received' = received
      BY <2>a, <2>b
    <3>3. toBus \in Nat /\ refused \in Nat /\ Len(messages) \in Nat
      BY <2>a
    <3> QED BY <3>1, <3>2, <3>3
  <2>2. ASSUME NEW k \in 0 .. Len(messages), bus' = bus \o SubSeq(messages, 1, k)
        PROVE  /\ bus' \in Seq(Nat) /\ Len(bus') = Len(bus) + k /\ Increasing(bus')
               /\ Upto(bus', received) /\ (~transmit => bus' = <<>>)
    <3> DEFINE part == SubSeq(messages, 1, k)
    <3>1. /\ part \in Seq(Nat) /\ Len(part) = k /\ Increasing(part)
          /\ Before(bus, part) /\ Upto(part, received)
      <4>1. /\ 1 \in 1 .. (Len(messages) + 1) /\ k \in (1 - 1) .. Len(messages)
            /\ k - 1 + 1 = k
        BY <2>a
      <4> QED BY <2>a, <4>1, PartOf DEF OutwardInv
    <3>2. Increasing(bus) /\ Upto(bus, received) /\ (~transmit => bus = <<>> /\ messages = <<>>)
      BY DEF OutwardInv
    <3> HIDE DEF part
    <3>3. bus' = bus \o part
      BY <2>2 DEF part
    <3>4. /\ bus' \in Seq(Nat) /\ Len(bus') = Len(bus) + k /\ Increasing(bus')
          /\ Upto(bus', received)
      BY <2>a, <3>1, <3>2, <3>3, Joined
    <3>5. ASSUME ~transmit PROVE bus' = <<>>
      <4>1. Len(bus) = 0 /\ Len(messages) = 0
        BY <3>2, <3>5
      <4> QED BY <3>4, <4>1
    <3> QED BY <3>4, <3>5
  <2>3. /\ bus' \in Seq(Nat) /\ Increasing(bus') /\ Upto(bus', received)
        /\ ~transmit => bus' = <<>>
        /\ Len(bus') \in {toBus', toBus' + 1} /\ (alive' => Len(bus') = toBus')
    <3>0. /\ Len(bus) \in {toBus, toBus + 1} /\ (alive => Len(bus) = toBus)
          /\ n \in Nat /\ toBus' = toBus + n
      BY <2>a, <2>b DEF OutwardInv
    <3>1. CASE alive /\ bus' = bus \o SubSeq(messages, 1, n)
      <4>1. Len(bus') = toBus'
        BY <2>a, <2>b, <2>2, <3>0, <3>1
      <4> QED BY <2>2, <3>1, <4>1
    <3>2. CASE /\ alive /\ n < Len(messages) /\ alive' = FALSE
               /\ bus' = bus \o SubSeq(messages, 1, n + 1)
      <4>1. n + 1 \in 0 .. Len(messages)
        BY <2>a, <3>0, <3>2
      <4>2. Len(bus') = Len(bus) + (n + 1) /\ Len(bus) = toBus
        BY <2>2, <3>0, <3>2, <4>1
      <4>3. Len(bus') = toBus' + 1
        BY <2>a, <3>0, <4>2
      <4> QED BY <2>2, <3>2, <4>1, <4>3
    <3>3. CASE ~alive /\ n = 0 /\ UNCHANGED <<alive, bus>>
      <4>1. toBus' = toBus
        BY <2>a, <2>b, <3>3
      <4> QED BY <2>a, <3>0, <3>3, <4>1 DEF OutwardInv
    <3> QED BY <2>b, <3>1, <3>2, <3>3
  <2>4. Increasing(messages)' /\ Before(bus, messages)' /\ Upto(messages, received)'
    BY <2>a DEF Increasing, Before, Upto
  <2>5. Increasing(bus)' /\ Upto(bus, received)'
    BY <2>a, <2>3 DEF Increasing, Upto
  <2>6. OutwardType'
    BY <2>a, <2>1, <2>3 DEF OutwardType
  <2>7. ~transmit' => bus' = <<>> /\ messages' = <<>>
    BY <2>a, <2>3
  <2>8. (main \notin {"recv", "send"} => messages = <<>>)'
    BY <2>a
  <2> QED BY <2>1, <2>3, <2>4, <2>5, <2>6, <2>7, <2>8 DEF OutwardInv
<1> QED
  BY <1>1, <1>2, <1>3, <1>4, <1>5, <1>6, <1>7, <1>8 DEF Next, MainStep

\* All parts together are inductive.
LEMMA BridgeKeeps == BridgeInv /\ [Next]_bridgeVars => BridgeInv'
BY HeldStep, InwardStep, OutwardStep DEF BridgeInv
----------------------------------------------------------------------------
\* No frame is invented, repeated, reordered or lost unaccounted for in either
\* direction of the bridge (socketcan_bridge.c:140 to 187), for any sizes of
\* batch and queue.
THEOREM BridgeAccounts == Spec => []FramesAccounted
<1>1. BridgeInv => FramesAccounted
  BY DEF BridgeInv, InwardInv, OutwardInv, FramesAccounted
<1> QED BY <1>1, BridgeStart, BridgeKeeps, PTL DEF Spec

\* No thread is in a library call on a channel that is gone, and at exit
\* everything acquired has been released (socketcan_bridge.c:244 to 259).
THEOREM BridgeExitsClean == Spec => []CleanExit
<1>1. BridgeInv => CleanExit
  BY DEF BridgeInv, PlaceType, HeldInv, CleanExit, RunPcs, IdlePcs
<1> QED BY <1>1, BridgeStart, BridgeKeeps, PTL DEF Spec

\* A dry run accepts and rejects what the live run does, up to a call the
\* library refuses, and both know the same names (script_runner.c:9), whatever
\* the script and however the library answers.
THEOREM DryRunsAgree == S!Spec => []DryRunAgrees
<1>1. S!Init => DryRunAgrees
  BY DEF S!Init, DryRunAgrees, S!DryRunAgrees
<1>2. DryRunAgrees /\ [S!Next]_S!scriptVars => DryRunAgrees'
  <2> SUFFICES ASSUME DryRunAgrees, [S!Next]_S!scriptVars PROVE DryRunAgrees'
    OBVIOUS
  <2>1. CASE UNCHANGED S!scriptVars
    BY <2>1 DEF S!scriptVars, DryRunAgrees, S!DryRunAgrees
  <2>2. CASE S!RunStep
    <3>1. live = "running" /\ dry = "running" /\ DOMAIN slots = drySlots
      BY <2>2 DEF S!RunStep, S!BothRun, DryRunAgrees, S!DryRunAgrees
    <3>2. PICK s \in S!Steps : S!DryStep(s) /\ S!LiveStep(s)
      BY <2>2 DEF S!RunStep
    <3> DEFINE text == S!BeforeCall(s, drySlots)
    <3>3. CASE text # "running"
      <4>1. dry' = text /\ live' = text
        BY <3>1, <3>2, <3>3 DEF S!DryStep, S!LiveStep
      <4> QED BY <3>3, <4>1 DEF DryRunAgrees, S!DryRunAgrees
    <3>4. CASE text = "running"
      <4>1. /\ dry' = S!AfterCall(s, drySlots)
            /\ dry' = "running" => drySlots' = drySlots \cup S!NewName(s)
        BY <3>2, <3>4 DEF S!DryStep
      <4>2. /\ live' = "refused" \/ live' = S!AfterCall(s, drySlots)
            /\ live' = "running" => DOMAIN slots' = DOMAIN slots \cup S!NewName(s)
        BY <3>1, <3>2, <3>4 DEF S!LiveStep
      <4> QED BY <3>1, <4>1, <4>2 DEF DryRunAgrees, S!DryRunAgrees
    <3> QED BY <3>3, <3>4
  <2>3. CASE S!BadLine \/ S!EndOfFile
    BY <2>3 DEF S!BadLine, S!EndOfFile, DryRunAgrees, S!DryRunAgrees
  <2>4. CASE S!Stopped
    BY <2>4 DEF S!Stopped, S!scriptVars, DryRunAgrees, S!DryRunAgrees
  <2> QED BY <2>1, <2>2, <2>3, <2>4 DEF S!Next
<1> QED BY <1>1, <1>2, PTL DEF S!Spec
----------------------------------------------------------------------------
\* A set of numbers has a least one: induction, in the form the provers use.
LEMMA LeastOne ==
    ASSUME NEW T \in SUBSET Nat, T # {}
    PROVE  \E n \in T : \A m \in T : n <= m
<1> DEFINE R == {ss \in Nat \X Nat : ss[1] < ss[2]}
<1>1. IsWellFoundedOn(R, Nat)
  BY NatLessThanWellFounded DEF OpToRel
<1> HIDE DEF R
<1>2. PICK n \in T : \A m \in T : ~ (<<m, n>> \in R)
  BY <1>1, WFMin
<1>3. ASSUME NEW m \in T PROVE n <= m
  <2>1. <<m, n>> \in Nat \X Nat
    OBVIOUS
  <2>2. ~ m < n
    BY <1>2, <2>1 DEF R
  <2> QED BY <2>2
<1> QED BY <1>3

\* The turns of config_ioctl's loop follow one another.
InTurn(cfg, p, list) ==
    /\ S!Applied(cfg, p, list, 0) = cfg
    /\ \A n \in 1 .. Len(list) :
          S!Applied(cfg, p, list, n) = S!SetOne(S!Applied(cfg, p, list, n - 1), p, list[n])

LEMMA Turns ==
    ASSUME NEW cfg, NEW p, NEW list, Len(list) \in Nat
    PROVE  InTurn(cfg, p, list)
<1> DEFINE Is(g, n) == g = [i \in 0 .. n |-> IF i = 0 THEN cfg ELSE S!SetOne(g[i - 1], p, list[i])]
           T == {n \in Nat : ~ \E g : Is(g, n)}
           f == CHOOSE g : Is(g, Len(list))
<1>1. T = {}
  <2> SUFFICES ASSUME T # {} PROVE FALSE
    OBVIOUS
  <2>1. PICK n \in T : \A m \in T : n <= m
    BY LeastOne
  <2>2. n # 0
    <3> DEFINE g == [i \in 0 .. 0 |-> cfg]
    <3>1. Is(g, 0)
      OBVIOUS
    <3> QED BY <2>1, <3>1
  <2>3. n - 1 \in Nat /\ n - 1 \notin T
    BY <2>1, <2>2
  <2>4. PICK g : Is(g, n - 1)
    BY <2>3
  <2> DEFINE h == [i \in 0 .. n |-> IF i = n THEN S!SetOne(g[n - 1], p, list[n]) ELSE g[i]]
  <2>5. Is(h, n)
    BY <2>2, <2>3, <2>4
  <2> QED BY <2>1, <2>5
<1>2. \E g : Is(g, Len(list))
  BY <1>1
<1>3. Is(f, Len(list))
  BY <1>2
<1> HIDE DEF T
<1>4. \A n : S!Applied(cfg, p, list, n) = f[n]
  BY DEF S!Applied
<1>5. f = [i \in 0 .. Len(list) |-> IF i = 0 THEN cfg ELSE S!SetOne(f[i - 1], p, list[i])]
  BY <1>3
<1> HIDE DEF f, Is
<1>6. f[0] = cfg /\ \A n \in 1 .. Len(list) : f[n] = S!SetOne(f[n - 1], p, list[n])
  BY <1>5
<1> QED BY <1>4, <1>6 DEF InTurn

\* Configuration c is cfg with the first n entries of list written, the later
\* over the earlier.
Naming(p, list, n, s) == {i \in 1 .. n : S!Route(p, list[i].parameter).selector = s}
Function(c) == c = [s \in DOMAIN c |-> c[s]]
WrittenUpto(c, cfg, p, list, n) ==
    /\ Function(c) /\ DOMAIN c = DOMAIN cfg
    /\ \A s \in DOMAIN cfg :
          c[s] = IF Naming(p, list, n, s) = {} THEN cfg[s]
                 ELSE list[S!Max(Naming(p, list, n, s))].value

LEMMA OneMore ==
    ASSUME NEW c, NEW cfg, NEW p, NEW list, NEW n \in Nat, WrittenUpto(c, cfg, p, list, n)
    PROVE  WrittenUpto(S!SetOne(c, p, list[n + 1]), cfg, p, list, n + 1)
<1> DEFINE r == S!Route(p, list[n + 1].parameter).selector
           d == S!SetOne(c, p, list[n + 1])
<1>1. d = [c EXCEPT ![r] = list[n + 1].value]
  BY DEF S!SetOne
<1>2. Function(d) /\ DOMAIN d = DOMAIN cfg
  BY <1>1 DEF Function, WrittenUpto
<1>3. ASSUME NEW s \in DOMAIN cfg
      PROVE  d[s] = IF Naming(p, list, n + 1, s) = {} THEN cfg[s]
                    ELSE list[S!Max(Naming(p, list, n + 1, s))].value
  <2>1. CASE s = r
    <3>1. /\ n + 1 \in Naming(p, list, n + 1, s)
          /\ \A i \in Naming(p, list, n + 1, s) : i \in Nat /\ i <= n + 1
      BY <2>1 DEF Naming
    <3>2. S!Max(Naming(p, list, n + 1, s)) = n + 1
      BY <3>1 DEF S!Max
    <3>3. d[s] = list[n + 1].value
      BY <1>1, <2>1 DEF WrittenUpto
    <3> QED BY <3>1, <3>2, <3>3
  <2>2. CASE s # r
    <3>1. Naming(p, list, n + 1, s) = Naming(p, list, n, s)
      BY <2>2 DEF Naming
    <3>2. d[s] = c[s]
      BY <1>1, <2>2 DEF WrittenUpto
    <3> QED BY <3>1, <3>2 DEF WrittenUpto
  <2> QED BY <2>1, <2>2
<1> HIDE DEF d
<1> QED BY <1>2, <1>3 DEF WrittenUpto, d

\* What the loop has done after n turns.
LEMMA Prefix ==
    ASSUME NEW cfg, Function(cfg), NEW p, NEW list, Len(list) \in Nat, NEW n \in 0 .. Len(list)
    PROVE  WrittenUpto(S!Applied(cfg, p, list, n), cfg, p, list, n)
<1> DEFINE T == {m \in 0 .. Len(list) : ~ WrittenUpto(S!Applied(cfg, p, list, m), cfg, p, list, m)}
<1>1. T \in SUBSET Nat
  OBVIOUS
<1> SUFFICES ASSUME T # {} PROVE FALSE
  OBVIOUS
<1>2. PICK m \in T : \A l \in T : m <= l
  BY <1>1, LeastOne
<1>3. m # 0
  <2>1. S!Applied(cfg, p, list, 0) = cfg
    BY Turns DEF InTurn
  <2>2. \A s : Naming(p, list, 0, s) = {}
    BY DEF Naming
  <2>3. WrittenUpto(cfg, cfg, p, list, 0)
    BY <2>2 DEF WrittenUpto
  <2> QED BY <2>1, <2>3
<1> DEFINE k == m - 1
<1>4. k \in Nat /\ k \in 0 .. Len(list) /\ k + 1 = m /\ k \notin T /\ m \in 1 .. Len(list)
  BY <1>1, <1>2, <1>3
<1>5. S!Applied(cfg, p, list, m) = S!SetOne(S!Applied(cfg, p, list, k), p, list[m])
  <2>1. \A l \in 1 .. Len(list) :
           S!Applied(cfg, p, list, l) = S!SetOne(S!Applied(cfg, p, list, l - 1), p, list[l])
    <3>1. InTurn(cfg, p, list)
      BY Turns
    <3> QED BY <3>1, Zenon DEF InTurn
  <2> QED BY <1>4, <2>1
<1> HIDE DEF k
<1>6. WrittenUpto(S!Applied(cfg, p, list, k), cfg, p, list, k)
  BY <1>4
<1> DEFINE c == S!Applied(cfg, p, list, k)
<1>7. WrittenUpto(c, cfg, p, list, k)
  BY <1>6
<1> HIDE DEF c
<1>8. WrittenUpto(S!SetOne(c, p, list[k + 1]), cfg, p, list, k + 1)
  BY <1>4, <1>7, OneMore
<1>9. WrittenUpto(S!Applied(cfg, p, list, m), cfg, p, list, m)
  BY <1>4, <1>5, <1>8 DEF c
<1> QED BY <1>9

\* What a library l holds after the SET_CONFIG that set records.
Exact(l, set) ==
    /\ {"cfg", "protocol"} \subseteq DOMAIN l /\ Function(l.cfg)
    /\ set.status = "invalid" => l.cfg = set.before
    /\ set.status = "ok" => WrittenUpto(l.cfg, set.before, l.protocol, set.list, Len(set.list))
    /\ set.status = "failed" => \E n \in 0 .. Len(set.list) :
          WrittenUpto(l.cfg, set.before, l.protocol, set.list, n)

LEMMA ExactMeans ==
    ASSUME Exact(lib, last)
    PROVE  ConfigExact
<1>1. ASSUME NEW n, WrittenUpto(lib.cfg, last.before, lib.protocol, last.list, n)
      PROVE  \A s \in DOMAIN lib.cfg :
                lib.cfg[s] =
                  IF {i \in 1 .. n : S!Route(lib.protocol, last.list[i].parameter).selector = s} = {}
                  THEN last.before[s]
                  ELSE last.list[S!Max({i \in 1 .. n :
                         S!Route(lib.protocol, last.list[i].parameter).selector = s})].value
  BY <1>1 DEF WrittenUpto, Naming
<1> QED BY <1>1 DEF Exact, ConfigExact, S!ConfigExact

LEMMA SetExact ==
    ASSUME NEW l, Exact(l, S!NoSet), NEW list, Len(list) \in Nat,
           NEW r \in S!SetConfig(l.cfg, l.protocol, list)
    PROVE  Exact([l EXCEPT !.cfg = r.cfg],
                 [status |-> r.status, list |-> list, before |-> l.cfg])
<1> DEFINE m == [l EXCEPT !.cfg = r.cfg]
           set == [status |-> r.status, list |-> list, before |-> l.cfg]
<1>1. {"cfg", "protocol"} \subseteq DOMAIN l /\ Function(l.cfg)
  BY DEF Exact
<1>2. {"cfg", "protocol"} \subseteq DOMAIN m /\ m.cfg = r.cfg /\ m.protocol = l.protocol
  BY <1>1
<1>3. set.status = r.status /\ set.list = list /\ set.before = l.cfg
  OBVIOUS
<1> HIDE DEF m, set
<1>4. PICK n \in 0 .. Len(list) :
         /\ r.cfg = S!Applied(l.cfg, l.protocol, list, n)
         /\ r.status = "invalid" => n = 0
         /\ r.status = "ok" => n = Len(list)
  BY DEF S!SetConfig
<1>5. WrittenUpto(r.cfg, l.cfg, l.protocol, list, n)
  BY <1>1, <1>4, Prefix
<1>6. r.status = "invalid" => r.cfg = l.cfg
  BY <1>4, Turns DEF InTurn
<1>7. Function(r.cfg)
  BY <1>5 DEF WrittenUpto
<1>8. Exact(m, set)
  BY <1>2, <1>3, <1>4, <1>5, <1>6, <1>7 DEF Exact
<1> QED BY <1>8 DEF m, set

\* Only SET_CONFIG writes parameters; closing and connecting set them anew.
LEMMA CallExact ==
    ASSUME Exact(lib, last), NEW s \in S!Steps, NEW h, NEW r \in S!Call(s, h)
    PROVE  Exact(r.lib, r.last)
<1>1. {"cfg", "protocol"} \subseteq DOMAIN lib /\ Function(lib.cfg)
  BY DEF Exact
<1>2. Len(s.list) \in Nat
  <2>1. PICK v \in DOMAIN S!Uses :
           s \in [verb : {v}, on : [1 .. Len(S!Uses[v]) -> Names \cup Literals],
                  name : IF v \in DOMAIN S!Makes THEN Names ELSE {""}, fault : S!FaultsOf(v),
                  list : IF v \in {"setconfig", "getconfig"} THEN Lists ELSE {<<>>}]
    BY DEF S!Steps
  <2>2. s.list \in IF v \in {"setconfig", "getconfig"} THEN Lists ELSE {<<>>}
    BY <2>1
  <2>3. s.list \in Lists \/ s.list = <<>>
    BY <2>2
  <2> QED BY <2>3, ListsAssumption
<1>3. ASSUME NEW l, {"cfg", "protocol"} \subseteq DOMAIN l, Function(l.cfg)
      PROVE  Exact(l, S!NoSet)
  BY <1>3 DEF Exact, S!NoSet
<1>4. Exact(lib, S!NoSet)
  BY <1>1, <1>3
<1>5. CASE \E b \in BOOLEAN : r = S!Unchanged(b)
  BY <1>4, <1>5 DEF S!Unchanged, S!Outcome
<1> DEFINE Fits(l) == {"cfg", "protocol"} \subseteq DOMAIN l /\ Function(l.cfg)
<1>6. /\ \A kind : Fits(S!New(kind)) /\ \A handles : Fits(S!Without(handles))
  BY <1>1 DEF S!New, S!Without
<1>7. ASSUME NEW l, Fits(l), NEW p, NEW c, Function(c)
       PROVE  Fits([l EXCEPT !.cfg = c]) /\ Fits([l EXCEPT !.protocol = p, !.cfg = c])
  BY <1>7
<1>8. Function(S!NoConfig) /\ \A T : Function([x \in T |-> 0])
  BY DEF Function, S!NoConfig
<1>9. CASE \E l : Fits(l) /\ r = S!Outcome(TRUE, l, S!NoSet)
  BY <1>3, <1>9 DEF S!Outcome
<1> HIDE DEF Fits
<1>10. CASE r \in S!DeviceCall(s.verb, h)
  <2>1. CASE s.verb = "open"
    BY <1>10, <1>6, <1>9, <2>1 DEF S!DeviceCall
  <2>2. CASE s.verb = "close"
    BY <1>10, <1>6, <1>7, <1>8, <1>9, <2>2 DEF S!DeviceCall
  <2>3. CASE s.verb = "connect" /\ S!Open("channel") = {}
    BY <1>10, <1>6, <1>7, <1>8, <1>9, <2>3 DEF S!DeviceCall
  <2>4. CASE s.verb = "disconnect"
    BY <1>10, <1>6, <1>7, <1>8, <1>9, <2>4 DEF S!DeviceCall
  <2>5. CASE ~ (s.verb \in {"open", "close", "disconnect"} \/ (s.verb = "connect" /\ S!Open("channel") = {}))
    BY <1>5, <1>10, <2>5 DEF S!DeviceCall
  <2> QED BY <2>1, <2>2, <2>3, <2>4, <2>5
<1>11. CASE r \in S!TableCall(s.verb, h)
  BY <1>11, <1>6, <1>9 DEF S!TableCall
<1>12. CASE r \in S!ConfigCall(s.verb, s.list)
  <2>1. CASE \E b \in BOOLEAN : r = S!Unchanged(b)
    BY <1>5, <2>1
  <2>2. CASE \E q \in S!SetConfig(lib.cfg, lib.protocol, s.list) :
               r = S!Outcome(q.status = "ok", [lib EXCEPT !.cfg = q.cfg],
                             [status |-> q.status, list |-> s.list, before |-> lib.cfg])
    <3>1. PICK q \in S!SetConfig(lib.cfg, lib.protocol, s.list) :
             r = S!Outcome(q.status = "ok", [lib EXCEPT !.cfg = q.cfg],
                           [status |-> q.status, list |-> s.list, before |-> lib.cfg])
      BY <2>2
    <3>2. /\ r.lib = [lib EXCEPT !.cfg = q.cfg]
          /\ r.last = [status |-> q.status, list |-> s.list, before |-> lib.cfg]
      BY <3>1 DEF S!Outcome
    <3> DEFINE list == s.list
    <3>3. Len(list) \in Nat /\ q \in S!SetConfig(lib.cfg, lib.protocol, list)
      BY <1>2
    <3> HIDE DEF list
    <3>4. Exact([lib EXCEPT !.cfg = q.cfg],
                [status |-> q.status, list |-> list, before |-> lib.cfg])
      BY <1>4, <3>3, SetExact
    <3> QED BY <3>2, <3>4 DEF list
  <2> QED BY <1>12, <2>1, <2>2 DEF S!ConfigCall, S!GetConfig
<1> QED BY <1>5, <1>10, <1>11, <1>12 DEF S!Call

\* SET_CONFIG writes all of its list or, if an entry is bad, nothing; one
\* that fails at the adapter has written a prefix, and of two entries for one
\* parameter the later wins (j2534.cpp:523 to 559), for lists of any length.
THEOREM ConfigIsExact == S!Spec => []ConfigExact
<1>1. S!Init => Exact(lib, last)
  BY DEF S!Init, Exact, S!NoSet, S!NoConfig, Function
<1>2. Exact(lib, last) /\ [S!Next]_S!scriptVars => Exact(lib, last)'
  <2> SUFFICES ASSUME Exact(lib, last), [S!Next]_S!scriptVars PROVE Exact(lib', last')
    BY DEF Exact, WrittenUpto, Function, Naming
  <2>1. CASE lib' = lib /\ last' = last
    BY <2>1
  <2>2. CASE S!RunStep
    <3>1. PICK s \in S!Steps : S!LiveStep(s)
      BY <2>2 DEF S!RunStep
    <3>2. \/ lib' = lib /\ last' = last
          \/ \E h : \E r \in S!Call(s, h) : lib' = r.lib /\ last' = r.last
      BY <3>1 DEF S!LiveStep
    <3> QED BY <2>1, <3>2, CallExact
  <2> QED BY <2>1, <2>2 DEF S!Next, S!BadLine, S!EndOfFile, S!Stopped, S!scriptVars
<1>3. Exact(lib, last) => ConfigExact
  BY ExactMeans
<1> QED BY <1>1, <1>2, <1>3, PTL DEF S!Spec
============================================================================
