--------------------------- MODULE DeviceProofs ----------------------------
(***************************************************************************)
(* Proofs about Device: what the host keeps about a device, its adapter    *)
(* and its public IDs stays true however the commands of the calls end.    *)
(***************************************************************************)
EXTENDS Device, FiniteSetTheorems, TLAPS

\* The type of a device and its adapter.
DeviceType ==
    [exists : BOOLEAN, closed : BOOLEAN, reopen : BOOLEAN,
     usable : BOOLEAN, wireOpen : BOOLEAN, untracked : BOOLEAN,
     channel : 0 .. MaxHandle, protocol : Protocols,
     receiver : {"none", "live", "stopped"},
     filters : SUBSET [id : Handles, fw : FwHandles, table : Tables],
     periodics : SUBSET [id : Handles, fw : FwHandles],
     node : Protocols \cup {"none"},
     fwFilters : SUBSET [fw : FwHandles, table : Tables],
     fwPeriodics : SUBSET FwHandles]

\* The tables are finite, within their limits, and name a firmware entry once.
TableInv(d) ==
    /\ IsFiniteSet(d.periodics) /\ Cardinality(d.periodics) <= MaxPeriodics
    /\ IsFiniteSet(d.filters) /\ Cardinality(InTable(d.filters, "flow")) <= MaxFlow
    /\ \A p, q \in d.periodics : p.fw = q.fw => p = q
    /\ \A x, y \in d.filters : x.fw = y.fw /\ x.table = y.table => x = y

\* What a channel ID, even of an uncertain device, says about the device.
ChannelInv(d) ==
    /\ (d.channel # 0) = (d.receiver # "none")
    /\ ~d.exists \/ d.closed => d.channel = 0
    /\ d.channel # 0 => d.wireOpen /\ d.node = d.protocol
    /\ d.channel = 0 => d.filters = {} /\ d.periodics = {}

\* What the adapter of a certain device holds.
AdapterInv(d) ==
    /\ Certain(d) /\ d.channel = 0 =>
         ~d.wireOpen /\ d.node = "none" /\ d.fwFilters = {}
    /\ Certain(d) /\ d.channel # 0 =>
         /\ \A x \in d.filters : [fw |-> x.fw, table |-> x.table] \in d.fwFilters
         /\ \A y \in d.fwFilters : \E x \in d.filters : x.fw = y.fw /\ x.table = y.table
         /\ \A p \in d.periodics : p.fw \in d.fwPeriodics
         /\ ~d.untracked =>
              \A fw \in d.fwPeriodics : \E p \in d.periodics : p.fw = fw
    /\ (Certain(d) \/ d.channel # 0) /\ ~HadPeriodic(d) => d.fwPeriodics = {}

DevInv(d) == d \in DeviceType /\ TableInv(d) /\ ChannelInv(d) /\ AdapterInv(d)

\* e has the host fields of d that no command touches.
SameHost(d, e) ==
    /\ e.exists = d.exists /\ e.closed = d.closed /\ e.wireOpen = d.wireOpen
    /\ e.untracked = d.untracked /\ e.channel = d.channel /\ e.protocol = d.protocol
    /\ e.filters = d.filters /\ e.periodics = d.periodics

SameAdapter(d, e) ==
    e.node = d.node /\ e.fwFilters = d.fwFilters /\ e.fwPeriodics = d.fwPeriodics

\* e is d with the adapter as it may be after a command in doubt.
SameFlags(d, e) ==
    e.reopen = d.reopen /\ e.usable = d.usable /\ e.receiver = d.receiver

\* A session that fails is unusable and its receiver is stopped; what the
\* device keeps and what the adapter holds stay.
LEMMA Fails ==
    ASSUME NEW d \in DeviceType, NEW e, e = Fail(d)
    PROVE  /\ e \in DeviceType /\ SameHost(d, e) /\ SameAdapter(d, e)
           /\ (e.receiver = "none") = (d.receiver = "none")
           /\ ~e.usable /\ e.reopen = d.reopen
<1>1. e = [d EXCEPT !.usable = FALSE, !.receiver = Halt(d.receiver)]
  BY DEF Fail, DeviceType
<1>2. Halt(d.receiver) \in {"none", "stopped"}
      /\ (Halt(d.receiver) = "none") = (d.receiver = "none")
  BY DEF Halt
<1> QED BY <1>1, <1>2 DEF DeviceType, SameHost, SameAdapter

\* A channel that a command addressed to its node reaches: how it ends says
\* what the adapter did, and a command in doubt marks the device.
LEMMA Commanded ==
    ASSUME NEW d \in DeviceType, NEW o \in Outcomes, NEW eff \in DeviceType,
           SameHost(d, eff), SameFlags(d, eff),
           NEW e, e = ChannelCommand(d, o, eff)
    PROVE  /\ e \in DeviceType
           /\ SameHost(d, e)
           /\ (e.receiver = "none") = (d.receiver = "none")
           /\ d.reopen => e.reopen
           /\ SameAdapter(d, e) \/ SameAdapter(eff, e)
           /\ Accepted(d, o) => SameFlags(d, e) /\ d.usable
           /\ Accepted(d, o) /\ d.node \in {"none", d.protocol} => e = eff
           /\ Out(d, o) \in {"refused", "unsent"} => e = d
           /\ Out(d, o) \in {"lost", "lostDone"} => e.reopen
<1> DEFINE f == IF d.node \in {"none", d.protocol} THEN eff ELSE d
           c == Command(d, o, f)
<1>1. f \in DeviceType /\ SameHost(d, f) /\ SameFlags(d, f)
  BY DEF SameHost, SameFlags
<1>2. Out(d, o) \in Outcomes
  BY DEF Out, Outcomes
<1>3. CASE Out(d, o) \in {"ok", "short"}
  <2>1. c = f /\ e = c /\ d.usable
    BY <1>3 DEF Command, ChannelCommand, Out
  <2> QED BY <1>1, <1>3, <2>1 DEF Accepted, SameHost, SameFlags, SameAdapter
<1>4. CASE Out(d, o) = "refused"
  <2>1. c = d /\ e = c
    BY <1>4 DEF Command, ChannelCommand
  <2> QED BY <1>4, <2>1 DEF Accepted, SameHost, SameFlags, SameAdapter
<1>5. CASE Out(d, o) = "unsent"
  <2>1. c = d /\ d.usable
    BY <1>5 DEF Command, Out
  <2>2. e = c
    BY <1>5, <2>1 DEF ChannelCommand
  <2> QED BY <1>5, <2>1, <2>2 DEF Accepted, SameHost, SameFlags, SameAdapter
<1>6. CASE Out(d, o) \in {"lost", "lostDone"}
  <2> DEFINE g == IF Out(d, o) = "lostDone" THEN f ELSE d
  <2>1. c = Fail(g)
    BY <1>6 DEF Command
  <2>2. g \in DeviceType /\ SameHost(d, g) /\ SameFlags(d, g)
        /\ (SameAdapter(d, g) \/ SameAdapter(eff, g))
    BY <1>1, <1>6 DEF SameHost, SameFlags, SameAdapter
  <2> HIDE DEF g
  <2>3. c \in DeviceType /\ SameHost(d, c) /\ SameAdapter(g, c) /\ ~c.usable
        /\ (c.receiver = "none") = (d.receiver = "none")
    <3>1. c \in DeviceType /\ SameHost(g, c) /\ SameAdapter(g, c) /\ ~c.usable
          /\ (c.receiver = "none") = (g.receiver = "none")
      BY <2>1, <2>2, Fails
    <3> HIDE DEF c
    <3> QED BY <2>2, <3>1 DEF SameHost, SameFlags
  <2>4. e = Uncertain(c)
    BY <1>6, <2>3 DEF ChannelCommand
  <2> HIDE DEF c
  <2>5. e \in DeviceType /\ SameHost(c, e) /\ SameAdapter(c, e) /\ e.reopen
        /\ (e.receiver = "none") = (c.receiver = "none")
    BY ZenonT(60), <2>3, <2>4 DEF DeviceType, Uncertain, Halt, SameHost, SameAdapter
  <2> QED BY <1>6, <2>2, <2>3, <2>5 DEF Accepted, SameHost, SameAdapter
<1> QED BY <1>2, <1>3, <1>4, <1>5, <1>6 DEF Outcomes

\* d with set as the periodic messages, or as the filters, of its adapter.
WithPeriodics(d, set) == [d EXCEPT !.fwPeriodics = set]
WithFilters(d, set) == [d EXCEPT !.fwFilters = set]

\* A command that changes only the adapter's periodic messages, to set.
LEMMA PeriodicsCommanded ==
    ASSUME NEW d \in DeviceType, NEW o \in Outcomes, NEW set \in SUBSET FwHandles,
           NEW e, e = ChannelCommand(d, o, WithPeriodics(d, set))
    PROVE  /\ e \in DeviceType /\ SameHost(d, e)
           /\ (e.receiver = "none") = (d.receiver = "none")
           /\ d.reopen => e.reopen
           /\ e.node = d.node /\ e.fwFilters = d.fwFilters
           /\ e.fwPeriodics \in {d.fwPeriodics, set}
           /\ Accepted(d, o) => SameFlags(d, e) /\ d.usable
           /\ Accepted(d, o) /\ d.node \in {"none", d.protocol} => e.fwPeriodics = set
           /\ Out(d, o) \in {"refused", "unsent"} => e = d
           /\ Out(d, o) \in {"lost", "lostDone"} => e.reopen
<1> DEFINE eff == WithPeriodics(d, set)
<1>1. eff \in DeviceType /\ SameHost(d, eff) /\ SameFlags(d, eff)
      /\ eff.node = d.node /\ eff.fwFilters = d.fwFilters /\ eff.fwPeriodics = set
  BY DEF WithPeriodics, DeviceType, SameHost, SameFlags
<1> HIDE DEF eff
<1>2. e = ChannelCommand(d, o, eff)
  BY DEF eff
<1> QED BY <1>1, <1>2, Commanded DEF SameAdapter

\* A command that changes only the adapter's filters, to set.
LEMMA FiltersCommanded ==
    ASSUME NEW d \in DeviceType, NEW o \in Outcomes,
           NEW set \in SUBSET [fw : FwHandles, table : Tables],
           NEW e, e = ChannelCommand(d, o, WithFilters(d, set))
    PROVE  /\ e \in DeviceType /\ SameHost(d, e)
           /\ (e.receiver = "none") = (d.receiver = "none")
           /\ d.reopen => e.reopen
           /\ e.node = d.node /\ e.fwPeriodics = d.fwPeriodics
           /\ Accepted(d, o) => SameFlags(d, e) /\ d.usable
           /\ Accepted(d, o) /\ d.node \in {"none", d.protocol} => e.fwFilters = set
           /\ Out(d, o) \in {"refused", "unsent"} => e = d
           /\ Out(d, o) \in {"lost", "lostDone"} => e.reopen
<1> DEFINE eff == WithFilters(d, set)
<1>1. eff \in DeviceType /\ SameHost(d, eff) /\ SameFlags(d, eff)
      /\ eff.node = d.node /\ eff.fwFilters = set /\ eff.fwPeriodics = d.fwPeriodics
  BY DEF WithFilters, DeviceType, SameHost, SameFlags
<1> HIDE DEF eff
<1>2. e = ChannelCommand(d, o, eff)
  BY DEF eff
<1> QED BY <1>1, <1>2, Commanded DEF SameAdapter

\* clear_periodic_table: after success nothing is left on either side.
LEMMA PeriodicsCleared ==
    ASSUME NEW d \in DeviceType, NEW o \in Outcomes, NEW r, r = ClearPeriodics(d, o)
    PROVE  /\ r.dev \in DeviceType /\ r.ok = Accepted(d, o)
           /\ r.dev.exists = d.exists /\ r.dev.closed = d.closed
           /\ r.dev.wireOpen = d.wireOpen /\ r.dev.channel = d.channel
           /\ r.dev.protocol = d.protocol /\ r.dev.filters = d.filters
           /\ (r.dev.receiver = "none") = (d.receiver = "none")
           /\ r.dev.node = d.node /\ r.dev.fwFilters = d.fwFilters
           /\ d.reopen => r.dev.reopen
           /\ r.ok => SameFlags(d, r.dev) /\ r.dev.periodics = {} /\ ~r.dev.untracked
           /\ r.ok /\ d.node \in {"none", d.protocol} => r.dev.fwPeriodics = {}
           /\ ~r.ok => /\ r.dev.periodics = d.periodics
                       /\ r.dev.untracked = d.untracked
                       /\ r.dev.fwPeriodics \in {d.fwPeriodics, {}}
                       /\ r.dev = d \/ r.dev.reopen
<1> DEFINE e == ChannelCommand(d, o, [d EXCEPT !.fwPeriodics = {}])
<1>0. e = ChannelCommand(d, o, WithPeriodics(d, {}))
  BY DEF WithPeriodics
<1> HIDE DEF e
<1>1. /\ e \in DeviceType /\ SameHost(d, e)
      /\ (e.receiver = "none") = (d.receiver = "none")
      /\ d.reopen => e.reopen
      /\ e.node = d.node /\ e.fwFilters = d.fwFilters
      /\ e.fwPeriodics \in {d.fwPeriodics, {}}
      /\ Accepted(d, o) => SameFlags(d, e)
      /\ Accepted(d, o) /\ d.node \in {"none", d.protocol} => e.fwPeriodics = {}
      /\ Out(d, o) \in {"refused", "unsent"} => e = d
      /\ Out(d, o) \in {"lost", "lostDone"} => e.reopen
  BY <1>0, PeriodicsCommanded
<1>2. Accepted(d, o) \in BOOLEAN /\ (~Accepted(d, o) =>
        Out(d, o) \in {"refused", "unsent", "lost", "lostDone"})
  BY DEF Accepted, Out, Outcomes
<1>3. r = IF Accepted(d, o)
          THEN Ret([e EXCEPT !.periodics = {}, !.untracked = FALSE], TRUE)
          ELSE Ret(e, FALSE)
  BY DEF ClearPeriodics, e
<1>4. CASE Accepted(d, o)
  <2> DEFINE g == [e EXCEPT !.periodics = {}, !.untracked = FALSE]
  <2>1. /\ g \in DeviceType /\ g.periodics = {} /\ g.untracked = FALSE
        /\ g.exists = e.exists /\ g.closed = e.closed /\ g.wireOpen = e.wireOpen
        /\ g.channel = e.channel /\ g.protocol = e.protocol /\ g.filters = e.filters
        /\ SameFlags(e, g) /\ SameAdapter(e, g)
    BY <1>1 DEF DeviceType, SameFlags, SameAdapter
  <2> HIDE DEF g
  <2>2. r.dev = g /\ r.ok = TRUE
    BY <1>3, <1>4 DEF Ret, g
  <2> QED BY <1>1, <1>2, <1>4, <2>1, <2>2 DEF SameHost, SameFlags, SameAdapter
<1>5. CASE ~Accepted(d, o)
  <2>1. r.dev = e /\ r.ok = FALSE
    BY <1>3, <1>5 DEF Ret
  <2> QED BY <1>1, <1>2, <1>5, <2>1 DEF SameHost
<1> QED BY <1>4, <1>5

\* cCloseChannel: after success the adapter has no channel and no filters.
LEMMA ChannelClosed ==
    ASSUME NEW d \in DeviceType, NEW o \in Outcomes, NEW r, r = CloseChannel(d, o)
    PROVE  /\ r.dev \in DeviceType /\ r.ok = Accepted(d, o)
           /\ r.dev.exists = d.exists /\ r.dev.closed = d.closed
           /\ r.dev.untracked = d.untracked /\ r.dev.channel = d.channel
           /\ r.dev.filters = d.filters /\ r.dev.periodics = d.periodics
           /\ (r.dev.receiver = "none") = (d.receiver = "none")
           /\ r.dev.fwPeriodics = d.fwPeriodics
           /\ d.reopen => r.dev.reopen
           /\ r.ok => ~r.dev.wireOpen
           /\ r.ok /\ d.node \in {"none", d.protocol} =>
                r.dev.node = "none" /\ r.dev.fwFilters = {}
<1> DEFINE eff == [d EXCEPT !.node = "none", !.fwFilters = {}]
           e == ChannelCommand(d, o, eff)
<1>1. eff \in DeviceType /\ SameHost(d, eff) /\ SameFlags(d, eff)
      /\ eff.node = "none" /\ eff.fwFilters = {} /\ eff.fwPeriodics = d.fwPeriodics
  BY DEF DeviceType, SameHost, SameFlags
<1> HIDE DEF eff
<1>2. /\ e \in DeviceType /\ SameHost(d, e)
      /\ (e.receiver = "none") = (d.receiver = "none")
      /\ d.reopen => e.reopen
      /\ e.fwPeriodics = d.fwPeriodics
      /\ Accepted(d, o) /\ d.node \in {"none", d.protocol} => e = eff
  BY <1>1, Commanded DEF SameAdapter
<1>3. r = IF Accepted(d, o) THEN Ret([e EXCEPT !.wireOpen = FALSE], TRUE)
          ELSE Ret(e, FALSE)
  BY DEF CloseChannel, eff
<1> HIDE DEF e
<1>4. CASE Accepted(d, o)
  <2> DEFINE g == [e EXCEPT !.wireOpen = FALSE]
  <2>1. /\ g \in DeviceType /\ g.wireOpen = FALSE
        /\ g.exists = e.exists /\ g.closed = e.closed /\ g.untracked = e.untracked
        /\ g.channel = e.channel /\ g.filters = e.filters /\ g.periodics = e.periodics
        /\ SameFlags(e, g) /\ SameAdapter(e, g)
    BY <1>2 DEF DeviceType, SameFlags, SameAdapter
  <2> HIDE DEF g
  <2>2. r.dev = g /\ r.ok = TRUE
    BY <1>3, <1>4 DEF Ret, g
  <2> QED
    BY ZenonT(60), <1>1, <1>2, <1>4, <2>1, <2>2
    DEF SameHost, SameFlags, SameAdapter, Accepted
<1>5. CASE ~Accepted(d, o)
  <2>1. r.dev = e /\ r.ok = FALSE
    BY <1>3, <1>5 DEF Ret
  <2>2. r.ok = Accepted(d, o)
    <3>1. Accepted(d, o) \in BOOLEAN
      BY DEF Accepted
    <3> QED BY <1>5, <2>1, <3>1
  <2> QED BY <1>2, <2>1, <2>2 DEF SameHost
<1> QED BY <1>4, <1>5

---------------------------------------------------------------------------
(* What each call leaves behind.                                           *)

\* The parts of d that are the same in the device e a call on its channel
\* leaves.
SameChannel(d, e) ==
    e.exists = d.exists /\ e.closed = d.closed /\ e.channel = d.channel

\* e has no entry that d has not.
Shrinks(d, e) ==
    SameChannel(d, e) /\ e.filters \subseteq d.filters /\ e.periodics \subseteq d.periodics

\* e has at most one more entry than d, and its ID is n.
Grows(d, e, n) ==
    \/ Shrinks(d, e)
    \/ /\ SameChannel(d, e) /\ e.filters = d.filters
       /\ \E fw \in FwHandles : e.periodics = d.periodics \cup {[id |-> n, fw |-> fw]}
    \/ /\ SameChannel(d, e) /\ e.periodics = d.periodics
       /\ \E fw \in FwHandles, table \in Tables :
            e.filters = d.filters \cup {[id |-> n, fw |-> fw, table |-> table]}

\* A smaller table is within its limits.
LEMMA TableShrinks ==
    ASSUME NEW d, NEW e, TableInv(d),
           e.filters \subseteq d.filters, e.periodics \subseteq d.periodics
    PROVE  TableInv(e)
<1>1. IsFiniteSet(e.periodics) /\ Cardinality(e.periodics) <= Cardinality(d.periodics)
  BY FS_Subset DEF TableInv
<1>2. IsFiniteSet(e.filters) /\ IsFiniteSet(InTable(d.filters, "flow"))
  BY FS_Subset DEF TableInv, InTable
<1>3. /\ IsFiniteSet(InTable(e.filters, "flow"))
      /\ Cardinality(InTable(e.filters, "flow")) <= Cardinality(InTable(d.filters, "flow"))
  BY <1>2, FS_Subset DEF InTable
<1>4. /\ Cardinality(e.periodics) \in Nat /\ Cardinality(d.periodics) \in Nat
      /\ Cardinality(InTable(e.filters, "flow")) \in Nat
      /\ Cardinality(InTable(d.filters, "flow")) \in Nat
  BY <1>1, <1>2, <1>3, FS_CardinalityType DEF TableInv
<1> QED BY <1>1, <1>2, <1>3, <1>4, DeviceAssumption DEF TableInv

\* A table below its limit has room for one more entry.
LEMMA AddOne ==
    ASSUME NEW S, NEW x, NEW n \in Nat, IsFiniteSet(S), Cardinality(S) < n
    PROVE  IsFiniteSet(S \cup {x}) /\ Cardinality(S \cup {x}) <= n
<1>1. Cardinality(S) \in Nat
  BY FS_CardinalityType
<1> QED BY <1>1, FS_AddElement

\* A device that differs only in its flags, and vouches for no more.
LEMMA SameInv ==
    ASSUME NEW d, NEW e \in DeviceType, DevInv(d), SameHost(d, e), SameAdapter(d, e),
           (e.receiver = "none") = (d.receiver = "none"), d.reopen => e.reopen
    PROVE  DevInv(e) /\ Shrinks(d, e)
<1>1. TableInv(e)
  BY TableShrinks DEF DevInv, SameHost
<1>2. ChannelInv(e)
  BY DEF DevInv, ChannelInv, SameHost, SameAdapter
<1>3. Certain(e) => Certain(d)
  BY DEF Certain, SameHost
<1>4. AdapterInv(e)
  BY <1>3 DEF DevInv, AdapterInv, HadPeriodic, SameHost, SameAdapter
<1> QED BY <1>1, <1>2, <1>4 DEF DevInv, Shrinks, SameChannel, SameHost

\* A device marked for reopening: only what a later clear needs is left to
\* keep.
LEMMA DoubtInv ==
    ASSUME NEW d, NEW e \in DeviceType, DevInv(d), SameChannel(d, e),
           e.wireOpen = d.wireOpen, e.protocol = d.protocol, e.node = d.node,
           e.filters = d.filters, e.periodics = d.periodics,
           (e.receiver = "none") = (d.receiver = "none"), e.reopen,
           e.channel # 0 /\ ~HadPeriodic(e) => e.fwPeriodics = {}
    PROVE  DevInv(e) /\ Shrinks(d, e)
<1>1. TableInv(e)
  BY TableShrinks DEF DevInv
<1>2. ChannelInv(e)
  BY DEF DevInv, ChannelInv, SameChannel
<1>3. AdapterInv(e)
  BY DEF AdapterInv, Certain
<1> QED BY <1>1, <1>2, <1>3 DEF DevInv, Shrinks

\* uncertain_channel marks the device and touches nothing else.
LEMMA UncertainMarks ==
    ASSUME NEW d \in DeviceType, NEW e, e = Uncertain(d)
    PROVE  /\ e \in DeviceType /\ SameHost(d, e) /\ SameAdapter(d, e) /\ e.reopen
           /\ (e.receiver = "none") = (d.receiver = "none")
<1>1. e = [d EXCEPT !.reopen = TRUE, !.receiver = Halt(d.receiver)]
  BY DEF Uncertain, DeviceType
<1>2. Halt(d.receiver) \in {"none", "stopped"}
      /\ (Halt(d.receiver) = "none") = (d.receiver = "none")
  BY DEF Halt
<1> QED BY <1>1, <1>2 DEF DeviceType, SameHost, SameAdapter

\* retire_channel
LEMMA Retired ==
    ASSUME NEW d \in DeviceType, NEW e, e = Retire(d)
    PROVE  /\ e \in DeviceType /\ SameAdapter(d, e)
           /\ e.exists = d.exists /\ e.closed = d.closed /\ e.wireOpen = d.wireOpen
           /\ e.untracked = d.untracked /\ e.protocol = d.protocol
           /\ e.reopen = d.reopen /\ e.usable = d.usable
           /\ e.receiver = "none" /\ e.filters = {} /\ e.periodics = {} /\ e.channel = 0
<1>1. 0 \in 0 .. MaxHandle
  BY DeviceAssumption
<1>2. e \in DeviceType
  BY <1>1 DEF Retire, DeviceType
<1> QED BY <1>2 DEF Retire, DeviceType, SameAdapter

\* Commands that leave the adapter's tables alone.
LEMMA ExchangeKeeps ==
    ASSUME NEW d, DevInv(d), NEW o \in Outcomes, NEW r,
           r \in {Exchange(d, o), GetValue(d, o), Read(d)}
    PROVE  DevInv(r.dev) /\ Shrinks(d, r.dev)
<1> d \in DeviceType
  BY DEF DevInv
<1>1. CASE r = Exchange(d, o)
  <2>1. r.dev = ChannelCommand(d, o, d)
    BY <1>1 DEF Exchange, Ret
  <2>2. /\ r.dev \in DeviceType /\ SameHost(d, r.dev) /\ SameAdapter(d, r.dev)
        /\ (r.dev.receiver = "none") = (d.receiver = "none")
        /\ d.reopen => r.dev.reopen
    BY <2>1, Commanded DEF SameHost, SameFlags, SameAdapter
  <2> QED BY <2>2, SameInv
<1>2. CASE r = GetValue(d, o)
  <2>1. r.dev = Command(d, o, d)
    BY <1>2 DEF GetValue, Ret
  <2>2. r.dev \in {d, Fail(d)}
    BY <2>1 DEF Command
  <2>3. /\ Fail(d) \in DeviceType /\ SameHost(d, Fail(d)) /\ SameAdapter(d, Fail(d))
        /\ (Fail(d).receiver = "none") = (d.receiver = "none")
        /\ Fail(d).reopen = d.reopen
    BY Fails
  <2>4. /\ r.dev \in DeviceType /\ SameHost(d, r.dev) /\ SameAdapter(d, r.dev)
        /\ (r.dev.receiver = "none") = (d.receiver = "none")
        /\ d.reopen => r.dev.reopen
    BY <2>2, <2>3 DEF SameHost, SameAdapter
  <2> QED BY <2>4, SameInv
<1>3. CASE r = Read(d)
  BY <1>3 DEF Read, Ret, Shrinks, SameChannel
<1> QED BY <1>1, <1>2, <1>3

\* Disconnect: the channel is gone, and success means the adapter is silent.
LEMMA DisconnectLeaves ==
    ASSUME NEW d, DevInv(d), d.channel # 0, NEW o1 \in Outcomes, NEW o2 \in Outcomes,
           NEW r, r = Disconnect(d, o1, o2)
    PROVE  /\ DevInv(r.dev) /\ r.dev.channel = 0
           /\ r.dev.exists = d.exists /\ r.dev.closed = d.closed
           /\ r.ok => r.dev.fwPeriodics = {}
<1> d \in DeviceType
  BY DEF DevInv
<1> DEFINE s == Retire(d)
           c == IF HadPeriodic(d) THEN ClearPeriodics(s, o1) ELSE Ret(s, TRUE)
           e == CloseChannel(c.dev, o2)
           ok == c.ok /\ e.ok
<1>1. /\ s \in DeviceType /\ SameAdapter(d, s)
      /\ s.exists = d.exists /\ s.closed = d.closed /\ s.protocol = d.protocol
      /\ s.untracked = d.untracked
      /\ s.receiver = "none" /\ s.filters = {} /\ s.periodics = {} /\ s.channel = 0
  BY Retired
<1>2. s.node = s.protocol
  BY <1>1 DEF DevInv, ChannelInv, SameAdapter
<1>3. r = Ret([e.dev EXCEPT !.reopen = @ \/ ~ok], ok)
  BY DEF Disconnect
<1> HIDE DEF s
<1>4. /\ c.dev \in DeviceType /\ c.ok \in BOOLEAN
      /\ c.dev.exists = d.exists /\ c.dev.closed = d.closed
      /\ c.dev.node = c.dev.protocol /\ c.dev.receiver = "none"
      /\ c.dev.filters = {} /\ c.dev.periodics = {} /\ c.dev.channel = 0
      /\ c.ok => c.dev.fwPeriodics = {}
  <2>1. CASE HadPeriodic(d)
    <3>1. c = ClearPeriodics(s, o1) /\ Accepted(s, o1) \in BOOLEAN
      BY <2>1 DEF Accepted
    <3> HIDE DEF c
    <3>2. /\ c.dev \in DeviceType /\ c.ok = Accepted(s, o1)
          /\ c.dev.exists = s.exists /\ c.dev.closed = s.closed
          /\ c.dev.channel = s.channel
          /\ c.dev.protocol = s.protocol /\ c.dev.filters = s.filters
          /\ (c.dev.receiver = "none") = (s.receiver = "none")
          /\ c.dev.node = s.node
          /\ c.ok => c.dev.periodics = {}
          /\ c.ok /\ s.node \in {"none", s.protocol} => c.dev.fwPeriodics = {}
          /\ ~c.ok => c.dev.periodics = s.periodics
      BY <1>1, <3>1, PeriodicsCleared
    <3> QED BY <1>1, <1>2, <3>1, <3>2
  <2>2. CASE ~HadPeriodic(d)
    <3>1. c.dev = s /\ c.ok = TRUE
      BY <2>2 DEF Ret
    <3>2. d.fwPeriodics = {}
      BY <2>2 DEF DevInv, AdapterInv
    <3> QED BY <1>1, <1>2, <3>1, <3>2 DEF SameAdapter
  <2> QED BY <2>1, <2>2
<1> HIDE DEF c
<1>5. /\ e.dev \in DeviceType /\ e.ok \in BOOLEAN
      /\ e.dev.exists = d.exists /\ e.dev.closed = d.closed
      /\ e.dev.receiver = "none" /\ e.dev.channel = 0
      /\ e.dev.filters = {} /\ e.dev.periodics = {}
      /\ e.dev.fwPeriodics = c.dev.fwPeriodics
      /\ e.ok => ~e.dev.wireOpen /\ e.dev.node = "none" /\ e.dev.fwFilters = {}
  <2>1. Accepted(c.dev, o2) \in BOOLEAN
    BY DEF Accepted
  <2> QED BY <1>4, <2>1, ChannelClosed
<1> HIDE DEF e
<1>6. ok \in BOOLEAN
  OBVIOUS
<1> DEFINE g == [e.dev EXCEPT !.reopen = e.dev.reopen \/ ~ok]
<1>7. r.dev = g /\ r.ok = ok
  BY <1>3, <1>5 DEF Ret, DeviceType
<1>8. /\ g \in DeviceType /\ SameHost(e.dev, g) /\ SameAdapter(e.dev, g)
      /\ g.receiver = e.dev.receiver /\ (~ok => g.reopen)
  BY ZenonT(60), <1>5, <1>6 DEF DeviceType, SameHost, SameAdapter
<1> HIDE DEF g
<1>9. TableInv(g)
  BY <1>5, <1>8, TableShrinks DEF DevInv, SameHost
<1>10. ChannelInv(g)
  BY <1>5, <1>8 DEF ChannelInv, SameHost
<1>11. AdapterInv(g)
  BY <1>4, <1>5, <1>8 DEF AdapterInv, Certain, SameHost, SameAdapter
<1> QED
  BY <1>4, <1>5, <1>7, <1>8, <1>9, <1>10, <1>11 DEF DevInv, SameHost, SameAdapter

\* Close: the device is closed and has neither channel nor entries.
LEMMA CloseLeaves ==
    ASSUME NEW d, DevInv(d), NEW o1 \in Outcomes, NEW o2 \in Outcomes,
           NEW o3 \in Outcomes, NEW clean \in BOOLEAN,
           NEW r, r = Close(d, o1, o2, o3, clean)
    PROVE  /\ DevInv(r.dev) /\ r.dev.channel = 0
           /\ r.dev.exists = d.exists /\ r.dev.closed
<1> d \in DeviceType
  BY DEF DevInv
<1> DEFINE s == [Retire(d) EXCEPT !.closed = TRUE]
           c == IF d.wireOpen /\ HadPeriodic(d) THEN ClearPeriodics(s, o1)
                ELSE Ret(s, TRUE)
           e == IF d.wireOpen THEN CloseChannel(c.dev, o2) ELSE Ret(c.dev, TRUE)
           f == Command(e.dev, o3, e.dev)
           Gone(x) == /\ x \in DeviceType /\ x.exists = d.exists /\ x.closed
                      /\ x.receiver = "none" /\ x.channel = 0
                      /\ x.filters = {} /\ x.periodics = {}
<1>1. Gone(s)
  <2>1. /\ Retire(d) \in DeviceType /\ Retire(d).exists = d.exists
        /\ Retire(d).receiver = "none" /\ Retire(d).channel = 0
        /\ Retire(d).filters = {} /\ Retire(d).periodics = {}
    BY Retired
  <2> QED BY <2>1 DEF DeviceType
<1>2. r = Ret([f EXCEPT !.usable = FALSE], c.ok /\ e.ok /\ Accepted(e.dev, o3) /\ clean)
  BY DEF Close
<1> HIDE DEF s
<1>3. Gone(c.dev)
  <2>1. CASE c = ClearPeriodics(s, o1)
    <3> HIDE DEF c
    <3>1. Accepted(s, o1) \in BOOLEAN
      BY DEF Accepted
    <3> QED BY <1>1, <2>1, <3>1, PeriodicsCleared
  <2>2. CASE c = Ret(s, TRUE)
    BY <1>1, <2>2 DEF Ret
  <2> QED BY <2>1, <2>2
<1> HIDE DEF c
<1>4. Gone(e.dev)
  <2>1. CASE e = CloseChannel(c.dev, o2)
    <3> HIDE DEF e
    <3> QED BY <1>3, <2>1, ChannelClosed
  <2>2. CASE e = Ret(c.dev, TRUE)
    BY <1>3, <2>2 DEF Ret
  <2> QED BY <2>1, <2>2
<1> HIDE DEF e
<1>5. Gone(f)
  <2>1. f \in {e.dev, Fail(e.dev)}
    BY DEF Command
  <2>2. /\ Fail(e.dev) \in DeviceType /\ SameHost(e.dev, Fail(e.dev))
        /\ (Fail(e.dev).receiver = "none") = (e.dev.receiver = "none")
    BY <1>4, Fails
  <2>3. Gone(Fail(e.dev))
    BY <1>4, <2>2 DEF SameHost
  <2> QED BY <1>4, <2>1, <2>3
<1> HIDE DEF f
<1>6. Gone(r.dev)
  <2>1. Gone([f EXCEPT !.usable = FALSE])
    BY ZenonT(60), <1>5 DEF DeviceType
  <2>2. r.dev = [f EXCEPT !.usable = FALSE]
    BY <1>2 DEF Ret
  <2> QED BY <2>1, <2>2
<1>7. TableInv(r.dev)
  BY <1>6, TableShrinks DEF DevInv
<1> QED BY <1>6, <1>7 DEF DevInv, ChannelInv, AdapterInv, Certain

\* Connect: on success the device has the new channel; on failure it has
\* none, and the adapter has none either unless the device is marked.
LEMMA ConnectLeaves ==
    ASSUME NEW d, DevInv(d), Certain(d), d.channel = 0,
           NEW id \in Handles, NEW p \in Protocols,
           NEW o1 \in Outcomes, NEW o2 \in Outcomes, NEW o3 \in Outcomes,
           NEW r, r = Connect(d, id, p, o1, o2, o3)
    PROVE  /\ DevInv(r.dev) /\ r.dev.exists = d.exists /\ r.dev.closed = d.closed
           /\ r.dev.filters = {} /\ r.dev.periodics = {}
           /\ r.ok \in BOOLEAN /\ r.dev.channel = IF r.ok THEN id ELSE 0
<1> d \in DeviceType
  BY DEF DevInv
<1> DEFINE d0 == [d EXCEPT !.protocol = p]
           eff == [d0 EXCEPT !.node = p]
           d1 == ChannelCommand(d0, o1, eff)
           d2 == [d1 EXCEPT !.wireOpen = TRUE]
           d3 == ChannelCommand(d2, o2, d2)
           undone == CloseChannel(d3, o3)
           Bare(x) == /\ x \in DeviceType /\ x.exists = d.exists /\ x.closed = d.closed
                      /\ x.channel = 0 /\ x.receiver = "none"
                      /\ x.filters = {} /\ x.periodics = {}
                      /\ x.untracked = d.untracked /\ x.fwPeriodics = d.fwPeriodics
\* A device without a channel keeps the invariant if it is marked, or if
\* there is no channel on the adapter's side.
<1>a. ASSUME NEW x, Bare(x),
             x.reopen \/ (~x.wireOpen /\ x.node = "none" /\ x.fwFilters = {})
      PROVE  DevInv(x)
  <2>1. TableInv(x)
    BY <1>a, TableShrinks DEF DevInv
  <2>2. AdapterInv(x)
    BY <1>a DEF DevInv, AdapterInv, ChannelInv, HadPeriodic, Certain
  <2> QED BY <1>a, <2>1, <2>2 DEF DevInv, ChannelInv
<1>1. r = IF ~Accepted(d0, o1) THEN Ret(d1, FALSE)
          ELSE IF Accepted(d2, o2)
          THEN Ret([d3 EXCEPT !.channel = id, !.receiver = "live"], TRUE)
          ELSE IF d3.reopen THEN Ret(d3, FALSE)
          ELSE Ret([undone.dev EXCEPT !.reopen = @ \/ ~undone.ok], FALSE)
  BY DEF Connect
<1>2. /\ Bare(d0) /\ d0.protocol = p /\ ~d0.reopen
      /\ ~d0.wireOpen /\ d0.node = "none" /\ d0.fwFilters = {}
  <2>1. /\ d.receiver = "none" /\ d.filters = {} /\ d.periodics = {} /\ ~d.reopen
        /\ ~d.wireOpen /\ d.node = "none" /\ d.fwFilters = {}
    BY DEF DevInv, ChannelInv, AdapterInv, Certain
  <2> QED BY <2>1 DEF DeviceType
<1> HIDE DEF d0
<1>3. /\ eff \in DeviceType /\ SameHost(d0, eff) /\ SameFlags(d0, eff)
      /\ eff.node = p /\ eff.fwFilters = {} /\ eff.fwPeriodics = d0.fwPeriodics
  BY <1>2 DEF DeviceType, SameHost, SameFlags
<1> HIDE DEF eff
<1>4. /\ Bare(d1) /\ d1.protocol = p
      /\ Accepted(d0, o1) => d1 = eff
      /\ Out(d0, o1) \in {"refused", "unsent"} => d1 = d0
      /\ Out(d0, o1) \in {"lost", "lostDone"} => d1.reopen
  <2>1. /\ d1 \in DeviceType /\ SameHost(d0, d1)
        /\ (d1.receiver = "none") = (d0.receiver = "none")
        /\ SameAdapter(d0, d1) \/ SameAdapter(eff, d1)
        /\ Accepted(d0, o1) /\ d0.node \in {"none", d0.protocol} => d1 = eff
        /\ Out(d0, o1) \in {"refused", "unsent"} => d1 = d0
        /\ Out(d0, o1) \in {"lost", "lostDone"} => d1.reopen
    BY <1>2, <1>3, Commanded
  <2> HIDE DEF d1
  <2> QED BY <1>2, <1>3, <2>1 DEF SameHost, SameAdapter
<1> HIDE DEF d1
<1>5. CASE ~Accepted(d0, o1)
  <2>1. Out(d0, o1) \in {"refused", "unsent", "lost", "lostDone"}
    BY <1>5 DEF Accepted, Out, Outcomes
  <2>2. r.dev = d1 /\ r.ok = FALSE
    BY <1>1, <1>5 DEF Ret
  <2>3. DevInv(d1)
    BY <1>2, <1>4, <1>a, <2>1
  <2> QED BY <1>4, <2>2, <2>3
<1>6. CASE Accepted(d0, o1)
  <2>1. /\ Bare(d2) /\ d2.protocol = p /\ d2.wireOpen /\ d2.node = p /\ d2.fwFilters = {}
        /\ d2.reopen = FALSE
    <3>1. Bare(d1) /\ d1.protocol = p /\ d1.node = p /\ d1.fwFilters = {} /\ ~d1.reopen
      BY <1>2, <1>3, <1>4, <1>6 DEF SameFlags
    <3> QED BY <3>1 DEF DeviceType
  <2> HIDE DEF d2
  <2>2. /\ Bare(d3) /\ d3.protocol = p /\ d3.wireOpen /\ d3.node = p /\ d3.fwFilters = {}
        /\ Accepted(d2, o2) => d3.reopen = FALSE
    <3>0. SameHost(d2, d2) /\ SameFlags(d2, d2) /\ d2 \in DeviceType
      BY <2>1 DEF SameHost, SameFlags
    <3>1. /\ d3 \in DeviceType /\ SameHost(d2, d3) /\ SameAdapter(d2, d3)
          /\ (d3.receiver = "none") = (d2.receiver = "none")
          /\ Accepted(d2, o2) => SameFlags(d2, d3)
      BY <3>0, Commanded
    <3> HIDE DEF d3
    <3> QED BY <2>1, <3>1 DEF SameHost, SameAdapter, SameFlags
  <2> HIDE DEF d3
  <2>3. CASE Accepted(d2, o2)
    <3> DEFINE g == [d3 EXCEPT !.channel = id, !.receiver = "live"]
    <3>1. r.dev = g /\ r.ok = TRUE
      BY <1>1, <1>6, <2>3 DEF Ret
    <3>2. id \in 0 .. MaxHandle /\ id # 0
      BY DEF Handles
    <3>3. /\ g \in DeviceType /\ g.channel = id /\ g.receiver = "live"
          /\ g.exists = d.exists /\ g.closed = d.closed /\ g.wireOpen
          /\ g.node = g.protocol /\ g.filters = {} /\ g.periodics = {}
          /\ g.fwFilters = {} /\ g.untracked = d.untracked
          /\ g.fwPeriodics = d.fwPeriodics
      BY <2>2, <3>2 DEF DeviceType
    <3> HIDE DEF g
    <3>4. TableInv(g)
      BY <3>3, TableShrinks DEF DevInv
    <3>5. ChannelInv(g)
      BY <3>2, <3>3 DEF ChannelInv, DevInv, Certain
    <3>6. ~d.untracked => d.fwPeriodics = {}
      BY DEF DevInv, ChannelInv, AdapterInv, HadPeriodic
    <3>7. AdapterInv(g)
      BY <3>2, <3>3, <3>6 DEF AdapterInv, HadPeriodic
    <3> QED BY <3>1, <3>3, <3>4, <3>5, <3>7 DEF DevInv
  <2>4. CASE ~Accepted(d2, o2) /\ d3.reopen
    <3>1. r.dev = d3 /\ r.ok = FALSE
      BY <1>1, <1>6, <2>4 DEF Ret
    <3>2. DevInv(d3)
      BY <1>a, <2>2, <2>4
    <3> QED BY <2>2, <3>1, <3>2
  <2>5. CASE ~Accepted(d2, o2) /\ ~d3.reopen
    <3> DEFINE u == undone.dev
               g == [u EXCEPT !.reopen = u.reopen \/ ~undone.ok]
    <3>1. /\ Bare(u) /\ undone.ok \in BOOLEAN
          /\ undone.ok => ~u.wireOpen /\ u.node = "none" /\ u.fwFilters = {}
      <4>1. Accepted(d3, o3) \in BOOLEAN
        BY DEF Accepted
      <4> QED BY <2>2, <4>1, ChannelClosed
    <3>2. r.dev = g /\ r.ok = FALSE
      <4>1. u \in DeviceType
        BY <3>1
      <4> HIDE DEF undone
      <4> QED BY <1>1, <1>6, <2>5, <4>1 DEF Ret, DeviceType
    <3> HIDE DEF undone
    <3>3. /\ Bare(g) /\ (~undone.ok => g.reopen)
          /\ undone.ok => ~g.wireOpen /\ g.node = "none" /\ g.fwFilters = {}
      BY <3>1 DEF DeviceType
    <3> HIDE DEF g
    <3>4. DevInv(g)
      BY <1>a, <3>1, <3>3
    <3> QED BY <3>2, <3>3, <3>4
  <2> QED BY <2>3, <2>4, <2>5
<1> QED BY <1>5, <1>6

\* StartPeriodicMsg: whatever happens, the adapter holds no message the
\* device does not track or know to be untracked.
LEMMA StartPeriodicKeeps ==
    ASSUME NEW d, DevInv(d), Certain(d), d.channel # 0, MayStartPeriodic(d),
           NEW id \in Handles, NEW fw \in FwHandles, fw \notin d.fwPeriodics,
           NEW o1 \in Outcomes, NEW o2 \in Outcomes, NEW stored \in BOOLEAN,
           NEW r, r = StartPeriodic(d, id, fw, o1, stored, o2)
    PROVE  DevInv(r.dev) /\ Grows(d, r.dev, id)
<1> d \in DeviceType
  BY DEF DevInv
<1> DEFINE d0 == [d EXCEPT !.untracked = TRUE]
           e == ChannelCommand(d0, o1, [d0 EXCEPT !.fwPeriodics = @ \cup {fw}])
           f == ChannelCommand(e, o2, [e EXCEPT !.fwPeriodics = @ \ {fw}])
           new == [id |-> id, fw |-> fw]
           \* x is d but for its flags and the adapter's periodic messages.
           Like(x) == /\ x \in DeviceType /\ SameChannel(d, x)
                      /\ x.wireOpen = d.wireOpen /\ x.protocol = d.protocol
                      /\ x.node = d.node /\ x.fwFilters = d.fwFilters
                      /\ x.filters = d.filters /\ x.periodics = d.periodics
                      /\ (x.receiver = "none") = (d.receiver = "none")
<1>1. /\ d0 \in DeviceType /\ Like(d0) /\ d0.untracked = TRUE
      /\ d0.usable = d.usable /\ d0.reopen = FALSE /\ d0.fwPeriodics = d.fwPeriodics
  BY DEF DeviceType, SameChannel, Certain
<1>2. Out(d0, o1) = Out(d, o1) /\ Out(d, o1) \in Outcomes
  BY <1>1 DEF Out, Outcomes
<1>3. r = CASE Out(d, o1) = "refused" -> Ret([e EXCEPT !.untracked = d.untracked], FALSE)
            [] Out(d, o1) = "short" -> Ret(Uncertain(e), FALSE)
            [] Out(d, o1) \in {"unsent", "lost", "lostDone"} -> Ret(e, FALSE)
            [] Out(d, o1) = "ok" /\ stored ->
                 Ret([e EXCEPT !.periodics = @ \cup {new},
                               !.untracked = d.untracked], TRUE)
            [] Out(d, o1) = "ok" /\ ~stored ->
                 Ret(IF Accepted(e, o2) THEN [f EXCEPT !.untracked = d.untracked]
                     ELSE Uncertain(f), FALSE)
  BY DEF StartPeriodic
<1>4. d.node \in {"none", d.protocol}
  BY DEF DevInv, ChannelInv
<1>5. /\ Like(e) /\ e.untracked = TRUE
      /\ Accepted(d0, o1) => e.reopen = FALSE /\ e.fwPeriodics = d.fwPeriodics \cup {fw}
      /\ Out(d, o1) \in {"refused", "unsent"} => e = d0
      /\ Out(d, o1) \in {"lost", "lostDone"} => e.reopen
  <2>1. e = ChannelCommand(d0, o1, WithPeriodics(d0, d0.fwPeriodics \cup {fw}))
        /\ d0.fwPeriodics \cup {fw} \in SUBSET FwHandles
    BY <1>1 DEF WithPeriodics, DeviceType
  <2> HIDE DEF e, d0
  <2>2. /\ e \in DeviceType /\ SameHost(d0, e)
        /\ (e.receiver = "none") = (d0.receiver = "none")
        /\ e.node = d0.node /\ e.fwFilters = d0.fwFilters
        /\ Accepted(d0, o1) => SameFlags(d0, e)
        /\ Accepted(d0, o1) /\ d0.node \in {"none", d0.protocol}
             => e.fwPeriodics = d0.fwPeriodics \cup {fw}
        /\ Out(d0, o1) \in {"refused", "unsent"} => e = d0
        /\ Out(d0, o1) \in {"lost", "lostDone"} => e.reopen
    BY <1>1, <2>1, PeriodicsCommanded
  <2> QED BY <1>1, <1>2, <1>4, <2>2 DEF SameHost, SameFlags, SameChannel
<1>6. /\ Like(f) /\ f.untracked = TRUE
      /\ Accepted(e, o2) /\ Accepted(d0, o1) =>
           f.reopen = FALSE /\ f.fwPeriodics = d.fwPeriodics
  <2>1. f = ChannelCommand(e, o2, WithPeriodics(e, e.fwPeriodics \ {fw}))
        /\ e.fwPeriodics \ {fw} \in SUBSET FwHandles
    BY <1>5 DEF WithPeriodics, DeviceType
  <2> HIDE DEF f, e, d0
  <2>2. /\ f \in DeviceType /\ SameHost(e, f)
        /\ (f.receiver = "none") = (e.receiver = "none")
        /\ f.node = e.node /\ f.fwFilters = e.fwFilters
        /\ Accepted(e, o2) => SameFlags(e, f)
        /\ Accepted(e, o2) /\ e.node \in {"none", e.protocol}
             => f.fwPeriodics = e.fwPeriodics \ {fw}
    BY <1>5, <2>1, PeriodicsCommanded
  <2> QED BY <1>4, <1>5, <2>2 DEF SameHost, SameFlags, SameChannel
\* A marked device that knows of an untracked message keeps the invariant.
<1>7. ASSUME NEW x, Like(x), x.untracked, x.reopen
      PROVE  DevInv(x) /\ Grows(d, x, id)
  BY <1>7, DoubtInv DEF HadPeriodic, Grows
\* So does a device whose messages are those of d.
<1>8. ASSUME NEW x, Like(x), x.fwPeriodics = d.fwPeriodics, ~x.reopen,
             x.untracked = d.untracked \/ x.untracked
      PROVE  DevInv(x) /\ Grows(d, x, id)
  <2>1. TableInv(x)
    BY <1>8, TableShrinks DEF DevInv
  <2>2. ChannelInv(x)
    BY <1>8 DEF DevInv, ChannelInv, SameChannel
  <2>3. AdapterInv(x)
    BY <1>8 DEF DevInv, AdapterInv, HadPeriodic, SameChannel, Certain
  <2> QED BY <1>8, <2>1, <2>2, <2>3 DEF DevInv, Grows, Shrinks
\* x is y but that it takes back the mark untracked.
<1>9. ASSUME NEW x, NEW y, Like(y), x = [y EXCEPT !.untracked = d.untracked]
      PROVE  /\ Like(x) /\ x.untracked = d.untracked
             /\ x.fwPeriodics = y.fwPeriodics /\ x.reopen = y.reopen
  BY <1>9 DEF DeviceType, SameChannel
<1>10. ASSUME NEW y, Like(y), y.untracked
       PROVE  DevInv(Uncertain(y)) /\ Grows(d, Uncertain(y), id)
  <2> DEFINE u == Uncertain(y)
  <2>1. /\ u \in DeviceType /\ SameHost(y, u) /\ SameAdapter(y, u) /\ u.reopen
        /\ (u.receiver = "none") = (y.receiver = "none")
    BY <1>10, UncertainMarks
  <2> HIDE DEF u
  <2>2. Like(u) /\ u.untracked
    BY <1>10, <2>1 DEF SameHost, SameAdapter, SameChannel
  <2>3. DevInv(u) /\ Grows(d, u, id)
    BY <1>7, <2>1, <2>2
  <2> QED BY <2>3 DEF u
<1> HIDE DEF d0, e, f
<1>11. CASE Out(d, o1) = "refused"
  <2>1. r.dev = [e EXCEPT !.untracked = d.untracked]
    BY <1>3, <1>11 DEF Ret
  <2> HIDE DEF Like
  <2> QED BY <1>1, <1>5, <1>8, <1>9, <1>11, <2>1
<1>12. CASE Out(d, o1) = "short"
  <2>1. r.dev = Uncertain(e)
    BY <1>3, <1>12 DEF Ret
  <2> HIDE DEF Like
  <2> QED BY <1>5, <1>10, <2>1
<1>13. CASE Out(d, o1) \in {"unsent", "lost", "lostDone"}
  <2>1. r.dev = e
    BY <1>3, <1>13 DEF Ret
  <2> HIDE DEF Like
  <2> QED BY <1>1, <1>5, <1>7, <1>8, <1>13, <2>1
<1>14. CASE Out(d, o1) = "ok" /\ stored
  <2> DEFINE g == [e EXCEPT !.periodics = d.periodics \cup {new},
                            !.untracked = d.untracked]
  <2>1. r.dev = g
    BY <1>3, <1>5, <1>14 DEF Ret, DeviceType
  <2>2. Accepted(d0, o1)
    BY <1>2, <1>14 DEF Accepted
  <2>3. d.periodics \cup {new} \in SUBSET [id : Handles, fw : FwHandles]
    BY DEF DeviceType
  <2>4. /\ g \in DeviceType /\ SameChannel(d, g)
        /\ g.wireOpen = d.wireOpen /\ g.protocol = d.protocol
        /\ g.node = d.node /\ g.fwFilters = d.fwFilters
        /\ g.filters = d.filters /\ g.periodics = d.periodics \cup {new}
        /\ (g.receiver = "none") = (d.receiver = "none")
        /\ g.untracked = d.untracked /\ g.fwPeriodics = d.fwPeriodics \cup {fw}
    BY ZenonT(60), <1>5, <2>2, <2>3 DEF DeviceType, SameChannel
  <2> HIDE DEF g
  <2>5. /\ IsFiniteSet(g.periodics) /\ Cardinality(g.periodics) <= MaxPeriodics
    <3>1. /\ IsFiniteSet(d.periodics) /\ Cardinality(d.periodics) < MaxPeriodics
      BY DEF DevInv, TableInv, MayStartPeriodic
    <3> HIDE DEF new
    <3>2. MaxPeriodics \in Nat /\ g.periodics = d.periodics \cup {new}
      BY <2>4, DeviceAssumption
    <3> QED BY <3>1, <3>2, AddOne
  <2>6. \A q \in d.periodics : q.fw # fw
    BY DEF DevInv, AdapterInv
  <2>7. TableInv(g)
    BY <2>4, <2>5, <2>6 DEF DevInv, TableInv
  <2>8. ChannelInv(g)
    BY <2>4 DEF DevInv, ChannelInv, SameChannel
  <2>9. AdapterInv(g)
    <3>1. new \in g.periodics /\ new.fw = fw
      BY <2>4
    <3>2. HadPeriodic(g)
      BY <3>1 DEF HadPeriodic
    <3>3. g.channel # 0
      BY <2>4 DEF SameChannel
    <3>4. \A p \in g.periodics : p.fw \in g.fwPeriodics
      BY <2>4, <3>1 DEF DevInv, AdapterInv
    <3>6. ASSUME ~g.untracked, NEW x \in g.fwPeriodics
          PROVE  \E p \in g.periodics : p.fw = x
      <4>1. CASE x = fw
        BY <3>1, <4>1
      <4>2. CASE x \in d.fwPeriodics
        <5>1. \E p \in d.periodics : p.fw = x
          BY <2>4, <3>6, <4>2 DEF DevInv, AdapterInv
        <5> QED BY <2>4, <5>1
      <4> QED BY <2>4, <3>6, <4>1, <4>2
    <3>5. /\ \A x \in g.filters : [fw |-> x.fw, table |-> x.table] \in g.fwFilters
          /\ \A y \in g.fwFilters :
               \E x \in g.filters : x.fw = y.fw /\ x.table = y.table
      BY <2>4 DEF DevInv, AdapterInv
    <3> QED BY <3>2, <3>3, <3>4, <3>5, <3>6 DEF AdapterInv
  <2>10. Grows(d, g, id)
    BY <2>4 DEF Grows
  <2> QED BY <2>1, <2>4, <2>7, <2>8, <2>9, <2>10 DEF DevInv
<1>15. CASE Out(d, o1) = "ok" /\ ~stored /\ Accepted(e, o2)
  <2>1. r.dev = [f EXCEPT !.untracked = d.untracked]
    BY <1>3, <1>15 DEF Ret
  <2>2. Accepted(d0, o1)
    BY <1>2, <1>15 DEF Accepted
  <2> HIDE DEF Like
  <2> QED BY <1>6, <1>8, <1>9, <1>15, <2>1, <2>2
<1>16. CASE Out(d, o1) = "ok" /\ ~stored /\ ~Accepted(e, o2)
  <2>1. r.dev = Uncertain(f)
    BY <1>3, <1>16 DEF Ret
  <2> HIDE DEF Like
  <2> QED BY <1>6, <1>10, <2>1
<1> QED BY <1>2, <1>11, <1>12, <1>13, <1>14, <1>15, <1>16 DEF Outcomes

\* StopPeriodicMsg: host and adapter forget the same message.
LEMMA StopPeriodicKeeps ==
    ASSUME NEW d, DevInv(d), Certain(d), d.channel # 0, NEW p \in d.periodics,
           NEW o \in Outcomes, NEW r, r = StopPeriodic(d, p, o)
    PROVE  DevInv(r.dev) /\ Shrinks(d, r.dev)
<1> d \in DeviceType
  BY DEF DevInv
<1> DEFINE e == ChannelCommand(d, o, [d EXCEPT !.fwPeriodics = @ \ {p.fw}])
<1>1. r = IF Accepted(d, o) THEN Ret([e EXCEPT !.periodics = @ \ {p}], TRUE)
          ELSE Ret(e, FALSE)
  BY DEF StopPeriodic
<1>2. e = ChannelCommand(d, o, WithPeriodics(d, d.fwPeriodics \ {p.fw}))
      /\ d.fwPeriodics \ {p.fw} \in SUBSET FwHandles
  BY DEF WithPeriodics, DeviceType
<1> HIDE DEF e
<1>3. /\ e \in DeviceType /\ SameHost(d, e)
      /\ (e.receiver = "none") = (d.receiver = "none")
      /\ e.node = d.node /\ e.fwFilters = d.fwFilters
      /\ Accepted(d, o) => SameFlags(d, e)
      /\ Accepted(d, o) /\ d.node \in {"none", d.protocol}
           => e.fwPeriodics = d.fwPeriodics \ {p.fw}
      /\ Out(d, o) \in {"refused", "unsent"} => e = d
      /\ Out(d, o) \in {"lost", "lostDone"} => e.reopen
  BY <1>2, PeriodicsCommanded
<1>4. CASE Accepted(d, o)
  <2> DEFINE g == [e EXCEPT !.periodics = d.periodics \ {p}]
  <2>1. r.dev = g
    BY <1>1, <1>3, <1>4 DEF Ret, SameHost, DeviceType
  <2>2. e.fwPeriodics = d.fwPeriodics \ {p.fw}
    BY <1>3, <1>4 DEF DevInv, ChannelInv
  <2>3. /\ g \in DeviceType /\ SameChannel(d, g)
        /\ g.wireOpen = d.wireOpen /\ g.protocol = d.protocol
        /\ g.node = d.node /\ g.fwFilters = d.fwFilters
        /\ g.filters = d.filters /\ g.periodics = d.periodics \ {p}
        /\ (g.receiver = "none") = (d.receiver = "none")
        /\ g.untracked = d.untracked /\ g.fwPeriodics = d.fwPeriodics \ {p.fw}
    <3>1. d.periodics \ {p} \in SUBSET [id : Handles, fw : FwHandles]
      BY DEF DeviceType
    <3> QED BY <1>3, <2>2, <3>1 DEF DeviceType, SameChannel, SameHost
  <2> HIDE DEF g
  <2>4. TableInv(g)
    BY <2>3, TableShrinks DEF DevInv
  <2>5. ChannelInv(g)
    BY <2>3 DEF DevInv, ChannelInv, SameChannel
  <2>6. \A q \in g.periodics : q.fw \in g.fwPeriodics
    BY <2>3 DEF DevInv, TableInv, AdapterInv
  <2>7. ~g.untracked => \A x \in g.fwPeriodics : \E q \in g.periodics : q.fw = x
    BY <2>3 DEF DevInv, AdapterInv
  <2>8. ~HadPeriodic(g) => g.fwPeriodics = {}
    BY <2>7 DEF HadPeriodic
  <2>9. /\ \A x \in g.filters : [fw |-> x.fw, table |-> x.table] \in g.fwFilters
        /\ \A y \in g.fwFilters :
             \E x \in g.filters : x.fw = y.fw /\ x.table = y.table
    BY <2>3 DEF DevInv, AdapterInv
  <2>10. AdapterInv(g)
    BY <2>3, <2>6, <2>7, <2>8, <2>9 DEF AdapterInv, SameChannel
  <2> QED BY <2>1, <2>3, <2>4, <2>5, <2>10 DEF DevInv, Shrinks
<1>5. CASE ~Accepted(d, o)
  <2>1. r.dev = e
    BY <1>1, <1>5 DEF Ret
  <2>2. e = d \/ e.reopen
    BY <1>3, <1>5 DEF Accepted, Out, Outcomes
  <2>3. HadPeriodic(e) /\ SameChannel(d, e)
    BY <1>3 DEF HadPeriodic, SameHost, SameChannel
  <2>4. CASE e.reopen
    BY <1>3, <2>1, <2>3, <2>4, DoubtInv DEF SameHost
  <2>5. CASE e = d
    BY <2>1, <2>5 DEF Shrinks, SameChannel
  <2> QED BY <2>2, <2>4, <2>5
<1> QED BY <1>4, <1>5

\* CLEAR_PERIODIC_MSGS
LEMMA ClearPeriodicsKeeps ==
    ASSUME NEW d, DevInv(d), Certain(d), d.channel # 0,
           NEW o \in Outcomes, NEW r, r = ClearPeriodicMsgs(d, o)
    PROVE  DevInv(r.dev) /\ Shrinks(d, r.dev)
<1> d \in DeviceType
  BY DEF DevInv
<1>1. CASE ~HadPeriodic(d)
  <2>1. r.dev = d
    BY <1>1 DEF ClearPeriodicMsgs, Ret
  <2> QED BY <2>1 DEF Shrinks, SameChannel
<1>2. CASE HadPeriodic(d)
  <2> DEFINE e == r.dev
  <2>1. r = ClearPeriodics(d, o) /\ Accepted(d, o) \in BOOLEAN
    BY <1>2 DEF ClearPeriodicMsgs, Accepted
  <2>2. /\ e \in DeviceType /\ r.ok \in BOOLEAN
        /\ e.exists = d.exists /\ e.closed = d.closed
        /\ e.wireOpen = d.wireOpen /\ e.channel = d.channel
        /\ e.protocol = d.protocol /\ e.filters = d.filters
        /\ (e.receiver = "none") = (d.receiver = "none")
        /\ e.node = d.node /\ e.fwFilters = d.fwFilters
        /\ r.ok => e.periodics = {} /\ ~e.untracked
        /\ r.ok /\ d.node \in {"none", d.protocol} => e.fwPeriodics = {}
        /\ ~r.ok => /\ e.periodics = d.periodics
                    /\ e.untracked = d.untracked
                    /\ e = d \/ e.reopen
    BY <2>1, PeriodicsCleared
  <2> HIDE DEF e
  <2>3. CASE r.ok
    <3>1. e.fwPeriodics = {}
      BY <2>2, <2>3 DEF DevInv, ChannelInv
    <3>2. TableInv(e)
      BY <2>2, <2>3, TableShrinks DEF DevInv
    <3>3. ChannelInv(e)
      BY <2>2, <2>3 DEF DevInv, ChannelInv
    <3>4. AdapterInv(e)
      BY <2>2, <2>3, <3>1 DEF DevInv, AdapterInv
    <3> QED BY <2>2, <2>3, <3>2, <3>3, <3>4 DEF DevInv, Shrinks, SameChannel, e
  <2>4. CASE ~r.ok /\ e.reopen
    <3>1. HadPeriodic(e) /\ SameChannel(d, e)
      BY <1>2, <2>2, <2>4 DEF HadPeriodic, SameChannel
    <3>2. DevInv(e) /\ Shrinks(d, e)
      BY <2>2, <2>4, <3>1, DoubtInv
    <3> QED BY <3>2 DEF e
  <2>5. CASE e = d
    BY <2>5 DEF Shrinks, SameChannel, e
  <2> QED BY <2>2, <2>3, <2>4, <2>5
<1> QED BY <1>1, <1>2

\* Filters of d and those of its adapter, where only these changed since a
\* state that kept the invariant.
LEMMA FiltersInv ==
    ASSUME NEW d, DevInv(d), Certain(d), d.channel # 0,
           NEW g \in DeviceType, SameChannel(d, g), TableInv(g),
           g.wireOpen = d.wireOpen, g.protocol = d.protocol, g.node = d.node,
           g.periodics = d.periodics, g.untracked = d.untracked,
           g.fwPeriodics = d.fwPeriodics,
           (g.receiver = "none") = (d.receiver = "none"),
           \/ g.reopen
           \/ /\ \A x \in g.filters : [fw |-> x.fw, table |-> x.table] \in g.fwFilters
              /\ \A y \in g.fwFilters :
                   \E x \in g.filters : x.fw = y.fw /\ x.table = y.table
    PROVE  DevInv(g)
<1>1. ChannelInv(g)
  BY DEF DevInv, ChannelInv, SameChannel
<1>2. HadPeriodic(g) <=> HadPeriodic(d)
  BY DEF HadPeriodic
<1>3. g.channel # 0 /\ (~HadPeriodic(g) => g.fwPeriodics = {})
  BY <1>2 DEF DevInv, AdapterInv, SameChannel
<1>4. /\ \A p \in g.periodics : p.fw \in g.fwPeriodics
      /\ ~g.untracked => \A fw \in g.fwPeriodics : \E p \in g.periodics : p.fw = fw
  BY DEF DevInv, AdapterInv
<1>5. AdapterInv(g)
  BY <1>3, <1>4 DEF AdapterInv, Certain
<1> QED BY <1>1, <1>5 DEF DevInv

\* A filter command on a certain channel, and the device as the host leaves
\* it: changed as little as FiltersInv asks.
Beside(d, g) ==
    /\ g \in DeviceType /\ SameChannel(d, g)
    /\ g.wireOpen = d.wireOpen /\ g.protocol = d.protocol /\ g.node = d.node
    /\ g.periodics = d.periodics /\ g.untracked = d.untracked
    /\ g.fwPeriodics = d.fwPeriodics
    /\ (g.receiver = "none") = (d.receiver = "none")

\* A filter command leaves the host's tables alone; it is clear what the
\* adapter's filters are unless the device is marked.
LEMMA FilterCommand ==
    ASSUME NEW d, DevInv(d), d.channel # 0, NEW o \in Outcomes,
           NEW set \in SUBSET [fw : FwHandles, table : Tables],
           NEW e, e = ChannelCommand(d, o, WithFilters(d, set))
    PROVE  /\ Beside(d, e) /\ e.filters = d.filters
           /\ Accepted(d, o) => e.fwFilters = set /\ e.reopen = d.reopen
           /\ ~Accepted(d, o) => e = d \/ e.reopen
<1>1. d \in DeviceType /\ d.node \in {"none", d.protocol}
  BY DEF DevInv, ChannelInv
<1>2. /\ e \in DeviceType /\ SameHost(d, e)
      /\ (e.receiver = "none") = (d.receiver = "none")
      /\ e.node = d.node /\ e.fwPeriodics = d.fwPeriodics
      /\ Accepted(d, o) => SameFlags(d, e)
      /\ Accepted(d, o) /\ d.node \in {"none", d.protocol} => e.fwFilters = set
      /\ Out(d, o) \in {"refused", "unsent"} => e = d
      /\ Out(d, o) \in {"lost", "lostDone"} => e.reopen
  BY <1>1, FiltersCommanded
<1>3. ~Accepted(d, o) => Out(d, o) \in {"refused", "unsent", "lost", "lostDone"}
  BY DEF Accepted, Out, Outcomes
<1> QED BY <1>1, <1>2, <1>3 DEF Beside, SameHost, SameFlags, SameChannel

\* After a filter command in doubt, or one that was not accepted, the host's
\* tables are as they were.
LEMMA FilterDoubt ==
    ASSUME NEW d, DevInv(d), Certain(d), d.channel # 0, NEW e, Beside(d, e),
           e.filters = d.filters, e = d \/ e.reopen
    PROVE  DevInv(e) /\ Shrinks(d, e)
<1>1. TableInv(e)
  BY TableShrinks DEF DevInv, Beside
<1>2. CASE e.reopen
  BY <1>1, <1>2, FiltersInv DEF Beside, Shrinks
<1>3. CASE e = d
  BY <1>3 DEF Shrinks, SameChannel
<1> QED BY <1>2, <1>3

\* Marking a device that is otherwise as before.
LEMMA FilterUncertain ==
    ASSUME NEW d, DevInv(d), Certain(d), d.channel # 0, NEW e, Beside(d, e),
           e.filters = d.filters, NEW u, u = Uncertain(e)
    PROVE  DevInv(u) /\ Shrinks(d, u)
<1>1. /\ u \in DeviceType /\ SameHost(e, u) /\ SameAdapter(e, u) /\ u.reopen
      /\ (u.receiver = "none") = (e.receiver = "none")
  BY UncertainMarks DEF Beside
<1>2. Beside(d, u) /\ u.filters = d.filters
  BY <1>1 DEF Beside, SameHost, SameAdapter, SameChannel
<1> QED BY <1>1, <1>2, FilterDoubt

\* StartMsgFilter
LEMMA StartFilterKeeps ==
    ASSUME NEW d, DevInv(d), Certain(d), d.channel # 0, NEW table \in Tables,
           MayStartFilter(d, table), NEW id \in Handles, NEW fw \in FwHandles,
           [fw |-> fw, table |-> table] \notin d.fwFilters,
           NEW o1 \in Outcomes, NEW o2 \in Outcomes, NEW stored \in BOOLEAN,
           NEW r, r = StartFilter(d, id, fw, table, o1, stored, o2)
    PROVE  DevInv(r.dev) /\ Grows(d, r.dev, id)
<1> d \in DeviceType
  BY DEF DevInv
<1> DEFINE new == [fw |-> fw, table |-> table]
           entry == [id |-> id, fw |-> fw, table |-> table]
           e == ChannelCommand(d, o1, [d EXCEPT !.fwFilters = @ \cup {new}])
           f == ChannelCommand(e, o2, [e EXCEPT !.fwFilters = @ \ {new}])
<1>1. r = CASE Out(d, o1) = "short" -> Ret(Uncertain(e), FALSE)
            [] Out(d, o1) \in {"refused", "unsent", "lost", "lostDone"} -> Ret(e, FALSE)
            [] Out(d, o1) = "ok" /\ stored ->
                 Ret([e EXCEPT !.filters = @ \cup {entry}], TRUE)
            [] Out(d, o1) = "ok" /\ ~stored ->
                 Ret(IF Accepted(e, o2) THEN f ELSE Uncertain(f), FALSE)
  BY DEF StartFilter
<1>2. /\ Beside(d, e) /\ e.filters = d.filters
      /\ Accepted(d, o1) => e.fwFilters = d.fwFilters \cup {new} /\ ~e.reopen
      /\ ~Accepted(d, o1) => e = d \/ e.reopen
  <2>1. e = ChannelCommand(d, o1, WithFilters(d, d.fwFilters \cup {new}))
        /\ d.fwFilters \cup {new} \in SUBSET [fw : FwHandles, table : Tables]
    BY DEF WithFilters, DeviceType
  <2>2. ~d.reopen
    BY DEF Certain
  <2> HIDE DEF e, new
  <2> QED BY <2>1, <2>2, FilterCommand
<1>3. Out(d, o1) \in Outcomes
  BY DEF Out, Outcomes
<1>4. ASSUME Out(d, o1) = "ok", ~stored
      PROVE  /\ Beside(d, f) /\ f.filters = d.filters
             /\ Accepted(e, o2) => f.fwFilters = d.fwFilters /\ ~f.reopen
  <2>1. e.fwFilters = d.fwFilters \cup {new} /\ ~e.reopen
    BY <1>2, <1>4 DEF Accepted
  <2>2. f = ChannelCommand(e, o2, WithFilters(e, e.fwFilters \ {new}))
        /\ e.fwFilters \ {new} \in SUBSET [fw : FwHandles, table : Tables]
    BY <1>2 DEF WithFilters, DeviceType, Beside
  <2>3. e.node \in {"none", e.protocol} /\ e \in DeviceType
    BY <1>2 DEF DevInv, ChannelInv, Beside
  <2> HIDE DEF e, f
  <2>4. /\ f \in DeviceType /\ SameHost(e, f)
        /\ (f.receiver = "none") = (e.receiver = "none")
        /\ f.node = e.node /\ f.fwPeriodics = e.fwPeriodics
        /\ Accepted(e, o2) => SameFlags(e, f)
        /\ Accepted(e, o2) /\ e.node \in {"none", e.protocol}
             => f.fwFilters = e.fwFilters \ {new}
    BY <2>2, <2>3, FiltersCommanded
  <2> QED BY <1>2, <2>1, <2>3, <2>4 DEF Beside, SameHost, SameFlags, SameChannel
<1> HIDE DEF e, f
<1>5. CASE Out(d, o1) = "short"
  <2>1. r.dev = Uncertain(e)
    BY <1>1, <1>5 DEF Ret
  <2> QED BY <1>2, <2>1, FilterUncertain DEF Grows
<1>6. CASE Out(d, o1) \in {"refused", "unsent", "lost", "lostDone"}
  <2>1. r.dev = e /\ ~Accepted(d, o1)
    BY <1>1, <1>6 DEF Ret, Accepted
  <2> QED BY <1>2, <2>1, FilterDoubt DEF Grows
<1>7. CASE Out(d, o1) = "ok" /\ stored
  <2> DEFINE g == [e EXCEPT !.filters = d.filters \cup {entry}]
  <2>1. r.dev = g
    <3>1. r.dev = [e EXCEPT !.filters = @ \cup {entry}]
      BY SMTT(30), <1>1, <1>7 DEF Ret
    <3>2. e \in DeviceType /\ e.filters = d.filters
      BY <1>2 DEF Beside
    <3> QED BY <3>1, <3>2 DEF DeviceType
  <2>2. e.fwFilters = d.fwFilters \cup {new} /\ e \in DeviceType
    BY <1>2, <1>7 DEF Accepted, Beside
  <2>3. d.filters \cup {entry} \in SUBSET [id : Handles, fw : FwHandles, table : Tables]
    BY DEF DeviceType
  <2>4. Beside(d, g) /\ g.filters = d.filters \cup {entry}
        /\ g.fwFilters = d.fwFilters \cup {new}
    BY <1>2, <2>2, <2>3 DEF DeviceType, Beside, SameChannel
  <2> HIDE DEF g
  <2>5. IsFiniteSet(d.filters) /\ IsFiniteSet(InTable(d.filters, "flow"))
        /\ Cardinality(InTable(d.filters, "flow")) <= MaxFlow
    BY FS_Subset DEF DevInv, TableInv, InTable
  <2>6. IsFiniteSet(g.filters)
    <3>1. g.filters = d.filters \cup {entry}
      BY <2>4
    <3> HIDE DEF entry
    <3> QED BY <2>5, <3>1, FS_AddElement
  <2>7. Cardinality(InTable(g.filters, "flow")) <= MaxFlow
    <3>1. CASE table # "flow"
      <4>1. InTable(g.filters, "flow") = InTable(d.filters, "flow")
        BY <2>4, <3>1 DEF InTable
      <4> QED BY <2>5, <4>1
    <3>2. CASE table = "flow"
      <4>1. InTable(g.filters, "flow") = InTable(d.filters, "flow") \cup {entry}
        BY <2>4, <3>2 DEF InTable
      <4>2. Cardinality(InTable(d.filters, "flow")) < MaxFlow /\ MaxFlow \in Nat
        BY <3>2, DeviceAssumption DEF MayStartFilter
      <4> HIDE DEF entry
      <4> QED BY <2>5, <4>1, <4>2, AddOne
    <3> QED BY <3>1, <3>2
  <2>8. \A x \in d.filters : ~(x.fw = fw /\ x.table = table)
    BY DEF DevInv, AdapterInv
  <2>9. TableInv(g)
    <3>1. \A x, y \in g.filters : x.fw = y.fw /\ x.table = y.table => x = y
      BY <2>4, <2>8 DEF DevInv, TableInv
    <3> QED BY <2>4, <2>6, <2>7, <3>1 DEF DevInv, TableInv, Beside
  <2>10. \A x \in g.filters : [fw |-> x.fw, table |-> x.table] \in g.fwFilters
    <3>1. \A x \in d.filters : [fw |-> x.fw, table |-> x.table] \in d.fwFilters
      BY DEF DevInv, AdapterInv
    <3>2. [fw |-> entry.fw, table |-> entry.table] = new
      OBVIOUS
    <3> HIDE DEF entry, new
    <3> QED BY <2>4, <3>1, <3>2
  <2>11. ASSUME NEW y \in g.fwFilters
         PROVE  \E x \in g.filters : x.fw = y.fw /\ x.table = y.table
    <3>1. CASE y = new
      <4>1. entry \in g.filters /\ entry.fw = y.fw /\ entry.table = y.table
        BY <2>4, <3>1
      <4> QED BY <4>1
    <3>2. CASE y \in d.fwFilters
      <4>1. \E x \in d.filters : x.fw = y.fw /\ x.table = y.table
        BY <3>2 DEF DevInv, AdapterInv
      <4> QED BY <2>4, <4>1
    <3> QED BY <2>4, <3>1, <3>2
  <2>12. DevInv(g)
    BY <2>4, <2>9, <2>10, <2>11, FiltersInv DEF Beside
  <2>13. Grows(d, g, id)
    BY <2>4 DEF Grows, Beside
  <2> QED BY <2>1, <2>12, <2>13
<1>8. CASE Out(d, o1) = "ok" /\ ~stored /\ Accepted(e, o2)
  <2>1. r.dev = f
    BY <1>1, <1>8 DEF Ret
  <2>2. Beside(d, f) /\ f.filters = d.filters /\ f.fwFilters = d.fwFilters
    BY <1>4, <1>8
  <2>3. TableInv(f)
    BY <2>2, TableShrinks DEF Beside, DevInv
  <2>4. /\ \A x \in f.filters : [fw |-> x.fw, table |-> x.table] \in f.fwFilters
        /\ \A y \in f.fwFilters :
             \E x \in f.filters : x.fw = y.fw /\ x.table = y.table
    BY <2>2 DEF DevInv, AdapterInv
  <2>5. DevInv(f)
    BY <2>2, <2>3, <2>4, FiltersInv DEF Beside
  <2> QED BY <2>1, <2>2, <2>5 DEF Grows, Shrinks, Beside
<1>9. CASE Out(d, o1) = "ok" /\ ~stored /\ ~Accepted(e, o2)
  <2>1. r.dev = Uncertain(f)
    BY <1>1, <1>9 DEF Ret
  <2> QED BY <1>4, <1>9, <2>1, FilterUncertain DEF Grows
<1> QED BY <1>3, <1>5, <1>6, <1>7, <1>8, <1>9 DEF Outcomes

\* The host drops the filters it tracks, and the adapter those in gone, for
\* the same firmware entries.
LEMMA FiltersDropped ==
    ASSUME NEW d, DevInv(d), Certain(d), d.channel # 0, NEW o \in Outcomes,
           NEW left \in SUBSET d.filters, NEW set \in SUBSET d.fwFilters,
           \A x \in d.filters : x \in left <=> [fw |-> x.fw, table |-> x.table] \in set,
           NEW e, e = ChannelCommand(d, o, WithFilters(d, set)),
           NEW r, r = IF Accepted(d, o) THEN Ret([e EXCEPT !.filters = left], TRUE)
                      ELSE Ret(e, FALSE)
    PROVE  /\ DevInv(r.dev) /\ Shrinks(d, r.dev)
           /\ r.ok => Certain(r.dev) /\ r.dev.channel # 0
<1> d \in DeviceType
  BY DEF DevInv
<1>1. /\ Beside(d, e) /\ e.filters = d.filters
      /\ Accepted(d, o) => e.fwFilters = set /\ e.reopen = d.reopen
      /\ ~Accepted(d, o) => e = d \/ e.reopen
  <2>1. set \in SUBSET [fw : FwHandles, table : Tables]
    BY DEF DeviceType
  <2> QED BY <2>1, FilterCommand
<1>2. CASE ~Accepted(d, o)
  <2>1. r.dev = e /\ r.ok = FALSE
    BY <1>2 DEF Ret
  <2> QED BY <1>1, <1>2, <2>1, FilterDoubt
<1>3. CASE Accepted(d, o)
  <2> DEFINE g == [e EXCEPT !.filters = left]
  <2>1. r.dev = g
    BY <1>3 DEF Ret
  <2>2. left \in SUBSET [id : Handles, fw : FwHandles, table : Tables]
        /\ e \in DeviceType
    BY <1>1 DEF DeviceType, Beside
  <2>3. Beside(d, g) /\ g.filters = left /\ g.fwFilters = set /\ g.reopen = d.reopen
    BY <1>1, <1>3, <2>2 DEF DeviceType, Beside, SameChannel
  <2> HIDE DEF g
  <2>4. TableInv(g)
    BY <2>3, TableShrinks DEF DevInv, Beside
  <2>5. \A x \in g.filters : [fw |-> x.fw, table |-> x.table] \in g.fwFilters
    BY <2>3
  <2>6. ASSUME NEW y \in g.fwFilters
        PROVE  \E x \in g.filters : x.fw = y.fw /\ x.table = y.table
    <3>1. PICK x \in d.filters : x.fw = y.fw /\ x.table = y.table
      BY <2>3 DEF DevInv, AdapterInv
    <3>2. y \in [fw : FwHandles, table : Tables]
      BY <2>3 DEF DeviceType
    <3>3. [fw |-> x.fw, table |-> x.table] = y
      BY <3>1, <3>2
    <3> QED BY <2>3, <3>1, <3>3
  <2>7. DevInv(g)
    BY <2>3, <2>4, <2>5, <2>6, FiltersInv DEF Beside
  <2> QED
    BY <2>1, <2>3, <2>7 DEF Shrinks, Beside, Certain, SameChannel
<1> QED BY <1>2, <1>3

\* StopMsgFilter
LEMMA StopFilterKeeps ==
    ASSUME NEW d, DevInv(d), Certain(d), d.channel # 0, NEW x \in d.filters,
           NEW o \in Outcomes, NEW r, r = StopFilter(d, x, o)
    PROVE  DevInv(r.dev) /\ Shrinks(d, r.dev)
<1> d \in DeviceType
  BY DEF DevInv
<1> DEFINE gone == [fw |-> x.fw, table |-> x.table]
           set == d.fwFilters \ {gone}
           left == d.filters \ {x}
           e == ChannelCommand(d, o, WithFilters(d, set))
<1>1. \A y \in d.filters : y \in left <=> [fw |-> y.fw, table |-> y.table] \in set
  <2>1. \A y \in d.filters : [fw |-> y.fw, table |-> y.table] \in d.fwFilters
    BY DEF DevInv, AdapterInv
  <2>2. \A y \in d.filters : y = x <=> [fw |-> y.fw, table |-> y.table] = gone
    BY DEF DevInv, TableInv
  <2> HIDE DEF gone
  <2> QED BY <2>1, <2>2
<1>2. r = IF Accepted(d, o) THEN Ret([e EXCEPT !.filters = @ \ {x}], TRUE)
          ELSE Ret(e, FALSE)
  BY DEF StopFilter, WithFilters
<1>3. e \in DeviceType /\ e.filters = d.filters
  <2>1. set \in SUBSET [fw : FwHandles, table : Tables]
    BY DEF DeviceType
  <2> HIDE DEF set
  <2> QED BY <2>1, FilterCommand DEF Beside
<1>4. set \in SUBSET d.fwFilters /\ left \in SUBSET d.filters
  OBVIOUS
<1>5. e = ChannelCommand(d, o, WithFilters(d, set))
  OBVIOUS
<1> HIDE DEF e, set
<1>6. r = IF Accepted(d, o) THEN Ret([e EXCEPT !.filters = left], TRUE) ELSE Ret(e, FALSE)
  BY <1>2, <1>3 DEF DeviceType
<1> HIDE DEF left
<1> QED BY <1>1, <1>4, <1>5, <1>6, FiltersDropped

\* One turn of the CLEAR_MSG_FILTERS loop.
LEMMA ClearTableKeeps ==
    ASSUME NEW s, s.ok \in BOOLEAN, DevInv(s.dev),
           s.ok => Certain(s.dev) /\ s.dev.channel # 0,
           NEW table \in Tables, NEW o \in Outcomes, NEW r, r = ClearTable(s, table, o)
    PROVE  /\ DevInv(r.dev) /\ Shrinks(s.dev, r.dev) /\ r.ok \in BOOLEAN
           /\ r.ok => Certain(r.dev) /\ r.dev.channel # 0
<1> DEFINE d == s.dev
           set == d.fwFilters \ InTable(d.fwFilters, table)
           left == d.filters \ InTable(d.filters, table)
           e == ChannelCommand(d, o, WithFilters(d, set))
<1>0. d \in DeviceType
  BY DEF DevInv
<1>1. CASE ~s.ok \/ InTable(d.filters, table) = {}
  <2>1. r = s
    BY <1>1 DEF ClearTable
  <2> QED BY <2>1 DEF Shrinks, SameChannel
<1>2. CASE s.ok /\ InTable(d.filters, table) # {}
  <2>1. \A y \in d.filters : y \in left <=> [fw |-> y.fw, table |-> y.table] \in set
    <3>1. \A y \in d.filters : [fw |-> y.fw, table |-> y.table] \in d.fwFilters
      BY <1>2 DEF DevInv, AdapterInv
    <3> QED BY <3>1 DEF InTable
  <2>2. r = IF Accepted(d, o)
            THEN Ret([e EXCEPT !.filters = @ \ InTable(@, table)], TRUE)
            ELSE Ret(e, FALSE)
    BY <1>2 DEF ClearTable, WithFilters
  <2>3. e \in DeviceType /\ e.filters = d.filters
    <3>1. set \in SUBSET [fw : FwHandles, table : Tables]
      BY <1>0 DEF DeviceType
    <3> HIDE DEF set
    <3> QED BY <1>2, <3>1, FilterCommand DEF Beside
  <2>4. set \in SUBSET d.fwFilters /\ left \in SUBSET d.filters
    OBVIOUS
  <2>5. e = ChannelCommand(d, o, WithFilters(d, set))
    OBVIOUS
  <2> HIDE DEF e, set
  <2>6. r = IF Accepted(d, o) THEN Ret([e EXCEPT !.filters = left], TRUE)
            ELSE Ret(e, FALSE)
    BY <2>2, <2>3 DEF DeviceType
  <2>7. r.ok \in BOOLEAN
    BY <2>6 DEF Ret
  <2> HIDE DEF left
  <2> QED BY <1>2, <2>1, <2>4, <2>5, <2>6, <2>7, FiltersDropped
<1> QED BY <1>1, <1>2

\* CLEAR_MSG_FILTERS
LEMMA ClearFiltersKeeps ==
    ASSUME NEW d, DevInv(d), Certain(d), d.channel # 0, NEW o1 \in Outcomes,
           NEW o2 \in Outcomes, NEW o3 \in Outcomes,
           NEW r, r = ClearFilters(d, o1, o2, o3)
    PROVE  DevInv(r.dev) /\ Shrinks(d, r.dev)
<1> DEFINE r0 == Ret(d, TRUE)
           r1 == ClearTable(r0, "pass", o1)
           r2 == ClearTable(r1, "block", o2)
<1>1. r = ClearTable(r2, "flow", o3)
  BY DEF ClearFilters
<1>2. /\ r0.dev = d /\ r0.ok \in BOOLEAN
      /\ DevInv(r0.dev) /\ Certain(r0.dev) /\ r0.dev.channel # 0
  BY DEF Ret
<1>a. "pass" \in Tables /\ "block" \in Tables /\ "flow" \in Tables
  BY DEF Tables
<1> HIDE DEF r0
<1>3. /\ DevInv(r1.dev) /\ Shrinks(d, r1.dev) /\ r1.ok \in BOOLEAN
      /\ r1.ok => Certain(r1.dev) /\ r1.dev.channel # 0
  <2>1. /\ DevInv(r1.dev) /\ Shrinks(r0.dev, r1.dev) /\ r1.ok \in BOOLEAN
        /\ r1.ok => Certain(r1.dev) /\ r1.dev.channel # 0
    BY <1>2, <1>a, ClearTableKeeps
  <2> QED BY <1>2, <2>1
<1> HIDE DEF r1
<1>4. /\ DevInv(r2.dev) /\ Shrinks(r1.dev, r2.dev) /\ r2.ok \in BOOLEAN
      /\ r2.ok => Certain(r2.dev) /\ r2.dev.channel # 0
  BY <1>3, <1>a, ClearTableKeeps
<1> HIDE DEF r2
<1> DEFINE r3 == ClearTable(r2, "flow", o3)
<1>5. DevInv(r3.dev) /\ Shrinks(r2.dev, r3.dev)
  BY <1>4, <1>a, ClearTableKeeps
<1> QED BY <1>1, <1>3, <1>4, <1>5 DEF Shrinks, SameChannel

---------------------------------------------------------------------------
(* The inductive invariant.                                                *)

JobType == [op : DeviceOps \cup ChannelOps, id : Handles, obj : Objects]

\* A call that has found its device has an existing one, and unless that has
\* been closed since, the device ID it used is still the device's.
JobInv ==
    \A t \in Threads :
        /\ pc[t] = "idle" => job[t] = NoJob
        /\ pc[t] = "found" =>
             /\ job[t] \in JobType
             /\ dev[job[t].obj].exists
             /\ job[t].op \in DeviceOps =>
                  dev[job[t].obj].closed \/ devices[job[t].id] = job[t].obj

\* The registries name the live devices and channels, each by one ID that
\* has been issued.
RegistryInv ==
    /\ \A h \in Handles : devices[h] # None \/ channels[h] # None => h < nextHandle
    /\ \A o \in Objects, h \in Handles :
         devices[h] = o => dev[o].exists /\ ~dev[o].closed
    /\ \A o \in Objects :
         dev[o].exists /\ ~dev[o].closed => \E h \in Handles : devices[h] = o
    /\ \A o \in Objects, g, h \in Handles : devices[g] = o /\ devices[h] = o => g = h
    /\ \A o \in Objects, h \in Handles : channels[h] = o <=> dev[o].channel = h
    /\ \A h \in Handles : devices[h] # None => channels[h] = None

\* Device d's entries have issued IDs (those below n), different from each
\* other's and from those in the registries ds and cs.
EntryOf(d, n, ds, cs) ==
    /\ \A x \in d.filters : x.id < n /\ ds[x.id] = None /\ cs[x.id] = None
    /\ \A p \in d.periodics : p.id < n /\ ds[p.id] = None /\ cs[p.id] = None
    /\ \A x, y \in d.filters : x.id = y.id => x = y
    /\ \A p, q \in d.periodics : p.id = q.id => p = q
    /\ \A x \in d.filters, p \in d.periodics : x.id # p.id

EntryInv == \A o \in Objects : EntryOf(dev[o], nextHandle, devices, channels)

\* What the last call to run found and left.
ResultInv ==
    /\ result.job \in JobType \cup {NoJob}
    /\ NoStaleAction
    /\ DisconnectSilences

BaseInv ==
    /\ devices \in [Handles -> Objects \cup {None}]
    /\ channels \in [Handles -> Objects \cup {None}]
    /\ nextHandle \in 1 .. MaxHandle + 1
    /\ DOMAIN dev = Objects /\ dev = [o \in Objects |-> dev[o]]
    /\ pc \in [Threads -> {"idle", "found"}]
    /\ job = [t \in Threads |-> job[t]]

DevicesInv == \A o \in Objects : DevInv(dev[o])

IInv == BaseInv /\ DevicesInv /\ JobInv /\ RegistryInv /\ EntryInv /\ ResultInv

\* Entries stay distinct when some go and the registries take no ID below n.
LEMMA EntriesKept ==
    ASSUME NEW d \in DeviceType, NEW e, NEW n \in Nat, NEW m \in Nat, n <= m,
           NEW ds, NEW cs, NEW ds2, NEW cs2, EntryOf(d, n, ds, cs),
           e.filters \subseteq d.filters, e.periodics \subseteq d.periodics,
           \A h \in Handles : h < n /\ ds[h] = None => ds2[h] = None,
           \A h \in Handles : h < n /\ cs[h] = None => cs2[h] = None
    PROVE  EntryOf(e, m, ds2, cs2)
<1>1. /\ \A x \in e.filters : x \in d.filters /\ x.id \in Handles
      /\ \A p \in e.periodics : p \in d.periodics /\ p.id \in Handles
  BY DEF DeviceType
<1>2. \A h \in Handles : h < n => h < m
  BY DEF Handles
<1>3. \A x \in e.filters : x.id < m /\ ds2[x.id] = None /\ cs2[x.id] = None
  BY <1>1, <1>2 DEF EntryOf
<1>4. \A p \in e.periodics : p.id < m /\ ds2[p.id] = None /\ cs2[p.id] = None
  BY <1>1, <1>2 DEF EntryOf
<1> QED BY <1>1, <1>3, <1>4 DEF EntryOf

\* A new entry takes a new ID.
LEMMA EntriesGrow ==
    ASSUME NEW d \in DeviceType, NEW e, NEW n \in Handles,
           NEW ds, NEW cs, EntryOf(d, n, ds, cs), Grows(d, e, n),
           ds[n] = None, cs[n] = None
    PROVE  EntryOf(e, n + 1, ds, cs)
<1>0. n \in Nat /\ n + 1 \in Nat /\ n <= n + 1
  BY DEF Handles
<1>a. /\ \A x \in d.filters : x.id \in Nat /\ x.id < n
      /\ \A p \in d.periodics : p.id \in Nat /\ p.id < n
  BY DEF DeviceType, Handles, EntryOf
<1>b. /\ \A x \in d.filters : x.id # n /\ x.id < n + 1
      /\ \A p \in d.periodics : p.id # n /\ p.id < n + 1
  BY <1>0, <1>a
<1>1. CASE Shrinks(d, e)
  BY <1>0, <1>1, EntriesKept DEF Shrinks
<1>2. CASE /\ e.filters = d.filters
           /\ \E fw \in FwHandles : e.periodics = d.periodics \cup {[id |-> n, fw |-> fw]}
  <2>0. PICK fw \in FwHandles : e.periodics = d.periodics \cup {[id |-> n, fw |-> fw]}
    BY <1>2
  <2> DEFINE p == [id |-> n, fw |-> fw]
  <2>1. e.periodics = d.periodics \cup {p} /\ p.id = n
    BY <2>0
  <2> HIDE DEF p
  <2>2. n < n + 1
    BY <1>0
  <2> QED BY <1>2, <1>b, <2>1, <2>2 DEF EntryOf
<1>3. CASE /\ e.periodics = d.periodics
           /\ \E fw \in FwHandles, table \in Tables :
                e.filters = d.filters \cup {[id |-> n, fw |-> fw, table |-> table]}
  <2>0. PICK fw \in FwHandles, table \in Tables :
          e.filters = d.filters \cup {[id |-> n, fw |-> fw, table |-> table]}
    BY <1>3
  <2> DEFINE x == [id |-> n, fw |-> fw, table |-> table]
  <2>1. e.filters = d.filters \cup {x} /\ x.id = n
    BY <2>0
  <2> HIDE DEF x
  <2>2. n < n + 1
    BY <1>0
  <2> QED BY <1>3, <1>b, <2>1, <2>2 DEF EntryOf
<1> QED BY <1>1, <1>2, <1>3 DEF Grows

\* The invariant holds before the first call.
LEMMA InitInv == Init => IInv
<1> SUFFICES ASSUME Init PROVE IInv
  OBVIOUS
<1>1. DevInv(Fresh)
  <2>1. Fresh \in DeviceType
    BY DeviceAssumption DEF Fresh, DeviceType, Protocols
  <2>2. TableInv(Fresh)
    <3>1. IsFiniteSet({}) /\ Cardinality({}) = 0
      BY FS_EmptySet
    <3>2. Fresh.periodics = {} /\ Fresh.filters = {} /\ InTable(Fresh.filters, "flow") = {}
      BY DEF Fresh, InTable
    <3> QED BY <3>1, <3>2, DeviceAssumption DEF TableInv
  <2>3. ChannelInv(Fresh) /\ AdapterInv(Fresh)
    BY DEF Fresh, ChannelInv, AdapterInv, Certain
  <2> QED BY <2>1, <2>2, <2>3 DEF DevInv
<1>2. BaseInv
  BY DeviceAssumption DEF Init, BaseInv
<1>3. DevicesInv
  BY <1>1 DEF Init, DevicesInv
<1>4. JobInv
  BY DEF Init, JobInv
<1>5. RegistryInv
  <2>1. \A o \in Objects : dev[o].exists = FALSE /\ dev[o].channel = 0 /\ o # None
    BY DeviceAssumption DEF Init, Fresh
  <2>2. \A h \in Handles : devices[h] = None /\ channels[h] = None /\ h # 0
    BY DEF Init, Handles
  <2> QED BY <2>1, <2>2 DEF RegistryInv
<1>6. EntryInv
  BY DEF Init, EntryInv, EntryOf, Fresh
<1>7. ResultInv
  BY DEF Init, ResultInv, NoJob, NoStaleAction, DisconnectSilences, ChannelOps
<1> QED BY <1>2, <1>3, <1>4, <1>5, <1>6, <1>7 DEF IInv

---------------------------------------------------------------------------
(* Every step keeps it.                                                    *)

\* What a call knows once it holds the lifecycle lock of a live handle.
LEMMA Held ==
    ASSUME IInv, NEW t \in Threads, NEW op \in DeviceOps \cup ChannelOps, Holds(t, op)
    PROVE  /\ pc[t] = "found" /\ job[t] \in JobType /\ job[t].op = op
           /\ Device(t) = dev[job[t].obj] /\ DevInv(Device(t))
           /\ Device(t).exists /\ ~Device(t).closed
           /\ op \in ChannelOps => Device(t).channel = job[t].id /\ Device(t).channel # 0
           /\ op \notin {"Close", "Disconnect"} => Certain(Device(t))
           /\ op \in DeviceOps => devices[job[t].id] = job[t].obj
<1>1. pc[t] = "found" /\ job[t].op = op /\ ~Stale(job[t]) /\ Device(t) = dev[job[t].obj]
      /\ (op \notin {"Close", "Disconnect"} => ~dev[job[t].obj].reopen)
  BY DEF Holds, Device
<1>2. /\ job[t] \in JobType /\ dev[job[t].obj].exists
      /\ op \in DeviceOps => dev[job[t].obj].closed \/ devices[job[t].id] = job[t].obj
  BY <1>1 DEF IInv, JobInv
<1>3. job[t].obj \in Objects /\ job[t].id # 0
  BY <1>2 DEF JobType, Handles
<1> QED
  BY <1>1, <1>2, <1>3 DEF Stale, Certain, IInv, DevicesInv

\* What the return of a call changes.
LEMMA Returned ==
    ASSUME IInv, NEW t \in Threads, job[t] \in JobType, NEW r, Return(t, r)
    PROVE  /\ dev'[job[t].obj] = r.dev
           /\ \A o \in Objects : o # job[t].obj => dev'[o] = dev[o]
           /\ DOMAIN dev' = Objects /\ dev' = [o \in Objects |-> dev'[o]]
           /\ pc' \in [Threads -> {"idle", "found"}]
           /\ job' = [u \in Threads |-> job'[u]]
           /\ pc'[t] = "idle" /\ job'[t] = NoJob
           /\ \A u \in Threads : u # t => pc'[u] = pc[u] /\ job'[u] = job[u]
           /\ result' = [job |-> job[t], channel |-> Device(t).channel, ok |-> r.ok]
<1>1. job[t].obj \in Objects
  BY DEF JobType
<1>2. /\ DOMAIN dev = Objects /\ dev = [o \in Objects |-> dev[o]]
      /\ pc \in [Threads -> {"idle", "found"}] /\ job = [u \in Threads |-> job[u]]
  BY DEF IInv, BaseInv
<1>3. /\ dev'[job[t].obj] = r.dev /\ DOMAIN dev' = Objects
      /\ dev' = [o \in Objects |-> dev'[o]]
      /\ \A o \in Objects : o # job[t].obj => dev'[o] = dev[o]
  BY <1>1, <1>2 DEF Return
<1>4. /\ job'[t] = NoJob /\ job' = [u \in Threads |-> job'[u]]
      /\ \A u \in Threads : u # t => job'[u] = job[u]
  BY <1>2 DEF Return
<1>5. /\ pc' \in [Threads -> {"idle", "found"}] /\ pc'[t] = "idle"
      /\ \A u \in Threads : u # t => pc'[u] = pc[u]
  BY <1>2 DEF Return
<1> QED BY <1>3, <1>4, <1>5 DEF Return

\* The last result is right about a call that was not stale, and about a
\* Disconnect whose device is silent.
LEMMA ResultKept ==
    ASSUME IInv, NEW t \in Threads, NEW op \in DeviceOps \cup ChannelOps, Holds(t, op),
           NEW r, Return(t, r),
           op = "Disconnect" /\ r.ok => r.dev.fwPeriodics = {}
    PROVE  ResultInv'
<1>1. /\ job[t] \in JobType /\ job[t].op = op
      /\ op \in ChannelOps => Device(t).channel = job[t].id
  BY Held
<1>2. /\ result' = [job |-> job[t], channel |-> Device(t).channel, ok |-> r.ok]
      /\ dev'[job[t].obj] = r.dev
  BY <1>1, Returned
<1> QED
  BY <1>1, <1>2 DEF ResultInv, NoStaleAction, DisconnectSilences

\* The other threads' calls, when a call returns and leaves registry and
\* device in step.
LEMMA JobsKept ==
    ASSUME IInv, NEW t \in Threads, job[t] \in JobType, NEW r, Return(t, r),
           dev[job[t].obj].exists => r.dev.exists,
           dev[job[t].obj].closed => r.dev.closed,
           \A o \in Objects, h \in Handles :
               devices[h] = o => devices'[h] = o \/ dev'[o].closed
    PROVE  JobInv'
<1>1. /\ dev'[job[t].obj] = r.dev
      /\ \A o \in Objects : o # job[t].obj => dev'[o] = dev[o]
      /\ pc'[t] = "idle" /\ job'[t] = NoJob
      /\ \A u \in Threads : u # t => pc'[u] = pc[u] /\ job'[u] = job[u]
  BY Returned
<1>2. ASSUME NEW u \in Threads, u # t, pc[u] = "found"
      PROVE  /\ job'[u] \in JobType /\ dev'[job'[u].obj].exists
             /\ job'[u].op \in DeviceOps =>
                  dev'[job'[u].obj].closed \/ devices'[job'[u].id] = job'[u].obj
  <2>1. /\ job[u] \in JobType /\ dev[job[u].obj].exists
        /\ job[u].op \in DeviceOps =>
             dev[job[u].obj].closed \/ devices[job[u].id] = job[u].obj
    BY <1>2 DEF IInv, JobInv
  <2>2. job[u].obj \in Objects /\ job[u].id \in Handles
    BY <2>1 DEF JobType
  <2>3. job'[u] = job[u]
    BY <1>1, <1>2
  <2>4. dev'[job[u].obj].exists
        /\ (dev[job[u].obj].closed => dev'[job[u].obj].closed)
    BY <1>1, <2>1, <2>2
  <2> QED BY <2>1, <2>2, <2>3, <2>4
<1> QED BY <1>1, <1>2 DEF IInv, JobInv, JobType

\* A call that changes no registry and adds at most one entry.
LEMMA TableCall ==
    ASSUME IInv, NEW t \in Threads, NEW op \in DeviceOps \cup ChannelOps, Holds(t, op),
           op # "Disconnect", NEW r, Return(t, r), DevInv(r.dev),
           UNCHANGED <<devices, channels>>,
           \/ Shrinks(Device(t), r.dev) /\ nextHandle' = nextHandle
           \/ Grows(Device(t), r.dev, nextHandle) /\ Allocate
    PROVE  IInv'
<1>1. /\ job[t] \in JobType /\ Device(t) = dev[job[t].obj] /\ DevInv(Device(t))
  BY Held
<1>2. job[t].obj \in Objects
  BY <1>1 DEF JobType
<1>3. /\ dev'[job[t].obj] = r.dev
      /\ \A o \in Objects : o # job[t].obj => dev'[o] = dev[o]
      /\ DOMAIN dev' = Objects /\ dev' = [o \in Objects |-> dev'[o]]
      /\ pc' \in [Threads -> {"idle", "found"}]
      /\ job' = [u \in Threads |-> job'[u]]
  BY <1>1, Returned
<1>4. /\ nextHandle \in Nat /\ nextHandle' \in Nat
      /\ nextHandle <= nextHandle' /\ nextHandle' \in 1 .. MaxHandle + 1
  BY DeviceAssumption DEF IInv, BaseInv, Allocate
<1>5. SameChannel(Device(t), r.dev)
  BY DEF Grows, Shrinks
<1>6. BaseInv'
  BY <1>3, <1>4 DEF IInv, BaseInv
<1>7. DevicesInv'
  BY <1>2, <1>3 DEF IInv, DevicesInv
<1>8. JobInv'
  BY <1>1, <1>5, JobsKept DEF SameChannel
<1>9. RegistryInv'
  <2>1. \A o \in Objects : SameChannel(dev[o], dev'[o])
    BY <1>1, <1>2, <1>3, <1>5 DEF SameChannel
  <2>2. \A h \in Handles : h < nextHandle => h < nextHandle'
    BY <1>4 DEF Handles
  <2> QED BY <2>1, <2>2 DEF IInv, RegistryInv, SameChannel
<1>10. EntryInv'
  <2> SUFFICES ASSUME NEW o \in Objects
               PROVE  EntryOf(dev'[o], nextHandle', devices, channels)
    BY DEF EntryInv
  <2>1. EntryOf(dev[o], nextHandle, devices, channels) /\ dev[o] \in DeviceType
    BY DEF IInv, EntryInv, DevicesInv, DevInv
  <2>2. CASE o # job[t].obj \/ Shrinks(Device(t), r.dev)
    <3>1. dev'[o].filters \subseteq dev[o].filters
          /\ dev'[o].periodics \subseteq dev[o].periodics
      BY <1>1, <1>3, <2>2 DEF Shrinks
    <3> QED BY <1>4, <2>1, <3>1, EntriesKept
  <2>3. CASE o = job[t].obj /\ Grows(Device(t), r.dev, nextHandle) /\ Allocate
    <3>1. nextHandle \in Handles /\ nextHandle' = nextHandle + 1
      BY <1>4, <2>3, DeviceAssumption DEF IInv, BaseInv, Allocate, Handles
    <3>2. devices[nextHandle] = None /\ channels[nextHandle] = None
      BY <1>4, <3>1 DEF IInv, RegistryInv
    <3> QED BY <1>1, <1>3, <2>1, <2>3, <3>1, <3>2, EntriesGrow
  <2> QED BY <2>2, <2>3
<1>11. ResultInv'
  BY ResultKept
<1> QED BY <1>6, <1>7, <1>8, <1>9, <1>10, <1>11 DEF IInv

\* The calls that end a channel: the device has neither channel nor entries,
\* and the registry forgets the channel.
LEMMA EndsChannel ==
    ASSUME IInv, NEW t \in Threads, NEW op \in {"Close", "Disconnect"}, Holds(t, op),
           NEW r, Return(t, r), DevInv(r.dev), r.dev.channel = 0, r.dev.exists,
           r.dev.closed <=> op = "Close",
           op = "Disconnect" /\ r.ok => r.dev.fwPeriodics = {},
           channels' = WithoutChannel(Device(t)), UNCHANGED nextHandle,
           devices' = IF op = "Close" THEN [devices EXCEPT ![job[t].id] = None]
                      ELSE devices
    PROVE  IInv'
<1>0. op \in DeviceOps \cup ChannelOps
  BY DEF DeviceOps, ChannelOps
<1>1. /\ job[t] \in JobType /\ job[t].op = op
      /\ Device(t) = dev[job[t].obj] /\ DevInv(Device(t)) /\ ~Device(t).closed
      /\ op = "Close" => devices[job[t].id] = job[t].obj
  BY <1>0, Held DEF DeviceOps
<1>2. job[t].obj \in Objects /\ job[t].id \in Handles
  BY <1>1 DEF JobType
<1>3. /\ dev'[job[t].obj] = r.dev
      /\ \A o \in Objects : o # job[t].obj => dev'[o] = dev[o]
      /\ DOMAIN dev' = Objects /\ dev' = [o \in Objects |-> dev'[o]]
      /\ pc' \in [Threads -> {"idle", "found"}]
      /\ job' = [u \in Threads |-> job'[u]]
  BY <1>1, Returned
<1>4. /\ devices \in [Handles -> Objects \cup {None}]
      /\ channels \in [Handles -> Objects \cup {None}] /\ nextHandle \in Nat
  BY DeviceAssumption DEF IInv, BaseInv
\* Only the device's own ID leaves the registry, and only on Close.
<1>5. /\ devices' \in [Handles -> Objects \cup {None}]
      /\ \A h \in Handles : devices'[h] = devices[h] \/ devices'[h] = None
      /\ \A h \in Handles, o \in Objects : o # job[t].obj /\ devices[h] = o
           => devices'[h] = o
      /\ op = "Disconnect" => devices' = devices
  <2>1. CASE op = "Disconnect"
    BY <1>4, <2>1
  <2>2. CASE op = "Close"
    BY <1>1, <1>2, <1>4, <2>2
  <2> QED BY <2>1, <2>2
<1>a. op = "Close" => \A h \in Handles : devices'[h] # job[t].obj
  <2>1. ASSUME op = "Close", NEW h \in Handles, devices'[h] = job[t].obj PROVE FALSE
    <3>1. devices[h] = job[t].obj /\ h # job[t].id
      BY <1>2, <1>4, <2>1, DeviceAssumption
    <3> QED BY <1>1, <1>2, <2>1, <3>1 DEF IInv, RegistryInv
  <2> QED BY <2>1
<1>6. /\ channels' \in [Handles -> Objects \cup {None}]
      /\ \A h \in Handles : channels'[h] = IF h = Device(t).channel THEN None ELSE channels[h]
  BY <1>4 DEF WithoutChannel
<1>7. BaseInv'
  BY <1>3, <1>5, <1>6 DEF IInv, BaseInv
<1>8. DevicesInv'
  BY <1>2, <1>3 DEF IInv, DevicesInv
<1>9. JobInv'
  <2>1. \A o \in Objects, h \in Handles :
          devices[h] = o => devices'[h] = o \/ dev'[o].closed
    BY <1>3, <1>5
  <2> QED BY <1>1, <2>1, JobsKept
<1>10. RegistryInv'
  <2>1. \A h \in Handles : devices'[h] # None \/ channels'[h] # None => h < nextHandle
    BY <1>5, <1>6 DEF IInv, RegistryInv
  <2>2. ASSUME NEW o \in Objects, NEW h \in Handles, devices'[h] = o
        PROVE  dev'[o].exists /\ ~dev'[o].closed /\ devices[h] = o
    <3>1. devices[h] = o
      BY <1>5, <2>2, DeviceAssumption
    <3>2. dev[o].exists /\ ~dev[o].closed
      BY <3>1 DEF IInv, RegistryInv
    <3> QED BY <1>3, <1>a, <2>2, <3>1, <3>2
  <2>3. ASSUME NEW o \in Objects, dev'[o].exists, ~dev'[o].closed
        PROVE  \E h \in Handles : devices'[h] = o
    <3>1. CASE o # job[t].obj
      <4>1. PICK h \in Handles : devices[h] = o
        BY <1>3, <2>3, <3>1 DEF IInv, RegistryInv
      <4> QED BY <1>5, <3>1, <4>1
    <3>2. CASE o = job[t].obj
      <4>1. devices' = devices
        BY <1>3, <1>5, <2>3, <3>2
      <4>2. dev[o].exists /\ ~dev[o].closed
        BY <1>0, <1>1, <3>2, Held
      <4> QED BY <4>1, <4>2 DEF IInv, RegistryInv
    <3> QED BY <3>1, <3>2
  <2>4. \A o \in Objects, g, h \in Handles : devices'[g] = o /\ devices'[h] = o => g = h
    BY <2>2 DEF IInv, RegistryInv
  <2>5. ASSUME NEW o \in Objects, NEW h \in Handles
        PROVE  channels'[h] = o <=> dev'[o].channel = h
    <3>1. channels[h] = o <=> dev[o].channel = h
      BY DEF IInv, RegistryInv
    <3>2. h # 0 /\ o # None
      BY DeviceAssumption DEF Handles
    <3>3. CASE o = job[t].obj
      BY <1>1, <1>3, <1>6, <3>1, <3>2, <3>3
    <3>4. CASE o # job[t].obj
      <4>1. Device(t).channel = h => channels[h] = job[t].obj
        BY <1>1, <1>2 DEF IInv, RegistryInv
      <4> QED BY <1>3, <1>6, <3>1, <3>2, <3>4, <4>1
    <3> QED BY <3>3, <3>4
  <2>6. \A h \in Handles : devices'[h] # None => channels'[h] = None
    BY <1>5, <1>6 DEF IInv, RegistryInv
  <2> QED BY <2>1, <2>2, <2>3, <2>4, <2>5, <2>6 DEF RegistryInv
<1>11. EntryInv'
  <2> SUFFICES ASSUME NEW o \in Objects
               PROVE  EntryOf(dev'[o], nextHandle, devices', channels')
    BY DEF EntryInv
  <2>1. EntryOf(dev[o], nextHandle, devices, channels) /\ dev[o] \in DeviceType
    BY DEF IInv, EntryInv, DevicesInv, DevInv
  <2>2. r.dev.filters = {} /\ r.dev.periodics = {}
    BY DEF DevInv, ChannelInv
  <2>3. dev'[o].filters \subseteq dev[o].filters
        /\ dev'[o].periodics \subseteq dev[o].periodics
    BY <1>3, <2>2
  <2>4. /\ \A h \in Handles : h < nextHandle /\ devices[h] = None => devices'[h] = None
        /\ \A h \in Handles : h < nextHandle /\ channels[h] = None => channels'[h] = None
        /\ nextHandle <= nextHandle
    BY <1>4, <1>5, <1>6
  <2>5. ASSUME NEW ds, NEW cs,
               \A h \in Handles : h < nextHandle /\ devices[h] = None => ds[h] = None,
               \A h \in Handles : h < nextHandle /\ channels[h] = None => cs[h] = None
        PROVE  EntryOf(dev'[o], nextHandle, ds, cs)
    BY SMTT(30), <1>4, <2>1, <2>3, <2>4, <2>5, EntriesKept
  <2> QED BY <2>4, <2>5
<1>12. ResultInv'
  BY <1>0, ResultKept
<1> QED BY <1>7, <1>8, <1>9, <1>10, <1>11, <1>12 DEF IInv

\* Connect
LEMMA ConnectStep ==
    ASSUME IInv, NEW t \in Threads, PassThruConnect(t)
    PROVE  IInv'
<1>0. Holds(t, "Connect") /\ MayConnect(Device(t)) /\ Allocate /\ devices' = devices
      /\ "Connect" \in DeviceOps \cup ChannelOps /\ "Connect" \notin {"Close", "Disconnect"}
  BY DEF PassThruConnect, DeviceOps
<1>1. /\ job[t] \in JobType /\ job[t].op = "Connect"
      /\ Device(t) = dev[job[t].obj] /\ DevInv(Device(t)) /\ Certain(Device(t))
  BY <1>0, Held
<1>2. job[t].obj \in Objects /\ job[t].id \in Handles
  BY <1>1 DEF JobType
<1>3. /\ nextHandle \in Handles /\ nextHandle' = nextHandle + 1
      /\ nextHandle' \in 1 .. MaxHandle + 1 /\ nextHandle \in Nat /\ nextHandle' \in Nat
  BY <1>0, DeviceAssumption DEF IInv, BaseInv, Allocate, Handles
<1>4. PICK p \in Protocols, o1 \in Outcomes, o2 \in Outcomes, o3 \in Outcomes :
        /\ Return(t, Connect(Device(t), nextHandle, p, o1, o2, o3))
        /\ channels' = IF Connect(Device(t), nextHandle, p, o1, o2, o3).ok
                       THEN [channels EXCEPT ![nextHandle] = job[t].obj] ELSE channels
  BY DEF PassThruConnect
<1> DEFINE r == Connect(Device(t), nextHandle, p, o1, o2, o3)
<1>5. /\ DevInv(r.dev) /\ r.dev.exists = Device(t).exists
      /\ r.dev.closed = Device(t).closed
      /\ r.dev.filters = {} /\ r.dev.periodics = {}
      /\ r.ok \in BOOLEAN /\ r.dev.channel = IF r.ok THEN nextHandle ELSE 0
  BY <1>0, <1>1, <1>3, ConnectLeaves DEF MayConnect
<1> HIDE DEF r
<1>6. Return(t, r) /\ channels' = IF r.ok THEN [channels EXCEPT ![nextHandle] = job[t].obj]
                                  ELSE channels
  BY <1>4 DEF r
<1>7. /\ dev'[job[t].obj] = r.dev
      /\ \A o \in Objects : o # job[t].obj => dev'[o] = dev[o]
      /\ DOMAIN dev' = Objects /\ dev' = [o \in Objects |-> dev'[o]]
      /\ pc' \in [Threads -> {"idle", "found"}]
      /\ job' = [u \in Threads |-> job'[u]]
  BY <1>1, <1>6, Returned
<1>8. /\ devices \in [Handles -> Objects \cup {None}]
      /\ channels \in [Handles -> Objects \cup {None}]
  BY DEF IInv, BaseInv
<1>9. /\ channels' \in [Handles -> Objects \cup {None}]
      /\ \A h \in Handles : h # nextHandle => channels'[h] = channels[h]
      /\ channels'[nextHandle] = IF r.ok THEN job[t].obj ELSE None
      /\ devices[nextHandle] = None /\ channels[nextHandle] = None
  <2>1. devices[nextHandle] = None /\ channels[nextHandle] = None
    BY <1>3 DEF IInv, RegistryInv
  <2> QED BY <1>2, <1>3, <1>6, <1>8, <2>1
<1>10. BaseInv'
  BY <1>0, <1>3, <1>7, <1>8, <1>9 DEF BaseInv
<1>11. DevicesInv'
  BY <1>2, <1>5, <1>7 DEF IInv, DevicesInv
<1>12. JobInv'
  BY <1>0, <1>1, <1>5, <1>6, JobsKept
<1>13. RegistryInv'
  <2>1. \A h \in Handles : devices[h] # None \/ channels'[h] # None => h < nextHandle'
    <3>1. \A h \in Handles : h \in Nat /\ (h < nextHandle \/ h = nextHandle => h < nextHandle')
      BY <1>3 DEF Handles
    <3> QED BY <1>9, <3>1 DEF IInv, RegistryInv
  <2>2. \A o \in Objects : dev'[o].exists = dev[o].exists /\ dev'[o].closed = dev[o].closed
    BY <1>1, <1>5, <1>7
  <2>3. ASSUME NEW o \in Objects, NEW h \in Handles
        PROVE  channels'[h] = o <=> dev'[o].channel = h
    <3>1. channels[h] = o <=> dev[o].channel = h
      BY DEF IInv, RegistryInv
    <3>2. h # 0 /\ o # None
      BY DeviceAssumption DEF Handles
    <3>3. dev[job[t].obj].channel = 0
      BY <1>0, <1>1 DEF MayConnect
    <3>4. CASE h # nextHandle
      BY <1>5, <1>7, <1>9, <3>1, <3>2, <3>3, <3>4
    <3>5. CASE h = nextHandle
      BY <1>5, <1>7, <1>9, <3>1, <3>2, <3>3, <3>5
    <3> QED BY <3>4, <3>5
  <2>4. \A h \in Handles : devices[h] # None => channels'[h] = None
    BY <1>9 DEF IInv, RegistryInv
  <2> QED BY <1>0, <2>1, <2>2, <2>3, <2>4 DEF IInv, RegistryInv
<1>14. EntryInv'
  <2> SUFFICES ASSUME NEW o \in Objects
               PROVE  EntryOf(dev'[o], nextHandle', devices, channels')
    BY <1>0 DEF EntryInv
  <2>1. EntryOf(dev[o], nextHandle, devices, channels) /\ dev[o] \in DeviceType
    BY DEF IInv, EntryInv, DevicesInv, DevInv
  <2>2. dev'[o].filters \subseteq dev[o].filters
        /\ dev'[o].periodics \subseteq dev[o].periodics
    BY <1>5, <1>7
  <2>3. /\ \A h \in Handles : h < nextHandle /\ devices[h] = None => devices[h] = None
        /\ \A h \in Handles : h < nextHandle /\ channels[h] = None => channels'[h] = None
    BY <1>3, <1>9
  <2>4. nextHandle <= nextHandle' /\ nextHandle \in Nat /\ nextHandle' \in Nat
    BY <1>3
  <2> QED BY <2>1, <2>2, <2>3, <2>4, EntriesKept
<1>15. ResultInv'
  BY <1>0, <1>6, ResultKept
<1> QED BY <1>10, <1>11, <1>12, <1>13, <1>14, <1>15 DEF IInv

\* PassThruOpen: a new device under a new ID.
LEMMA OpenStep ==
    ASSUME IInv, NEW o \in Objects, Open(o)
    PROVE  IInv'
<1> DEFINE new == [Fresh EXCEPT !.exists = TRUE]
<1>1. /\ ~dev[o].exists /\ nextHandle <= MaxHandle
      /\ devices' = [devices EXCEPT ![nextHandle] = o] /\ nextHandle' = nextHandle + 1
      /\ dev' = [dev EXCEPT ![o] = new]
      /\ UNCHANGED <<channels, pc, job, result>>
  BY DEF Open
<1>2. /\ nextHandle \in Handles /\ nextHandle \in Nat /\ nextHandle' \in Nat
      /\ nextHandle' \in 1 .. MaxHandle + 1 /\ nextHandle <= nextHandle'
  BY <1>1, DeviceAssumption DEF IInv, BaseInv, Handles
<1>3. /\ DevInv(new) /\ new.exists /\ ~new.closed /\ new.channel = 0
      /\ new.filters = {} /\ new.periodics = {} /\ new.fwPeriodics = {}
  <2>1. /\ new \in DeviceType /\ new.exists = TRUE /\ new.closed = FALSE
        /\ new.channel = 0 /\ new.filters = {} /\ new.periodics = {}
        /\ new.fwPeriodics = {} /\ new.receiver = "none" /\ new.wireOpen = FALSE
        /\ new.node = "none" /\ new.fwFilters = {}
    <3>1. /\ Fresh \in DeviceType /\ Fresh.closed = FALSE
          /\ Fresh.channel = 0 /\ Fresh.filters = {} /\ Fresh.periodics = {}
          /\ Fresh.fwPeriodics = {} /\ Fresh.receiver = "none"
          /\ Fresh.wireOpen = FALSE /\ Fresh.node = "none" /\ Fresh.fwFilters = {}
      BY DeviceAssumption DEF Fresh, DeviceType, Protocols
    <3> QED BY <3>1 DEF DeviceType
  <2> HIDE DEF new
  <2>2. TableInv(new)
    BY <2>1, TableShrinks DEF IInv, DevicesInv, DevInv
  <2>3. ChannelInv(new) /\ AdapterInv(new)
    BY <2>1 DEF ChannelInv, AdapterInv
  <2> QED BY <2>1, <2>2, <2>3 DEF DevInv
<1> HIDE DEF new
<1>4. /\ dev'[o] = new /\ \A v \in Objects : v # o => dev'[v] = dev[v]
      /\ DOMAIN dev' = Objects /\ dev' = [v \in Objects |-> dev'[v]]
  BY <1>1 DEF IInv, BaseInv
<1>5. /\ devices' \in [Handles -> Objects \cup {None}] /\ devices'[nextHandle] = o
      /\ \A h \in Handles : h # nextHandle => devices'[h] = devices[h]
  BY <1>1, <1>2 DEF IInv, BaseInv
<1>6. devices[nextHandle] = None /\ channels[nextHandle] = None
  BY <1>2 DEF IInv, RegistryInv
<1>7. BaseInv'
  BY <1>1, <1>2, <1>4, <1>5 DEF IInv, BaseInv
<1>8. DevicesInv'
  BY <1>3, <1>4 DEF IInv, DevicesInv
<1>9. JobInv'
  <2> SUFFICES ASSUME NEW t \in Threads, pc[t] = "found"
               PROVE  /\ dev'[job[t].obj].exists
                      /\ job[t].op \in DeviceOps =>
                           dev'[job[t].obj].closed \/ devices'[job[t].id] = job[t].obj
    BY <1>1 DEF IInv, JobInv
  <2>1. /\ job[t] \in JobType /\ dev[job[t].obj].exists
        /\ job[t].op \in DeviceOps =>
             dev[job[t].obj].closed \/ devices[job[t].id] = job[t].obj
    BY DEF IInv, JobInv
  <2>2. job[t].obj \in Objects /\ job[t].id \in Handles /\ job[t].obj # o
    BY <1>1, <2>1 DEF JobType
  <2> QED BY <1>4, <1>5, <1>6, <2>1, <2>2, DeviceAssumption
<1>10. RegistryInv'
  <2>1. \A h \in Handles : h < nextHandle \/ h = nextHandle => h < nextHandle'
    BY <1>1, <1>2 DEF Handles
  <2>2. \A h \in Handles : devices'[h] # None \/ channels[h] # None => h < nextHandle'
    BY <1>5, <2>1 DEF IInv, RegistryInv
  <2>3. \A h \in Handles : devices[h] # o
    BY <1>1 DEF IInv, RegistryInv
  <2>4. ASSUME NEW v \in Objects, NEW h \in Handles, devices'[h] = v
        PROVE  dev'[v].exists /\ ~dev'[v].closed /\ (v = o <=> h = nextHandle)
    BY <1>3, <1>4, <1>5, <2>3, <2>4 DEF IInv, RegistryInv
  <2>5. ASSUME NEW v \in Objects, dev'[v].exists, ~dev'[v].closed
        PROVE  \E h \in Handles : devices'[h] = v
    <3>1. CASE v = o
      BY <1>2, <1>5, <3>1
    <3>2. CASE v # o
      <4>1. PICK h \in Handles : devices[h] = v
        BY <1>4, <2>5, <3>2 DEF IInv, RegistryInv
      <4> QED BY <1>5, <1>6, <4>1, DeviceAssumption
    <3> QED BY <3>1, <3>2
  <2>6. \A v \in Objects, g, h \in Handles : devices'[g] = v /\ devices'[h] = v => g = h
    <3> SUFFICES ASSUME NEW v \in Objects, NEW g \in Handles, NEW h \in Handles,
                        devices'[g] = v, devices'[h] = v
                 PROVE  g = h
      OBVIOUS
    <3>1. CASE v = o
      BY <2>4, <3>1
    <3>2. CASE v # o
      BY <1>5, <2>4, <3>2 DEF IInv, RegistryInv
    <3> QED BY <3>1, <3>2
  <2>7. ASSUME NEW v \in Objects, NEW h \in Handles
        PROVE  channels[h] = v <=> dev'[v].channel = h
    <3>1. dev[o].channel = 0
      BY <1>1 DEF IInv, DevicesInv, DevInv, ChannelInv
    <3>2. channels[h] = v <=> dev[v].channel = h
      BY DEF IInv, RegistryInv
    <3> QED BY <1>3, <1>4, <3>1, <3>2
  <2>8. \A h \in Handles : devices'[h] # None => channels[h] = None
    BY <1>5, <1>6 DEF IInv, RegistryInv
  <2> QED BY <1>1, <2>2, <2>4, <2>5, <2>6, <2>7, <2>8 DEF RegistryInv
<1>11. EntryInv'
  <2> SUFFICES ASSUME NEW v \in Objects
               PROVE  EntryOf(dev'[v], nextHandle', devices', channels)
    BY <1>1 DEF EntryInv
  <2>1. EntryOf(dev[v], nextHandle, devices, channels) /\ dev[v] \in DeviceType
    BY DEF IInv, EntryInv, DevicesInv, DevInv
  <2>2. dev'[v].filters \subseteq dev[v].filters
        /\ dev'[v].periodics \subseteq dev[v].periodics
    BY <1>3, <1>4
  <2>3. ASSUME NEW ds, NEW m \in Nat, nextHandle <= m,
               \A h \in Handles : h < nextHandle /\ devices[h] = None => ds[h] = None
        PROVE  EntryOf(dev'[v], m, ds, channels)
    <3>1. /\ nextHandle \in Nat
          /\ \A h \in Handles : h < nextHandle /\ channels[h] = None => channels[h] = None
      BY <1>2
    <3> QED BY <2>1, <2>2, <2>3, <3>1, EntriesKept
  <2>4. \A h \in Handles : h < nextHandle /\ devices[h] = None => devices'[h] = None
    BY <1>2, <1>5
  <2> QED BY <1>2, <2>3, <2>4
<1>12. ResultInv'
  BY <1>1, <1>3, <1>4
  DEF IInv, ResultInv, NoStaleAction, DisconnectSilences, JobType, NoJob
<1> QED BY <1>7, <1>8, <1>9, <1>10, <1>11, <1>12 DEF IInv

\* A fault of the session flags the device and nothing else.
LEMMA FaultStep ==
    ASSUME IInv, NEW o \in Objects, Fault(o)
    PROVE  IInv'
<1> DEFINE d == dev[o]
           e == Fail(d)
<1>1. d \in DeviceType /\ DevInv(d)
  BY DEF IInv, DevicesInv, DevInv
<1>2. UNCHANGED <<devices, channels, nextHandle, pc, job, result>>
  BY DEF Fault, registryVars
<1>3. /\ e \in DeviceType /\ SameHost(d, e) /\ SameAdapter(d, e)
      /\ (e.receiver = "none") = (d.receiver = "none") /\ e.reopen = d.reopen
  BY <1>1, Fails
<1>4. /\ dev'[o] = e /\ \A v \in Objects : v # o => dev'[v] = dev[v]
      /\ DOMAIN dev' = Objects /\ dev' = [v \in Objects |-> dev'[v]]
  BY DEF Fault, IInv, BaseInv
<1> HIDE DEF e
<1>5. DevInv(e)
  BY <1>1, <1>3, SameInv
<1>6. BaseInv' /\ DevicesInv'
  BY <1>2, <1>5, <1>4 DEF IInv, BaseInv, DevicesInv
<1>7. \A v \in Objects : SameHost(dev[v], dev'[v]) /\ dev'[v].fwPeriodics = dev[v].fwPeriodics
  BY <1>3, <1>4 DEF SameHost, SameAdapter
<1>8. JobInv'
  BY <1>2, <1>7 DEF IInv, JobInv, JobType, SameHost
<1>9. RegistryInv'
  BY <1>2, <1>7 DEF IInv, RegistryInv, SameHost
<1>10. EntryInv'
  BY <1>2, <1>7 DEF IInv, EntryInv, EntryOf, SameHost
<1>11. ResultInv'
  BY <1>2, <1>7 DEF IInv, ResultInv, NoStaleAction, DisconnectSilences, JobType, NoJob
<1> QED BY <1>6, <1>8, <1>9, <1>10, <1>11 DEF IInv

\* Finding a device, and giving up, change only the thread's own call.
LEMMA WaitStep ==
    ASSUME IInv, NEW t \in Threads,
           \/ \E op \in DeviceOps \cup ChannelOps, h \in Handles : Lookup(t, op, h)
           \/ Reject(t)
    PROVE  IInv'
<1>1. UNCHANGED <<devices, channels, nextHandle, dev, result>>
  BY DEF Lookup, Reject, registryVars
<1>2. /\ pc \in [Threads -> {"idle", "found"}] /\ job = [u \in Threads |-> job[u]]
      /\ devices \in [Handles -> Objects \cup {None}]
      /\ channels \in [Handles -> Objects \cup {None}]
  BY DEF IInv, BaseInv
<1>3. /\ pc' \in [Threads -> {"idle", "found"}] /\ job' = [u \in Threads |-> job'[u]]
      /\ \A u \in Threads : u # t => pc'[u] = pc[u] /\ job'[u] = job[u]
  BY <1>2 DEF Lookup, Reject
<1>4. \/ pc'[t] = "idle" /\ job'[t] = NoJob
      \/ /\ pc'[t] = "found" /\ job'[t] \in JobType /\ dev[job'[t].obj].exists
         /\ job'[t].op \in DeviceOps => devices[job'[t].id] = job'[t].obj
  <2>1. CASE Reject(t)
    BY <1>2, <2>1 DEF Reject
  <2>2. ASSUME NEW op \in DeviceOps \cup ChannelOps, NEW h \in Handles, Lookup(t, op, h)
        PROVE  /\ pc'[t] = "found" /\ job'[t] \in JobType /\ dev[job'[t].obj].exists
               /\ job'[t].op \in DeviceOps => devices[job'[t].id] = job'[t].obj
    <3> DEFINE o == IF op \in DeviceOps THEN devices[h] ELSE channels[h]
    <3>1. /\ o # None /\ pc'[t] = "found"
          /\ job'[t] = [op |-> op, id |-> h, obj |-> o]
      BY <1>2, <2>2 DEF Lookup
    <3>2. o \in Objects
      BY <1>2, <3>1
    <3>3. dev[o].exists
      <4>1. CASE op \in DeviceOps
        BY <3>2, <4>1 DEF IInv, RegistryInv
      <4>2. CASE op \notin DeviceOps
        <5>1. dev[o].channel = h
          BY <3>2, <4>2 DEF IInv, RegistryInv
        <5>2. dev[o].channel # 0
          BY <5>1 DEF Handles
        <5> QED BY <3>2, <5>2 DEF IInv, DevicesInv, DevInv, ChannelInv
      <4> QED BY <4>1, <4>2
    <3>4. op \in DeviceOps => devices[h] = o
      OBVIOUS
    <3> HIDE DEF o
    <3> QED BY <3>1, <3>2, <3>3, <3>4 DEF JobType
  <2> QED BY <2>1, <2>2
<1>5. JobInv'
  BY <1>1, <1>3, <1>4 DEF IInv, JobInv
<1>6. BaseInv'
  BY <1>1, <1>3 DEF IInv, BaseInv
<1> QED
  BY <1>1, <1>5, <1>6
  DEF IInv, DevicesInv, RegistryInv, EntryInv, ResultInv, NoStaleAction,
      DisconnectSilences

\* Every step of the specification keeps the invariant.
LEMMA StepInv == IInv /\ [Next]_vars => IInv'
<1> SUFFICES ASSUME IInv, [Next]_vars PROVE IInv'
  OBVIOUS
<1> USE DEF registryVars
<1>1. ASSUME NEW t \in Threads, PassThruClose(t) PROVE IInv'
  <2>1. Holds(t, "Close") /\ "Close" \in DeviceOps \cup ChannelOps
    BY <1>1 DEF PassThruClose, DeviceOps
  <2>2. PICK o1 \in Outcomes, o2 \in Outcomes, o3 \in Outcomes, clean \in BOOLEAN :
          Return(t, Close(Device(t), o1, o2, o3, clean))
    BY <1>1 DEF PassThruClose
  <2> DEFINE r == Close(Device(t), o1, o2, o3, clean)
  <2>3. DevInv(Device(t)) /\ Device(t).exists
    BY <2>1, Held
  <2>4. DevInv(r.dev) /\ r.dev.channel = 0 /\ r.dev.exists /\ r.dev.closed
    BY SMTT(30), <2>3, CloseLeaves
  <2> HIDE DEF r
  <2>5. Return(t, r)
    BY <2>2 DEF r
  <2>6. /\ channels' = WithoutChannel(Device(t)) /\ UNCHANGED nextHandle
        /\ devices' = [devices EXCEPT ![job[t].id] = None]
    BY <1>1 DEF PassThruClose
  <2> QED BY <2>1, <2>4, <2>5, <2>6, EndsChannel
<1>2. ASSUME NEW t \in Threads, PassThruDisconnect(t) PROVE IInv'
  <2>1. Holds(t, "Disconnect") /\ "Disconnect" \in ChannelOps
    BY <1>2 DEF PassThruDisconnect, ChannelOps
  <2>2. PICK o1 \in Outcomes, o2 \in Outcomes : Return(t, Disconnect(Device(t), o1, o2))
    BY <1>2 DEF PassThruDisconnect
  <2> DEFINE r == Disconnect(Device(t), o1, o2)
  <2>3. DevInv(Device(t)) /\ Device(t).exists /\ ~Device(t).closed /\ Device(t).channel # 0
    BY <2>1, Held
  <2>4. /\ DevInv(r.dev) /\ r.dev.channel = 0 /\ r.dev.exists /\ ~r.dev.closed
        /\ r.ok => r.dev.fwPeriodics = {}
    BY <2>3, DisconnectLeaves
  <2> HIDE DEF r
  <2>5. Return(t, r)
    BY <2>2 DEF r
  <2>6. /\ channels' = WithoutChannel(Device(t)) /\ UNCHANGED nextHandle
        /\ devices' = devices
    BY <1>2 DEF PassThruDisconnect
  <2> QED BY <2>1, <2>4, <2>5, <2>6, EndsChannel
<1>3. ASSUME NEW t \in Threads, PassThruStartPeriodicMsg(t) PROVE IInv'
  <2>1. /\ Holds(t, "StartPeriodic") /\ MayStartPeriodic(Device(t)) /\ Allocate
        /\ "StartPeriodic" \in ChannelOps /\ UNCHANGED <<devices, channels>>
    BY <1>3 DEF PassThruStartPeriodicMsg, ChannelOps
  <2>2. PICK fw \in FwHandles \ Device(t).fwPeriodics, stored \in BOOLEAN,
             o1 \in Outcomes, o2 \in Outcomes :
          Return(t, StartPeriodic(Device(t), nextHandle, fw, o1, stored, o2))
    BY <1>3 DEF PassThruStartPeriodicMsg
  <2> DEFINE r == StartPeriodic(Device(t), nextHandle, fw, o1, stored, o2)
  <2>3. DevInv(Device(t)) /\ Certain(Device(t)) /\ Device(t).channel # 0
    BY <2>1, Held
  <2>4. nextHandle \in Handles
    BY <2>1, DeviceAssumption DEF IInv, BaseInv, Allocate, Handles
  <2>5. DevInv(r.dev) /\ Grows(Device(t), r.dev, nextHandle)
    BY <2>1, <2>3, <2>4, StartPeriodicKeeps
  <2> HIDE DEF r
  <2>6. Return(t, r)
    BY <2>2 DEF r
  <2> QED BY <2>1, <2>5, <2>6, TableCall
<1>4. ASSUME NEW t \in Threads, PassThruStartMsgFilter(t) PROVE IInv'
  <2>1. /\ Holds(t, "StartFilter") /\ Allocate
        /\ "StartFilter" \in ChannelOps /\ UNCHANGED <<devices, channels>>
    BY <1>4 DEF PassThruStartMsgFilter, ChannelOps
  <2>2. PICK table \in Tables, fw \in FwHandles :
          /\ MayStartFilter(Device(t), table)
          /\ [fw |-> fw, table |-> table] \notin Device(t).fwFilters
          /\ \E r \in {StartFilter(Device(t), nextHandle, fw, table, o1, stored, o2) :
                        stored \in BOOLEAN, o1, o2 \in Outcomes} : Return(t, r)
    BY <1>4 DEF PassThruStartMsgFilter
  <2>a. PICK stored \in BOOLEAN, o1 \in Outcomes, o2 \in Outcomes :
          Return(t, StartFilter(Device(t), nextHandle, fw, table, o1, stored, o2))
    BY <2>2
  <2> DEFINE r == StartFilter(Device(t), nextHandle, fw, table, o1, stored, o2)
  <2>3. DevInv(Device(t)) /\ Certain(Device(t)) /\ Device(t).channel # 0
    BY <2>1, Held
  <2>4. nextHandle \in Handles
    BY <2>1, DeviceAssumption DEF IInv, BaseInv, Allocate, Handles
  <2>5. DevInv(r.dev) /\ Grows(Device(t), r.dev, nextHandle)
    BY <2>2, <2>3, <2>4, StartFilterKeeps
  <2> HIDE DEF r
  <2>6. Return(t, r)
    BY <2>a DEF r
  <2> QED BY <2>1, <2>5, <2>6, TableCall
\* The calls that allocate no ID.
<1>5. ASSUME NEW t \in Threads, NEW op \in DeviceOps \cup ChannelOps, Holds(t, op),
             op # "Disconnect", NEW r, Return(t, r), DevInv(r.dev),
             Shrinks(Device(t), r.dev), UNCHANGED registryVars
      PROVE  IInv'
  BY <1>5, TableCall
<1>6. ASSUME NEW t \in Threads, PassThruStopPeriodicMsg(t) PROVE IInv'
  <2>1. /\ Holds(t, "StopPeriodic") /\ "StopPeriodic" \in ChannelOps
        /\ UNCHANGED registryVars
    BY <1>6 DEF PassThruStopPeriodicMsg, ChannelOps
  <2>2. PICK p \in Device(t).periodics, o \in Outcomes :
          Return(t, StopPeriodic(Device(t), p, o))
    BY <1>6 DEF PassThruStopPeriodicMsg
  <2> DEFINE r == StopPeriodic(Device(t), p, o)
  <2>3. DevInv(Device(t)) /\ Certain(Device(t)) /\ Device(t).channel # 0
    BY <2>1, Held
  <2>4. DevInv(r.dev) /\ Shrinks(Device(t), r.dev)
    BY <2>3, StopPeriodicKeeps
  <2> HIDE DEF r
  <2>5. Return(t, r)
    BY <2>2 DEF r
  <2> QED BY <1>5, <2>1, <2>4, <2>5
<1>7. ASSUME NEW t \in Threads, PassThruStopMsgFilter(t) PROVE IInv'
  <2>1. /\ Holds(t, "StopFilter") /\ "StopFilter" \in ChannelOps
        /\ UNCHANGED registryVars
    BY <1>7 DEF PassThruStopMsgFilter, ChannelOps
  <2>2. PICK x \in Device(t).filters, o \in Outcomes :
          Return(t, StopFilter(Device(t), x, o))
    BY <1>7 DEF PassThruStopMsgFilter
  <2> DEFINE r == StopFilter(Device(t), x, o)
  <2>3. DevInv(Device(t)) /\ Certain(Device(t)) /\ Device(t).channel # 0
    BY <2>1, Held
  <2>4. DevInv(r.dev) /\ Shrinks(Device(t), r.dev)
    BY <2>3, StopFilterKeeps
  <2> HIDE DEF r
  <2>5. Return(t, r)
    BY <2>2 DEF r
  <2> QED BY <1>5, <2>1, <2>4, <2>5
<1>8. ASSUME NEW t \in Threads, ClearIoctl(t) PROVE IInv'
  <2>0. UNCHANGED registryVars
    BY <1>8 DEF ClearIoctl
  <2>1. CASE /\ Holds(t, "ClearFilters")
             /\ \E r \in {ClearFilters(Device(t), o1, o2, o3) :
                           o1, o2, o3 \in Outcomes} : Return(t, r)
    <3>1. PICK o1 \in Outcomes, o2 \in Outcomes, o3 \in Outcomes :
            Return(t, ClearFilters(Device(t), o1, o2, o3))
      BY <2>1
    <3> DEFINE r == ClearFilters(Device(t), o1, o2, o3)
    <3>2. "ClearFilters" \in ChannelOps
      BY DEF ChannelOps
    <3>3. DevInv(Device(t)) /\ Certain(Device(t)) /\ Device(t).channel # 0
      BY <2>1, <3>2, Held
    <3>4. DevInv(r.dev) /\ Shrinks(Device(t), r.dev)
      BY <3>3, ClearFiltersKeeps
    <3> HIDE DEF r
    <3>5. Return(t, r)
      BY <3>1 DEF r
    <3> QED BY <1>5, <2>0, <2>1, <3>2, <3>4, <3>5
  <2>2. CASE /\ Holds(t, "ClearPeriodics")
             /\ \E r \in {ClearPeriodicMsgs(Device(t), o) : o \in Outcomes} : Return(t, r)
    <3>1. PICK o \in Outcomes : Return(t, ClearPeriodicMsgs(Device(t), o))
      BY <2>2
    <3> DEFINE r == ClearPeriodicMsgs(Device(t), o)
    <3>2. "ClearPeriodics" \in ChannelOps
      BY DEF ChannelOps
    <3>3. DevInv(Device(t)) /\ Certain(Device(t)) /\ Device(t).channel # 0
      BY <2>2, <3>2, Held
    <3>4. DevInv(r.dev) /\ Shrinks(Device(t), r.dev)
      BY <3>3, ClearPeriodicsKeeps
    <3> HIDE DEF r
    <3>5. Return(t, r)
      BY <3>1 DEF r
    <3> QED BY <1>5, <2>0, <2>2, <3>2, <3>4, <3>5
  <2> QED BY <1>8, <2>1, <2>2 DEF ClearIoctl
<1>9. ASSUME NEW t \in Threads, Converse(t) PROVE IInv'
  <2>1. PICK op \in {"Exchange", "GetValue", "Read"}, o \in Outcomes :
          /\ Holds(t, op)
          /\ \E r \in {Exchange(Device(t), o), GetValue(Device(t), o), Read(Device(t))} :
               Return(t, r)
    <3>1. "ok" \in Outcomes
      BY DEF Outcomes
    <3>2. CASE \E o \in Outcomes : Holds(t, "Exchange") /\ Return(t, Exchange(Device(t), o))
      BY <3>2
    <3>3. CASE \E o \in Outcomes : Holds(t, "GetValue") /\ Return(t, GetValue(Device(t), o))
      BY <3>3
    <3>4. CASE Holds(t, "Read") /\ Return(t, Read(Device(t)))
      BY <3>1, <3>4
    <3> QED BY <1>9, <3>2, <3>3, <3>4 DEF Converse
  <2>2. op \in DeviceOps \cup ChannelOps /\ op # "Disconnect"
    BY DEF DeviceOps, ChannelOps
  <2>3. PICK r \in {Exchange(Device(t), o), GetValue(Device(t), o), Read(Device(t))} :
          Return(t, r)
    BY <2>1
  <2>4. DevInv(Device(t))
    BY <2>1, <2>2, Held
  <2>5. DevInv(r.dev) /\ Shrinks(Device(t), r.dev)
    BY <2>3, <2>4, ExchangeKeeps
  <2>6. UNCHANGED registryVars
    BY <1>9 DEF Converse
  <2> QED BY <1>5, <2>1, <2>2, <2>3, <2>5, <2>6
<1>10. CASE UNCHANGED vars
  BY <1>10
  DEF vars, IInv, BaseInv, DevicesInv, JobInv, RegistryInv, EntryInv, ResultInv,
      NoStaleAction, DisconnectSilences
<1> QED
  BY <1>1, <1>2, <1>3, <1>4, <1>6, <1>7, <1>8, <1>9, <1>10, ConnectStep, WaitStep,
     OpenStep, FaultStep
  DEF Next, Call

\* The invariant holds throughout.
LEMMA Invariance == Spec => []IInv
<1> QED BY InitInv, StepInv, PTL DEF Spec
---------------------------------------------------------------------------
(* The theorems.                                                           *)

\* Every variable keeps its type, and no channel ever has more periodic
\* messages or flow-control filters than the code allows (the limits at
\* j2534.cpp:360 and 413).
THEOREM TypesAndLimits == Spec => []TypeOK
<1>1. IInv => TypeOK
  <2> SUFFICES ASSUME IInv PROVE TypeOK
    OBVIOUS
  <2>1. \A o \in Objects :
          /\ dev[o] \in DeviceType
          /\ Cardinality(dev[o].periodics) <= MaxPeriodics
          /\ Cardinality(InTable(dev[o].filters, "flow")) <= MaxFlow
    BY DEF IInv, DevicesInv, DevInv, TableInv
  <2>2. ASSUME NEW t \in Threads PROVE (pc[t] = "found") = (job[t] # NoJob)
    <3>1. pc[t] = "found" => job[t].op # "none"
      BY DEF IInv, JobInv, JobType, DeviceOps, ChannelOps
    <3>2. pc[t] \in {"idle", "found"} /\ (pc[t] = "idle" => job[t] = NoJob)
      BY DEF IInv, BaseInv, JobInv
    <3> QED BY <3>1, <3>2 DEF NoJob
  <2> QED BY <2>1, <2>2 DEF TypeOK, IInv, BaseInv, DeviceType
<1> QED BY Invariance, <1>1, PTL

\* Until a device is closed or marked for reopening, host and adapter agree
\* on the channel, its node, its filters and its periodic messages, however
\* the commands of the calls ended (Device in j2534.cpp).
THEOREM HostAndAdapterAgree == Spec => []HostAgrees
<1>1. IInv => HostAgrees
  <2> SUFFICES ASSUME IInv, NEW o \in Objects, Certain(dev[o])
               PROVE  /\ (dev[o].channel # 0) = dev[o].wireOpen
                      /\ dev[o].wireOpen = (dev[o].node # "none")
                      /\ dev[o].wireOpen => dev[o].node = dev[o].protocol
                      /\ dev[o].channel # 0 =>
                           /\ {[fw |-> x.fw, table |-> x.table] : x \in dev[o].filters}
                                = dev[o].fwFilters
                           /\ {p.fw : p \in dev[o].periodics} \subseteq dev[o].fwPeriodics
                           /\ ~dev[o].untracked =>
                                {p.fw : p \in dev[o].periodics} = dev[o].fwPeriodics
    BY DEF HostAgrees, ChannelAgrees, TablesAgree
  <2> DEFINE d == dev[o]
  <2>1. d \in DeviceType /\ ChannelInv(d) /\ AdapterInv(d)
    BY DEF IInv, DevicesInv, DevInv
  <2>2. d.protocol # "none" /\ d.wireOpen \in BOOLEAN
    BY <2>1 DEF DeviceType, Protocols
  <2>3. /\ (d.channel # 0) = d.wireOpen
        /\ d.wireOpen = (d.node # "none")
        /\ d.wireOpen => d.node = d.protocol
    BY <2>1, <2>2 DEF ChannelInv, AdapterInv
  <2>4. ASSUME d.channel # 0
        PROVE  {[fw |-> x.fw, table |-> x.table] : x \in d.filters} = d.fwFilters
    <3>1. \A x \in d.filters : [fw |-> x.fw, table |-> x.table] \in d.fwFilters
      BY <2>1, <2>4 DEF AdapterInv
    <3>2. ASSUME NEW y \in d.fwFilters
          PROVE  \E x \in d.filters : y = [fw |-> x.fw, table |-> x.table]
      <4>1. PICK x \in d.filters : x.fw = y.fw /\ x.table = y.table
        BY <2>1, <2>4 DEF AdapterInv
      <4>2. y \in [fw : FwHandles, table : Tables]
        BY <2>1 DEF DeviceType
      <4>3. y = [fw |-> x.fw, table |-> x.table]
        BY <4>1, <4>2
      <4> QED BY <4>3
    <3> QED BY <3>1, <3>2
  <2>5. d.channel # 0 =>
          /\ {p.fw : p \in d.periodics} \subseteq d.fwPeriodics
          /\ ~d.untracked => {p.fw : p \in d.periodics} = d.fwPeriodics
    BY <2>1 DEF AdapterInv
  <2> QED BY <2>3, <2>4, <2>5
<1> QED BY Invariance, <1>1, PTL

\* While the channel is open for the host, even uncertain, a periodic message
\* in the adapter is one Disconnect and Close know to clear.
THEOREM NoPeriodicIsForgotten == Spec => []NoForgottenPeriodic
<1>1. IInv => NoForgottenPeriodic
  BY DEF IInv, DevicesInv, DevInv, AdapterInv, NoForgottenPeriodic
<1> QED BY Invariance, <1>1, PTL

\* A Disconnect that reports success leaves no periodic message transmitting,
\* even on a device that had been marked for reopening.
THEOREM DisconnectIsSilent == Spec => []DisconnectSilences
<1>1. IInv => DisconnectSilences
  BY DEF IInv, ResultInv
<1> QED BY Invariance, <1>1, PTL

\* LockedDevice turns away every handle that died while its call waited.
THEOREM NoCallIsStale == Spec => []NoStaleAction
<1>1. IInv => NoStaleAction
  BY DEF IInv, ResultInv
<1> QED BY Invariance, <1>1, PTL

\* allocate_handle and the registries: an ID names one live thing, and what
\* the calls reach through it is there.
THEOREM IdsAreExact == Spec => []IdsExact
<1>1. IInv => IdsExact
  <2> SUFFICES ASSUME IInv PROVE IdsExact
    OBVIOUS
  <2>1. ReceiverPresent
    BY DEF IInv, DevicesInv, DevInv, ChannelInv, ReceiverPresent
  <2>2. IdsDistinct
    BY DEF IInv, RegistryInv, EntryInv, EntryOf, IdsDistinct
  <2>3. ASSUME NEW o \in Objects
        PROVE  Cardinality({h \in Handles : devices[h] = o})
                 = IF dev[o].exists /\ ~dev[o].closed THEN 1 ELSE 0
    <3>1. CASE dev[o].exists /\ ~dev[o].closed
      <4>1. PICK h \in Handles : devices[h] = o
        BY <3>1 DEF IInv, RegistryInv
      <4>2. {g \in Handles : devices[g] = o} = {h}
        BY <4>1 DEF IInv, RegistryInv
      <4> QED BY <3>1, <4>2, FS_Singleton
    <3>2. CASE ~(dev[o].exists /\ ~dev[o].closed)
      <4>1. {g \in Handles : devices[g] = o} = {}
        BY <3>2 DEF IInv, RegistryInv
      <4> QED BY <3>2, <4>1, FS_EmptySet
    <3> QED BY <3>1, <3>2
  <2>4. \A o \in Objects : dev[o].closed => dev[o].channel = 0
    BY DEF IInv, DevicesInv, DevInv, ChannelInv
  <2>5. \A o \in Objects, h \in Handles : (channels[h] = o) = (dev[o].channel = h)
    BY DEF IInv, RegistryInv
  <2>6. RegistryExact
    BY <2>3, <2>4, <2>5 DEF RegistryExact
  <2> QED BY <2>1, <2>2, <2>6 DEF IdsExact
<1> QED BY Invariance, <1>1, PTL
============================================================================
