--------------------------- MODULE TransmitProofs --------------------------
(***************************************************************************)
(* Proofs about transmit confirmations, for any number of writers, batch   *)
(* size, record list, adapter buffer and length of the sequence numbers,   *)
(* which wrap.  A confirmation goes to another message's record only under *)
(* a number that was given away while it was in use; as long as none was,  *)
(* every call is credited with exactly its own messages.                   *)
(***************************************************************************)
EXTENDS Transmit, FiniteSetTheorems, WellFoundedInduction, TLAPS

Holding == {"sending", "sent", "accepted"}

\* One writer at a time is between its checks and its wait, under the
\* lifecycle lock; every call has a number of its own.
CallInv ==
    /\ \A w \in Writers : lock = w <=> pc[w] \in Holding
    /\ \A w \in Writers : call[w] <= calls /\ (pc[w] # "idle" => call[w] > 0)
    /\ \A w \in Writers : pc[w] = "sent" => sequence > 0
    /\ \A v, w \in Writers : v # w /\ call[v] = call[w] => call[w] = 0
    /\ \A w \in Writers :
        /\ pc[w] \in Holding => index[w] < size[w]
        /\ pc[w] = "blocked" => index[w] = size[w] /\ size[w] > 0
    /\ ended \in [Calls -> {None} \cup [ok : BOOLEAN, timed : BOOLEAN,
                                        size : 1 .. MaxBatch, count : Nat]]

\* One when a recorded message awaits the adapter's answer.
Unanswered == IF \E w \in Writers : pc[w] = "sent" THEN 1 ELSE 0

\* While the receiver runs and no number in use was given away, no two records
\* share a number, no periodic message has one of them, and they end with the
\* messages in the adapter's buffer and the one it has not answered.
DistinctNumbers ==
    \A i, j \in 1 .. Len(records) : i # j => records[i].seq # records[j].seq

RecordInv ==
    ~stopped /\ reused = {} =>
        /\ DistinctNumbers
        /\ \A i \in 1 .. Len(records) : records[i].seq \notin periodics
        /\ Len(buffer) + Unanswered <= Len(records)
        /\ \A i \in 1 .. Len(buffer) :
              buffer[i] = records[Len(records) - Unanswered - Len(buffer) + i]
        /\ \A w \in Writers : pc[w] = "sent" =>
              records[Len(records)] = [seq |-> sequence, frame |-> <<call[w], index[w] + 1>>]

\* The messages that have a number: recorded, in the adapter's buffer, or not
\* yet answered.
Numbered ==
    {records[i] : i \in 1 .. Len(records)} \cup
    {buffer[i] : i \in 1 .. Len(buffer)} \cup
    {[seq |-> sequence, frame |-> <<call[w], index[w] + 1>>] :
        w \in {v \in Writers : pc[v] = "sent"}}

\* Two messages, or a message and a periodic one, share a number only if it
\* was given away while it was in use.
NumberInv ==
    /\ \A p, r \in Numbered : p.seq = r.seq /\ p.seq \notin reused => p.frame = r.frame
    /\ \A p \in Numbered : p.seq \in periodics => p.seq \in reused

\* The messages the adapter has taken of the call that w is in.
Taken(w) == IF pc[w] = "accepted" THEN index[w] + 1 ELSE index[w]

\* No message is sent twice.
FrameInv ==
    /\ \A f \in onBus : f[1] <= calls
    /\ \A i \in 1 .. Len(buffer) : buffer[i].frame[1] <= calls
    /\ \A i \in 1 .. Len(buffer) : buffer[i].frame \notin onBus
    /\ \A i, j \in 1 .. Len(buffer) : i # j => buffer[i].frame # buffer[j].frame
    /\ \A w \in Writers : pc[w] # "idle" =>
        /\ \A f \in onBus : f[1] = call[w] => f[2] <= Taken(w)
        /\ \A i \in 1 .. Len(buffer) :
              buffer[i].frame[1] = call[w] => buffer[i].frame[2] <= Taken(w)

\* The inductive invariant.
IInv ==
    /\ TypeOK /\ CallInv /\ RecordInv /\ NumberInv /\ FrameInv
    /\ CreditExact /\ ShiftNeedsReuse /\ CountsAreReal

\* Every element of s is one of t.
Within(s, t) == \A i \in 1 .. Len(s) : \E j \in 1 .. Len(t) : s[i] = t[j]
---------------------------------------------------------------------------
\* There are finitely many messages.
LEMMA FramesFinite ==
    ASSUME NEW B \in SUBSET Frames, NEW c \in Calls
    PROVE  LET own == {f \in B : f[1] = c}
           IN  IsFiniteSet(own) /\ Cardinality(own) \in Nat
<1>1. IsFiniteSet(Calls) /\ IsFiniteSet(1 .. MaxBatch)
  BY FS_Interval, TransmitAssumption DEF Calls
<1>2. IsFiniteSet(Frames)
  BY <1>1, FS_Product DEF Frames
<1>3. IsFiniteSet({f \in B : f[1] = c})
  BY <1>2, FS_Subset
<1> QED BY <1>3, FS_CardinalityType

\* A message that goes out counts for its own call and for no other.
LEMMA OwnGrows ==
    ASSUME NEW B \in SUBSET Frames, NEW f \in Frames, f \notin B, NEW c \in Calls
    PROVE  Cardinality({g \in B \cup {f} : g[1] = c}) =
             Cardinality({g \in B : g[1] = c}) + (IF f[1] = c THEN 1 ELSE 0)
<1> DEFINE own == {g \in B : g[1] = c}
<1>1. IsFiniteSet(own) /\ Cardinality(own) \in Nat
  BY FramesFinite
<1>2. CASE f[1] = c
  <2>1. {g \in B \cup {f} : g[1] = c} = own \cup {f} /\ f \notin own
    BY <1>2
  <2>2. Cardinality(own \cup {f}) = Cardinality(own) + 1
    BY <1>1, <2>1, FS_AddElement
  <2> QED BY <1>2, <2>1, <2>2
<1>3. CASE f[1] # c
  <2>1. {g \in B \cup {f} : g[1] = c} = own
    BY <1>3
  <2> QED BY <1>1, <1>3, <2>1
<1> QED BY <1>2, <1>3

\* A call whose messages are the first n of its batch has at most n of them
\* on the bus.
LEMMA OwnBound ==
    ASSUME NEW B \in SUBSET Frames, NEW c \in Calls, NEW n \in Nat,
           \A f \in B : f[1] = c => f[2] <= n
    PROVE  Cardinality({f \in B : f[1] = c}) <= n
<1> DEFINE own == {f \in B : f[1] = c}
           places == [k \in 1 .. n |-> <<c, k>>]
<1>1. IsFiniteSet(1 .. n) /\ Cardinality(1 .. n) = n
  BY FS_Interval
<1>2. \A f \in own : f[2] \in 1 .. n /\ f = <<c, f[2]>>
  BY DEF Frames, Calls
<1>3. places \in Surjection(1 .. n, {<<c, k>> : k \in 1 .. n})
  BY DEF Surjection
<1>4. /\ IsFiniteSet({<<c, k>> : k \in 1 .. n})
      /\ Cardinality({<<c, k>> : k \in 1 .. n}) <= n
  BY <1>1, <1>3, FS_Surjection
<1>5. own \subseteq {<<c, k>> : k \in 1 .. n}
  BY <1>2
<1>6. /\ Cardinality(own) <= Cardinality({<<c, k>> : k \in 1 .. n})
      /\ Cardinality(own) \in Nat /\ Cardinality({<<c, k>> : k \in 1 .. n}) \in Nat
  BY <1>4, <1>5, FS_Subset, FS_CardinalityType
<1> QED BY <1>4, <1>6

\* The parts of a message and of a record.
LEMMA FrameTypes ==
    ASSUME NEW f \in Frames
    PROVE  f[1] \in Calls /\ f[1] \in Nat /\ f[2] \in 1 .. MaxBatch /\ f[2] \in Nat
BY DEF Frames, Calls

LEMMA RecordTypes ==
    ASSUME NEW s \in Seq(Pending), NEW i \in 1 .. Len(s)
    PROVE  /\ s[i] \in Pending /\ s[i].seq \in Seqs /\ s[i].seq \in Nat
           /\ s[i].frame \in Frames /\ s[i].frame[1] \in Calls
           /\ s[i].frame[1] \in Nat /\ s[i].frame[2] \in Nat
<1>1. s[i] \in Pending
  OBVIOUS
<1>2. s[i].seq \in Seqs /\ s[i].frame \in Frames
  BY <1>1 DEF Pending
<1> QED BY <1>1, <1>2, FrameTypes DEF Seqs

\* A record list without its first record.
LEMMA TailFacts ==
    ASSUME NEW s \in Seq(Pending), s # <<>>
    PROVE  /\ Tail(s) \in Seq(Pending) /\ Len(Tail(s)) = Len(s) - 1
           /\ Len(s) \in Nat \ {0}
           /\ \A i \in 1 .. Len(Tail(s)) : Tail(s)[i] = s[i + 1]
OBVIOUS

\* A record list from its m-th record to its n-th.
LEMMA SubSeqFacts ==
    ASSUME NEW s \in Seq(Pending), NEW m \in 1 .. (Len(s) + 1), NEW n \in (m - 1) .. Len(s)
    PROVE  /\ SubSeq(s, m, n) \in Seq(Pending) /\ Len(SubSeq(s, m, n)) = n - m + 1
           /\ \A i \in 1 .. Len(SubSeq(s, m, n)) : SubSeq(s, m, n)[i] = s[m + i - 1]
OBVIOUS

\* The number of the next command is one of the numbers.
LEMMA NextNumber == ASSUME TypeOK PROVE NextSeq \in Seqs
<1>1. sequence \in Nat /\ MaxSeq \in Nat \ {0}
  BY TransmitAssumption DEF TypeOK
<1>2. sequence % MaxSeq \in 0 .. (MaxSeq - 1)
  BY <1>1
<1> QED BY <1>1, <1>2 DEF NextSeq, Seqs

\* A set of numbers has a least one.
LEMMA FirstOne ==
    ASSUME NEW T \in SUBSET Nat, T # {}
    PROVE  \E n \in T : \A m \in T : n <= m
<1> DEFINE R == {pr \in Nat \X Nat : pr[1] < pr[2]}
<1>1. IsWellFoundedOn(R, Nat)
  BY NatLessThanWellFounded DEF OpToRel
<1> HIDE DEF R
<1>2. PICK n \in T : \A m \in T : ~ (<<m, n>> \in R)
  BY <1>1, WFMin
<1>3. ASSUME NEW m \in T PROVE n <= m
  <2>1. <<m, n>> \in Nat \X Nat
    OBVIOUS
  <2>2. ~ m < n
    BY <1>2, <2>1 DEF R
  <2> QED BY <2>2
<1> QED BY <1>3

\* Numbers stay apart when no message gains a number.
LEMMA NumberKept ==
    ASSUME NumberInv, Within(records', records), Within(buffer', buffer),
           \A w \in Writers : pc'[w] = "sent" =>
               /\ pc[w] = "sent" /\ sequence' = sequence
               /\ call'[w] = call[w] /\ index'[w] = index[w],
           periodics' \subseteq periodics, reused \subseteq reused'
    PROVE  NumberInv'
<1>1. Numbered' \subseteq Numbered
  <2> SUFFICES ASSUME NEW p \in Numbered' PROVE p \in Numbered
    OBVIOUS
  <2>1. CASE \E i \in 1 .. Len(records') : p = records'[i]
    BY <2>1 DEF Within, Numbered
  <2>2. CASE \E i \in 1 .. Len(buffer') : p = buffer'[i]
    BY <2>2 DEF Within, Numbered
  <2>3. CASE \E w \in Writers : /\ pc'[w] = "sent"
                                /\ p = [seq |-> sequence', frame |-> <<call'[w], index'[w] + 1>>]
    BY <2>3 DEF Numbered
  <2> QED BY <2>1, <2>2, <2>3 DEF Numbered
<1> QED BY <1>1 DEF NumberInv

\* A confirmation under the number of a record credits that record.
LEMMA CreditOf ==
    ASSUME NEW s, NEW f, NEW k \in 1 .. Len(records), records[k].seq = s, ~stopped,
           records \in Seq(Pending),
           DistinctNumbers, DeliverConfirmed(s, f)
    PROVE  /\ records' = SubSeq(records, k + 1, Len(records))
           /\ confirmed' = [confirmed EXCEPT ![records[k].frame[1]] = @ + 1]
           /\ paired' = paired \cup {[seq |-> s, frame |-> f, record |-> records[k].frame]}
<1> DEFINE hits == {i \in 1 .. Len(records) : records[i].seq = s}
           hit == CHOOSE i \in hits : \A j \in hits : i <= j
<1>1. hits = {k}
  BY DEF DistinctNumbers
<1>2. hit = k
  BY <1>1
<1> QED BY <1>1, <1>2 DEF DeliverConfirmed

\* A confirmation under a number that no record has, or after stop(), is
\* ignored.
LEMMA NoCredit ==
    ASSUME NEW s, NEW f, DeliverConfirmed(s, f),
           stopped \/ \A i \in 1 .. Len(records) : records[i].seq # s
    PROVE  UNCHANGED creditVars
BY DEF DeliverConfirmed

\* Whatever the numbers are, what a confirmation credits is a record under its
\* own number.
LEMMA SomeCredit ==
    ASSUME TypeOK, NEW s \in Seqs, NEW f \in Frames \cup {Periodic}, DeliverConfirmed(s, f)
    PROVE  /\ records' \in Seq(Pending) /\ Len(records') <= Capacity
           /\ Within(records', records)
           /\ confirmed' \in [Calls -> Nat]
           /\ paired' \subseteq [seq : Seqs, frame : Frames \cup {Periodic}, record : Frames]
           /\ \/ paired' = paired
              \/ \E k \in 1 .. Len(records) :
                    /\ records[k].seq = s
                    /\ paired' = paired \cup
                         {[seq |-> s, frame |-> f, record |-> records[k].frame]}
<1>1. /\ records \in Seq(Pending) /\ Len(records) \in Nat /\ Len(records) <= Capacity
      /\ confirmed \in [Calls -> Nat]
      /\ paired \subseteq [seq : Seqs, frame : Frames \cup {Periodic}, record : Frames]
  BY DEF TypeOK
<1> DEFINE hits == {i \in 1 .. Len(records) : records[i].seq = s}
           hit == CHOOSE i \in hits : \A j \in hits : i <= j
<1>2. CASE stopped \/ hits = {}
  <2>1. UNCHANGED <<records, confirmed, paired>>
    BY <1>2 DEF DeliverConfirmed, creditVars
  <2> QED BY <1>1, <2>1 DEF Within
<1>3. CASE ~stopped /\ hits # {}
  <2>1. hit \in 1 .. Len(records) /\ records[hit].seq = s
    <3>1. hits \in SUBSET Nat /\ hits # {}
      BY <1>3
    <3>2. \E i \in hits : \A j \in hits : i <= j
      <4> HIDE DEF hits
      <4> QED BY <3>1, FirstOne
    <3>3. hit \in hits
      <4> HIDE DEF hits
      <4> QED BY <3>2
    <3> QED BY <3>3
  <2>2. /\ records' = SubSeq(records, hit + 1, Len(records))
        /\ confirmed' = [confirmed EXCEPT ![records[hit].frame[1]] = @ + 1]
        /\ paired' = paired \cup {[seq |-> s, frame |-> f, record |-> records[hit].frame]}
    BY <1>3 DEF DeliverConfirmed
  <2> HIDE DEF hit
  <2>3. records[hit].frame \in Frames /\ records[hit].frame[1] \in Calls
    BY <1>1, <2>1, RecordTypes
  <2>4. hit + 1 \in 1 .. (Len(records) + 1) /\ Len(records) \in ((hit + 1) - 1) .. Len(records)
    BY <1>1, <2>1
  <2>5. /\ records' \in Seq(Pending) /\ Len(records') = Len(records) - (hit + 1) + 1
        /\ \A i \in 1 .. Len(records') : records'[i] = records[(hit + 1) + i - 1]
    BY <1>1, <2>2, <2>4, SubSeqFacts
  <2>6. Len(records') <= Capacity
    BY <1>1, <2>1, <2>5, TransmitAssumption
  <2>7. Within(records', records)
    <3>1. \A i \in 1 .. Len(records') : (hit + 1) + i - 1 \in 1 .. Len(records)
      BY <1>1, <2>1, <2>5
    <3> QED BY <2>5, <3>1 DEF Within
  <2>8. confirmed' \in [Calls -> Nat]
    BY <1>1, <2>2, <2>3
  <2>9. paired' \subseteq [seq : Seqs, frame : Frames \cup {Periodic}, record : Frames]
    BY <1>1, <2>2, <2>3
  <2> QED BY <2>1, <2>2, <2>5, <2>6, <2>7, <2>8, <2>9
<1> QED BY <1>2, <1>3

\* What is known of a writer inside a call.
LEMMA ActiveCall ==
    ASSUME IInv, NEW w \in Writers, pc[w] # "idle"
    PROVE  /\ call[w] \in Calls /\ size[w] \in 1 .. MaxBatch /\ timed[w] \in BOOLEAN
           /\ call[w] \in Nat /\ size[w] \in Nat /\ index[w] \in Nat
           /\ pc[w] \in Holding => index[w] + 1 \in 1 .. MaxBatch
<1>1. /\ call[w] \in 0 .. MaxCalls /\ size[w] \in 0 .. MaxBatch /\ timed[w] \in BOOLEAN
      /\ index[w] \in 0 .. MaxBatch /\ pc[w] \in Holding \cup {"blocked"}
  BY DEF IInv, TypeOK, Holding
<1>2. call[w] > 0 /\ (index[w] < size[w] \/ size[w] > 0) /\ (pc[w] \in Holding => index[w] < size[w])
  BY <1>1 DEF IInv, CallInv
<1> QED BY <1>1, <1>2, TransmitAssumption DEF Calls

\* Leaving a call keeps what is known of calls, if the count it reports is
\* real.
LEMMA Ending ==
    ASSUME IInv, NEW w \in Writers, pc[w] # "idle",
           NEW ok \in BOOLEAN, NEW count \in Nat, End(w, ok, count),
           reused = {} => /\ timed[w] => count <= Cardinality(Own(call[w]))
                          /\ ok => count = size[w],
           UNCHANGED <<onBus, buffer, sequence, reused>>
    PROVE  CallInv' /\ CountsAreReal' /\ FrameInv'
<1>1. call[w] \in Calls /\ size[w] \in 1 .. MaxBatch /\ timed[w] \in BOOLEAN
  BY ActiveCall
<1> DEFINE e == [ok |-> ok, timed |-> timed[w], size |-> size[w], count |-> count]
<1>2. /\ pc' = [pc EXCEPT ![w] = "idle"] /\ lock' = IF lock = w THEN None ELSE lock
      /\ ended' = [ended EXCEPT ![call[w]] = e] /\ UNCHANGED <<call, size, timed, index, calls>>
  BY DEF End
<1>3. e \in [ok : BOOLEAN, timed : BOOLEAN, size : 1 .. MaxBatch, count : Nat]
  BY <1>1
<1>4. CallInv'
  <2>1. \A v \in Writers : lock' = v <=> pc'[v] \in Holding
    BY <1>2, TransmitAssumption DEF IInv, TypeOK, CallInv, Holding
  <2>2. ended' \in [Calls -> {None} \cup [ok : BOOLEAN, timed : BOOLEAN,
                                          size : 1 .. MaxBatch, count : Nat]]
    BY <1>2, <1>3 DEF IInv, CallInv
  <2>3. \A v \in Writers : pc'[v] = "idle" \/ pc'[v] = pc[v]
    BY <1>2 DEF IInv, TypeOK
  <2>4. \A v \in Writers : /\ call'[v] <= calls' /\ (pc'[v] # "idle" => call'[v] > 0)
                           /\ pc'[v] = "sent" => sequence' > 0
    BY <1>2, <2>3 DEF IInv, CallInv
  <2>5. \A v \in Writers : /\ pc'[v] \in Holding => index'[v] < size'[v]
                           /\ pc'[v] = "blocked" => index'[v] = size'[v] /\ size'[v] > 0
    BY <1>2, <2>3 DEF IInv, CallInv, Holding
  <2> QED BY <1>2, <2>1, <2>2, <2>4, <2>5 DEF IInv, CallInv
<1>5. ASSUME reused = {}, NEW c \in Calls, ended'[c] # None
      PROVE  /\ ended'[c].timed => ended'[c].count <= Cardinality(Own(c)')
             /\ ended'[c].ok => ended'[c].count = ended'[c].size
  <2>1. CASE c = call[w]
    <3>1. ended'[c] = e
      BY <1>1, <1>2, <2>1 DEF IInv, CallInv
    <3> QED BY <1>5, <2>1, <3>1 DEF Own
  <2>2. CASE c # call[w]
    <3>1. ended'[c] = ended[c]
      BY <1>2, <2>2 DEF IInv, CallInv
    <3> QED BY <1>5, <3>1 DEF IInv, CountsAreReal, Own
  <2> QED BY <2>1, <2>2
<1>6. FrameInv'
  <2>1. \A v \in Writers : pc'[v] # "idle" => pc'[v] = pc[v] /\ Taken(v)' = Taken(v)
    BY <1>2 DEF IInv, TypeOK, Taken
  <2> QED BY <1>2, <2>1 DEF IInv, FrameInv
<1> QED BY <1>4, <1>5, <1>6 DEF CountsAreReal

\* What a write that throws reports is real.
LEMMA Throwing ==
    ASSUME IInv, NEW w \in Writers, pc[w] # "idle", Throw(w),
           UNCHANGED <<onBus, buffer, sequence, reused>>
    PROVE  CallInv' /\ CountsAreReal' /\ FrameInv'
<1>1. call[w] \in Calls
  BY TransmitAssumption DEF IInv, TypeOK, CallInv, Calls
<1> DEFINE count == IF timed[w] THEN confirmed[call[w]] ELSE index[w]
<1>2. count \in Nat /\ (reused = {} /\ timed[w] => count <= Cardinality(Own(call[w])))
  BY <1>1 DEF IInv, TypeOK, CreditExact
<1>3. End(w, FALSE, count)
  BY DEF Throw
<1> QED BY <1>2, <1>3, Ending
---------------------------------------------------------------------------
\* An idle channel satisfies the invariant.
LEMMA InitInv == Init => IInv
<1> SUFFICES ASSUME Init PROVE IInv
  OBVIOUS
<1> USE TransmitAssumption DEF Init
<1>1. TypeOK
  <2>1. <<>> \in Seq(Pending) /\ Len(<<>>) = 0
    OBVIOUS
  <2>2. confirmed \in [Calls -> Nat] /\ \A c \in Calls : ended[c] = None
    OBVIOUS
  <2>3. /\ call \in [Writers -> 0 .. MaxCalls] /\ size \in [Writers -> 0 .. MaxBatch]
        /\ index \in [Writers -> 0 .. MaxBatch] /\ timed \in [Writers -> BOOLEAN]
        /\ pc \in [Writers -> {"idle", "sending", "sent", "accepted", "blocked"}]
    OBVIOUS
  <2>4. records \in Seq(Pending) /\ Len(records) <= Capacity
    BY <2>1
  <2>5. buffer \in Seq(Pending) /\ Len(buffer) <= Depth
    BY <2>1
  <2>6. /\ calls \in 0 .. MaxCalls /\ sequence \in 0 .. MaxSeq /\ commands \in 0 .. MaxCommands
        /\ lock \in Writers \cup {None} /\ stopped \in BOOLEAN
    <3>1. 0 \in 0 .. MaxCalls /\ 0 \in 0 .. MaxSeq /\ 0 \in 0 .. MaxCommands
      <4> HIDE DEF Init
      <4> QED BY TransmitAssumption
    <3> QED BY <3>1
  <2>7. /\ periodics \subseteq Seqs /\ onBus \subseteq Frames
        /\ paired \subseteq [seq : Seqs, frame : Frames \cup {Periodic}, record : Frames]
        /\ reused \subseteq Seqs
    OBVIOUS
  <2> HIDE DEF Init
  <2> QED BY <2>2, <2>3, <2>4, <2>5, <2>6, <2>7 DEF TypeOK, Init
<1>2. CallInv /\ CountsAreReal /\ ShiftNeedsReuse
  BY DEF CallInv, Holding, CountsAreReal, ShiftNeedsReuse
<1>3. RecordInv /\ NumberInv /\ FrameInv
  BY DEF RecordInv, DistinctNumbers, NumberInv, Numbered, Unanswered, FrameInv
<1>4. CreditExact
  <2>1. \A c \in Calls : Own(c) = {}
    BY DEF Own
  <2>2. \A c \in Calls : confirmed[c] = 0 /\ Cardinality(Own(c)) = 0
    BY <2>1, FS_EmptySet
  <2> QED BY <2>2 DEF CreditExact
<1> QED BY <1>1, <1>2, <1>3, <1>4 DEF IInv

\* Every step preserves the invariant.
LEMMA StepInv ==
    ASSUME IInv, [Next]_vars
    PROVE  IInv'
<1> USE DEF writerVars, sessionVars, creditVars, adapterVars
<1>0. CASE UNCHANGED vars
  <2>1. TypeOK' /\ CallInv' /\ CreditExact'
    BY <1>0 DEF vars, IInv, TypeOK, CallInv, CreditExact, Own
  <2>2. RecordInv' /\ FrameInv'
    BY <1>0 DEF vars, IInv, RecordInv, DistinctNumbers, Unanswered, FrameInv, Taken
  <2>3. ShiftNeedsReuse' /\ CountsAreReal'
    BY <1>0 DEF vars, IInv, ShiftNeedsReuse, CountsAreReal, Own
  <2>4. NumberInv'
    BY <1>0 DEF vars, IInv, NumberInv, Numbered
  <2> QED BY <2>1, <2>2, <2>3, <2>4 DEF IInv
<1>1. ASSUME NEW w \in Writers, NEW n \in 1 .. MaxBatch, NEW t \in BOOLEAN, WriteCall(w, n, t)
      PROVE  IInv'
  <2>a. /\ pc[w] = "idle" /\ lock = None /\ calls < MaxCalls /\ lock' = w /\ calls' = calls + 1
        /\ pc' = [pc EXCEPT ![w] = "sending"] /\ call' = [call EXCEPT ![w] = calls + 1]
        /\ size' = [size EXCEPT ![w] = n] /\ timed' = [timed EXCEPT ![w] = t]
        /\ index' = [index EXCEPT ![w] = 0]
        /\ UNCHANGED <<sequence, commands, reused, records, confirmed, paired, stopped, buffer,
                       periodics, onBus, ended>>
    BY <1>1 DEF WriteCall
  <2>b. /\ calls \in Nat /\ \A v \in Writers : call[v] \in Nat /\ call[v] <= calls
        /\ \A v \in Writers : pc[v] \notin Holding
    BY <2>a, TransmitAssumption DEF IInv, TypeOK, CallInv
  <2>1. TypeOK'
    BY SMTT(30), <2>a, TransmitAssumption DEF IInv, TypeOK
  <2>2. CallInv'
    <3>1. /\ pc'[w] = "sending" /\ call'[w] = calls + 1 /\ size'[w] = n /\ index'[w] = 0
          /\ \A v \in Writers \ {w} : /\ pc'[v] = pc[v] /\ call'[v] = call[v]
                                      /\ size'[v] = size[v] /\ index'[v] = index[v]
      BY <2>a DEF IInv, TypeOK
    <3>2. \A v \in Writers : lock' = v <=> pc'[v] \in Holding
      BY <2>a, <2>b, <3>1 DEF Holding
    <3>3. \A v \in Writers : call'[v] <= calls' /\ (pc'[v] # "idle" => call'[v] > 0)
      BY <2>a, <2>b, <3>1 DEF IInv, CallInv
    <3>4. \A u, v \in Writers : u # v /\ call'[u] = call'[v] => call'[v] = 0
      BY <2>b, <3>1 DEF IInv, CallInv
    <3>5. \A v \in Writers : /\ pc'[v] \in Holding => index'[v] < size'[v]
                             /\ pc'[v] = "blocked" => index'[v] = size'[v] /\ size'[v] > 0
      BY <3>1 DEF IInv, CallInv, Holding
    <3> QED BY <2>a, <3>2, <3>3, <3>4, <3>5 DEF IInv, CallInv
  <2>3. RecordInv'
    <3>1. \A v \in Writers : pc[v] # "sent" /\ pc'[v] # "sent"
      BY <2>a, <2>b DEF IInv, TypeOK, Holding
    <3>2. Unanswered = 0 /\ Unanswered' = 0
      BY <3>1 DEF Unanswered
    <3> QED BY <2>a, <3>1, <3>2 DEF IInv, RecordInv, DistinctNumbers
  <2>4. FrameInv'
    <3>1. ASSUME NEW v \in Writers, v # w
          PROVE  pc'[v] = pc[v] /\ call'[v] = call[v] /\ Taken(v)' = Taken(v)
      BY <2>a, <3>1 DEF IInv, TypeOK, Taken
    <3>2. call'[w] = calls + 1
      BY <2>a DEF IInv, TypeOK
    <3>3. /\ \A f \in onBus : f[1] \in Nat
          /\ \A i \in 1 .. Len(buffer) : buffer[i].frame[1] \in Nat
      BY FrameTypes, RecordTypes DEF IInv, TypeOK
    <3> QED BY <2>a, <2>b, <3>1, <3>2, <3>3 DEF IInv, FrameInv
  <2>5. CreditExact' /\ ShiftNeedsReuse' /\ CountsAreReal'
    BY <2>a DEF IInv, CreditExact, ShiftNeedsReuse, CountsAreReal, Own
  <2>6. NumberInv'
    <3>1. Within(records', records) /\ Within(buffer', buffer)
      BY <2>a DEF Within
    <3>2. \A v \in Writers : pc'[v] # "sent"
      BY <2>a, <2>b DEF IInv, TypeOK, Holding
    <3> QED BY <2>a, <3>1, <3>2, NumberKept DEF IInv
  <2> QED BY <2>1, <2>2, <2>3, <2>4, <2>5, <2>6 DEF IInv
<1>2. ASSUME NEW w \in Writers, FailUnrecorded(w) PROVE IInv'
  <2>a. /\ pc[w] = "sending" /\ Throw(w) /\ lock = w /\ pc' = [pc EXCEPT ![w] = "idle"]
        /\ UNCHANGED <<sequence, commands, reused, records, confirmed, paired, stopped, buffer,
                       periodics, onBus>>
    BY <1>2 DEF FailUnrecorded, Throw, End, IInv, CallInv, Holding
  <2>1. CallInv' /\ CountsAreReal' /\ FrameInv'
    BY <2>a, Throwing
  <2>2. TypeOK'
    BY <2>a, <2>1 DEF IInv, TypeOK, CallInv, Throw, End
  <2>3. RecordInv'
    <3>1. \A v \in Writers : pc[v] # "sent" /\ pc'[v] # "sent"
      BY <2>a DEF IInv, TypeOK, CallInv, Holding
    <3>2. Unanswered = 0 /\ Unanswered' = 0
      BY <3>1 DEF Unanswered
    <3> QED BY <2>a, <3>1, <3>2 DEF IInv, RecordInv, DistinctNumbers
  <2>4. CreditExact' /\ ShiftNeedsReuse'
    BY <2>a DEF IInv, CreditExact, ShiftNeedsReuse, Own
  <2>5. NumberInv'
    <3>1. Within(records', records) /\ Within(buffer', buffer)
      BY <2>a DEF Within
    <3>2. \A v \in Writers : pc'[v] # "sent"
      BY <2>a DEF IInv, TypeOK, CallInv, Holding
    <3> QED BY <2>a, <3>1, <3>2, NumberKept DEF IInv
  <2> QED BY <2>1, <2>2, <2>3, <2>4, <2>5 DEF IInv
<1>3. ASSUME NEW w \in Writers, Send(w) PROVE IInv'
  <2> DEFINE r == [seq |-> NextSeq, frame |-> <<call[w], index[w] + 1>>]
             kept == IF Len(records) = Capacity THEN Tail(records) ELSE records
  <2>a. /\ pc[w] = "sending" /\ lock = w /\ pc' = [pc EXCEPT ![w] = "sent"]
        /\ commands < MaxCommands /\ commands' = commands + 1 /\ sequence' = NextSeq
        /\ reused' = reused \cup ({NextSeq} \cap InUse)
        /\ records' = Append(kept, r)
        /\ UNCHANGED <<lock, call, size, timed, index, calls, confirmed, paired, stopped,
                       buffer, periodics, onBus, ended>>
    BY <1>3 DEF Send, UseNumber, UseCommand, NoteTransmit, IInv, CallInv, Holding
  <2>b. NextSeq \in Seqs /\ NextSeq \in Nat /\ NextSeq > 0 /\ NextSeq <= MaxSeq
    BY NextNumber, TransmitAssumption DEF IInv, Seqs
  <2>c. r \in Pending
    <3>1. call[w] \in Calls /\ index[w] + 1 \in 1 .. MaxBatch
      BY <2>a, ActiveCall DEF Holding
    <3> QED BY <2>b, <3>1 DEF Pending, Frames
  <2>d. /\ kept \in Seq(Pending) /\ Len(kept) < Capacity
        /\ Len(kept) = Len(records) \/ (Len(records) = Capacity /\ Len(kept) = Capacity - 1)
        /\ \A i \in 1 .. Len(kept) : kept[i] = records[Len(records) - Len(kept) + i]
    <3>1. records \in Seq(Pending) /\ Len(records) \in Nat /\ Len(records) <= Capacity
      BY DEF IInv, TypeOK
    <3>2. CASE Len(records) = Capacity
      <4>1. records # <<>>
        BY <3>1, <3>2, TransmitAssumption
      <4> QED BY <3>1, <3>2, <4>1, TailFacts, TransmitAssumption
    <3>3. CASE Len(records) # Capacity
      <4>1. kept = records /\ Len(records) < Capacity
        BY <3>1, <3>3, TransmitAssumption
      <4>2. \A i \in 1 .. Len(records) : Len(records) - Len(records) + i = i
        BY <3>1
      <4> QED BY <3>1, <4>1, <4>2
    <3> QED BY <3>2, <3>3
  <2>e. /\ records' \in Seq(Pending) /\ Len(records') = Len(kept) + 1
        /\ records'[Len(kept) + 1] = r
        /\ \A i \in 1 .. Len(kept) : records'[i] = records[Len(records) - Len(kept) + i]
    <3> HIDE DEF r, kept
    <3> QED BY <2>a, <2>c, <2>d
  <2> HIDE DEF kept
  <2>1. TypeOK'
    <3>1. /\ sequence' \in 0 .. MaxSeq /\ commands' \in 0 .. MaxCommands
          /\ reused' \subseteq Seqs
      <4>1. sequence' \in 0 .. MaxSeq
        BY <2>a, <2>b, TransmitAssumption
      <4>2. commands' \in 0 .. MaxCommands
        BY <2>a, TransmitAssumption DEF IInv, TypeOK
      <4>3. reused' \subseteq Seqs
        BY <2>a, <2>b DEF IInv, TypeOK
      <4> QED BY <4>1, <4>2, <4>3
    <3>2. records' \in Seq(Pending) /\ Len(records') <= Capacity
      BY <2>d, <2>e, TransmitAssumption
    <3>3. pc' \in [Writers -> {"idle", "sending", "sent", "accepted", "blocked"}]
      BY <2>a DEF IInv, TypeOK
    <3> QED BY <2>a, <3>1, <3>2, <3>3 DEF IInv, TypeOK
  <2>2. CallInv'
    BY SMTT(30), <2>a, <2>b, TransmitAssumption DEF IInv, TypeOK, CallInv, Holding
  <2>3. RecordInv'
    <3> SUFFICES ASSUME ~stopped, reused = {}, NextSeq \notin InUse PROVE RecordInv'
      BY <2>a DEF RecordInv
    <3>1. \A v \in Writers : pc[v] # "sent" /\ (pc'[v] = "sent" => v = w)
      BY <2>a DEF IInv, TypeOK, CallInv, Holding
    <3>2. Unanswered = 0 /\ Unanswered' = 1 /\ pc'[w] = "sent"
      BY <2>a, <3>1 DEF Unanswered, IInv, TypeOK
    <3>3. /\ Len(records) \in Nat /\ Len(buffer) \in Nat /\ Len(kept) \in Nat
          /\ Len(kept) <= Len(records)
      BY <2>d, TransmitAssumption DEF IInv, TypeOK
    <3>4. /\ NextSeq \notin periodics
          /\ \A i \in 1 .. Len(records) :
                records[i].seq # NextSeq /\ records[i].seq \notin periodics
      BY DEF IInv, RecordInv, InUse
    <3>5. ASSUME NEW i \in 1 .. Len(kept)
          PROVE  /\ Len(records) - Len(kept) + i \in 1 .. Len(records)
                 /\ records'[i] = records[Len(records) - Len(kept) + i]
      BY <2>e, <3>3
    <3>6. DistinctNumbers'
      <4>1. \A i \in 1 .. Len(records') : i = Len(kept) + 1 \/ i \in 1 .. Len(kept)
        BY <2>e, <3>3
      <4>2. records'[Len(kept) + 1].seq = NextSeq
        BY <2>e
      <4>3. \A i \in 1 .. Len(kept) : records'[i].seq # NextSeq
        BY <3>4, <3>5
      <4>4. ASSUME NEW i \in 1 .. Len(kept), NEW j \in 1 .. Len(kept), i # j
            PROVE  records'[i].seq # records'[j].seq
        <5> DEFINE m == Len(records) - Len(kept) + i
                   n == Len(records) - Len(kept) + j
        <5>1. m # n
          BY <3>3, <4>4
        <5>2. /\ m \in 1 .. Len(records) /\ records'[i] = records[m]
              /\ n \in 1 .. Len(records) /\ records'[j] = records[n]
          BY <3>5
        <5> HIDE DEF m, n
        <5>3. records[m].seq # records[n].seq
          BY <5>1, <5>2 DEF IInv, RecordInv, DistinctNumbers
        <5> QED BY <5>2, <5>3
      <4> QED BY <4>1, <4>2, <4>3, <4>4 DEF DistinctNumbers
    <3>7. ASSUME NEW i \in 1 .. Len(records')
          PROVE  records'[i].seq \notin periodics'
      <4>1. CASE i = Len(kept) + 1
        BY <2>a, <2>e, <3>4, <4>1
      <4>2. CASE i \in 1 .. Len(kept)
        BY <2>a, <3>4, <3>5, <4>2
      <4> QED BY <2>e, <3>3, <4>1, <4>2
    <3>8. Len(buffer) <= Len(kept)
      BY <2>d, <3>2, <3>3, TransmitAssumption DEF IInv, TypeOK, RecordInv
    <3>9. ASSUME NEW i \in 1 .. Len(buffer)
          PROVE  buffer[i] = records'[Len(records') - 1 - Len(buffer) + i]
      <4>1. buffer[i] = records[Len(records) - Len(buffer) + i]
        BY <3>2, <3>3 DEF IInv, RecordInv
      <4>2. Len(kept) - Len(buffer) + i \in 1 .. Len(kept)
        BY <3>3, <3>8
      <4>3. records'[Len(kept) - Len(buffer) + i] = records[Len(records) - Len(buffer) + i]
        BY SMTT(30), <2>e, <3>3, <4>2
      <4> QED BY <2>e, <3>3, <4>1, <4>3
    <3>10. ASSUME NEW v \in Writers, pc'[v] = "sent"
           PROVE  records'[Len(records')] =
                    [seq |-> sequence', frame |-> <<call'[v], index'[v] + 1>>]
      BY <2>a, <2>e, <3>1, <3>10
    <3>11. Len(buffer') + Unanswered' <= Len(records')
      BY <2>a, <2>e, <3>2, <3>3, <3>8
    <3> QED BY <2>a, <3>2, <3>6, <3>7, <3>9, <3>10, <3>11 DEF RecordInv
  <2>4. FrameInv'
    <3>1. \A v \in Writers : (pc'[v] # "idle" => pc[v] # "idle") /\ Taken(v)' = Taken(v)
      BY <2>a DEF IInv, TypeOK, Taken
    <3> QED BY <2>a, <3>1 DEF IInv, FrameInv
  <2>5. CreditExact' /\ ShiftNeedsReuse' /\ CountsAreReal'
    <3>1. reused \subseteq reused'
      BY <2>a
    <3> QED BY <2>a, <3>1 DEF IInv, CreditExact, ShiftNeedsReuse, CountsAreReal, Own
  <2>6. NumberInv'
    <3>1. \A v \in Writers : pc[v] # "sent" /\ (pc'[v] = "sent" => v = w)
      BY <2>a DEF IInv, TypeOK, CallInv, Holding
    <3> DEFINE Old(q) == q \in Numbered /\ (q.seq = NextSeq => q.seq \in reused')
    <3>2. ASSUME NEW p \in Numbered' PROVE p = r \/ Old(p)
      <4>1. \A j \in 1 .. Len(records) : Old(records[j])
        BY <2>a DEF Numbered, InUse
      <4>2. \A j \in 1 .. Len(buffer') : Old(buffer'[j])
        BY <2>a DEF Numbered, InUse
      <4>3. ASSUME NEW i \in 1 .. Len(records')
            PROVE  records'[i] = r \/ \E j \in 1 .. Len(records) : records'[i] = records[j]
        <5>1. i = Len(kept) + 1 \/ i \in 1 .. Len(kept)
          BY <2>d, <2>e
        <5>2. CASE i \in 1 .. Len(kept)
          <6>1. Len(records) - Len(kept) + i \in 1 .. Len(records)
            BY <2>d, <5>2, TransmitAssumption DEF IInv, TypeOK
          <6> QED BY <2>e, <5>2, <6>1
        <5> QED BY <2>e, <5>1, <5>2
      <4>4. ASSUME NEW v \in Writers, pc'[v] = "sent"
            PROVE  [seq |-> sequence', frame |-> <<call'[v], index'[v] + 1>>] = r
        BY <2>a, <3>1, <4>4
      <4>5. \/ \E i \in 1 .. Len(records') : p = records'[i]
            \/ \E i \in 1 .. Len(buffer') : p = buffer'[i]
            \/ \E v \in Writers : /\ pc'[v] = "sent"
                                  /\ p = [seq |-> sequence', frame |-> <<call'[v], index'[v] + 1>>]
        BY <3>2 DEF Numbered
      <4> HIDE DEF r, Old
      <4> QED BY <4>1, <4>2, <4>3, <4>4, <4>5
    <3>3. r.seq = NextSeq /\ (NextSeq \in periodics => NextSeq \in reused')
      BY <2>a DEF InUse
    <3>4. reused \subseteq reused' /\ periodics' = periodics
      BY <2>a
    <3> HIDE DEF r
    <3>5. ASSUME NEW p \in Numbered', NEW q \in Numbered', p.seq = q.seq, p.seq \notin reused'
          PROVE  p.frame = q.frame
      BY <3>2, <3>3, <3>4, <3>5 DEF IInv, NumberInv
    <3>6. ASSUME NEW p \in Numbered', p.seq \in periodics'
          PROVE  p.seq \in reused'
      BY <3>2, <3>3, <3>4, <3>6 DEF IInv, NumberInv
    <3> QED BY <3>5, <3>6 DEF NumberInv
  <2> QED BY <2>1, <2>2, <2>3, <2>4, <2>5, <2>6 DEF IInv
<1>4. ASSUME NEW w \in Writers, AdapterAccepts(w) PROVE IInv'
  <2> DEFINE r == [seq |-> sequence, frame |-> <<call[w], index[w] + 1>>]
  <2>a. /\ pc[w] = "sent" /\ lock = w /\ Len(buffer) < Depth /\ buffer' = Append(buffer, r)
        /\ pc' = [pc EXCEPT ![w] = "accepted"]
        /\ UNCHANGED <<lock, call, size, timed, index, calls, sequence, commands, reused, records,
                       confirmed, paired, stopped, periodics, onBus, ended>>
    BY <1>4 DEF AdapterAccepts, IInv, CallInv, Holding
  <2>b. r \in Pending
    <3>1. call[w] \in Calls /\ index[w] + 1 \in 1 .. MaxBatch
      BY <2>a, ActiveCall DEF Holding
    <3>2. sequence \in Seqs
      BY <2>a DEF IInv, TypeOK, CallInv, Seqs
    <3> QED BY <3>1, <3>2 DEF Pending, Frames
  <2>c. /\ buffer' \in Seq(Pending) /\ Len(buffer') = Len(buffer) + 1
        /\ buffer'[Len(buffer) + 1] = r /\ \A i \in 1 .. Len(buffer) : buffer'[i] = buffer[i]
    <3> HIDE DEF r
    <3> QED BY <2>a, <2>b DEF IInv, TypeOK
  <2>1. TypeOK'
    BY SMTT(30), <2>a, <2>c, TransmitAssumption DEF IInv, TypeOK
  <2>2. CallInv'
    BY <2>a DEF IInv, TypeOK, CallInv, Holding
  <2>3. RecordInv'
    <3> SUFFICES ASSUME ~stopped, reused = {} PROVE RecordInv'
      BY <2>a DEF RecordInv
    <3>1. \A v \in Writers : (pc[v] = "sent" => v = w) /\ pc'[v] # "sent"
      BY <2>a DEF IInv, TypeOK, CallInv, Holding
    <3>2. Unanswered = 1 /\ Unanswered' = 0
      BY <2>a, <3>1 DEF Unanswered
    <3>3. Len(records) \in Nat /\ Len(buffer) \in Nat
      BY DEF IInv, TypeOK
    <3>4. r = records[Len(records)]
      BY <2>a DEF IInv, RecordInv
    <3>5. ASSUME NEW i \in 1 .. Len(buffer')
          PROVE  buffer'[i] = records[Len(records) - Len(buffer') + i]
      <4>1. CASE i = Len(buffer) + 1
        BY <2>c, <3>3, <3>4, <4>1
      <4>2. CASE i \in 1 .. Len(buffer)
        <5>1. buffer[i] = records[Len(records) - 1 - Len(buffer) + i]
          BY <3>2, <4>2 DEF IInv, RecordInv
        <5> QED BY <2>c, <3>3, <4>2, <5>1
      <4> QED BY <2>c, <3>3, <4>1, <4>2
    <3>6. Len(buffer') <= Len(records)
      BY <2>c, <3>2, <3>3 DEF IInv, RecordInv
    <3> QED BY <2>a, <2>c, <3>1, <3>2, <3>3, <3>5, <3>6 DEF IInv, RecordInv, DistinctNumbers
  <2>4. FrameInv'
    <3>1. /\ Taken(w) = index[w] /\ Taken(w)' = index[w] + 1 /\ index[w] \in Nat
          /\ call[w] <= calls /\ call[w] > 0 /\ call[w] \in Nat /\ pc[w] # "idle"
      BY <2>a DEF IInv, TypeOK, CallInv, Taken
    <3>2. \A v \in Writers : v # w => Taken(v)' = Taken(v) /\ pc'[v] = pc[v] /\ call[v] # call[w]
      BY <2>a, <3>1 DEF IInv, TypeOK, CallInv, Taken
    <3>3. r.frame[1] = call[w] /\ r.frame[2] = index[w] + 1
      OBVIOUS
    <3>4. /\ \A f \in onBus : f[2] \in Nat
          /\ \A i \in 1 .. Len(buffer) : buffer[i].frame[2] \in Nat
      BY FrameTypes, RecordTypes DEF IInv, TypeOK
    <3>5. r.frame \notin onBus /\ \A i \in 1 .. Len(buffer) : buffer[i].frame # r.frame
      BY <3>1, <3>3, <3>4 DEF IInv, FrameInv
    <3> HIDE DEF r
    <3>6. /\ Len(buffer) \in Nat
          /\ \A i \in 1 .. Len(buffer') : i = Len(buffer) + 1 \/ i \in 1 .. Len(buffer)
      BY <2>c DEF IInv, TypeOK
    <3>7. /\ \A i \in 1 .. Len(buffer') :
                buffer'[i].frame[1] <= calls /\ buffer'[i].frame \notin onBus
          /\ \A i, j \in 1 .. Len(buffer') : i # j => buffer'[i].frame # buffer'[j].frame
      <4>1. \A i \in 1 .. Len(buffer') : buffer'[i] = IF i = Len(buffer) + 1 THEN r ELSE buffer[i]
        BY <2>c, <3>6
      <4>2. \A i \in 1 .. Len(buffer) : /\ buffer[i].frame[1] <= calls
                                         /\ buffer[i].frame \notin onBus
        BY DEF IInv, FrameInv
      <4>3. \A i, j \in 1 .. Len(buffer) : i # j => buffer[i].frame # buffer[j].frame
        BY DEF IInv, FrameInv
      <4>4. ASSUME NEW i \in 1 .. Len(buffer')
            PROVE  buffer'[i].frame[1] <= calls /\ buffer'[i].frame \notin onBus
        <5>1. CASE i = Len(buffer) + 1
          BY <3>1, <3>3, <3>5, <4>1, <5>1
        <5>2. CASE i # Len(buffer) + 1
          BY <3>6, <4>1, <4>2, <5>2
        <5> QED BY <5>1, <5>2
      <4>5. ASSUME NEW i \in 1 .. Len(buffer'), NEW j \in 1 .. Len(buffer'), i # j
            PROVE  buffer'[i].frame # buffer'[j].frame
        <5>1. CASE i = Len(buffer) + 1
          BY <3>5, <3>6, <4>1, <4>5, <5>1
        <5>2. CASE j = Len(buffer) + 1
          BY <3>5, <3>6, <4>1, <4>5, <5>2
        <5>3. CASE i # Len(buffer) + 1 /\ j # Len(buffer) + 1
          BY <3>6, <4>1, <4>3, <4>5, <5>3
        <5> QED BY <5>1, <5>2, <5>3
      <4> QED BY <4>4, <4>5
    <3>8. ASSUME NEW v \in Writers, pc'[v] # "idle"
          PROVE  /\ \A f \in onBus : f[1] = call[v] => f[2] <= Taken(v)'
                 /\ \A i \in 1 .. Len(buffer') :
                       buffer'[i].frame[1] = call[v] => buffer'[i].frame[2] <= Taken(v)'
      <4>1. CASE v = w
        <5>1. \A f \in onBus : f[1] = call[w] => f[2] <= index[w]
          BY <3>1 DEF IInv, FrameInv
        <5>2. \A i \in 1 .. Len(buffer) :
                 buffer[i].frame[1] = call[w] => buffer[i].frame[2] <= index[w]
          BY <3>1 DEF IInv, FrameInv
        <5>3. \A i \in 1 .. Len(buffer') :
                 buffer'[i].frame[1] = call[w] => buffer'[i].frame[2] <= index[w] + 1
          <6> SUFFICES ASSUME NEW i \in 1 .. Len(buffer'), buffer'[i].frame[1] = call[w]
                       PROVE  buffer'[i].frame[2] <= index[w] + 1
            OBVIOUS
          <6>1. CASE i = Len(buffer) + 1
            <7>1. buffer'[i] = r
              BY <2>c, <6>1
            <7> QED BY <3>1, <3>3, <7>1
          <6>2. CASE i \in 1 .. Len(buffer)
            <7>1. buffer'[i] = buffer[i]
              BY <2>c, <6>2
            <7>2. buffer[i].frame[2] \in Nat /\ buffer[i].frame[2] <= index[w]
              BY <3>4, <5>2, <6>2, <7>1
            <7> QED BY <3>1, <7>1, <7>2
          <6> QED BY <3>6, <6>1, <6>2
        <5> QED BY <3>1, <3>4, <4>1, <5>1, <5>3
      <4>2. CASE v # w
        BY <2>c, <3>2, <3>3, <3>6, <3>8, <4>2 DEF IInv, FrameInv
      <4> QED BY <4>1, <4>2
    <3> QED BY <2>a, <3>7, <3>8 DEF IInv, FrameInv
  <2>5. CreditExact' /\ ShiftNeedsReuse' /\ CountsAreReal'
    BY <2>a DEF IInv, CreditExact, ShiftNeedsReuse, CountsAreReal, Own
  <2>6. NumberInv'
    <3>1. \A v \in Writers : pc'[v] # "sent"
      BY <2>a DEF IInv, TypeOK, CallInv, Holding
    <3>2. r \in Numbered
      BY <2>a DEF Numbered
    <3> HIDE DEF r
    <3>3. ASSUME NEW i \in 1 .. Len(buffer') PROVE buffer'[i] \in Numbered
      <4>1. i = Len(buffer) + 1 \/ i \in 1 .. Len(buffer)
        BY <2>c DEF IInv, TypeOK
      <4> QED BY <2>c, <3>2, <4>1 DEF Numbered
    <3>4. Numbered' \subseteq Numbered
      <4>1. \A i \in 1 .. Len(records') : records'[i] \in Numbered
        BY <2>a DEF Numbered
      <4> QED BY <3>1, <3>3, <4>1 DEF Numbered
    <3> QED BY <2>a, <3>4 DEF IInv, NumberInv
  <2> QED BY <2>1, <2>2, <2>3, <2>4, <2>5, <2>6 DEF IInv
<1>5. ASSUME NEW w \in Writers, Refused(w) PROVE IInv'
  <2>a. /\ pc[w] = "sent" /\ lock = w /\ ~stopped /\ Throw(w) /\ pc' = [pc EXCEPT ![w] = "idle"]
        /\ records' = IF records = <<>> THEN records ELSE SubSeq(records, 1, Len(records) - 1)
        /\ UNCHANGED <<sequence, commands, reused, confirmed, paired, stopped, buffer, periodics, onBus>>
    BY <1>5 DEF Refused, ForgetTransmit, Throw, End, IInv, CallInv, Holding
  <2>b. \A v \in Writers : (pc[v] = "sent" => v = w) /\ pc'[v] # "sent"
    BY <2>a DEF IInv, TypeOK, CallInv, Holding
  <2>c. Unanswered = 1 /\ Unanswered' = 0
    BY <2>a, <2>b DEF Unanswered
  <2>d. /\ Len(records) \in Nat /\ Len(buffer) \in Nat /\ records \in Seq(Pending)
        /\ reused = {} => Len(records) > 0
    BY <2>a, <2>c DEF IInv, TypeOK, RecordInv
  <2>e. ASSUME Len(records) > 0
        PROVE  /\ records' \in Seq(Pending) /\ Len(records') = Len(records) - 1
               /\ \A i \in 1 .. Len(records') : records'[i] = records[i]
    <3>1. records' = SubSeq(records, 1, Len(records) - 1)
      BY <2>a, <2>d, <2>e
    <3>2. 1 \in 1 .. (Len(records) + 1) /\ Len(records) - 1 \in (1 - 1) .. Len(records)
      BY <2>d, <2>e
    <3>3. /\ SubSeq(records, 1, Len(records) - 1) \in Seq(Pending)
          /\ Len(SubSeq(records, 1, Len(records) - 1)) = (Len(records) - 1) - 1 + 1
          /\ \A i \in 1 .. Len(SubSeq(records, 1, Len(records) - 1)) :
                SubSeq(records, 1, Len(records) - 1)[i] = records[1 + i - 1]
      BY <2>d, <3>2, SubSeqFacts
    <3> QED BY <2>d, <2>e, <3>1, <3>3
  <2>f. Len(records) > 0 \/ (records = <<>> /\ records' = records)
    BY <2>a, <2>d
  <2>1. CallInv' /\ CountsAreReal' /\ FrameInv'
    BY <2>a, Throwing
  <2>2. TypeOK'
    <3>1. records' \in Seq(Pending) /\ Len(records') <= Capacity
      BY <2>d, <2>e, <2>f, TransmitAssumption DEF IInv, TypeOK
    <3> QED BY <2>a, <2>1, <3>1 DEF IInv, TypeOK, CallInv, Throw, End
  <2>3. RecordInv'
    <3> SUFFICES ASSUME reused = {} PROVE RecordInv'
      BY <2>a DEF RecordInv
    <3>1. /\ Len(buffer) + 1 <= Len(records)
          /\ \A i \in 1 .. Len(buffer) : buffer[i] = records[Len(records) - 1 - Len(buffer) + i]
      BY <2>a, <2>c DEF IInv, RecordInv
    <3>2. \A i \in 1 .. Len(buffer) : Len(records) - 1 - Len(buffer) + i \in 1 .. Len(records')
      BY <2>d, <2>e, <3>1
    <3>3. \A i \in 1 .. Len(buffer) :
             buffer[i] = records'[Len(records') - Unanswered' - Len(buffer) + i]
      <4>1. ASSUME NEW i \in 1 .. Len(buffer)
            PROVE  Len(records') - Unanswered' - Len(buffer) + i = Len(records) - 1 - Len(buffer) + i
        BY <2>c, <2>d, <2>e
      <4> QED BY <2>e, <3>1, <3>2, <4>1
    <3>4. \A i \in 1 .. Len(records') : i \in 1 .. Len(records)
      BY <2>d, <2>e
    <3>5. Len(buffer) + Unanswered' <= Len(records')
      BY <2>c, <2>d, <2>e, <3>1
    <3>6. DistinctNumbers'
      BY <2>a, <2>d, <2>e, <3>4 DEF IInv, RecordInv, DistinctNumbers
    <3>7. \A i \in 1 .. Len(records') :
             records'[i].seq \notin periodics
      BY <2>a, <2>d, <2>e, <3>4 DEF IInv, RecordInv
    <3> QED BY <2>a, <2>b, <3>3, <3>5, <3>6, <3>7 DEF IInv, RecordInv
  <2>4. CreditExact' /\ ShiftNeedsReuse'
    BY <2>a DEF IInv, CreditExact, ShiftNeedsReuse, Own
  <2>5. NumberInv'
    <3>1. Within(records', records)
      <4>1. CASE Len(records) > 0
        <5>1. \A i \in 1 .. Len(records') : i \in 1 .. Len(records) /\ records'[i] = records[i]
          BY <2>d, <2>e, <4>1
        <5> QED BY <5>1 DEF Within
      <4>2. CASE records' = records
        BY <4>2 DEF Within
      <4> QED BY <2>f, <4>1, <4>2
    <3>2. Within(buffer', buffer)
      BY <2>a DEF Within
    <3> QED BY <2>a, <2>b, <3>1, <3>2, NumberKept DEF IInv
  <2> QED BY <2>1, <2>2, <2>3, <2>4, <2>5 DEF IInv
<1>6. ASSUME NEW w \in Writers, Ambiguous(w) PROVE IInv'
  <2>a. /\ pc[w] \in {"sent", "accepted"} /\ stopped' = TRUE /\ records' = <<>> /\ Throw(w)
        /\ UNCHANGED <<sequence, commands, reused, confirmed, paired, buffer, periodics, onBus>>
    BY <1>6 DEF Ambiguous
  <2>1. CallInv' /\ CountsAreReal' /\ FrameInv'
    BY <2>a, Throwing
  <2>2. TypeOK'
    <3>1. records' \in Seq(Pending) /\ Len(records') <= Capacity
      BY <2>a, TransmitAssumption
    <3> QED BY <2>a, <2>1, <3>1 DEF IInv, TypeOK, CallInv, Throw, End
  <2>3. RecordInv' /\ CreditExact' /\ ShiftNeedsReuse'
    BY <2>a DEF IInv, RecordInv, CreditExact, ShiftNeedsReuse, Own
  <2>4. NumberInv'
    <3>1. Within(records', records) /\ Within(buffer', buffer)
      BY <2>a DEF Within
    <3>2. \A v \in Writers : pc'[v] # "sent"
      BY <2>a DEF Throw, End, IInv, TypeOK, CallInv, Holding
    <3> QED BY <2>a, <3>1, <3>2, NumberKept DEF IInv
  <2> QED BY <2>1, <2>2, <2>3, <2>4 DEF IInv
<1>7. ASSUME NEW w \in Writers, Accepted(w) PROVE IInv'
  <2>a. /\ pc[w] = "accepted" /\ lock = w /\ ~stopped
        /\ index' = [index EXCEPT ![w] = index[w] + 1]
        /\ UNCHANGED <<call, size, timed, calls, sequence, commands, reused, records, confirmed,
                       paired, stopped, buffer, periodics, onBus>>
    BY <1>7 DEF Accepted, IInv, CallInv, Holding
  <2> DEFINE e == [ok |-> TRUE, timed |-> FALSE, size |-> size[w], count |-> size[w]]
  <2>b. \/ /\ index[w] + 1 < size[w] /\ pc' = [pc EXCEPT ![w] = "sending"]
           /\ UNCHANGED <<lock, ended>>
        \/ /\ index[w] + 1 = size[w] /\ pc' = [pc EXCEPT ![w] = "idle"] /\ lock' = None
           /\ ended' = [ended EXCEPT ![call[w]] = e]
        \/ /\ index[w] + 1 = size[w] /\ pc' = [pc EXCEPT ![w] = "blocked"] /\ lock' = None
           /\ UNCHANGED ended
    BY <1>7 DEF Accepted, UnlockBeforeWait
  <2>c. /\ call[w] \in Calls /\ call[w] \in Nat /\ size[w] \in 1 .. MaxBatch /\ size[w] \in Nat
        /\ index[w] \in Nat /\ index[w] + 1 \in 0 .. MaxBatch
    BY <2>a, ActiveCall DEF Holding
  <2>d. /\ index'[w] = index[w] + 1
        /\ \A v \in Writers \ {w} : /\ pc'[v] = pc[v] /\ index'[v] = index[v]
                                    /\ pc[v] \notin Holding
    BY <2>a, <2>b DEF IInv, TypeOK, CallInv
  <2>e. /\ pc'[w] \in {"sending", "idle", "blocked"}
        /\ pc'[w] = "sending" => index[w] + 1 < size[w] /\ lock' = w
        /\ pc'[w] = "blocked" => index[w] + 1 = size[w] /\ lock' = None
        /\ pc'[w] = "idle" => lock' = None
        /\ pc' \in [Writers -> {"idle", "sending", "sent", "accepted", "blocked"}]
        /\ lock' \in {w, None}
    BY <2>a, <2>b DEF IInv, TypeOK
  <2>f. e \in [ok : BOOLEAN, timed : BOOLEAN, size : 1 .. MaxBatch, count : Nat]
    BY <2>c
  <2>g. ended' = ended \/ ended' = [ended EXCEPT ![call[w]] = e]
    BY <2>b
  <2>h. ended' \in [Calls -> {None} \cup [ok : BOOLEAN, timed : BOOLEAN,
                                          size : 1 .. MaxBatch, count : Nat]]
    BY <2>f, <2>g DEF IInv, CallInv
  <2>1. TypeOK'
    <3>1. index' \in [Writers -> 0 .. MaxBatch]
      BY <2>a, <2>c DEF IInv, TypeOK
    <3> QED BY <2>a, <2>e, <2>h, <3>1 DEF IInv, TypeOK
  <2>2. CallInv'
    <3>1. \A v \in Writers : lock' = v <=> pc'[v] \in Holding
      BY <2>d, <2>e, TransmitAssumption DEF Holding
    <3>2. \A v \in Writers : /\ call'[v] <= calls' /\ (pc'[v] # "idle" => call'[v] > 0)
                             /\ pc'[v] # "sent"
      BY <2>a, <2>d, <2>e DEF IInv, CallInv, Holding
    <3>3. \A v \in Writers : /\ pc'[v] \in Holding => index'[v] < size'[v]
                             /\ pc'[v] = "blocked" => index'[v] = size'[v] /\ size'[v] > 0
      BY <2>a, <2>c, <2>d, <2>e DEF IInv, CallInv, Holding
    <3> QED BY <2>a, <2>h, <3>1, <3>2, <3>3 DEF IInv, CallInv
  <2>3. RecordInv'
    <3>1. \A v \in Writers : pc[v] # "sent" /\ pc'[v] # "sent"
      BY <2>a, <2>d, <2>e DEF Holding
    <3>2. Unanswered = 0 /\ Unanswered' = 0
      BY <3>1 DEF Unanswered
    <3> QED BY <2>a, <3>1, <3>2 DEF IInv, RecordInv, DistinctNumbers
  <2>4. FrameInv'
    <3>1. \A v \in Writers : Taken(v)' = Taken(v) /\ (pc'[v] # "idle" => pc[v] # "idle")
      BY <2>a, <2>d, <2>e DEF Taken
    <3> QED BY <2>a, <3>1 DEF IInv, FrameInv
  <2>5. CreditExact' /\ ShiftNeedsReuse'
    BY <2>a DEF IInv, CreditExact, ShiftNeedsReuse, Own
  <2>6. ASSUME reused = {}, NEW c \in Calls, ended'[c] # None
        PROVE  /\ ended'[c].timed => ended'[c].count <= Cardinality(Own(c)')
               /\ ended'[c].ok => ended'[c].count = ended'[c].size
    <3>1. ended'[c] = ended[c] \/ ended'[c] = e
      BY <2>c, <2>g DEF IInv, CallInv
    <3>2. CASE ended'[c] = e
      BY <3>2
    <3>3. CASE ended'[c] = ended[c]
      BY <2>a, <2>6, <3>3 DEF IInv, CountsAreReal, Own
    <3> QED BY <3>1, <3>2, <3>3
  <2>7. CountsAreReal'
    BY <2>a, <2>6 DEF CountsAreReal
  <2>8. NumberInv'
    <3>1. Within(records', records) /\ Within(buffer', buffer)
      BY <2>a DEF Within
    <3>2. \A v \in Writers : pc'[v] # "sent"
      BY <2>a, <2>d, <2>e DEF Holding
    <3> QED BY <2>a, <3>1, <3>2, NumberKept DEF IInv
  <2> QED BY <2>1, <2>2, <2>3, <2>4, <2>5, <2>7, <2>8 DEF IInv
<1>8. ASSUME NEW w \in Writers, Await(w) \/ AwaitTimesOut(w) PROVE IInv'
  <2>a. /\ pc[w] = "blocked" /\ pc' = [pc EXCEPT ![w] = "idle"]
        /\ UNCHANGED <<sequence, commands, reused, records, confirmed, paired, stopped, buffer,
                       periodics, onBus>>
    BY <1>8 DEF Await, AwaitTimesOut, Throw, End
  <2>b. /\ call[w] \in Calls /\ call[w] \in Nat /\ size[w] \in Nat /\ index[w] = size[w]
        /\ confirmed[call[w]] \in Nat
    BY <2>a, ActiveCall DEF IInv, TypeOK, CallInv
  <2>1. CallInv' /\ CountsAreReal' /\ FrameInv'
    <3>1. CASE Await(w)
      <4>1. End(w, ~stopped, confirmed[call[w]]) /\ (~stopped) \in BOOLEAN
            /\ (stopped \/ confirmed[call[w]] >= size[w])
        BY <3>1 DEF Await, Satisfied, IInv, TypeOK
      <4>2. Cardinality(Own(call[w])) <= size[w]
        <5>1. \A f \in onBus : f[1] = call[w] => f[2] <= size[w]
          BY <2>a, <2>b DEF IInv, FrameInv, Taken
        <5>2. onBus \in SUBSET Frames
          BY DEF IInv, TypeOK
        <5> QED BY <2>b, <5>1, <5>2, OwnBound DEF Own
      <4>3. /\ reused = {} => confirmed[call[w]] <= Cardinality(Own(call[w]))
            /\ Cardinality(Own(call[w])) \in Nat
        <5>1. onBus \in SUBSET Frames
          BY DEF IInv, TypeOK
        <5> QED BY <2>b, <5>1, FramesFinite DEF IInv, CreditExact, Own
      <4>4. reused = {} /\ ~stopped => confirmed[call[w]] = size[w]
        BY <2>b, <4>1, <4>2, <4>3
      <4> QED BY <2>a, <2>b, <4>1, <4>3, <4>4, Ending
    <3>2. CASE AwaitTimesOut(w)
      BY <2>a, <3>2, Throwing DEF AwaitTimesOut
    <3> QED BY <1>8, <3>1, <3>2
  <2>2. TypeOK'
    <3>1. /\ lock' = (IF lock = w THEN None ELSE lock)
          /\ UNCHANGED <<call, size, timed, index, calls>>
      BY <1>8 DEF Await, AwaitTimesOut, Throw, End
    <3> QED BY <2>a, <2>1, <3>1 DEF IInv, TypeOK, CallInv
  <2>3. RecordInv'
    <3>1. \A v \in Writers : pc'[v] = "sent" <=> pc[v] = "sent"
      BY <2>a DEF IInv, TypeOK
    <3>2. Unanswered' = Unanswered /\ UNCHANGED <<call, index>>
      BY <1>8, <3>1 DEF Unanswered, Await, AwaitTimesOut, Throw, End
    <3> QED BY <2>a, <3>1, <3>2 DEF IInv, RecordInv, DistinctNumbers
  <2>4. CreditExact' /\ ShiftNeedsReuse'
    BY <2>a DEF IInv, CreditExact, ShiftNeedsReuse, Own
  <2>5. NumberInv'
    <3>1. Within(records', records) /\ Within(buffer', buffer)
      BY <2>a DEF Within
    <3>2. \A v \in Writers : pc'[v] = "sent" => pc[v] = "sent"
      BY <2>a DEF IInv, TypeOK
    <3>3. UNCHANGED <<call, index>>
      BY <1>8 DEF Await, AwaitTimesOut, Throw, End
    <3> QED BY <2>a, <3>1, <3>2, <3>3, NumberKept DEF IInv
  <2> QED BY <2>1, <2>2, <2>3, <2>4, <2>5 DEF IInv
<1>9. ASSUME \/ OtherCommand \/ StartPeriodic \/ ClearTransmits
             \/ \E s \in periodics : StopPeriodic(s)
      PROVE  IInv'
  <2>a. /\ lock = None /\ ~stopped /\ commands < MaxCommands
        /\ commands' = commands + 1 /\ sequence' = NextSeq
        /\ \/ periodics' \subseteq periodics /\ UNCHANGED <<records, buffer, reused>>
           \/ /\ periodics' = periodics \cup {NextSeq} /\ UNCHANGED <<records, buffer>>
              /\ reused' = reused \cup ({NextSeq} \cap InUse)
           \/ periodics' = periodics /\ records' = <<>> /\ buffer' = <<>> /\ UNCHANGED reused
        /\ UNCHANGED <<lock, pc, call, size, timed, index, calls, confirmed, paired, stopped,
                       onBus, ended>>
    BY <1>9 DEF OtherCommand, StartPeriodic, ClearTransmits, StopPeriodic, UseNumber, UseCommand
  <2>b. NextSeq \in Seqs /\ NextSeq \in Nat /\ NextSeq > 0 /\ NextSeq <= MaxSeq
    BY NextNumber, TransmitAssumption DEF IInv, Seqs
  <2>c. \A w \in Writers : pc[w] # "sent"
    BY <2>a, TransmitAssumption DEF IInv, CallInv, Holding
  <2>d. Unanswered = 0 /\ Unanswered' = 0
    BY <2>a, <2>c DEF Unanswered
  <2>1. TypeOK'
    <3>1. /\ sequence' \in 0 .. MaxSeq /\ commands' \in 0 .. MaxCommands
          /\ reused' \subseteq Seqs /\ periodics' \subseteq Seqs
      <4>1. sequence' \in 0 .. MaxSeq
        BY <2>a, <2>b, TransmitAssumption
      <4>2. commands' \in 0 .. MaxCommands
        BY <2>a, TransmitAssumption DEF IInv, TypeOK
      <4>3. reused \subseteq Seqs /\ periodics \subseteq Seqs
        BY DEF IInv, TypeOK
      <4>4. reused' \subseteq Seqs /\ periodics' \subseteq Seqs
        BY <2>a, <2>b, <4>3
      <4> QED BY <4>1, <4>2, <4>4
    <3>2. /\ records' \in Seq(Pending) /\ Len(records') <= Capacity
          /\ buffer' \in Seq(Pending) /\ Len(buffer') <= Depth
      <4>1. <<>> \in Seq(Pending) /\ Len(<<>>) = 0
        OBVIOUS
      <4>2. /\ records \in Seq(Pending) /\ Len(records) <= Capacity
            /\ buffer \in Seq(Pending) /\ Len(buffer) <= Depth
        BY DEF IInv, TypeOK
      <4>3. 0 <= Capacity /\ 0 <= Depth
        BY TransmitAssumption
      <4>4. CASE UNCHANGED <<records, buffer>>
        BY <4>2, <4>4
      <4>5. CASE records' = <<>> /\ buffer' = <<>>
        BY <4>1, <4>3, <4>5
      <4> QED BY <2>a, <4>4, <4>5
    <3> QED BY <2>a, <3>1, <3>2 DEF IInv, TypeOK
  <2>2. CallInv'
    BY <2>a, <2>c DEF IInv, CallInv
  <2>3. RecordInv'
    <3> SUFFICES ASSUME reused' = {} PROVE RecordInv'
      BY DEF RecordInv
    <3>1. CASE periodics' \subseteq periodics /\ UNCHANGED <<records, buffer, reused>>
      BY <2>a, <2>c, <2>d, <3>1 DEF IInv, RecordInv, DistinctNumbers
    <3>2. CASE /\ periodics' = periodics \cup {NextSeq} /\ UNCHANGED <<records, buffer>>
               /\ reused' = reused \cup ({NextSeq} \cap InUse)
      <4>1. reused = {} /\ NextSeq \notin InUse
        BY <3>2
      <4>2. \A i \in 1 .. Len(records) : records[i].seq # NextSeq
        BY <4>1 DEF InUse
      <4> QED BY <2>a, <2>c, <2>d, <3>2, <4>1, <4>2 DEF IInv, RecordInv, DistinctNumbers
    <3>3. CASE records' = <<>> /\ buffer' = <<>>
      BY <2>a, <2>c, <2>d, <3>3 DEF RecordInv, DistinctNumbers
    <3> QED BY <2>a, <3>1, <3>2, <3>3
  <2>4. FrameInv'
    <3>1. \A w \in Writers : Taken(w)' = Taken(w)
      BY <2>a DEF Taken
    <3> QED BY <2>a, <3>1 DEF IInv, FrameInv
  <2>5. CreditExact' /\ ShiftNeedsReuse' /\ CountsAreReal'
    <3>1. reused \subseteq reused'
      BY <2>a
    <3> QED BY <2>a, <3>1 DEF IInv, CreditExact, ShiftNeedsReuse, CountsAreReal, Own
  <2>6. NumberInv'
    <3>1. Within(records', records) /\ Within(buffer', buffer)
      BY <2>a DEF Within
    <3>2. \A v \in Writers : pc'[v] # "sent"
      BY <2>a, <2>c
    <3>3. CASE periodics' \subseteq periodics
      BY <2>a, <3>1, <3>2, <3>3, NumberKept DEF IInv
    <3>4. CASE /\ periodics' = periodics \cup {NextSeq} /\ UNCHANGED <<records, buffer>>
               /\ reused' = reused \cup ({NextSeq} \cap InUse)
      <4>1. Numbered' = {records[i] : i \in 1 .. Len(records)} \cup
                        {buffer[i] : i \in 1 .. Len(buffer)}
        BY <3>2, <3>4 DEF Numbered
      <4>2. \A p \in Numbered' : p \in Numbered /\ (p.seq = NextSeq => p.seq \in reused')
        BY <3>4, <4>1 DEF Numbered, InUse
      <4> QED BY <3>4, <4>2 DEF IInv, NumberInv
    <3> QED BY <2>a, <3>3, <3>4
  <2> QED BY <2>1, <2>2, <2>3, <2>4, <2>5, <2>6 DEF IInv
<1>10. CASE Stop
  <2>a. /\ stopped' = TRUE /\ records' = <<>>
        /\ UNCHANGED <<lock, pc, call, size, timed, index, calls, sequence, commands, reused, confirmed,
                       paired, buffer, periodics, onBus, ended>>
    BY <1>10 DEF Stop
  <2>1. TypeOK'
    <3>1. records' \in Seq(Pending) /\ Len(records') <= Capacity
      BY <2>a, TransmitAssumption
    <3> QED BY <2>a, <3>1 DEF IInv, TypeOK
  <2>2. CallInv' /\ RecordInv' /\ FrameInv'
    BY <2>a DEF IInv, CallInv, RecordInv, FrameInv, Taken
  <2>3. CreditExact' /\ ShiftNeedsReuse' /\ CountsAreReal'
    BY <2>a DEF IInv, CreditExact, ShiftNeedsReuse, CountsAreReal, Own
  <2>4. NumberInv'
    <3>1. Within(records', records) /\ Within(buffer', buffer)
      BY <2>a DEF Within
    <3> QED BY <2>a, <3>1, NumberKept DEF IInv
  <2> QED BY <2>1, <2>2, <2>3, <2>4 DEF IInv
<1>11. ASSUME AdapterTransmits \/ AdapterDrops
       PROVE  /\ buffer' = Tail(buffer) /\ buffer # <<>>
              /\ buffer' \in Seq(Pending) /\ Len(buffer') = Len(buffer) - 1
              /\ Len(buffer) \in Nat \ {0} /\ Len(buffer) <= Depth
              /\ \A i \in 1 .. Len(buffer') : i + 1 \in 1 .. Len(buffer) /\ buffer'[i] = buffer[i + 1]
              /\ Head(buffer) = buffer[1] /\ buffer[1] \in Pending /\ buffer[1].frame \in Frames
              /\ UNCHANGED <<lock, pc, call, size, timed, index, calls, sequence, commands, reused,
                             stopped, periodics, ended, Unanswered>>
              /\ CallInv'
  <2>1. /\ buffer' = Tail(buffer) /\ buffer # <<>>
        /\ UNCHANGED <<lock, pc, call, size, timed, index, calls, sequence, commands, reused, stopped,
                       periodics, ended>>
    BY <1>11 DEF AdapterTransmits, AdapterDrops
  <2>2. buffer \in Seq(Pending) /\ Len(buffer) <= Depth
    BY DEF IInv, TypeOK
  <2>3. /\ Tail(buffer) \in Seq(Pending) /\ Len(Tail(buffer)) = Len(buffer) - 1
        /\ Len(buffer) \in Nat \ {0}
        /\ \A i \in 1 .. Len(Tail(buffer)) : Tail(buffer)[i] = buffer[i + 1]
    BY <2>1, <2>2, TailFacts
  <2>4. \A i \in 1 .. Len(buffer') : i + 1 \in 1 .. Len(buffer)
    BY <2>1, <2>3
  <2>5. Head(buffer) = buffer[1] /\ 1 \in 1 .. Len(buffer)
    BY <2>1, <2>2, <2>3
  <2>6. buffer[1] \in Pending /\ buffer[1].frame \in Frames
    BY <2>2, <2>5, RecordTypes
  <2>7. CallInv' /\ Unanswered' = Unanswered
    BY <2>1 DEF IInv, CallInv, Unanswered
  <2> QED BY <2>1, <2>2, <2>3, <2>4, <2>5, <2>6, <2>7
<1>12. CASE AdapterDrops
  <2>a. UNCHANGED <<records, confirmed, paired, onBus>>
    BY <1>12 DEF AdapterDrops
  <2>b. /\ buffer' \in Seq(Pending) /\ Len(buffer') = Len(buffer) - 1
        /\ Len(buffer) \in Nat \ {0} /\ Len(buffer) <= Depth
        /\ \A i \in 1 .. Len(buffer') : i + 1 \in 1 .. Len(buffer) /\ buffer'[i] = buffer[i + 1]
        /\ UNCHANGED <<lock, pc, call, size, timed, index, calls, sequence, commands, reused,
                       stopped, periodics, ended, Unanswered>>
        /\ CallInv'
    BY <1>11, <1>12
  <2>c. Len(buffer') <= Depth
    BY <2>b, TransmitAssumption
  <2>1. TypeOK'
    BY <2>a, <2>b, <2>c DEF IInv, TypeOK
  <2>2. RecordInv'
    <3> SUFFICES ASSUME ~stopped, reused = {} PROVE RecordInv'
      BY <2>b DEF RecordInv, DistinctNumbers
    <3>1. Len(records) \in Nat /\ Unanswered \in Nat
      BY DEF IInv, TypeOK, Unanswered
    <3>2. ASSUME NEW i \in 1 .. Len(buffer')
          PROVE  buffer'[i] = records[Len(records) - Unanswered - Len(buffer') + i]
      <4>1. buffer'[i] = buffer[i + 1] /\ i + 1 \in 1 .. Len(buffer)
        BY <2>b
      <4>2. buffer[i + 1] = records[Len(records) - Unanswered - Len(buffer) + (i + 1)]
        BY <4>1 DEF IInv, RecordInv
      <4>3. Len(records) - Unanswered - Len(buffer) + (i + 1)
              = Len(records) - Unanswered - Len(buffer') + i
        BY <2>b, <3>1
      <4> QED BY <4>1, <4>2, <4>3
    <3>3. Len(buffer') + Unanswered <= Len(records)
      BY <2>b, <3>1 DEF IInv, RecordInv, DistinctNumbers
    <3> QED BY <2>a, <2>b, <3>2, <3>3 DEF IInv, RecordInv, DistinctNumbers
  <2>3. FrameInv'
    <3>1. \A w \in Writers : Taken(w)' = Taken(w)
      BY <2>b DEF Taken
    <3>2. \A i, j \in 1 .. Len(buffer') : i # j => buffer'[i].frame # buffer'[j].frame
      <4> SUFFICES ASSUME NEW i \in 1 .. Len(buffer'), NEW j \in 1 .. Len(buffer'), i # j
                   PROVE  buffer'[i].frame # buffer'[j].frame
        OBVIOUS
      <4>1. i + 1 # j + 1
        OBVIOUS
      <4> QED BY SMTT(30), <2>b, <4>1 DEF IInv, FrameInv
    <3>3. \A i \in 1 .. Len(buffer') :
             buffer'[i].frame[1] <= calls /\ buffer'[i].frame \notin onBus
      BY <2>b DEF IInv, FrameInv
    <3>4. ASSUME NEW w \in Writers, pc[w] # "idle", NEW i \in 1 .. Len(buffer'),
                 buffer'[i].frame[1] = call[w]
          PROVE  buffer'[i].frame[2] <= Taken(w)
      BY <2>b, <3>4 DEF IInv, FrameInv
    <3> QED BY <2>a, <2>b, <3>1, <3>2, <3>3, <3>4 DEF IInv, FrameInv
  <2>4. CreditExact' /\ ShiftNeedsReuse' /\ CountsAreReal'
    BY <2>a, <2>b DEF IInv, CreditExact, ShiftNeedsReuse, CountsAreReal, Own
  <2>5. NumberInv'
    <3>1. Within(records', records) /\ Within(buffer', buffer)
      BY <2>a, <2>b DEF Within
    <3> QED BY <2>b, <3>1, NumberKept DEF IInv
  <2> QED BY <2>b, <2>1, <2>2, <2>3, <2>4, <2>5 DEF IInv
<1>13. CASE AdapterTransmits
  <2> DEFINE b == buffer[1]
             f == b.frame
  <2>a. /\ buffer' = Tail(buffer) /\ buffer' \in Seq(Pending) /\ Len(buffer') = Len(buffer) - 1
        /\ Len(buffer) \in Nat \ {0} /\ Len(buffer) <= Depth
        /\ \A i \in 1 .. Len(buffer') : i + 1 \in 1 .. Len(buffer) /\ buffer'[i] = buffer[i + 1]
        /\ b \in Pending /\ f \in Frames
        /\ UNCHANGED <<lock, pc, call, size, timed, index, calls, sequence, commands, reused,
                       stopped, periodics, ended, Unanswered>>
        /\ CallInv'
        /\ onBus' = onBus \cup {f} /\ DeliverConfirmed(b.seq, f)
    BY <1>11, <1>13 DEF AdapterTransmits
  <2>b. 1 \in 1 .. Len(buffer) /\ f \notin onBus /\ f[1] \in Calls /\ f[1] \in Nat
    BY <2>a, FrameTypes DEF IInv, FrameInv
  <2>c. /\ onBus \in SUBSET Frames /\ records \in Seq(Pending) /\ Len(records) \in Nat
        /\ Len(records) <= Capacity /\ confirmed \in [Calls -> Nat]
    BY DEF IInv, TypeOK
  <2> HIDE DEF b, f
  <2>d. ASSUME NEW c \in Calls
        PROVE  /\ Cardinality(Own(c)) \in Nat
               /\ Cardinality(Own(c)') = Cardinality(Own(c)) + (IF f[1] = c THEN 1 ELSE 0)
    <3>1. /\ Own(c) = {g \in onBus : g[1] = c}
          /\ Own(c)' = {g \in onBus \cup {f} : g[1] = c}
      BY <2>a DEF Own
    <3>2. Cardinality({g \in onBus : g[1] = c}) \in Nat
      BY <2>c, FramesFinite
    <3>3. Cardinality({g \in onBus \cup {f} : g[1] = c}) =
            Cardinality({g \in onBus : g[1] = c}) + (IF f[1] = c THEN 1 ELSE 0)
      BY ZenonT(60), <2>a, <2>b, <2>c, OwnGrows
    <3> QED BY <3>1, <3>2, <3>3
  <2>1. FrameInv'
    <3>1. \A w \in Writers : Taken(w)' = Taken(w)
      BY <2>a DEF Taken
    <3>2. \A i, j \in 1 .. Len(buffer') : i # j => buffer'[i].frame # buffer'[j].frame
      <4> SUFFICES ASSUME NEW i \in 1 .. Len(buffer'), NEW j \in 1 .. Len(buffer'), i # j
                   PROVE  buffer'[i].frame # buffer'[j].frame
        OBVIOUS
      <4>1. i + 1 # j + 1
        OBVIOUS
      <4> QED BY <2>a, <4>1 DEF IInv, FrameInv
    <3>3. \A i \in 1 .. Len(buffer') : buffer'[i].frame \notin onBus'
      <4> SUFFICES ASSUME NEW i \in 1 .. Len(buffer')
                   PROVE  buffer'[i].frame \notin onBus'
        OBVIOUS
      <4>1. i + 1 \in 1 .. Len(buffer) /\ i + 1 # 1 /\ buffer'[i] = buffer[i + 1]
        BY <2>a
      <4>2. buffer[i + 1].frame # f
        BY <2>b, <4>1 DEF IInv, FrameInv, b, f
      <4> QED BY <2>a, <4>1, <4>2 DEF IInv, FrameInv
    <3>4. \A g \in onBus' : g[1] <= calls
      BY <2>a, <2>b DEF IInv, FrameInv, b, f
    <3>5. ASSUME NEW w \in Writers, pc[w] # "idle"
          PROVE  \A g \in onBus' : g[1] = call[w] => g[2] <= Taken(w)
      BY <2>a, <2>b, <3>5 DEF IInv, FrameInv, b, f
    <3> QED BY <2>a, <3>1, <3>2, <3>3, <3>4, <3>5 DEF IInv, FrameInv
  <2>2. CountsAreReal'
    <3> SUFFICES ASSUME reused = {}, NEW c \in Calls, ended[c] # None
                 PROVE  /\ ended[c].timed => ended[c].count <= Cardinality(Own(c)')
                        /\ ended[c].ok => ended[c].count = ended[c].size
      BY <2>a DEF CountsAreReal
    <3>1. ended[c].count \in Nat
      <4>1. ended[c] \in [ok : BOOLEAN, timed : BOOLEAN, size : 1 .. MaxBatch, count : Nat]
        BY DEF IInv, CallInv
      <4> QED BY <4>1
    <3>2. /\ ended[c].timed => ended[c].count <= Cardinality(Own(c))
          /\ ended[c].ok => ended[c].count = ended[c].size
      BY DEF IInv, CountsAreReal
    <3> QED BY <2>d, <3>1, <3>2
  <2>s. b.seq \in Seqs /\ b.seq = (buffer[1]).seq /\ f = (buffer[1]).frame
    BY <2>a DEF b, f, Pending
  <2>c1. /\ records' \in Seq(Pending) /\ Len(records') <= Capacity
         /\ Within(records', records) /\ confirmed' \in [Calls -> Nat]
         /\ paired' \subseteq [seq : Seqs, frame : Frames \cup {Periodic}, record : Frames]
         /\ \/ paired' = paired
            \/ \E k \in 1 .. Len(records) :
                  /\ records[k].seq = b.seq
                  /\ paired' = paired \cup
                       {[seq |-> b.seq, frame |-> f, record |-> records[k].frame]}
    BY <2>a, <2>s, SomeCredit DEF IInv
  <2>3. TypeOK'
    <3>1. onBus' \subseteq Frames /\ Len(buffer') <= Depth
      BY <2>a, <2>c, TransmitAssumption
    <3> QED BY <2>a, <2>c1, <3>1 DEF IInv, TypeOK
  <2>4. NumberInv'
    <3>1. Within(buffer', buffer)
      BY <2>a DEF Within
    <3> QED BY <2>a, <2>c1, <3>1, NumberKept DEF IInv
  <2>5. ShiftNeedsReuse'
    <3>1. CASE paired' = paired
      BY <2>a, <3>1 DEF IInv, ShiftNeedsReuse
    <3>2. ASSUME NEW k \in 1 .. Len(records), records[k].seq = b.seq,
                 paired' = paired \cup
                   {[seq |-> b.seq, frame |-> f, record |-> records[k].frame]}
          PROVE  ShiftNeedsReuse'
      <4>1. records[k] \in Numbered /\ buffer[1] \in Numbered
        BY <2>b DEF Numbered
      <4>2. f = records[k].frame \/ b.seq \in reused
        BY <2>s, <3>2, <4>1 DEF IInv, NumberInv
      <4> QED BY <2>a, <3>2, <4>2 DEF IInv, ShiftNeedsReuse
    <3> QED BY <2>c1, <3>1, <3>2
  <2>6. CASE stopped
    <3>1. UNCHANGED creditVars
      BY <2>6, <2>a, NoCredit
    <3>2. RecordInv'
      BY <2>6, <2>a, <3>1 DEF RecordInv
    <3>3. CreditExact'
      BY <2>6, <2>a, <2>c, <2>d, <3>1 DEF IInv, CreditExact
    <3> QED BY <2>a, <2>1, <2>2, <2>3, <2>4, <2>5, <3>2, <3>3 DEF IInv
  <2>7. CASE reused # {}
    BY <2>7, <2>a, <2>1, <2>2, <2>3, <2>4, <2>5 DEF IInv, RecordInv, CreditExact
  <2>8. CASE ~stopped /\ reused = {}
    <3> DEFINE k == Len(records) - Unanswered - Len(buffer) + 1
    <3>a. /\ Unanswered \in {0, 1} /\ Len(buffer) + Unanswered <= Len(records)
          /\ \A i \in 1 .. Len(buffer) :
                buffer[i] = records[Len(records) - Unanswered - Len(buffer) + i]
          /\ DistinctNumbers
      BY <2>8 DEF IInv, RecordInv, Unanswered
    <3>b. k \in 1 .. Len(records) /\ records[k] = b
      BY <2>a, <2>b, <2>c, <3>a DEF b
    <3> HIDE DEF k
    <3>c. /\ records' = SubSeq(records, k + 1, Len(records))
          /\ confirmed' = [confirmed EXCEPT ![f[1]] = @ + 1]
      <4>0. records[k].seq = b.seq
        BY <3>b
      <4>1. /\ records' = SubSeq(records, k + 1, Len(records))
            /\ confirmed' = [confirmed EXCEPT ![records[k].frame[1]] = @ + 1]
            /\ paired' = paired \cup {[seq |-> b.seq, frame |-> f, record |-> records[k].frame]}
        BY <2>8, <2>a, <2>c, <3>a, <3>b, <4>0, CreditOf
      <4> QED BY <3>b, <4>1 DEF f
    <3>d. /\ records' \in Seq(Pending) /\ Len(records') = Len(records) - k
          /\ \A i \in 1 .. Len(records') : records'[i] = records[k + i]
      <4>1. k + 1 \in 1 .. (Len(records) + 1) /\ Len(records) \in ((k + 1) - 1) .. Len(records)
        BY <2>c, <3>b
      <4> DEFINE rest == SubSeq(records, k + 1, Len(records))
      <4>2. /\ rest \in Seq(Pending) /\ Len(rest) = Len(records) - (k + 1) + 1
            /\ \A i \in 1 .. Len(rest) : rest[i] = records[(k + 1) + i - 1]
        BY <2>c, <4>1, SubSeqFacts
      <4>3. \A i \in 1 .. Len(rest) : (k + 1) + i - 1 = k + i
        BY <2>c, <3>b
      <4> QED BY SMTT(30), <2>c, <3>b, <3>c, <4>2, <4>3
    <3>e. /\ Len(records') = Len(buffer') + Unanswered
          /\ \A i \in 1 .. Len(records') : k + i \in 1 .. Len(records)
      BY <2>a, <2>c, <3>a, <3>b, <3>d DEF k
    <3>2. RecordInv'
      <4>1. DistinctNumbers'
        <5> SUFFICES ASSUME NEW i \in 1 .. Len(records'), NEW j \in 1 .. Len(records'), i # j
                     PROVE  records'[i].seq # records'[j].seq
          BY DEF DistinctNumbers
        <5> DEFINE m == k + i
                   n == k + j
        <5>1. m # n
          BY <3>b
        <5>2. /\ m \in 1 .. Len(records) /\ records'[i] = records[m]
              /\ n \in 1 .. Len(records) /\ records'[j] = records[n]
          BY <3>d, <3>e
        <5> HIDE DEF m, n
        <5> QED BY <3>a, <5>1, <5>2 DEF DistinctNumbers
      <4>2. \A i \in 1 .. Len(records') :
               records'[i].seq \notin periodics'
        BY <2>8, <2>a, <3>d, <3>e DEF IInv, RecordInv
      <4>3. ASSUME NEW i \in 1 .. Len(buffer')
            PROVE  buffer'[i] = records'[Len(records') - Unanswered' - Len(buffer') + i]
        <5>1. buffer'[i] = buffer[i + 1] /\ i + 1 \in 1 .. Len(buffer)
          BY <2>a
        <5>2. buffer[i + 1] = records[Len(records) - Unanswered - Len(buffer) + (i + 1)]
          BY <3>a, <5>1
        <5>3. Len(records) - Unanswered - Len(buffer) + (i + 1) = k + i
          BY <2>a, <2>c, <3>a DEF k
        <5>4. Len(records') - Unanswered' - Len(buffer') + i = i /\ i \in 1 .. Len(records')
          BY <2>a, <3>a, <3>e
        <5> QED BY <3>d, <5>1, <5>2, <5>3, <5>4
      <4>4. ASSUME NEW w \in Writers, pc[w] = "sent"
            PROVE  records'[Len(records')] = records[Len(records)]
        <5>1. Unanswered = 1
          BY <4>4 DEF Unanswered
        <5>2. Len(records') \in 1 .. Len(records') /\ k + Len(records') = Len(records)
          BY <2>a, <2>c, <3>b, <3>d, <3>e, <5>1
        <5> QED BY <3>d, <5>2
      <4>5. Len(buffer') + Unanswered' <= Len(records')
        BY <2>a, <3>a, <3>e
      <4> QED BY <2>8, <2>a, <4>1, <4>2, <4>3, <4>4, <4>5 DEF IInv, RecordInv
    <3>3. CreditExact'
      <4>1. \A c \in Calls : confirmed'[c] = confirmed[c] + (IF f[1] = c THEN 1 ELSE 0)
        BY <2>b, <2>c, <3>c
      <4>2. \A c \in Calls : confirmed[c] = Cardinality(Own(c))
        BY <2>8 DEF IInv, CreditExact
      <4>3. \A c \in Calls : confirmed'[c] = Cardinality(Own(c)') /\ confirmed'[c] \in Nat
        BY <2>c, <2>d, <4>1, <4>2
      <4> QED BY <4>3 DEF CreditExact
    <3> QED BY <2>a, <2>1, <2>2, <2>3, <2>4, <2>5, <3>2, <3>3 DEF IInv
  <2> QED BY <2>6, <2>7, <2>8
<1>14. ASSUME NEW s \in periodics, AdapterRunsPeriodic(s) PROVE IInv'
  <2>a. /\ DeliverConfirmed(s, Periodic) /\ s \in Seqs
        /\ UNCHANGED <<lock, pc, call, size, timed, index, calls, sequence, commands, reused,
                       stopped, buffer, periodics, onBus, ended>>
    BY <1>14 DEF AdapterRunsPeriodic, IInv, TypeOK
  <2>1. CASE reused = {}
    <3>1. stopped \/ \A i \in 1 .. Len(records) : records[i].seq # s
      BY <2>1 DEF IInv, RecordInv
    <3>2. UNCHANGED creditVars
      BY <2>a, <3>1, NoCredit
    <3> QED BY <1>0, <2>a, <3>2 DEF vars
  <2>2. CASE reused # {}
    <3>a. /\ records' \in Seq(Pending) /\ Len(records') <= Capacity
          /\ Within(records', records) /\ confirmed' \in [Calls -> Nat]
          /\ paired' \subseteq [seq : Seqs, frame : Frames \cup {Periodic}, record : Frames]
          /\ \/ paired' = paired
             \/ \E k \in 1 .. Len(records) :
                   /\ records[k].seq = s
                   /\ paired' = paired \cup
                        {[seq |-> s, frame |-> Periodic, record |-> records[k].frame]}
      BY <2>a, SomeCredit DEF IInv
    <3>1. TypeOK'
      BY <2>a, <3>a DEF IInv, TypeOK
    <3>2. CallInv' /\ FrameInv'
      BY <2>a DEF IInv, CallInv, FrameInv, Taken
    <3>3. NumberInv'
      <4>1. Within(buffer', buffer)
        BY <2>a DEF Within
      <4> QED BY <2>a, <3>a, <4>1, NumberKept DEF IInv
    <3>4. ShiftNeedsReuse'
      <4>1. ASSUME NEW k \in 1 .. Len(records), records[k].seq = s PROVE s \in reused
        <5>1. records[k] \in Numbered
          BY DEF Numbered
        <5> QED BY <1>14, <4>1, <5>1 DEF IInv, NumberInv
      <4> QED BY <2>a, <3>a, <4>1 DEF IInv, ShiftNeedsReuse
    <3> QED BY <2>2, <2>a, <3>1, <3>2, <3>3, <3>4
        DEF IInv, RecordInv, CreditExact, CountsAreReal
  <2> QED BY <2>1, <2>2
<1>15. CASE Finished
  BY <1>0, <1>15 DEF Finished
<1> QED
  BY <1>0, <1>1, <1>2, <1>3, <1>4, <1>5, <1>6, <1>7, <1>8, <1>9, <1>10, <1>12, <1>13,
     <1>14,
     <1>15
  DEF Next, WriterStep

\* The invariant always holds.
LEMMA Invariance == Spec => []IInv
<1>1. IInv /\ [Next]_vars => IInv'
  BY StepInv
<1> QED BY InitInv, <1>1, PTL DEF Spec
---------------------------------------------------------------------------
\* The record list keeps its bound, and until a number in use is given to
\* another message every call is credited with exactly its own transmitted
\* messages, whatever is refused, dropped, cleared, timed out or confirmed late
\* and however often the numbers wrap (can.cpp deliver_confirmed,
\* note_transmit).
THEOREM CreditIsExact == Spec => []Safety
<1>1. IInv => Safety
  BY DEF IInv, Safety
<1>2. Spec => []IInv
  BY Invariance
<1> QED BY <1>1, <1>2, PTL

\* So long, a timed write reports only what was transmitted, and a write
\* succeeds only if its whole batch was (j2534.cpp PassThruWriteMsgs).
THEOREM ReportsAreReal == Spec => []CountsAreReal
<1>1. IInv => CountsAreReal
  BY DEF IInv
<1>2. Spec => []IInv
  BY Invariance
<1> QED BY <1>1, <1>2, PTL

\* In every behaviour, a confirmation is credited to another message's record,
\* or a periodic one to a write, only under a number that was itself given
\* away while it was in use; reuse of one number harms no other (can.cpp
\* deliver_confirmed).
THEOREM ConfirmationsMatch == Spec => []ShiftNeedsReuse
<1>1. IInv => ShiftNeedsReuse
  BY DEF IInv
<1>2. Spec => []IInv
  BY Invariance
<1> QED BY <1>1, <1>2, PTL
============================================================================
