--------------------------- MODULE DecodersProofs ---------------------------
(***************************************************************************)
(* Proofs about the two decoders of the receive path.  The ISO15765        *)
(* reassembler keeps its table well formed, loses no message it need not   *)
(* lose and hands over only messages that an ECU sent, for any ECUs,       *)
(* message lengths, frame sizes and table size.  The frame decoder (last   *)
(* part) delivers every frame that does not begin inside what looked like  *)
(* an earlier one, for any bytes, chunks, key and body size.               *)
(***************************************************************************)
EXTENDS MCDecoders, FiniteSetTheorems, SequenceTheorems, WellFoundedInduction, TLAPS

Byte == Nat \X Nat
Conversation ==
    [id : Ecus, got : Seq(Byte), expected : SegmentedMinimum .. MaxMessage,
     sequence : 0 .. SeqWrap - 1]

\* assemblies_ between two calls.
Table(asm) ==
    /\ asm \in Seq(Conversation) /\ Len(asm) <= MaxConversations
    /\ \A i, j \in 1 .. Len(asm) : asm[i].id = asm[j].id => i = j
    /\ \A i \in 1 .. Len(asm) : Len(asm[i].got) < asm[i].expected

SenderType ==
    /\ begun \in 0 .. MaxMessages
    /\ tx \in [Ecus -> [n : Nat, len : Lengths \cup {0}, k : Nat]]
    /\ faults \in 0 .. MaxFaults /\ disturbed \in [Ecus -> 0 .. 2]
    /\ intact \in [Ecus -> BOOLEAN]

\* A message that is past its first frame is segmented and not yet finished.
SenderInv ==
    \A r \in Ecus :
        /\ tx[r].n <= begun
        /\ tx[r].k > 0 => tx[r].len > SingleLimit /\ Before(tx[r].k) < tx[r].len

HistoryType ==
    /\ output \in [Ecus -> Seq(Seq(Byte))]
    /\ rivals \in [Ecus -> SUBSET Ecus] /\ \A r \in Ecus : IsFiniteSet(rivals[r])
    /\ whole \in [Ecus -> SUBSET (Nat \X Lengths)]
    /\ owed \in [Ecus -> SUBSET (Nat \X Lengths)]

\* The conversation that has taken every frame r sent of its message.
Progress(r) ==
    [id |-> r, got |-> Message(tx[r].n, Before(tx[r].k)), expected |-> tx[r].len,
     sequence |-> tx[r].k % SeqWrap]

\* Conversation c is in the table, and the younger ones belong to R.
Held(asm, c, R) ==
    \E i \in 1 .. Len(asm) :
        asm[i] = c /\ \A j \in i + 1 .. Len(asm) : asm[j].id \in R

\* While every frame of its message arrives, the conversation of r can only
\* be the one that has all of them.
InStep(r) ==
    intact[r] /\ tx[r].k > 0 =>
        \A i \in 1 .. Len(assemblies) : assemblies[i].id = r => assemblies[i] = Progress(r)

\* It is in the table unless enough rivals came to push it out: the younger
\* conversations are all of rivals.
Kept(r) ==
    intact[r] /\ tx[r].k > 0 /\ Cardinality(rivals[r]) < MaxConversations =>
        Held(assemblies, Progress(r), rivals[r])

\* The inductive invariant.
IsoTpInv ==
    /\ Table(assemblies) /\ SenderType /\ SenderInv /\ HistoryType
    /\ \A r \in Ecus : InStep(r) /\ Kept(r)
    /\ NoNeedlessLoss

\* While r is disturbed once at most, a conversation of r is the one of the
\* message being sent, or it expects another sequence number than comes next.
Current(r) ==
    \A i \in 1 .. Len(assemblies) : assemblies[i].id = r =>
        \/ assemblies[i] = Progress(r) /\ tx[r].k > 0 /\ intact[r]
        \/ disturbed[r] > 0 /\ (tx[r].k > 0 => assemblies[i].sequence # tx[r].k % SeqWrap)

\* What NoSplice says of one ECU.
Unspliced(o, W) ==
    \A i \in 1 .. Len(o) : o[i] # Start =>
        /\ \E w \in W : o[i] = Message(w[1], w[2])
        /\ \A j \in 1 .. i - 1 : o[j] # Start => o[j][1][1] < o[i][1][1]
Clean(r) == Unspliced(output[r], whole[r])

\* Messages that arrived whole are older than the one being sent.
Numbered(r) ==
    \A w \in whole[r] : w[1] <= tx[r].n /\ (Sending(r) => w[1] < tx[r].n)

\* The inductive invariant of NoSplice.
Spliceless(r) == Numbered(r) /\ (disturbed[r] <= 1 => Current(r) /\ Clean(r))
SpliceInv == IsoTpInv /\ \A r \in Ecus : Spliceless(r)
----------------------------------------------------------------------------
\* Quotient and remainder are unique.
LEMMA Remainder ==
    ASSUME NEW m \in Nat \ {0}, NEW d \in Nat, NEW q \in 0 .. m - 1
    PROVE  (d * m + q) % m = q
<1> DEFINE n == d * m + q
           e == n \div m
           s == n % m
<1>1. n \in Nat
  BY SMT
<1>2. n = e * m + s /\ e \in Nat /\ s \in 0 .. m - 1
  BY <1>1
<1> HIDE DEF e, s
<1>3. ~ e < d
  <2> SUFFICES ASSUME e < d PROVE FALSE
    OBVIOUS
  <2>1. d - e - 1 \in Nat
    BY <1>2
  <2>2. (d - e - 1) * m >= 0
    BY <2>1
  <2>3. d * m = (d - e - 1) * m + e * m + m
    BY <1>2
  <2> QED BY <1>2, <2>2, <2>3
<1>4. ~ d < e
  <2> SUFFICES ASSUME d < e PROVE FALSE
    OBVIOUS
  <2>1. e - d - 1 \in Nat
    BY <1>2
  <2>2. (e - d - 1) * m >= 0
    BY <2>1
  <2>3. e * m = (e - d - 1) * m + d * m + m
    BY <1>2
  <2> QED BY <1>2, <2>2, <2>3
<1>5. e = d
  BY <1>2, <1>3, <1>4
<1> QED BY <1>2, <1>5 DEF s

\* The sequence number that follows, as the table and as the ECU count it.
LEMMA NextSequence ==
    ASSUME NEW k \in Nat
    PROVE  /\ k % SeqWrap \in 0 .. SeqWrap - 1
           /\ (k + 1) % SeqWrap = ((k % SeqWrap) + 1) % SeqWrap
           /\ (k + 1) % SeqWrap # k % SeqWrap
           /\ 1 % SeqWrap = 1
<1>1. SeqWrap \in Nat /\ SeqWrap > 1
  BY IsoTpAssumption
<1>2. k % SeqWrap \in 0 .. SeqWrap - 1
  BY <1>1
<1> DEFINE q == k % SeqWrap
           d == k \div SeqWrap
<1>3. k = d * SeqWrap + q /\ d \in Nat
  BY <1>1
<1>4. CASE q + 1 < SeqWrap
  <2>1. (q + 1) % SeqWrap = q + 1
    BY <1>1, <1>2, <1>4
  <2>2. (k + 1) % SeqWrap = q + 1
    <3>1. k + 1 = d * SeqWrap + (q + 1) /\ q + 1 \in 0 .. SeqWrap - 1
      BY <1>1, <1>2, <1>3, <1>4
    <3> QED BY <1>1, <1>3, <3>1, Remainder
  <2> QED BY <1>1, <1>2, <2>1, <2>2
<1>5. CASE q + 1 = SeqWrap
  <2>1. (q + 1) % SeqWrap = 0
    BY <1>1, <1>2, <1>5
  <2>2. (k + 1) % SeqWrap = 0
    <3>1. k + 1 = (d + 1) * SeqWrap + 0 /\ 0 \in 0 .. SeqWrap - 1
      BY <1>1, <1>2, <1>3, <1>5
    <3>2. d + 1 \in Nat /\ SeqWrap \in Nat \ {0}
      BY <1>1, <1>3
    <3>3. ((d + 1) * SeqWrap + 0) % SeqWrap = 0
      BY <3>1, <3>2, Remainder
    <3> QED BY <3>1, <3>3
  <2> QED BY <1>1, <1>2, <2>1, <2>2, <1>5
<1> QED BY <1>1, <1>2, <1>4, <1>5

LEMMA BeforeNext ==
    ASSUME NEW k \in Nat
    PROVE  /\ Before(k + 1) = FirstBytes + k * NextBytes
           /\ Before(k + 1) \in Nat \ {0}
           /\ k > 0 => Before(k) \in Nat \ {0} /\ Before(k + 1) = Before(k) + NextBytes
           /\ Before(1) = FirstBytes
<1>1. FirstBytes \in Nat /\ NextBytes \in Nat /\ FirstBytes > 0
  BY IsoTpAssumption
<1>2. (k + 1) - 1 = k /\ k * NextBytes \in Nat
  BY <1>1
<1>3. k > 0 => (k - 1) * NextBytes \in Nat /\ k * NextBytes = (k - 1) * NextBytes + NextBytes
  BY <1>1
<1> QED BY <1>1, <1>2, <1>3 DEF Before

\* The smaller of two numbers.
LEMMA Smaller ==
    ASSUME NEW a \in Nat, NEW b \in Nat
    PROVE  Min({a, b}) = IF a <= b THEN a ELSE b
BY DEF Min

LEMMA MessageBytes ==
    ASSUME NEW n \in Nat, NEW len \in Nat
    PROVE  /\ Message(n, len) \in Seq(Byte) /\ Len(Message(n, len)) = len
           /\ \A i \in 1 .. len : Message(n, len)[i] = <<n, i>>
BY DEF Message, Byte

\* A stretch of a sequence.
LEMMA Stretch ==
    ASSUME NEW S, NEW s \in Seq(S), NEW a \in Nat, NEW b \in a .. Len(s)
    PROVE  /\ SubSeq(s, a + 1, b) \in Seq(S) /\ Len(SubSeq(s, a + 1, b)) = b - a
           /\ \A i \in 1 .. b - a : SubSeq(s, a + 1, b)[i] = s[a + i]
<1> DEFINE t == SubSeq(s, a + 1, b)
<1>1. a + 1 \in Int /\ b \in Int /\ \A i \in a + 1 .. b : i \in 1 .. Len(s)
  OBVIOUS
<1>2. \A i \in a + 1 .. b : s[i] \in S
  BY <1>1, ElementOfSeq
<1>3. /\ t \in Seq(S) /\ Len(t) = IF a + 1 <= b THEN b - (a + 1) + 1 ELSE 0
      /\ \A i \in 1 .. b - (a + 1) + 1 : t[i] = s[(a + 1) + i - 1]
  BY <1>1, <1>2, SubSeqProperties
<1> HIDE DEF t
<1>4. b - (a + 1) + 1 = b - a /\ \A i \in 1 .. b - a : (a + 1) + i - 1 = a + i
  BY <1>1
<1>5. Len(t) = b - a
  BY <1>1, <1>3, <1>4
<1> QED BY <1>3, <1>4, <1>5 DEF t

\* The beginning of a sequence.
LEMMA Beginning ==
    ASSUME NEW S, NEW s \in Seq(S), NEW m \in 0 .. Len(s)
    PROVE  /\ SubSeq(s, 1, m) \in Seq(S) /\ Len(SubSeq(s, 1, m)) = m
           /\ \A i \in 1 .. m : SubSeq(s, 1, m)[i] = s[i]
<1>1. 0 + 1 = 1 /\ m - 0 = m /\ \A i \in 1 .. m : 0 + i = i
  OBVIOUS
<1>2. /\ SubSeq(s, 0 + 1, m) \in Seq(S) /\ Len(SubSeq(s, 0 + 1, m)) = m - 0
      /\ \A i \in 1 .. m - 0 : SubSeq(s, 0 + 1, m)[i] = s[0 + i]
  BY Stretch
<1> QED BY <1>1, <1>2

\* A sequence that agrees with a message is the message.
LEMMA IsMessage ==
    ASSUME NEW t \in Seq(Byte), NEW n \in Nat, NEW m \in Nat,
           Len(t) = m, \A i \in 1 .. m : t[i] = <<n, i>>
    PROVE  t = Message(n, m)
<1>1. /\ Message(n, m) \in Seq(Byte) /\ Len(Message(n, m)) = m
      /\ \A i \in 1 .. m : Message(n, m)[i] = <<n, i>>
  BY MessageBytes
<1>2. \A i \in 1 .. Len(t) : t[i] = Message(n, m)[i]
  BY <1>1
<1> QED BY <1>1, <1>2, SeqEqual

LEMMA PaddedBytes ==
    ASSUME NEW s \in Seq(Byte), NEW m \in Nat
    PROVE  /\ Padded(s, m) \in Seq(Byte) /\ Len(Padded(s, m)) = m
           /\ \A i \in 1 .. m : i <= Len(s) => Padded(s, m)[i] = s[i]
<1>1. Pad \in Byte
  BY DEF Pad, Byte
<1>2. \A i \in 1 .. m : i <= Len(s) => s[i] \in Byte
  OBVIOUS
<1> QED BY <1>1, <1>2 DEF Padded

\* The first frame carries the beginning of its message.
LEMMA FirstData ==
    ASSUME NEW n \in Nat, NEW len \in Nat, NEW m \in 0 .. len
    PROVE  SubSeq(Message(n, len), 1, m) = Message(n, m)
<1> DEFINE s == Message(n, len)
           t == SubSeq(s, 1, m)
<1>1. s \in Seq(Byte) /\ Len(s) = len /\ \A i \in 1 .. len : s[i] = <<n, i>>
  BY MessageBytes
<1> HIDE DEF s
<1>2. t \in Seq(Byte) /\ Len(t) = m /\ \A i \in 1 .. m : t[i] = s[i]
  BY <1>1, Beginning
<1> HIDE DEF t
<1>3. m \in Nat /\ \A i \in 1 .. m : t[i] = <<n, i>>
  BY <1>1, <1>2
<1> QED BY <1>2, <1>3, IsMessage DEF s, t

\* A single frame carries its message and padding.
LEMMA SingleData ==
    ASSUME NEW n \in Nat, NEW m \in Nat, NEW len \in 0 .. m
    PROVE  SubSeq(Padded(Message(n, len), m), 1, len) = Message(n, len)
<1> DEFINE s == Message(n, len)
           p == Padded(s, m)
           t == SubSeq(p, 1, len)
<1>1. s \in Seq(Byte) /\ Len(s) = len /\ \A i \in 1 .. len : s[i] = <<n, i>>
  BY MessageBytes
<1> HIDE DEF s
<1>2. p \in Seq(Byte) /\ Len(p) = m /\ \A i \in 1 .. m : i <= len => p[i] = s[i]
  BY <1>1, PaddedBytes
<1> HIDE DEF p
<1>3. t \in Seq(Byte) /\ Len(t) = len /\ \A i \in 1 .. len : t[i] = p[i]
  BY <1>2, Beginning
<1> HIDE DEF t
<1>4. \A i \in 1 .. len : i \in 1 .. m /\ i <= len
  OBVIOUS
<1>5. len \in Nat /\ \A i \in 1 .. len : t[i] = <<n, i>>
  BY <1>1, <1>2, <1>3, <1>4
<1> QED BY <1>3, <1>5, IsMessage DEF s, p, t

\* The first g bytes of a message and c of the consecutive frame after them.
Joined(n, len, g, m, c) ==
    Message(n, g) \o SubSeq(Padded(SubSeq(Message(n, len), g + 1, len), m), 1, c)

\* A consecutive frame carries what follows the first g bytes.
LEMMA NextData ==
    ASSUME NEW n \in Nat, NEW len \in Nat, NEW g \in 0 .. len, NEW m \in Nat,
           NEW c \in Nat, c <= m, c <= len - g
    PROVE  Joined(n, len, g, m, c) = Message(n, g + c)
<1> DEFINE s == Message(n, len)
           h == Message(n, g)
           u == SubSeq(s, g + 1, len)
           p == Padded(u, m)
           t == SubSeq(p, 1, c)
           j == h \o t
<1>0. g \in Nat /\ g + c \in Nat /\ len \in g .. len /\ c \in 0 .. m
  OBVIOUS
<1>1. /\ s \in Seq(Byte) /\ Len(s) = len /\ \A i \in 1 .. len : s[i] = <<n, i>>
      /\ h \in Seq(Byte) /\ Len(h) = g /\ \A i \in 1 .. g : h[i] = <<n, i>>
  BY <1>0, MessageBytes
<1> HIDE DEF s, h
<1>2. /\ u \in Seq(Byte) /\ Len(u) = len - g
      /\ \A i \in 1 .. len - g : u[i] = s[g + i]
  BY <1>0, <1>1, Stretch
<1> HIDE DEF u
<1>3. /\ p \in Seq(Byte) /\ Len(p) = m
      /\ \A i \in 1 .. m : i <= Len(u) => p[i] = u[i]
  BY <1>2, PaddedBytes
<1> HIDE DEF p
<1>4. t \in Seq(Byte) /\ Len(t) = c /\ \A i \in 1 .. c : t[i] = p[i]
  BY <1>0, <1>3, Beginning
<1> HIDE DEF t
<1>5. \A i \in 1 .. c : t[i] = <<n, g + i>>
  <2> TAKE i \in 1 .. c
  <2>1. i \in 1 .. m /\ i <= Len(u) /\ i \in 1 .. len - g /\ g + i \in 1 .. len
    BY <1>0, <1>2
  <2> QED BY <1>1, <1>2, <1>3, <1>4, <2>1
<1>6. /\ j \in Seq(Byte) /\ Len(j) = g + c
      /\ \A i \in 1 .. g + c : j[i] = IF i <= g THEN h[i] ELSE t[i - g]
  <2>1. /\ j \in Seq(Byte) /\ Len(j) = Len(h) + Len(t)
        /\ \A i \in 1 .. Len(h) + Len(t) :
              j[i] = IF i <= Len(h) THEN h[i] ELSE t[i - Len(h)]
    BY <1>1, <1>4, ConcatProperties
  <2> QED BY SMTT(30), <1>1, <1>4, <2>1
<1> HIDE DEF j
<1>7. \A i \in 1 .. g + c : j[i] = <<n, i>>
  <2> TAKE i \in 1 .. g + c
  <2>1. CASE i <= g
    BY <1>0, <1>1, <1>6, <2>1
  <2>2. CASE ~ i <= g
    <3>1. i - g \in 1 .. c /\ g + (i - g) = i
      BY <1>0, <2>2
    <3> QED BY <1>5, <1>6, <2>2, <3>1
  <2> QED BY <2>1, <2>2
<1> QED BY <1>0, <1>6, <1>7, IsMessage DEF Joined, s, h, u, p, t, j
----------------------------------------------------------------------------
\* Erasing entry i.
LEMMA Erased ==
    ASSUME NEW S, NEW s \in Seq(S), NEW i \in 1 .. Len(s)
    PROVE  /\ RemoveAt(s, i) \in Seq(S) /\ Len(RemoveAt(s, i)) = Len(s) - 1
           /\ \A j \in 1 .. Len(s) - 1 :
                 RemoveAt(s, i)[j] = IF j < i THEN s[j] ELSE s[j + 1]
<1> DEFINE u == SubSeq(s, 1, i - 1)
           v == SubSeq(s, i + 1, Len(s))
           d == u \o v
<1>0. Len(s) \in Nat /\ i \in Nat /\ i - 1 \in 0 .. Len(s) /\ Len(s) \in i .. Len(s)
  OBVIOUS
<1>1. u \in Seq(S) /\ Len(u) = i - 1 /\ \A j \in 1 .. i - 1 : u[j] = s[j]
  BY <1>0, Beginning
<1>2. /\ v \in Seq(S) /\ Len(v) = Len(s) - i
      /\ \A j \in 1 .. Len(s) - i : v[j] = s[i + j]
  BY <1>0, Stretch
<1> HIDE DEF u, v
<1>3. /\ d \in Seq(S) /\ Len(d) = Len(u) + Len(v)
      /\ \A j \in 1 .. Len(u) + Len(v) : d[j] = IF j <= Len(u) THEN u[j] ELSE v[j - Len(u)]
  BY <1>1, <1>2, ConcatProperties
<1> HIDE DEF d
<1>4. Len(u) + Len(v) = Len(s) - 1
  BY <1>0, <1>1, <1>2
<1>5. \A j \in 1 .. Len(s) - 1 : d[j] = IF j < i THEN s[j] ELSE s[j + 1]
  <2> TAKE j \in 1 .. Len(s) - 1
  <2>1. CASE j < i
    <3>1. j \in 1 .. i - 1 /\ j <= Len(u)
      BY <1>0, <1>1, <2>1
    <3> QED BY <1>1, <1>3, <1>4, <2>1, <3>1
  <2>2. CASE ~ j < i
    <3>1. /\ ~ j <= Len(u) /\ j - Len(u) \in 1 .. Len(s) - i
          /\ i + (j - Len(u)) = j + 1
      BY <1>0, <1>1, <2>2
    <3> QED BY <1>2, <1>3, <1>4, <2>2, <3>1
  <2> QED BY <2>1, <2>2
<1> QED BY <1>3, <1>4, <1>5 DEF RemoveAt, d, u, v

\* Drop leaves the other conversations in their order.
LEMMA Dropped ==
    ASSUME NEW asm, Table(asm), NEW id
    PROVE  /\ Table(Drop(asm, id))
           /\ \A j \in 1 .. Len(Drop(asm, id)) :
                 Drop(asm, id)[j].id # id /\ \E i \in 1 .. Len(asm) : asm[i] = Drop(asm, id)[j]
           /\ \A c, R : c.id # id /\ Held(asm, c, R) => Held(Drop(asm, id), c, R)
<1>1. asm \in Seq(Conversation) /\ Len(asm) \in Nat
  BY DEF Table
<1>2. CASE Find(asm, id) = {}
  <2>1. \A j \in 1 .. Len(asm) : asm[j].id # id
    BY <1>2 DEF Find
  <2> QED BY <1>2, <2>1 DEF Drop
<1>3. CASE Find(asm, id) # {}
  <2> DEFINE x == At(asm, id)
             d == RemoveAt(asm, x)
  <2>1. x \in 1 .. Len(asm) /\ asm[x].id = id
    BY <1>3 DEF At, Find
  <2> HIDE DEF x
  <2>2. /\ d \in Seq(Conversation) /\ Len(d) = Len(asm) - 1
        /\ \A j \in 1 .. Len(asm) - 1 : d[j] = IF j < x THEN asm[j] ELSE asm[j + 1]
    BY <1>1, <2>1, Erased
  <2> HIDE DEF d
  <2> DEFINE at(j) == IF j < x THEN j ELSE j + 1
  <2>3. \A j \in 1 .. Len(d) : at(j) \in 1 .. Len(asm) /\ at(j) # x /\ d[j] = asm[at(j)]
    BY <1>1, <2>1, <2>2
  <2>4. \A j, l \in 1 .. Len(d) : at(j) = at(l) => j = l
    BY <1>1, <2>1, <2>2
  <2> HIDE DEF at
  <2>5. Table(d)
    <3>1. \A j, l \in 1 .. Len(d) : d[j].id = d[l].id => j = l
      BY <2>3, <2>4 DEF Table
    <3>2. \A j \in 1 .. Len(d) : Len(d[j].got) < d[j].expected
      BY <2>3 DEF Table
    <3>3. Len(d) <= MaxConversations
      BY <1>1, <2>2, IsoTpAssumption DEF Table
    <3> QED BY <2>2, <3>1, <3>2, <3>3 DEF Table
  <2>6. \A j \in 1 .. Len(d) : d[j].id # id /\ \E i \in 1 .. Len(asm) : asm[i] = d[j]
    BY <2>1, <2>3 DEF Table
  <2>7. ASSUME NEW c, NEW R, c.id # id, Held(asm, c, R) PROVE Held(d, c, R)
    <3>1. PICK i \in 1 .. Len(asm) :
             asm[i] = c /\ \A j \in i + 1 .. Len(asm) : asm[j].id \in R
      BY <2>7 DEF Held
    <3>2. i # x
      BY <2>1, <2>7, <3>1
    <3> DEFINE y == IF i < x THEN i ELSE i - 1
    <3>3. y \in 1 .. Len(d) /\ at(y) = i
      BY <1>1, <2>1, <2>2, <3>2 DEF at
    <3>4. \A j \in y + 1 .. Len(d) : j \in 1 .. Len(d) /\ at(j) \in i + 1 .. Len(asm)
      BY <1>1, <2>1, <2>2, <3>2 DEF at
    <3> HIDE DEF y
    <3>5. d[y] = c /\ \A j \in y + 1 .. Len(d) : d[j].id \in R
      BY <2>3, <3>1, <3>3, <3>4
    <3> QED BY <3>3, <3>5 DEF Held
  <2>8. Drop(asm, id) = d
    BY <1>3 DEF Drop, d, x
  <2> QED BY <2>5, <2>6, <2>7, <2>8
<1> QED BY <1>2, <1>3

\* Replacing a conversation by one of the same identifier.
LEMMA Replaced ==
    ASSUME NEW asm, Table(asm), NEW i \in 1 .. Len(asm), NEW a \in Conversation,
           a.id = asm[i].id, Len(a.got) < a.expected,
           NEW d \in Seq(Conversation), Len(d) = Len(asm),
           \A j \in 1 .. Len(asm) : d[j] = IF j = i THEN a ELSE asm[j]
    PROVE  /\ Table(d)
           /\ \A j \in 1 .. Len(d) : IF d[j].id = a.id THEN d[j] = a
                                     ELSE \E l \in 1 .. Len(asm) : asm[l] = d[j]
           /\ \A c, R : c.id # a.id /\ Held(asm, c, R) => Held(d, c, R)
           /\ \A R : Held(asm, asm[i], R) => Held(d, a, R)
<1>1. asm \in Seq(Conversation) /\ Len(asm) \in Nat
  BY DEF Table
<1>2. /\ d \in Seq(Conversation) /\ Len(d) = Len(asm)
      /\ \A j \in 1 .. Len(asm) : d[j] = IF j = i THEN a ELSE asm[j]
  OBVIOUS
<1>3. \A j \in 1 .. Len(asm) : d[j].id = asm[j].id
  BY <1>2
<1>4. Table(d)
  BY <1>2, <1>3 DEF Table
<1>5. \A j \in 1 .. Len(d) : IF d[j].id = a.id THEN d[j] = a
                             ELSE \E l \in 1 .. Len(asm) : asm[l] = d[j]
  BY <1>2, <1>3 DEF Table
<1>6. ASSUME NEW l \in 1 .. Len(asm), NEW R,
             \A j \in l + 1 .. Len(asm) : asm[j].id \in R
      PROVE  \A j \in l + 1 .. Len(d) : d[j].id \in R
  <2>1. \A j \in l + 1 .. Len(asm) : j \in 1 .. Len(asm)
    BY <1>1
  <2> QED BY <1>2, <1>3, <1>6, <2>1
<1>7. ASSUME NEW c, NEW R, c.id # a.id, Held(asm, c, R) PROVE Held(d, c, R)
  <2>1. PICK l \in 1 .. Len(asm) :
           asm[l] = c /\ \A j \in l + 1 .. Len(asm) : asm[j].id \in R
    BY <1>7 DEF Held
  <2>2. l # i
    BY <1>7, <2>1
  <2> QED BY <1>2, <1>6, <2>1, <2>2 DEF Held
<1>8. ASSUME NEW R, Held(asm, asm[i], R) PROVE Held(d, a, R)
  <2>1. PICK l \in 1 .. Len(asm) :
           asm[l] = asm[i] /\ \A j \in l + 1 .. Len(asm) : asm[j].id \in R
    BY <1>8 DEF Held
  <2>2. l = i
    BY <2>1 DEF Table
  <2> QED BY <1>2, <1>6, <2>1, <2>2 DEF Held
<1> QED BY <1>4, <1>5, <1>7, <1>8

\* A full table has as many identifiers as entries.
LEMMA Identifiers ==
    ASSUME NEW asm, Table(asm), NEW U, IsFiniteSet(U),
           \A j \in 1 .. Len(asm) : asm[j].id \in U
    PROVE  Len(asm) <= Cardinality(U)
<1>1. Len(asm) \in Nat
  BY DEF Table
<1> DEFINE f == [j \in 1 .. Len(asm) |-> asm[j].id]
<1>2. f \in Injection(1 .. Len(asm), U)
  BY DEF Table, Injection, IsInjective
<1> HIDE DEF f
<1>3. Cardinality(1 .. Len(asm)) <= Cardinality(U)
  BY <1>2, FS_Injection
<1>4. Cardinality(1 .. Len(asm)) = Len(asm)
  <2>1. 1 \in Int /\ Len(asm) \in Int
    BY <1>1
  <2>2. Cardinality(1 .. Len(asm)) = IF 1 > Len(asm) THEN 0 ELSE Len(asm) - 1 + 1
    BY <2>1, FS_Interval
  <2> QED BY <1>1, <2>2
<1> QED BY <1>3, <1>4

\* The table with room for one more, and with a as the youngest.
Room(asm) == IF Len(asm) = MaxConversations THEN Tail(asm) ELSE asm
Starts(asm, d, a) ==
    /\ Table(d)
    /\ \A j \in 1 .. Len(d) : IF d[j].id = a.id THEN d[j] = a
                              ELSE \E l \in 1 .. Len(asm) : asm[l] = d[j]
    /\ \A R : Held(d, a, R)
    /\ \A c, R : /\ IsFiniteSet(R) /\ Held(asm, c, R)
                 /\ Cardinality(R \cup {a.id}) < MaxConversations
                 => Held(d, c, R \cup {a.id})

\* A new conversation is the youngest; a full table gives up its oldest,
\* which is never one with fewer than max_conversations rivals.
LEMMA Started ==
    ASSUME NEW asm, Table(asm), NEW a \in Conversation, Len(a.got) < a.expected,
           \A j \in 1 .. Len(asm) : asm[j].id # a.id,
           NEW d, d = Append(Room(asm), a)
    PROVE  Starts(asm, d, a)
<1> DEFINE o == IF Len(asm) = MaxConversations THEN 1 ELSE 0
           kept == IF Len(asm) = MaxConversations THEN Tail(asm) ELSE asm
<1>1. /\ asm \in Seq(Conversation) /\ Len(asm) \in Nat /\ Len(asm) <= MaxConversations
      /\ MaxConversations \in Nat \ {0} /\ o \in {0, 1} /\ o <= Len(asm)
  BY IsoTpAssumption DEF Table
<1>2. /\ kept \in Seq(Conversation) /\ Len(kept) = Len(asm) - o
      /\ \A j \in 1 .. Len(kept) : kept[j] = asm[j + o]
  <2>1. CASE Len(asm) = MaxConversations
    <3>1. asm # <<>>
      BY <1>1, <2>1
    <3> QED BY <1>1, <2>1, <3>1, HeadTailProperties
  <2>2. CASE Len(asm) # MaxConversations
    BY <1>1, <2>2
  <2> QED BY <2>1, <2>2
<1>3. Len(asm) - o < MaxConversations
  BY <1>1
<1>4. o = 1 => Len(asm) = MaxConversations
  BY <1>1
<1>5. d = Append(kept, a)
  BY DEF Room
<1> HIDE DEF o, kept
<1>6. /\ d \in Seq(Conversation) /\ Len(d) = Len(asm) - o + 1
      /\ \A j \in 1 .. Len(asm) - o : d[j] = asm[j + o] /\ j + o \in 1 .. Len(asm)
      /\ d[Len(asm) - o + 1] = a
  BY <1>1, <1>2, <1>5, AppendProperties
<1>7. \A j \in 1 .. Len(d) : j \in 1 .. Len(asm) - o \/ j = Len(asm) - o + 1
  BY <1>1, <1>6
<1>8. \A j \in 1 .. Len(d) : IF d[j].id = a.id THEN d[j] = a
                             ELSE \E l \in 1 .. Len(asm) : asm[l] = d[j]
  BY <1>6, <1>7
<1>9. Table(d)
  <2>1. ASSUME NEW j \in 1 .. Len(d), NEW l \in 1 .. Len(d), d[j].id = d[l].id
        PROVE  j = l
    <3>1. CASE j \in 1 .. Len(asm) - o /\ l \in 1 .. Len(asm) - o
      <4>1. j + o = l + o
        BY <1>6, <2>1, <3>1 DEF Table
      <4> QED BY <1>1, <4>1
    <3>2. CASE j = Len(asm) - o + 1 /\ l = Len(asm) - o + 1
      BY <3>2
    <3>3. CASE j = Len(asm) - o + 1 /\ l \in 1 .. Len(asm) - o
      BY <1>6, <2>1, <3>3
    <3>4. CASE l = Len(asm) - o + 1 /\ j \in 1 .. Len(asm) - o
      BY <1>6, <2>1, <3>4
    <3> QED BY <1>7, <3>1, <3>2, <3>3, <3>4
  <2>2. \A j \in 1 .. Len(d) : Len(d[j].got) < d[j].expected
    BY <1>6, <1>7 DEF Table
  <2>3. Len(d) <= MaxConversations
    BY <1>1, <1>3, <1>6
  <2> QED BY <1>6, <2>1, <2>2, <2>3 DEF Table
<1>10. \A R : Held(d, a, R)
  <2>1. Len(d) \in 1 .. Len(d) /\ d[Len(d)] = a /\ \A j \in Len(d) + 1 .. Len(d) : FALSE
    BY <1>1, <1>6
  <2> QED BY <2>1 DEF Held
<1>11. ASSUME NEW c, NEW R, IsFiniteSet(R), Held(asm, c, R),
              Cardinality(R \cup {a.id}) < MaxConversations
       PROVE  Held(d, c, R \cup {a.id})
  <2>1. PICK i \in 1 .. Len(asm) :
           asm[i] = c /\ \A j \in i + 1 .. Len(asm) : asm[j].id \in R
    BY <1>11 DEF Held
  <2>2. ~ (o = 1 /\ i = 1)
    <3> SUFFICES ASSUME o = 1, i = 1 PROVE FALSE
      OBVIOUS
    <3> DEFINE U == R \cup {c.id}
    <3>1. IsFiniteSet(U)
      BY <1>11, FS_AddElement
    <3>2. \A j \in 1 .. Len(asm) : j = 1 \/ j \in 1 + 1 .. Len(asm)
      BY <1>1
    <3>3. \A j \in 1 .. Len(asm) : asm[j].id \in U
      BY <2>1, <3>2
    <3>4. Len(asm) <= Cardinality(U)
      BY <3>1, <3>3, Identifiers
    <3>5. Cardinality(R) \in Nat
      BY <1>11, FS_CardinalityType
    <3>6. Cardinality(U) <= Cardinality(R) + 1
      <4>1. Cardinality(R \cup {c.id}) = IF c.id \in R THEN Cardinality(R) ELSE Cardinality(R) + 1
        BY <1>11, FS_AddElement
      <4> QED BY <3>5, <4>1
    <3>7. Cardinality(U) \in Nat
      BY <3>1, FS_CardinalityType
    <3>8. CASE a.id \notin R
      <4>1. Cardinality(R \cup {a.id}) = Cardinality(R) + 1
        BY <1>11, <3>8, FS_AddElement
      <4> QED BY <1>1, <1>4, <1>11, <3>4, <3>5, <3>6, <3>7, <4>1
    <3>9. CASE a.id \in R
      <4> DEFINE V == U \ {a.id}
      <4>1. IsFiniteSet(V) /\ Cardinality(V) = Cardinality(U) - 1
        BY <3>1, <3>9, FS_RemoveElement
      <4>2. \A j \in 1 .. Len(asm) : asm[j].id \in V
        BY <3>3
      <4>3. Len(asm) <= Cardinality(V)
        BY <4>1, <4>2, Identifiers
      <4>4. R \cup {a.id} = R
        BY <3>9
      <4>5. Cardinality(R) < MaxConversations
        BY <1>11, <4>4
      <4> HIDE DEF U, V
      <4> QED BY <1>1, <1>4, <3>5, <3>6, <3>7, <4>1, <4>3, <4>5
    <3> QED BY <3>8, <3>9
  <2>3. i - o \in 1 .. Len(asm) - o /\ (i - o) + o = i
    BY <1>1, <2>2
  <2>4. \A j \in (i - o) + 1 .. Len(d) : /\ j \in 1 .. Len(d)
                                         /\ j \in 1 .. Len(asm) - o => j + o \in i + 1 .. Len(asm)
    BY <1>1, <1>6, <2>3
  <2>5. \A j \in (i - o) + 1 .. Len(d) : d[j].id \in R \cup {a.id}
    BY <1>6, <1>7, <2>1, <2>4
  <2>6. i - o \in 1 .. Len(d) /\ d[i - o] = c
    BY <1>1, <1>6, <2>1, <2>3
  <2> QED BY <2>5, <2>6 DEF Held
<1> QED BY <1>8, <1>9, <1>10, <1>11 DEF Starts
----------------------------------------------------------------------------
\* The conversation a first frame of e begins.
Opening(e) ==
    [id |-> e, got |-> Message(tx[e].n, FirstBytes), expected |-> tx[e].len, sequence |-> 1]

LEMMA TxType ==
    ASSUME SenderType, NEW e \in Ecus
    PROVE  /\ tx[e] \in [n : Nat, len : Lengths \cup {0}, k : Nat]
           /\ tx[e].n \in Nat /\ tx[e].len \in 0 .. MaxMessage /\ tx[e].k \in Nat
           /\ tx[e].len # 0 => tx[e].len \in Lengths
           /\ FirstBytes \in Nat /\ NextBytes \in Nat /\ MaxMessage \in Nat
           /\ 1 <= FirstBytes /\ FirstBytes <= NextBytes
<1>1. /\ FirstBytes \in Nat /\ NextBytes \in Nat /\ MaxMessage \in Nat
      /\ 1 <= FirstBytes /\ FirstBytes <= NextBytes
  BY IsoTpAssumption
<1>2. Lengths \cup {0} \subseteq 0 .. MaxMessage
  BY <1>1, IsoTpAssumption
<1>3. tx[e] \in [n : Nat, len : Lengths \cup {0}, k : Nat]
  BY DEF SenderType
<1> QED BY <1>1, <1>2, <1>3

\* A single frame is delivered and touches no conversation.
LEMMA FeedSingle ==
    ASSUME SenderType, NEW e \in Ecus, Sending(e), tx[e].len <= SingleLimit, NEW asm
    PROVE  Feed(asm, SingleFrame(e)) = Result(asm, <<Message(tx[e].n, tx[e].len)>>)
<1> DEFINE f == SingleFrame(e)
<1>1. /\ tx[e].n \in Nat /\ tx[e].len \in 0 .. NextBytes /\ NextBytes \in Nat
      /\ tx[e].len \in Nat
  BY TxType DEF SingleLimit
<1>2. /\ f.id = e /\ f.type = 0 /\ f.len = tx[e].len
      /\ f.data = Padded(Message(tx[e].n, tx[e].len), NextBytes)
  BY DEF SingleFrame
<1> HIDE DEF f
<1>3. Len(f.data) = NextBytes
  <2>1. Message(tx[e].n, tx[e].len) \in Seq(Byte)
    BY <1>1, MessageBytes
  <2> QED BY <1>1, <1>2, <2>1, PaddedBytes
<1>4. SubSeq(f.data, 1, f.len) = Message(tx[e].n, tx[e].len)
  <2>1. SubSeq(Padded(Message(tx[e].n, tx[e].len), NextBytes), 1, tx[e].len)
          = Message(tx[e].n, tx[e].len)
    BY <1>1, SingleData
  <2> QED BY <1>2, <2>1
<1>5. ~ (f.len > SingleLimit \/ f.len > Len(f.data))
  BY <1>1, <1>2, <1>3 DEF SingleLimit
<1> QED BY <1>2, <1>4, <1>5 DEF Feed, Single, f

\* A first frame begins a conversation in place of any other of its ECU.
LEMMA FeedFirst ==
    ASSUME SenderType, NEW e \in Ecus, tx[e].len > SingleLimit, NEW asm
    PROVE  /\ Opening(e) \in Conversation /\ Len(Opening(e).got) < Opening(e).expected
           /\ Opening(e).id = e
           /\ Feed(asm, FirstFrame(e)) =
                Result(Append(IF Len(Drop(asm, e)) = MaxConversations THEN Tail(Drop(asm, e))
                              ELSE Drop(asm, e), Opening(e)), <<Start>>)
<1> DEFINE f == FirstFrame(e)
<1>1. /\ tx[e].n \in Nat /\ tx[e].len \in SegmentedMinimum .. MaxMessage /\ tx[e].len \in Nat
      /\ FirstBytes \in 0 .. tx[e].len /\ FirstBytes \in Nat /\ 1 <= FirstBytes
      /\ FirstBytes < tx[e].len
  BY TxType DEF SingleLimit, SegmentedMinimum
<1>2. /\ f.id = e /\ f.type = 1 /\ f.len = tx[e].len
      /\ f.data = SubSeq(Message(tx[e].n, tx[e].len), 1, FirstBytes)
  BY DEF FirstFrame
<1> HIDE DEF f
<1>3. f.data = Message(tx[e].n, FirstBytes)
  BY <1>1, <1>2, FirstData
<1>4. f.data \in Seq(Byte) /\ Len(f.data) = FirstBytes
  <2>1. /\ Message(tx[e].n, FirstBytes) \in Seq(Byte)
        /\ Len(Message(tx[e].n, FirstBytes)) = FirstBytes
    BY <1>1, MessageBytes
  <2> QED BY <1>3, <2>1
<1>5. f.data # <<>>
  BY <1>1, <1>4
<1>6. Min({Len(f.data), f.len}) = FirstBytes
  BY <1>1, <1>2, <1>4, Smaller
<1>7. SubSeq(f.data, 1, Min({Len(f.data), f.len})) = Message(tx[e].n, FirstBytes)
  <2>1. FirstBytes \in 0 .. FirstBytes
    BY <1>1
  <2> QED BY <1>1, <1>3, <1>6, <2>1, FirstData
<1>8. ~ (f.data = <<>> \/ f.len < SegmentedMinimum \/ f.len > MaxMessage)
  BY SMTT(30), <1>1, <1>2, <1>5, TxType DEF SegmentedMinimum
<1>9. 1 \in 0 .. SeqWrap - 1
  BY IsoTpAssumption
<1>10. Opening(e) \in Conversation /\ Len(Opening(e).got) < Opening(e).expected
  <2>1. Message(tx[e].n, FirstBytes) \in Seq(Byte) /\ Len(Message(tx[e].n, FirstBytes)) = FirstBytes
    BY <1>1, MessageBytes
  <2> QED BY <1>1, <1>9, <2>1 DEF Opening, Conversation
<1>11. Feed(asm, f) = First(Drop(asm, e), f)
  BY <1>2 DEF Feed
<1>12. First(Drop(asm, e), f) =
         Result(Append(IF Len(Drop(asm, e)) = MaxConversations THEN Tail(Drop(asm, e))
                       ELSE Drop(asm, e), Opening(e)), <<Start>>)
  BY <1>2, <1>7, <1>8 DEF First, Opening
<1>13. Opening(e).id = e
  BY DEF Opening
<1> QED BY <1>10, <1>11, <1>12, <1>13 DEF f

\* What a consecutive frame leaves of a conversation.
LEMMA Extended ==
    ASSUME SenderType, NEW e \in Ecus, NEW k \in Nat \ {0},
           tx[e].len > SingleLimit, Before(k) < tx[e].len,
           NEW c \in Conversation, Len(c.got) < c.expected
    PROVE  LET a == Extend(c, NextFrame(e, k))
           IN  /\ a \in Conversation /\ a.id = c.id /\ a.expected = c.expected
               /\ a.sequence = (c.sequence + 1) % SeqWrap
               /\ Len(a.got) <= a.expected
               /\ c.got = Message(tx[e].n, Before(k)) /\ c.expected = tx[e].len =>
                    a.got = Message(tx[e].n, IF Before(k + 1) < tx[e].len THEN Before(k + 1)
                                             ELSE tx[e].len)
<1> DEFINE f == NextFrame(e, k)
           n == tx[e].n
           len == tx[e].len
           m == Min({Len(f.data), c.expected - Len(c.got)})
           p == Payload(c, f)
<1>1. /\ n \in Nat /\ len \in Nat /\ NextBytes \in Nat /\ NextBytes > 0
      /\ Before(k) \in Nat /\ Before(k) \in 0 .. len /\ Before(k + 1) = Before(k) + NextBytes
  <2>1. /\ tx[e].n \in Nat /\ tx[e].len \in Nat /\ NextBytes \in Nat /\ NextBytes > 0
    BY TxType
  <2>2. Before(k) \in Nat /\ Before(k + 1) = Before(k) + NextBytes
    <3>1. k \in Nat /\ k > 0
      OBVIOUS
    <3> QED BY <3>1, BeforeNext
  <2> QED BY <2>1, <2>2
<1>2. f.data = Padded(SubSeq(Message(n, len), Before(k) + 1, len), NextBytes)
  BY DEF NextFrame
<1> HIDE DEF f, n, len
<1>3. f.data \in Seq(Byte) /\ Len(f.data) = NextBytes
  <2>1. Message(n, len) \in Seq(Byte) /\ Len(Message(n, len)) = len
    BY <1>1, MessageBytes
  <2>2. len \in Before(k) .. Len(Message(n, len))
    BY <1>1, <2>1
  <2>3. SubSeq(Message(n, len), Before(k) + 1, len) \in Seq(Byte)
    BY <1>1, <2>1, <2>2, Stretch
  <2> QED BY <1>1, <1>2, <2>3, PaddedBytes
<1>4. /\ c.got \in Seq(Byte) /\ c.expected \in Nat /\ Len(c.got) \in Nat
      /\ c.sequence \in 0 .. SeqWrap - 1
      /\ c.expected - Len(c.got) \in Nat
  BY TxType DEF Conversation, SegmentedMinimum
<1>5. m = IF NextBytes <= c.expected - Len(c.got) THEN NextBytes ELSE c.expected - Len(c.got)
  BY <1>1, <1>3, <1>4, Smaller
<1>6. m \in 0 .. NextBytes /\ m <= c.expected - Len(c.got)
  BY <1>1, <1>4, <1>5
<1> HIDE DEF m
<1>7. p \in Seq(Byte) /\ Len(p) = m
  BY <1>3, <1>6, Beginning DEF Payload, m
<1>8. c.got \o p \in Seq(Byte) /\ Len(c.got \o p) = Len(c.got) + m
  BY <1>4, <1>7, ConcatProperties
<1> HIDE DEF p
<1> DEFINE a == Extend(c, f)
<1>9. (c.sequence + 1) % SeqWrap \in 0 .. SeqWrap - 1
  BY <1>4, IsoTpAssumption
<1>10. /\ a = [c EXCEPT !.sequence = (c.sequence + 1) % SeqWrap, !.got = c.got \o p]
  BY DEF Extend, p
<1>11. /\ a \in Conversation /\ a.id = c.id /\ a.expected = c.expected
       /\ a.sequence = (c.sequence + 1) % SeqWrap /\ a.got = c.got \o p
  BY <1>8, <1>9, <1>10 DEF Conversation
<1> HIDE DEF a
<1>12. Len(a.got) <= a.expected
  BY <1>4, <1>6, <1>8, <1>11
<1>13. ASSUME c.got = Message(n, Before(k)), c.expected = len
       PROVE  a.got = Message(n, IF Before(k + 1) < len THEN Before(k + 1) ELSE len)
  <2>1. Len(c.got) = Before(k)
    BY <1>1, <1>13, MessageBytes
  <2>2. m \in Nat /\ m <= NextBytes /\ m <= len - Before(k)
    BY <1>1, <1>6, <1>13, <2>1
  <2>3. p = SubSeq(f.data, 1, m)
    BY DEF p, m, Payload
  <2>4. c.got \o p = Message(n, Before(k) + m)
    <3>1. Joined(n, len, Before(k), NextBytes, m) = Message(n, Before(k) + m)
      BY <1>1, <2>2, NextData
    <3> QED BY <1>2, <1>13, <2>3, <3>1 DEF Joined
  <2>5. Before(k) + m = IF Before(k + 1) < len THEN Before(k + 1) ELSE len
    BY <1>1, <1>5, <1>13, <2>1
  <2> QED BY <1>11, <2>4, <2>5
<1> QED BY <1>11, <1>12, <1>13 DEF a, f, n, len

\* What a consecutive frame does to the table.
LEMMA FeedNext ==
    ASSUME SenderType, NEW e \in Ecus, NEW k \in Nat \ {0},
           tx[e].len > SingleLimit, Before(k) < tx[e].len, NEW asm, Table(asm),
           NEW r, r = Feed(asm, NextFrame(e, k)), NEW i, i = At(asm, e),
           NEW a, a = Extend(asm[i], NextFrame(e, k))
    PROVE  \/ (\A j \in 1 .. Len(asm) : asm[j].id # e) /\ r = Result(asm, <<>>)
           \/ /\ i \in 1 .. Len(asm) /\ asm[i].id = e /\ asm[i] \in Conversation
              /\ Len(asm[i].got) < asm[i].expected
              /\ r = IF asm[i].sequence # k % SeqWrap THEN Result(Drop(asm, e), <<>>)
                     ELSE IF Len(a.got) < a.expected THEN Result([asm EXCEPT ![i] = a], <<>>)
                     ELSE Result(Drop(asm, e), <<a.got>>)
<1> DEFINE f == NextFrame(e, k)
<1>1. f.id = e /\ f.type = 2 /\ f.seq = k % SeqWrap
  BY DEF NextFrame
<1>2. f.data # <<>>
  <2>1. NextBytes \in Nat \ {0}
    BY IsoTpAssumption
  <2>2. 1 \in DOMAIN f.data
    BY <2>1 DEF NextFrame, Padded
  <2> QED BY <2>2
<1>3. a = Extend(asm[i], f) /\ r = Feed(asm, f)
  OBVIOUS
<1> HIDE DEF f
<1>4. CASE Find(asm, e) = {}
  <2>1. Feed(asm, f) = Result(asm, <<>>)
    BY <1>1, <1>4 DEF Feed
  <2>2. \A j \in 1 .. Len(asm) : asm[j].id # e
    BY <1>4 DEF Find
  <2> QED BY <1>3, <2>1, <2>2
<1>5. CASE Find(asm, e) # {}
  <2>1. i \in 1 .. Len(asm) /\ asm[i].id = e
    BY <1>5 DEF At, Find
  <2>2. asm[i] \in Conversation /\ Len(asm[i].got) < asm[i].expected
    BY <2>1, ElementOfSeq DEF Table
  <2>3. Feed(asm, f) = Consecutive(asm, f)
    BY <1>1, <1>5 DEF Feed
  <2>4. Consecutive(asm, f) =
          IF asm[i].sequence # k % SeqWrap THEN Result(Drop(asm, e), <<>>)
          ELSE IF Len(a.got) < a.expected THEN Result([asm EXCEPT ![i] = a], <<>>)
          ELSE Result(Drop(asm, e), <<a.got>>)
    BY <1>3, <1>1, <1>2 DEF Consecutive
  <2> QED BY <1>3, <2>1, <2>2, <2>3, <2>4
<1> QED BY <1>4, <1>5

\* A frame cut down to its PCI byte ends the conversation of its ECU.
LEMMA FeedCut ==
    ASSUME SenderType, NEW e \in Ecus, Sending(e), NEW asm
    PROVE  Feed(asm, [FrameOf(e) EXCEPT !.data = <<>>]) = Result(Drop(asm, e), <<>>)
<1> DEFINE f == FrameOf(e)
           g == [f EXCEPT !.data = <<>>]
<1>1. /\ tx[e].len \in Nat /\ tx[e].len > 0
  BY TxType DEF Sending
<1>2. CASE tx[e].len <= SingleLimit
  <2>1. g.id = e /\ g.type = 0 /\ g.len = tx[e].len /\ g.data = <<>>
    BY <1>2 DEF FrameOf, FrameAt, SingleFrame
  <2> HIDE DEF g
  <2>2. g.len > Len(g.data)
    BY <1>1, <2>1
  <2> QED BY <2>1, <2>2 DEF Feed, Single, g
<1>3. CASE ~ tx[e].len <= SingleLimit /\ tx[e].k = 0
  <2>1. g.id = e /\ g.type = 1 /\ g.data = <<>>
    BY <1>3 DEF FrameOf, FrameAt, FirstFrame
  <2> HIDE DEF g
  <2> QED BY <2>1 DEF Feed, First, g
<1>4. CASE ~ tx[e].len <= SingleLimit /\ tx[e].k # 0
  <2>1. g.id = e /\ g.type = 2 /\ g.data = <<>>
    BY <1>4 DEF FrameOf, FrameAt, NextFrame
  <2> HIDE DEF g
  <2>2. CASE Find(asm, e) = {}
    BY <2>1, <2>2 DEF Feed, Drop, g
  <2>3. CASE Find(asm, e) # {}
    BY <2>1, <2>3 DEF Feed, Consecutive, g
  <2> QED BY <2>2, <2>3
<1> QED BY <1>2, <1>3, <1>4
----------------------------------------------------------------------------
\* From asm to d only e's conversation changed, but that e may have begun
\* one and taken the place of the oldest.
Local(asm, d, e, began) ==
    /\ Table(d)
    /\ \A j \in 1 .. Len(d) : d[j].id # e => \E l \in 1 .. Len(asm) : asm[l] = d[j]
    /\ \A c, R :
          /\ c.id # e /\ IsFiniteSet(R) /\ Held(asm, c, R)
          /\ began => Cardinality(R \cup {e}) < MaxConversations
          => Held(d, c, IF began THEN R \cup {e} ELSE R)

LEMMA LocalDrop ==
    ASSUME NEW asm, Table(asm), NEW e
    PROVE  /\ Local(asm, asm, e, FALSE) /\ Local(asm, Drop(asm, e), e, FALSE)
           /\ \A j \in 1 .. Len(Drop(asm, e)) : Drop(asm, e)[j].id # e
<1>1. Local(asm, asm, e, FALSE)
  BY DEF Local
<1>2. Local(asm, Drop(asm, e), e, FALSE)
  BY Dropped DEF Local
<1> QED BY <1>1, <1>2, Dropped

\* The conversation of e is c, and it is the youngest.
Youngest(d, e, c) ==
    /\ \A j \in 1 .. Len(d) : d[j].id = e => d[j] = c
    /\ \A R : Held(d, c, R)

\* A first frame of e.
LEMMA LocalFirst ==
    ASSUME SenderType, NEW e \in Ecus, tx[e].len > SingleLimit, NEW asm, Table(asm),
           NEW r, r = Feed(asm, FirstFrame(e))
    PROVE  Local(asm, r.asm, e, TRUE) /\ Youngest(r.asm, e, Opening(e)) /\ r.out = <<Start>>
<1>0. SUFFICES ASSUME NEW d, d = r.asm
               PROVE  Local(asm, d, e, TRUE) /\ Youngest(d, e, Opening(e)) /\ r.out = <<Start>>
  OBVIOUS
<1> DEFINE b == Drop(asm, e)
           a == Opening(e)
<1>1. /\ Table(b)
      /\ \A j \in 1 .. Len(b) : b[j].id # e /\ \E l \in 1 .. Len(asm) : asm[l] = b[j]
      /\ \A c, R : c.id # e /\ Held(asm, c, R) => Held(b, c, R)
  BY Dropped
<1>2. /\ a \in Conversation /\ Len(a.got) < a.expected /\ a.id = e
      /\ r = Result(Append(IF Len(b) = MaxConversations THEN Tail(b) ELSE b, a), <<Start>>)
  BY FeedFirst
<1> HIDE DEF a, b
<1>3. /\ d = Append(IF Len(b) = MaxConversations THEN Tail(b) ELSE b, a)
      /\ r.out = <<Start>>
  BY <1>0, <1>2 DEF Result
<1>4. /\ Table(d)
      /\ \A j \in 1 .. Len(d) : IF d[j].id = a.id THEN d[j] = a
                                ELSE \E l \in 1 .. Len(b) : b[l] = d[j]
      /\ \A R : Held(d, a, R)
      /\ \A c, R : /\ IsFiniteSet(R) /\ Held(b, c, R)
                   /\ Cardinality(R \cup {a.id}) < MaxConversations
                   => Held(d, c, R \cup {a.id})
  <2>1. \A j \in 1 .. Len(b) : b[j].id # a.id
    BY <1>1, <1>2
  <2>2. Table(b) /\ a \in Conversation /\ Len(a.got) < a.expected
    BY <1>1, <1>2
  <2>3. d = Append(Room(b), a)
    BY <1>3 DEF Room
  <2>4. Starts(b, d, a)
    BY <2>1, <2>2, <2>3, Started
  <2> QED BY <2>4 DEF Starts
<1>5. Local(asm, d, e, TRUE)
  <2>1. \A j \in 1 .. Len(d) : d[j].id # e => \E l \in 1 .. Len(asm) : asm[l] = d[j]
    BY <1>1, <1>2, <1>4
  <2>2. \A c, R :
          /\ c.id # e /\ IsFiniteSet(R) /\ Held(asm, c, R)
          /\ Cardinality(R \cup {e}) < MaxConversations
          => Held(d, c, R \cup {e})
    BY <1>1, <1>2, <1>4
  <2> QED BY <1>4, <2>1, <2>2 DEF Local
<1> QED BY <1>2, <1>3, <1>4, <1>5 DEF a, Youngest

\* A consecutive frame of e.
LEMMA LocalNext ==
    ASSUME SenderType, NEW e \in Ecus, NEW k \in Nat \ {0},
           tx[e].len > SingleLimit, Before(k) < tx[e].len, NEW asm, Table(asm),
           NEW r, r = Feed(asm, NextFrame(e, k))
    PROVE  Local(asm, r.asm, e, FALSE) /\ r.out \in Seq(Seq(Byte))
<1> DEFINE i == At(asm, e)
           a == Extend(asm[i], NextFrame(e, k))
           d == r.asm
<1>0. i = At(asm, e) /\ a = Extend(asm[i], NextFrame(e, k)) /\ <<>> \in Seq(Seq(Byte))
  OBVIOUS
<1> HIDE DEF i, a, d
<1>1. CASE r = Result(asm, <<>>)
  <2>1. r.asm = asm /\ r.out = <<>>
    BY <1>1 DEF Result
  <2> QED BY <1>0, <2>1, LocalDrop
<1>2. CASE r = Result(Drop(asm, e), <<>>)
  <2>1. r.asm = Drop(asm, e) /\ r.out = <<>>
    BY <1>2 DEF Result
  <2> QED BY <1>0, <2>1, LocalDrop
<1>3. CASE /\ i \in 1 .. Len(asm) /\ asm[i].id = e /\ asm[i] \in Conversation
           /\ Len(asm[i].got) < asm[i].expected
           /\ IF Len(a.got) < a.expected THEN r = Result([asm EXCEPT ![i] = a], <<>>)
              ELSE r = Result(Drop(asm, e), <<a.got>>)
  <2>1. a \in Conversation /\ a.id = e
    BY <1>0, <1>3, Extended
  <2>2. CASE Len(a.got) < a.expected
    <3>1. d = [asm EXCEPT ![i] = a] /\ r.out = <<>>
      BY <1>3, <2>2 DEF Result, d
    <3>2. /\ a.id = asm[i].id /\ i \in 1 .. Len(asm)
          /\ d \in Seq(Conversation) /\ Len(d) = Len(asm)
          /\ \A j \in 1 .. Len(asm) : d[j] = IF j = i THEN a ELSE asm[j]
      BY <1>3, <2>1, <3>1, ExceptSeq DEF Table
    <3>3. /\ Table(d)
          /\ \A j \in 1 .. Len(d) : IF d[j].id = a.id THEN d[j] = a
                                    ELSE \E l \in 1 .. Len(asm) : asm[l] = d[j]
          /\ \A c, R : c.id # a.id /\ Held(asm, c, R) => Held(d, c, R)
      BY <2>1, <2>2, <3>2, Replaced
    <3>4. Local(asm, d, e, FALSE)
      BY <2>1, <3>3 DEF Local
    <3> QED BY <1>0, <3>1, <3>4 DEF d
  <2>3. CASE ~ Len(a.got) < a.expected
    <3>1. d = Drop(asm, e) /\ r.out = <<a.got>>
      BY <1>3, <2>3 DEF Result, d
    <3>2. a.got \in Seq(Byte)
      BY <2>1 DEF Conversation
    <3>3. <<a.got>> \in Seq(Seq(Byte))
      BY <3>2
    <3> QED BY <3>1, <3>3, LocalDrop DEF d
  <2> QED BY <2>2, <2>3
<1>4. \/ (\A j \in 1 .. Len(asm) : asm[j].id # e) /\ r = Result(asm, <<>>)
      \/ /\ i \in 1 .. Len(asm) /\ asm[i].id = e /\ asm[i] \in Conversation
         /\ Len(asm[i].got) < asm[i].expected
         /\ r = IF asm[i].sequence # k % SeqWrap THEN Result(Drop(asm, e), <<>>)
                ELSE IF Len(a.got) < a.expected THEN Result([asm EXCEPT ![i] = a], <<>>)
                ELSE Result(Drop(asm, e), <<a.got>>)
  BY <1>0, FeedNext
<1> QED BY <1>1, <1>2, <1>3, <1>4

\* A step of e leaves the conversations of the other ECUs as they should be.
LEMMA OthersStay ==
    ASSUME IsoTpInv, NEW e \in Ecus, NEW began \in BOOLEAN,
           Local(assemblies, assemblies', e, began),
           \A r \in Ecus : r # e =>
              /\ tx'[r] = tx[r] /\ intact'[r] = intact[r]
              /\ rivals'[r] = IF began THEN rivals[r] \cup {e} ELSE rivals[r]
    PROVE  \A r \in Ecus : r # e => InStep(r)' /\ Kept(r)'
<1> SUFFICES ASSUME NEW r \in Ecus, r # e PROVE InStep(r)' /\ Kept(r)'
  OBVIOUS
<1>1. /\ tx'[r] = tx[r] /\ intact'[r] = intact[r]
      /\ rivals'[r] = IF began THEN rivals[r] \cup {e} ELSE rivals[r]
  OBVIOUS
<1>2. Progress(r)' = Progress(r) /\ Progress(r).id = r
  BY <1>1 DEF Progress
<1>3. InStep(r) /\ Kept(r)
  BY DEF IsoTpInv
<1>4. InStep(r)'
  BY <1>1, <1>2, <1>3 DEF InStep, Local
<1>5. Kept(r)'
  <2> SUFFICES ASSUME intact'[r], tx'[r].k > 0, Cardinality(rivals'[r]) < MaxConversations
               PROVE  Held(assemblies', Progress(r), rivals'[r])
    BY <1>2 DEF Kept
  <2>1. IsFiniteSet(rivals[r]) /\ Cardinality(rivals[r]) \in Nat
    BY FS_CardinalityType DEF IsoTpInv, HistoryType
  <2>2. Cardinality(rivals[r]) <= Cardinality(rivals'[r])
    <3>1. CASE began
      <4>1. Cardinality(rivals[r] \cup {e}) =
              IF e \in rivals[r] THEN Cardinality(rivals[r]) ELSE Cardinality(rivals[r]) + 1
        BY <2>1, FS_AddElement
      <4> QED BY <1>1, <2>1, <3>1, <4>1
    <3>2. CASE ~ began
      BY <1>1, <2>1, <3>2
    <3> QED BY <3>1, <3>2
  <2>3. Cardinality(rivals'[r]) \in Nat
    BY <1>1, <2>1, FS_AddElement, FS_CardinalityType
  <2>4. MaxConversations \in Nat
    BY IsoTpAssumption
  <2>5. Cardinality(rivals[r]) < MaxConversations
    BY <2>1, <2>2, <2>3, <2>4
  <2>6. Held(assemblies, Progress(r), rivals[r])
    BY <1>1, <1>3, <2>5 DEF Kept
  <2>7. began => Cardinality(rivals[r] \cup {e}) < MaxConversations
    BY <1>1
  <2>8. Held(assemblies', Progress(r), IF began THEN rivals[r] \cup {e} ELSE rivals[r])
    BY <1>2, <2>1, <2>6, <2>7 DEF Local
  <2> QED BY <1>1, <2>8
<1> QED BY <1>4, <1>5

\* What e has sent after one more frame.
LEMMA Advanced ==
    ASSUME SenderType, SenderInv, NEW e \in Ecus, Sending(e), Advance(e)
    PROVE  /\ tx' \in [Ecus -> [n : Nat, len : Lengths \cup {0}, k : Nat]]
           /\ \A r \in Ecus : r # e => tx'[r] = tx[r]
           /\ begun' = begun
           /\ tx'[e] = IF LastFrame(e) THEN Resting(e)
                       ELSE [n |-> tx[e].n, len |-> tx[e].len, k |-> tx[e].k + 1]
           /\ SenderInv'
<1>1. /\ tx[e].n \in Nat /\ tx[e].len \in Nat /\ tx[e].k \in Nat /\ tx[e].len \in Lengths
      /\ NextBytes \in Nat
  BY TxType DEF Sending
<1> DEFINE t == IF LastFrame(e) THEN Resting(e)
                ELSE [n |-> tx[e].n, len |-> tx[e].len, k |-> tx[e].k + 1]
<1>2. t \in [n : Nat, len : Lengths \cup {0}, k : Nat]
  BY <1>1 DEF Resting
<1>3. tx' = [tx EXCEPT ![e] = t] /\ begun' = begun
  BY DEF Advance
<1>4. /\ t.n = tx[e].n
      /\ t.k > 0 => t.len > SingleLimit /\ Before(t.k) < t.len
  <2>1. CASE LastFrame(e)
    BY <2>1 DEF Resting
  <2>2. CASE ~ LastFrame(e)
    <3>1. t.n = tx[e].n /\ t.len = tx[e].len /\ t.k = tx[e].k + 1
      BY <2>2
    <3>2. Before(tx[e].k + 1) \in Nat
      BY <1>1, BeforeNext
    <3> QED BY <1>1, <2>2, <3>1, <3>2 DEF LastFrame, SingleLimit
  <2> QED BY <2>1, <2>2
<1> HIDE DEF t
<1>5. /\ tx' \in [Ecus -> [n : Nat, len : Lengths \cup {0}, k : Nat]]
      /\ tx'[e] = t /\ \A r \in Ecus : r # e => tx'[r] = tx[r]
  BY <1>2, <1>3 DEF SenderType
<1>6. SenderInv'
  <2> SUFFICES ASSUME NEW r \in Ecus
               PROVE  /\ tx'[r].n <= begun'
                      /\ tx'[r].k > 0 => tx'[r].len > SingleLimit /\ Before(tx'[r].k) < tx'[r].len
    BY DEF SenderInv, Before, SingleLimit
  <2>1. CASE r = e
    BY <1>3, <1>4, <1>5, <2>1 DEF SenderInv
  <2>2. CASE r # e
    BY <1>3, <1>5, <2>2 DEF SenderInv
  <2> QED BY <2>1, <2>2
<1> QED BY <1>3, <1>5, <1>6 DEF t

\* The history after a frame of e.
Arrives(e, f, arrived) == arrived /\ (f.type \in {0, 1} \/ intact[e])
Done(e, f, arrived) ==
    IF Arrives(e, f, arrived) /\ LastFrame(e) THEN {<<tx[e].n, tx[e].len>>} ELSE {}
Booked(e, f, arrived) ==
    /\ intact' \in [Ecus -> BOOLEAN] /\ intact'[e] = Arrives(e, f, arrived)
    /\ rivals' \in [Ecus -> SUBSET Ecus] /\ \A r \in Ecus : IsFiniteSet(rivals'[r])
    /\ rivals'[e] = IF f.type = 2 THEN rivals[e] ELSE {}
    /\ whole' \in [Ecus -> SUBSET (Nat \X Lengths)]
    /\ whole'[e] = whole[e] \cup Done(e, f, arrived)
    /\ owed' \in [Ecus -> SUBSET (Nat \X Lengths)]
    /\ owed'[e] = owed[e] \cup
          IF Cardinality(rivals'[e]) < MaxConversations THEN Done(e, f, arrived) ELSE {}
    /\ \A r \in Ecus : r # e =>
          /\ intact'[r] = intact[r]
          /\ rivals'[r] = IF f.type = 1 /\ arrived THEN rivals[r] \cup {e} ELSE rivals[r]
          /\ whole'[r] = whole[r] /\ owed'[r] = owed[r]

LEMMA Accounted ==
    ASSUME SenderType, HistoryType, NEW e \in Ecus, Sending(e), NEW f, f.id = e,
           NEW arrived \in BOOLEAN, Account(f, arrived)
    PROVE  Booked(e, f, arrived)
<1>1. /\ tx[e].n \in Nat /\ tx[e].len \in Lengths
  BY TxType DEF Sending
<1> DEFINE ok == arrived /\ (f.type \in {0, 1} \/ intact[e])
           D == IF ok /\ LastFrame(e) THEN {<<tx[e].n, tx[e].len>>} ELSE {}
<1>2. D \in SUBSET (Nat \X Lengths)
  BY <1>1
<1>3. ok \in BOOLEAN /\ ok = Arrives(e, f, arrived) /\ D = Done(e, f, arrived)
  BY DEF SenderType, Arrives, Done
<1> DEFINE others == IF f.type = 2 THEN rivals[e] ELSE {}
<1>4. /\ intact' = [intact EXCEPT ![e] = ok]
      /\ rivals' = [r \in Ecus |-> IF r = e THEN others
                                   ELSE IF f.type = 1 /\ arrived THEN rivals[r] \cup {e}
                                   ELSE rivals[r]]
      /\ whole' = [whole EXCEPT ![e] = whole[e] \cup D]
      /\ owed' = [owed EXCEPT ![e] =
                    owed[e] \cup IF Cardinality(others) < MaxConversations THEN D ELSE {}]
  BY DEF Account
<1> HIDE DEF ok, D
<1>5. rivals'[e] = others
  BY <1>4
<1>6. intact' \in [Ecus -> BOOLEAN] /\ intact'[e] = ok
  BY <1>3, <1>4 DEF SenderType
<1>7. \A r \in Ecus : r # e =>
         /\ intact'[r] = intact[r]
         /\ rivals'[r] = IF f.type = 1 /\ arrived THEN rivals[r] \cup {e} ELSE rivals[r]
  BY <1>4 DEF SenderType
<1>8. \A r \in Ecus : IsFiniteSet(rivals[r]) /\ IsFiniteSet(rivals[r] \cup {e})
  BY FS_AddElement DEF HistoryType
<1>9. IsFiniteSet(others) /\ others \in SUBSET Ecus
  BY <1>8, FS_EmptySet DEF HistoryType
<1> HIDE DEF others
<1>10. \A r \in Ecus : IsFiniteSet(rivals'[r])
  BY <1>5, <1>7, <1>8, <1>9
<1>11. rivals' \in [Ecus -> SUBSET Ecus]
  <2>1. \A r \in Ecus : rivals[r] \in SUBSET Ecus /\ rivals[r] \cup {e} \in SUBSET Ecus
    BY DEF HistoryType
  <2> QED BY <1>4, <1>9, <2>1
<1>12. whole' \in [Ecus -> SUBSET (Nat \X Lengths)]
  <2>1. whole[e] \cup D \in SUBSET (Nat \X Lengths)
    BY <1>2 DEF HistoryType
  <2> QED BY <1>4, <2>1 DEF HistoryType
<1>13. owed' \in [Ecus -> SUBSET (Nat \X Lengths)]
  <2>1. owed[e] \cup (IF Cardinality(others) < MaxConversations THEN D ELSE {})
          \in SUBSET (Nat \X Lengths)
    BY <1>2 DEF HistoryType
  <2> QED BY <1>4, <2>1 DEF HistoryType
<1>14. /\ whole'[e] = whole[e] \cup D
       /\ owed'[e] = owed[e] \cup IF Cardinality(others) < MaxConversations THEN D ELSE {}
       /\ \A r \in Ecus : r # e => whole'[r] = whole[r] /\ owed'[r] = owed[r]
  BY <1>4 DEF HistoryType
<1>15. others = IF f.type = 2 THEN rivals[e] ELSE {}
  BY DEF others
<1> QED
  BY <1>3, <1>5, <1>6, <1>7, <1>10, <1>11, <1>12, <1>13, <1>14, <1>15 DEF Booked

\* What feed() hands over is added to the output of e.
Hands(e, x) ==
    /\ output' \in [Ecus -> Seq(Seq(Byte))] /\ output'[e] = output[e] \o x
    /\ \A r \in Ecus : r # e => output'[r] = output[r]

\* It holds what the step makes due to e.
Pays(e, x) ==
    /\ \A w \in owed'[e] \ owed[e] : \E i \in 1 .. Len(x) : x[i] = Message(w[1], w[2])
    /\ \A r \in Ecus : r # e => owed'[r] = owed[r]

\* What an ECU is owed stays delivered when the output grows by x.
LEMMA LossStep ==
    ASSUME HistoryType, NoNeedlessLoss, NEW e \in Ecus, NEW x \in Seq(Seq(Byte)),
           Hands(e, x), Pays(e, x)
    PROVE  NoNeedlessLoss'
<1>1. /\ output[e] \in Seq(Seq(Byte)) /\ output[e] \o x \in Seq(Seq(Byte))
      /\ Len(output[e] \o x) = Len(output[e]) + Len(x)
      /\ \A i \in 1 .. Len(output[e]) + Len(x) : (output[e] \o x)[i] =
            IF i <= Len(output[e]) THEN output[e][i] ELSE x[i - Len(output[e])]
  BY ConcatProperties DEF HistoryType
<1> DEFINE o == output[e] \o x
<1>2. output'[e] = o /\ \A r \in Ecus : r # e => output'[r] = output[r]
  BY DEF Hands
<1> HIDE DEF o
<1>3. /\ \A w \in owed'[e] \ owed[e] : \E i \in 1 .. Len(x) : x[i] = Message(w[1], w[2])
      /\ \A r \in Ecus : r # e => owed'[r] = owed[r]
  BY DEF Pays
<1>4. ASSUME NEW i \in 1 .. Len(output[e])
      PROVE  i \in 1 .. Len(o) /\ o[i] = output[e][i]
  BY <1>1 DEF o
<1>5. ASSUME NEW i \in 1 .. Len(x)
      PROVE  \E j \in 1 .. Len(o) : o[j] = x[i]
  <2>1. Len(output[e]) \in Nat /\ Len(x) \in Nat
    BY <1>1
  <2>2. /\ Len(output[e]) + i \in 1 .. Len(output[e]) + Len(x)
        /\ ~ Len(output[e]) + i <= Len(output[e])
        /\ (Len(output[e]) + i) - Len(output[e]) = i
    BY <2>1
  <2> QED BY <1>1, <2>2 DEF o
<1>6. ASSUME NEW r \in Ecus, NEW w \in owed'[r]
      PROVE  \E i \in 1 .. Len(output'[r]) : output'[r][i] = Message(w[1], w[2])
  <2>1. CASE r # e
    <3>1. w \in owed[r] /\ output'[r] = output[r]
      BY <1>2, <1>3, <1>6, <2>1
    <3>2. \E i \in 1 .. Len(output[r]) : output[r][i] = Message(w[1], w[2])
      BY <3>1 DEF NoNeedlessLoss
    <3> QED BY <3>1, <3>2
  <2>2. CASE r = e /\ w \in owed[e]
    <3>1. PICK i \in 1 .. Len(output[e]) : output[e][i] = Message(w[1], w[2])
      BY <2>2 DEF NoNeedlessLoss
    <3> QED BY <1>2, <1>4, <2>2, <3>1
  <2>3. CASE r = e /\ w \notin owed[e]
    <3>1. PICK i \in 1 .. Len(x) : x[i] = Message(w[1], w[2])
      BY <1>3, <1>6, <2>3
    <3>2. PICK j \in 1 .. Len(o) : o[j] = x[i]
      BY <1>5
    <3> QED BY <1>2, <2>3, <3>1, <3>2
  <2> QED BY <2>1, <2>2, <2>3
<1> QED BY <1>6 DEF NoNeedlessLoss, Message
----------------------------------------------------------------------------
LEMMA HandsOver ==
    ASSUME HistoryType, NEW e \in Ecus
    PROVE  /\ \A x \in Seq(Seq(Byte)) :
                 output' = [output EXCEPT ![e] = output[e] \o x] => Hands(e, x)
           /\ <<>> \in Seq(Seq(Byte)) /\ (output' = output => Hands(e, <<>>))
           /\ Hands(e, <<>>) => output' = output
<1>1. output[e] \in Seq(Seq(Byte)) /\ output \in [Ecus -> Seq(Seq(Byte))]
  BY DEF HistoryType
<1>2. output[e] \o <<>> = output[e]
  BY <1>1, ConcatEmptySeq
<1>3. ASSUME NEW x \in Seq(Seq(Byte)), output' = [output EXCEPT ![e] = output[e] \o x]
      PROVE  Hands(e, x)
  <2>1. output[e] \o x \in Seq(Seq(Byte))
    BY <1>1, ConcatProperties
  <2> QED BY <1>1, <1>3, <2>1 DEF Hands
<1>4. output' = output => Hands(e, <<>>)
  BY <1>1, <1>2 DEF Hands
<1>5. Hands(e, <<>>) => output' = output
  BY <1>1, <1>2 DEF Hands
<1> QED BY <1>3, <1>4, <1>5

\* A frame of e that is accounted for preserves the invariant if it leaves
\* e's own conversation as it should be and hands over what e is owed.
Served(e, f, arrived, x) ==
    /\ Sending(e) /\ Advance(e) /\ f.id = e /\ Account(f, arrived)
    /\ faults' \in 0 .. MaxFaults /\ disturbed' \in [Ecus -> 0 .. 2]
    /\ IF f.type = 1 /\ arrived THEN Local(assemblies, assemblies', e, TRUE)
       ELSE Local(assemblies, assemblies', e, FALSE)
    /\ x \in Seq(Seq(Byte)) /\ Hands(e, x)
    /\ /\ Arrives(e, f, arrived) /\ LastFrame(e)
       /\ Cardinality(rivals'[e]) < MaxConversations
       => \E i \in 1 .. Len(x) : x[i] = Message(tx[e].n, tx[e].len)
    /\ InStep(e)' /\ Kept(e)'

LEMMA FrameStep ==
    ASSUME IsoTpInv, NEW e \in Ecus, NEW f, NEW arrived \in BOOLEAN, NEW x,
           Served(e, f, arrived, x)
    PROVE  IsoTpInv'
<1>1. Table(assemblies) /\ SenderType /\ SenderInv /\ HistoryType /\ NoNeedlessLoss
  BY DEF IsoTpInv
<1>2. /\ tx' \in [Ecus -> [n : Nat, len : Lengths \cup {0}, k : Nat]]
      /\ \A r \in Ecus : r # e => tx'[r] = tx[r]
      /\ begun' = begun /\ SenderInv'
  BY <1>1, Advanced DEF Served
<1>3. Booked(e, f, arrived)
  BY <1>1, Accounted DEF Served
<1>4. Pays(e, x)
  BY <1>3 DEF Booked, Done, Pays, Served
<1>5. NoNeedlessLoss'
  BY <1>1, <1>4, LossStep DEF Served
<1>6. \A r \in Ecus : r # e => InStep(r)' /\ Kept(r)'
  <2>1. CASE f.type = 1 /\ arrived
    <3>1. \A r \in Ecus : r # e =>
            /\ tx'[r] = tx[r] /\ intact'[r] = intact[r]
            /\ rivals'[r] = IF TRUE THEN rivals[r] \cup {e} ELSE rivals[r]
      BY <1>2, <1>3, <2>1 DEF Booked
    <3>2. Local(assemblies, assemblies', e, TRUE)
      BY <2>1 DEF Served
    <3> QED BY <3>1, <3>2, OthersStay
  <2>2. CASE ~ (f.type = 1 /\ arrived)
    <3>1. \A r \in Ecus : r # e =>
            /\ tx'[r] = tx[r] /\ intact'[r] = intact[r]
            /\ rivals'[r] = IF FALSE THEN rivals[r] \cup {e} ELSE rivals[r]
      BY <1>2, <1>3, <2>2 DEF Booked
    <3>2. Local(assemblies, assemblies', e, FALSE)
      BY <2>2 DEF Served
    <3> QED BY <3>1, <3>2, OthersStay
  <2> QED BY <2>1, <2>2
<1>7. \A r \in Ecus : InStep(r)' /\ Kept(r)'
  BY <1>6 DEF Served
<1>8. SenderType'
  BY <1>1, <1>2, <1>3 DEF SenderType, Booked, Served
<1>9. HistoryType'
  BY <1>3 DEF HistoryType, Hands, Booked, Served
<1>10. Table(assemblies)'
  BY DEF Served, Local, Table, Conversation, Byte, SegmentedMinimum
<1> QED BY <1>2, <1>5, <1>7, <1>8, <1>9, <1>10 DEF IsoTpInv

\* A fault is one more, of its ECU.
LEMMA FaultType ==
    ASSUME SenderType, NEW e \in Ecus, Fault(e)
    PROVE  /\ faults' \in 0 .. MaxFaults /\ disturbed' \in [Ecus -> 0 .. 2]
           /\ disturbed'[e] > 0 /\ disturbed[e] <= disturbed'[e]
           /\ disturbed'[e] <= 1 => disturbed[e] = 0
           /\ \A r \in Ecus : r # e => disturbed'[r] = disturbed[r]
<1>1. faults' \in 0 .. MaxFaults
  BY IsoTpAssumption DEF SenderType, Fault
<1>2. disturbed[e] \in 0 .. 2 /\ disturbed \in [Ecus -> 0 .. 2]
  BY DEF SenderType
<1>3. disturbed' = [disturbed EXCEPT ![e] = IF disturbed[e] < 2 THEN disturbed[e] + 1
                                            ELSE disturbed[e]]
  BY DEF Fault
<1> QED BY <1>1, <1>2, <1>3

\* A first frame that arrives ends the account of the faults before it.
LEMMA FrameArrives ==
    ASSUME SenderType, NEW e \in Ecus, Deliver(e)
    PROVE  /\ faults' \in 0 .. MaxFaults /\ disturbed' \in [Ecus -> 0 .. 2]
           /\ disturbed'[e] <= 1 => disturbed[e] <= 1
           /\ FrameOf(e).type # 1 => disturbed'[e] = disturbed[e]
           /\ \A r \in Ecus : r # e => disturbed'[r] = disturbed[r]
<1>1. disturbed[e] \in 0 .. 2 /\ disturbed \in [Ecus -> 0 .. 2]
  BY DEF SenderType
<1>2. disturbed' = [disturbed EXCEPT ![e] = IF FrameOf(e).type = 1 /\ disturbed[e] < 2 THEN 0
                                            ELSE disturbed[e]]
  BY DEF Deliver
<1>3. faults' \in 0 .. MaxFaults
  BY DEF Deliver, SenderType
<1> QED BY <1>1, <1>2, <1>3

LEMMA FrameId ==
    ASSUME NEW e \in Ecus, NEW k
    PROVE  /\ FrameAt(e, k).id = e
           /\ FrameAt(e, k).type = IF tx[e].len <= SingleLimit THEN 0 ELSE IF k = 0 THEN 1 ELSE 2
BY DEF FrameAt, SingleFrame, FirstFrame, NextFrame

\* A lost frame.
LEMMA LoseStep ==
    ASSUME IsoTpInv, NEW e \in Ecus, Lose(e)
    PROVE  IsoTpInv'
<1> DEFINE f == FrameOf(e)
<1>1. Table(assemblies) /\ SenderType /\ SenderInv /\ HistoryType
  BY DEF IsoTpInv
<1>2. Sending(e) /\ Fault(e) /\ Account(f, FALSE) /\ Advance(e)
  BY DEF Lose
<1>3. f.id = e
  BY FrameId DEF FrameOf
<1> HIDE DEF f
<1>4. intact'[e] = FALSE
  BY <1>1, <1>2, <1>3, Accounted DEF Booked, Arrives
<1>5. InStep(e)' /\ Kept(e)'
  BY <1>4 DEF InStep, Kept
<1>6. Hands(e, <<>>) /\ <<>> \in Seq(Seq(Byte))
  BY <1>1, HandsOver DEF Lose
<1>7. Local(assemblies, assemblies', e, FALSE)
  <2>1. assemblies' = assemblies
    BY DEF Lose
  <2> QED BY <1>1, <2>1, LocalDrop
<1>8. faults' \in 0 .. MaxFaults /\ disturbed' \in [Ecus -> 0 .. 2]
  BY <1>1, <1>2, FaultType
<1>9. Served(e, f, FALSE, <<>>)
  BY <1>2, <1>3, <1>5, <1>6, <1>7, <1>8 DEF Served, Arrives
<1> QED BY <1>9, FrameStep

\* A frame cut down to its PCI byte.
LEMMA TruncateStep ==
    ASSUME IsoTpInv, NEW e \in Ecus, Truncate(e)
    PROVE  /\ IsoTpInv' /\ assemblies' = Drop(assemblies, e)
           /\ output' = output
<1> DEFINE f == FrameOf(e)
<1>1. Table(assemblies) /\ SenderType /\ SenderInv /\ HistoryType
  BY DEF IsoTpInv
<1>2. Sending(e) /\ Fault(e) /\ Account(f, FALSE) /\ Advance(e)
  BY DEF Truncate
<1>3. f.id = e
  BY FrameId DEF FrameOf
<1>4. Feed(assemblies, [f EXCEPT !.data = <<>>]) = Result(Drop(assemblies, e), <<>>)
  BY <1>1, <1>2, FeedCut
<1>5. assemblies' = Drop(assemblies, e) /\ Hands(e, <<>>) /\ <<>> \in Seq(Seq(Byte))
  <2> DEFINE g == [f EXCEPT !.data = <<>>]
  <2>1. Receive(e, g)
    BY DEF Truncate
  <2>2. Feed(assemblies, g).asm = Drop(assemblies, e) /\ Feed(assemblies, g).out = <<>>
    BY <1>4 DEF Result
  <2> HIDE DEF g
  <2>3. /\ assemblies' = Drop(assemblies, e)
        /\ output' = [output EXCEPT ![e] = output[e] \o <<>>]
    BY <2>1, <2>2 DEF Receive
  <2> QED BY <1>1, <2>3, HandsOver
<1> HIDE DEF f
<1>6. intact'[e] = FALSE
  BY <1>1, <1>2, <1>3, Accounted DEF Booked, Arrives
<1>7. InStep(e)' /\ Kept(e)'
  BY <1>6 DEF InStep, Kept
<1>8. Local(assemblies, assemblies', e, FALSE)
  BY <1>1, <1>5, LocalDrop
<1>9. faults' \in 0 .. MaxFaults /\ disturbed' \in [Ecus -> 0 .. 2]
  BY <1>1, <1>2, FaultType
<1>10. IsoTpInv'
  <2>1. Served(e, f, FALSE, <<>>)
    BY <1>2, <1>3, <1>5, <1>7, <1>8, <1>9 DEF Served, Arrives
  <2> QED BY <2>1, FrameStep
<1>11. output' = output
  BY <1>1, <1>5, HandsOver
<1> QED BY <1>5, <1>10, <1>11

\* Entry i is a conversation of e that expects the consecutive frame k.
Matches(e, k, i) ==
    /\ i \in 1 .. Len(assemblies) /\ assemblies[i].id = e
    /\ assemblies[i].sequence = k % SeqWrap

\* Consecutive frame k of e extends entry i to a, and the message may be
\* complete.
Extends(e, k, i, a) ==
    /\ a \in Conversation /\ a.id = e /\ a.expected = assemblies[i].expected
    /\ a.sequence = (assemblies[i].sequence + 1) % SeqWrap
    /\ assemblies[i].got = Message(tx[e].n, Before(k)) /\ assemblies[i].expected = tx[e].len =>
          a.got = Message(tx[e].n, IF Before(k + 1) < tx[e].len THEN Before(k + 1) ELSE tx[e].len)
    /\ Len(a.got) <= a.expected
    /\ IF Len(a.got) < a.expected
       THEN /\ \A j \in 1 .. Len(assemblies') : assemblies'[j].id = e => assemblies'[j] = a
            /\ \A R : Held(assemblies, assemblies[i], R) => Held(assemblies', a, R)
            /\ Hands(e, <<>>)
       ELSE assemblies' = Drop(assemblies, e) /\ Hands(e, <<a.got>>) /\ a.got \in Seq(Byte)

\* What consecutive frame k of e does.
LEMMA ReceiveNext ==
    ASSUME IsoTpInv, NEW e \in Ecus, NEW k \in Nat \ {0},
           tx[e].len > SingleLimit, Before(k) < tx[e].len,
           Receive(e, NextFrame(e, k))
    PROVE  /\ Local(assemblies, assemblies', e, FALSE)
           /\ \E x \in Seq(Seq(Byte)) : Hands(e, x)
           /\ \/ /\ \A i \in 1 .. Len(assemblies) : ~ Matches(e, k, i)
                 /\ assemblies' = Drop(assemblies, e) /\ Hands(e, <<>>)
              \/ \E i \in 1 .. Len(assemblies) :
                    Matches(e, k, i) /\ \E a \in Conversation : Extends(e, k, i, a)
<1> DEFINE r == Feed(assemblies, NextFrame(e, k))
           i == At(assemblies, e)
           a == Extend(assemblies[i], NextFrame(e, k))
<1>1. Table(assemblies) /\ SenderType /\ HistoryType
  BY DEF IsoTpInv
<1>2. /\ r = Feed(assemblies, NextFrame(e, k)) /\ i = At(assemblies, e)
      /\ a = Extend(assemblies[i], NextFrame(e, k))
  OBVIOUS
<1>3. assemblies' = r.asm /\ output' = [output EXCEPT ![e] = output[e] \o r.out]
  BY DEF Receive
<1> HIDE DEF r, i, a
<1>4. Local(assemblies, assemblies', e, FALSE) /\ r.out \in Seq(Seq(Byte))
  BY <1>1, <1>2, <1>3, LocalNext
<1>5. Hands(e, r.out)
  BY <1>1, <1>3, <1>4, HandsOver
<1>6. \/ (\A j \in 1 .. Len(assemblies) : assemblies[j].id # e) /\ r = Result(assemblies, <<>>)
      \/ /\ i \in 1 .. Len(assemblies) /\ assemblies[i].id = e
         /\ assemblies[i] \in Conversation
         /\ Len(assemblies[i].got) < assemblies[i].expected
         /\ r = IF assemblies[i].sequence # k % SeqWrap THEN Result(Drop(assemblies, e), <<>>)
                ELSE IF Len(a.got) < a.expected THEN Result([assemblies EXCEPT ![i] = a], <<>>)
                ELSE Result(Drop(assemblies, e), <<a.got>>)
  BY <1>1, <1>2, FeedNext
<1>7. CASE (\A j \in 1 .. Len(assemblies) : assemblies[j].id # e) /\ r = Result(assemblies, <<>>)
  <2>1. Find(assemblies, e) = {}
    BY <1>7 DEF Find
  <2>2. Drop(assemblies, e) = assemblies
    BY <2>1 DEF Drop
  <2>3. r.asm = assemblies /\ r.out = <<>>
    BY <1>7 DEF Result
  <2> QED BY <1>3, <1>4, <1>5, <1>7, <2>2, <2>3 DEF Matches
<1>8. CASE /\ i \in 1 .. Len(assemblies) /\ assemblies[i].id = e
           /\ assemblies[i].sequence # k % SeqWrap /\ r = Result(Drop(assemblies, e), <<>>)
  <2>1. r.asm = Drop(assemblies, e) /\ r.out = <<>>
    BY <1>8 DEF Result
  <2>2. \A j \in 1 .. Len(assemblies) : ~ Matches(e, k, j)
    BY <1>1, <1>8 DEF Matches, Table
  <2> QED BY <1>3, <1>4, <1>5, <2>1, <2>2
<1>9. CASE /\ i \in 1 .. Len(assemblies) /\ assemblies[i].id = e
           /\ assemblies[i] \in Conversation
           /\ Len(assemblies[i].got) < assemblies[i].expected
           /\ assemblies[i].sequence = k % SeqWrap
           /\ r = IF Len(a.got) < a.expected THEN Result([assemblies EXCEPT ![i] = a], <<>>)
                  ELSE Result(Drop(assemblies, e), <<a.got>>)
  <2>1. /\ a \in Conversation /\ a.id = e /\ a.expected = assemblies[i].expected
        /\ a.sequence = (assemblies[i].sequence + 1) % SeqWrap
        /\ Len(a.got) <= a.expected
        /\ assemblies[i].got = Message(tx[e].n, Before(k)) /\ assemblies[i].expected = tx[e].len =>
             a.got = Message(tx[e].n, IF Before(k + 1) < tx[e].len THEN Before(k + 1)
                                      ELSE tx[e].len)
    <3> DEFINE c == assemblies[i]
    <3>1. c \in Conversation /\ Len(c.got) < c.expected /\ c.id = e
      BY <1>9
    <3>2. a = Extend(c, NextFrame(e, k))
      BY <1>2
    <3> HIDE DEF c
    <3> QED BY <1>1, <3>1, <3>2, Extended DEF c
  <2>2. Matches(e, k, i)
    BY <1>9 DEF Matches
  <2>3. CASE Len(a.got) < a.expected
    <3> DEFINE d == assemblies'
    <3>1. d = [assemblies EXCEPT ![i] = a] /\ r.out = <<>>
      BY <1>3, <1>9, <2>3 DEF Result
    <3> HIDE DEF d
    <3>2. /\ a.id = assemblies[i].id /\ i \in 1 .. Len(assemblies)
          /\ d \in Seq(Conversation) /\ Len(d) = Len(assemblies)
          /\ \A j \in 1 .. Len(assemblies) : d[j] = IF j = i THEN a ELSE assemblies[j]
      BY <1>1, <1>9, <2>1, <3>1, ExceptSeq DEF Table
    <3>3. /\ \A j \in 1 .. Len(d) : IF d[j].id = a.id THEN d[j] = a
                                    ELSE \E l \in 1 .. Len(assemblies) : assemblies[l] = d[j]
          /\ \A R : Held(assemblies, assemblies[i], R) => Held(d, a, R)
      BY <1>1, <2>1, <2>3, <3>2, Replaced
    <3>4. Extends(e, k, i, a)
      BY <1>5, <2>1, <2>3, <3>1, <3>3 DEF Extends, d
    <3> QED BY <1>4, <1>5, <2>1, <2>2, <3>2, <3>4
  <2>4. CASE ~ Len(a.got) < a.expected
    <3>1. assemblies' = Drop(assemblies, e) /\ r.out = <<a.got>>
      BY <1>3, <1>9, <2>4 DEF Result
    <3>2. a.got \in Seq(Byte)
      BY <2>1 DEF Conversation
    <3>3. Extends(e, k, i, a)
      BY <1>5, <2>1, <2>4, <3>1, <3>2 DEF Extends
    <3> QED BY <1>4, <1>5, <1>9, <2>1, <2>2, <3>3
  <2> QED BY <2>3, <2>4
<1> QED BY <1>6, <1>7, <1>8, <1>9

\* A single frame that arrives.
LEMMA DeliverSingle ==
    ASSUME IsoTpInv, NEW e \in Ecus, Deliver(e), tx[e].len <= SingleLimit
    PROVE  /\ IsoTpInv' /\ assemblies' = assemblies
           /\ Hands(e, <<Message(tx[e].n, tx[e].len)>>)
<1> DEFINE f == SingleFrame(e)
           m == Message(tx[e].n, tx[e].len)
<1>1. Table(assemblies) /\ SenderType /\ SenderInv /\ HistoryType
  BY DEF IsoTpInv
<1>2. FrameOf(e) = f
  BY DEF FrameOf, FrameAt
<1>3. Sending(e) /\ Account(f, TRUE) /\ Advance(e) /\ Receive(e, f)
  BY <1>2 DEF Deliver
<1>4. f.id = e /\ f.type = 0
  BY DEF SingleFrame
<1> HIDE DEF f
<1>5. Feed(assemblies, f) = Result(assemblies, <<m>>)
  BY <1>1, <1>3, FeedSingle DEF f
<1>6. <<m>> \in Seq(Seq(Byte)) /\ Len(<<m>>) = 1 /\ <<m>>[1] = m
  <2>1. m \in Seq(Byte)
    <3>1. tx[e].n \in Nat /\ tx[e].len \in Nat
      BY <1>1, TxType
    <3> QED BY <3>1, MessageBytes
  <2> HIDE DEF m
  <2> QED BY <2>1
<1> HIDE DEF m
<1>7. assemblies' = assemblies /\ Hands(e, <<m>>)
  <2>1. assemblies' = assemblies /\ output' = [output EXCEPT ![e] = output[e] \o <<m>>]
    BY <1>3, <1>5 DEF Receive, Result
  <2> QED BY <1>1, <1>6, <2>1, HandsOver
<1>8. tx'[e].k = 0
  BY <1>1, <1>3 DEF Advance, LastFrame, Resting, SenderType
<1>9. InStep(e)' /\ Kept(e)'
  BY <1>8 DEF InStep, Kept
<1>10. Local(assemblies, assemblies', e, FALSE)
  BY <1>1, <1>7, LocalDrop
<1>11. 1 \in 1 .. Len(<<m>>) /\ <<m>>[1] = Message(tx[e].n, tx[e].len)
  BY <1>6 DEF m
<1>12. faults' \in 0 .. MaxFaults /\ disturbed' \in [Ecus -> 0 .. 2]
  BY <1>1, FrameArrives
<1>13. \E i \in 1 .. Len(<<m>>) : <<m>>[i] = Message(tx[e].n, tx[e].len)
  BY <1>11
<1>14. Served(e, f, TRUE, <<m>>)
  <2> DEFINE x == <<m>>
  <2>1. /\ x \in Seq(Seq(Byte)) /\ Hands(e, x)
        /\ \E i \in 1 .. Len(x) : x[i] = Message(tx[e].n, tx[e].len)
    BY <1>6, <1>7, <1>13
  <2> HIDE DEF x
  <2>2. Served(e, f, TRUE, x)
    <3>1. ~ (f.type = 1 /\ TRUE)
      BY <1>4
    <3> QED BY <1>3, <1>4, <1>9, <1>10, <1>12, <2>1, <3>1 DEF Served
  <2> QED BY <2>2 DEF x
<1>15. IsoTpInv'
  BY <1>14, FrameStep
<1> QED BY <1>7, <1>15 DEF m

\* The conversation of e after its first frame.
LEMMA Opened ==
    ASSUME NEW e \in Ecus, tx'[e].n = tx[e].n, tx'[e].len = tx[e].len, tx'[e].k = 1
    PROVE  Progress(e)' = Opening(e)
<1>1. Before(1) = FirstBytes
  <2>1. 0 \in Nat
    OBVIOUS
  <2> QED BY <2>1, BeforeNext
<1>2. 1 % SeqWrap = 1
  <2>1. 0 \in Nat
    OBVIOUS
  <2> QED BY <2>1, NextSequence
<1>3. Progress(e)' = [id |-> e, got |-> Message(tx'[e].n, Before(tx'[e].k)),
                      expected |-> tx'[e].len, sequence |-> tx'[e].k % SeqWrap]
  BY DEF Progress, Message, Before
<1> QED BY <1>1, <1>2, <1>3 DEF Opening

\* A first frame that arrives.
LEMMA DeliverFirst ==
    ASSUME IsoTpInv, NEW e \in Ecus, Deliver(e), ~ tx[e].len <= SingleLimit, tx[e].k = 0
    PROVE  /\ IsoTpInv' /\ Hands(e, <<Start>>) /\ intact'[e] /\ tx'[e].k = 1
           /\ \A j \in 1 .. Len(assemblies') :
                 assemblies'[j].id = e => assemblies'[j] = Progress(e)'
           /\ Local(assemblies, assemblies', e, TRUE)
<1> DEFINE f == FirstFrame(e)
<1>1. Table(assemblies) /\ SenderType /\ SenderInv /\ HistoryType
  BY DEF IsoTpInv
<1>2. FrameOf(e) = f
  BY DEF FrameOf, FrameAt
<1>3. Sending(e) /\ Account(f, TRUE) /\ Advance(e) /\ Receive(e, f)
  BY <1>2 DEF Deliver
<1>4. f.id = e /\ f.type = 1
  BY DEF FirstFrame
<1>5. tx[e].len > SingleLimit
  BY <1>1, TxType DEF SingleLimit
<1>6. /\ assemblies' = Feed(assemblies, f).asm
      /\ output' = [output EXCEPT ![e] = output[e] \o Feed(assemblies, f).out]
  BY <1>3 DEF Receive
<1>7. /\ Local(assemblies, assemblies', e, TRUE)
      /\ \A j \in 1 .. Len(assemblies') : assemblies'[j].id = e => assemblies'[j] = Opening(e)
      /\ \A R : Held(assemblies', Opening(e), R)
      /\ Feed(assemblies, f).out = <<Start>>
  <2> DEFINE r == Feed(assemblies, f)
  <2>1. r = Feed(assemblies, FirstFrame(e))
    OBVIOUS
  <2>2. assemblies' = r.asm
    BY <1>6
  <2> HIDE DEF r
  <2>3. Local(assemblies, r.asm, e, TRUE) /\ Youngest(r.asm, e, Opening(e)) /\ r.out = <<Start>>
    BY <1>1, <1>5, <2>1, LocalFirst
  <2> QED BY <2>2, <2>3 DEF r, Youngest
<1> HIDE DEF f
<1>8. <<Start>> \in Seq(Seq(Byte)) /\ Hands(e, <<Start>>)
  <2>1. <<Start>> \in Seq(Seq(Byte))
    BY DEF Start
  <2> QED BY <1>1, <1>6, <1>7, <2>1, HandsOver
<1>9. ~ LastFrame(e)
  <2>1. 0 \in Nat
    OBVIOUS
  <2>2. Before(0 + 1) = Before(1) /\ Before(1) = FirstBytes
    BY <2>1, BeforeNext
  <2>3. FirstBytes < tx[e].len
    BY <1>1, <1>5, TxType DEF SingleLimit
  <2> QED BY <1>1, <2>2, <2>3, TxType DEF LastFrame
<1>10. tx'[e].n = tx[e].n /\ tx'[e].len = tx[e].len /\ tx'[e].k = 1
  BY <1>1, <1>3, <1>9 DEF Advance, SenderType
<1>11. Progress(e)' = Opening(e)
  BY <1>10, Opened
<1>12. intact'[e]
  BY <1>1, <1>3, <1>4, Accounted DEF Booked, Arrives
<1>13. InStep(e)' /\ Kept(e)'
  BY <1>7, <1>11 DEF InStep, Kept
<1>14. faults' \in 0 .. MaxFaults /\ disturbed' \in [Ecus -> 0 .. 2]
  BY <1>1, FrameArrives
<1>15. Served(e, f, TRUE, <<Start>>)
  BY <1>3, <1>4, <1>7, <1>8, <1>9, <1>13, <1>14 DEF Served
<1>16. IsoTpInv'
  BY <1>15, FrameStep
<1> QED BY <1>7, <1>8, <1>10, <1>11, <1>12, <1>16

\* The conversation of e after one more consecutive frame, unless that was
\* the last.
LEMMA Continued ==
    ASSUME IsoTpInv, NEW e \in Ecus, tx[e].k > 0, Advance(e), Sending(e), ~ LastFrame(e),
           NEW i \in 1 .. Len(assemblies), assemblies[i] = Progress(e),
           NEW a \in Conversation, Extends(e, tx[e].k, i, a)
    PROVE  a = Progress(e)' /\ Len(a.got) < a.expected
<1> DEFINE n == tx[e].n
           len == tx[e].len
           k == tx[e].k
<1>1. SenderType /\ SenderInv
  BY DEF IsoTpInv
<1>2. n \in Nat /\ len \in Nat /\ k \in Nat /\ k > 0
  BY <1>1, TxType
<1>3. Before(k + 1) < len /\ Before(k + 1) \in Nat
  <2>1. Before(k + 1) \in Nat
    BY <1>2, BeforeNext
  <2> QED BY <1>2, <2>1 DEF LastFrame
<1>4. tx'[e].n = n /\ tx'[e].len = len /\ tx'[e].k = k + 1
  BY <1>1 DEF Advance, SenderType
<1>5. /\ assemblies[i].got = Message(n, Before(k)) /\ assemblies[i].expected = len
      /\ assemblies[i].sequence = k % SeqWrap
  BY DEF Progress
<1> HIDE DEF n, len, k
<1>6. /\ a.id = e /\ a.expected = len /\ a.sequence = ((k % SeqWrap) + 1) % SeqWrap
      /\ a.got = Message(n, IF Before(k + 1) < len THEN Before(k + 1) ELSE len)
  BY <1>5 DEF Extends, n, len, k
<1>7. a.got = Message(n, Before(k + 1)) /\ a.sequence = (k + 1) % SeqWrap
  BY <1>2, <1>3, <1>6, NextSequence
<1>8. Progress(e)' = [id |-> e, got |-> Message(tx'[e].n, Before(tx'[e].k)),
                      expected |-> tx'[e].len, sequence |-> tx'[e].k % SeqWrap]
  BY DEF Progress, Message, Before
<1>9. a = [id |-> a.id, got |-> a.got, expected |-> a.expected, sequence |-> a.sequence]
  BY DEF Conversation
<1>10. a = Progress(e)'
  BY <1>4, <1>6, <1>7, <1>8, <1>9
<1>11. Len(a.got) = Before(k + 1)
  BY <1>2, <1>3, <1>7, MessageBytes
<1> QED BY <1>3, <1>6, <1>10, <1>11

\* And after the last.
LEMMA Completed ==
    ASSUME IsoTpInv, NEW e \in Ecus, tx[e].k > 0, Sending(e), LastFrame(e),
           NEW i \in 1 .. Len(assemblies), assemblies[i] = Progress(e),
           NEW a \in Conversation, Extends(e, tx[e].k, i, a)
    PROVE  a.got = Message(tx[e].n, tx[e].len) /\ ~ Len(a.got) < a.expected
<1> DEFINE n == tx[e].n
           len == tx[e].len
           k == tx[e].k
<1>1. SenderType /\ SenderInv
  BY DEF IsoTpInv
<1>2. n \in Nat /\ len \in Nat /\ k \in Nat /\ k > 0
  BY <1>1, TxType
<1>3. ~ Before(k + 1) < len
  <2>1. Before(k + 1) \in Nat
    BY <1>2, BeforeNext
  <2>2. ~ len <= SingleLimit
    BY <1>1, <1>2, TxType DEF SenderInv, SingleLimit
  <2> QED BY <1>2, <2>1, <2>2 DEF LastFrame
<1>4. assemblies[i].got = Message(n, Before(k)) /\ assemblies[i].expected = len
  BY DEF Progress
<1> HIDE DEF n, len, k
<1>5. /\ a.expected = len
      /\ a.got = Message(n, IF Before(k + 1) < len THEN Before(k + 1) ELSE len)
  BY <1>4 DEF Extends, n, len, k
<1>6. a.got = Message(n, len)
  BY <1>3, <1>5
<1>7. Len(a.got) = len
  BY <1>2, <1>6, MessageBytes
<1> QED BY <1>2, <1>5, <1>6, <1>7 DEF n, len

\* A consecutive frame that arrives.
LEMMA DeliverNext ==
    ASSUME IsoTpInv, NEW e \in Ecus, Deliver(e), ~ tx[e].len <= SingleLimit, tx[e].k # 0
    PROVE  IsoTpInv' /\ Receive(e, NextFrame(e, tx[e].k))
<1> DEFINE k == tx[e].k
           f == NextFrame(e, k)
<1>1. Table(assemblies) /\ SenderType /\ SenderInv /\ HistoryType /\ InStep(e) /\ Kept(e)
  BY DEF IsoTpInv
<1>2. FrameOf(e) = f
  BY DEF FrameOf, FrameAt
<1>3. Sending(e) /\ Account(f, TRUE) /\ Advance(e) /\ Receive(e, f)
  BY <1>2 DEF Deliver
<1>4. f.id = e /\ f.type = 2
  BY DEF NextFrame
<1>5. /\ k \in Nat \ {0} /\ k > 0 /\ tx[e].len > SingleLimit /\ Before(k) < tx[e].len
  BY <1>1, TxType DEF SenderInv
<1> HIDE DEF f
<1>6. /\ Local(assemblies, assemblies', e, FALSE)
      /\ \/ /\ \A i \in 1 .. Len(assemblies) : ~ Matches(e, k, i)
            /\ assemblies' = Drop(assemblies, e) /\ Hands(e, <<>>)
         \/ \E i \in 1 .. Len(assemblies) :
               Matches(e, k, i) /\ \E a \in Conversation : Extends(e, k, i, a)
  BY <1>3, <1>5, ReceiveNext DEF f
<1>7. /\ intact'[e] = intact[e] /\ rivals'[e] = rivals[e]
      /\ Arrives(e, f, TRUE) <=> intact[e]
  <2>1. Booked(e, f, TRUE)
    BY <1>1, <1>3, <1>4, Accounted
  <2>2. Arrives(e, f, TRUE) = intact[e]
    BY <1>1, <1>4 DEF Arrives, SenderType
  <2> QED BY <1>4, <2>1, <2>2 DEF Booked
<1>8. faults' \in 0 .. MaxFaults /\ disturbed' \in [Ecus -> 0 .. 2] /\ <<>> \in Seq(Seq(Byte))
  BY <1>1, FrameArrives
<1>9. ~ (f.type = 1 /\ TRUE)
  BY <1>4
<1>10. intact[e] /\ Cardinality(rivals[e]) < MaxConversations =>
          \E i \in 1 .. Len(assemblies) : Matches(e, k, i) /\ assemblies[i] = Progress(e)
  <2>1. Progress(e).id = e /\ Progress(e).sequence = k % SeqWrap
    BY DEF Progress
  <2> QED BY <1>1, <1>5, <2>1 DEF Kept, Held, Matches
<1>11. CASE /\ \A i \in 1 .. Len(assemblies) : ~ Matches(e, k, i)
            /\ assemblies' = Drop(assemblies, e) /\ Hands(e, <<>>)
  <2>1. \A j \in 1 .. Len(assemblies') : assemblies'[j].id # e
    BY <1>1, <1>11, LocalDrop
  <2>2. ~ (intact[e] /\ Cardinality(rivals[e]) < MaxConversations)
    BY <1>10, <1>11
  <2>3. InStep(e)' /\ Kept(e)'
    BY <1>7, <2>1, <2>2 DEF InStep, Kept
  <2>4. Served(e, f, TRUE, <<>>)
    BY <1>3, <1>4, <1>6, <1>7, <1>8, <1>9, <1>11, <2>2, <2>3 DEF Served
  <2> QED BY <1>3, <2>4, FrameStep DEF f
<1>12. ASSUME NEW i \in 1 .. Len(assemblies), Matches(e, k, i),
              NEW a \in Conversation, Extends(e, k, i, a)
       PROVE  IsoTpInv'
  <2>1. intact[e] => assemblies[i] = Progress(e)
    BY <1>1, <1>5, <1>12 DEF InStep, Matches
  <2>2. CASE Len(a.got) < a.expected
    <3>1. /\ \A j \in 1 .. Len(assemblies') : assemblies'[j].id = e => assemblies'[j] = a
          /\ \A R : Held(assemblies, assemblies[i], R) => Held(assemblies', a, R)
          /\ Hands(e, <<>>)
      BY <1>12, <2>2 DEF Extends
    <3>2. intact[e] => ~ LastFrame(e)
      BY <1>3, <1>5, <1>12, <2>1, <2>2, Completed
    <3>3. intact[e] => a = Progress(e)'
      BY <1>3, <1>5, <1>12, <2>1, <3>2, Continued
    <3>4. InStep(e)'
      BY <1>7, <3>1, <3>3 DEF InStep
    <3>5. Kept(e)'
      <4> SUFFICES ASSUME intact'[e], Cardinality(rivals'[e]) < MaxConversations
                   PROVE  Held(assemblies', Progress(e)', rivals'[e])
        BY DEF Kept
      <4>1. Held(assemblies, Progress(e), rivals[e])
        BY <1>1, <1>5, <1>7 DEF Kept
      <4> QED BY <1>7, <2>1, <3>1, <3>3, <4>1
    <3>6. Served(e, f, TRUE, <<>>)
      BY <1>3, <1>4, <1>6, <1>7, <1>8, <1>9, <3>1, <3>2, <3>4, <3>5 DEF Served
    <3> QED BY <3>6, FrameStep
  <2>3. CASE ~ Len(a.got) < a.expected
    <3> DEFINE x == <<a.got>>
    <3>1. assemblies' = Drop(assemblies, e) /\ Hands(e, x) /\ a.got \in Seq(Byte)
      BY <1>12, <2>3 DEF Extends
    <3>2. x \in Seq(Seq(Byte)) /\ 1 \in 1 .. Len(x) /\ x[1] = a.got
      BY <3>1
    <3> HIDE DEF x
    <3>3. intact[e] => LastFrame(e)
      BY <1>3, <1>5, <1>12, <2>1, <2>3, Continued
    <3>4. intact[e] => a.got = Message(tx[e].n, tx[e].len)
      BY <1>3, <1>5, <1>12, <2>1, <3>3, Completed
    <3>5. intact[e] => tx'[e].k = 0
      BY <1>1, <1>3, <3>3 DEF Advance, Resting, SenderType
    <3>6. InStep(e)' /\ Kept(e)'
      BY <1>7, <3>5 DEF InStep, Kept
    <3>7. intact[e] => \E j \in 1 .. Len(x) : x[j] = Message(tx[e].n, tx[e].len)
      BY <3>2, <3>4
    <3>8. Served(e, f, TRUE, x)
      BY <1>3, <1>4, <1>6, <1>7, <1>8, <1>9, <3>1, <3>2, <3>6, <3>7 DEF Served
    <3> QED BY <3>8, FrameStep
  <2> QED BY <2>2, <2>3
<1> QED BY <1>3, <1>6, <1>11, <1>12 DEF f

\* A frame that arrives twice.
LEMMA RepeatStep ==
    ASSUME IsoTpInv, NEW e \in Ecus, Repeat(e)
    PROVE  /\ IsoTpInv'
           /\ IF tx[e].k = 1
              THEN /\ Hands(e, <<Start>>) /\ intact'[e]
                   /\ Youngest(assemblies', e, Progress(e)')
              ELSE Receive(e, NextFrame(e, tx[e].k - 1))
           /\ \E b \in BOOLEAN : Local(assemblies, assemblies', e, b)
<1> DEFINE k == tx[e].k
<1>1. /\ Table(assemblies) /\ SenderType /\ SenderInv /\ HistoryType /\ NoNeedlessLoss
      /\ InStep(e) /\ Kept(e)
  BY DEF IsoTpInv
<1>2. /\ Sending(e) /\ k > 0 /\ Fault(e) /\ Receive(e, FrameAt(e, k - 1))
      /\ intact' = [intact EXCEPT ![e] = (k = 1)]
      /\ rivals' = IF k = 1 THEN [r \in Ecus |-> rivals[r] \cup ({e} \ {r})] ELSE rivals
      /\ tx' = tx /\ begun' = begun /\ whole' = whole /\ owed' = owed
  BY DEF Repeat
<1>3. /\ k \in Nat /\ tx[e].len > SingleLimit /\ ~ tx[e].len <= SingleLimit
      /\ Before(k) < tx[e].len
  BY <1>1, <1>2, TxType DEF SenderInv, SingleLimit
<1>4. faults' \in 0 .. MaxFaults /\ disturbed' \in [Ecus -> 0 .. 2]
  BY <1>1, <1>2, FaultType
<1>5. intact' \in [Ecus -> BOOLEAN]
  BY <1>1, <1>2 DEF SenderType
<1>6. \A r \in Ecus : r # e => intact'[r] = intact[r] /\ tx'[r] = tx[r]
  BY <1>1, <1>2 DEF SenderType
<1>7. SenderType' /\ SenderInv'
  BY <1>1, <1>2, <1>4, <1>5 DEF SenderType, SenderInv, Before, SingleLimit
<1>8. \A x : Pays(e, x)
  BY <1>2 DEF Pays
<1>9. CASE k = 1
  <2> DEFINE r == Feed(assemblies, FirstFrame(e))
  <2>1. FrameAt(e, k - 1) = FirstFrame(e)
    BY <1>3, <1>9 DEF FrameAt
  <2>2. assemblies' = r.asm /\ output' = [output EXCEPT ![e] = output[e] \o r.out]
    BY <1>2, <2>1 DEF Receive
  <2>3. r = Feed(assemblies, FirstFrame(e))
    OBVIOUS
  <2> HIDE DEF r
  <2>4. Local(assemblies, r.asm, e, TRUE) /\ Youngest(r.asm, e, Opening(e)) /\ r.out = <<Start>>
    BY <1>1, <1>3, <2>3, LocalFirst
  <2>5. <<Start>> \in Seq(Seq(Byte)) /\ Hands(e, <<Start>>)
    <3>1. <<Start>> \in Seq(Seq(Byte))
      BY DEF Start
    <3> QED BY <1>1, <2>2, <2>4, <3>1, HandsOver
  <2>6. Progress(e)' = Opening(e)
    <3>1. tx'[e].n = tx[e].n /\ tx'[e].len = tx[e].len /\ tx'[e].k = 1
      BY <1>2, <1>9
    <3> QED BY <3>1, Opened
  <2>7. Youngest(assemblies', e, Progress(e)') /\ Local(assemblies, assemblies', e, TRUE)
    BY <2>2, <2>4, <2>6
  <2>8. InStep(e)' /\ Kept(e)'
    BY <2>7 DEF InStep, Kept, Youngest
  <2>9. /\ rivals' \in [Ecus -> SUBSET Ecus]
        /\ \A q \in Ecus : q # e => rivals'[q] = IF TRUE THEN rivals[q] \cup {e} ELSE rivals[q]
        /\ \A q \in Ecus : rivals'[q] = rivals[q] \/ rivals'[q] = rivals[q] \cup {e}
    <3>1. rivals' = [q \in Ecus |-> rivals[q] \cup ({e} \ {q})]
      BY <1>2, <1>9
    <3>2. \A q \in Ecus : rivals[q] \in SUBSET Ecus
      BY <1>1 DEF HistoryType
    <3> QED BY <3>1, <3>2
  <2>10. \A q \in Ecus : IsFiniteSet(rivals'[q])
    <3>1. \A q \in Ecus : IsFiniteSet(rivals[q]) /\ IsFiniteSet(rivals[q] \cup {e})
      BY <1>1, FS_AddElement DEF HistoryType
    <3> QED BY <2>9, <3>1
  <2>11. HistoryType'
    BY <1>1, <1>2, <2>5, <2>9, <2>10 DEF HistoryType, Hands
  <2>12. NoNeedlessLoss'
    BY <1>1, <1>8, <2>5, LossStep
  <2>13. \A q \in Ecus : q # e => InStep(q)' /\ Kept(q)'
    BY <1>6, <2>7, <2>9, OthersStay
  <2>14. Table(assemblies)'
    BY <2>7 DEF Local, Table, Conversation, Byte, SegmentedMinimum
  <2>15. IsoTpInv'
    BY <1>7, <2>8, <2>11, <2>12, <2>13, <2>14 DEF IsoTpInv
  <2>16. intact'[e]
    BY <1>1, <1>2, <1>9 DEF SenderType
  <2> QED BY <1>9, <2>5, <2>7, <2>15, <2>16
<1>10. CASE k # 1
  <2>1. k - 1 \in Nat \ {0} /\ (k - 1) + 1 = k
    BY <1>2, <1>3, <1>10
  <2>2. FrameAt(e, k - 1) = NextFrame(e, k - 1)
    BY <1>3, <2>1 DEF FrameAt
  <2>3. Before(k - 1) < tx[e].len
    <3>1. Before((k - 1) + 1) = Before(k - 1) + NextBytes /\ Before(k - 1) \in Nat
      BY <2>1, BeforeNext
    <3>2. NextBytes \in Nat /\ tx[e].len \in Nat
      BY <1>1, TxType
    <3> QED BY <1>3, <2>1, <3>1, <3>2
  <2>4. Receive(e, NextFrame(e, k - 1))
    BY <1>2, <2>2
  <2> DEFINE h == k - 1
  <2>5. h \in Nat \ {0} /\ Before(h) < tx[e].len /\ Receive(e, NextFrame(e, h))
    BY <2>1, <2>3, <2>4
  <2> HIDE DEF h
  <2>6. Local(assemblies, assemblies', e, FALSE) /\ \E x \in Seq(Seq(Byte)) : Hands(e, x)
    BY <1>3, <2>5, ReceiveNext
  <2>7. PICK x \in Seq(Seq(Byte)) : Hands(e, x)
    BY <2>6
  <2>8. ~ intact'[e] /\ rivals' = rivals
    BY <1>1, <1>2, <1>10 DEF SenderType
  <2>9. InStep(e)' /\ Kept(e)'
    BY <2>8 DEF InStep, Kept
  <2>10. HistoryType'
    BY <1>1, <1>2, <2>7, <2>8 DEF HistoryType, Hands
  <2>11. NoNeedlessLoss'
    BY <1>1, <1>8, <2>7, LossStep
  <2>12. \A q \in Ecus : q # e => InStep(q)' /\ Kept(q)'
    <3>1. \A q \in Ecus : q # e =>
             /\ tx'[q] = tx[q] /\ intact'[q] = intact[q]
             /\ rivals'[q] = IF FALSE THEN rivals[q] \cup {e} ELSE rivals[q]
      BY <1>6, <2>8
    <3> QED BY <2>6, <3>1, OthersStay
  <2>13. Table(assemblies)'
    BY <2>6 DEF Local, Table, Conversation, Byte, SegmentedMinimum
  <2>14. IsoTpInv'
    BY <1>7, <2>9, <2>10, <2>11, <2>12, <2>13 DEF IsoTpInv
  <2> QED BY <1>10, <2>4, <2>6, <2>14
<1> QED BY <1>9, <1>10

\* Steps of e that bring no frame.
LEMMA QuietStep ==
    ASSUME IsoTpInv, NEW e \in Ecus, Begin(e) \/ GiveUp(e)
    PROVE  /\ IsoTpInv' /\ tx'[e].k = 0 /\ \A r \in Ecus : r # e => tx'[r] = tx[r]
           /\ \A r \in Ecus : disturbed'[r] >= disturbed[r] /\ (r # e => disturbed'[r] = disturbed[r])
<1>1. /\ Table(assemblies) /\ SenderType /\ SenderInv /\ HistoryType /\ NoNeedlessLoss
  BY DEF IsoTpInv
<1>2. /\ assemblies' = assemblies /\ output' = output /\ intact' = intact /\ rivals' = rivals
      /\ whole' = whole /\ owed' = owed
  BY DEF Begin, GiveUp, history
<1>3. /\ tx[e].n \in Nat /\ tx[e].n <= begun /\ begun \in 0 .. MaxMessages /\ MaxMessages \in Nat
  BY <1>1, TxType, IsoTpAssumption DEF SenderInv, SenderType
<1>4. /\ faults' \in 0 .. MaxFaults /\ disturbed' \in [Ecus -> 0 .. 2]
      /\ \A r \in Ecus : disturbed'[r] >= disturbed[r] /\ (r # e => disturbed'[r] = disturbed[r])
  <2>1. CASE Begin(e)
    BY <1>1, <2>1, IsoTpAssumption DEF Begin, SenderType
  <2>2. CASE GiveUp(e)
    <3>1. Fault(e)
      BY <2>2 DEF GiveUp
    <3>2. \A r \in Ecus : disturbed[r] \in Nat
      BY <1>1 DEF SenderType
    <3> QED BY <1>1, <3>1, <3>2, FaultType
  <2> QED BY <2>1, <2>2
<1>5. \E t \in [n : Nat, len : Lengths \cup {0}, k : Nat] :
         /\ tx' = [tx EXCEPT ![e] = t] /\ t.k = 0 /\ t.n <= begun'
         /\ begun' \in 0 .. MaxMessages /\ begun <= begun'
  <2>1. CASE Begin(e)
    <3>1. PICK len \in Lengths : tx' = [tx EXCEPT ![e] = [n |-> tx[e].n + 1, len |-> len, k |-> 0]]
      BY <2>1 DEF Begin
    <3>2. begun' = begun + 1 /\ begun < MaxMessages
      BY <2>1 DEF Begin
    <3> DEFINE t == [n |-> tx[e].n + 1, len |-> len, k |-> 0]
    <3>3. t \in [n : Nat, len : Lengths \cup {0}, k : Nat] /\ t.k = 0 /\ t.n = tx[e].n + 1
      BY <1>3
    <3>4. tx' = [tx EXCEPT ![e] = t]
      BY <3>1
    <3> HIDE DEF t
    <3>5. t.n <= begun' /\ begun' \in 0 .. MaxMessages /\ begun <= begun'
      BY <1>3, <3>2, <3>3
    <3> QED BY <3>3, <3>4, <3>5
  <2>2. CASE GiveUp(e)
    <3> DEFINE t == Resting(e)
    <3>1. tx' = [tx EXCEPT ![e] = t] /\ begun' = begun
      BY <2>2 DEF GiveUp
    <3>2. t \in [n : Nat, len : Lengths \cup {0}, k : Nat] /\ t.k = 0 /\ t.n = tx[e].n
      BY <1>3 DEF Resting
    <3> HIDE DEF t
    <3>3. t.n <= begun' /\ begun' \in 0 .. MaxMessages /\ begun <= begun'
      BY <1>3, <3>1, <3>2
    <3> QED BY <3>1, <3>2, <3>3
  <2> QED BY <2>1, <2>2
<1>6. PICK t \in [n : Nat, len : Lengths \cup {0}, k : Nat] :
         /\ tx' = [tx EXCEPT ![e] = t] /\ t.k = 0 /\ t.n <= begun'
         /\ begun' \in 0 .. MaxMessages /\ begun <= begun'
  BY <1>5
<1>7. /\ tx' \in [Ecus -> [n : Nat, len : Lengths \cup {0}, k : Nat]]
      /\ tx'[e] = t /\ \A r \in Ecus : r # e => tx'[r] = tx[r]
  BY <1>1, <1>6 DEF SenderType
<1>8. SenderType'
  BY <1>1, <1>2, <1>4, <1>6, <1>7 DEF SenderType
<1>9. SenderInv'
  <2> SUFFICES ASSUME NEW r \in Ecus
               PROVE  /\ tx'[r].n <= begun'
                      /\ tx'[r].k > 0 => tx'[r].len > SingleLimit /\ Before(tx'[r].k) < tx'[r].len
    BY DEF SenderInv, Before, SingleLimit
  <2>1. CASE r = e
    BY <1>6, <1>7, <2>1
  <2>2. CASE r # e
    <3>1. tx[r].n \in Nat
      BY <1>1, TxType
    <3>2. tx[r].n <= begun'
      BY <1>1, <1>3, <1>6, <3>1 DEF SenderInv
    <3> QED BY <1>1, <1>7, <2>2, <3>2 DEF SenderInv
  <2> QED BY <2>1, <2>2
<1>10. HistoryType' /\ NoNeedlessLoss'
  BY <1>1, <1>2 DEF HistoryType, NoNeedlessLoss, Message
<1>11. InStep(e)' /\ Kept(e)'
  BY <1>6, <1>7 DEF InStep, Kept
<1>12. \A r \in Ecus : r # e => InStep(r)' /\ Kept(r)'
  <2>1. Local(assemblies, assemblies', e, FALSE)
    BY <1>1, <1>2, LocalDrop
  <2>2. \A r \in Ecus : r # e =>
           /\ tx'[r] = tx[r] /\ intact'[r] = intact[r]
           /\ rivals'[r] = IF FALSE THEN rivals[r] \cup {e} ELSE rivals[r]
    BY <1>2, <1>7
  <2> QED BY <2>1, <2>2, OthersStay
<1>13. Table(assemblies)'
  BY <1>1, <1>2 DEF Table
<1>14. IsoTpInv'
  BY <1>8, <1>9, <1>10, <1>11, <1>12, <1>13 DEF IsoTpInv
<1> QED BY <1>4, <1>6, <1>7, <1>14

\* A frame of another type.
LEMMA OtherStep ==
    ASSUME IsoTpInv, NEW e \in Ecus, OtherFrame(e)
    PROVE  UNCHANGED vars
<1> DEFINE f == [id |-> e, type |-> 3, data |-> <<Pad>>]
           r == Feed(assemblies, f)
<1>1. HistoryType
  BY DEF IsoTpInv
<1>2. f.type = 3
  OBVIOUS
<1>3. assemblies' = r.asm /\ output' = [output EXCEPT ![e] = output[e] \o r.out]
  BY DEF OtherFrame, Receive
<1> HIDE DEF f
<1>4. r = Result(assemblies, <<>>)
  BY <1>2 DEF Feed
<1> HIDE DEF r
<1>5. r.asm = assemblies /\ r.out = <<>>
  BY <1>4 DEF Result
<1>6. output' = output
  BY <1>1, <1>3, <1>5, HandsOver
<1> QED BY <1>3, <1>5, <1>6 DEF OtherFrame, vars, ecuVars, history

\* CLEAR_RX_BUFFER.
LEMMA ResetStep ==
    ASSUME IsoTpInv, Reset
    PROVE  IsoTpInv'
<1>1. /\ SenderType /\ SenderInv /\ HistoryType /\ NoNeedlessLoss
  BY DEF IsoTpInv
<1>2. /\ assemblies' = <<>> /\ intact' = [r \in Ecus |-> FALSE]
      /\ output' = output /\ tx' = tx /\ begun' = begun
      /\ faults' = faults /\ disturbed' = disturbed
      /\ rivals' = rivals /\ whole' = whole /\ owed' = owed
  BY DEF Reset, ecuVars
<1>3. SenderType' /\ SenderInv'
  BY <1>1, <1>2 DEF SenderType, SenderInv, Before, SingleLimit
<1>4. HistoryType' /\ NoNeedlessLoss'
  BY <1>1, <1>2 DEF HistoryType, NoNeedlessLoss, Message
<1>5. \A r \in Ecus : InStep(r)' /\ Kept(r)'
  BY <1>2 DEF InStep, Kept
<1>6. Table(assemblies)'
  BY <1>2, IsoTpAssumption DEF Table
<1> QED BY <1>3, <1>4, <1>5, <1>6 DEF IsoTpInv

LEMMA Unmoved ==
    ASSUME IsoTpInv, UNCHANGED vars
    PROVE  IsoTpInv'
<1>1. /\ Table(assemblies) /\ SenderType /\ SenderInv /\ HistoryType /\ NoNeedlessLoss
  BY DEF IsoTpInv
<1>2. /\ assemblies' = assemblies /\ intact' = intact
      /\ output' = output /\ tx' = tx /\ begun' = begun
      /\ faults' = faults /\ disturbed' = disturbed
      /\ rivals' = rivals /\ whole' = whole /\ owed' = owed
  BY DEF vars
<1>3. SenderType' /\ SenderInv'
  BY <1>1, <1>2 DEF SenderType, SenderInv, Before, SingleLimit
<1>4. HistoryType' /\ NoNeedlessLoss'
  BY <1>1, <1>2 DEF HistoryType, NoNeedlessLoss, Message
<1>5. \A r \in Ecus : InStep(r)' /\ Kept(r)'
  <2> SUFFICES ASSUME NEW r \in Ecus PROVE InStep(r)' /\ Kept(r)'
    OBVIOUS
  <2>1. Progress(r)' = Progress(r)
    BY <1>2 DEF Progress, Message, Before
  <2>2. InStep(r) /\ Kept(r)
    BY DEF IsoTpInv
  <2> QED BY <1>2, <2>1, <2>2 DEF InStep, Kept, Held
<1>6. Table(assemblies)'
  BY <1>1, <1>2 DEF Table
<1> QED BY <1>3, <1>4, <1>5, <1>6 DEF IsoTpInv

LEMMA IsoTpInit ==
    ASSUME Init
    PROVE  IsoTpInv
<1>1. /\ assemblies = <<>> /\ output = [r \in Ecus |-> <<>>] /\ tx = [r \in Ecus |-> Idle]
      /\ begun = 0 /\ faults = 0 /\ disturbed = [r \in Ecus |-> 0] /\ intact = [r \in Ecus |-> FALSE]
      /\ rivals = [r \in Ecus |-> {}] /\ whole = [r \in Ecus |-> {}] /\ owed = [r \in Ecus |-> {}]
  BY DEF Init
<1>2. \A r \in Ecus : tx[r].n = 0 /\ tx[r].k = 0
  BY <1>1 DEF Idle
<1>3. Table(assemblies)
  BY <1>1, IsoTpAssumption DEF Table
<1>4. SenderType
  BY <1>1, IsoTpAssumption DEF SenderType, Idle
<1>5. SenderInv
  BY <1>1, <1>2 DEF SenderInv
<1>6. HistoryType
  BY <1>1, FS_EmptySet DEF HistoryType
<1>7. \A r \in Ecus : InStep(r) /\ Kept(r)
  BY <1>2 DEF InStep, Kept
<1>8. NoNeedlessLoss
  BY <1>1 DEF NoNeedlessLoss
<1> QED BY <1>3, <1>4, <1>5, <1>6, <1>7, <1>8 DEF IsoTpInv

LEMMA IsoTpStep ==
    ASSUME IsoTpInv, [Next]_vars
    PROVE  IsoTpInv'
<1>1. ASSUME NEW e \in Ecus, Begin(e) \/ GiveUp(e) PROVE IsoTpInv'
  BY <1>1, QuietStep
<1>2. ASSUME NEW e \in Ecus, Deliver(e) PROVE IsoTpInv'
  <2>1. SenderType
    BY DEF IsoTpInv
  <2>2. tx[e].k \in Nat
    BY <2>1, TxType
  <2>3. CASE tx[e].len <= SingleLimit
    BY <1>2, <2>3, DeliverSingle
  <2>4. CASE ~ tx[e].len <= SingleLimit /\ tx[e].k = 0
    BY <1>2, <2>4, DeliverFirst
  <2>5. CASE ~ tx[e].len <= SingleLimit /\ tx[e].k > 0
    BY <1>2, <2>5, DeliverNext
  <2> QED BY <2>2, <2>3, <2>4, <2>5
<1>3. ASSUME NEW e \in Ecus, Lose(e) PROVE IsoTpInv'
  BY <1>3, LoseStep
<1>4. ASSUME NEW e \in Ecus, Truncate(e) PROVE IsoTpInv'
  BY <1>4, TruncateStep
<1>5. ASSUME NEW e \in Ecus, Repeat(e) PROVE IsoTpInv'
  BY <1>5, RepeatStep
<1>6. ASSUME NEW e \in Ecus, OtherFrame(e) PROVE IsoTpInv'
  BY <1>6, OtherStep, Unmoved
<1>7. CASE Reset
  BY <1>7, ResetStep
<1>8. CASE UNCHANGED vars
  BY <1>8, Unmoved
<1> QED BY <1>1, <1>2, <1>3, <1>4, <1>5, <1>6, <1>7, <1>8 DEF Next

LEMMA IsoTpInvariant == Spec => []IsoTpInv
BY IsoTpInit, IsoTpStep, PTL DEF Spec

\* assemblies_ holds at most one conversation per identifier and never more
\* than max_conversations; each is short of the length it announced, so that
\* the bytes of a frame always fit, and its sequence number stays a nibble
\* (isotp.cpp:26 to 104).
THEOREM IsoTpTypeCorrect == Spec => []TypeOK
<1>1. IsoTpInv => TypeOK
  <2> SUFFICES ASSUME IsoTpInv PROVE TypeOK
    OBVIOUS
  <2>1. Table(assemblies) /\ SenderType /\ SenderInv
    BY DEF IsoTpInv
  <2>2. \A i \in 1 .. Len(assemblies) :
           /\ assemblies[i].id \in Ecus
           /\ assemblies[i].sequence \in 0 .. SeqWrap - 1
           /\ assemblies[i].expected \in SegmentedMinimum .. MaxMessage
    <3> SUFFICES ASSUME NEW i \in 1 .. Len(assemblies)
                 PROVE  /\ assemblies[i].id \in Ecus
                        /\ assemblies[i].sequence \in 0 .. SeqWrap - 1
                        /\ assemblies[i].expected \in SegmentedMinimum .. MaxMessage
      OBVIOUS
    <3>1. assemblies[i] \in Conversation
      BY <2>1, ElementOfSeq DEF Table
    <3> QED BY <3>1 DEF Conversation
  <2>3. tx \in [Ecus -> [n : 0 .. MaxMessages, len : Lengths \cup {0}, k : Nat]]
    <3>1. \A r \in Ecus : tx[r] \in [n : Nat, len : Lengths \cup {0}, k : Nat]
      BY <2>1 DEF SenderType
    <3>2. \A r \in Ecus : tx[r].n \in 0 .. MaxMessages
      BY <2>1, <3>1, IsoTpAssumption DEF SenderType, SenderInv
    <3>3. \A r \in Ecus : tx[r] \in [n : 0 .. MaxMessages, len : Lengths \cup {0}, k : Nat]
      BY <3>1, <3>2
    <3> QED BY <2>1, <3>3 DEF SenderType
  <2> QED BY <2>1, <2>2, <2>3 DEF TypeOK, Table, SenderType
<1> QED BY <1>1, IsoTpInvariant, PTL

\* A message of which every frame arrived reaches the application, whatever
\* the other ECUs send, give up or lose meanwhile, unless max_conversations
\* of them began to answer after it or CLEAR_RX_BUFFER came: to evict the
\* oldest conversation only from a full table costs no one a message that
\* fewer rivals could not cost (isotp.cpp:78).
THEOREM IsoTpNoNeedlessLoss == Spec => []NoNeedlessLoss
BY IsoTpInvariant, PTL DEF IsoTpInv
----------------------------------------------------------------------------
\* A step of e leaves the other ECUs alone.
Alone(e) ==
    /\ \E b \in BOOLEAN : Local(assemblies, assemblies', e, b)
    /\ \A r \in Ecus : r # e =>
          /\ tx'[r] = tx[r] /\ intact'[r] = intact[r] /\ disturbed'[r] = disturbed[r]
          /\ whole'[r] = whole[r] /\ output'[r] = output[r]

LEMMA OthersSpliceless ==
    ASSUME SpliceInv, IsoTpInv', NEW e \in Ecus, Alone(e), Spliceless(e)'
    PROVE  SpliceInv'
<1> SUFFICES ASSUME NEW r \in Ecus, r # e PROVE Spliceless(r)'
  BY DEF SpliceInv
<1>1. /\ tx'[r] = tx[r] /\ intact'[r] = intact[r] /\ disturbed'[r] = disturbed[r]
      /\ whole'[r] = whole[r] /\ output'[r] = output[r]
  BY DEF Alone
<1>2. \A j \in 1 .. Len(assemblies') : assemblies'[j].id # e =>
         \E l \in 1 .. Len(assemblies) : assemblies[l] = assemblies'[j]
  BY DEF Alone, Local
<1>3. Spliceless(r)
  BY DEF SpliceInv
<1>4. Progress(r)' = Progress(r)
  BY <1>1 DEF Progress, Message, Before
<1>5. Current(r) => Current(r)'
  BY <1>1, <1>2, <1>4 DEF Current
<1>6. Numbered(r)'
  BY <1>1, <1>3 DEF Numbered, Sending, Spliceless
<1>7. Clean(r) => Clean(r)'
  BY <1>1 DEF Clean
<1> QED BY <1>1, <1>3, <1>5, <1>6, <1>7 DEF Spliceless

\* The output of e stays clean when it grows by an indication, or by a
\* message that arrived whole and is newer than those before it.
Fresh(e, x) ==
    \/ x = <<>> \/ x = <<Start>>
    \/ \E w \in whole'[e] :
          x = <<Message(w[1], w[2])>> /\ \A v \in whole[e] : v[1] < w[1]

LEMMA CleanStep ==
    ASSUME HistoryType, HistoryType', NEW e \in Ecus, Clean(e), whole[e] \subseteq whole'[e],
           NEW x, Hands(e, x), Fresh(e, x)
    PROVE  Clean(e)'
<1> DEFINE o == output[e]
           p == output'[e]
<1>1. /\ o \in Seq(Seq(Byte)) /\ p \in Seq(Seq(Byte)) /\ p = o \o x
      /\ \A w \in whole'[e] : w[1] \in Nat /\ w[2] \in Lengths
  <2>1. o \in Seq(Seq(Byte)) /\ p \in Seq(Seq(Byte)) /\ p = o \o x
    BY DEF HistoryType, Hands
  <2>2. whole'[e] \in SUBSET (Nat \X Lengths)
    BY DEF HistoryType
  <2>3. \A w \in whole'[e] : w[1] \in Nat /\ w[2] \in Lengths
    BY <2>2
  <2> QED BY <2>1, <2>3
<1>2. \A w \in whole'[e] : w[2] \in Nat /\ w[2] >= 1
  <2>1. \A len \in Lengths : len \in Nat /\ len >= 1
    BY IsoTpAssumption
  <2> QED BY <1>1, <2>1
<1>3. \A w \in whole'[e] : Message(w[1], w[2])[1][1] = w[1] /\ Message(w[1], w[2]) \in Seq(Byte)
  <2> TAKE w \in whole'[e]
  <2>1. w[1] \in Nat /\ w[2] \in Nat /\ 1 \in 1 .. w[2]
    BY <1>1, <1>2
  <2>2. Message(w[1], w[2])[1] = <<w[1], 1>> /\ Message(w[1], w[2]) \in Seq(Byte)
    BY <2>1, MessageBytes
  <2> QED BY <2>2
<1>4. x = <<>> \/ \E m \in Seq(Byte) : x = <<m>>
  <2>1. Start \in Seq(Byte)
    BY DEF Start
  <2>2. CASE x = <<>> \/ x = <<Start>>
    BY <2>1, <2>2
  <2>3. CASE \E w \in whole'[e] : x = <<Message(w[1], w[2])>>
    BY <1>3, <2>3
  <2> QED BY <2>2, <2>3 DEF Fresh
<1> HIDE DEF o, p
<1>5. /\ Len(p) = Len(o) \/ (Len(p) = Len(o) + 1 /\ x = <<p[Len(o) + 1]>>)
      /\ \A i \in 1 .. Len(o) : p[i] = o[i]
  <2>1. CASE x = <<>>
    <3>1. p = o
      BY <1>1, <2>1, ConcatEmptySeq
    <3>2. Len(p) = Len(o) /\ \A i \in 1 .. Len(o) : p[i] = o[i]
      BY <3>1, Zenon
    <3> QED BY <3>2
  <2>2. ASSUME NEW m \in Seq(Byte), x = <<m>>
        PROVE  /\ Len(p) = Len(o) + 1 /\ x = <<p[Len(o) + 1]>>
               /\ \A i \in 1 .. Len(o) : p[i] = o[i]
    <3>1. p = Append(o, m)
      BY <1>1, <2>2, AppendIsConcat
    <3> QED BY <1>1, <2>2, <3>1, AppendProperties
  <2> QED BY <1>4, <2>1, <2>2
<1>6. \A i \in 1 .. Len(o) : o[i] # Start =>
         /\ \E w \in whole[e] : o[i] = Message(w[1], w[2])
         /\ \A j \in 1 .. i - 1 : o[j] # Start => o[j][1][1] < o[i][1][1]
  BY DEF Clean, Unspliced, o
<1> SUFFICES ASSUME NEW i \in 1 .. Len(p), p[i] # Start
             PROVE  /\ \E w \in whole'[e] : p[i] = Message(w[1], w[2])
                    /\ \A j \in 1 .. i - 1 : p[j] # Start => p[j][1][1] < p[i][1][1]
  BY DEF Clean, Unspliced, p
<1>7. CASE i <= Len(o)
  <2>1. i \in 1 .. Len(o) /\ \A j \in 1 .. i - 1 : j \in 1 .. Len(o)
    BY <1>1, <1>7
  <2> QED BY <1>5, <1>6, <2>1
<1>8. CASE ~ i <= Len(o)
  <2>0. Len(o) \in Nat /\ Len(p) \in Nat
    BY <1>1
  <2>1. i = Len(o) + 1 /\ x = <<p[i]>> /\ \A j \in 1 .. i - 1 : j \in 1 .. Len(o)
    <3>1. Len(p) = Len(o) + 1 /\ x = <<p[Len(o) + 1]>>
      BY <1>5, <1>8, <2>0
    <3>2. i = Len(o) + 1
      BY <1>8, <2>0, <3>1
    <3>3. \A j \in 1 .. i - 1 : j \in 1 .. Len(o)
      BY <2>0, <3>2
    <3> QED BY <3>1, <3>2, <3>3
  <2>2. x # <<>> /\ x # <<Start>>
    BY <2>1
  <2>3. PICK w \in whole'[e] :
           x = <<Message(w[1], w[2])>> /\ \A v \in whole[e] : v[1] < w[1]
    BY <2>2 DEF Fresh
  <2>4. p[i] = Message(w[1], w[2]) /\ p[i][1][1] = w[1]
    <3>1. p[i] = Message(w[1], w[2])
      BY <2>1, <2>3
    <3> QED BY <1>3, <3>1
  <2>5. ASSUME NEW j \in 1 .. i - 1, p[j] # Start
        PROVE  p[j][1][1] < p[i][1][1]
    <3>1. j \in 1 .. Len(o) /\ o[j] # Start /\ p[j] = o[j]
      BY <1>5, <2>1, <2>5
    <3>2. PICK v \in whole[e] : o[j] = Message(v[1], v[2])
      BY <1>6, <3>1
    <3>3. v \in whole'[e]
      BY <3>2
    <3>4. o[j][1][1] = v[1]
      BY <1>3, <3>2, <3>3
    <3> QED BY <2>3, <2>4, <3>1, <3>2, <3>4
  <2> QED BY <2>4, <2>5
<1> QED BY <1>1, <1>7, <1>8

\* Numbers after a frame of e.
LEMMA FrameNumbered ==
    ASSUME SenderType, SenderInv, HistoryType, NEW e \in Ecus, Numbered(e), Sending(e),
           Advance(e), NEW f, NEW arrived \in BOOLEAN, Booked(e, f, arrived)
    PROVE  /\ Numbered(e)' /\ whole[e] \subseteq whole'[e]
           /\ \A v \in whole[e] : v[1] < tx[e].n
           /\ Arrives(e, f, arrived) /\ LastFrame(e) => <<tx[e].n, tx[e].len>> \in whole'[e]
<1>1. /\ tx'[e] = IF LastFrame(e) THEN Resting(e)
                  ELSE [n |-> tx[e].n, len |-> tx[e].len, k |-> tx[e].k + 1]
      /\ tx[e].n \in Nat
  BY Advanced, TxType
<1>2. tx'[e].n = tx[e].n /\ (LastFrame(e) => tx'[e].len = 0)
  BY <1>1 DEF Resting
<1>3. whole'[e] = whole[e] \cup Done(e, f, arrived)
  BY DEF Booked
<1>4. \A v \in whole[e] : v[1] <= tx[e].n /\ v[1] < tx[e].n
  BY DEF Numbered
<1>5. ASSUME NEW w \in whole'[e]
      PROVE  w[1] <= tx'[e].n /\ (tx'[e].len # 0 => w[1] < tx'[e].n)
  <2>1. CASE w \in whole[e]
    BY <1>2, <1>4, <2>1
  <2>2. CASE w \notin whole[e]
    <3>1. LastFrame(e) /\ w = <<tx[e].n, tx[e].len>>
      BY <1>3, <2>2 DEF Done
    <3> QED BY <1>1, <1>2, <3>1
  <2> QED BY <2>1, <2>2
<1>6. Numbered(e)'
  BY <1>5 DEF Numbered, Sending
<1> QED BY <1>3, <1>4, <1>6 DEF Done

\* A frame of e, or its loss, leaves the output of e clean.
LEMMA FrameSpliceless ==
    ASSUME SpliceInv, IsoTpInv', NEW e \in Ecus, NEW f, f.id = e, NEW arrived \in BOOLEAN,
           Sending(e), Advance(e), Account(f, arrived),
           disturbed'[e] <= 1 => disturbed[e] <= 1, \A r \in Ecus : r # e => disturbed'[r] = disturbed[r],
           \E b \in BOOLEAN : Local(assemblies, assemblies', e, b),
           disturbed'[e] <= 1 => Current(e)',
           NEW x, Hands(e, x),
           disturbed[e] <= 1 =>
              \/ x = <<>> \/ x = <<Start>>
              \/ /\ Arrives(e, f, arrived) /\ LastFrame(e)
                 /\ x = <<Message(tx[e].n, tx[e].len)>>
    PROVE  SpliceInv'
<1>1. /\ SenderType /\ SenderInv /\ HistoryType /\ HistoryType' /\ SenderType'
      /\ Numbered(e) /\ (disturbed[e] <= 1 => Clean(e))
  BY DEF SpliceInv, Spliceless, IsoTpInv
<1>2. Booked(e, f, arrived)
  BY <1>1, Accounted
<1>3. /\ Numbered(e)' /\ whole[e] \subseteq whole'[e]
      /\ \A v \in whole[e] : v[1] < tx[e].n
      /\ Arrives(e, f, arrived) /\ LastFrame(e) => <<tx[e].n, tx[e].len>> \in whole'[e]
  BY <1>1, <1>2, FrameNumbered
<1>4. disturbed[e] <= 1 => Clean(e)'
  <2> SUFFICES ASSUME disturbed[e] <= 1 PROVE Clean(e)'
    OBVIOUS
  <2>1. Fresh(e, x)
    <3>1. CASE x = <<>> \/ x = <<Start>>
      BY <3>1 DEF Fresh
    <3>2. CASE /\ Arrives(e, f, arrived) /\ LastFrame(e)
               /\ x = <<Message(tx[e].n, tx[e].len)>>
      <4> DEFINE w == <<tx[e].n, tx[e].len>>
      <4>1. /\ w \in whole'[e] /\ w[1] = tx[e].n /\ w[2] = tx[e].len
        BY <1>3, <3>2
      <4> HIDE DEF w
      <4>2. x = <<Message(w[1], w[2])>> /\ \A v \in whole[e] : v[1] < w[1]
        BY <1>3, <3>2, <4>1
      <4> QED BY <4>1, <4>2 DEF Fresh
    <3> QED BY <3>1, <3>2
  <2> QED BY <1>1, <1>3, <2>1, CleanStep
<1>5. Spliceless(e)'
  BY <1>3, <1>4 DEF Spliceless
<1>6. Alone(e)
  <2>1. \A r \in Ecus : r # e => tx'[r] = tx[r]
    BY <1>1, Advanced
  <2> QED BY <1>2, <2>1 DEF Alone, Booked, Hands
<1> QED BY <1>5, <1>6, OthersSpliceless

\* At its first fault, the conversation of e is the one of its message.
LEMMA FirstFault ==
    ASSUME SpliceInv, NEW e \in Ecus, Fault(e), disturbed'[e] <= 1
    PROVE  /\ disturbed[e] <= 1
           /\ \A i \in 1 .. Len(assemblies) : assemblies[i].id = e =>
                 tx[e].k > 0 /\ assemblies[i].sequence = tx[e].k % SeqWrap
<1>1. SenderType
  BY DEF SpliceInv, IsoTpInv
<1>2. disturbed[e] = 0
  BY <1>1, FaultType
<1>3. Current(e)
  BY <1>2 DEF SpliceInv, Spliceless
<1>4. Progress(e).sequence = tx[e].k % SeqWrap
  BY DEF Progress
<1> QED BY <1>2, <1>3, <1>4 DEF Current

LEMMA LoseSpliceless ==
    ASSUME SpliceInv, NEW e \in Ecus, Lose(e)
    PROVE  SpliceInv'
<1> DEFINE f == FrameOf(e)
<1>1. IsoTpInv /\ Table(assemblies) /\ SenderType /\ SenderInv /\ HistoryType
  BY DEF SpliceInv, IsoTpInv
<1>2. /\ Sending(e) /\ Fault(e) /\ Account(f, FALSE) /\ Advance(e)
      /\ assemblies' = assemblies /\ output' = output
  BY DEF Lose
<1>3. f.id = e
  BY FrameId DEF FrameOf
<1> HIDE DEF f
<1>4. IsoTpInv'
  BY <1>1, LoseStep
<1>5. Hands(e, <<>>) /\ \E b \in BOOLEAN : Local(assemblies, assemblies', e, b)
  BY <1>1, <1>2, HandsOver, LocalDrop
<1>6. /\ disturbed'[e] <= 1 => disturbed[e] <= 1
      /\ disturbed'[e] > 0
      /\ \A r \in Ecus : r # e => disturbed'[r] = disturbed[r]
  BY <1>1, <1>2, FaultType
<1>7. disturbed'[e] <= 1 => Current(e)'
  <2> SUFFICES ASSUME disturbed'[e] <= 1, NEW i \in 1 .. Len(assemblies), assemblies[i].id = e
               PROVE  tx'[e].k > 0 => assemblies[i].sequence # tx'[e].k % SeqWrap
    BY <1>2, <1>6 DEF Current
  <2>1. assemblies[i].sequence = tx[e].k % SeqWrap
    BY <1>2, FirstFault
  <2>2. tx'[e] = IF LastFrame(e) THEN Resting(e)
                 ELSE [n |-> tx[e].n, len |-> tx[e].len, k |-> tx[e].k + 1]
    BY <1>1, <1>2, Advanced
  <2>3. tx'[e].k = 0 \/ tx'[e].k = tx[e].k + 1
    BY <2>2 DEF Resting
  <2>4. (tx[e].k + 1) % SeqWrap # tx[e].k % SeqWrap
    <3>1. tx[e].k \in Nat
      BY <1>1, TxType
    <3> QED BY <3>1, NextSequence
  <2> QED BY <2>1, <2>3, <2>4
<1> QED BY <1>2, <1>3, <1>4, <1>5, <1>6, <1>7, FrameSpliceless

LEMMA TruncateSpliceless ==
    ASSUME SpliceInv, NEW e \in Ecus, Truncate(e)
    PROVE  SpliceInv'
<1> DEFINE f == FrameOf(e)
<1>1. IsoTpInv /\ Table(assemblies) /\ SenderType /\ SenderInv /\ HistoryType
  BY DEF SpliceInv, IsoTpInv
<1>2. Sending(e) /\ Fault(e) /\ Account(f, FALSE) /\ Advance(e)
  BY DEF Truncate
<1>3. f.id = e
  BY FrameId DEF FrameOf
<1> HIDE DEF f
<1>4. IsoTpInv' /\ assemblies' = Drop(assemblies, e) /\ output' = output
  BY <1>1, TruncateStep
<1>5. Hands(e, <<>>) /\ \E b \in BOOLEAN : Local(assemblies, assemblies', e, b)
  BY <1>1, <1>4, HandsOver, LocalDrop
<1>6. /\ disturbed'[e] <= 1 => disturbed[e] <= 1
      /\ \A r \in Ecus : r # e => disturbed'[r] = disturbed[r]
  BY <1>1, <1>2, FaultType
<1>7. Current(e)'
  BY <1>1, <1>4, LocalDrop DEF Current
<1> QED BY <1>2, <1>3, <1>4, <1>5, <1>6, <1>7, FrameSpliceless

LEMMA DeliverSpliceless ==
    ASSUME SpliceInv, NEW e \in Ecus, Deliver(e)
    PROVE  SpliceInv'
<1> DEFINE f == FrameOf(e)
           k == tx[e].k
<1>1. /\ IsoTpInv /\ Table(assemblies) /\ SenderType /\ SenderInv /\ HistoryType
      /\ disturbed[e] <= 1 => Current(e)
  BY DEF SpliceInv, Spliceless, IsoTpInv
<1>2. Sending(e) /\ Account(f, TRUE) /\ Advance(e) /\ Receive(e, f)
  BY DEF Deliver
<1>3. f.id = e /\ f.type = IF tx[e].len <= SingleLimit THEN 0 ELSE IF k = 0 THEN 1 ELSE 2
  BY FrameId DEF FrameOf
<1>4. /\ disturbed'[e] <= 1 => disturbed[e] <= 1
      /\ \A r \in Ecus : r # e => disturbed'[r] = disturbed[r]
      /\ f.type # 1 => disturbed'[e] = disturbed[e]
  BY <1>1, FrameArrives
<1> HIDE DEF f
<1>5. Booked(e, f, TRUE) /\ (intact'[e] <=> Arrives(e, f, TRUE))
  <2>1. Booked(e, f, TRUE)
    BY <1>1, <1>2, <1>3, Accounted
  <2> QED BY <2>1 DEF Booked
<1>6. k \in Nat
  BY <1>1, TxType
<1>7. CASE tx[e].len <= SingleLimit
  <2> DEFINE m == Message(tx[e].n, tx[e].len)
  <2>1. IsoTpInv' /\ assemblies' = assemblies /\ Hands(e, <<m>>)
    BY <1>1, <1>7, DeliverSingle
  <2>2. k = 0 /\ LastFrame(e)
    BY <1>1, <1>6, <1>7, TxType DEF SenderInv, LastFrame, SingleLimit
  <2>3. tx'[e].k = 0
    <3>1. tx'[e] = Resting(e)
      BY <1>1, <1>2, <2>2, Advanced
    <3> QED BY <3>1 DEF Resting
  <2>4. disturbed'[e] <= 1 => Current(e)'
    BY <1>1, <1>3, <1>4, <1>7, <2>1, <2>2, <2>3 DEF Current
  <2>5. Arrives(e, f, TRUE)
    BY <1>3, <1>7 DEF Arrives
  <2>6. \E b \in BOOLEAN : Local(assemblies, assemblies', e, b)
    BY <1>1, <2>1, LocalDrop
  <2> DEFINE x == <<m>>
  <2>7. Hands(e, x) /\ x = <<Message(tx[e].n, tx[e].len)>>
    BY <2>1
  <2> HIDE DEF x
  <2> QED BY <1>2, <1>3, <1>4, <2>1, <2>2, <2>4, <2>5, <2>6, <2>7, FrameSpliceless
<1>8. CASE ~ tx[e].len <= SingleLimit /\ k = 0
  <2>1. /\ IsoTpInv' /\ Hands(e, <<Start>>) /\ intact'[e] /\ tx'[e].k = 1
        /\ \A j \in 1 .. Len(assemblies') :
              assemblies'[j].id = e => assemblies'[j] = Progress(e)'
        /\ Local(assemblies, assemblies', e, TRUE)
    BY <1>1, <1>8, DeliverFirst
  <2>2. Current(e)'
    BY <2>1 DEF Current
  <2> QED BY <1>2, <1>3, <1>4, <2>1, <2>2, FrameSpliceless
<1>9. CASE ~ tx[e].len <= SingleLimit /\ k # 0
  <2>1. IsoTpInv' /\ Receive(e, NextFrame(e, k))
    BY <1>1, <1>9, DeliverNext
  <2>2. /\ k \in Nat \ {0} /\ k > 0 /\ tx[e].len > SingleLimit /\ Before(k) < tx[e].len
    BY <1>1, <1>6, <1>9, TxType DEF SenderInv
  <2>3. /\ Local(assemblies, assemblies', e, FALSE)
        /\ \/ /\ \A i \in 1 .. Len(assemblies) : ~ Matches(e, k, i)
              /\ assemblies' = Drop(assemblies, e) /\ Hands(e, <<>>)
           \/ \E i \in 1 .. Len(assemblies) :
                 Matches(e, k, i) /\ \E a \in Conversation : Extends(e, k, i, a)
    BY <1>1, <2>1, <2>2, ReceiveNext
  <2>4. \E b \in BOOLEAN : Local(assemblies, assemblies', e, b)
    BY <2>3
  <2>5. Arrives(e, f, TRUE) <=> intact[e]
    BY <1>3, <1>9 DEF Arrives
  <2>6. CASE assemblies' = Drop(assemblies, e) /\ Hands(e, <<>>)
    <3>1. Current(e)'
      BY <1>1, <2>6, LocalDrop DEF Current
    <3> QED BY <1>2, <1>3, <1>4, <2>1, <2>4, <2>6, <3>1, FrameSpliceless
  <2>7. ASSUME NEW i \in 1 .. Len(assemblies), Matches(e, k, i),
               NEW a \in Conversation, Extends(e, k, i, a)
        PROVE  SpliceInv'
    <3>1. disturbed[e] <= 1 => assemblies[i] = Progress(e) /\ intact[e]
      BY <1>1, <2>2, <2>7 DEF Current, Matches
    <3>2. CASE Len(a.got) < a.expected
      <4>1. /\ \A j \in 1 .. Len(assemblies') : assemblies'[j].id = e => assemblies'[j] = a
            /\ Hands(e, <<>>)
        BY <2>7, <3>2 DEF Extends
      <4>2. disturbed[e] <= 1 => ~ LastFrame(e)
        BY <1>1, <1>2, <2>2, <2>7, <3>1, <3>2, Completed
      <4>3. disturbed[e] <= 1 => a = Progress(e)' /\ tx'[e].k > 0
        <5> SUFFICES ASSUME disturbed[e] <= 1 PROVE a = Progress(e)' /\ tx'[e].k > 0
          OBVIOUS
        <5>1. a = Progress(e)'
          BY <1>1, <1>2, <2>2, <2>7, <3>1, <4>2, Continued
        <5>2. tx'[e].k = k + 1
          <6>1. tx'[e] = [n |-> tx[e].n, len |-> tx[e].len, k |-> tx[e].k + 1]
            BY <1>1, <1>2, <4>2, Advanced
          <6> QED BY <6>1
        <5> QED BY <2>2, <5>1, <5>2
      <4>4. disturbed'[e] <= 1 => Current(e)'
        BY <1>4, <1>5, <2>5, <3>1, <4>1, <4>3 DEF Current
      <4> QED BY <1>2, <1>3, <1>4, <2>1, <2>4, <4>1, <4>4, FrameSpliceless
    <3>3. CASE ~ Len(a.got) < a.expected
      <4> DEFINE x == <<a.got>>
      <4>1. assemblies' = Drop(assemblies, e) /\ Hands(e, x) /\ x = <<a.got>>
        BY <2>7, <3>3 DEF Extends
      <4> HIDE DEF x
      <4>2. disturbed[e] <= 1 => LastFrame(e)
        BY <1>1, <1>2, <2>2, <2>7, <3>1, <3>3, Continued
      <4>3. disturbed[e] <= 1 => x = <<Message(tx[e].n, tx[e].len)>>
        BY <1>1, <1>2, <2>2, <2>7, <3>1, <4>1, <4>2, Completed
      <4>4. Current(e)'
        BY <1>1, <4>1, LocalDrop DEF Current
      <4> QED BY <1>2, <1>3, <1>4, <2>1, <2>4, <2>5, <3>1, <4>1, <4>2, <4>3, <4>4, FrameSpliceless
    <3> QED BY <3>2, <3>3
  <2> QED BY <2>3, <2>6, <2>7
<1> QED BY <1>7, <1>8, <1>9

LEMMA QuietSpliceless ==
    ASSUME SpliceInv, NEW e \in Ecus, Begin(e) \/ GiveUp(e)
    PROVE  SpliceInv'
<1>1. /\ IsoTpInv /\ Table(assemblies) /\ SenderType /\ SenderInv /\ HistoryType
      /\ Numbered(e) /\ (disturbed[e] <= 1 => Current(e) /\ Clean(e))
  BY DEF SpliceInv, Spliceless, IsoTpInv
<1>2. /\ assemblies' = assemblies /\ output' = output /\ intact' = intact /\ whole' = whole
  BY DEF Begin, GiveUp, history
<1>3. /\ IsoTpInv' /\ tx'[e].k = 0 /\ \A r \in Ecus : r # e => tx'[r] = tx[r]
      /\ \A r \in Ecus : disturbed'[r] >= disturbed[r] /\ (r # e => disturbed'[r] = disturbed[r])
  BY <1>1, QuietStep
<1>4. disturbed[e] \in Nat /\ disturbed'[e] \in Nat
  BY <1>1, <1>3, IsoTpAssumption DEF IsoTpInv, SenderType
<1>5. disturbed'[e] <= 1 => disturbed[e] <= 1
  BY <1>3, <1>4
<1>6. disturbed'[e] <= 1 => Current(e)'
  <2> SUFFICES ASSUME disturbed'[e] <= 1, NEW i \in 1 .. Len(assemblies), assemblies[i].id = e
               PROVE  disturbed'[e] > 0
    BY <1>2, <1>3 DEF Current
  <2>1. CASE Begin(e)
    <3>1. tx[e].k = 0
      BY <1>1, <2>1, TxType DEF Begin, Sending, SenderInv, SingleLimit
    <3>2. disturbed[e] > 0
      BY <1>1, <1>5, <3>1 DEF Current
    <3> QED BY <1>3, <1>4, <3>2
  <2>2. CASE GiveUp(e)
    BY <1>1, <2>2, FaultType DEF GiveUp
  <2> QED BY <2>1, <2>2
<1>7. Numbered(e)'
  <2>1. CASE Begin(e)
    <3>1. PICK len \in Lengths : tx' = [tx EXCEPT ![e] = [n |-> tx[e].n + 1, len |-> len, k |-> 0]]
      BY <2>1 DEF Begin
    <3>2. tx'[e].n = tx[e].n + 1
      BY <1>1, <3>1 DEF SenderType
    <3>3. tx[e].n \in Nat /\ \A w \in whole[e] : w[1] \in Nat /\ w[1] <= tx[e].n
      <4>1. whole[e] \in SUBSET (Nat \X Lengths)
        BY <1>1 DEF HistoryType
      <4>2. \A w \in whole[e] : w[1] \in Nat
        BY <4>1
      <4> QED BY <1>1, <4>2, TxType DEF Numbered
    <3>4. \A w \in whole'[e] : w[1] <= tx'[e].n /\ w[1] < tx'[e].n
      BY <1>2, <3>2, <3>3
    <3> QED BY <3>4 DEF Numbered
  <2>2. CASE GiveUp(e)
    <3>1. tx' = [tx EXCEPT ![e] = Resting(e)]
      BY <2>2 DEF GiveUp
    <3>2. tx'[e] = Resting(e)
      BY <1>1, <3>1 DEF SenderType
    <3>3. tx'[e].n = tx[e].n /\ tx'[e].len = 0
      BY <3>2 DEF Resting
    <3> QED BY <1>1, <1>2, <3>3 DEF Numbered, Sending
  <2> QED BY <2>1, <2>2
<1>8. Spliceless(e)'
  BY <1>1, <1>2, <1>5, <1>6, <1>7 DEF Spliceless, Clean
<1>9. Alone(e)
  <2>1. Local(assemblies, assemblies', e, FALSE)
    BY <1>1, <1>2, LocalDrop
  <2> QED BY <1>2, <1>3, <2>1 DEF Alone
<1> QED BY <1>3, <1>8, <1>9, OthersSpliceless

\* A frame that is repeated carries a number that was already taken.
LEMMA RepeatSpliceless ==
    ASSUME SpliceInv, NEW e \in Ecus, Repeat(e)
    PROVE  SpliceInv'
<1> DEFINE k == tx[e].k
           h == k - 1
<1>1. /\ IsoTpInv /\ Table(assemblies) /\ SenderType /\ SenderInv /\ HistoryType
      /\ Numbered(e) /\ (disturbed[e] <= 1 => Clean(e))
  BY DEF SpliceInv, Spliceless, IsoTpInv
<1>2. Fault(e) /\ k > 0 /\ tx' = tx /\ whole' = whole /\ intact' = [intact EXCEPT ![e] = (k = 1)]
  BY DEF Repeat
<1>3. /\ IsoTpInv'
      /\ IF k = 1
         THEN Hands(e, <<Start>>) /\ intact'[e] /\ Youngest(assemblies', e, Progress(e)')
         ELSE Receive(e, NextFrame(e, h))
      /\ \E b \in BOOLEAN : Local(assemblies, assemblies', e, b)
  BY <1>1, RepeatStep
<1>4. k \in Nat /\ tx[e].len > SingleLimit /\ Before(k) < tx[e].len
  BY <1>1, <1>2, TxType DEF SenderInv
<1>5. /\ disturbed'[e] > 0 /\ disturbed[e] <= disturbed'[e]
      /\ \A r \in Ecus : r # e => disturbed'[r] = disturbed[r]
  BY <1>1, <1>2, FaultType
<1>6. Numbered(e)'
  BY <1>1, <1>2 DEF Numbered, Sending
<1>7. HistoryType' /\ whole[e] \subseteq whole'[e]
  BY <1>2, <1>3 DEF IsoTpInv
<1>8. disturbed'[e] <= 1 => Current(e)' /\ \E x \in {<<>>, <<Start>>} : Hands(e, x)
  <2> SUFFICES ASSUME disturbed'[e] <= 1
               PROVE  Current(e)' /\ \E x \in {<<>>, <<Start>>} : Hands(e, x)
    OBVIOUS
  <2>1. CASE k = 1
    <3>1. Hands(e, <<Start>>) /\ intact'[e] /\ Youngest(assemblies', e, Progress(e)')
      BY <1>3, <2>1
    <3>2. tx'[e].k > 0
      BY <1>2
    <3>3. Current(e)'
      BY <3>1, <3>2 DEF Current, Youngest
    <3> QED BY <3>1, <3>3
  <2>2. CASE k # 1
    <3>1. h \in Nat \ {0} /\ h + 1 = k /\ Receive(e, NextFrame(e, h))
      BY <1>2, <1>3, <1>4, <2>2
    <3> HIDE DEF h
    <3>2. Before(h) < tx[e].len
      <4>1. Before(h + 1) = Before(h) + NextBytes /\ Before(h) \in Nat
        BY <3>1, BeforeNext
      <4>2. NextBytes \in Nat /\ tx[e].len \in Nat
        BY <1>1, TxType
      <4> QED BY <1>4, <3>1, <4>1, <4>2
    <3>3. \A i \in 1 .. Len(assemblies) : ~ Matches(e, h, i)
      <4>1. \A i \in 1 .. Len(assemblies) : assemblies[i].id = e =>
               assemblies[i].sequence = k % SeqWrap
        BY <1>2, FirstFault
      <4>2. (h + 1) % SeqWrap # h % SeqWrap
        BY <3>1, NextSequence
      <4> QED BY <3>1, <4>1, <4>2 DEF Matches
    <3>4. assemblies' = Drop(assemblies, e) /\ Hands(e, <<>>)
      BY <1>1, <1>4, <3>1, <3>2, <3>3, ReceiveNext
    <3>5. Current(e)'
      BY <1>1, <3>4, LocalDrop DEF Current
    <3> QED BY <3>4, <3>5
  <2> QED BY <2>1, <2>2
<1>9. disturbed'[e] <= 1 => disturbed[e] <= 1
  BY <1>2, FirstFault
<1>10. disturbed'[e] <= 1 => Clean(e)'
  <2> SUFFICES ASSUME disturbed'[e] <= 1 PROVE Clean(e)'
    OBVIOUS
  <2>1. PICK x \in {<<>>, <<Start>>} : Hands(e, x)
    BY <1>8
  <2>2. Fresh(e, x)
    BY DEF Fresh
  <2> QED BY <1>1, <1>7, <1>9, <2>1, <2>2, CleanStep
<1>11. Spliceless(e)'
  BY <1>6, <1>8, <1>10 DEF Spliceless
<1>12. Alone(e)
  <2>1. \A r \in Ecus : r # e => intact'[r] = intact[r]
    BY <1>1, <1>2 DEF SenderType
  <2>2. \A r \in Ecus : r # e => output'[r] = output[r]
    <3>1. \E f : Receive(e, f)
      BY DEF Repeat
    <3> QED BY <1>1, <3>1 DEF Receive, HistoryType
  <2> QED BY <1>2, <1>3, <1>5, <2>1, <2>2 DEF Alone
<1> QED BY <1>3, <1>11, <1>12, OthersSpliceless

LEMMA ResetSpliceless ==
    ASSUME SpliceInv, Reset
    PROVE  SpliceInv'
<1>1. IsoTpInv'
  BY ResetStep DEF SpliceInv
<1>2. /\ assemblies' = <<>> /\ output' = output /\ tx' = tx
      /\ faults' = faults /\ disturbed' = disturbed
      /\ whole' = whole
  BY DEF Reset, ecuVars
<1>3. ASSUME NEW r \in Ecus PROVE Spliceless(r)'
  <2>1. Spliceless(r)
    BY DEF SpliceInv
  <2>2. Current(r)'
    BY <1>2 DEF Current
  <2>3. Numbered(r)'
    BY <1>2, <2>1 DEF Spliceless, Numbered, Sending
  <2>4. Clean(r) => Clean(r)'
    BY <1>2 DEF Clean
  <2> QED BY <1>2, <2>1, <2>2, <2>3, <2>4 DEF Spliceless
<1> QED BY <1>1, <1>3 DEF SpliceInv

LEMMA UnmovedSpliceless ==
    ASSUME SpliceInv, UNCHANGED vars
    PROVE  SpliceInv'
<1>1. IsoTpInv'
  BY Unmoved DEF SpliceInv
<1>2. /\ assemblies' = assemblies /\ output' = output /\ tx' = tx
      /\ faults' = faults /\ disturbed' = disturbed
      /\ whole' = whole /\ intact' = intact
  BY DEF vars
<1>3. ASSUME NEW r \in Ecus PROVE Spliceless(r)'
  <2>1. Spliceless(r)
    BY DEF SpliceInv
  <2>2. Progress(r)' = Progress(r)
    BY <1>2 DEF Progress, Message, Before
  <2>3. Current(r) => Current(r)'
    BY <1>2, <2>2 DEF Current
  <2>4. Numbered(r)'
    BY <1>2, <2>1 DEF Spliceless, Numbered, Sending
  <2>5. Clean(r) => Clean(r)'
    BY <1>2 DEF Clean
  <2> QED BY <1>2, <2>1, <2>3, <2>4, <2>5 DEF Spliceless
<1> QED BY <1>1, <1>3 DEF SpliceInv

LEMMA SpliceInit ==
    ASSUME Init
    PROVE  SpliceInv
<1>1. IsoTpInv
  BY IsoTpInit
<1>2. ASSUME NEW r \in Ecus PROVE Spliceless(r)
  <2>1. assemblies = <<>> /\ output[r] = <<>> /\ whole[r] = {}
    BY DEF Init
  <2> QED BY <2>1 DEF Spliceless, Numbered, Current, Clean, Unspliced
<1> QED BY <1>1, <1>2 DEF SpliceInv

LEMMA SpliceStep ==
    ASSUME SpliceInv, [Next]_vars
    PROVE  SpliceInv'
<1>1. ASSUME NEW e \in Ecus, Begin(e) \/ GiveUp(e) PROVE SpliceInv'
  BY <1>1, QuietSpliceless
<1>2. ASSUME NEW e \in Ecus, Deliver(e) PROVE SpliceInv'
  BY <1>2, DeliverSpliceless
<1>3. ASSUME NEW e \in Ecus, Lose(e) PROVE SpliceInv'
  BY <1>3, LoseSpliceless
<1>4. ASSUME NEW e \in Ecus, Truncate(e) PROVE SpliceInv'
  BY <1>4, TruncateSpliceless
<1>5. ASSUME NEW e \in Ecus, Repeat(e) PROVE SpliceInv'
  BY <1>5, RepeatSpliceless
<1>6. ASSUME NEW e \in Ecus, OtherFrame(e) PROVE SpliceInv'
  BY <1>6, OtherStep, UnmovedSpliceless DEF SpliceInv
<1>7. CASE Reset
  BY <1>7, ResetSpliceless
<1>8. CASE UNCHANGED vars
  BY <1>8, UnmovedSpliceless
<1> QED BY <1>1, <1>2, <1>3, <1>4, <1>5, <1>6, <1>7, <1>8 DEF Next

LEMMA SpliceInvariant == Spec => []SpliceInv
BY SpliceInit, SpliceStep, PTL DEF Spec

\* What the application is handed is messages of which every frame arrived,
\* each once and in order, for any number of faults: an ECU may be misread
\* only once two of its frames, with no first frame arriving between them, were
\* lost, cut short or repeated or belonged to a message it gave up.  The
\* reassembler has no timer (isotp.hpp:11): a conversation left by one fault
\* may meet, when a second one takes the next first frame, the sequence number
\* it waits for (isotp.cpp:26 to 104).
THEOREM IsoTpNoSplice == Spec => []NoSplice
<1>1. SpliceInv => NoSplice
  <2> SUFFICES ASSUME SpliceInv, NEW e \in Ecus, disturbed[e] < 2 PROVE Clean(e)
    BY DEF NoSplice, Clean, Unspliced
  <2>1. SenderType
    BY DEF SpliceInv, IsoTpInv
  <2>2. disturbed[e] <= 1
    BY <2>1 DEF SenderType
  <2> QED BY <2>2 DEF SpliceInv, Spliceless
<1> QED BY <1>1, SpliceInvariant, PTL
----------------------------------------------------------------------------
(* The frame decoder.                                                      *)

\* A set of numbers has a least one: induction, in the form the provers use.
LEMMA LeastOne ==
    ASSUME NEW T \in SUBSET Nat, T # {}
    PROVE  \E n \in T : \A m \in T : n <= m
<1> DEFINE R == {ss \in Nat \X Nat : ss[1] < ss[2]}
<1>1. IsWellFoundedOn(R, Nat)
  BY NatLessThanWellFounded DEF OpToRel
<1> HIDE DEF R
<1>2. PICK n \in T : \A m \in T : ~ (<<m, n>> \in R)
  BY <1>1, WFMin
<1>3. ASSUME NEW m \in T PROVE n <= m
  <2>1. <<m, n>> \in Nat \X Nat
    OBVIOUS
  <2>2. ~ m < n
    BY <1>2, <2>1 DEF R
  <2> QED BY <2>2
<1> QED BY <1>3

\* The loop of feed() over the bytes of a chunk, turn after turn.
LEMMA FeedTurns ==
    ASSUME NEW d, NEW chunk, Len(chunk) \in Nat
    PROVE  \E f : /\ C!feed(d, chunk) = f[Len(chunk)] /\ f[0] = d
                  /\ \A n \in 1 .. Len(chunk) : f[n] = C!Push(f[n - 1], chunk[n])
<1> DEFINE Is(g, n) == g = [i \in 0 .. n |-> IF i = 0 THEN d ELSE C!Push(g[i - 1], chunk[i])]
           T == {n \in Nat : ~ \E g : Is(g, n)}
           f == CHOOSE g : Is(g, Len(chunk))
<1>1. T = {}
  <2> SUFFICES ASSUME T # {} PROVE FALSE
    OBVIOUS
  <2>1. PICK n \in T : \A m \in T : n <= m
    BY LeastOne
  <2>2. n # 0
    <3> DEFINE g == [i \in 0 .. 0 |-> d]
    <3>1. Is(g, 0)
      OBVIOUS
    <3> QED BY <2>1, <3>1
  <2>3. n - 1 \in Nat /\ n - 1 \notin T
    <3>1. n - 1 \in Nat /\ ~ n <= n - 1
      BY <2>1, <2>2
    <3> HIDE DEF T
    <3> QED BY <2>1, <3>1
  <2>4. PICK g : Is(g, n - 1)
    BY <2>3
  <2> DEFINE h == [i \in 0 .. n |-> IF i = n THEN C!Push(g[n - 1], chunk[n]) ELSE g[i]]
  <2>5. Is(h, n)
    BY <2>2, <2>3, <2>4
  <2> QED BY <2>1, <2>5
<1>2. \E g : Is(g, Len(chunk))
  BY <1>1
<1>3. Is(f, Len(chunk))
  BY <1>2
<1> HIDE DEF T
<1>4. C!feed(d, chunk) = f[Len(chunk)]
  BY DEF C!feed
<1>5. f = [i \in 0 .. Len(chunk) |-> IF i = 0 THEN d ELSE C!Push(f[i - 1], chunk[i])]
  BY <1>3
<1> HIDE DEF f, Is
<1>6. f[0] = d /\ \A n \in 1 .. Len(chunk) : f[n] = C!Push(f[n - 1], chunk[n])
  BY <1>5
<1> QED BY <1>4, <1>6

\* The while loop of feed(), pass after pass.
LEMMA SettlePasses ==
    ASSUME NEW d, Len(d.buffer) \in Nat
    PROVE  \E f : /\ C!Settle(d) = f[Len(d.buffer)] /\ f[0] = d
                  /\ \A n \in 1 .. Len(d.buffer) : f[n] = C!Pass(f[n - 1])
<1> DEFINE Is(g, n) == g = [i \in 0 .. n |-> IF i = 0 THEN d ELSE C!Pass(g[i - 1])]
           T == {n \in Nat : ~ \E g : Is(g, n)}
           f == CHOOSE g : Is(g, Len(d.buffer))
<1>1. T = {}
  <2> SUFFICES ASSUME T # {} PROVE FALSE
    OBVIOUS
  <2>1. PICK n \in T : \A m \in T : n <= m
    BY LeastOne
  <2>2. n # 0
    <3> DEFINE g == [i \in 0 .. 0 |-> d]
    <3>1. Is(g, 0)
      OBVIOUS
    <3> QED BY <2>1, <3>1
  <2>3. n - 1 \in Nat /\ n - 1 \notin T
    <3>1. n - 1 \in Nat /\ ~ n <= n - 1
      BY <2>1, <2>2
    <3> HIDE DEF T
    <3> QED BY <2>1, <3>1
  <2>4. PICK g : Is(g, n - 1)
    BY <2>3
  <2> DEFINE h == [i \in 0 .. n |-> IF i = n THEN C!Pass(g[n - 1]) ELSE g[i]]
  <2>5. Is(h, n)
    BY <2>2, <2>3, <2>4
  <2> QED BY <2>1, <2>5
<1>2. \E g : Is(g, Len(d.buffer))
  BY <1>1
<1>3. Is(f, Len(d.buffer))
  BY <1>2
<1> HIDE DEF T
<1>4. C!Settle(d) = f[Len(d.buffer)]
  BY DEF C!Settle
<1>5. f = [i \in 0 .. Len(d.buffer) |-> IF i = 0 THEN d ELSE C!Pass(f[i - 1])]
  BY <1>3
<1> HIDE DEF f, Is
<1>6. f[0] = d /\ \A n \in 1 .. Len(d.buffer) : f[n] = C!Pass(f[n - 1])
  BY <1>5
<1> QED BY <1>4, <1>6

\* Taken adds up the frames one after the other.
LEMMA TakenSum ==
    ASSUME NEW q, Len(q) \in Nat
    PROVE  \E f : /\ C!Taken(q) = f[Len(q)] /\ f[0] = 0
                  /\ \A n \in 1 .. Len(q) : f[n] = f[n - 1] + (q[n].end - q[n].at)
<1> DEFINE Is(g, n) ==
             g = [i \in 0 .. n |-> IF i = 0 THEN 0 ELSE g[i - 1] + (q[i].end - q[i].at)]
           T == {n \in Nat : ~ \E g : Is(g, n)}
           f == CHOOSE g : Is(g, Len(q))
<1>1. T = {}
  <2> SUFFICES ASSUME T # {} PROVE FALSE
    OBVIOUS
  <2>1. PICK n \in T : \A m \in T : n <= m
    BY LeastOne
  <2>2. n # 0
    <3> DEFINE g == [i \in 0 .. 0 |-> 0]
    <3>1. Is(g, 0)
      OBVIOUS
    <3> QED BY <2>1, <3>1
  <2>3. n - 1 \in Nat /\ n - 1 \notin T
    <3>1. n - 1 \in Nat /\ ~ n <= n - 1
      BY <2>1, <2>2
    <3> HIDE DEF T
    <3> QED BY <2>1, <3>1
  <2>4. PICK g : Is(g, n - 1)
    BY <2>3
  <2> DEFINE h == [i \in 0 .. n |-> IF i = n THEN g[n - 1] + (q[n].end - q[n].at) ELSE g[i]]
  <2>5. Is(h, n)
    BY <2>2, <2>3, <2>4
  <2> QED BY <2>1, <2>5
<1>2. \E g : Is(g, Len(q))
  BY <1>1
<1>3. Is(f, Len(q))
  BY <1>2
<1> HIDE DEF T
<1>4. C!Taken(q) = f[Len(q)]
  BY DEF C!Taken
<1>5. f = [i \in 0 .. Len(q) |-> IF i = 0 THEN 0 ELSE f[i - 1] + (q[i].end - q[i].at)]
  BY <1>3
<1> HIDE DEF f, Is
<1>6. f[0] = 0 /\ \A n \in 1 .. Len(q) : f[n] = f[n - 1] + (q[n].end - q[n].at)
  BY <1>5
<1> QED BY <1>4, <1>6

\* Two bytes and the number they hold.
LEMMA TwoBytes ==
    ASSUME NEW B \in Nat \ {0}, NEW r \in 0 .. B - 1, NEW q \in Nat
    PROVE  (r + B * q) % B = r /\ (r + B * q) \div B = q
  OBVIOUS

\* A number of two bytes and its bytes.
LEMMA TwoBytesBack ==
    ASSUME NEW B \in Nat \ {0}, NEW v \in 0 .. B * B - 1
    PROVE  v % B \in 0 .. B - 1 /\ v \div B \in 0 .. B - 1 /\ (v % B) + B * (v \div B) = v
  OBVIOUS
----------------------------------------------------------------------------
\* w lies in the bytes st from place p on.
Lies(w, p, st) == p + Len(w) <= Len(st) /\ \A i \in 1 .. Len(w) : st[p + i] = w[i]

Continues(st, t) == Len(st) <= Len(t) /\ \A i \in 1 .. Len(st) : t[i] = st[i]

\* The while loop of feed() ends.
Waiting(b) ==
    Len(b) < 4 \/ (C!ValidHeader(b) /\ Len(b) < 4 + C!le16(b, 0))

Delivered == [at : Nat, end : Nat, body : Seq(C!Bytes)]
Decoder == [buffer : Seq(C!Bytes), discarded : Nat, out : Seq(Delivered), at : Nat]

\* What was delivered as f is a frame.
Framed(f, st) ==
    /\ Len(f.body) \in 1 .. MaxBody /\ f.end = f.at + 4 + Len(f.body)
    /\ Lies(C!encode(f.body), f.at, st)

\* The frames sent.
SentIn(S, st) ==
    \A s \in S :
        /\ s \in Nat \X Nat
        /\ \E body \in Seq(C!Bytes) : /\ Len(body) \in 1 .. MaxBody /\ s[2] = s[1] + 4 + Len(body)
                                     /\ Lies(C!encode(body), s[1], st)

\* s was delivered, or begins inside what was delivered.
Met(s, q) ==
    \E i \in 1 .. Len(q) : <<q[i].at, q[i].end>> = s \/ (q[i].at < s[1] /\ s[1] < q[i].end)

\* The bytes that have left the buffer.
Gone(d) == d.at - Len(d.buffer)

\* The decoder d has taken its bytes from st, which the frames S are in.
Decoded(d, st, S) ==
    /\ d \in Decoder /\ d.at <= Len(st) /\ Len(d.buffer) <= d.at
    /\ Lies(d.buffer, Gone(d), st)
    /\ \A i \in 1 .. Len(d.out) : Framed(d.out[i], st) /\ d.out[i].end <= Gone(d)
    /\ \A i, j \in 1 .. Len(d.out) : i < j => d.out[i].end <= d.out[j].at
    /\ d.discarded + C!Taken(d.out) = Gone(d)
    /\ \A s \in S : s[1] < Gone(d) => Met(s, d.out)
----------------------------------------------------------------------------
\* CodecConstants, without its definition.
LEMMA CodecFacts ==
    /\ C!Base \in Nat \ {0, 1} /\ MaxBody \in Nat /\ MaxBytes \in Nat /\ MaxBody < C!Base * C!Base
    /\ \A n \in 1 .. MaxBody : C!Check(n) \in 0 .. C!Base * C!Base - 1
  BY CodecAssumption DEF C!CodecConstants

\* A header is its two halves.
LEMMA FourBytes ==
    ASSUME NEW S, NEW a1 \in S, NEW a2 \in S, NEW a3 \in S, NEW a4 \in S
    PROVE  <<a1, a2>> \o <<a3, a4>> = <<a1, a2, a3, a4>>
<1> DEFINE l == <<a1, a2>>
           r == <<a3, a4>>
           j == l \o r
           h == <<a1, a2, a3, a4>>
<1>1. l \in Seq(S) /\ r \in Seq(S) /\ Len(l) = 2 /\ Len(r) = 2
  OBVIOUS
<1>2. /\ j \in Seq(S) /\ Len(j) = 4
      /\ \A i \in 1 .. 4 : j[i] = IF i <= 2 THEN l[i] ELSE r[i - 2]
  <2> HIDE DEF l, r
  <2>1. /\ j \in Seq(S) /\ Len(j) = Len(l) + Len(r)
        /\ \A i \in 1 .. Len(l) + Len(r) : j[i] = IF i <= Len(l) THEN l[i] ELSE r[i - Len(l)]
    BY <1>1, ConcatProperties
  <2> QED BY <1>1, <2>1
<1> HIDE DEF j
<1>3. j[1] = a1 /\ j[2] = a2 /\ j[3] = a3 /\ j[4] = a4
  BY <1>2
<1>4. h \in Seq(S) /\ Len(h) = 4 /\ h[1] = a1 /\ h[2] = a2 /\ h[3] = a3 /\ h[4] = a4
  OBVIOUS
<1> HIDE DEF h
<1>5. \A i \in 1 .. 4 : j[i] = h[i]
  BY <1>3, <1>4
<1>6. j = h
  BY <1>2, <1>4, <1>5, SeqEqual
<1> QED BY <1>6 DEF j, h

\* encode makes a frame with a valid header.
LEMMA Encoded ==
    ASSUME NEW body \in Seq(C!Bytes), Len(body) \in 1 .. MaxBody
    PROVE  /\ C!encode(body) \in Seq(C!Bytes) /\ Len(C!encode(body)) = 4 + Len(body)
           /\ C!le16(C!encode(body), 0) = Len(body) /\ C!ValidHeader(C!encode(body))
           /\ C!encode(body)[1] = Len(body) % C!Base
           /\ C!encode(body)[2] = Len(body) \div C!Base
           /\ C!encode(body)[3] = C!Check(Len(body)) % C!Base
           /\ C!encode(body)[4] = C!Check(Len(body)) \div C!Base
           /\ \A i \in 1 .. Len(body) : C!encode(body)[4 + i] = body[i]
<1> DEFINE n == Len(body)
           c == C!Check(n)
           B == C!Base
           a1 == n % B
           a2 == n \div B
           a3 == c % B
           a4 == c \div B
           h == <<a1, a2, a3, a4>>
           w == C!encode(body)
<1>1. B \in Nat \ {0} /\ n \in 0 .. B * B - 1 /\ c \in 0 .. B * B - 1 /\ n \in 1 .. MaxBody /\ n \in Nat
  BY CodecFacts
<1>2. w = (<<a1, a2>> \o <<a3, a4>>) \o body
  BY DEF C!encode, C!put16
<1> HIDE DEF n, c, B, w
<1>4. /\ a1 \in 0 .. B - 1 /\ a2 \in 0 .. B - 1 /\ a1 + B * a2 = n
      /\ a3 \in 0 .. B - 1 /\ a4 \in 0 .. B - 1 /\ a3 + B * a4 = c
  BY <1>1, TwoBytesBack
<1> HIDE DEF a1, a2, a3, a4
<1>3. w = h \o body
  BY <1>2, <1>4, FourBytes
<1>5. h \in Seq(0 .. B - 1) /\ Len(h) = 4 /\ h[1] = a1 /\ h[2] = a2 /\ h[3] = a3 /\ h[4] = a4
  BY <1>4
<1>6. body \in Seq(0 .. B - 1)
  BY DEF C!Bytes, B
<1> HIDE DEF h
<1>7. /\ w \in Seq(0 .. B - 1) /\ Len(w) = 4 + n
      /\ \A i \in 1 .. 4 + n : w[i] = IF i <= 4 THEN h[i] ELSE body[i - 4]
  <2>1. /\ h \o body \in Seq(0 .. B - 1) /\ Len(h \o body) = Len(h) + Len(body)
        /\ \A i \in 1 .. Len(h) + Len(body) :
              (h \o body)[i] = IF i <= Len(h) THEN h[i] ELSE body[i - Len(h)]
    BY <1>5, <1>6, ConcatProperties
  <2> QED BY <1>3, <1>5, <2>1 DEF n
<1>8. w[1] = a1 /\ w[2] = a2 /\ w[3] = a3 /\ w[4] = a4
  BY <1>1, <1>5, <1>7
<1>9. \A i \in 1 .. n : w[4 + i] = body[i]
  <2> TAKE i \in 1 .. n
  <2>1. 4 + i \in 1 .. 4 + n /\ ~ 4 + i <= 4 /\ 4 + i - 4 = i
    BY <1>1
  <2> QED BY <1>7, <2>1
<1>10. C!le16(w, 0) = n /\ C!le16(w, 2) = c
  <2>1. C!le16(w, 0) = w[1] + B * w[2] /\ C!le16(w, 2) = w[3] + B * w[4]
    BY DEF C!le16, B
  <2> QED BY <1>4, <1>8, <2>1
<1>11. C!ValidHeader(w)
  BY <1>1, <1>10 DEF C!ValidHeader, c
<1> QED BY <1>7, <1>8, <1>9, <1>10, <1>11 DEF n, c, B, w, C!Bytes, a1, a2, a3, a4

\* A valid header and the bytes after it are a frame.
LEMMA FrameIn ==
    ASSUME NEW b \in Seq(C!Bytes), Len(b) >= 4, C!ValidHeader(b)
    PROVE  /\ C!le16(b, 0) \in 1 .. MaxBody
           /\ Len(b) >= 4 + C!le16(b, 0) =>
                /\ SubSeq(b, 5, 4 + C!le16(b, 0)) \in Seq(C!Bytes)
                /\ Len(SubSeq(b, 5, 4 + C!le16(b, 0))) = C!le16(b, 0)
                /\ Lies(C!encode(SubSeq(b, 5, 4 + C!le16(b, 0))), 0, b)
<1> DEFINE n == C!le16(b, 0)
           B == C!Base
           body == SubSeq(b, 5, 4 + n)
           w == C!encode(body)
<1>1. n = b[1] + B * b[2] /\ C!le16(b, 2) = b[3] + B * b[4]
  BY DEF C!le16
<1>2. /\ B \in Nat \ {0} /\ b[1] \in 0 .. B - 1 /\ b[2] \in 0 .. B - 1
      /\ b[3] \in 0 .. B - 1 /\ b[4] \in 0 .. B - 1 /\ Len(b) \in Nat
  <2>1. 1 \in 1 .. Len(b) /\ 2 \in 1 .. Len(b) /\ 3 \in 1 .. Len(b) /\ 4 \in 1 .. Len(b) /\ Len(b) \in Nat
    OBVIOUS
  <2>2. b[1] \in C!Bytes /\ b[2] \in C!Bytes /\ b[3] \in C!Bytes /\ b[4] \in C!Bytes
    BY <2>1
  <2>3. B \in Nat \ {0}
    BY CodecFacts
  <2> HIDE DEF B
  <2>4. C!Bytes = 0 .. B - 1
    BY DEF C!Bytes, B
  <2> QED BY <2>1, <2>2, <2>3, <2>4
<1>3. n # 0 /\ n <= MaxBody /\ C!le16(b, 2) = C!Check(n)
  BY DEF C!ValidHeader
<1> HIDE DEF n, B
<1>4. n \in 1 .. MaxBody /\ n \in Nat
  <2> DEFINE high == B * b[2]
  <2>1. high \in Nat /\ b[1] \in Nat /\ n = b[1] + high
    <3>1. B \in Nat /\ b[1] \in Nat /\ b[2] \in Nat
      BY <1>2
    <3>2. high \in Nat
      BY <3>1
    <3> QED BY <1>1, <3>1, <3>2
  <2> HIDE DEF high
  <2>2. n \in Nat /\ MaxBody \in Nat
    BY <2>1, CodecFacts
  <2> QED BY <1>3, <2>2
<1>5. /\ b[1] = n % B /\ b[2] = n \div B
      /\ b[3] = C!Check(n) % B /\ b[4] = C!Check(n) \div B
  <2>1. b[2] \in Nat /\ b[4] \in Nat
    BY <1>2
  <2>2. (b[1] + B * b[2]) % B = b[1] /\ (b[1] + B * b[2]) \div B = b[2]
    BY <1>2, <2>1, TwoBytes
  <2>3. (b[3] + B * b[4]) % B = b[3] /\ (b[3] + B * b[4]) \div B = b[4]
    BY <1>2, <2>1, TwoBytes
  <2> QED BY <1>1, <1>3, <2>2, <2>3
<1>6. ASSUME Len(b) >= 4 + n
      PROVE  body \in Seq(C!Bytes) /\ Len(body) = n /\ Lies(w, 0, b)
  <2>1. /\ body \in Seq(C!Bytes) /\ Len(body) = n
        /\ \A i \in 1 .. n : body[i] = b[4 + i]
    <3>1. 5 \in 1 .. Len(b) + 1 /\ 4 + n \in 5 - 1 .. Len(b)
      BY <1>2, <1>4, <1>6
    <3>2. /\ body \in Seq(C!Bytes) /\ Len(body) = (4 + n) - 5 + 1
          /\ \A i \in 1 .. (4 + n) - 5 + 1 : body[i] = b[5 + i - 1]
      BY <1>2, <1>4, <1>6, <3>1, SubSeqProperties
    <3>3. (4 + n) - 5 + 1 = n /\ \A i \in 1 .. n : 5 + i - 1 = 4 + i
      BY <1>4
    <3> QED BY <3>2, <3>3
  <2> HIDE DEF body
  <2>2. /\ Len(w) = 4 + n
        /\ w[1] = n % B /\ w[2] = n \div B
        /\ w[3] = C!Check(n) % B /\ w[4] = C!Check(n) \div B
        /\ \A i \in 1 .. n : w[4 + i] = body[i]
    BY <1>4, <2>1, Encoded DEF B
  <2> HIDE DEF w
  <2>3. ASSUME NEW i \in 1 .. Len(w) PROVE b[0 + i] = w[i]
    <3>1. CASE i \in {1, 2, 3, 4}
      BY <1>5, <2>2, <3>1
    <3>2. CASE i \notin {1, 2, 3, 4}
      <4>1. i - 4 \in 1 .. n /\ 4 + (i - 4) = i /\ 0 + i = i
        BY <1>4, <2>2, <3>2
      <4> QED BY <2>1, <2>2, <4>1
    <3> QED BY <3>1, <3>2
  <2>4. 0 + Len(w) <= Len(b)
    BY <1>4, <1>6, <2>2
  <2> QED BY <2>1, <2>3, <2>4 DEF Lies
<1> QED BY <1>4, <1>6 DEF n, body, w

\* What lies in the same place begins with the same header.
LEMMA SameHeader ==
    ASSUME NEW b, NEW w, NEW p, NEW st, Lies(b, p, st), Lies(w, p, st),
           Len(b) \in Nat, Len(w) \in Nat, Len(b) >= 4, Len(w) >= 4
    PROVE  C!le16(b, 0) = C!le16(w, 0) /\ (C!ValidHeader(b) <=> C!ValidHeader(w))
<1>1. b[1] = w[1] /\ b[2] = w[2] /\ b[3] = w[3] /\ b[4] = w[4]
  <2>1. /\ 1 \in 1 .. Len(b) /\ 2 \in 1 .. Len(b) /\ 3 \in 1 .. Len(b) /\ 4 \in 1 .. Len(b)
        /\ 1 \in 1 .. Len(w) /\ 2 \in 1 .. Len(w) /\ 3 \in 1 .. Len(w) /\ 4 \in 1 .. Len(w)
    OBVIOUS
  <2> QED BY <2>1 DEF Lies
<1>2. C!le16(b, 0) = C!le16(w, 0) /\ C!le16(b, 2) = C!le16(w, 2)
  BY <1>1 DEF C!le16
<1> QED BY <1>2 DEF C!ValidHeader

\* No frames are no bytes.
LEMMA TakenNone == C!Taken(<<>>) = 0
<1>1. Len(<<>>) = 0
  OBVIOUS
<1>2. PICK f : C!Taken(<<>>) = f[Len(<<>>)] /\ f[0] = 0
  BY <1>1, TakenSum
<1> QED BY <1>1, <1>2

\* A sum of frames is a number.
LEMMA TakenType ==
    ASSUME NEW q \in Seq(Delivered)
    PROVE  C!Taken(q) \in Int
<1>1. Len(q) \in Nat
  OBVIOUS
<1>2. PICK f : /\ C!Taken(q) = f[Len(q)] /\ f[0] = 0
               /\ \A i \in 1 .. Len(q) : f[i] = f[i - 1] + (q[i].end - q[i].at)
  BY <1>1, TakenSum
<1> DEFINE T == {i \in 0 .. Len(q) : f[i] \notin Int}
<1>3. T = {}
  <2> SUFFICES ASSUME T # {} PROVE FALSE
    OBVIOUS
  <2>1. T \in SUBSET Nat
    BY <1>1
  <2>2. PICK i \in T : \A j \in T : i <= j
    BY <2>1, LeastOne
  <2>3. i # 0
    BY <1>2, <2>2
  <2>4. i \in 1 .. Len(q) /\ i - 1 \in 0 .. Len(q) /\ ~ i <= i - 1
    BY <1>1, <2>2, <2>3
  <2>5. f[i - 1] \in Int
    BY <2>2, <2>4
  <2>6. q[i].end \in Nat /\ q[i].at \in Nat
    <3>1. q[i] \in Delivered
      BY <2>4
    <3> QED BY <3>1 DEF Delivered
  <2> QED BY SMTT(30), <1>2, <2>2, <2>4, <2>5, <2>6
<1> QED BY <1>1, <1>2, <1>3

\* Another frame adds its bytes.
LEMMA TakenMore ==
    ASSUME NEW q \in Seq(Delivered), NEW f \in Delivered
    PROVE  C!Taken(Append(q, f)) = C!Taken(q) + (f.end - f.at)
<1> DEFINE r == Append(q, f)
           n == Len(q)
<1>1. /\ n \in Nat /\ Len(r) = n + 1 /\ r[n + 1] = f
      /\ \A i \in 1 .. n : r[i] = q[i]
  OBVIOUS
<1> HIDE DEF r, n
<1>2. PICK g : /\ C!Taken(q) = g[n] /\ g[0] = 0
               /\ \A i \in 1 .. n : g[i] = g[i - 1] + (q[i].end - q[i].at)
  BY <1>1, TakenSum DEF n
<1>3. PICK h : /\ C!Taken(r) = h[n + 1] /\ h[0] = 0
               /\ \A i \in 1 .. n + 1 : h[i] = h[i - 1] + (r[i].end - r[i].at)
  <2>1. n + 1 \in Nat
    BY <1>1
  <2>2. \E h : /\ C!Taken(r) = h[Len(r)] /\ h[0] = 0
               /\ \A i \in 1 .. Len(r) : h[i] = h[i - 1] + (r[i].end - r[i].at)
    BY <1>1, <2>1, TakenSum
  <2> QED BY <1>1, <2>2
<1> DEFINE T == {i \in 0 .. n : h[i] # g[i]}
<1>4. T = {}
  <2> SUFFICES ASSUME T # {} PROVE FALSE
    OBVIOUS
  <2>1. T \in SUBSET Nat
    BY <1>1
  <2>2. PICK i \in T : \A j \in T : i <= j
    BY <2>1, LeastOne
  <2>3. i # 0
    BY <1>2, <1>3, <2>2
  <2>4. i \in 1 .. n /\ i \in 1 .. n + 1 /\ i - 1 \in 0 .. n /\ ~ i <= i - 1
    BY <1>1, <2>2, <2>3
  <2>5. i - 1 \notin T
    BY <2>2, <2>4
  <2>6. h[i - 1] = g[i - 1] /\ r[i] = q[i]
    BY <1>1, <2>4, <2>5
  <2>7. h[i] = g[i]
    BY <1>2, <1>3, <2>4, <2>6
  <2> QED BY <2>2, <2>7
<1>5. h[n] = g[n]
  BY <1>1, <1>4
<1>6. n + 1 \in 1 .. n + 1 /\ n + 1 - 1 = n
  BY <1>1
<1>7. h[n + 1] = h[n] + (f.end - f.at)
  BY <1>1, <1>3, <1>6
<1> QED BY <1>2, <1>3, <1>5, <1>7 DEF r
----------------------------------------------------------------------------
\* More bytes on the wire change nothing before them.
LEMMA LiesOn ==
    ASSUME NEW w, NEW p \in Nat, NEW st, NEW t, Lies(w, p, st), Continues(st, t),
           Len(w) \in Nat, Len(st) \in Nat, Len(t) \in Nat
    PROVE  Lies(w, p, t)
<1>1. \A i \in 1 .. Len(w) : p + i \in 1 .. Len(st)
  BY DEF Lies
<1> QED BY <1>1 DEF Lies, Continues

\* Bytes appended lie behind those there were.
LEMMA WireGrows ==
    ASSUME NEW st \in Seq(C!Bytes), NEW w \in Seq(C!Bytes)
    PROVE  /\ st \o w \in Seq(C!Bytes) /\ Len(st \o w) = Len(st) + Len(w)
           /\ Continues(st, st \o w) /\ Lies(w, Len(st), st \o w)
<1> DEFINE t == st \o w
           p == Len(st)
<1>1. /\ t \in Seq(C!Bytes) /\ Len(t) = p + Len(w)
      /\ \A i \in 1 .. p + Len(w) : t[i] = IF i <= p THEN st[i] ELSE w[i - p]
  BY ConcatProperties
<1>2. p \in Nat /\ Len(w) \in Nat
  OBVIOUS
<1> HIDE DEF t, p
<1>3. \A i \in 1 .. p : t[i] = st[i]
  BY <1>1, <1>2
<1>4. ASSUME NEW i \in 1 .. Len(w) PROVE t[p + i] = w[i]
  <2>1. p + i \in 1 .. p + Len(w) /\ ~ p + i <= p /\ (p + i) - p = i
    BY <1>2
  <2> QED BY <1>1, <2>1
<1>5. Continues(st, t)
  BY <1>1, <1>2, <1>3 DEF Continues, p
<1>6. Lies(w, p, t)
  BY <1>1, <1>2, <1>4 DEF Lies
<1> QED BY <1>1, <1>5, <1>6 DEF t, p

\* The places of n bytes behind a.
LEMMA Stretches ==
    ASSUME NEW a \in Nat, NEW n \in Nat, n >= 1, NEW z, z = a + n
    PROVE  /\ z - (a + 1) + 1 = n /\ a + 1 <= z
           /\ \A j \in 1 .. n : (a + 1) + j - 1 = a + j
  OBVIOUS

\* The frames sent stay where they are.
LEMMA SentOn ==
    ASSUME NEW S, NEW st, NEW t, SentIn(S, st), Continues(st, t),
           Len(st) \in Nat, Len(t) \in Nat
    PROVE  SentIn(S, t)
<1> SUFFICES ASSUME NEW s \in S
             PROVE  /\ s \in Nat \X Nat
                    /\ \E body \in Seq(C!Bytes) :
                         /\ Len(body) \in 1 .. MaxBody /\ s[2] = s[1] + 4 + Len(body)
                         /\ Lies(C!encode(body), s[1], t)
  BY DEF SentIn
<1>1. s \in Nat \X Nat /\ s[1] \in Nat
  BY DEF SentIn
<1>2. PICK body \in Seq(C!Bytes) :
          /\ Len(body) \in 1 .. MaxBody /\ s[2] = s[1] + 4 + Len(body)
          /\ Lies(C!encode(body), s[1], st)
  BY DEF SentIn
<1>3. Len(C!encode(body)) \in Nat
  BY <1>2, Encoded
<1>4. Lies(C!encode(body), s[1], t)
  BY <1>1, <1>2, <1>3, LiesOn
<1> QED BY <1>1, <1>2, <1>4

\* What the decoder has done stays true.
LEMMA DecodedOn ==
    ASSUME NEW d, NEW S, NEW st, NEW t, Decoded(d, st, S), Continues(st, t),
           Len(st) \in Nat, Len(t) \in Nat
    PROVE  Decoded(d, t, S)
<1>1. /\ d \in Decoder /\ d.at \in Nat /\ d.buffer \in Seq(C!Bytes) /\ d.out \in Seq(Delivered)
      /\ Len(d.buffer) \in Nat /\ Len(d.buffer) <= d.at /\ Gone(d) \in Nat
  BY DEF Decoded, Decoder, Gone
<1>2. d.at <= Len(t)
  BY <1>1 DEF Decoded, Continues
<1>3. Lies(d.buffer, Gone(d), t)
  BY <1>1, LiesOn DEF Decoded
<1>4. ASSUME NEW i \in 1 .. Len(d.out) PROVE Framed(d.out[i], t) /\ d.out[i].end <= Gone(d)
  <2> DEFINE f == d.out[i]
  <2>1. f \in Delivered /\ Framed(f, st) /\ f.end <= Gone(d)
    BY <1>1, <1>4 DEF Decoded
  <2> HIDE DEF f
  <2>2. f.at \in Nat /\ f.body \in Seq(C!Bytes) /\ Len(f.body) \in 1 .. MaxBody
    BY <2>1 DEF Delivered, Framed
  <2>3. Len(C!encode(f.body)) \in Nat
    BY <2>2, Encoded
  <2>4. Lies(C!encode(f.body), f.at, t)
    BY <2>1, <2>2, <2>3, LiesOn DEF Framed
  <2> QED BY <2>1, <2>4 DEF Framed, f
<1> QED BY <1>1, <1>2, <1>3, <1>4 DEF Decoded

\* A pass of the loop leaves a decoder that waits as it is.
LEMMA WaitingPass ==
    ASSUME NEW d, Waiting(d.buffer), Len(d.buffer) \in Nat
    PROVE  C!Pass(d) = d
  BY DEF Waiting, C!Pass, C!HeaderSize

\* What takes the new byte: the decoder before its loop.
Pushed(d, b) == [d EXCEPT !.buffer = Append(@, b), !.at = @ + 1]

\* Taking a byte from the wire keeps all but the waiting.
LEMMA PushedType ==
    ASSUME NEW d, NEW st \in Seq(C!Bytes), NEW S, Decoded(d, st, S), d.at < Len(st)
    PROVE  LET e == Pushed(d, st[d.at + 1])
           IN  /\ e \in Decoder /\ e.at = d.at + 1 /\ Len(e.buffer) = Len(d.buffer) + 1
               /\ e.out = d.out /\ e.discarded = d.discarded
               /\ \A i \in 1 .. Len(d.buffer) : e.buffer[i] = d.buffer[i]
               /\ Gone(e) = Gone(d) /\ Decoded(e, st, S)
<1> DEFINE b == st[d.at + 1]
           e == Pushed(d, b)
<1>1. /\ d \in Decoder /\ d.at \in Nat /\ d.buffer \in Seq(C!Bytes) /\ d.out \in Seq(Delivered)
      /\ Len(d.buffer) \in Nat /\ Len(d.buffer) <= d.at /\ Gone(d) \in Nat /\ d.discarded \in Nat
      /\ Len(st) \in Nat
  BY DEF Decoded, Decoder, Gone
<1>2. b \in C!Bytes
  <2>1. d.at + 1 \in 1 .. Len(st)
    BY <1>1
  <2> QED BY <2>1
<1>3. /\ e \in Decoder /\ e.at = d.at + 1 /\ e.buffer = Append(d.buffer, b)
      /\ e.out = d.out /\ e.discarded = d.discarded
  <2> DEFINE x == Append(d.buffer, b)
             y == d.at + 1
  <2>1. x \in Seq(C!Bytes) /\ y \in Nat
    BY <1>1, <1>2, AppendProperties
  <2>2. e = [d EXCEPT !.buffer = x, !.at = y]
    BY DEF Pushed
  <2> HIDE DEF x, y, e
  <2>3. /\ e \in Decoder /\ e.at = y /\ e.buffer = x
        /\ e.out = d.out /\ e.discarded = d.discarded
    BY <1>1, <2>1, <2>2 DEF Decoder
  <2> QED BY <2>3 DEF x, y
<1> HIDE DEF e
<1>4. /\ Len(e.buffer) = Len(d.buffer) + 1 /\ e.buffer[Len(d.buffer) + 1] = b
      /\ \A i \in 1 .. Len(d.buffer) : e.buffer[i] = d.buffer[i]
  BY <1>1, <1>2, <1>3, AppendProperties
<1>5. Gone(e) = Gone(d)
  <2>1. Gone(e) = e.at - Len(e.buffer) /\ Gone(d) = d.at - Len(d.buffer)
    BY DEF Gone
  <2> DEFINE k == Len(d.buffer)
  <2>2. d.at \in Nat /\ k \in Nat /\ e.at = d.at + 1 /\ Len(e.buffer) = k + 1
    BY <1>1, <1>3, <1>4
  <2>3. Gone(d) = d.at - k
    BY <2>1
  <2> HIDE DEF k
  <2> QED BY SMTT(30), <2>1, <2>2, <2>3
<1>6. Lies(e.buffer, Gone(d), st)
  <2>1. Gone(d) + Len(e.buffer) <= Len(st)
    BY <1>1, <1>4 DEF Gone
  <2>2. ASSUME NEW i \in 1 .. Len(e.buffer) PROVE st[Gone(d) + i] = e.buffer[i]
    <3>1. CASE i = Len(d.buffer) + 1
      <4> HIDE DEF b
      <4>1. Gone(d) = d.at - Len(d.buffer)
        BY DEF Gone
      <4>2. Gone(d) + i = d.at + 1
        BY <1>1, <3>1, <4>1
      <4> QED BY <1>4, <3>1, <4>2 DEF b
    <3>2. CASE i # Len(d.buffer) + 1
      <4>1. i \in 1 .. Len(d.buffer)
        BY <1>1, <1>4, <2>2, <3>2
      <4> QED BY <1>4, <4>1 DEF Decoded, Lies
    <3> QED BY <3>1, <3>2
  <2> QED BY <2>1, <2>2 DEF Lies
<1>7. Decoded(e, st, S)
  BY <1>1, <1>3, <1>4, <1>5, <1>6 DEF Decoded
<1> QED BY <1>3, <1>4, <1>5, <1>7 DEF e

\* A header that was sent is met as one: no frame begins where the decoder
\* finds an invalid header.
LEMMA HeaderSent ==
    ASSUME NEW e, NEW st \in Seq(C!Bytes), NEW S, Decoded(e, st, S), SentIn(S, st),
           Len(e.buffer) >= 4, NEW s \in S, s[1] = Gone(e)
    PROVE  C!ValidHeader(e.buffer) /\ s = <<Gone(e), Gone(e) + 4 + C!le16(e.buffer, 0)>>
<1>1. s \in Nat \X Nat
  BY DEF SentIn
<1>2. PICK body \in Seq(C!Bytes) :
          /\ Len(body) \in 1 .. MaxBody /\ s[2] = s[1] + 4 + Len(body)
          /\ Lies(C!encode(body), s[1], st)
  BY DEF SentIn
<1>3. /\ Len(C!encode(body)) = 4 + Len(body) /\ Len(body) \in Nat
      /\ C!le16(C!encode(body), 0) = Len(body) /\ C!ValidHeader(C!encode(body))
  BY <1>2, Encoded
<1>4. Lies(e.buffer, Gone(e), st) /\ Len(e.buffer) \in Nat
  BY DEF Decoded, Decoder
<1>5. Len(C!encode(body)) \in Nat /\ Len(C!encode(body)) >= 4
  BY <1>3
<1>6. /\ C!le16(e.buffer, 0) = C!le16(C!encode(body), 0)
      /\ C!ValidHeader(e.buffer) <=> C!ValidHeader(C!encode(body))
  BY <1>2, <1>4, <1>5, SameHeader
<1>7. s = <<s[1], s[2]>>
  BY <1>1
<1> QED BY <1>2, <1>3, <1>6, <1>7

\* The byte after an invalid header: the decoder slides by one.
LEMMA SlideStep ==
    ASSUME NEW e, NEW st \in Seq(C!Bytes), NEW S, Decoded(e, st, S), SentIn(S, st),
           Len(e.buffer) >= 4, ~ C!ValidHeader(e.buffer)
    PROVE  /\ Decoded(C!Slide(e), st, S) /\ C!Slide(e).at = e.at
           /\ Len(C!Slide(e).buffer) = Len(e.buffer) - 1
<1> DEFINE p == C!Slide(e)
           b == e.buffer
           x == Tail(b)
           y == e.discarded + 1
<1>1. /\ e \in Decoder /\ e.at \in Nat /\ b \in Seq(C!Bytes) /\ e.out \in Seq(Delivered)
      /\ Len(b) \in Nat /\ Len(b) <= e.at /\ Gone(e) \in Nat /\ e.discarded \in Nat
      /\ Len(st) \in Nat /\ Gone(e) = e.at - Len(b)
  BY DEF Decoded, Decoder, Gone
<1>2. /\ x \in Seq(C!Bytes) /\ Len(x) = Len(b) - 1
      /\ \A i \in 1 .. Len(x) : x[i] = b[i + 1]
  BY <1>1, HeadTailProperties
<1>3. /\ p \in Decoder /\ p.at = e.at /\ p.buffer = x /\ p.out = e.out /\ p.discarded = y
  <2>1. p = [e EXCEPT !.buffer = x, !.discarded = y]
    BY DEF C!Slide
  <2>2. y \in Nat
    BY <1>1
  <2> HIDE DEF x, y, p
  <2> QED BY <1>1, <1>2, <2>1, <2>2 DEF Decoder
<1> HIDE DEF p, x, b
<1>4. Gone(p) = Gone(e) + 1 /\ Gone(p) \in Nat
  <2>1. Gone(p) = e.at - Len(x)
    BY <1>3 DEF Gone
  <2> QED BY <1>1, <1>2, <2>1
<1>5. Lies(x, Gone(p), st)
  <2>1. Lies(b, Gone(e), st)
    BY DEF Decoded, b
  <2>2. Gone(p) + Len(x) <= Len(st)
    BY <1>1, <1>2, <1>4, <2>1 DEF Lies
  <2>3. ASSUME NEW i \in 1 .. Len(x) PROVE st[Gone(p) + i] = x[i]
    <3>1. i + 1 \in 1 .. Len(b) /\ i \in Nat
      BY <1>1, <1>2, <2>3
    <3>2. Gone(p) + i = Gone(e) + (i + 1)
      <4>1. Gone(e) \in Nat
        BY <1>1
      <4> QED BY <1>4, <3>1, <4>1
    <3> QED BY <1>2, <2>1, <3>1, <3>2 DEF Lies
  <2> QED BY <2>2, <2>3 DEF Lies
<1>6. ASSUME NEW i \in 1 .. Len(p.out) PROVE Framed(p.out[i], st) /\ p.out[i].end <= Gone(p)
  <2>1. Framed(e.out[i], st) /\ e.out[i].end <= Gone(e) /\ e.out[i] \in Delivered
    BY <1>1, <1>3, <1>6 DEF Decoded
  <2>2. e.out[i].end \in Nat
    BY <2>1 DEF Delivered
  <2>3. Gone(e) \in Nat /\ e.out[i].end <= Gone(p)
    BY SMTT(30), <1>1, <1>4, <2>1, <2>2
  <2> QED BY SMTT(30), <1>3, <2>1, <2>3
<1>7. p.discarded + C!Taken(p.out) = Gone(p)
  <2> DEFINE t == C!Taken(e.out)
  <2>1. e.discarded + t = Gone(e) /\ p.discarded = e.discarded + 1 /\ p.out = e.out
    BY <1>3 DEF Decoded
  <2>2. t \in Int
    BY <1>1, TakenType
  <2> HIDE DEF t
  <2>3. (e.discarded + 1) + t = Gone(e) + 1
    BY <1>1, <2>1, <2>2
  <2> QED BY <1>4, <2>1, <2>3 DEF t
<1>8. ASSUME NEW s \in S, s[1] < Gone(p) PROVE Met(s, p.out)
  <2>1. s[1] # Gone(e)
    BY HeaderSent
  <2>2. s[1] \in Nat
    BY DEF SentIn
  <2>3. s[1] < Gone(e)
    BY <1>1, <1>4, <1>8, <2>1, <2>2
  <2> QED BY <1>3, <2>3 DEF Decoded
<1>9. \A i, j \in 1 .. Len(p.out) : i < j => p.out[i].end <= p.out[j].at
  BY <1>3 DEF Decoded
<1>10. p.at <= Len(st) /\ Len(p.buffer) <= p.at
  BY <1>1, <1>2, <1>3 DEF Decoded
<1> QED BY <1>2, <1>3, <1>5, <1>6, <1>7, <1>8, <1>9, <1>10 DEF Decoded, p, b

\* A complete frame at the front, which the byte just pushed completed.
LEMMA TakeStep ==
    ASSUME NEW e, NEW st \in Seq(C!Bytes), NEW S, Decoded(e, st, S), SentIn(S, st),
           Len(e.buffer) >= 4, C!ValidHeader(e.buffer),
           Len(e.buffer) = 4 + C!le16(e.buffer, 0)
    PROVE  /\ Decoded(C!Take(e), st, S) /\ C!Take(e).at = e.at
           /\ C!Take(e).buffer = <<>>
<1> DEFINE p == C!Take(e)
           b == e.buffer
           n == C!le16(b, 0)
           body == SubSeq(b, 5, 4 + n)
           f == [at |-> Gone(e), end |-> Gone(e) + (4 + n), body |-> body]
           q == Append(e.out, f)
<1>1. /\ e \in Decoder /\ e.at \in Nat /\ b \in Seq(C!Bytes) /\ e.out \in Seq(Delivered)
      /\ Len(b) \in Nat /\ Len(b) <= e.at /\ Gone(e) \in Nat /\ e.discarded \in Nat
      /\ Len(st) \in Nat /\ Gone(e) = e.at - Len(b) /\ Len(e.out) \in Nat
  BY DEF Decoded, Decoder, Gone
<1>2. /\ n \in 1 .. MaxBody /\ n \in Nat /\ Len(b) = 4 + n
      /\ body \in Seq(C!Bytes) /\ Len(body) = n /\ Lies(C!encode(body), 0, b)
  <2>1. n \in 1 .. MaxBody /\ n \in Nat
    BY <1>1, FrameIn, CodecFacts
  <2>2. Len(b) >= 4 + n
    BY <1>1
  <2> QED BY <1>1, <2>1, <2>2, FrameIn
<1>3. p = [e EXCEPT !.buffer = <<>>, !.out = q]
  <2>1. SubSeq(b, (4 + n) + 1, Len(b)) = <<>>
    <3>1. (4 + n) + 1 \in Int /\ Len(b) \in Int /\ Len(b) < (4 + n) + 1
      <4>1. n \in Nat /\ Len(b) = 4 + n
        BY <1>2
      <4> HIDE DEF n, b
      <4> QED BY <4>1
    <3> QED BY <3>1, SubSeqEmpty
  <2>2. f = [at |-> e.at - Len(b), end |-> e.at - Len(b) + (4 + n), body |-> SubSeq(b, 4 + 1, 4 + n)]
    BY DEF Gone
  <2>3. p = [e EXCEPT !.buffer = SubSeq(b, (4 + n) + 1, Len(b)),
                      !.out = Append(e.out, [at |-> e.at - Len(b), end |-> e.at - Len(b) + (4 + n),
                                             body |-> SubSeq(b, 4 + 1, 4 + n)])]
    BY DEF C!Take, C!HeaderSize
  <2> QED BY <2>1, <2>2, <2>3
<1> HIDE DEF p, n, body, b
<1>4. f \in Delivered /\ f.at = Gone(e) /\ f.end = Gone(e) + (4 + n) /\ f.body = body
  BY <1>1, <1>2 DEF Delivered
<1> HIDE DEF f
<1>5. /\ q \in Seq(Delivered) /\ Len(q) = Len(e.out) + 1 /\ q[Len(e.out) + 1] = f
      /\ \A i \in 1 .. Len(e.out) : q[i] = e.out[i]
  BY <1>1, <1>4, AppendProperties
<1>6. C!Taken(q) = C!Taken(e.out) + (f.end - f.at)
  BY <1>1, <1>4, TakenMore
<1> HIDE DEF q
<1>7. /\ p \in Decoder /\ p.at = e.at /\ p.buffer = <<>> /\ p.out = q /\ p.discarded = e.discarded
  <2> DEFINE none == <<>>
  <2>1. none \in Seq(C!Bytes) /\ p = [e EXCEPT !.buffer = none, !.out = q]
    BY <1>3
  <2> HIDE DEF none
  <2>2. p \in Decoder /\ p.at = e.at /\ p.buffer = none /\ p.out = q /\ p.discarded = e.discarded
    BY <1>1, <1>5, <2>1 DEF Decoder
  <2> QED BY <2>2 DEF none
<1>8. Gone(p) = e.at /\ e.at = Gone(e) + (4 + n)
  <2>1. Gone(p) = e.at - Len(<<>>) /\ Len(<<>>) = 0
    BY <1>7 DEF Gone
  <2> QED BY <1>1, <1>2, <2>1
<1>9. e.at <= Len(st) /\ Lies(b, Gone(e), st)
  BY DEF Decoded, b
<1>10. Framed(f, st)
  <2> DEFINE w == C!encode(body)
  <2>1. Len(w) = 4 + n
    BY <1>2, Encoded
  <2>2. ASSUME NEW i \in 1 .. Len(w) PROVE st[Gone(e) + i] = w[i]
    <3>1. i \in Nat /\ i \in 1 .. Len(b) /\ 0 + i = i
      BY <1>2, <2>1
    <3>2. b[i] = w[i]
      BY <1>2, <3>1 DEF Lies
    <3> QED BY <1>9, <3>1, <3>2 DEF Lies
  <2>3. Lies(w, Gone(e), st)
    BY <1>8, <1>9, <2>1, <2>2 DEF Lies
  <2>4. f.end = f.at + 4 + Len(f.body)
    BY <1>1, <1>2, <1>4
  <2> QED BY <1>2, <1>4, <2>3, <2>4 DEF Framed
<1>11. ASSUME NEW i \in 1 .. Len(q) PROVE Framed(q[i], st) /\ q[i].end <= Gone(p)
  <2>1. CASE i = Len(e.out) + 1
    BY <1>1, <1>4, <1>5, <1>8, <1>10, <2>1
  <2>2. CASE i # Len(e.out) + 1
    <3>1. i \in 1 .. Len(e.out)
      BY <1>1, <1>5, <1>11, <2>2
    <3>2. Framed(q[i], st) /\ q[i].end <= Gone(e) /\ q[i] \in Delivered
      <4>1. Framed(e.out[i], st) /\ e.out[i].end <= Gone(e)
        BY <3>1 DEF Decoded
      <4>2. e.out[i] \in Delivered /\ q[i] = e.out[i]
        BY <1>1, <1>5, <3>1
      <4> QED BY <4>1, <4>2
    <3>3. q[i].end \in Nat
      BY <3>2 DEF Delivered
    <3>4. Gone(e) \in Nat /\ n \in Nat
      BY <1>1, <1>2
    <3> QED BY <1>8, <3>2, <3>3, <3>4
  <2> QED BY <2>1, <2>2
<1>12. ASSUME NEW i \in 1 .. Len(q), NEW j \in 1 .. Len(q), i < j PROVE q[i].end <= q[j].at
  <2>1. i \in 1 .. Len(e.out)
    BY <1>1, <1>5, <1>12
  <2>2. CASE j = Len(e.out) + 1
    <3>1. q[i].end <= Gone(e) /\ q[j].at = Gone(e)
      BY <1>4, <1>5, <2>1, <2>2 DEF Decoded
    <3> QED BY <3>1
  <2>3. CASE j # Len(e.out) + 1
    <3>1. j \in 1 .. Len(e.out)
      BY <1>1, <1>5, <1>12, <2>3
    <3> QED BY <1>5, <1>12, <2>1, <3>1 DEF Decoded
  <2> QED BY <2>2, <2>3
<1>13. p.discarded + C!Taken(p.out) = Gone(p)
  <2> DEFINE t == C!Taken(e.out)
  <2>1. e.discarded + t = Gone(e) /\ p.discarded = e.discarded /\ p.out = q
    BY <1>7 DEF Decoded
  <2>2. t \in Int
    BY <1>1, TakenType
  <2>3. C!Taken(q) = t + (4 + n)
    BY <1>1, <1>2, <1>4, <1>6
  <2> HIDE DEF t
  <2>4. e.discarded + (t + (4 + n)) = Gone(e) + (4 + n)
    <3>1. e.discarded \in Nat /\ n \in Nat /\ Gone(e) \in Nat
      BY <1>1, <1>2
    <3> DEFINE m == 4 + n
    <3>2. m \in Nat
      BY <3>1
    <3> HIDE DEF m
    <3>3. e.discarded + (t + m) = Gone(e) + m
      BY <2>1, <2>2, <3>1, <3>2
    <3> QED BY <3>3 DEF m
  <2> QED BY <1>8, <2>1, <2>3, <2>4
<1>14. ASSUME NEW s \in S, s[1] < Gone(p) PROVE Met(s, q)
  <2>1. s[1] \in Nat
    BY DEF SentIn
  <2>2. Len(e.out) + 1 \in 1 .. Len(q)
    BY <1>1, <1>5
  <2>3. CASE s[1] < Gone(e)
    <3>1. PICK i \in 1 .. Len(e.out) :
             \/ <<e.out[i].at, e.out[i].end>> = s
             \/ (e.out[i].at < s[1] /\ s[1] < e.out[i].end)
      BY <2>3 DEF Decoded, Met
    <3>2. i \in 1 .. Len(q) /\ q[i] = e.out[i]
      BY <1>1, <1>5
    <3> QED BY <3>1, <3>2 DEF Met
  <2>4. CASE s[1] = Gone(e)
    <3>1. s = <<Gone(e), Gone(e) + 4 + n>>
      BY <2>4, HeaderSent DEF n, b
    <3>2. Gone(e) + 4 + n = Gone(e) + (4 + n)
      BY <1>1, <1>2
    <3>3. <<f.at, f.end>> = s
      BY <1>4, <3>1, <3>2
    <3> QED BY <1>5, <2>2, <3>3 DEF Met
  <2>5. CASE s[1] > Gone(e)
    <3>1. f.at < s[1] /\ s[1] < f.end
      BY <1>1, <1>4, <1>8, <1>14, <2>1, <2>5
    <3> QED BY <1>5, <2>2, <3>1 DEF Met
  <2> QED BY <1>1, <2>1, <2>3, <2>4, <2>5
<1>15. p.at <= Len(st) /\ Len(p.buffer) <= p.at /\ Lies(p.buffer, Gone(p), st)
  <2>1. Len(p.buffer) = 0
    BY <1>7
  <2> QED BY <1>1, <1>7, <1>8, <1>9, <2>1 DEF Lies
<1> QED BY <1>7, <1>11, <1>12, <1>13, <1>14, <1>15 DEF Decoded, p

\* One byte: at most one pass changes the decoder.
LEMMA PushStep ==
    ASSUME NEW d, NEW st \in Seq(C!Bytes), NEW S, Decoded(d, st, S), SentIn(S, st),
           Waiting(d.buffer), d.at < Len(st)
    PROVE  LET p == C!Push(d, st[d.at + 1])
           IN  Decoded(p, st, S) /\ Waiting(p.buffer) /\ p.at = d.at + 1
<1> DEFINE e == Pushed(d, st[d.at + 1])
           p == C!Pass(e)
           n == C!le16(e.buffer, 0)
<1>1. /\ e \in Decoder /\ e.at = d.at + 1 /\ Len(e.buffer) = Len(d.buffer) + 1
      /\ e.out = d.out /\ e.discarded = d.discarded
      /\ \A i \in 1 .. Len(d.buffer) : e.buffer[i] = d.buffer[i]
      /\ Gone(e) = Gone(d) /\ Decoded(e, st, S)
  BY PushedType
<1>2. Len(d.buffer) \in Nat /\ Len(e.buffer) \in Nat /\ e.buffer \in Seq(C!Bytes)
  BY <1>1 DEF Decoded, Decoder
<1>3. C!Push(d, st[d.at + 1]) = C!Settle(e)
  BY DEF C!Push, Pushed
<1> HIDE DEF e
<1>4. ASSUME Len(d.buffer) >= 4
      PROVE  C!ValidHeader(e.buffer) /\ Len(d.buffer) < 4 + n
  <2>1. Lies(d.buffer, Gone(d), st) /\ Lies(e.buffer, Gone(d), st)
    BY <1>1 DEF Decoded
  <2>2. Len(e.buffer) >= 4
    BY <1>1, <1>2, <1>4
  <2>3. n = C!le16(d.buffer, 0) /\ (C!ValidHeader(d.buffer) <=> C!ValidHeader(e.buffer))
    BY <1>2, <1>4, <2>1, <2>2, SameHeader
  <2>4. C!ValidHeader(d.buffer) /\ Len(d.buffer) < 4 + C!le16(d.buffer, 0)
    BY <1>2, <1>4 DEF Waiting
  <2> QED BY <2>3, <2>4
<1>5. Decoded(p, st, S) /\ Waiting(p.buffer) /\ p.at = e.at
  <2>1. CASE Len(e.buffer) < 4
    <3>1. p = e
      BY <2>1 DEF C!Pass, C!HeaderSize
    <3> QED BY <1>1, <2>1, <3>1 DEF Waiting
  <2>2. CASE Len(e.buffer) >= 4 /\ ~ C!ValidHeader(e.buffer)
    <3>1. p = C!Slide(e)
      BY <1>2, <2>2 DEF C!Pass, C!HeaderSize
    <3>2. Decoded(p, st, S) /\ p.at = e.at /\ Len(p.buffer) = Len(e.buffer) - 1
      BY <1>1, <2>2, <3>1, SlideStep
    <3>3. Len(p.buffer) < 4
      BY <1>1, <1>2, <1>4, <2>2, <3>2
    <3> QED BY <3>2, <3>3 DEF Waiting
  <2>3. CASE Len(e.buffer) >= 4 /\ C!ValidHeader(e.buffer) /\ Len(e.buffer) < 4 + n
    <3>1. p = e
      BY <1>2, <2>3 DEF C!Pass, C!HeaderSize
    <3> QED BY <1>1, <2>3, <3>1 DEF Waiting
  <2>4. CASE Len(e.buffer) >= 4 /\ C!ValidHeader(e.buffer) /\ ~ Len(e.buffer) < 4 + n
    <3>1. p = C!Take(e)
      BY <1>2, <2>4 DEF C!Pass, C!HeaderSize
    <3>2. n \in 1 .. MaxBody /\ n \in Nat
      BY <1>2, <2>4, FrameIn, CodecFacts
    <3>3. Len(e.buffer) = 4 + n
      BY <1>1, <1>2, <1>4, <2>4, <3>2
    <3>4. Decoded(p, st, S) /\ p.at = e.at /\ p.buffer = <<>>
      BY <1>1, <2>4, <3>1, <3>3, TakeStep
    <3>5. Len(p.buffer) < 4
      BY <3>4
    <3> QED BY <3>4, <3>5 DEF Waiting
  <2> QED BY <1>2, <2>1, <2>2, <2>3, <2>4
<1>6. C!Settle(e) = p
  <2>1. PICK f : /\ C!Settle(e) = f[Len(e.buffer)] /\ f[0] = e
                 /\ \A i \in 1 .. Len(e.buffer) : f[i] = C!Pass(f[i - 1])
    BY <1>2, SettlePasses
  <2>2. C!Pass(p) = p
    <3>1. Len(p.buffer) \in Nat
      BY <1>5 DEF Decoded, Decoder
    <3> HIDE DEF p
    <3> QED BY <1>5, <3>1, WaitingPass
  <2> DEFINE T == {i \in 1 .. Len(e.buffer) : f[i] # p}
  <2>3. T = {}
    <3> SUFFICES ASSUME T # {} PROVE FALSE
      OBVIOUS
    <3>1. T \in SUBSET Nat
      BY <1>2
    <3>2. PICK i \in T : \A j \in T : i <= j
      BY <3>1, LeastOne
    <3>3. i \in 1 .. Len(e.buffer) /\ f[i] # p
      BY <3>2
    <3>4. i # 1
      <4>1. 1 - 1 = 0
        OBVIOUS
      <4> QED BY <2>1, <3>3, <4>1
    <3>5. i - 1 \in 1 .. Len(e.buffer) /\ ~ i <= i - 1
      BY <1>2, <3>3, <3>4
    <3>6. f[i - 1] = p
      BY <3>2, <3>5
    <3>7. f[i] = p
      BY <2>1, <2>2, <3>3, <3>6
    <3> QED BY <3>3, <3>7
  <2>4. Len(e.buffer) \in 1 .. Len(e.buffer)
    BY <1>1, <1>2
  <2> QED BY <2>1, <2>3, <2>4
<1> QED BY <1>1, <1>3, <1>5, <1>6

\* A chunk: byte after byte.
LEMMA ChunkStep ==
    ASSUME NEW d, NEW st \in Seq(C!Bytes), NEW S, Decoded(d, st, S), SentIn(S, st),
           Waiting(d.buffer), NEW n \in 0 .. Len(st) - d.at
    PROVE  LET e == C!feed(d, SubSeq(st, d.at + 1, d.at + n))
           IN  Decoded(e, st, S) /\ Waiting(e.buffer) /\ e.at = d.at + n
<1> DEFINE chunk == SubSeq(st, d.at + 1, d.at + n)
<1>1. Len(st) \in Nat /\ d.at \in Nat /\ n \in Nat /\ d.at + n <= Len(st)
  BY DEF Decoded, Decoder
<1>2. Len(chunk) = n /\ \A i \in 1 .. n : chunk[i] = st[d.at + i]
  <2>1. \A i \in d.at + 1 .. d.at + n : st[i] \in C!Bytes
    BY <1>1
  <2>2. d.at + 1 \in Int /\ d.at + n \in Int
    BY <1>1
  <2>3. /\ Len(chunk) = IF d.at + 1 <= d.at + n THEN (d.at + n) - (d.at + 1) + 1 ELSE 0
        /\ \A i \in 1 .. (d.at + n) - (d.at + 1) + 1 : chunk[i] = st[(d.at + 1) + i - 1]
    BY <2>1, <2>2, SubSeqProperties
  <2> HIDE DEF chunk
  <2>4. (d.at + n) - (d.at + 1) + 1 = n /\ \A i \in 1 .. n : (d.at + 1) + i - 1 = d.at + i
    BY <1>1
  <2>5. Len(chunk) = n
    BY <1>1, <2>3
  <2> QED BY <2>3, <2>4, <2>5
<1> HIDE DEF chunk
<1>3. PICK f : /\ C!feed(d, chunk) = f[n] /\ f[0] = d
               /\ \A i \in 1 .. n : f[i] = C!Push(f[i - 1], chunk[i])
  <2>1. \E f : /\ C!feed(d, chunk) = f[Len(chunk)] /\ f[0] = d
               /\ \A i \in 1 .. Len(chunk) : f[i] = C!Push(f[i - 1], chunk[i])
    <3>1. Len(chunk) \in Nat
      BY <1>1, <1>2
    <3> QED BY <3>1, FeedTurns
  <2> QED BY <1>2, <2>1
<1> DEFINE Good(i) == Decoded(f[i], st, S) /\ Waiting(f[i].buffer) /\ f[i].at = d.at + i
           T == {i \in 0 .. n : ~ Good(i)}
<1>4. T = {}
  <2> SUFFICES ASSUME T # {} PROVE FALSE
    OBVIOUS
  <2>1. T \in SUBSET Nat
    BY <1>1
  <2>2. PICK i \in T : \A j \in T : i <= j
    BY <2>1, LeastOne
  <2>3. Good(0)
    BY <1>1, <1>3
  <2>4. i # 0
    BY <2>2, <2>3
  <2>5. i \in 1 .. n /\ i - 1 \in 0 .. n /\ ~ i <= i - 1 /\ i \in Nat
    BY <1>1, <2>2, <2>4
  <2>6. Good(i - 1)
    <3> HIDE DEF Good
    <3> QED BY <2>2, <2>5
  <2> DEFINE g == f[i - 1]
  <2>7. Decoded(g, st, S) /\ Waiting(g.buffer) /\ g.at = d.at + (i - 1)
    BY <2>6
  <2>8. f[i] = C!Push(g, chunk[i]) /\ chunk[i] = st[d.at + i]
    BY <1>2, <1>3, <2>5
  <2> HIDE DEF g
  <2>9. g.at + 1 = d.at + i /\ g.at < Len(st)
    BY <1>1, <2>5, <2>7
  <2>10. f[i] = C!Push(g, st[g.at + 1])
    BY <2>8, <2>9
  <2>11. Decoded(f[i], st, S) /\ Waiting(f[i].buffer) /\ f[i].at = g.at + 1
    BY <2>7, <2>9, <2>10, PushStep
  <2>12. Good(i)
    BY <2>9, <2>11
  <2> HIDE DEF Good
  <2> QED BY <2>2, <2>12
<1>5. Good(n)
  <2> HIDE DEF Good
  <2>1. n \in 0 .. n
    BY <1>1
  <2> QED BY <1>4, <2>1
<1> QED BY <1>3, <1>5 DEF chunk
----------------------------------------------------------------------------
\* The decoder as feed() finds it.
DecoderNow == [buffer |-> buffer, discarded |-> discarded, out |-> out, at |-> fed]

\* The inductive invariant of the frame decoder.
CodecInv ==
    /\ stream \in Seq(C!Bytes) /\ SentIn(sent, stream)
    /\ Decoded(DecoderNow, stream, sent) /\ Waiting(buffer)

LEMMA CodecInit == C!Init => CodecInv
<1> SUFFICES ASSUME C!Init PROVE CodecInv
  OBVIOUS
<1>1. /\ stream = <<>> /\ sent = {}
      /\ DecoderNow.buffer = <<>> /\ DecoderNow.discarded = 0 /\ DecoderNow.out = <<>> /\ DecoderNow.at = 0
      /\ buffer = <<>> /\ discarded = 0 /\ out = <<>> /\ fed = 0
  BY DEF C!Init, DecoderNow
<1> DEFINE none == <<>>
<1>2. none \in Seq(C!Bytes) /\ none \in Seq(Delivered) /\ Len(none) = 0
  OBVIOUS
<1>3. DecoderNow = [buffer |-> none, discarded |-> 0, out |-> none, at |-> 0]
  BY <1>1 DEF DecoderNow
<1>4. stream = none /\ DecoderNow.buffer = none /\ DecoderNow.out = none /\ buffer = none
  BY <1>1
<1>5. C!Taken(DecoderNow.out) = 0
  BY <1>1, TakenNone
<1> HIDE DEF none
<1>6. DecoderNow \in Decoder
  BY <1>2, <1>3 DEF Decoder
<1>7. Gone(DecoderNow) = 0
  <2>1. Gone(DecoderNow) = DecoderNow.at - Len(DecoderNow.buffer)
    BY DEF Gone
  <2> QED BY <1>1, <1>2, <1>4, <2>1
<1>8. Lies(DecoderNow.buffer, 0, stream)
  BY <1>2, <1>4 DEF Lies
<1>9. Decoded(DecoderNow, stream, sent)
  BY <1>1, <1>2, <1>4, <1>5, <1>6, <1>7, <1>8 DEF Decoded
<1> QED BY <1>1, <1>2, <1>4, <1>9 DEF CodecInv, Waiting, SentIn

\* More bytes on the wire; the decoder stays.
LEMMA WireStep ==
    ASSUME CodecInv, stream' \in Seq(C!Bytes), Continues(stream, stream'),
           SentIn(sent' \ sent, stream'), \A s \in sent' \ sent : s[1] >= Len(stream),
           sent \subseteq sent', UNCHANGED <<fed, buffer, discarded, out>>
    PROVE  CodecInv'
<1>1. Len(stream) \in Nat /\ Len(stream') \in Nat /\ DecoderNow' = DecoderNow
  BY DEF CodecInv, DecoderNow
<1>2. SentIn(sent, stream') /\ Decoded(DecoderNow, stream', sent)
  BY <1>1, SentOn, DecodedOn DEF CodecInv
<1>3. SentIn(sent', stream')
  BY <1>2 DEF SentIn
<1>4. ASSUME NEW s \in sent', s[1] < Gone(DecoderNow) PROVE Met(s, DecoderNow.out)
  <2>1. /\ DecoderNow.at \in Nat /\ DecoderNow.at <= Len(stream) /\ Len(DecoderNow.buffer) \in Nat
        /\ Gone(DecoderNow) = DecoderNow.at - Len(DecoderNow.buffer)
    BY DEF CodecInv, Decoded, Decoder, Gone
  <2>2. s[1] \in Nat
    BY <1>3 DEF SentIn
  <2>3. s \in sent
    BY <1>1, <1>4, <2>1, <2>2
  <2> QED BY <1>2, <1>4, <2>3 DEF Decoded
<1>5. Decoded(DecoderNow, stream', sent')
  BY <1>2, <1>4 DEF Decoded
<1> QED BY <1>1, <1>3, <1>5 DEF CodecInv

LEMMA CodecStep == CodecInv /\ [C!Next]_codec => CodecInv'
<1> SUFFICES ASSUME CodecInv, [C!Next]_codec PROVE CodecInv'
  OBVIOUS
<1>1. stream \in Seq(C!Bytes) /\ Len(stream) \in Nat
  BY DEF CodecInv
<1>2. ASSUME NEW n \in 1 .. Len(stream) - fed, C!Feed(n) PROVE CodecInv'
  <2> DEFINE d == C!feed(DecoderNow, SubSeq(stream, fed + 1, fed + n))
  <2>1. /\ fed' = fed + n /\ buffer' = d.buffer /\ discarded' = d.discarded /\ out' = d.out
        /\ UNCHANGED <<stream, sent>>
    BY <1>2 DEF C!Feed, DecoderNow
  <2>2. DecoderNow.buffer = buffer /\ DecoderNow.at = fed /\ fed \in Nat
    BY DEF DecoderNow, CodecInv, Decoded, Decoder
  <2>3. n \in 0 .. Len(stream) - DecoderNow.at
    BY <1>1, <1>2, <2>2
  <2>4. Decoded(d, stream, sent) /\ Waiting(d.buffer) /\ d.at = fed + n
    BY <1>1, <2>2, <2>3, ChunkStep DEF CodecInv
  <2> HIDE DEF d
  <2>5. d = [buffer |-> d.buffer, discarded |-> d.discarded, out |-> d.out, at |-> d.at]
    BY <2>4 DEF Decoded, Decoder
  <2>6. DecoderNow' = d
    BY <2>1, <2>4, <2>5 DEF DecoderNow
  <2> QED BY <1>1, <2>1, <2>4, <2>6 DEF CodecInv
<1>3. ASSUME NEW body \in C!Bodies, C!Send(body) PROVE CodecInv'
  <2> DEFINE w == C!encode(body)
             p == Len(stream)
  <2>1. body \in Seq(C!Bytes) /\ Len(body) \in 1 .. MaxBody /\ Len(body) \in Nat
    <3>1. PICK n \in 1 .. MaxBody : body \in [1 .. n -> C!Bytes]
      BY DEF C!Bodies
    <3>2. n \in Nat
      BY CodecFacts
    <3>3. body \in Seq(C!Bytes) /\ Len(body) = n
      BY <3>1, <3>2
    <3> QED BY <3>2, <3>3
  <2>2. w \in Seq(C!Bytes) /\ Len(w) = 4 + Len(body)
    BY <2>1, Encoded
  <2>3. /\ stream' = stream \o w /\ sent' = sent \cup {<<p, Len(stream')>>}
        /\ UNCHANGED <<fed, buffer, discarded, out>>
    BY <1>3 DEF C!Send
  <2> HIDE DEF w, p
  <2>4. p = Len(stream) /\ p \in Nat
    BY <1>1 DEF p
  <2>5. stream' \in Seq(C!Bytes) /\ Len(stream') = p + Len(w)
    BY <1>1, <2>2, <2>3, <2>4, WireGrows
  <2>6. Continues(stream, stream')
    BY <1>1, <2>2, <2>3, WireGrows
  <2>7. Lies(w, p, stream')
    BY <1>1, <2>2, <2>3, <2>4, WireGrows
  <2>8. ASSUME NEW s \in sent' \ sent
        PROVE  /\ s \in Nat \X Nat /\ s[1] = p
               /\ \E bd \in Seq(C!Bytes) : /\ Len(bd) \in 1 .. MaxBody /\ s[2] = s[1] + 4 + Len(bd)
                                           /\ Lies(C!encode(bd), s[1], stream')
    <3>1. s = <<p, p + (4 + Len(body))>>
      BY <2>2, <2>3, <2>5, <2>8
    <3>2. s \in Nat \X Nat /\ s[1] = p /\ s[2] = s[1] + 4 + Len(body)
      BY <2>1, <2>4, <3>1
    <3>3. Lies(C!encode(body), s[1], stream')
      BY <2>7, <3>2 DEF w
    <3> QED BY <2>1, <3>2, <3>3
  <2>9. SentIn(sent' \ sent, stream')
    BY <2>8 DEF SentIn
  <2>10. \A s \in sent' \ sent : s[1] >= Len(stream)
    BY <2>4, <2>8
  <2> QED BY <2>3, <2>5, <2>6, <2>9, <2>10, WireStep
<1>4. ASSUME NEW b \in C!Bytes, C!Noise(b) PROVE CodecInv'
  <2>1. stream' = Append(stream, b) /\ UNCHANGED <<sent, fed, buffer, discarded, out>>
    BY <1>4 DEF C!Noise
  <2>2. stream' \in Seq(C!Bytes) /\ Continues(stream, stream')
    BY <1>1, <2>1, AppendProperties DEF Continues
  <2>3. sent' \ sent = {} /\ SentIn(sent' \ sent, stream')
    BY <2>1 DEF SentIn
  <2> QED BY <2>1, <2>2, <2>3, WireStep
<1>5. CASE UNCHANGED codec
  BY <1>5 DEF codec, CodecInv, DecoderNow
<1> QED BY <1>2, <1>3, <1>4, <1>5 DEF C!Next

\* The decoder's buffer never holds more than one frame.
LEMMA OneFrame ==
    ASSUME CodecInv
    PROVE  Len(buffer) < 4 + MaxBody
<1>1. buffer \in Seq(C!Bytes) /\ Len(buffer) \in Nat /\ MaxBody \in Nat
  BY CodecFacts DEF CodecInv, Decoded, Decoder, DecoderNow
<1>2. CASE Len(buffer) < 4
  BY <1>1, <1>2
<1>3. CASE ~ Len(buffer) < 4
  <2>1. C!ValidHeader(buffer) /\ Len(buffer) < 4 + C!le16(buffer, 0) /\ Len(buffer) >= 4
    BY <1>1, <1>3 DEF CodecInv, Waiting
  <2>2. C!le16(buffer, 0) \in 1 .. MaxBody
    BY <1>1, <2>1, FrameIn
  <2> QED BY <1>1, <2>1, <2>2
<1> QED BY <1>2, <1>3

\* The invariant gives every part of FramesRecovered.
LEMMA CodecInvRecovers == CodecInv => FramesRecovered
<1> SUFFICES ASSUME CodecInv PROVE FramesRecovered
  OBVIOUS
<1>1. /\ DecoderNow.buffer = buffer /\ DecoderNow.discarded = discarded /\ DecoderNow.out = out /\ DecoderNow.at = fed
      /\ buffer \in Seq(C!Bytes) /\ discarded \in Nat /\ out \in Seq(Delivered) /\ fed \in Nat
      /\ Len(buffer) \in Nat /\ Len(buffer) <= fed /\ Gone(DecoderNow) = fed - Len(buffer)
      /\ fed <= Len(stream) /\ Len(stream) \in Nat /\ Len(out) \in Nat
  BY DEF DecoderNow, CodecInv, Decoded, Decoder, Gone
<1>2. discarded + Len(buffer) + C!Taken(out) = fed
  <2> DEFINE t == C!Taken(out)
  <2>1. t \in Int /\ discarded + t = fed - Len(buffer)
    BY <1>1, TakenType DEF CodecInv, Decoded
  <2> HIDE DEF t
  <2>2. discarded + Len(buffer) + t = fed
    BY <1>1, <2>1
  <2> QED BY <2>2 DEF t
<1>3. Len(buffer) < C!HeaderSize + MaxBody
  BY OneFrame DEF C!HeaderSize
<1>4. \A f \in C!Range(out) : \E i \in 1 .. Len(out) : f = out[i]
  BY <1>1 DEF C!Range
<1>5. \A i \in 1 .. Len(out) : out[i] \in C!Range(out)
  BY <1>1 DEF C!Range
<1>6. ASSUME NEW f \in C!Range(out) PROVE SubSeq(stream, f.at + 1, f.end) = C!encode(f.body)
  <2>1. PICK i \in 1 .. Len(out) : f = out[i]
    BY <1>4, <1>6
  <2>2. f \in Delivered /\ Framed(f, stream)
    BY <1>1, <2>1 DEF CodecInv, Decoded
  <2> DEFINE w == C!encode(f.body)
             v == SubSeq(stream, f.at + 1, f.end)
  <2>3. /\ f.at \in Nat /\ f.body \in Seq(C!Bytes) /\ Len(f.body) \in 1 .. MaxBody
        /\ f.end = f.at + 4 + Len(f.body) /\ Lies(w, f.at, stream) /\ Len(f.body) \in Nat
    BY <2>2 DEF Delivered, Framed
  <2>4. w \in Seq(C!Bytes) /\ Len(w) = 4 + Len(f.body)
    BY <2>3, Encoded
  <2> HIDE DEF w
  <2>5. f.at + Len(w) <= Len(stream) /\ f.end = f.at + Len(w) /\ Len(w) \in Nat /\ Len(w) >= 1
    <3>1. f.at + Len(w) <= Len(stream)
      BY <2>3 DEF Lies
    <3>2. f.at \in Nat /\ Len(f.body) \in Nat /\ f.end = f.at + 4 + Len(f.body)
      BY <2>3
    <3> DEFINE k == Len(f.body)
               a == f.at
    <3>3. k \in Nat /\ a \in Nat /\ f.end = a + 4 + k /\ Len(w) = 4 + k
      BY <2>4, <3>2
    <3> HIDE DEF k, a
    <3>4. f.end = a + Len(w) /\ Len(w) \in Nat /\ Len(w) >= 1
      BY <3>3
    <3> QED BY <3>1, <3>4 DEF a
  <2>6. \A j \in f.at + 1 .. f.end : stream[j] \in C!Bytes
    <3>1. f.at \in Nat /\ f.end \in Nat /\ f.end <= Len(stream) /\ Len(stream) \in Nat
      BY <1>1, <2>3, <2>5
    <3>2. \A j \in f.at + 1 .. f.end : j \in 1 .. Len(stream)
      BY <3>1
    <3> QED BY <3>2 DEF CodecInv
  <2>7. f.at + 1 \in Int /\ f.end \in Int
    BY <2>3
  <2>8. /\ v \in Seq(C!Bytes)
        /\ Len(v) = IF f.at + 1 <= f.end THEN f.end - (f.at + 1) + 1 ELSE 0
        /\ \A j \in 1 .. f.end - (f.at + 1) + 1 : v[j] = stream[(f.at + 1) + j - 1]
    BY <2>6, <2>7, SubSeqProperties
  <2> HIDE DEF v
  <2>9. /\ f.end - (f.at + 1) + 1 = Len(w) /\ f.at + 1 <= f.end
        /\ \A j \in 1 .. Len(w) : (f.at + 1) + j - 1 = f.at + j
    <3>1. f.at \in Nat /\ f.end = f.at + Len(w) /\ Len(w) \in Nat /\ Len(w) >= 1
      BY <2>3, <2>5
    <3> QED BY <3>1, Stretches
  <2>10. Len(v) = Len(w) /\ \A j \in 1 .. Len(v) : v[j] = w[j]
    <3>1. Len(v) = Len(w)
      BY <2>8, <2>9
    <3>2. \A j \in 1 .. Len(w) : v[j] = stream[f.at + j]
      BY <2>8, <2>9
    <3> QED BY <2>3, <3>1, <3>2 DEF Lies
  <2>11. v = w
    BY <2>4, <2>8, <2>10, SeqEqual
  <2> QED BY <2>11 DEF v, w
<1>7. \A i, j \in 1 .. Len(out) : i < j => out[i].end <= out[j].at
  BY <1>1 DEF CodecInv, Decoded
<1>8. ASSUME NEW s \in sent, s[2] <= fed
      PROVE  \/ \E f \in C!Range(out) : <<f.at, f.end>> = s
             \/ \E a \in C!Apparent : a[1] < s[1] /\ s[1] < a[2]
  <2>1. CASE s[1] < Gone(DecoderNow)
    <3>1. PICK i \in 1 .. Len(out) : \/ <<out[i].at, out[i].end>> = s
                                     \/ (out[i].at < s[1] /\ s[1] < out[i].end)
      BY <1>1, <2>1 DEF CodecInv, Decoded, Met
    <3>2. out[i] \in C!Range(out)
      BY <1>5
    <3> DEFINE a == <<out[i].at, out[i].end>>
    <3>3. a \in C!Apparent /\ a[1] = out[i].at /\ a[2] = out[i].end
      BY <3>2 DEF C!Apparent
    <3> HIDE DEF a
    <3>4. CASE <<out[i].at, out[i].end>> = s
      BY <3>2, <3>4
    <3>5. CASE out[i].at < s[1] /\ s[1] < out[i].end
      <4>1. a[1] < s[1] /\ s[1] < a[2]
        BY <3>3, <3>5
      <4> QED BY <3>3, <4>1
    <3> QED BY <3>1, <3>4, <3>5
  <2>2. CASE ~ s[1] < Gone(DecoderNow)
    <3> DEFINE n == C!le16(buffer, 0)
               g == fed - Len(buffer)
               a == <<g, g + 4 + n>>
    <3>1. s[1] \in Nat /\ g \in Nat /\ s[1] >= g /\ fed = g + Len(buffer)
      BY <1>1, <2>2 DEF CodecInv, SentIn
    <3>2. \E k \in 1 .. MaxBody : s[2] = s[1] + 4 + k
      BY DEF CodecInv, SentIn
    <3>3. Len(buffer) >= 4 /\ s[1] < fed
      <4>1. PICK k \in 1 .. MaxBody : s[2] = s[1] + 4 + k
        BY <3>2
      <4>2. k \in Nat /\ k >= 1
        BY CodecFacts
      <4> HIDE DEF g
      <4> QED BY <1>1, <1>8, <3>1, <4>1, <4>2
    <3>4. C!ValidHeader(buffer) /\ Len(buffer) < 4 + n
      BY <1>1, <3>3 DEF CodecInv, Waiting
    <3>5. n \in 1 .. MaxBody /\ n \in Nat
      BY <1>1, <3>3, <3>4, FrameIn, CodecFacts
    <3>6. s[1] # g
      <4>1. ASSUME s[1] = g PROVE FALSE
        <5>1. s[1] = Gone(DecoderNow) /\ Decoded(DecoderNow, stream, sent) /\ SentIn(sent, stream)
              /\ Len(DecoderNow.buffer) >= 4 /\ stream \in Seq(C!Bytes)
          BY <1>1, <3>3, <4>1 DEF CodecInv
        <5>2. s = <<Gone(DecoderNow), Gone(DecoderNow) + 4 + C!le16(DecoderNow.buffer, 0)>>
          BY <5>1, HeaderSent
        <5>3. s[2] = g + 4 + n
          BY <1>1, <5>2
        <5> HIDE DEF n, g
        <5> QED BY <1>1, <1>8, <3>1, <3>4, <3>5, <5>3
      <4> QED BY <4>1
    <3>7. a \in C!Apparent
      BY <1>1, <3>3 DEF C!Apparent, C!HeaderSize
    <3> HIDE DEF n, g
    <3>8. a[1] < s[1] /\ s[1] < a[2]
      BY <1>1, <3>1, <3>3, <3>4, <3>5, <3>6
    <3> QED BY <3>7, <3>8
  <2> QED BY <2>1, <2>2
<1> QED BY <1>2, <1>3, <1>6, <1>7, <1>8 DEF FramesRecovered, C!FramesRecovered

\* The frame decoder loses no frame but behind what looked like one
\* (codec.cpp:40-56), for any byte width, key, body size and chunks.
THEOREM CodecRecovers == C!Spec => []FramesRecovered
<1>1. CodecInv /\ [C!Next]_C!vars => CodecInv'
  BY CodecStep DEF codec, C!vars
<1> QED BY CodecInit, <1>1, CodecInvRecovers, PTL DEF C!Spec
============================================================================
