------------------------------- MODULE Codec -------------------------------
(***************************************************************************)
(* The wire format (src/codec.cpp): a frame is a length, the length xor a  *)
(* constant, and the body.  The decoder is fed chunks of any size and,     *)
(* after noise, slides byte by byte until it sees a header again, which    *)
(* may be a false one.                                                     *)
(*                                                                         *)
(* A byte has Bits bits, so that with few of them a header still takes     *)
(* four bytes and may be met out of step.                                  *)
(***************************************************************************)
EXTENDS Naturals, Sequences, SequencesExt

CONSTANTS Bits,     \* bits of a byte (8)
          Key,      \* what the length in the header is combined with (0x51e6)
          MaxBody,  \* max_body (0x1800)
          MaxBytes  \* bound: bytes on the wire

Base == 2 ^ Bits
Bytes == 0 .. Base - 1
HeaderSize == 4
Bodies == UNION {[1 .. n -> Bytes] : n \in 1 .. MaxBody}

le16(d, o) == d[o + 1] + Base * d[o + 2]
put16(v) == <<v % Base, v \div Base>>

\* Exclusive or with Key: the sum of the bits that differ.
Bit(n, i) == (n \div 2 ^ i) % 2
Check(n) ==
    LET low[i \in 0 .. 2 * Bits] ==
            IF i = 0 THEN 0
            ELSE low[i - 1] + (IF Bit(n, i - 1) = Bit(Key, i - 1) THEN 0 ELSE 2 ^ (i - 1))
    IN  low[2 * Bits]

\* A length and its check fit in two bytes.
CodecConstants ==
    /\ Base \in Nat \ {0, 1} /\ MaxBody \in Nat /\ MaxBytes \in Nat /\ MaxBody < Base * Base
    /\ \A n \in 1 .. MaxBody : Check(n) \in 0 .. Base * Base - 1

encode(body) == put16(Len(body)) \o put16(Check(Len(body))) \o body

VARIABLES stream,    \* every byte put on the wire
          sent,      \* where the frames in it begin, with their ends
          fed,       \* bytes fed to the decoder
          buffer, discarded,  \* buffer_ and discarded_
          out        \* frames feed() returned, each with the place it was taken from

vars == <<stream, sent, fed, buffer, discarded, out>>

Init ==
    stream = <<>> /\ sent = {} /\ fed = 0 /\ buffer = <<>> /\ discarded = 0 /\ out = <<>>
----------------------------------------------------------------------------
ValidHeader(b) ==
    LET n == le16(b, 0) IN n # 0 /\ n <= MaxBody /\ le16(b, 2) = Check(n)

\* Bug: after a bad header the whole of it is discarded.
Mutant_Slide(d) ==
    [d EXCEPT !.buffer = <<>>, !.discarded = @ + Len(d.buffer)]

Slide(d) == [d EXCEPT !.buffer = Tail(@), !.discarded = @ + 1]

\* The frame at the front of the buffer; at is the number of bytes before it.
Take(d) ==
    LET size == HeaderSize + le16(d.buffer, 0)
    IN  [d EXCEPT !.buffer = SubSeq(@, size + 1, Len(@)),
                  !.out = Append(@, [at |-> d.at - Len(d.buffer), end |-> d.at - Len(d.buffer) + size,
                                     body |-> SubSeq(d.buffer, HeaderSize + 1, size)])]

\* A pass of the while loop of feed(), which ends where a pass changes nothing.
Pass(d) ==
    IF Len(d.buffer) < HeaderSize THEN d
    ELSE IF ~ValidHeader(d.buffer) THEN Slide(d)
    ELSE IF Len(d.buffer) < HeaderSize + le16(d.buffer, 0) THEN d
    ELSE Take(d)

\* Any other pass shortens the buffer, so there are no more of them than bytes.
Settle(d) ==
    LET after[n \in 0 .. Len(d.buffer)] == IF n = 0 THEN d ELSE Pass(after[n - 1])
    IN  after[Len(d.buffer)]

Push(d, b) == Settle([d EXCEPT !.buffer = Append(@, b), !.at = @ + 1])

\* Decoder::feed: byte after byte.
feed(d, chunk) ==
    LET after[n \in 0 .. Len(chunk)] == IF n = 0 THEN d ELSE Push(after[n - 1], chunk[n])
    IN  after[Len(chunk)]

Feed(n) ==
    LET d == feed([buffer |-> buffer, discarded |-> discarded, out |-> out, at |-> fed],
                  SubSeq(stream, fed + 1, fed + n))
    IN  /\ fed' = fed + n
        /\ buffer' = d.buffer /\ discarded' = d.discarded /\ out' = d.out
        /\ UNCHANGED <<stream, sent>>
----------------------------------------------------------------------------
(* The wire.                                                               *)

Send(body) ==
    /\ Len(stream) + HeaderSize + Len(body) <= MaxBytes
    /\ stream' = stream \o encode(body)
    /\ sent' = sent \cup {<<Len(stream), Len(stream')>>}
    /\ UNCHANGED <<fed, buffer, discarded, out>>

Noise(b) ==
    /\ Len(stream) < MaxBytes /\ stream' = Append(stream, b)
    /\ UNCHANGED <<sent, fed, buffer, discarded, out>>

Next ==
    \/ \E n \in 1 .. Len(stream) - fed : Feed(n)
    \/ \E body \in Bodies : Send(body)
    \/ \E b \in Bytes : Noise(b)

Spec == Init /\ [][Next]_vars
----------------------------------------------------------------------------
\* Bytes of the frames delivered.
Taken(frames) ==
    LET upto[n \in 0 .. Len(frames)] ==
            IF n = 0 THEN 0 ELSE upto[n - 1] + (frames[n].end - frames[n].at)
    IN  upto[Len(frames)]

\* What looked like a frame: those delivered, and the one the decoder is
\* waiting to complete.
Apparent ==
    {<<f.at, f.end>> : f \in Range(out)} \cup
    LET front == fed - Len(buffer)
    IN  IF Len(buffer) < HeaderSize THEN {}
        ELSE {<<front, front + HeaderSize + le16(buffer, 0)>>}

\* Whatever the noise and the chunks, every byte fed is delivered once,
\* discarded or held, and no more than one frame is held; what is delivered is
\* a frame of the stream; and a frame that was sent is missed only if it
\* begins inside an earlier stretch of bytes that looked like a frame
\* (codec.cpp:44).
FramesRecovered ==
    /\ discarded + Len(buffer) + Taken(out) = fed
    /\ Len(buffer) < HeaderSize + MaxBody
    /\ \A f \in Range(out) : SubSeq(stream, f.at + 1, f.end) = encode(f.body)
    /\ \A i, j \in 1 .. Len(out) : i < j => out[i].end <= out[j].at
    /\ \A s \in sent : s[2] <= fed =>
          \/ \E f \in Range(out) : <<f.at, f.end>> = s
          \/ \E a \in Apparent : a[1] < s[1] /\ s[1] < a[2]
============================================================================
