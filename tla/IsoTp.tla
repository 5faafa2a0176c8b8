------------------------------- MODULE IsoTp -------------------------------
(***************************************************************************)
(* IsoTpReassembler (src/isotp.cpp): ISO15765 messages are put together    *)
(* from CAN frames, one conversation per source identifier, because the    *)
(* answers of several ECUs to one functional request interleave on the     *)
(* bus.  There is no timer: what the reassembler does is a function of the *)
(* frames it is fed.                                                       *)
(*                                                                         *)
(* A payload byte is <<message number, position>>, so that a message mixed *)
(* from two others can be told from both.  The ECUs (external) segment     *)
(* their messages as ISO 15765-2 says and pad the last frame; the bus and  *)
(* the adapter (external) may lose a frame, repeat it or cut it down to    *)
(* its PCI byte, and an ECU may give up in the middle of a message.        *)
(***************************************************************************)
EXTENDS Naturals, Sequences, SequencesExt

CONSTANTS Ecus,             \* source CAN identifiers
          FirstBytes,       \* payload bytes of a first frame (6 in the code)
          NextBytes,        \* of a single or a consecutive frame (7)
          SeqWrap,          \* sequence numbers are taken modulo this (16)
          MaxMessage,       \* max_message: longest message (0xfff)
          MaxConversations, \* max_conversations (32)
          Lengths,          \* lengths of the messages ECUs send
          MaxMessages,      \* bound: messages of all ECUs
          MaxFaults         \* bound: faults of all ECUs' frames

ASSUME IsoTpAssumption ==
    /\ FirstBytes \in 1 .. NextBytes /\ NextBytes \in Nat /\ SeqWrap \in Nat \ {0, 1}
    /\ MaxMessage \in Nat /\ MaxConversations \in Nat \ {0}
    /\ Lengths \subseteq 1 .. MaxMessage
    /\ MaxMessages \in Nat /\ MaxFaults \in Nat

SingleLimit == NextBytes
SegmentedMinimum == NextBytes + 1

Pad == <<0, 0>>
Message(n, len) == [i \in 1 .. len |-> <<n, i>>]
Start == <<>>    \* the zero-length START_OF_MESSAGE indication

VARIABLES
    assemblies, \* assemblies_: conversations in progress, oldest first
    output,     \* what feed() returned for each identifier, in order
    tx,         \* the message each ECU is sending: number, length, frames sent
    begun,      \* messages of all ECUs so far
    faults,     \* faults of all ECUs so far
    disturbed,  \* history: faults of each ECU since its last first frame arrived,
                \* kept at 2 from the second on
    intact,     \* history: every frame of the current message arrived
    rivals,     \* history: other ECUs that began a message meanwhile
    whole,      \* history: messages that arrived whole
    owed        \* history: those among them with fewer than MaxConversations rivals

ecuVars == <<tx, begun, faults, disturbed>>
history == <<intact, rivals, whole, owed>>
vars == <<assemblies, output, tx, begun, faults, disturbed, intact, rivals, whole, owed>>

Idle == [n |-> 0, len |-> 0, k |-> 0]
Init ==
    /\ assemblies = <<>>
    /\ output = [e \in Ecus |-> <<>>]
    /\ tx = [e \in Ecus |-> Idle]
    /\ begun = 0
    /\ faults = 0
    /\ disturbed = [e \in Ecus |-> 0]
    /\ intact = [e \in Ecus |-> FALSE]
    /\ rivals = [e \in Ecus |-> {}]
    /\ whole = [e \in Ecus |-> {}]
    /\ owed = [e \in Ecus |-> {}]
----------------------------------------------------------------------------
(* The reassembler: each operator returns the new conversations and what   *)
(* the caller is handed.                                                   *)

Result(asm, out) == [asm |-> asm, out |-> out]
Find(asm, id) == {i \in 1 .. Len(asm) : asm[i].id = id}
At(asm, id) == CHOOSE i \in Find(asm, id) : TRUE
Drop(asm, id) == IF Find(asm, id) = {} THEN asm ELSE RemoveAt(asm, At(asm, id))

\* A single frame that claims more than it carries ends the conversation.
Single(asm, f) ==
    IF f.len > SingleLimit \/ f.len > Len(f.data)
    THEN Result(Drop(asm, f.id), <<>>)
    ELSE Result(asm, <<SubSeq(f.data, 1, f.len)>>)

\* Bug: one assembly shared by all identifiers.
Mutant_FirstShared(asm, f) ==
    Result(<<[id |-> f.id, got |-> f.data, expected |-> f.len, sequence |-> 1]>>, <<Start>>)

\* Bug: a full table gives up the conversation begun last.
Mutant_FirstNewest(asm, f) ==
    LET kept == IF Len(asm) = MaxConversations THEN SubSeq(asm, 1, Len(asm) - 1) ELSE asm
    IN  Result(Append(kept, [id |-> f.id, got |-> f.data, expected |-> f.len, sequence |-> 1]),
               <<Start>>)

First(asm, f) ==
    LET taken == Min({Len(f.data), f.len})
        kept  == IF Len(asm) = MaxConversations THEN Tail(asm) ELSE asm
    IN  IF f.data = <<>> \/ f.len < SegmentedMinimum \/ f.len > MaxMessage
        THEN Result(asm, <<>>)
        ELSE Result(Append(kept, [id |-> f.id, got |-> SubSeq(f.data, 1, taken),
                                  expected |-> f.len, sequence |-> 1]),
                    <<Start>>)

\* What an accepted consecutive frame adds to its conversation a, and what
\* it leaves of it.
Payload(a, f) == SubSeq(f.data, 1, Min({Len(f.data), a.expected - Len(a.got)}))

\* Bug: the sequence number does not wrap.
Mutant_Extend(a, f) ==
    [a EXCEPT !.sequence = @ + 1, !.got = @ \o Payload(a, f)]

Extend(a, f) ==
    [a EXCEPT !.sequence = (@ + 1) % SeqWrap, !.got = @ \o Payload(a, f)]

\* Bug: a gap in the sequence numbers goes unnoticed.
Mutant_Consecutive(asm, f) ==
    LET i == At(asm, f.id)
        a == Extend(asm[i], f)
    IN  IF f.data = <<>> THEN Result(Drop(asm, f.id), <<>>)
        ELSE IF Len(a.got) < a.expected THEN Result([asm EXCEPT ![i] = a], <<>>)
        ELSE Result(Drop(asm, f.id), <<a.got>>)

Consecutive(asm, f) ==
    LET i == At(asm, f.id)
        a == Extend(asm[i], f)
    IN  IF f.data = <<>> \/ f.seq # asm[i].sequence THEN Result(Drop(asm, f.id), <<>>)
        ELSE IF Len(a.got) < a.expected THEN Result([asm EXCEPT ![i] = a], <<>>)
        ELSE Result(Drop(asm, f.id), <<a.got>>)

\* A single frame leaves a conversation of its identifier in place, a first
\* frame discards it; other frames need one.
Feed(asm, f) ==
    IF f.type = 0 THEN Single(asm, f)
    ELSE IF f.type = 1 THEN First(Drop(asm, f.id), f)
    ELSE IF f.type = 2 /\ Find(asm, f.id) # {} THEN Consecutive(asm, f)
    ELSE Result(asm, <<>>)
----------------------------------------------------------------------------
(* The ECUs and the bus.                                                   *)

Padded(s, n) == [i \in 1 .. n |-> IF i <= Len(s) THEN s[i] ELSE Pad]

SingleFrame(e) ==
    [id |-> e, type |-> 0, len |-> tx[e].len,
     data |-> Padded(Message(tx[e].n, tx[e].len), NextBytes)]

FirstFrame(e) ==
    [id |-> e, type |-> 1, len |-> tx[e].len,
     data |-> SubSeq(Message(tx[e].n, tx[e].len), 1, FirstBytes)]

\* Bytes of a message in the k frames before its consecutive frame k.
Before(k) == FirstBytes + (k - 1) * NextBytes

NextFrame(e, k) ==
    [id |-> e, type |-> 2, seq |-> k % SeqWrap,
     data |-> Padded(SubSeq(Message(tx[e].n, tx[e].len), Before(k) + 1, tx[e].len), NextBytes)]

\* Frame k of the message e is sending; frame 0 is the first.
FrameAt(e, k) ==
    IF tx[e].len <= SingleLimit THEN SingleFrame(e)
    ELSE IF k = 0 THEN FirstFrame(e)
    ELSE NextFrame(e, k)

FrameOf(e) == FrameAt(e, tx[e].k)
Sending(e) == tx[e].len # 0
LastFrame(e) == tx[e].len <= SingleLimit \/ tx[e].len <= Before(tx[e].k + 1)
Resting(e) == [n |-> tx[e].n, len |-> 0, k |-> 0]

Advance(e) ==
    /\ tx' = [tx EXCEPT ![e] = IF LastFrame(e) THEN Resting(e)
                               ELSE [n |-> tx[e].n, len |-> tx[e].len, k |-> tx[e].k + 1]]
    /\ UNCHANGED begun

Begin(e) ==
    /\ ~Sending(e) /\ begun < MaxMessages /\ begun' = begun + 1
    /\ \E len \in Lengths : tx' = [tx EXCEPT ![e] = [n |-> tx[e].n + 1, len |-> len, k |-> 0]]
    /\ UNCHANGED <<assemblies, output, faults, disturbed, history>>

\* History of frame f: a first or single frame opens a new account.
Account(f, arrived) ==
    LET e == f.id
        ok == arrived /\ (f.type \in {0, 1} \/ intact[e])
        others == IF f.type = 2 THEN rivals[e] ELSE {}
        done == IF ok /\ LastFrame(e) THEN {<<tx[e].n, tx[e].len>>} ELSE {}
    IN  /\ intact' = [intact EXCEPT ![e] = ok]
        /\ rivals' = [r \in Ecus |-> IF r = e THEN others
                                     ELSE IF f.type = 1 /\ arrived THEN rivals[r] \cup {e}
                                     ELSE rivals[r]]
        /\ whole' = [whole EXCEPT ![e] = @ \cup done]
        /\ owed' = [owed EXCEPT ![e] =
                      @ \cup IF Cardinality(others) < MaxConversations THEN done ELSE {}]

Receive(e, f) ==
    LET r == Feed(assemblies, f)
    IN  /\ assemblies' = r.asm
        /\ output' = [output EXCEPT ![e] = @ \o r.out]

Deliver(e) ==
    /\ Sending(e)
    /\ Receive(e, FrameOf(e)) /\ Account(FrameOf(e), TRUE) /\ Advance(e)
    /\ disturbed' = [disturbed EXCEPT ![e] =
                       IF FrameOf(e).type = 1 /\ @ < 2 THEN 0 ELSE @]
    /\ UNCHANGED faults

Fault(e) ==
    /\ faults < MaxFaults /\ faults' = faults + 1
    /\ disturbed' = [disturbed EXCEPT ![e] = IF @ < 2 THEN @ + 1 ELSE @]

Lose(e) ==
    /\ Sending(e) /\ Fault(e)
    /\ Account(FrameOf(e), FALSE) /\ Advance(e)
    /\ UNCHANGED <<assemblies, output>>

Truncate(e) ==
    /\ Sending(e) /\ Fault(e)
    /\ Receive(e, [FrameOf(e) EXCEPT !.data = <<>>])
    /\ Account(FrameOf(e), FALSE) /\ Advance(e)

GiveUp(e) ==
    /\ Sending(e) /\ tx[e].k > 0 /\ Fault(e)
    /\ tx' = [tx EXCEPT ![e] = Resting(e)]
    /\ UNCHANGED <<assemblies, output, begun, history>>

\* A frame that is on the bus twice, as CAN allows when the end of a frame is
\* disturbed.
Repeat(e) ==
    /\ Sending(e) /\ tx[e].k > 0 /\ Fault(e)
    /\ Receive(e, FrameAt(e, tx[e].k - 1))
    /\ intact' = [intact EXCEPT ![e] = tx[e].k = 1]
    /\ rivals' = IF tx[e].k = 1 THEN [r \in Ecus |-> rivals[r] \cup ({e} \ {r})] ELSE rivals
    /\ UNCHANGED <<tx, begun, whole, owed>>

\* A frame of a type the reassembler does not handle (flow control).
OtherFrame(e) ==
    /\ Receive(e, [id |-> e, type |-> 3, data |-> <<Pad>>])
    /\ UNCHANGED <<ecuVars, history>>

\* CLEAR_RX_BUFFER.
Reset ==
    /\ assemblies' = <<>>
    /\ intact' = [e \in Ecus |-> FALSE]
    /\ UNCHANGED <<output, ecuVars, rivals, whole, owed>>

Next ==
    \/ \E e \in Ecus : \/ Begin(e) \/ Deliver(e) \/ Lose(e) \/ Truncate(e)
                       \/ GiveUp(e) \/ Repeat(e) \/ OtherFrame(e)
    \/ Reset

Spec == Init /\ [][Next]_vars
----------------------------------------------------------------------------
\* Type invariant: at most one conversation per identifier and no more than
\* max_conversations, sequence numbers in their nibble, and a conversation
\* that is always short of its announced length.
TypeOK ==
    /\ Len(assemblies) <= MaxConversations
    /\ \A i, j \in 1 .. Len(assemblies) : assemblies[i].id = assemblies[j].id => i = j
    /\ \A i \in 1 .. Len(assemblies) :
          /\ assemblies[i].id \in Ecus
          /\ assemblies[i].sequence \in 0 .. SeqWrap - 1
          /\ assemblies[i].expected \in SegmentedMinimum .. MaxMessage
          /\ Len(assemblies[i].got) < assemblies[i].expected
    /\ tx \in [Ecus -> [n : 0 .. MaxMessages, len : Lengths \cup {0}, k : Nat]]
    /\ faults \in 0 .. MaxFaults /\ disturbed \in [Ecus -> 0 .. 2]

\* What reaches the application is a message the ECU sent and of which every
\* frame arrived, each at most once and in the order sent, however the other
\* ECUs' frames, single frames and discarded conversations fell in between
\* (isotp.cpp:26 to 104).  Faults may come as often as they like, but not twice
\* to one ECU with none of its first frames arriving between: a lost end and a
\* lost first frame can leave a conversation that the next message's frames
\* fit, and a wrap of frames lost in a row does not show in the nibble.
NoSplice ==
    \A e \in Ecus : disturbed[e] < 2 =>
      \A i \in 1 .. Len(output[e]) : output[e][i] # Start =>
        /\ \E w \in whole[e] : output[e][i] = Message(w[1], w[2])
        /\ \A j \in 1 .. i - 1 : output[e][j] # Start => output[e][j][1][1] < output[e][i][1][1]

\* Nothing but a fault of its own frames, a CLEAR_RX_BUFFER or
\* max_conversations other ECUs that began to answer meanwhile costs an ECU
\* its message: no other ECU's traffic or abandoned conversation does
\* (isotp.cpp:78, isotp.hpp:19).
NoNeedlessLoss ==
    \A e \in Ecus : \A w \in owed[e] :
        \E i \in 1 .. Len(output[e]) : output[e][i] = Message(w[1], w[2])
============================================================================
