----------------------------- MODULE MCDecoders -----------------------------
(***************************************************************************)
(* The two decoders of the receive path, for TLC: a behaviour drives one   *)
(* of them, the frame decoder on the bytes of the transport or the         *)
(* ISO15765 reassembler on the CAN frames in the decoded indications.      *)
(***************************************************************************)
EXTENDS IsoTp, TLC

CONSTANTS Bits, Key, MaxBody, MaxBytes

VARIABLES layer, stream, sent, fed, buffer, discarded, out

C == INSTANCE Codec

ASSUME CodecAssumption == C!CodecConstants

codec == <<stream, sent, fed, buffer, discarded, out>>

DecodersInit == layer \in {"codec", "isotp"} /\ Init /\ C!Init

Decoding(A) == layer = "codec" /\ A /\ UNCHANGED <<layer, vars>>
Reassembling(A) == layer = "isotp" /\ A /\ UNCHANGED <<layer, codec>>

DecodersNext == Decoding(C!Next) \/ Reassembling(Next)

DecodersSpec == DecodersInit /\ [][DecodersNext]_<<layer, codec, vars>>

\* See Codec.
FramesRecovered == C!FramesRecovered

\* No action names one ECU.
EcuSymmetry == Permutations(Ecus)
=============================================================================
