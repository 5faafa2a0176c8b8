------------------------------ MODULE MCTools ------------------------------
(***************************************************************************)
(* The programs built on the library, for TLC: a process runs one of them, *)
(* the SocketCAN bridge or the script interpreter.                         *)
(***************************************************************************)
EXTENDS Bridge

CONSTANTS Names, Literals, Slots, Lists, MaxHandle

ASSUME ListsAssumption == Lists \subseteq Seq([parameter : STRING, value : Nat])

VARIABLES tool, dry, live, drySlots, slots, lib, last

S == INSTANCE Script

Item(p, v) == [parameter |-> p, value |-> v]

\* Valid on one protocol only, or on both; bad at the end; the two names of
\* one selector; a value outside its range that is allowed by exception.
SampleLists ==
    {<<Item("DATA_RATE", 500000), Item("LOOPBACK", 1), Item("BIT_SAMPLE_POINT", 75)>>,
     <<Item("LOOPBACK", 1), Item("DATA_RATE", 499999)>>,
     <<Item("ISO15765_PAD_VALUE", 1), Item("BS_TX", 65535), Item("DT_ISO15765_PAD_BYTE", 2)>>,
     <<Item("SYNC_JUMP_WIDTH", 1), Item("DT_PULLUP_VALUE", 0)>>}

script == <<dry, live, drySlots, slots, lib, last>>
vars == <<tool, bridgeVars, script>>

ToolsInit == tool \in {"bridge", "script"} /\ Init /\ S!Init

Bridging(A) == tool = "bridge" /\ A /\ UNCHANGED <<tool, script>>
Scripting(A) == tool = "script" /\ A /\ UNCHANGED <<tool, bridgeVars>>

ToolsNext == Bridging(Next) \/ Scripting(S!Next)

ToolsSpec ==
    /\ ToolsInit /\ [][ToolsNext]_vars
    /\ WF_vars(Bridging(MainStep)) /\ WF_vars(Bridging(ReaderStep))
    /\ WF_vars(Bridging(PrintStats))

\* See Script.
DryRunAgrees == S!DryRunAgrees
\* See Script.
ConfigExact == S!ConfigExact
============================================================================
