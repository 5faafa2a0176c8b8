------------------------------- MODULE Config ------------------------------
(***************************************************************************)
(* GET_CONFIG and SET_CONFIG: the parameter tables of src/config.cpp and   *)
(* the loop of config_ioctl (src/j2534.cpp).  A channel's configuration is *)
(* a function from firmware selectors, and 0 for the loopback flag that    *)
(* never leaves the host, to values.                                       *)
(***************************************************************************)
EXTENDS Naturals, Sequences, SequencesExt, TLC

Host == 0
Fw(selector, low, high, ffff) ==
    [selector |-> selector, settable |-> TRUE, low |-> low, high |-> high, ffff |-> ffff]
\* Its range is never consulted.
ReadOnly(selector) == [Fw(selector, 0, 0, FALSE) EXCEPT !.settable = FALSE]
HostLoopback == Fw(Host, 0, 1, FALSE)

CanTable ==
    [DATA_RATE |-> Fw(4, 1, 1000000, FALSE), LOOPBACK |-> HostLoopback,
     BIT_SAMPLE_POINT |-> Fw(20, 68, 80, FALSE), SYNC_JUMP_WIDTH |-> Fw(21, 0, 100, FALSE),
     DT_PULLUP_VALUE |-> ReadOnly(49)]

\* The two names of the pad byte share a selector.
IsoTable ==
    [CanTable EXCEPT !.BIT_SAMPLE_POINT = Fw(20, 80, 80, FALSE)] @@
    [ISO15765_BS |-> Fw(27, 0, 255, FALSE), ISO15765_STMIN |-> Fw(28, 0, 255, FALSE),
     BS_TX |-> Fw(29, 0, 255, TRUE), STMIN_TX |-> Fw(30, 0, 255, TRUE),
     ISO15765_WFT_MAX |-> Fw(33, 0, 255, FALSE), N_BR_MIN |-> Fw(38, 0, 65535, FALSE),
     ISO15765_PAD_VALUE |-> Fw(34, 0, 255, FALSE),
     DT_ISO15765_PAD_BYTE |-> Fw(34, 0, 255, FALSE),
     N_AS_MAX |-> Fw(35, 1, 65535, FALSE), N_AR_MAX |-> Fw(36, 1, 65535, FALSE),
     N_BS_MAX |-> Fw(37, 1, 65535, FALSE), N_CR_MAX |-> Fw(40, 1, 65535, FALSE),
     N_CS_MIN |-> Fw(39, 0, 65535, FALSE), DT_HALF_DUPLEX |-> ReadOnly(44)]

Table(protocol) == IF protocol = "CAN" THEN CanTable ELSE IsoTable
Supported(protocol, parameter) == parameter \in DOMAIN Table(protocol)
Route(protocol, parameter) == Table(protocol)[parameter]

SupportedRates ==
    {33300, 33333, 50000, 62500, 83300, 83333, 95200, 95238, 100000, 125000, 166666,
     166667, 200000, 250000, 500000, 666666, 666667, 1000000}

\* config_validate_set
ValidSet(protocol, item) ==
    /\ Supported(protocol, item.parameter)
    /\ LET r == Route(protocol, item.parameter)
       IN  /\ r.settable
           /\ item.parameter = "DATA_RATE" => item.value \in SupportedRates
           /\ item.value \in r.low .. r.high \/ (r.ffff /\ item.value = 65535)

\* One turn of the loop.
SetOne(cfg, protocol, item) ==
    [cfg EXCEPT ![Route(protocol, item.parameter).selector] = item.value]

\* The configuration after so many turns.
Applied(cfg, protocol, list, turns) ==
    LET after[n \in 0 .. Len(list)] ==
          IF n = 0 THEN cfg ELSE SetOne(after[n - 1], protocol, list[n])
    IN  after[turns]

OnHost(protocol, item) == Route(protocol, item.parameter).selector = Host

\* Bug: each entry is checked when its turn comes, as the vendor does.
Mutant_SetConfig(cfg, protocol, list) ==
    LET good == {n \in 0 .. Len(list) : \A i \in 1 .. n : ValidSet(protocol, list[i])}
    IN  {[status |-> IF Max(good) = Len(list) THEN "ok" ELSE "invalid", list |-> list,
          cfg |-> Applied(cfg, protocol, list, Max(good))]}

\* SET_CONFIG validates every entry before it writes any.  A write the adapter
\* refuses ends the loop; one whose fate is unknown may have been done.
SetConfig(cfg, protocol, list) ==
    LET Done(status, n) == [status |-> status, list |-> list,
                            cfg |-> Applied(cfg, protocol, list, n)]
        written == {i \in 1 .. Len(list) : ~OnHost(protocol, list[i])}
    IN  IF \E i \in 1 .. Len(list) : ~ValidSet(protocol, list[i])
        THEN {Done("invalid", 0)}
        ELSE {Done("ok", Len(list))} \cup {Done("failed", i - 1) : i \in written}
               \cup {Done("failed", i) : i \in written}

\* GET_CONFIG stops at the first parameter the channel does not have.
GetConfig(protocol, list) ==
    \A i \in 1 .. Len(list) : Supported(protocol, list[i].parameter)
============================================================================
