------------------------------- MODULE Script ------------------------------
(***************************************************************************)
(* The step interpreter (tools/script_runner.c): script_run reads a script *)
(* line by line and stops at the first step that fails.  Each behaviour    *)
(* runs one script twice, side by side: dry, where every library call is a *)
(* success that produced nothing, and live.  Lines are chosen as they are  *)
(* read.                                                                   *)
(*                                                                         *)
(* A step is its verb, the handles it uses, the name it gives to a new     *)
(* handle and, if its text is faulty, the fault; reading numbers, hex,     *)
(* flags and symbols is abstracted to whether they are well formed.  The   *)
(* library (Device) is reduced to which handles are open; any call may     *)
(* fail.  SET_CONFIG and GET_CONFIG are those of Config.                   *)
(***************************************************************************)
EXTENDS Config

CONSTANTS Names,    \* handle names of the script
          Literals, \* bare numbers it uses in their place
          Slots,    \* SLOTS: names a script may bind (128)
          Lists,    \* parameter lists of its setconfig and getconfig steps
          MaxHandle \* bound: handles the library issues

\* The handles a verb uses, by kind, and the kind it makes.
Uses ==
    [open |-> <<>>, close |-> <<"device">>, version |-> <<"device">>, vbatt |-> <<"device">>,
     connect |-> <<"device">>, disconnect |-> <<"channel">>, filter |-> <<"channel">>,
     stopfilter |-> <<"channel", "filter">>, read |-> <<"channel">>, write |-> <<"channel">>,
     periodic |-> <<"channel">>, stopperiodic |-> <<"channel", "periodic">>,
     getconfig |-> <<"channel">>, setconfig |-> <<"channel">>, ioctl |-> <<"channel">>]
Makes == [open |-> "device", connect |-> "channel", filter |-> "filter", periodic |-> "periodic"]

\* What may be wrong with the text of a step: too few arguments, a number that
\* does not parse, one out of range, a name that is too long.
FaultsOf(v) ==
    {"none", "few"} \cup (IF v = "open" THEN {} ELSE {"malformed"})
      \cup (IF v \in {"read", "getconfig", "setconfig", "ioctl"} THEN {"range"} ELSE {})
      \cup (IF v \in DOMAIN Makes THEN {"long name"} ELSE {})

Steps ==
    UNION {[verb : {v}, on : [1 .. Len(Uses[v]) -> Names \cup Literals],
            name : IF v \in DOMAIN Makes THEN Names ELSE {""}, fault : FaultsOf(v),
            list : IF v \in {"setconfig", "getconfig"} THEN Lists ELSE {<<>>}] : v \in DOMAIN Uses}

VARIABLES
    dry, live,  \* each run: "running", "done", "failed" or "died" over the text
                \* of a step, "refused" by the library
    drySlots,   \* slots of the dry run: the names it has bound
    slots,      \* slots of the live run: names to handles
    lib,        \* the library: open handles with their kinds, the next handle,
                \* the channel's protocol and configuration
    last        \* history: the last SET_CONFIG and the configuration before it

scriptVars == <<dry, live, drySlots, slots, lib, last>>

NoConfig == <<>>
NoSet == [status |-> "none", list |-> <<>>, before |-> NoConfig]

Init ==
    /\ dry = "running" /\ live = "running" /\ drySlots = {} /\ slots = <<>>
    /\ lib = [open |-> <<>>, next |-> 1, protocol |-> "CAN", cfg |-> NoConfig]
    /\ last = NoSet
----------------------------------------------------------------------------
(* The library: the set of outcomes [ok, lib, last] of a call.             *)

Outcome(ok, l, set) == [ok |-> ok, lib |-> l, last |-> set]
Unchanged(ok) == Outcome(ok, lib, NoSet)
Open(kind) == {h \in DOMAIN lib.open : lib.open[h] = kind}
New(kind) == [lib EXCEPT !.open = (lib.next :> kind) @@ @, !.next = @ + 1]
Without(handles) == [lib EXCEPT !.open = [h \in DOMAIN @ \ handles |-> @[h]]]

\* One device, and one channel on it.
DeviceCall(v, h) ==
    CASE v = "open" -> {Outcome(TRUE, New("device"), NoSet) : x \in {1} \ Open("device")}
      [] v = "close" -> {Outcome(TRUE, [Without(DOMAIN lib.open) EXCEPT !.cfg = NoConfig], NoSet)}
      [] v = "connect" /\ Open("channel") = {} ->
           {Outcome(TRUE, [New("channel") EXCEPT !.protocol = p,
                             !.cfg = [s \in {r.selector : r \in Range(Table(p))} |-> 0]], NoSet) :
              p \in {"CAN", "ISO15765"}}
      [] v = "disconnect" ->
           {Outcome(TRUE, [Without(DOMAIN lib.open \ Open("device")) EXCEPT !.cfg = NoConfig], NoSet)}
      [] OTHER -> {Unchanged(v # "connect")}

TableCall(v, h) ==
    IF v \in DOMAIN Makes THEN {Outcome(TRUE, New(Makes[v]), NoSet)}
    ELSE {Outcome(TRUE, Without({h[2]}), NoSet)}

ConfigCall(v, list) ==
    IF v = "getconfig" THEN {Unchanged(GetConfig(lib.protocol, list))}
    ELSE {Outcome(r.status = "ok", [lib EXCEPT !.cfg = r.cfg],
                  [status |-> r.status, list |-> list, before |-> lib.cfg]) :
            r \in SetConfig(lib.cfg, lib.protocol, list)}

\* A handle of the wrong kind is refused, and any call may fail.
Call(s, h) ==
    {Unchanged(FALSE)} \cup
    IF \E i \in 1 .. Len(h) : h[i] \notin Open(Uses[s.verb][i]) THEN {}
    ELSE CASE s.verb \in {"open", "close", "version", "vbatt", "connect", "disconnect"} ->
                DeviceCall(s.verb, h)
           [] s.verb \in {"filter", "stopfilter", "periodic", "stopperiodic"} -> TableCall(s.verb, h)
           [] s.verb \in {"getconfig", "setconfig"} -> ConfigCall(s.verb, s.list)
           [] OTHER -> {Unchanged(TRUE)}
----------------------------------------------------------------------------
(* run_step() and script_run().                                            *)

\* The text of a step before its call, in a run that has bound these names.
\* A bare number needs no slot; "range" is checked before or after the handles.
BeforeCall(s, bound) ==
    LET unknown == \E i \in DOMAIN s.on : s.on[i] \in Names \ bound
    IN  IF s.fault = "few" THEN "failed"
        ELSE IF s.fault = "malformed" THEN "died"
        ELSE IF s.fault = "range" /\ (s.verb # "read" \/ ~unknown) THEN "failed"
        ELSE IF unknown THEN "died" ELSE "running"

\* slot_set, after its call.
AfterCall(s, bound) ==
    IF s.verb \in DOMAIN Makes
         /\ (s.fault = "long name" \/ (s.name \notin bound /\ Cardinality(bound) = Slots))
    THEN "died" ELSE "running"

NewName(s) == IF s.verb \in DOMAIN Makes THEN {s.name} ELSE {}

\* Bug: the dry run returns where it would have called the library.
Mutant_DryStep(s) ==
    /\ dry' = BeforeCall(s, drySlots)
    /\ UNCHANGED drySlots

DryStep(s) ==
    LET text == BeforeCall(s, drySlots)
    IN  /\ dry' = IF text # "running" THEN text ELSE AfterCall(s, drySlots)
        /\ drySlots' = IF dry' = "running" THEN drySlots \cup NewName(s) ELSE drySlots

HandleOf(token) == IF token \in DOMAIN slots THEN slots[token] ELSE token

\* Only a rejected getconfig lets the script go on.
LiveStep(s) ==
    LET text == BeforeCall(s, DOMAIN slots)
        h == [i \in DOMAIN s.on |-> HandleOf(s.on[i])]
    IN  \/ text # "running" /\ live' = text /\ UNCHANGED <<slots, lib, last>>
        \/ /\ text = "running"
           /\ \E r \in Call(s, h) :
                 /\ lib' = r.lib /\ last' = r.last
                 /\ live' = IF ~r.ok /\ s.verb # "getconfig" THEN "refused"
                            ELSE AfterCall(s, DOMAIN slots)
                 /\ slots' = [n \in IF live' = "running" THEN DOMAIN slots \cup NewName(s)
                                    ELSE DOMAIN slots |->
                                IF live' = "running" /\ n \in NewName(s) THEN lib.next ELSE slots[n]]

BothRun == dry = "running" /\ live = "running"

RunStep == BothRun /\ lib.next <= MaxHandle /\ \E s \in Steps : DryStep(s) /\ LiveStep(s)

\* An unknown verb, or a line too long or with a NUL in it.
BadLine == BothRun /\ dry' = "failed" /\ live' = "failed" /\ UNCHANGED <<drySlots, slots, lib, last>>

EndOfFile == BothRun /\ dry' = "done" /\ live' = "done" /\ UNCHANGED <<drySlots, slots, lib, last>>

Stopped == ~BothRun /\ UNCHANGED scriptVars

Next == RunStep \/ BadLine \/ EndOfFile \/ Stopped
Spec == Init /\ [][Next]_scriptVars
----------------------------------------------------------------------------
\* The dry run accepts and rejects the same scripts at the same line: a live
\* run parts from it only at a call the library refuses, and until then both
\* know the same names (script_runner.c:9, "dry mode parses without calling
\* the library, so the script corpus can be checked").
DryRunAgrees ==
    /\ live # "refused" => live = dry
    /\ live = "running" => DOMAIN slots = drySlots

\* "a bad value cannot leave the channel half configured" (j2534.cpp:523): a
\* SET_CONFIG that names a bad entry changes nothing; otherwise the entries
\* written are a prefix of the list, all of it on success, and of two entries
\* for one selector the later wins.
ConfigExact ==
    LET Selector(i) == Route(lib.protocol, last.list[i].parameter).selector
        Upto(n, s) == {i \in 1 .. n : Selector(i) = s}
        Written(n) == \A s \in DOMAIN lib.cfg :
            lib.cfg[s] = IF Upto(n, s) = {} THEN last.before[s] ELSE last.list[Max(Upto(n, s))].value
    IN  /\ last.status = "invalid" => lib.cfg = last.before
        /\ last.status = "ok" => Written(Len(last.list))
        /\ last.status = "failed" => \E n \in 0 .. Len(last.list) : Written(n)
============================================================================
