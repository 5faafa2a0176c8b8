-------------------------- MODULE CommandContract --------------------------
(***************************************************************************)
(* What Session::command promises its callers, with no threads, sequence   *)
(* numbers or timeouts: one command at a time, a success only for a        *)
(* command the adapter executed, and a failure that leaves the session     *)
(* usable only for a command that never left the host.  channel_command    *)
(* (j2534.cpp) decides from exactly this whether the channel state has     *)
(* become uncertain.                                                       *)
(***************************************************************************)
CONSTANTS Cmds,   \* the commands ever issued
          None    \* not a command

VARIABLES usable,    \* Session::usable()
          current,   \* the command that owns the transaction, or None
          sent,      \* commands that may have reached the adapter
          executed,  \* commands the adapter has carried out
          outcome    \* per command: "none", "ok" or "error"

contractVars == <<usable, current, sent, executed, outcome>>

Init ==
    /\ usable = TRUE
    /\ current = None
    /\ sent = {}
    /\ executed = {}
    /\ outcome = [c \in Cmds |-> "none"]

\* A command enters the single transaction slot of a usable session.
Start(c) ==
    /\ usable /\ current = None
    /\ outcome[c] = "none" /\ c \notin sent
    /\ current' = c
    /\ UNCHANGED <<usable, sent, executed, outcome>>

\* Its request is handed to the transport and may reach the adapter.
Transmit ==
    /\ current # None
    /\ sent' = sent \cup {current}
    /\ UNCHANGED <<usable, current, executed, outcome>>

Execute(c) ==
    /\ c \in sent
    /\ executed' = executed \cup {c}
    /\ UNCHANGED <<usable, current, sent, outcome>>

Succeed ==
    /\ usable /\ current \in executed
    /\ outcome' = [outcome EXCEPT ![current] = "ok"]
    /\ current' = None
    /\ UNCHANGED <<usable, sent, executed>>

\* A failure before anything was written; the session stays as it was.
FailUnsent(c) ==
    /\ c \notin sent /\ outcome[c] = "none"
    /\ current' = IF current = c THEN None ELSE current
    /\ outcome' = [outcome EXCEPT ![c] = "error"]
    /\ UNCHANGED <<usable, sent, executed>>

\* A failure whose effect on the adapter is unknown ends the session.
FailAmbiguous ==
    /\ current # None
    /\ usable' = FALSE
    /\ outcome' = [outcome EXCEPT ![current] = "error"]
    /\ current' = None
    /\ UNCHANGED <<sent, executed>>

\* The transport fails or the session is closed.
Break ==
    /\ usable' = FALSE
    /\ UNCHANGED <<current, sent, executed, outcome>>

Next ==
    \/ \E c \in Cmds : Start(c) \/ Execute(c) \/ FailUnsent(c)
    \/ Transmit \/ Succeed \/ FailAmbiguous \/ Break

Spec == Init /\ [][Next]_contractVars
============================================================================
