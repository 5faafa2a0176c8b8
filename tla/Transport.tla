------------------------------ MODULE Transport ----------------------------
(***************************************************************************)
(* What the Session relies on (src/transport.hpp): one write at a time     *)
(* reaches the adapter, callbacks are made only while the transport runs,  *)
(* and stop() has joined callbacks and writes when it returns, for good.   *)
(* The tty and the libusb transport are shown to implement it.             *)
(***************************************************************************)
CONSTANT Threads

VARIABLES life,       \* "new", "running" or "closed"
          sending,    \* threads with a write in progress
          delivering  \* a callback is running

contractVars == <<life, sending, delivering>>

Init == life = "new" /\ sending = {} /\ delivering = FALSE

Start == life = "new" /\ life' = "running" /\ UNCHANGED <<sending, delivering>>

BeginSend(t) ==
    /\ life = "running" /\ sending = {}
    /\ sending' = {t} /\ UNCHANGED <<life, delivering>>

EndSend(t) == sending = {t} /\ sending' = {} /\ UNCHANGED <<life, delivering>>

BeginDelivery ==
    /\ life = "running" /\ ~delivering
    /\ delivering' = TRUE /\ UNCHANGED <<life, sending>>

EndDelivery == delivering /\ delivering' = FALSE /\ UNCHANGED <<life, sending>>

Stopped ==
    /\ life # "closed" /\ sending = {} /\ ~delivering
    /\ life' = "closed" /\ UNCHANGED <<sending, delivering>>

Next ==
    \/ Start \/ BeginDelivery \/ EndDelivery \/ Stopped
    \/ \E t \in Threads : BeginSend(t) \/ EndSend(t)

Spec == Init /\ [][Next]_contractVars
============================================================================
