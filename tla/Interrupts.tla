----------------------------- MODULE Interrupts -----------------------------
(***************************************************************************)
(* attachInterrupt() and detachInterrupt() of cores/psoc6/interrupts.c,    *)
(* statement by statement: an edge of a pin whose event is enabled may     *)
(* come after any of them, and calls callback if the HAL has a record for  *)
(* the pin.  There is one record, gpio_callback_data, for all pins.        *)
(***************************************************************************)
CONSTANTS InterruptPins, Handlers, NoHandler

ASSUME InterruptsAssumption == InterruptPins # {} /\ NoHandler \notin Handlers

VARIABLES callback,   \* gpio_callback_data.callback
          registered, \* pins for which the HAL keeps a pointer to it
          events,     \* pins whose event is enabled
          attaching,  \* what the sketch's call is about to do, on which pin
          attached,   \* history: the handler attached to each pin last
          latest      \* history: the pin attached last

interrupts == <<callback, registered, events, attaching, attached, latest>>

Idle == [do |-> "nothing", pin |-> CHOOSE p \in InterruptPins : TRUE]

InterruptsInit ==
  /\ callback = NoHandler /\ registered = {} /\ events = {}
  /\ attaching = Idle
  /\ attached = [p \in InterruptPins |-> NoHandler]
  /\ latest \in InterruptPins

attachInterrupt(p, h) ==
  /\ attaching = Idle
  /\ callback' = h
  /\ attached' = [attached EXCEPT ![p] = h] /\ latest' = p
  /\ attaching' = [do |-> "register", pin |-> p]
  /\ UNCHANGED <<registered, events>>

\* cyhal_gpio_register_callback
AttachRegister ==
  /\ attaching.do = "register"
  /\ registered' = registered \cup {attaching.pin}
  /\ attaching' = [attaching EXCEPT !.do = "enable"]
  /\ UNCHANGED <<callback, events, attached, latest>>

\* cyhal_gpio_enable_event; for a mode that is none of the five the event is
\* CYHAL_GPIO_IRQ_NONE.
AttachEnable ==
  /\ attaching.do = "enable"
  /\ events' \in {events \cup {attaching.pin}, events \ {attaching.pin}}
  /\ attaching' = Idle
  /\ UNCHANGED <<callback, registered, attached, latest>>

\* Mutant of detachInterrupt: the record is cleared.
detachInterruptClears(p) ==
  /\ attaching = Idle
  /\ callback' = NoHandler
  /\ events' = events \ {p}
  /\ attaching' = [do |-> "unregister", pin |-> p]
  /\ attached' = [attached EXCEPT ![p] = NoHandler]
  /\ UNCHANGED <<registered, latest>>

detachInterrupt(p) ==
  /\ attaching = Idle
  /\ events' = events \ {p}
  /\ attaching' = [do |-> "unregister", pin |-> p]
  /\ attached' = [attached EXCEPT ![p] = NoHandler]
  /\ UNCHANGED <<callback, registered, latest>>

DetachUnregister ==
  /\ attaching.do = "unregister"
  /\ registered' = registered \ {attaching.pin}
  /\ attaching' = Idle
  /\ UNCHANGED <<callback, events, attached, latest>>

InterruptsNext ==
  \/ \E p \in InterruptPins : detachInterrupt(p) \/ \E h \in Handlers : attachInterrupt(p, h)
  \/ AttachRegister \/ AttachEnable \/ DetachUnregister

InterruptsType ==
  /\ callback \in Handlers \cup {NoHandler}
  /\ registered \subseteq InterruptPins /\ events \subseteq InterruptPins
  /\ attaching \in [do : {"nothing", "register", "enable", "unregister"}, pin : InterruptPins]
  /\ attached \in [InterruptPins -> Handlers \cup {NoHandler}]
  /\ latest \in InterruptPins

(* An edge finds a handler at any moment, inside the two calls too; on the *)
(* pin attached last it is that pin's own, whatever pins are detached; and *)
(* a pin without handler is quiet.  (On the other pins it is that of the   *)
(* pin attached last: they share the record.)  interrupts.c:58-60, 70-71.  *)
EdgeRunsOwn ==
  \A p \in events :
    /\ attached[p] # NoHandler
    /\ p \in registered /\ callback # NoHandler
    /\ p = latest => callback = attached[p]
=============================================================================
