------------------------------- MODULE Handler -------------------------------
(***************************************************************************)
(* What the rest of http-tapd may rely on in a call that captures an       *)
(* exchange, a ServeHTTP or a Replay: it emits one event or none, of an    *)
(* exchange it has sent to the upstream, when it is done with it; the      *)
(* event is not changed afterwards, and there is no other.                 *)
(*                                                                         *)
(* Exchange.tla implements this module; the handlers of Daemon.tla are     *)
(* such calls, their events read off rp.events and what was published from *)
(* it, which is why an event can be known there by its handler.            *)
(***************************************************************************)
CONSTANT NoEvent

VARIABLES
  stage, \* "new", "sent", "emitted", or "failed" without an event
  event  \* what was emitted, or NoEvent

handlerVars == <<stage, event>>

HandlerInit == stage = "new" /\ event = NoEvent

(* The request is handed to the transport. *)
Send ==
  /\ stage = "new"
  /\ stage' = "sent"
  /\ UNCHANGED event

Emit ==
  /\ stage = "sent"
  /\ stage' = "emitted"
  /\ event' # NoEvent

Fail ==
  /\ stage \in {"new", "sent"}
  /\ stage' = "failed"
  /\ UNCHANGED event

HandlerNext == Send \/ Emit \/ Fail

HandlerSpec == HandlerInit /\ [][HandlerNext]_handlerVars

=============================================================================
