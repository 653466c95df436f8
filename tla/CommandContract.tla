--------------------------- MODULE CommandContract ---------------------------
(***************************************************************************)
(* What a caller of the Home Assistant WebSocket client may rely on, with  *)
(* no socket in sight: a call is in progress until it is answered or       *)
(* fails; Home Assistant may handle the request at most MaxSends times; an *)
(* answer is only given for a request that has been handled.  A failed     *)
(* call promises nothing, not even that the request will not be handled    *)
(* later.                                                                  *)
(***************************************************************************)
EXTENDS Naturals

CONSTANTS
  Callers,   \* tasks that issue one request each
  MaxSends   \* how often one call may put its request on a socket

VARIABLES
  phase,     \* phase[c]: progress of the call as its caller sees it
  handled    \* handled[c]: how often Home Assistant processed the request

vars == <<phase, handled>>

Init ==
  /\ phase = [c \in Callers |-> "idle"]
  /\ handled = [c \in Callers |-> 0]

Begin(c) ==
  /\ phase[c] = "idle"
  /\ phase' = [phase EXCEPT ![c] = "busy"]
  /\ UNCHANGED handled

\* Home Assistant may process a request after its caller has given up on it.
Handle(c) ==
  /\ phase[c] # "idle"
  /\ handled[c] < MaxSends
  /\ handled' = [handled EXCEPT ![c] = @ + 1]
  /\ UNCHANGED phase

Answer(c) ==
  /\ phase[c] = "busy"
  /\ handled[c] > 0
  /\ phase' = [phase EXCEPT ![c] = "answered"]
  /\ UNCHANGED handled

Fail(c) ==
  /\ phase[c] = "busy"
  /\ phase' = [phase EXCEPT ![c] = "failed"]
  /\ UNCHANGED handled

Next == \E c \in Callers : Begin(c) \/ Handle(c) \/ Answer(c) \/ Fail(c)

Spec == Init /\ [][Next]_vars
=============================================================================
