--------------------------- MODULE MCEventSystem ----------------------------
(* EventSystem on a small instance: the network goes to WLAN, an event code *)
(* that is none of the network's arrives, and a key is pressed.             *)
EXTENDS EventSystem

CONSTANTS wlan, code9, key

MCEvent ==
  [t \in {wlan, code9, key} |->
     [api |-> IF t = key THEN "startKeypadListen" ELSE "startEventListen",
      eventCode |-> CASE t = wlan -> 6 [] t = code9 -> 9 [] t = key -> 1]]
=============================================================================
