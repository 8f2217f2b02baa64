---------------------------- MODULE MCEventRelay ----------------------------
(* EventRelay on small instances; the cfg files give the sets.             *)
EXTENDS EventRelay
=============================================================================
