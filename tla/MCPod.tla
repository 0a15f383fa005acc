-------------------------------- MODULE MCPod --------------------------------
(* One request, two signing keys; a unit of time is the five seconds that a  *)
(* header may take.                                                          *)
EXTENDS Pod
=============================================================================
