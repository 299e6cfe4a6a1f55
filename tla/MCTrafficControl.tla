-------------------------- MODULE MCTrafficControl --------------------------
(* TrafficControl with three requests of both modes for TLC.               *)
EXTENDS TrafficControl, TLC

CONSTANTS t1, t2, t3

MCModeOf == t1 :> "safe" @@ t2 :> "full" @@ t3 :> "safe"
=============================================================================
