-------------------------- MODULE MCWaybillService --------------------------
(* WaybillService for TLC: pairs of requests, each pair with the faults that *)
(* can come between them.                                                    *)
EXTENDS WaybillService, TLC

CONSTANTS r1, r2

Ask(mode1, mode2, allowed, met) ==
    [modeOf |-> r1 :> mode1 @@ r2 :> mode2, ALLOW_LIVE_SUBMIT |-> allowed, faults |-> met]

MCSettings ==
    {Ask("full", "safe", TRUE, {"net", "other", "login"}),
     Ask("full", "full", TRUE, {"net"} \cup HidingFaults),
     Ask("full", "safe", TRUE, {"net", "db"}),
     Ask("full", "safe", FALSE, {"net", "db"}),
     Ask("full", "detect", TRUE, {"net", "other"})}
=============================================================================
