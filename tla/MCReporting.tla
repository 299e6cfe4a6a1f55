---------------------------- MODULE MCReporting ----------------------------
(* Reporting for TLC: three coroutines in one process or spread over two.  *)
EXTENDS Reporting, TLC

CONSTANTS t1, t2, t3, w1, w2

OneServer == t1 :> w1 @@ t2 :> w1 @@ t3 :> w1
TwoServers == t1 :> w1 @@ t2 :> w1 @@ t3 :> w2

MCSettings ==
    {[workerOf |-> OneServer, faults |-> {}],
     [workerOf |-> OneServer, faults |-> {"db", "kill"}],
     [workerOf |-> TwoServers, faults |-> {"db", "kill"}]}
=============================================================================
