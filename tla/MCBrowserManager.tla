-------------------------- MODULE MCBrowserManager --------------------------
(* BrowserManager for TLC: each setting joins faults that meet each other.   *)
EXTENDS BrowserManager

CONSTANTS r1, r2, p1, s1, s2, s3

Setting(served, met) == [lifespan |-> served, faults |-> met]

MCSettings ==
    {Setting(TRUE, {"browser"}),
     Setting(TRUE, {"write", "kill"}),
     Setting(TRUE, {"close", "browser"}),
     Setting(FALSE, {"start", "launch"})}
=============================================================================
