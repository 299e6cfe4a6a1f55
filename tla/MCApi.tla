------------------------------- MODULE MCApi -------------------------------
(* Api for TLC: every configuration of the guard, and one configuration with *)
(* every mix of calls, faults and earlier latencies.                         *)
EXTENDS Api

CONSTANTS c1, c2

Names == Modes \cup Off \cup {"oauth"}

\* c1 has both credentials, c2 the one or the other.  The check of one of them may raise
\* for c2, which has it nevertheless or not; or its body cannot be read.
Guarded ==
    {[API_AUTH_MODE |-> name, padded |-> blanks, configured |-> there,
      holds |-> [c \in Clients |-> IF c = c1 THEN {"key", "jwt"} ELSE held],
      odd |-> [c \in Clients |-> IF c = c1 THEN {} ELSE raising],
      asks |-> [c \in Clients |-> IF c = c1 THEN "full" ELSE ask], ALLOW_LIVE_SUBMIT |-> FALSE,
      earlier |-> 0, faults |-> {}] :
        name \in Names, blanks \in BOOLEAN, there \in SUBSET {"key", "jwt"},
        held \in {{"key"}, {"jwt"}}, raising \in {{}, {"key"}}, ask \in {"full", "garbled"}}

Served(ask1, ask2, past, met) ==
    [API_AUTH_MODE |-> "api_key_or_jwt", padded |-> FALSE, configured |-> {"key"},
     holds |-> [c \in Clients |-> {"key"}], odd |-> [c \in Clients |-> {}],
     asks |-> [c \in Clients |-> IF c = c1 THEN ask1 ELSE ask2], ALLOW_LIVE_SUBMIT |-> TRUE,
     earlier |-> past, faults |-> met]

MCSettings ==
    Guarded
    \cup {Served("safe", "invalid", past, {}) : past \in {1, 9, 10, 11, 12, 19, 20, 30, 31}}
    \cup {Served("full", "safe", 0, {"kill"}), Served("full", "invalid", 2, {"doubt", "kill"}),
          Served("detect", "full", 0, {"db", "kill"})}

\* Sorted sorts.
ASSUME SortedAssumption ==
    \A s \in UNION {[1..n -> 0..2] : n \in 0..5} : Sorted(s) = SortSeq(s, <)
=============================================================================
