------------------------------- MODULE MCLogin -------------------------------
(* Login for TLC: all settings, or those of the README (lines 85-91).        *)
EXTENDS Login

MCConfigs == Config

MCReadme ==
    {[credentials |-> TRUE, value |-> FALSE, mode |-> "provider_first", manual |-> TRUE,
      headless |-> h, provider |-> p] : h \in BOOLEAN, p \in BOOLEAN}
=============================================================================
