---------------------------- MODULE MCWalletRestore ----------------------------
(* WalletRestore on one coin and two concurrent callers. *)
EXTENDS WalletRestore

CONSTANTS btc, none, cycle, risk

mcEnvironments ==
  {[satellites |-> TRUE, overlap |-> FALSE, lossy |-> FALSE, misses |-> {"scalper"}],
   [satellites |-> FALSE, overlap |-> FALSE, lossy |-> TRUE, misses |-> {"scalper", "core", "boot"}]}
===============================================================================
