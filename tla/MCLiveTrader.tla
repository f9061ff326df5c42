----------------------------- MODULE MCLiveTrader -----------------------------
(* LiveTrader on one coin: a cycle, a risk loop and the satellites meet on it. *)
EXTENDS LiveTrader

CONSTANTS btc, none, cycle, risk
===============================================================================
