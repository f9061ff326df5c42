------------------------------ MODULE OrderLedger ------------------------------
(***************************************************************************)
(* What a resting buy promises (the comments of satelliteTick and             *)
(* #pollSatelliteOrder in src/src/executor/liveTrader.js): every fill is        *)
(* credited to the position once, and the bot watches an order it knows of until *)
(* it is off the book with nothing left to credit.                               *)
(***************************************************************************)
EXTENDS Naturals

CONSTANT Orders  \* order ids

VARIABLES
  resting,   \* orders on the book
  filled,    \* what the exchange has filled of each order
  credited,  \* what the bot has credited of it, over every restart
  watched    \* orders the bot will still poll

ledger == <<resting, filled, credited, watched>>

LedgerInit ==
  /\ resting = {} /\ watched = {}
  /\ filled = [o \in Orders |-> 0]
  /\ credited = [o \in Orders |-> 0]

Place(o) ==
  /\ filled[o] = 0 /\ o \notin resting \cup watched
  /\ resting' = resting \cup {o}
  /\ UNCHANGED <<filled, credited, watched>>

\* The bot knows an order from the answer to its placement on; if that answer is lost, never.
Watch(o) ==
  /\ o \notin watched /\ credited[o] = 0
  /\ watched' = watched \cup {o}
  /\ UNCHANGED <<resting, filled, credited>>

Fill(o) ==
  /\ o \in resting
  /\ filled'[o] > filled[o] /\ filled' = [filled EXCEPT ![o] = filled'[o]]
  /\ resting' \in {resting, resting \ {o}}
  /\ UNCHANGED <<credited, watched>>

Cancel(o) ==
  /\ o \in resting /\ resting' = resting \ {o}
  /\ UNCHANGED <<filled, credited, watched>>

\* A credit may lag behind the book, never run ahead of it.
Credit(o) ==
  /\ o \in watched
  /\ \E c \in credited[o] + 1 .. filled[o] : credited' = [credited EXCEPT ![o] = c]
  /\ UNCHANGED <<resting, filled, watched>>

Forget(o) ==
  /\ o \in watched \ resting /\ credited[o] = filled[o]
  /\ watched' = watched \ {o}
  /\ UNCHANGED <<resting, filled, credited>>

LedgerNext == \E o \in Orders : Place(o) \/ Watch(o) \/ Fill(o) \/ Cancel(o) \/ Credit(o) \/ Forget(o)

LedgerSpec == LedgerInit /\ [][LedgerNext]_ledger

===============================================================================
