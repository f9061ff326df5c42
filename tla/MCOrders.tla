------------------------------ MODULE MCOrders ------------------------------
(***************************************************************************)
(* One run over the way of an order: the signals that ask for one           *)
(* ("signals"), and a satellite's order that rests on the book ("resting").   *)
(***************************************************************************)
EXTENDS SignalAggregator, SatelliteOrder

VARIABLES subject    \* what the behaviour is about

mcOrders == {1, 2}
mcFaults == {"poll", "ack", "sale"}

mcSources == {"webhook", "telegram", "twitter"}
mcSourceWeight == [s \in mcSources |-> CASE s = "webhook" -> 8 [] s = "telegram" -> 6 [] OTHER -> 10]
mcDetails == {4}
mcForms == {"pair", "joined"}
mcConfidences == {8}

\* Three strategies, each surely or weakly for one side or idle; and a coin with two.
mcVotes == {Vote("BUY", 5, 10), Vote("BUY", 10, 10), Vote("SELL", 5, 10), Vote("HOLD", 2, 10)}
Rank(v) == IF v.signal = "BUY" THEN v.conf ELSE IF v.signal = "SELL" THEN v.conf + 20 ELSE 50
mcBallots == {b \in {<<u, v, w>> : u \in mcVotes, v \in mcVotes, w \in mcVotes} :
                Rank(b[1]) <= Rank(b[2]) /\ Rank(b[2]) <= Rank(b[3])}
             \cup {<<Vote("SELL", 10, 10), Vote("HOLD", 2, 10)>>, <<Vote("BUY", 10, 10), Vote("HOLD", 2, 10)>>}

mcReadings ==
  {[NoReading EXCEPT !.volatility = v, !.adx = a, !.bull = b] :
     v \in {1, 6}, a \in {"chop", "strong"}, b \in BOOLEAN}
  \cup {[NoReading EXCEPT !.against = {"mtf15m"}, !.volatility = 4, !.adx = "middle"],
        [NoReading EXCEPT !.against = {"mtf4h"}, !.missing = {"mtf4h"}],
        [NoReading EXCEPT !.against = {"momentum"}]}

mcVars == <<subject, aggVars, satVars>>

\* The aggregator after a coin was sold: the one state it has where the order is the subject.
AfterSale ==
  externals = <<>> /\ last = "HOLD" /\ held = FALSE /\ sent = [NoOrder EXCEPT !.order = "SELL", !.conf = 33]

MCInit ==
  /\ SatInit
  /\ \/ subject = "signals" /\ AggInit
     \/ subject = "resting" /\ AfterSale

\* A step of the resting order.
Resting(step) == subject = "resting" /\ step /\ UNCHANGED <<subject, aggVars>>

MCNext ==
  \/ subject = "signals" /\ AggNext /\ UNCHANGED <<subject, satVars>>
  \/ Resting(SatNext)

\* The fairness of SatelliteOrder!SatFairSpec.
MCSpec ==
  /\ MCInit /\ [][MCNext]_mcVars
  /\ WF_mcVars(Resting(AckOrder)) /\ WF_mcVars(Resting(Boot))
  /\ WF_mcVars(Resting(BeginTick)) /\ WF_mcVars(Resting(Poll \/ Exit))
  /\ SF_mcVars(Resting(ReadOrder)) /\ SF_mcVars(Resting(CancelOrder))
  /\ SF_mcVars(Resting(Reread)) /\ SF_mcVars(Resting(SellAll))
=============================================================================
