----------------------------- MODULE SignalVoting -----------------------------
(***************************************************************************)
(* How a coin's decision is voted on: aggregatorVoting.js, the thresholds  *)
(* around it (strategyBuilder.js, filters.js) and the exit at a lower one   *)
(* (decisionCore.js).  All are pure.  A vote is a signal, a confidence in    *)
(* tenths and the weight of who cast it, also in tenths, so that weights,   *)
(* aggregate confidences and thresholds are in hundredths.                  *)
(***************************************************************************)
EXTENDS Integers, Sequences, FiniteSets, FiniteSetsExt, Functions

CONSTANTS
  AlgoWeight,     \* signals.algoWeight
  Sources,        \* who may send an external signal
  SourceWeight,   \* the weight of each
  RawConfidence,  \* minConfidence as it is configured for the coin
  Scale,          \* risk.confidenceThresholdScale, in per cent
  Tighten, Loosen \* fearGreed.tightenBy and loosenBy

ASSUME VotingAssumption ==
  /\ AlgoWeight \in 0 .. 10 /\ SourceWeight \in [Sources -> 0 .. 10]
  /\ {RawConfidence, Scale, Tighten, Loosen} \subseteq 0 .. 100

Directions == {"BUY", "SELL", "HOLD"}
Votes      == [signal : Directions, conf : 0 .. 10, weight : 0 .. 10]

Clamp(low, high, x) == Max({low, Min({high, x})})

\* A ballot is a sequence of votes; a strategy's vote carries algoWeight.
Vote(signal, confidence, weight) == [signal |-> signal, conf |-> confidence, weight |-> weight]
VoteOf(external) ==
  Vote(external.signal, Clamp(0, 10, external.conf), SourceWeight[external.source])

\* The weight behind each direction; the operators below take it or the ballot.
Tally(ballot) ==
  LET weight == [i \in DOMAIN ballot |-> ballot[i].conf * ballot[i].weight]
      for(d) == SumFunctionOnSet(weight, {i \in DOMAIN ballot : ballot[i].signal = d})
  IN [BUY |-> for("BUY"), SELL |-> for("SELL"), HOLD |-> for("HOLD")]
Top(tally) == Max({tally[d] : d \in Directions})
Tied(tally) ==
  LET top == Top(tally)
  IN \E c, d \in Directions : c # d /\ tally[c] = top /\ tally[d] = top

\* Of a tie the first that is sorted; the caller asks for the tie before the winner.
Winner(tally) ==
  LET top == Top(tally)
  IN IF top = 0 THEN "HOLD" ELSE CHOOSE d \in Directions : tally[d] = top

\* Mutant of Confidence: the average over the votes that are not HOLD.
ConfidenceOfVoters(ballot) ==
  LET voters == {i \in DOMAIN ballot : ballot[i].signal # "HOLD"}
  IN IF voters = {} THEN 0 ELSE Top(Tally(ballot)) \div Cardinality(voters)

\* The winner's weight, averaged over everyone who voted.
Confidence(ballot) == IF ballot = <<>> THEN 0 ELSE Top(Tally(ballot)) \div Len(ballot)

-----------------------------------------------------------------------------
(* Thresholds. *)

\* scaleMinConfidence: what the aggregator, the risk manager and the exit all start from.
MinConfidence == Clamp(0, 100, (RawConfidence * Scale) \div 100)

\* calcFearGreedAdjustedThreshold.
EntryThreshold(mood) ==
  CASE mood = "greed"   -> Clamp(0, 100, MinConfidence + Tighten)
    [] mood = "fear"    -> Clamp(0, 100, MinConfidence - Loosen)
    [] mood = "neutral" -> MinConfidence

\* resolveDecision: what is held is sold on a majority of SELL votes among the strategies,
\* at 0.7 of the threshold of an entry.
Resolved(decision, confidence, strategies, held) ==
  LET sellers == Cardinality({i \in DOMAIN strategies : strategies[i].signal = "SELL"})
  IN IF /\ held /\ decision = "HOLD"
        /\ 2 * sellers > Len(strategies)
        /\ 10 * confidence >= 7 * MinConfidence
     THEN "SELL" ELSE decision
===============================================================================
