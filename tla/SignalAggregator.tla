--------------------------- MODULE SignalAggregator ---------------------------
(***************************************************************************)
(* One coin's aggregator (src/src/engine/signalAggregator.js) between the   *)
(* listeners that feed it (src/src/signals) and the order the cycle sends   *)
(* on its word (runCycle and completeCycle of engine.js).  The aggregator   *)
(* keeps the external signals of the last TTL and the winner of its last    *)
(* evaluation; both are in memory only.                                      *)
(*                                                                          *)
(* A strategy's vote is a free choice, and so are the moods and the market  *)
(* readings of a cycle.  Slots, brakes and gates are in EngineCycle and     *)
(* RiskBrake: here they admit the order or refuse it.                        *)
(***************************************************************************)
EXTENDS SignalVoting, EntrySizing, SequencesExt

CONSTANTS
  Ballots,        \* the strategies' votes on the coin, as they may fall
  Confidences,    \* of webhook and Twitter signals, in tenths
  TelegramBase,   \* BASE_TELEGRAM_CONFIDENCE, in hundredths
  Details,        \* how many of entry, targets, stop and emphasis a message may state
  Forms,          \* how a message may name the coin: "pair" is the market's own name
  Readings,       \* the market readings a size depends on
  TTL,            \* EXTERNAL_SIGNAL_TTL_MS, in ticks
  MaxExternal,    \* MAX_EXTERNAL_SIGNALS
  Margin          \* MULTIBAR_MARGIN

ASSUME AggregatorAssumption ==
  /\ \A b \in Ballots : b \in Seq(Votes)
  /\ Readings \subseteq ReadingType
  /\ Sources = {"webhook", "telegram", "twitter"}
  /\ Confidences \subseteq 0 .. 10 /\ TelegramBase \in 0 .. 80 /\ Details \subseteq 0 .. 4
  /\ TTL \in Nat /\ MaxExternal \in Nat \ {0} /\ Margin \in 0 .. 100
  /\ "pair" \in Forms

VARIABLES
  externals,  \* externalSignals of the coin, oldest first; age counts the ticks since
  last,       \* lastDecisions: the winner of the last evaluation, "none" before one
  held,       \* a scalper position is open in the coin
  sent        \* auxiliary: the order the last step sent, and on what

aggVars == <<externals, last, held, sent>>

NoOrder == [order |-> "none", conf |-> 0, size |-> 0, reading |-> NoReading]

AggInit ==
  externals = <<>> /\ last = "none" /\ held = FALSE /\ sent = NoOrder

-----------------------------------------------------------------------------
(* External signals. *)

LastFew(seq) == SubSeq(seq, Max({1, Len(seq) - MaxExternal + 1}), Len(seq))

\* pruneExternalSignals.
Unexpired(seq) == FoldLeft(LAMBDA kept, s : IF s.age <= TTL THEN Append(kept, s) ELSE kept, <<>>, seq)
Pruned(seq)    == LastFew(Unexpired(seq))

\* A listener emits on the bus, and the coin's aggregator takes the signal in.
Ingest(source, signal, confidence) ==
  /\ externals' = LastFew(Append(Pruned(externals),
                                 [source |-> source, signal |-> signal, conf |-> confidence, age |-> 0]))
  /\ sent' = NoOrder /\ UNCHANGED <<last, held>>

\* A message names the coin by the market's own name ("pair"); another form of it is read
\* as a market in another quote currency, which no aggregator of the bot answers to.
Names(form) == form = "pair"

\* parseWebhookPayload: an action, which may be HOLD, at the confidence it says.
Webhook(form, signal, confidence) == Names(form) /\ Ingest("webhook", signal, confidence)

\* parseTelegramSignal: the more a message says the surer it is; without a direction it is dropped.
Telegram(form, signal, details) ==
  Names(form) /\ signal # "HOLD" /\ Ingest("telegram", signal, (TelegramBase + 5 * details) \div 10)

\* analyzeSentiment: one of the configured coins, when the tweets lean to a side enough.
Twitter(signal, confidence) ==
  signal # "HOLD" /\ confidence \in 1 .. 9 /\ Ingest("twitter", signal, confidence)

\* Time passes.  The stamp of a Twitter signal is a number, which Date.parse does not read:
\* pruning takes it for a signal of now, every time.
Tick ==
  /\ externals' = [i \in DOMAIN externals |->
                     IF externals[i].source = "twitter" THEN externals[i]
                     ELSE [externals[i] EXCEPT !.age = Min({@ + 1, TTL + 1})]]
  /\ sent' = NoOrder /\ UNCHANGED <<last, held>>

-----------------------------------------------------------------------------
(* An evaluation. *)

Ballot(strategies, kept) == strategies \o [i \in DOMAIN kept |-> VoteOf(kept[i])]

\* What the votes say on their own.
Voted(ballot) ==
  LET tally == Tally(ballot)
  IN IF Tied(tally) \/ Confidence(ballot) < MinConfidence THEN "HOLD" ELSE Winner(tally)

\* lastDecisions after an evaluation: HOLD ends the streak.
Remembered(vote, previous) == vote

\* aggregate: a confidence that barely suffices waits for the next evaluation to agree.
Aggregated(ballot, previous) ==
  LET vote == Voted(ballot)
  IN IF vote # previous /\ Confidence(ballot) < MinConfidence + Margin THEN "HOLD" ELSE vote

\* canTrade's word on the confidence; a position is managed at any.
Admitted(decision, confidence, mood, isHeld) ==
  decision # "HOLD" /\ (isHeld \/ confidence >= EntryThreshold(mood))

\* A cycle on the coin: the vote, the exit at the lower threshold, an entry's gates and
\* its threshold by the mood, the size, the order.  Slots, brakes and the exchange may each
\* still refuse it.  What only an entry asks is free only where there may be one.
Evaluate(strategies) ==
  LET kept     == Pruned(externals)
      ballot   == Ballot(strategies, kept)
      conf     == Confidence(ballot)
      decision == Resolved(Aggregated(ballot, last), conf, strategies, held)
      order(reading) ==
        [order |-> decision, conf |-> conf, reading |-> reading,
         size |-> IF held THEN 0 ELSE Size(conf, reading)]
      fits(mood, reading) ==
        /\ Admitted(decision, conf, mood, held)
        /\ held = (decision = "SELL")
        /\ decision = "BUY" => ~Blocked(reading)
  IN /\ externals' = kept
     /\ last' = Remembered(Voted(ballot), last)
     /\ \/ sent' = NoOrder /\ UNCHANGED held
        \/ \E mood \in IF held THEN {"neutral"} ELSE {"greed", "neutral", "fear"},
              reading \in IF held THEN {NoReading} ELSE Readings :
             /\ fits(mood, reading)
             /\ held' = ~held
             /\ sent' = order(reading)

\* The risk loop sells the position.
Stopped ==
  /\ held /\ held' = FALSE
  /\ sent' = NoOrder /\ UNCHANGED <<externals, last>>

\* A restart keeps the position and nothing of the aggregator.
Restart ==
  /\ externals' = <<>> /\ last' = "none" /\ sent' = NoOrder
  /\ UNCHANGED held

AggNext ==
  \/ \E form \in Forms, signal \in Directions :
       \/ \E c \in Confidences : Webhook(form, signal, c)
       \/ \E details \in Details : Telegram(form, signal, details)
  \/ \E signal \in Directions, c \in Confidences : Twitter(signal, c)
  \/ \E strategies \in Ballots : Evaluate(strategies)
  \/ Tick \/ Stopped \/ Restart

AggSpec == AggInit /\ [][AggNext]_aggVars

-----------------------------------------------------------------------------
(* Properties. *)

\* What a strategy may have of confidence.
Sureness == {v.conf : v \in UNION {ToSet(b) : b \in Ballots}}

\* A decision of a strategy with a vote that is turned to BUY, or a BUY made surer.
Surer(strategies) ==
  {[strategies EXCEPT ![i] = Vote("BUY", c, @.weight)] :
     i \in DOMAIN strategies,
     c \in Sureness} \ {strategies}

\* The market is no better in one reading than in another.
Trend(adx) == CASE adx = "chop" -> 1 [] adx = "middle" -> 2 [] adx = "strong" -> 3 [] OTHER -> 2
Worse(r, s) ==
  /\ r.volatility = s.volatility \/ (s.volatility # 0 /\ r.volatility > s.volatility)
  /\ Trend(r.adx) <= Trend(s.adx)
  /\ r.bull => s.bull
  /\ s.against \subseteq r.against /\ r.missing = s.missing

\* Whatever the external signals and the last decision are: when the votes would buy, they
\* still would if one strategy turned to BUY at no less confidence than it had, or was
\* surer of it (aggregateVotes counts HOLD in the average; before, a strategy that left
\* HOLD for BUY could cost the entry).  And a lower confidence, a more volatile coin, a weaker
\* trend of it or a bear market of BTC give at most the size that was sent, through every clamp
\* and floor of the chain (computePositionSize).
BetterNeverHurts ==
  /\ sent = NoOrder =>   \* the answer depends on no order: asked once where one was sent
       \A strategies \in Ballots :
         LET buys(s) == Aggregated(Ballot(s, Pruned(externals)), last) = "BUY"
         IN buys(strategies) =>
              \A s \in Surer(strategies) :
                (\A i \in DOMAIN s : s[i].conf >= strategies[i].conf) => buys(s)
  /\ sent.order = "BUY" =>
       \A r \in Readings, conf \in 0 .. sent.conf :
         Worse(r, sent.reading) => Size(conf, r) <= sent.size
===============================================================================
