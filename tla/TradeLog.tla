------------------------------ MODULE TradeLog ------------------------------
(***************************************************************************)
(* The live bot's record of its trades: rows appended to trades.csv          *)
(* (logger.js), the log in memory and its saves (dashboardState.js,           *)
(* persistence.js), the BUYs made up for coins found in the wallet (main.js,   *)
(* liveTrader.js), the requests of the page (dashboardServer.js, main.js),    *)
(* the repair of a wrong entry (repairPhantomState.mjs), and the page with    *)
(* its stream of events (public/dashboard.js).                               *)
(*                                                                          *)
(* A trade is its time, by which it is known everywhere, its coin and side.   *)
(***************************************************************************)
EXTENDS Integers, TradeTimes

CONSTANTS
  LogCoins,
  LogLimit,     \* MAX_TRADES of the log
  PageLimit,    \* trades the page keeps
  PageTrades,   \* bound: the trades of a behaviour about the page
  FileTrades,   \* bound: the trades of a behaviour about the files
  MaxMishaps,   \* bound: saves and records lost, connections dropped, pages reloaded
  MaxBoots      \* bound: restarts

ASSUME LogAssumption ==
  /\ {LogLimit, PageLimit} \subseteq Nat \ {0}
  /\ {PageTrades, FileTrades, MaxMishaps, MaxBoots} \subseteq Nat

Scenes == {"page", "files"}
MaxTime == [s \in Scenes |-> IF s = "page" THEN PageTrades ELSE FileTrades]

VARIABLES
  wallet,     \* coins on the exchange, the ones bought there by hand too
  held,       \* trader.positions
  legs,       \* position_state.json
  log,        \* dashboardState.trades, newest first
  hushed,     \* suppressedSynthetics
  saved,      \* dashboard_persist.json, and whether a write of it was cut short
  rows,       \* trades.csv, oldest first
  due,        \* _saveTimer is set
  probe,      \* the smoke test: its coins, and its trade that the page has not been told of
  page,       \* the page: the trades it shows, the events on their way, its connection
  process,    \* "up", "down", or "booting"
  now, mishaps, boots,
  deleted,    \* auxiliary: times of the made-up BUYs that were deleted
  scene       \* what the behaviour is about: the page, or the files behind it

logVars == <<wallet, held, legs, log, hushed, saved, rows, due, probe, page, process, now, mishaps, boots, deleted, scene>>

Times(s)    == {s[i].at : i \in DOMAIN s}
First(s, n) == SubSeq(s, 1, IF Len(s) < n THEN Len(s) ELSE n)
NoProbe     == [coins |-> {}, untold |-> <<>>]

LogInit ==
  /\ wallet = {} /\ held = {} /\ legs = {}
  /\ log = <<>> /\ hushed = {} /\ rows = <<>>
  /\ saved = [log |-> <<>>, hushed |-> {}, torn |-> FALSE]
  /\ due = FALSE /\ probe = NoProbe
  /\ page = [shown |-> <<>>, wire |-> <<>>, open |-> FALSE]
  /\ process = "up" /\ now = 0 /\ mishaps = 0 /\ boots = 0
  /\ deleted = {}
  /\ scene \in Scenes

Bot    == <<wallet, held, legs, probe>>
LogState == <<log, hushed, rows, due, now>>
Env    == <<process, mishaps, boots, scene>>

Mishap(n) == mishaps + n <= MaxMishaps /\ mishaps' = mishaps + n

-----------------------------------------------------------------------------
(* Events. *)

CycleEvent == [kind |-> "cycle", trades |-> log]
Told(e)    == page' = IF page.open THEN [page EXCEPT !.wire = Append(@, e)] ELSE page

\* The trade that is recorded next.
Trade(c, side, kind) == [at |-> now + 1, coin |-> c, side |-> side, kind |-> kind]
Row(t)               == [t EXCEPT !.kind = "row"]

\* appendTrade and pushTrade: a BUY ends the suppression of its coin.
Recorded(t) ==
  /\ now < MaxTime[scene] /\ now' = t.at
  /\ rows' = Append(rows, Row(t))
  /\ log' = First(<<t>> \o log, LogLimit)
  /\ hushed' = IF t.side = "BUY" THEN hushed \ {t.coin} ELSE hushed
  /\ due' = TRUE

-----------------------------------------------------------------------------
(* Trading. *)

Takes(c) == /\ wallet' = wallet \cup {c} /\ held' = held \cup {c} /\ legs' = legs \cup {c}
Gives(c) == /\ wallet' = wallet \ {c} /\ held' = held \ {c} /\ legs' = legs \ {c}

Buy(c) ==
  /\ process = "up" /\ c \notin held
  /\ Takes(c)
  /\ \E t \in {Trade(c, "BUY", "trade")} : Recorded(t) /\ Told([kind |-> "trade", trades |-> <<t>>])
  /\ UNCHANGED <<probe, saved, Env, deleted>>

\* By a signal or a stop, or by the page's Close button, which tells the page nothing.
Sell(c, byHand) ==
  /\ process = "up" /\ c \in held
  /\ Gives(c)
  /\ \E t \in {Trade(c, "SELL", "trade")} :
       Recorded(t) /\ IF byHand THEN UNCHANGED page ELSE Told([kind |-> "trade", trades |-> <<t>>])
  /\ UNCHANGED <<probe, saved, Env, deleted>>

\* A partial exit is in the file only.
SellPart(c) ==
  /\ scene = "files" /\ process = "up" /\ c \in held /\ now < MaxTime[scene]
  /\ now' = now + 1 /\ rows' = Append(rows, Row(Trade(c, "SELL", "trade")))
  /\ UNCHANGED <<Bot, log, hushed, due, saved, page, Env, deleted>>

\* A buy on the exchange that the bot has no part in.
BuyElsewhere(c) ==
  /\ scene = "files" /\ c \notin wallet /\ wallet' = wallet \cup {c}
  /\ UNCHANGED <<held, legs, probe, LogState, saved, page, Env, deleted>>

\* Mutant of OpenInLog: the search ends at the newest entry of all.
OpenOnTop(c) == log # <<>> /\ log[1].coin = c /\ log[1].side = "BUY"

\* The newest entry of the coin is a BUY.
OpenInLog(c) ==
  \E i \in DOMAIN log : /\ log[i].coin = c /\ log[i].side = "BUY"
                        /\ \A j \in 1 .. i - 1 : log[j].coin # c

\* The wallet restore, at boot and at each balance poll: a coin with neither a saved leg nor an
\* open BUY gets one made up, unless its last such entry was deleted.
Adopt(c) ==
  /\ process # "down" /\ c \in wallet \ held
  /\ held' = held \cup {c} /\ legs' = legs \cup {c}
  /\ IF c \in legs \/ OpenInLog(c) \/ c \in hushed THEN UNCHANGED LogState
     ELSE Recorded(Trade(c, "BUY", "found"))
  /\ UNCHANGED <<wallet, probe, saved, page, Env, deleted>>

-----------------------------------------------------------------------------
(* The smoke test. *)

\* Coins the log has a BUY of and no SELL.
LogOpen ==
  LET real(side) == {log[i].coin : i \in {i \in DOMAIN log : log[i].side = side /\ log[i].kind # "smoke"}}
  IN real("BUY") \ real("SELL")

\* One test at a time; it buys a coin the log does not show as open, if there is one.
SmokeBuy(c) ==
  /\ scene = "page" /\ process = "up" /\ probe = NoProbe
  /\ c \in (IF LogCoins \subseteq LogOpen THEN LogCoins ELSE LogCoins \ LogOpen) \ held
  /\ Takes(c)
  /\ \E t \in {Trade(c, "BUY", "smoke")} : Recorded(t) /\ probe' = [coins |-> {c}, untold |-> <<t>>]
  /\ UNCHANGED <<saved, page, Env, deleted>>

\* The account is read before the page is told.
SmokeTells ==
  /\ probe.untold # <<>>
  /\ page' = IF page.open
             THEN [page EXCEPT !.wire = @ \o <<[kind |-> "trade", trades |-> probe.untold], CycleEvent>>]
             ELSE page
  /\ probe' = [probe EXCEPT !.untold = <<>>]
  /\ UNCHANGED <<wallet, held, legs, LogState, saved, Env, deleted>>

\* The hold is over: what is held of the coin is sold, if anything.
SmokeSell(c) ==
  /\ c \in probe.coins /\ probe.untold = <<>>
  /\ IF c \notin held THEN probe' = NoProbe /\ UNCHANGED <<wallet, held, legs, LogState>>
     ELSE /\ Gives(c)
          /\ \E t \in {Trade(c, "SELL", "smoke")} : Recorded(t) /\ probe' = [coins |-> {}, untold |-> <<t>>]
  /\ UNCHANGED <<saved, page, Env, deleted>>

-----------------------------------------------------------------------------
(* The requests of the page. *)

\* deleteTrade: out of the log; a BUY's coin is suppressed.
Delete(t) ==
  /\ process = "up" /\ t.at \in Times(log)
  /\ log' = Without(log, {t.at})
  /\ hushed' = IF t.side = "BUY" THEN hushed \cup {t.coin} ELSE hushed
  /\ due' = TRUE
  /\ page' = [page EXCEPT !.shown = Without(@, {t.at})]
  /\ deleted' = IF t.kind = "found" THEN deleted \cup {t.at} ELSE deleted
  /\ UNCHANGED <<Bot, rows, now, saved, Env>>

\* clearHistory, and the file with nothing but its header.
Reset ==
  /\ process = "up" /\ (log # <<>> \/ rows # <<>>)
  /\ log' = <<>> /\ hushed' = {} /\ rows' = <<>> /\ due' = TRUE
  /\ UNCHANGED <<Bot, now, saved, page, Env, deleted>>

-----------------------------------------------------------------------------
(* Saving and restarting. *)

WriteLog ==
  /\ due /\ due' = FALSE
  /\ saved' = [log |-> log, hushed |-> hushed, torn |-> TRUE]
  /\ UNCHANGED <<Bot, log, hushed, rows, now, page, Env, deleted>>

LogWritten ==
  /\ saved.torn /\ saved' = [saved EXCEPT !.torn = FALSE]
  /\ UNCHANGED <<Bot, LogState, page, Env, deleted>>

\* The process ends; a save that was due or under way is lost.
Exit ==
  /\ scene = "files" /\ process # "down" /\ boots < MaxBoots
  /\ process' = "down" /\ boots' = boots + 1
  /\ Mishap(IF due \/ saved.torn THEN 1 ELSE 0)
  /\ held' = {} /\ probe' = NoProbe /\ due' = FALSE
  /\ saved' = IF saved.torn THEN [log |-> <<>>, hushed |-> {}, torn |-> FALSE] ELSE saved
  /\ page' = [page EXCEPT !.wire = <<>>, !.open = FALSE]
  /\ UNCHANGED <<wallet, legs, log, hushed, rows, now, deleted, scene>>

\* position_state.json cannot be read, nor its copy.
LoseLegs ==
  /\ process = "down" /\ scene = "files" /\ legs # {} /\ Mishap(1)
  /\ legs' = {}
  /\ UNCHANGED <<wallet, held, probe, LogState, saved, page, process, boots, deleted, scene>>

\* The repair script, with the bot stopped: made-up BUYs of a coin go from the saved log.
Repair(c) ==
  LET wrong == {t.at : t \in {t \in Range(saved.log) : t.coin = c /\ t.kind = "found"}} IN
  /\ scene = "files" /\ process = "down" /\ wrong # {}
  /\ saved' = [saved EXCEPT !.log = Without(@, wrong), !.hushed = @ \cup {c}]
  /\ deleted' = deleted \cup wrong
  /\ UNCHANGED <<Bot, LogState, page, Env>>

\* The saved log, then the rows it has no entry of; the newest rows when it is empty.
RestoredLog ==
  LET newest == First(Reverse(rows), LogLimit) IN
  IF saved.log = <<>> THEN newest
  ELSE First(saved.log \o Without(newest, Times(saved.log)), LogLimit)

Boot ==
  /\ process = "down" /\ process' = "booting"
  /\ log' = RestoredLog /\ hushed' = saved.hushed
  /\ UNCHANGED <<Bot, rows, due, now, saved, page, mishaps, boots, deleted, scene>>

\* The wallet is restored before anything trades.
Booted ==
  /\ process = "booting" /\ wallet \subseteq held
  /\ process' = "up"
  /\ UNCHANGED <<Bot, LogState, saved, page, mishaps, boots, deleted, scene>>

-----------------------------------------------------------------------------
(* The page. *)

\* Mutant of Merged: an event's trade goes on top whatever is shown.
MergedOnTop(t, shown) == First(<<t>> \o shown, PageLimit)

\* mergeTrade: the trade first, and none twice.
Merged(t, shown) == First(<<t>> \o Without(shown, {t.at}), PageLimit)

Deliver ==
  /\ page.wire # <<>>
  /\ \E e \in {Head(page.wire)} :
       page' = [page EXCEPT !.wire = SubSeq(@, 2, Len(@)),
                            !.shown = IF e.kind = "cycle" THEN First(e.trades, PageLimit)
                                      ELSE Merged(e.trades[1], @)]
  /\ UNCHANGED <<Bot, LogState, saved, Env, deleted>>

\* EventSource opens: the server begins with the whole state.
Connect ==
  /\ scene = "page" /\ process # "down" /\ ~page.open
  /\ page' = [page EXCEPT !.open = TRUE, !.wire = <<CycleEvent>>]
  /\ UNCHANGED <<Bot, LogState, saved, Env, deleted>>

Drop ==
  /\ page.open /\ Mishap(1)
  /\ page' = [page EXCEPT !.open = FALSE, !.wire = <<>>]
  /\ UNCHANGED <<Bot, LogState, saved, process, boots, deleted, scene>>

\* Mutant of Heartbeat: a heartbeat that says no more than that the server is there.
HeartbeatBare ==
  /\ page.open /\ page.wire = <<>>
  /\ UNCHANGED logVars

\* Every 15 seconds the whole state is sent again; what was sent before has arrived.
Heartbeat ==
  /\ page.open /\ page.wire = <<>> /\ process # "down"
  /\ page' = [page EXCEPT !.wire = <<CycleEvent>>]
  /\ UNCHANGED <<Bot, LogState, saved, Env, deleted>>

\* A page that is opened reads the saved file first, or what it can of it.
Load ==
  /\ scene = "page" /\ process # "down" /\ ~page.open /\ Mishap(1)
  /\ page' = [page EXCEPT !.shown = First(IF saved.torn THEN <<>> ELSE saved.log, PageLimit)]
  /\ UNCHANGED <<Bot, LogState, saved, process, boots, deleted, scene>>

-----------------------------------------------------------------------------
LogNext ==
  \/ \E c \in LogCoins :
       \/ Buy(c) \/ SellPart(c) \/ BuyElsewhere(c) \/ Adopt(c) \/ SmokeBuy(c) \/ SmokeSell(c) \/ Repair(c)
       \/ \E byHand \in BOOLEAN : Sell(c, byHand)
  \/ SmokeTells \/ Reset \/ WriteLog \/ LogWritten \/ Exit \/ LoseLegs \/ Boot \/ Booted
  \/ \E t \in Range(IF scene = "page" THEN page.shown ELSE log) : Delete(t)
  \/ Deliver \/ Connect \/ Drop \/ Heartbeat \/ Load

LogSpec == LogInit /\ [][LogNext]_logVars

\* Restarts come about, the restore goes on, the page tries again every three seconds, the
\* stream delivers, and the heartbeat is a timer.
LogFair ==
  /\ WF_logVars(Boot) /\ WF_logVars(Booted \/ \E c \in LogCoins : Adopt(c))
  /\ WF_logVars(Connect) /\ WF_logVars(Deliver) /\ WF_logVars(Heartbeat)

LogFairSpec == LogSpec /\ LogFair

-----------------------------------------------------------------------------
(* Properties. *)

Distinct(s) == \A i, j \in DOMAIN s : i # j => s[i].at # s[j].at

\* Neither the log nor the page has a trade twice: over restarts that merge the saved log with
\* the file's rows, events that overtake heartbeats, reloads and reconnects.
\* (dashboardState.js:35-40, dashboard.js: mergeTrade.)
NoTradeTwice == Distinct(log) /\ Distinct(page.shown)

\* A holding is written down once: between two BUYs of a coin in the file there is a sale, when
\* coins are found in the wallet, entries deleted, the log reset, and the process restarted with
\* the last save or the saved legs lost.  (liveTrader.js:399-411, main.js: recordSyntheticTrade.)
BoughtOnce ==
  \A i, j \in DOMAIN rows :
    i < j /\ rows[i].side = "BUY" /\ rows[j].side = "BUY" /\ rows[i].coin = rows[j].coin
      => \E k \in i + 1 .. j - 1 : rows[k].coin = rows[i].coin /\ rows[k].side = "SELL"

\* After the trading, the page comes to show the log and goes on to: whatever it was told late,
\* twice or not at all, and whatever was deleted under it.  (dashboardServer.js: the heartbeat.)
PageCatchesUp == <>[](scene = "page" => page.shown = First(log, PageLimit))

\* dashboardState.js:61: "Symbols whose synthetic BUY was deleted - never re-create on restore".
DeletedStaysDeleted == Times(log) \cap deleted = {}
=============================================================================
