---------------------------- MODULE VenueNotices ----------------------------
(***************************************************************************)
(* Binance's notices on a coin, from the page they appear on to the veto a   *)
(* cycle applies: the feed and its cache (data/exchangeEventsFeed.js), the    *)
(* engine's copy (core/engine.js: refreshExchangeEvents) and the rule         *)
(* (risk/exchangeEvents.js).                                                 *)
(*                                                                          *)
(* Time is in periods of four hours: a 12h cycle runs at the start of every  *)
(* third, a breakout cycle a minute into each.  A notice is its place in the *)
(* order of announcement; what its title says is its kind.                   *)
(***************************************************************************)
EXTENDS Integers, Sequences, FiniteSets

CONSTANTS
  PageSize,       \* notices on a catalog's newest page
  Lead, Grace,    \* periods from a removal's notice to its effect, and from there to the veto's end
  MaxNotices, MaxPeriod, MaxMishaps   \* bounds

ASSUME NoticesAssumption ==
  /\ PageSize \in Nat \ {0} /\ Lead \in Nat /\ Grace \in Nat \ {0}
  /\ MaxNotices \in Nat /\ MaxPeriod \in Nat /\ MaxMishaps \in Nat

VARIABLES
  period,     \* the clock
  pending,    \* the cycles still to come in this period
  notices,    \* the notices announced: their kind and period
  cache,      \* exchangeEvents.json: when it was fetched, and the notices in it
  known,      \* engine.state.exchangeEvents, as the notices they come from
  mishaps,    \* failures and restarts so far
  behind,     \* auxiliary: the last read of the feed failed, or that of a body did
  heeded,     \* auxiliary: all notices a cycle has known
  veto        \* auxiliary: the veto the last cycle applied, "idle" before the first of the period

noticeVars == <<period, pending, notices, cache, known, mishaps, behind, heeded, veto>>

NoticeKinds == {"tag", "untag", "pair", "delist"}
NoCache == [at |-> -1, seen |-> {}]

CyclesOf(p) == IF p % 3 = 0 THEN {"main", "breakout"} ELSE {"breakout"}

NoticesInit ==
  /\ period = 0 /\ pending = CyclesOf(0) /\ notices = <<>>
  /\ cache = NoCache /\ known = {} /\ mishaps = 0
  /\ behind = FALSE /\ heeded = {} /\ veto = "idle"

-----------------------------------------------------------------------------
(* The feed. *)

Catalog(i) == IF notices[i].kind \in {"pair", "delist"} THEN "delisting" ELSE "news"

\* fetchNoticePage, of both catalogs.
Pages == {i \in DOMAIN notices :
            Cardinality({j \in DOMAIN notices : j > i /\ Catalog(j) = Catalog(i)}) < PageSize}

\* needsBody: the title does not name the pairs.
NeedsBody(i) == notices[i].kind = "pair"

\* Mutant of Ingested: what has left the page leaves the cache.
IngestedAfresh(seen, lost) == Pages \ lost

\* ingestNotices: a notice whose body failed stays unseen.
Ingested(seen, lost) == seen \cup (Pages \ lost)

\* The cache was fetched in this period.
Current(c) == c.at = period

\* loadExchangeEvents: the cache after it.  A list that fails leaves it; lost bodies do not.
Refreshed(failed, lost) ==
  IF Current(cache) \/ failed THEN cache
  ELSE [at |-> period, seen |-> Ingested(cache.seen, lost)]

-----------------------------------------------------------------------------
(* The rule. *)

\* The newest tag, unless it was removed after.
Tagged(ids) ==
  \E i \in ids : /\ notices[i].kind = "tag"
                 /\ \A j \in ids : notices[j].kind = "untag" => j < i

\* A removal that has not been over for long.
Removed(ids) ==
  \E i \in ids : notices[i].kind \in {"pair", "delist"} /\ period < notices[i].at + Lead + Grace

\* exchangeEventState: a removal blocks entries and sells what is held, a tag blocks entries.
VetoOf(ids) ==
  CASE Removed(ids) -> "exit"
    [] ~Removed(ids) /\ Tagged(ids) -> "block"
    [] OTHER -> "free"

-----------------------------------------------------------------------------
(* Steps. *)

Announce(kind) ==
  /\ Len(notices) < MaxNotices
  /\ notices' = Append(notices, [kind |-> kind, at |-> period])
  /\ UNCHANGED <<period, pending, cache, known, mishaps, behind, heeded, veto>>

Mishap == mishaps < MaxMishaps /\ mishaps' = mishaps + 1

\* A cycle starts with refreshExchangeEvents: with no cache and no answer the last events stay.
Heeds(cycle) ==
  /\ cycle \in pending /\ (cycle = "breakout" => "main" \notin pending)
  /\ pending' = pending \ {cycle}
  /\ \E failed \in BOOLEAN, lost \in SUBSET {i \in Pages \ cache.seen : NeedsBody(i)} :
       /\ IF failed \/ lost # {} THEN ~Current(cache) /\ Mishap ELSE UNCHANGED mishaps
       /\ behind' = IF Current(cache) THEN behind ELSE failed \/ lost # {}
       /\ cache' = Refreshed(failed, lost)
  /\ known' = IF cache'.at < 0 THEN known ELSE cache'.seen
  /\ veto' = VetoOf(known') /\ heeded' = heeded \cup known'
  /\ UNCHANGED <<period, notices>>

NextPeriod ==
  /\ pending = {} /\ period < MaxPeriod
  /\ period' = period + 1 /\ pending' = CyclesOf(period') /\ veto' = "idle"
  /\ UNCHANGED <<notices, cache, known, mishaps, behind, heeded>>

\* The process ends and boots at once, with a 12h cycle.  The cache is renamed into place: never torn.
Reboot ==
  /\ Mishap
  /\ known' = {} /\ pending' = {"main"} /\ veto' = "idle"
  /\ UNCHANGED <<period, notices, cache, behind, heeded>>

NoticesNext ==
  \/ \E kind \in NoticeKinds : Announce(kind)
  \/ \E cycle \in {"main", "breakout"} : Heeds(cycle)
  \/ NextPeriod \/ Reboot

NoticesSpec == NoticesInit /\ [][NoticesNext]_noticeVars

-----------------------------------------------------------------------------
(* Properties. *)

\* A standing removal sells, and a standing tag blocks, at the first cycle that starts after
\* the notice, if it was read when last tried and the notice has not left the page unread; and
\* a notice that one cycle knew, every later one knows, over restarts, outages, bodies that
\* fail and pages it has left.
\* (exchangeEvents.js: "a held position is sold at the first cycle after the notice";
\* loadExchangeEvents: "live must have read the feed since the last cycle boundary".)
NoticesAreHeeded ==
  LET before == {i \in DOMAIN notices : notices[i].at < period /\ i \in Pages \cup heeded}
      tags   == {i \in DOMAIN notices : notices[i].kind \in {"tag", "untag"}}
  IN veto # "idle" =>
       /\ heeded \subseteq known
       /\ ~behind =>
            /\ Removed(before) => veto = "exit"
            /\ \A i \in before : notices[i].kind = "tag" /\ (\A j \in tags : j <= i) => veto # "free"
=============================================================================
