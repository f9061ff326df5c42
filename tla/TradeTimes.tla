----------------------------- MODULE TradeTimes -----------------------------
(* A trade is known by its time, in the log, in its files and on the page.   *)
EXTENDS Sequences, SequencesExt

\* The entries of no such time, in their order.
Without(s, times) ==
  FoldLeft(LAMBDA kept, t : IF t.at \in times THEN kept ELSE Append(kept, t), <<>>, s)
=============================================================================
