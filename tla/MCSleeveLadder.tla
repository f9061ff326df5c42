--------------------------- MODULE MCSleeveLadder ---------------------------
EXTENDS SleeveLadder
mcLadder ==
  << [min |-> 0, symbols |-> <<"btc">>, pct |-> 50],
     [min |-> 8, symbols |-> <<"btc">>, pct |-> 30],
     [min |-> 11, symbols |-> <<"btc", "sol">>, pct |-> 40] >>
mcDeposits == {-4, 4}
=============================================================================
