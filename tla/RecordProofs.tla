----------------------------- MODULE RecordProofs -----------------------------
(***************************************************************************)
(* Proofs about what the bot writes down of its trades and finds again: the  *)
(* live bot's record (TradeLog), then the paper account and its restarts      *)
(* (PaperTrader, PaperRestart).                                              *)
(***************************************************************************)
EXTENDS TradeLog, PaperRestart, FoldLemmas

Entry == [at : Nat, coin : LogCoins, side : {"BUY", "SELL"}, kind : {"trade", "found", "smoke", "row"}]

\* Entries of the times up to n, none of them twice.
Chronicle(s, n) == s \in Seq(Entry) /\ Distinct(s) /\ \A i \in DOMAIN s : s[i].at \in 1 .. n

-----------------------------------------------------------------------------
(* The entries of a log that are not of some times. *)

\* Without goes through the log from its start.
LEMMA WithoutSteps ==
  ASSUME NEW T, NEW s \in Seq(T), NEW times
  PROVE  \E g :
           /\ g[{}] = <<>>
           /\ \A k \in 1 .. Len(s) :
                g[1 .. k] = IF s[k].at \in times THEN g[1 .. k - 1] ELSE Append(g[1 .. k - 1], s[k])
           /\ Without(s, times) = g[1 .. Len(s)]
  <1> DEFINE D == SUBSET (1 .. Len(s))
             Taken(g, S) == IF s[Max(S)].at \in times THEN g[S \ {Max(S)}]
                           ELSE Append(g[S \ {Max(S)}], s[Max(S)])
             Folds(g) == g = [S \in D |-> IF S = {} THEN <<>> ELSE Taken(g, S)]
             f == [p \in Seq(T) \X T |-> IF p[2].at \in times THEN p[1] ELSE Append(p[1], p[2])]
             h == CHOOSE g : Folds(g)
  <1>1. Without(s, times) = h[1 .. Len(s)]
    <2>1. DOMAIN s = 1 .. Len(s)
      OBVIOUS
    <2> QED BY <2>1 DEF Without, FoldLeft, MapThenFoldSet
  <1>2. \E g : Folds(g)
    <2>1. f \in [Seq(T) \X T -> Seq(T)]
      OBVIOUS
    <2>2. <<>> \in Seq(T) /\ Len(s) \in Nat /\ Len(s) <= Len(s)
      OBVIOUS
    <2>3. PICK g \in [D -> Seq(T)] :
            \A S \in D : g[S] = IF S = {} THEN <<>> ELSE f[g[S \ {Max(S)}], s[Max(S)]]
      <3> DEFINE base == <<>>
      <3>1. base \in Seq(T)
        OBVIOUS
      <3> HIDE DEF f, base
      <3>2. \E g : IsFold(g, Seq(T), f, base, s, Len(s))
        BY <2>1, <2>2, <3>1, FoldExists
      <3> QED BY <3>2 DEF base, IsFold
    <2>4. ASSUME NEW S \in D, S # {} PROVE f[g[S \ {Max(S)}], s[Max(S)]] = Taken(g, S)
      <3>1. Max(S) \in S
        BY <2>2, <2>4, LastPosition
      <3>2. S \ {Max(S)} \in D /\ Max(S) \in 1 .. Len(s)
        BY <3>1
      <3>3. g[S \ {Max(S)}] \in Seq(T) /\ s[Max(S)] \in T
        BY <3>2
      <3> QED BY <3>3
    <2>5. Folds(g)
      <3> HIDE DEF f, Taken
      <3>1. g = [S \in D |-> g[S]]
        BY <2>3
      <3>2. \A S \in D : g[S] = IF S = {} THEN <<>> ELSE Taken(g, S)
        BY <2>3, <2>4
      <3> QED BY <3>1, <3>2
    <2> QED BY <2>5
  <1>3. Folds(h)
    <2> HIDE DEF Folds
    <2> QED BY <1>2
  <1>4. h[{}] = <<>>
    BY <1>3, Zenon
  <1>5. ASSUME NEW k \in 1 .. Len(s)
        PROVE  h[1 .. k] = IF s[k].at \in times THEN h[1 .. k - 1] ELSE Append(h[1 .. k - 1], s[k])
    <2>0. Len(s) \in Nat
      OBVIOUS
    <2> HIDE DEF h
    <2>1. 1 .. k \in D /\ 1 .. k # {} /\ k \in 1 .. k /\ k \in Nat
      <3>1. k \in Nat /\ 1 <= k /\ k <= Len(s)
        BY <2>0
      <3>2. k \in 1 .. k /\ \A i \in 1 .. k : i \in 1 .. Len(s)
        BY <2>0, <3>1
      <3> QED BY <3>1, <3>2
    <2>2. Max(1 .. k) = k
      BY <2>1, LastPosition
    <2>3. (1 .. k) \ {k} = 1 .. k - 1
      OBVIOUS
    <2>4. h[1 .. k] = Taken(h, 1 .. k)
      <3> HIDE DEF Taken
      <3> QED BY <1>3, <2>1
    <2> QED BY <2>2, <2>3, <2>4
  <1> HIDE DEF h
  <1> QED BY <1>1, <1>4, <1>5

\* The entries of w are those of s that are of other times, all of them, in their order.
Selects(w, s, times) ==
  \E e \in [1 .. Len(w) -> 1 .. Len(s)] :
    /\ \A i \in 1 .. Len(w) : w[i] = s[e[i]] /\ s[e[i]].at \notin times
    /\ \A i, j \in 1 .. Len(w) : i < j => e[i] < e[j]
    /\ \A k \in 1 .. Len(s) : s[k].at \notin times => \E i \in 1 .. Len(w) : e[i] = k

LEMMA WithoutKeeps ==
  ASSUME NEW T, NEW s \in Seq(T), NEW times
  PROVE  Without(s, times) \in Seq(T) /\ Selects(Without(s, times), s, times)
  <1> DEFINE Picks(w, n, e) ==
               /\ e \in [1 .. Len(w) -> 1 .. n]
               /\ \A i \in 1 .. Len(w) : w[i] = s[e[i]] /\ s[e[i]].at \notin times
               /\ \A i, j \in 1 .. Len(w) : i < j => e[i] < e[j]
               /\ \A k \in 1 .. n : s[k].at \notin times => \E i \in 1 .. Len(w) : e[i] = k
             Kept(w, n) == w \in Seq(T) /\ \E e : Picks(w, n, e)
  <1>1. PICK g :
           /\ g[{}] = <<>>
           /\ \A k \in 1 .. Len(s) :
                g[1 .. k] = IF s[k].at \in times THEN g[1 .. k - 1] ELSE Append(g[1 .. k - 1], s[k])
           /\ Without(s, times) = g[1 .. Len(s)]
    BY WithoutSteps
  <1> DEFINE Has == {n \in Nat : n <= Len(s) => Kept(g[1 .. n], n)}
  <1>2. 0 \in Has
    <2>1. 1 .. 0 = {}
      OBVIOUS
    <2>2. Picks(<<>>, 0, [i \in 1 .. 0 |-> 0])
      BY <2>1
    <2>3. Kept(<<>>, 0)
      <3> HIDE DEF Picks
      <3> QED BY <2>2
    <2> HIDE DEF Kept
    <2> QED BY <1>1, <2>1, <2>3
  <1>3. ASSUME NEW n \in Nat, n \in Has PROVE n + 1 \in Has
    <2> HIDE DEF Kept
    <2> SUFFICES ASSUME n + 1 <= Len(s) PROVE Kept(g[1 .. n + 1], n + 1)
      OBVIOUS
    <2>1. Kept(g[1 .. n], n)
      BY <1>3
    <2> DEFINE w == g[1 .. n]
    <2>2. g[1 .. n + 1] = IF s[n + 1].at \in times THEN w ELSE Append(w, s[n + 1])
      <3>1. n + 1 \in 1 .. Len(s) /\ (n + 1) - 1 = n
        OBVIOUS
      <3> QED BY <1>1, <3>1
    <2> HIDE DEF w
    <2>3. PICK e : Picks(w, n, e)
      BY <2>1 DEF Kept, w
    <2>4. w \in Seq(T) /\ s[n + 1] \in T /\ Len(w) \in Nat
      BY <2>1 DEF Kept, w
    <2>5. CASE s[n + 1].at \in times
      <3>1. \A k \in 1 .. n + 1 : s[k].at \notin times => k \in 1 .. n
        BY <2>5
      <3>2. e \in [1 .. Len(w) -> 1 .. n + 1]
        BY <2>3, <2>4
      <3>3. Picks(w, n + 1, e)
        BY <2>3, <3>1, <3>2
      <3>4. Kept(w, n + 1)
        BY <2>4, <3>3 DEF Kept
      <3> QED BY <2>2, <2>5, <3>4
    <2>6. CASE s[n + 1].at \notin times
      <3> DEFINE d == [i \in 1 .. Len(w) + 1 |-> IF i = Len(w) + 1 THEN n + 1 ELSE e[i]]
                 v == Append(w, s[n + 1])
      <3>1. v \in Seq(T) /\ Len(v) = Len(w) + 1 /\ v[Len(w) + 1] = s[n + 1]
              /\ \A i \in 1 .. Len(w) : v[i] = w[i]
        BY <2>4
      <3> HIDE DEF v
      <3>2. d \in [1 .. Len(v) -> 1 .. n + 1]
        BY <2>3, <2>4, <3>1
      <3>3. \A i \in 1 .. Len(v) : v[i] = s[d[i]] /\ s[d[i]].at \notin times
        BY <2>3, <2>4, <2>6, <3>1
      <3>4. \A i, j \in 1 .. Len(v) : i < j => d[i] < d[j]
        <4>1. d[Len(w) + 1] = n + 1 /\ \A i \in 1 .. Len(w) : d[i] = e[i] /\ e[i] \in 1 .. n
          BY <2>3, <2>4
        <4>2. \A i \in 1 .. Len(v) : i = Len(w) + 1 \/ i \in 1 .. Len(w)
          BY <2>4, <3>1
        <4>3. \A i, j \in 1 .. Len(w) : i < j => d[i] < d[j]
          BY <2>3, <4>1
        <4> HIDE DEF d
        <4>4. \A i \in 1 .. Len(w) : d[i] < n + 1
          <5>1. \A k \in 1 .. n : k < n + 1
            OBVIOUS
          <5> QED BY <4>1, <5>1
        <4> SUFFICES ASSUME NEW i \in 1 .. Len(v), NEW j \in 1 .. Len(v), i < j PROVE d[i] < d[j]
          OBVIOUS
        <4>5. i \in 1 .. Len(w)
          BY <2>4, <3>1
        <4>6. CASE j = Len(w) + 1
          BY <4>1, <4>4, <4>5, <4>6
        <4>7. CASE j \in 1 .. Len(w)
          BY <4>3, <4>5, <4>7
        <4> QED BY <4>2, <4>6, <4>7
      <3>5. \A k \in 1 .. n + 1 : s[k].at \notin times => \E i \in 1 .. Len(v) : d[i] = k
        <4>1. d[Len(v)] = n + 1 /\ Len(v) \in 1 .. Len(v)
          BY <2>4, <3>1
        <4>2. \A i \in 1 .. Len(w) : d[i] = e[i] /\ i \in 1 .. Len(v)
          BY <2>4, <3>1
        <4>3. \A k \in 1 .. n + 1 : k = n + 1 \/ k \in 1 .. n
          OBVIOUS
        <4> HIDE DEF d
        <4> QED BY <2>3, <4>1, <4>2, <4>3
      <3>6. Picks(v, n + 1, d)
        <4> HIDE DEF d
        <4> QED BY <3>2, <3>3, <3>4, <3>5
      <3>7. Kept(v, n + 1)
        <4> HIDE DEF Picks
        <4> QED BY <3>1, <3>6 DEF Kept
      <3> QED BY <2>2, <2>6, <3>7 DEF v
    <2> QED BY <2>5, <2>6
  <1>4. Kept(Without(s, times), Len(s))
    <2>1. Nat \subseteq Has
      <3> HIDE DEF Has
      <3> QED BY <1>2, <1>3, NatInductive
    <2> HIDE DEF Kept
    <2> QED BY <1>1, <2>1
  <1> DEFINE w == Without(s, times)
  <1>5. Kept(w, Len(s))
    BY <1>4
  <1> HIDE DEF w
  <1>6. w \in Seq(T) /\ Selects(w, s, times)
    BY <1>5 DEF Selects
  <1> QED BY <1>6 DEF w

-----------------------------------------------------------------------------
(* Chronicles: what a log may be cut down to, and what may be added to it. *)

LEMMA ChronicleGrowsOld ==
  ASSUME NEW m \in Nat, NEW n \in Nat, m <= n, NEW s, Chronicle(s, m)
  PROVE  Chronicle(s, n)
  BY DEF Chronicle

\* A part of a chronicle in which no entry is taken twice.
LEMMA ChroniclePart ==
  ASSUME NEW n \in Nat, NEW s, Chronicle(s, n), NEW w \in Seq(Entry),
         NEW e \in [1 .. Len(w) -> 1 .. Len(s)],
         \A i \in 1 .. Len(w) : w[i] = s[e[i]],
         \A i, j \in 1 .. Len(w) : i # j => e[i] # e[j]
  PROVE  Chronicle(w, n)
  <1>1. DOMAIN w = 1 .. Len(w) /\ DOMAIN s = 1 .. Len(s)
    BY DEF Chronicle
  <1>2. \A i, j \in 1 .. Len(w) : i # j => w[i].at # w[j].at
    <2>1. \A i, j \in 1 .. Len(s) : i # j => s[i].at # s[j].at
      BY <1>1 DEF Chronicle, Distinct
    <2> SUFFICES ASSUME NEW i \in 1 .. Len(w), NEW j \in 1 .. Len(w), i # j PROVE w[i].at # w[j].at
      OBVIOUS
    <2> DEFINE u == e[i]
               v == e[j]
    <2>2. u \in 1 .. Len(s) /\ v \in 1 .. Len(s) /\ u # v /\ w[i] = s[u] /\ w[j] = s[v]
      OBVIOUS
    <2> HIDE DEF u, v
    <2> QED BY <2>1, <2>2
  <1>3. \A i \in 1 .. Len(w) : w[i].at \in 1 .. n
    BY <1>1 DEF Chronicle
  <1> QED BY <1>1, <1>2, <1>3 DEF Chronicle, Distinct

LEMMA FirstIs ==
  ASSUME NEW T, NEW s \in Seq(T), NEW n \in Nat
  PROVE  /\ First(s, n) \in Seq(T)
         /\ Len(First(s, n)) = IF Len(s) < n THEN Len(s) ELSE n
         /\ \A i \in 1 .. Len(First(s, n)) : First(s, n)[i] = s[i]
  <1> DEFINE k == IF Len(s) < n THEN Len(s) ELSE n
  <1>1. k \in 0 .. Len(s)
    OBVIOUS
  <1>2. First(s, n) = SubSeq(s, 1, k)
    BY DEF First
  <1> HIDE DEF k
  <1>3. First(s, n) \in Seq(T) /\ Len(First(s, n)) = k /\ \A i \in 1 .. k : First(s, n)[i] = s[i]
    BY <1>1, <1>2
  <1> QED BY <1>3 DEF k

LEMMA ChronicleFirst ==
  ASSUME NEW n \in Nat, NEW s, Chronicle(s, n), NEW k \in Nat
  PROVE  Chronicle(First(s, k), n)
  <1> DEFINE w == First(s, k)
  <1>1. s \in Seq(Entry)
    BY DEF Chronicle
  <1>2. w \in Seq(Entry) /\ Len(w) <= Len(s) /\ \A i \in 1 .. Len(w) : w[i] = s[i]
    BY <1>1, FirstIs
  <1> HIDE DEF w
  <1>3. \A i \in 1 .. Len(w) : i \in 1 .. Len(s)
    BY <1>1, <1>2
  <1> DEFINE e == [i \in 1 .. Len(w) |-> i]
  <1>4. e \in [1 .. Len(w) -> 1 .. Len(s)] /\ \A i \in 1 .. Len(w) : e[i] = i
    BY <1>3
  <1> HIDE DEF e
  <1>5. Chronicle(w, n)
    BY <1>2, <1>4, ChroniclePart
  <1> QED BY <1>5 DEF w

LEMMA ChronicleWithout ==
  ASSUME NEW n \in Nat, NEW s, Chronicle(s, n), NEW times
  PROVE  /\ Chronicle(Without(s, times), n)
         /\ Len(Without(s, times)) <= Len(s)
         /\ Times(Without(s, times)) = Times(s) \ times
  <1> DEFINE w == Without(s, times)
  <1>1. s \in Seq(Entry)
    BY DEF Chronicle
  <1>2. PICK e \in [1 .. Len(w) -> 1 .. Len(s)] :
          /\ \A i \in 1 .. Len(w) : w[i] = s[e[i]] /\ s[e[i]].at \notin times
          /\ \A i, j \in 1 .. Len(w) : i < j => e[i] < e[j]
          /\ \A k \in 1 .. Len(s) : s[k].at \notin times => \E i \in 1 .. Len(w) : e[i] = k
    <2>1. Selects(w, s, times)
      BY <1>1, WithoutKeeps
    <2> HIDE DEF w
    <2> QED BY <2>1 DEF Selects
  <1>3. w \in Seq(Entry) /\ Len(w) \in Nat
    <2>1. w \in Seq(Entry)
      BY <1>1, WithoutKeeps
    <2> HIDE DEF w
    <2> QED BY <2>1
  <1> HIDE DEF w
  <1>4. \A i, j \in 1 .. Len(w) : i # j => e[i] # e[j]
    <2> SUFFICES ASSUME NEW i \in 1 .. Len(w), NEW j \in 1 .. Len(w), i # j PROVE e[i] # e[j]
      OBVIOUS
    <2>1. i < j \/ j < i
      BY <1>3
    <2> DEFINE u == e[i]
               v == e[j]
    <2>2. u \in 1 .. Len(s) /\ v \in 1 .. Len(s)
      OBVIOUS
    <2>3. u < v \/ v < u
      BY <1>2, <2>1
    <2> HIDE DEF u, v
    <2>4. u # v
      BY <2>2, <2>3
    <2> QED BY <2>4 DEF u, v
  <1>5. Chronicle(w, n)
    BY <1>2, <1>3, <1>4, ChroniclePart
  <1>6. Len(w) <= Len(s)
    <2>1. Len(s) \in Nat
      BY <1>1
    <2> QED BY <1>3, <1>4, <2>1, PlacesFit
  <1>7. Times(w) = Times(s) \ times
    <2>1. DOMAIN w = 1 .. Len(w) /\ DOMAIN s = 1 .. Len(s)
      BY <1>1, <1>3
    <2>2. ASSUME NEW i \in 1 .. Len(w) PROVE w[i].at \in Times(s) \ times
      <3>1. e[i] \in 1 .. Len(s) /\ w[i] = s[e[i]] /\ s[e[i]].at \notin times
        BY <1>2
      <3> QED BY <2>1, <3>1 DEF Times
    <2>3. ASSUME NEW k \in 1 .. Len(s), s[k].at \notin times PROVE s[k].at \in Times(w)
      <3>1. PICK i \in 1 .. Len(w) : e[i] = k
        BY <1>2, <2>3
      <3>2. w[i] = s[k]
        BY <1>2, <3>1
      <3> QED BY <2>1, <3>2 DEF Times
    <2> QED BY <2>1, <2>2, <2>3 DEF Times
  <1> QED BY <1>5, <1>6, <1>7 DEF w

\* A new entry before the others, and after them.
LEMMA ChronicleCons ==
  ASSUME NEW n \in Nat, NEW s, Chronicle(s, n), NEW t \in Entry, t.at \in 1 .. n, t.at \notin Times(s)
  PROVE  Chronicle(<<t>> \o s, n)
  <1> DEFINE w == <<t>> \o s
  <1>1. s \in Seq(Entry) /\ <<t>> \in Seq(Entry) /\ Len(<<t>>) = 1 /\ DOMAIN s = 1 .. Len(s)
    BY DEF Chronicle
  <1>2. w \in Seq(Entry) /\ Len(w) = Len(s) + 1 /\ w[1] = t /\ \A i \in 2 .. Len(s) + 1 : w[i] = s[i - 1]
    BY <1>1
  <1> HIDE DEF w
  <1>3. \A i \in 1 .. Len(w) : i = 1 \/ (i \in 2 .. Len(s) + 1 /\ i - 1 \in 1 .. Len(s))
    BY <1>1, <1>2
  <1>4. \A i \in 1 .. Len(s) : s[i].at # t.at
    BY <1>1 DEF Times
  <1>5. \A i \in 1 .. Len(w) : w[i].at \in 1 .. n
    BY <1>1, <1>2, <1>3 DEF Chronicle
  <1>6. \A i, j \in 1 .. Len(w) : i # j => w[i].at # w[j].at
    <2>1. \A i, j \in 1 .. Len(s) : i # j => s[i].at # s[j].at
      BY <1>1 DEF Chronicle, Distinct
    <2> SUFFICES ASSUME NEW i \in 1 .. Len(w), NEW j \in 1 .. Len(w), i # j PROVE w[i].at # w[j].at
      OBVIOUS
    <2>2. CASE i = 1 \/ j = 1
      <3>1. \A k \in 1 .. Len(w) : k # 1 => w[k].at # t.at
        BY <1>2, <1>3, <1>4
      <3> QED BY <1>2, <2>2, <3>1
    <2>3. CASE i # 1 /\ j # 1
      <3> DEFINE u == i - 1
                 v == j - 1
      <3>1. u \in 1 .. Len(s) /\ v \in 1 .. Len(s) /\ u # v /\ w[i] = s[u] /\ w[j] = s[v]
        BY <1>2, <1>3, <2>3
      <3> HIDE DEF u, v
      <3> QED BY <2>1, <3>1
    <2> QED BY <2>2, <2>3
  <1>7. DOMAIN w = 1 .. Len(w)
    BY <1>2
  <1>8. Chronicle(w, n)
    BY <1>2, <1>5, <1>6, <1>7 DEF Chronicle, Distinct
  <1> QED BY <1>8 DEF w

LEMMA ChronicleAppend ==
  ASSUME NEW n \in Nat, NEW s, Chronicle(s, n), NEW t \in Entry, t.at \in 1 .. n, t.at \notin Times(s)
  PROVE  Chronicle(Append(s, t), n)
  <1> DEFINE w == Append(s, t)
  <1>1. s \in Seq(Entry) /\ DOMAIN s = 1 .. Len(s)
    BY DEF Chronicle
  <1>2. w \in Seq(Entry) /\ Len(w) = Len(s) + 1 /\ w[Len(s) + 1] = t /\ \A i \in 1 .. Len(s) : w[i] = s[i]
    BY <1>1
  <1> HIDE DEF w
  <1>3. \A i \in 1 .. Len(w) : i = Len(s) + 1 \/ i \in 1 .. Len(s)
    BY <1>1, <1>2
  <1>4. \A i \in 1 .. Len(s) : s[i].at # t.at
    BY <1>1 DEF Times
  <1>5. \A i \in 1 .. Len(w) : w[i].at \in 1 .. n
    BY <1>1, <1>2, <1>3 DEF Chronicle
  <1>6. \A i, j \in 1 .. Len(w) : i # j => w[i].at # w[j].at
    <2>1. \A i, j \in 1 .. Len(s) : i # j => s[i].at # s[j].at
      BY <1>1 DEF Chronicle, Distinct
    <2>2. \A k \in 1 .. Len(w) : (k = Len(s) + 1 /\ w[k] = t) \/ (k \in 1 .. Len(s) /\ w[k] = s[k])
      BY <1>2, <1>3
    <2> QED BY <1>4, <2>1, <2>2
  <1>7. DOMAIN w = 1 .. Len(w)
    BY <1>2
  <1>8. Chronicle(w, n)
    BY <1>2, <1>5, <1>6, <1>7 DEF Chronicle, Distinct
  <1> QED BY <1>8 DEF w

LEMMA ChronicleReverse ==
  ASSUME NEW n \in Nat, NEW s, Chronicle(s, n)
  PROVE  Chronicle(Reverse(s), n)
  <1> DEFINE w == Reverse(s)
  <1>1. s \in Seq(Entry) /\ Len(s) \in Nat
    BY DEF Chronicle
  <1>2. \A i \in 1 .. Len(s) : (Len(s) - i) + 1 \in 1 .. Len(s)
    BY <1>1
  <1>3. w \in Seq(Entry) /\ Len(w) = Len(s) /\ \A i \in 1 .. Len(s) : w[i] = s[(Len(s) - i) + 1]
    BY <1>1, <1>2 DEF Reverse
  <1> HIDE DEF w
  <1> DEFINE e == [i \in 1 .. Len(w) |-> (Len(s) - i) + 1]
  <1>4. e \in [1 .. Len(w) -> 1 .. Len(s)]
    BY <1>2, <1>3
  <1>5. \A i \in 1 .. Len(w) : w[i] = s[e[i]]
    BY <1>3
  <1>6. \A i, j \in 1 .. Len(w) : i # j => e[i] # e[j]
    BY <1>1, <1>3
  <1> HIDE DEF e, w
  <1>7. Chronicle(w, n)
    <2>1. w \in Seq(Entry)
      BY <1>3
    <2> QED BY <2>1, <1>4, <1>5, <1>6, ChroniclePart
  <1> QED BY <1>7 DEF w

LEMMA ChronicleConcat ==
  ASSUME NEW n \in Nat, NEW s, Chronicle(s, n), NEW r, Chronicle(r, n), Times(s) \cap Times(r) = {}
  PROVE  Chronicle(s \o r, n)
  <1> DEFINE w == s \o r
  <1>1. s \in Seq(Entry) /\ r \in Seq(Entry) /\ DOMAIN s = 1 .. Len(s) /\ DOMAIN r = 1 .. Len(r)
    BY DEF Chronicle
  <1>2. /\ w \in Seq(Entry) /\ Len(w) = Len(s) + Len(r)
        /\ \A i \in 1 .. Len(s) : w[i] = s[i]
        /\ \A i \in Len(s) + 1 .. Len(s) + Len(r) : w[i] = r[i - Len(s)]
    BY <1>1
  <1> HIDE DEF w
  <1> DEFINE A == 1 .. Len(s)
             B == Len(s) + 1 .. Len(s) + Len(r)
  <1>3. \A i \in 1 .. Len(w) : i \in A \/ (i \in B /\ i - Len(s) \in 1 .. Len(r))
    BY <1>1, <1>2
  <1>4. \A i \in 1 .. Len(s), j \in 1 .. Len(r) : s[i].at # r[j].at
    BY <1>1 DEF Times
  <1>5. \A i \in 1 .. Len(w) : w[i].at \in 1 .. n
    BY <1>1, <1>2, <1>3 DEF Chronicle
  <1>6. \A i, j \in 1 .. Len(w) : i # j => w[i].at # w[j].at
    <2>1. \A i, j \in A : i # j => w[i].at # w[j].at
      BY <1>1, <1>2 DEF Chronicle, Distinct
    <2>2. \A i, j \in B : i # j => w[i].at # w[j].at
      <3>1. \A i, j \in B : i # j => i - Len(s) # j - Len(s) /\ i - Len(s) \in 1 .. Len(r) /\ j - Len(s) \in 1 .. Len(r)
        BY <1>1
      <3>2. \A i, j \in 1 .. Len(r) : i # j => r[i].at # r[j].at
        BY <1>1 DEF Chronicle, Distinct
      <3>3. \A i \in B : w[i] = r[i - Len(s)]
        BY <1>2
      <3> HIDE DEF B
      <3> QED BY <3>1, <3>2, <3>3
    <2>3. \A i \in A, j \in B : w[i].at # w[j].at
      <3>1. \A j \in B : j - Len(s) \in 1 .. Len(r)
        BY <1>1
      <3> QED BY <1>2, <1>4, <3>1
    <2> HIDE DEF A, B
    <2> QED BY <1>3, <2>1, <2>2, <2>3
  <1>7. DOMAIN w = 1 .. Len(w)
    BY <1>2
  <1>8. Chronicle(w, n)
    BY <1>2, <1>5, <1>6, <1>7 DEF Chronicle, Distinct
  <1> QED BY <1>8 DEF w

\* A chronicle has no more entries than times.
LEMMA ChronicleFits ==
  ASSUME NEW n \in Nat, NEW s, Chronicle(s, n)
  PROVE  Len(s) <= n
  <1> DEFINE e == [i \in 1 .. Len(s) |-> s[i].at]
  <1>1. s \in Seq(Entry) /\ DOMAIN s = 1 .. Len(s) /\ Len(s) \in Nat
    BY DEF Chronicle
  <1>2. e \in [1 .. Len(s) -> 1 .. n]
    BY <1>1 DEF Chronicle
  <1>3. \A i, j \in 1 .. Len(s) : i # j => e[i] # e[j]
    BY <1>1 DEF Chronicle, Distinct
  <1> HIDE DEF e
  <1> QED BY <1>1, <1>2, <1>3, PlacesFit

-----------------------------------------------------------------------------
(* Every log of the bot and of the page is a chronicle. *)

Events(n) ==
  {e \in [kind : {"trade", "cycle"}, trades : Seq(Entry)] :
     Chronicle(e.trades, n) /\ (e.kind = "trade" => e.trades # <<>>)}

PageOK(p, n) ==
  /\ p \in [shown : Seq(Entry), wire : Seq(Events(n)), open : BOOLEAN]
  /\ Chronicle(p.shown, n)

SavedOK(sv, n) ==
  /\ sv \in [log : Seq(Entry), hushed : SUBSET LogCoins, torn : BOOLEAN]
  /\ Chronicle(sv.log, n)

ProbeOK(p, n) ==
  /\ p \in [coins : SUBSET LogCoins, untold : Seq(Entry)]
  /\ Chronicle(p.untold, n)

BotOK   == wallet \subseteq LogCoins /\ held \subseteq LogCoins /\ legs \subseteq LogCoins
StateOK == /\ now \in Nat /\ Chronicle(log, now) /\ Chronicle(rows, now)
           /\ hushed \subseteq LogCoins /\ due \in BOOLEAN
EnvOK   == process \in {"up", "down", "booting"} /\ scene \in Scenes

\* The inductive invariant.
LogInv ==
  /\ BotOK /\ StateOK /\ EnvOK
  /\ SavedOK(saved, now) /\ PageOK(page, now) /\ ProbeOK(probe, now)

LEMMA SeqWider ==
  ASSUME NEW S, NEW T, S \subseteq T, NEW s \in Seq(S)
  PROVE  s \in Seq(T)
  OBVIOUS

LEMMA EmptyChronicle ==
  ASSUME NEW n \in Nat
  PROVE  Chronicle(<<>>, n)
  BY DEF Chronicle, Distinct

LEMMA SingleChronicle ==
  ASSUME NEW n \in Nat, NEW t \in Entry, t.at \in 1 .. n
  PROVE  Chronicle(<<t>>, n) /\ <<t>> # <<>>
  BY DEF Chronicle, Distinct

\* Time passes.
LEMMA LaterIsFine ==
  ASSUME NEW m \in Nat, NEW n \in Nat, m <= n
  PROVE  /\ \A p : PageOK(p, m) => PageOK(p, n)
         /\ \A sv : SavedOK(sv, m) => SavedOK(sv, n)
         /\ \A p : ProbeOK(p, m) => ProbeOK(p, n)
  <1>1. \A s : Chronicle(s, m) => Chronicle(s, n)
    BY ChronicleGrowsOld
  <1>2. Events(m) \subseteq Events(n)
    BY <1>1 DEF Events
  <1>3. \A w : w \in Seq(Events(m)) => w \in Seq(Events(n))
    BY <1>2, SeqWider
  <1>4. \A p : PageOK(p, m) => PageOK(p, n)
    BY <1>1, <1>3 DEF PageOK
  <1>5. \A sv : SavedOK(sv, m) => SavedOK(sv, n)
    BY <1>1 DEF SavedOK
  <1>6. \A p : ProbeOK(p, m) => ProbeOK(p, n)
    BY <1>1 DEF ProbeOK
  <1> QED BY <1>4, <1>5, <1>6

\* The page is told of trades or of the whole log.
LEMMA TellingIsFine ==
  ASSUME NEW n \in Nat, NEW p, PageOK(p, n), NEW w \in Seq(Events(n))
  PROVE  PageOK([p EXCEPT !.wire = @ \o w], n)
  <1>1. p.wire \o w \in Seq(Events(n))
    BY DEF PageOK
  <1> QED BY <1>1 DEF PageOK

LEMMA ToldIsFine ==
  ASSUME NEW n \in Nat, PageOK(page, n), NEW e \in Events(n), Told(e)
  PROVE  PageOK(page', n)
  <1>1. Append(page.wire, e) \in Seq(Events(n))
    BY DEF PageOK
  <1> QED BY <1>1 DEF Told, PageOK

LEMMA TradeIsEntry ==
  ASSUME now \in Nat, NEW c \in LogCoins, NEW side \in {"BUY", "SELL"}, NEW kind \in {"trade", "found", "smoke"}
  PROVE  /\ Trade(c, side, kind) \in Entry /\ Row(Trade(c, side, kind)) \in Entry
         /\ Trade(c, side, kind).at = now + 1 /\ Row(Trade(c, side, kind)).at = now + 1
         /\ Trade(c, side, kind).coin = c /\ Row(Trade(c, side, kind)).coin = c
         /\ Trade(c, side, kind).side = side /\ Row(Trade(c, side, kind)).side = side
  BY DEF Trade, Row, Entry

\* A trade that is recorded is newer than every entry.
LEMMA NewTime ==
  ASSUME NEW n \in Nat, NEW s, Chronicle(s, n)
  PROVE  n + 1 \notin Times(s)
  BY DEF Chronicle, Times

LEMMA RecordedIsFine ==
  ASSUME StateOK, NEW t \in Entry, t.at = now + 1, Row(t) \in Entry, Row(t).at = now + 1, Recorded(t)
  PROVE  StateOK' /\ now' = now + 1
  <1>0. now \in Nat /\ now' = now + 1 /\ now' \in Nat /\ now <= now' /\ now + 1 \in 1 .. now'
    BY DEF StateOK, Recorded
  <1>1. Chronicle(log, now') /\ Chronicle(rows, now')
    BY <1>0, ChronicleGrowsOld DEF StateOK
  <1>2. now + 1 \notin Times(log) /\ now + 1 \notin Times(rows)
    BY <1>0, NewTime DEF StateOK
  <1>3. Chronicle(<<t>> \o log, now')
    BY <1>0, <1>1, <1>2, ChronicleCons
  <1>4. LogLimit \in Nat
    BY LogAssumption
  <1>5. Chronicle(log', now')
    BY <1>0, <1>3, <1>4, ChronicleFirst DEF Recorded
  <1>6. Chronicle(rows', now')
    BY <1>0, <1>1, <1>2, ChronicleAppend DEF Recorded
  <1>7. hushed' \subseteq LogCoins /\ due' \in BOOLEAN
    BY DEF StateOK, Recorded
  <1> QED BY <1>0, <1>5, <1>6, <1>7 DEF StateOK

LEMMA LogInvInit ==
  ASSUME LogInit
  PROVE  LogInv
  <1>1. Chronicle(<<>>, 0)
    BY EmptyChronicle
  <1>2. <<>> \in Seq(Entry) /\ <<>> \in Seq(Events(0))
    OBVIOUS
  <1>3. BotOK /\ StateOK /\ EnvOK
    BY <1>1 DEF LogInit, BotOK, StateOK, EnvOK
  <1>4. SavedOK(saved, now) /\ PageOK(page, now) /\ ProbeOK(probe, now)
    BY <1>1, <1>2 DEF LogInit, NoProbe, SavedOK, PageOK, ProbeOK
  <1> QED BY <1>3, <1>4 DEF LogInv

LEMMA BuyKeepsLog ==
  ASSUME LogInv, NEW c \in LogCoins, Buy(c)
  PROVE  LogInv'
  <1> DEFINE t == Trade(c, "BUY", "trade")
             e == [kind |-> "trade", trades |-> <<t>>]
  <1>1. t \in Entry /\ Row(t) \in Entry /\ t.at = now + 1 /\ Row(t).at = now + 1
    BY TradeIsEntry DEF LogInv, StateOK
  <1>2. Recorded(t) /\ Told(e)
    BY DEF Buy
  <1> HIDE DEF t
  <1>3. StateOK' /\ now' = now + 1
    BY <1>1, <1>2, RecordedIsFine DEF LogInv
  <1>4. now \in Nat /\ now' \in Nat /\ now <= now' /\ t.at \in 1 .. now'
    BY <1>1, <1>3 DEF LogInv, StateOK
  <1>5. SavedOK(saved, now') /\ PageOK(page, now') /\ ProbeOK(probe, now')
    BY <1>4, LaterIsFine DEF LogInv
  <1>6. e \in Events(now')
    <2>1. Chronicle(<<t>>, now') /\ <<t>> # <<>>
      BY <1>1, <1>4, SingleChronicle
    <2>2. <<t>> \in Seq(Entry)
      BY <1>1
    <2> QED BY <2>1, <2>2 DEF Events
  <1>7. PageOK(page', now')
    BY <1>2, <1>4, <1>5, <1>6, ToldIsFine
  <1>8. BotOK'
    BY DEF Buy, Takes, LogInv, BotOK
  <1> QED BY <1>3, <1>5, <1>7, <1>8 DEF Buy, Env, LogInv, EnvOK

LEMMA SellKeepsLog ==
  ASSUME LogInv, NEW c \in LogCoins, NEW byHand \in BOOLEAN, Sell(c, byHand)
  PROVE  LogInv'
  <1> DEFINE t == Trade(c, "SELL", "trade")
             e == [kind |-> "trade", trades |-> <<t>>]
  <1>1. t \in Entry /\ Row(t) \in Entry /\ t.at = now + 1 /\ Row(t).at = now + 1
    BY TradeIsEntry DEF LogInv, StateOK
  <1>2. Recorded(t) /\ (page' = page \/ Told(e))
    BY DEF Sell
  <1> HIDE DEF t
  <1>3. StateOK' /\ now' = now + 1
    BY <1>1, <1>2, RecordedIsFine DEF LogInv
  <1>4. now \in Nat /\ now' \in Nat /\ now <= now' /\ t.at \in 1 .. now'
    BY <1>1, <1>3 DEF LogInv, StateOK
  <1>5. SavedOK(saved, now') /\ PageOK(page, now') /\ ProbeOK(probe, now')
    BY <1>4, LaterIsFine DEF LogInv
  <1>6. e \in Events(now')
    <2>1. Chronicle(<<t>>, now') /\ <<t>> # <<>>
      BY <1>1, <1>4, SingleChronicle
    <2>2. <<t>> \in Seq(Entry)
      BY <1>1
    <2> QED BY <2>1, <2>2 DEF Events
  <1>7. PageOK(page', now')
    BY <1>2, <1>4, <1>5, <1>6, ToldIsFine
  <1>8. BotOK'
    BY DEF Sell, Gives, LogInv, BotOK
  <1> QED BY <1>3, <1>5, <1>7, <1>8 DEF Sell, Env, LogInv, EnvOK

LEMMA SellPartKeepsLog ==
  ASSUME LogInv, NEW c \in LogCoins, SellPart(c)
  PROVE  LogInv'
  <1> DEFINE r == Row(Trade(c, "SELL", "trade"))
  <1>1. r \in Entry /\ r.at = now + 1
    BY TradeIsEntry DEF LogInv, StateOK
  <1>2. now \in Nat /\ now' = now + 1 /\ now' \in Nat /\ now <= now' /\ now + 1 \in 1 .. now'
    BY DEF SellPart, LogInv, StateOK
  <1>3. rows' = Append(rows, r)
    BY DEF SellPart
  <1> HIDE DEF r
  <1>4. Chronicle(rows, now') /\ Chronicle(log, now') /\ now + 1 \notin Times(rows)
    BY <1>2, ChronicleGrowsOld, NewTime DEF LogInv, StateOK
  <1>5. Chronicle(rows', now')
    BY <1>1, <1>2, <1>3, <1>4, ChronicleAppend
  <1>6. SavedOK(saved, now') /\ PageOK(page, now') /\ ProbeOK(probe, now')
    BY <1>2, LaterIsFine DEF LogInv
  <1>7. StateOK'
    BY <1>2, <1>4, <1>5 DEF SellPart, LogInv, StateOK
  <1> QED BY <1>6, <1>7 DEF SellPart, Bot, Env, LogInv, BotOK, EnvOK

LEMMA AdoptKeepsLog ==
  ASSUME LogInv, NEW c \in LogCoins, Adopt(c)
  PROVE  LogInv'
  <1>1. BotOK' /\ EnvOK'
    BY DEF Adopt, Env, LogInv, BotOK, EnvOK
  <1>2. CASE UNCHANGED LogState
    BY <1>1, <1>2 DEF Adopt, LogState, LogInv, StateOK
  <1>3. CASE Recorded(Trade(c, "BUY", "found"))
    <2> DEFINE t == Trade(c, "BUY", "found")
    <2>1. t \in Entry /\ Row(t) \in Entry /\ t.at = now + 1 /\ Row(t).at = now + 1
      BY TradeIsEntry DEF LogInv, StateOK
    <2>2. StateOK' /\ now' = now + 1
      <3> HIDE DEF t
      <3> QED BY <1>3, <2>1, RecordedIsFine DEF LogInv, t
    <2>3. now \in Nat /\ now' \in Nat /\ now <= now'
      BY <2>2 DEF LogInv, StateOK
    <2>4. SavedOK(saved, now') /\ PageOK(page, now') /\ ProbeOK(probe, now')
      BY <2>3, LaterIsFine DEF LogInv
    <2> QED BY <1>1, <2>2, <2>4 DEF Adopt, LogInv
  <1> QED BY <1>2, <1>3 DEF Adopt

LEMMA SmokeBuyKeepsLog ==
  ASSUME LogInv, NEW c \in LogCoins, SmokeBuy(c)
  PROVE  LogInv'
  <1> DEFINE t == Trade(c, "BUY", "smoke")
  <1>1. t \in Entry /\ Row(t) \in Entry /\ t.at = now + 1 /\ Row(t).at = now + 1
    BY TradeIsEntry DEF LogInv, StateOK
  <1>2. Recorded(t) /\ probe' = [coins |-> {c}, untold |-> <<t>>]
    BY DEF SmokeBuy
  <1> HIDE DEF t
  <1>3. StateOK' /\ now' = now + 1
    BY <1>1, <1>2, RecordedIsFine DEF LogInv
  <1>4. now \in Nat /\ now' \in Nat /\ now <= now' /\ t.at \in 1 .. now'
    BY <1>1, <1>3 DEF LogInv, StateOK
  <1>5. SavedOK(saved, now') /\ PageOK(page, now')
    BY <1>4, LaterIsFine DEF LogInv
  <1>6. ProbeOK(probe', now')
    <2>1. Chronicle(<<t>>, now') /\ <<t>> \in Seq(Entry)
      BY <1>1, <1>4, SingleChronicle
    <2> QED BY <1>2, <2>1 DEF ProbeOK
  <1>7. BotOK' /\ EnvOK'
    BY DEF SmokeBuy, Takes, Env, LogInv, BotOK, EnvOK
  <1> QED BY <1>3, <1>5, <1>6, <1>7 DEF SmokeBuy, LogInv

LEMMA SmokeTellsKeepsLog ==
  ASSUME LogInv, SmokeTells
  PROVE  LogInv'
  <1> DEFINE e == [kind |-> "trade", trades |-> probe.untold]
  <1>1. now \in Nat /\ now' = now
    BY DEF SmokeTells, LogState, LogInv, StateOK
  <1>2. e \in Events(now) /\ CycleEvent \in Events(now)
    BY DEF SmokeTells, LogInv, ProbeOK, StateOK, Chronicle, Events, CycleEvent
  <1>3. <<e, CycleEvent>> \in Seq(Events(now))
    <2> HIDE DEF e
    <2> QED BY <1>2
  <1>4. PageOK(page', now)
    <2> DEFINE w == <<e, CycleEvent>>
    <2>1. PageOK(page, now)
      BY DEF LogInv
    <2>2. page' = IF page.open THEN [page EXCEPT !.wire = @ \o w] ELSE page
      BY DEF SmokeTells
    <2> HIDE DEF w
    <2>3. w \in Seq(Events(now))
      BY <1>3 DEF w
    <2> QED BY <1>1, <2>1, <2>2, <2>3, TellingIsFine
  <1>5. ProbeOK(probe', now)
    <2>1. Chronicle(<<>>, now) /\ <<>> \in Seq(Entry)
      BY <1>1, EmptyChronicle
    <2>2. probe' = [probe EXCEPT !.untold = <<>>]
      BY DEF SmokeTells
    <2> QED BY <2>1, <2>2 DEF LogInv, ProbeOK
  <1>6. BotOK' /\ EnvOK' /\ StateOK'
    BY DEF SmokeTells, LogState, Env, LogInv, BotOK, EnvOK, StateOK
  <1> QED BY <1>1, <1>4, <1>5, <1>6 DEF SmokeTells, LogInv

LEMMA SmokeSellKeepsLog ==
  ASSUME LogInv, NEW c \in LogCoins, SmokeSell(c)
  PROVE  LogInv'
  <1>1. BotOK' /\ EnvOK'
    BY DEF SmokeSell, Gives, Env, LogInv, BotOK, EnvOK
  <1>2. CASE c \notin held
    <2>1. probe' = NoProbe /\ UNCHANGED LogState
      BY <1>2 DEF SmokeSell
    <2>2. now \in Nat /\ now' = now /\ StateOK'
      BY <2>1 DEF LogState, LogInv, StateOK
    <2>3. ProbeOK(probe', now)
      BY <2>1, <2>2, EmptyChronicle DEF NoProbe, ProbeOK
    <2> QED BY <1>1, <2>2, <2>3 DEF SmokeSell, LogInv
  <1>3. CASE c \in held
    <2> DEFINE t == Trade(c, "SELL", "smoke")
    <2>1. t \in Entry /\ Row(t) \in Entry /\ t.at = now + 1 /\ Row(t).at = now + 1
      BY TradeIsEntry DEF LogInv, StateOK
    <2>2. Recorded(t) /\ probe' = [coins |-> {}, untold |-> <<t>>]
      BY <1>3 DEF SmokeSell
    <2> HIDE DEF t
    <2>3. StateOK' /\ now' = now + 1
      BY <2>1, <2>2, RecordedIsFine DEF LogInv
    <2>4. now \in Nat /\ now' \in Nat /\ now <= now' /\ t.at \in 1 .. now'
      BY <2>1, <2>3 DEF LogInv, StateOK
    <2>5. SavedOK(saved, now') /\ PageOK(page, now')
      BY <2>4, LaterIsFine DEF LogInv
    <2>6. ProbeOK(probe', now')
      <3>1. Chronicle(<<t>>, now') /\ <<t>> \in Seq(Entry)
        BY <2>1, <2>4, SingleChronicle
      <3> QED BY <2>2, <3>1 DEF ProbeOK
    <2> QED BY <1>1, <2>3, <2>5, <2>6 DEF SmokeSell, LogInv
  <1> QED BY <1>2, <1>3

LEMMA DeleteKeepsLog ==
  ASSUME LogInv, NEW t \in Entry, Delete(t)
  PROVE  LogInv'
  <1>1. now \in Nat /\ now' = now
    BY DEF Delete, LogInv, StateOK
  <1>2. Chronicle(log', now)
    BY <1>1, ChronicleWithout DEF Delete, LogInv, StateOK
  <1>3. Chronicle(Without(page.shown, {t.at}), now)
    BY <1>1, ChronicleWithout DEF LogInv, PageOK
  <1>4. PageOK(page', now)
    BY <1>3 DEF Delete, LogInv, PageOK, Chronicle
  <1>5. hushed' \subseteq LogCoins /\ due' \in BOOLEAN
    BY DEF Delete, LogInv, StateOK, Entry
  <1>6. StateOK'
    BY <1>1, <1>2, <1>5 DEF Delete, LogInv, StateOK
  <1> QED BY <1>1, <1>4, <1>6 DEF Delete, Bot, Env, LogInv, BotOK, EnvOK

LEMMA DeliverKeepsLog ==
  ASSUME LogInv, Deliver
  PROVE  LogInv'
  <1> DEFINE e == Head(page.wire)
             shown == IF e.kind = "cycle" THEN First(e.trades, PageLimit) ELSE Merged(e.trades[1], page.shown)
             wire == SubSeq(page.wire, 2, Len(page.wire))
  <1>1. now \in Nat /\ now' = now /\ PageLimit \in Nat
    BY LogAssumption DEF Deliver, LogState, LogInv, StateOK
  <1>2. page.wire \in Seq(Events(now)) /\ page.wire # <<>> /\ Chronicle(page.shown, now)
    BY DEF Deliver, LogInv, PageOK
  <1>3. page' = [page EXCEPT !.wire = wire, !.shown = shown]
    BY DEF Deliver
  <1>4. e \in Events(now)
    BY <1>2
  <1>5. wire \in Seq(Events(now))
    BY <1>2
  <1>6. Chronicle(shown, now)
    <2> HIDE DEF e
    <2>1. CASE e.kind = "cycle"
      BY <1>1, <1>4, <2>1, ChronicleFirst DEF Events
    <2>2. CASE e.kind # "cycle"
      <3> DEFINE t == e.trades[1]
                 rest == Without(page.shown, {t.at})
      <3>1. t \in Entry /\ t.at \in 1 .. now
        <4>1. e.trades \in Seq(Entry) /\ e.trades # <<>> /\ Chronicle(e.trades, now)
          BY <1>4, <2>2 DEF Events
        <4>2. 1 \in DOMAIN e.trades
          BY <4>1
        <4> QED BY <4>1, <4>2 DEF Chronicle
      <3> HIDE DEF t
      <3>2. Chronicle(rest, now) /\ t.at \notin Times(rest)
        BY <1>1, <1>2, ChronicleWithout
      <3> HIDE DEF rest
      <3>3. Chronicle(<<t>> \o rest, now)
        BY <1>1, <3>1, <3>2, ChronicleCons
      <3>4. Chronicle(First(<<t>> \o rest, PageLimit), now)
        BY <1>1, <3>3, ChronicleFirst
      <3> QED BY <2>2, <3>4 DEF Merged, t, rest
    <2> QED BY <2>1, <2>2
  <1> HIDE DEF shown, wire
  <1>7. PageOK(page', now)
    BY <1>3, <1>5, <1>6 DEF LogInv, PageOK, Chronicle
  <1> QED BY <1>1, <1>7 DEF Deliver, Bot, LogState, Env, LogInv, BotOK, StateOK, EnvOK

LEMMA BootKeepsLog ==
  ASSUME LogInv, Boot
  PROVE  LogInv'
  <1>1. now \in Nat /\ now' = now /\ LogLimit \in Nat
    BY LogAssumption DEF Boot, LogInv, StateOK
  <1> DEFINE newest == First(Reverse(rows), LogLimit)
             rest == Without(newest, Times(saved.log))
  <1>2. Chronicle(newest, now)
    BY <1>1, ChronicleReverse, ChronicleFirst DEF LogInv, StateOK
  <1>3. Chronicle(saved.log, now)
    BY DEF LogInv, SavedOK
  <1>4. Chronicle(rest, now) /\ Times(saved.log) \cap Times(rest) = {}
    <2> HIDE DEF newest
    <2>1. Chronicle(rest, now) /\ Times(rest) = Times(newest) \ Times(saved.log)
      BY <1>1, <1>2, ChronicleWithout
    <2> HIDE DEF rest
    <2> QED BY <2>1
  <1> HIDE DEF newest, rest
  <1>5. Chronicle(First(saved.log \o rest, LogLimit), now)
    BY <1>1, <1>3, <1>4, ChronicleConcat, ChronicleFirst
  <1>6. Chronicle(log', now)
    BY <1>2, <1>5 DEF Boot, RestoredLog, newest, rest
  <1>7. hushed' \subseteq LogCoins
    BY DEF Boot, LogInv, SavedOK
  <1>8. StateOK' /\ EnvOK'
    BY <1>1, <1>6, <1>7 DEF Boot, LogInv, StateOK, EnvOK
  <1> QED BY <1>1, <1>8 DEF Boot, Bot, LogInv, BotOK

\* The steps that take or keep the logs as they are.
LEMMA RestKeepsLog ==
  ASSUME LogInv,
         \/ \E c \in LogCoins : BuyElsewhere(c) \/ Repair(c)
         \/ Reset \/ WriteLog \/ LogWritten \/ Exit \/ LoseLegs \/ Booted
         \/ Connect \/ Drop \/ Heartbeat \/ Load
  PROVE  LogInv'
  <1>0. now \in Nat /\ now' = now /\ PageLimit \in Nat /\ LogLimit \in Nat
    BY LogAssumption DEF LogInv, StateOK, BuyElsewhere, Repair, Reset, WriteLog, LogWritten, Exit, LoseLegs,
       Booted, Connect, Drop, Heartbeat, Load, LogState, Bot, Env
  <1>1. Chronicle(<<>>, now) /\ <<>> \in Seq(Entry) /\ <<>> \in Seq(Events(now))
    BY <1>0, EmptyChronicle
  <1>2. ASSUME NEW c \in LogCoins, BuyElsewhere(c) PROVE LogInv'
    BY <1>2 DEF BuyElsewhere, LogState, Env, LogInv, BotOK, StateOK, EnvOK
  <1>3. ASSUME NEW c \in LogCoins, Repair(c) PROVE LogInv'
    <2>1. PICK wrong : saved' = [saved EXCEPT !.log = Without(@, wrong), !.hushed = @ \cup {c}]
      BY <1>3, Zenon DEF Repair
    <2>2. Chronicle(Without(saved.log, wrong), now)
      BY <1>0, ChronicleWithout DEF LogInv, SavedOK
    <2>3. SavedOK(saved', now)
      BY <2>1, <2>2 DEF LogInv, SavedOK, Chronicle
    <2> QED BY <1>0, <1>3, <2>3 DEF Repair, Bot, LogState, Env, LogInv, BotOK, StateOK, EnvOK
  <1>4. CASE Reset
    BY <1>0, <1>1, <1>4 DEF Reset, Bot, Env, LogInv, BotOK, StateOK, EnvOK
  <1>5. CASE WriteLog
    <2>1. SavedOK(saved', now)
      BY <1>5 DEF WriteLog, LogInv, StateOK, SavedOK, Chronicle
    <2> QED BY <1>0, <1>5, <2>1 DEF WriteLog, Bot, Env, LogInv, BotOK, StateOK, EnvOK
  <1>6. CASE LogWritten
    <2>1. SavedOK(saved', now)
      BY <1>6 DEF LogWritten, LogInv, SavedOK
    <2> QED BY <1>0, <1>6, <2>1 DEF LogWritten, Bot, LogState, Env, LogInv, BotOK, StateOK, EnvOK
  <1>7. CASE Exit
    <2>1. SavedOK(saved', now)
      BY <1>1, <1>7 DEF Exit, LogInv, SavedOK
    <2>2. PageOK(page', now)
      BY <1>1, <1>7 DEF Exit, LogInv, PageOK
    <2>3. ProbeOK(probe', now)
      BY <1>1, <1>7 DEF Exit, NoProbe, ProbeOK
    <2>4. BotOK' /\ StateOK' /\ EnvOK'
      BY <1>7 DEF Exit, LogInv, BotOK, StateOK, EnvOK
    <2> QED BY <1>0, <2>1, <2>2, <2>3, <2>4 DEF LogInv
  <1>8. CASE LoseLegs
    BY <1>0, <1>8 DEF LoseLegs, LogState, LogInv, BotOK, StateOK, EnvOK
  <1>9. CASE Booted
    BY <1>0, <1>9 DEF Booted, Bot, LogState, LogInv, BotOK, StateOK, EnvOK
  <1>10. CASE Connect \/ Heartbeat
    <2>1. CycleEvent \in Events(now)
      BY DEF CycleEvent, Events, LogInv, StateOK, Chronicle
    <2>2. <<CycleEvent>> \in Seq(Events(now))
      BY <2>1
    <2>3. PageOK(page', now)
      <3> DEFINE w == <<CycleEvent>>
      <3>1. page' = [page EXCEPT !.open = TRUE, !.wire = w] \/ page' = [page EXCEPT !.wire = w]
        BY <1>10 DEF Connect, Heartbeat
      <3>2. w \in Seq(Events(now))
        BY <2>2
      <3> HIDE DEF w
      <3> QED BY <3>1, <3>2 DEF LogInv, PageOK
    <2> QED BY <1>0, <1>10, <2>3 DEF Connect, Heartbeat, Bot, LogState, Env, LogInv, BotOK, StateOK, EnvOK
  <1>11. CASE Drop
    <2>1. PageOK(page', now)
      BY <1>1, <1>11 DEF Drop, LogInv, PageOK
    <2> QED BY <1>0, <1>11, <2>1 DEF Drop, Bot, LogState, LogInv, BotOK, StateOK, EnvOK
  <1>12. CASE Load
    <2>1. Chronicle(IF saved.torn THEN <<>> ELSE saved.log, now)
      BY <1>1 DEF LogInv, SavedOK
    <2>2. Chronicle(First(IF saved.torn THEN <<>> ELSE saved.log, PageLimit), now)
      BY <1>0, <2>1, ChronicleFirst
    <2>3. PageOK(page', now)
      BY <1>12, <2>2 DEF Load, LogInv, PageOK, Chronicle
    <2> QED BY <1>0, <1>12, <2>3 DEF Load, Bot, LogState, LogInv, BotOK, StateOK, EnvOK
  <1> QED BY <1>2, <1>3, <1>4, <1>5, <1>6, <1>7, <1>8, <1>9, <1>10, <1>11, <1>12

LEMMA LogStep ==
  ASSUME LogInv, [LogNext]_logVars
  PROVE  LogInv'
  <1>1. CASE UNCHANGED logVars
    BY <1>1 DEF logVars, LogInv, BotOK, StateOK, EnvOK
  <1>2. ASSUME NEW t \in Range(IF scene = "page" THEN page.shown ELSE log), Delete(t) PROVE LogInv'
    <2>1. page.shown \in Seq(Entry) /\ log \in Seq(Entry)
      BY DEF LogInv, PageOK, StateOK, Chronicle
    <2>2. t \in Entry
      BY <2>1 DEF Range
    <2> QED BY <1>2, <2>2, DeleteKeepsLog
  <1>3. CASE LogNext
    BY <1>2, <1>3, BuyKeepsLog, SellKeepsLog, SellPartKeepsLog, AdoptKeepsLog, SmokeBuyKeepsLog,
       SmokeTellsKeepsLog, SmokeSellKeepsLog, DeliverKeepsLog, BootKeepsLog, RestKeepsLog DEF LogNext
  <1> QED BY <1>1, <1>3

\* Every reachable log, file, page and event is a chronicle: well typed, of the past, and without
\* a trade twice.
THEOREM LogsAreChronicles == LogSpec => []LogInv
  <1>1. LogInit => LogInv
    BY LogInvInit
  <1>2. LogInv /\ [LogNext]_logVars => LogInv'
    BY LogStep
  <1> QED BY <1>1, <1>2, PTL DEF LogSpec

\* Neither the log nor the page has a trade twice, for any coins, limits, saves cut short,
\* restarts, deletions and lost streams.
THEOREM TradesAreOnce == LogSpec => []NoTradeTwice
  <1>1. LogInv => NoTradeTwice
    BY DEF LogInv, StateOK, PageOK, Chronicle, NoTradeTwice
  <1> QED BY <1>1, LogsAreChronicles, PTL

-----------------------------------------------------------------------------
(* A holding is written down once. *)

\* The file's last row of coin c that ends or begins a holding begins one.
LastBuy(s, c) ==
  \E i \in DOMAIN s : /\ s[i].coin = c /\ s[i].side = "BUY"
                      /\ \A k \in DOMAIN s : k > i => ~(s[k].coin = c /\ s[k].side = "SELL")

Once(s) ==
  \A i, j \in DOMAIN s :
    i < j /\ s[i].side = "BUY" /\ s[j].side = "BUY" /\ s[i].coin = s[j].coin
      => \E k \in i + 1 .. j - 1 : s[k].coin = s[i].coin /\ s[k].side = "SELL"

\* OpenInLog, for any log.
OpenIn(s, c) ==
  \E i \in DOMAIN s : /\ s[i].coin = c /\ s[i].side = "BUY"
                      /\ \A j \in 1 .. i - 1 : s[j].coin # c

\* A coin whose holding is written down is in the wallet, and held whenever the bot trades.
HoldInv ==
  /\ Once(rows)
  /\ \A c \in LogCoins : LastBuy(rows, c) => c \in wallet /\ (process = "up" => c \in held)

\* Its leg is saved.
LegsInv == \A c \in LogCoins : LastBuy(rows, c) => c \in legs

\* The restore makes up a BUY of no coin whose holding is written down.
AdoptsNew ==
  \A c \in LogCoins :
    process # "down" /\ c \notin legs /\ ~OpenIn(log, c) /\ c \notin hushed => ~LastBuy(rows, c)

LEMMA RowAdded ==
  ASSUME NEW s \in Seq(Entry), NEW r \in Entry
  PROVE  /\ \A c : c # r.coin /\ LastBuy(Append(s, r), c) => LastBuy(s, c)
         /\ r.side = "SELL" => ~LastBuy(Append(s, r), r.coin)
         /\ Once(s) /\ (r.side = "BUY" => ~LastBuy(s, r.coin)) => Once(Append(s, r))
  <1> DEFINE w == Append(s, r)
  <1>1. /\ DOMAIN s = 1 .. Len(s) /\ Len(s) \in Nat /\ DOMAIN w = 1 .. Len(s) + 1
        /\ w[Len(s) + 1] = r /\ \A i \in 1 .. Len(s) : w[i] = s[i]
    OBVIOUS
  <1> HIDE DEF w
  <1>2. \A i \in 1 .. Len(s) + 1 : i = Len(s) + 1 \/ (i \in 1 .. Len(s) /\ i \in 1 .. Len(s) + 1 /\ Len(s) + 1 > i)
    BY <1>1
  <1>3. ASSUME NEW c, c # r.coin, LastBuy(w, c) PROVE LastBuy(s, c)
    <2>1. PICK i \in DOMAIN w : /\ w[i].coin = c /\ w[i].side = "BUY"
                                /\ \A k \in DOMAIN w : k > i => ~(w[k].coin = c /\ w[k].side = "SELL")
      BY <1>3 DEF LastBuy
    <2>2. i \in 1 .. Len(s)
      BY <1>1, <1>2, <1>3, <2>1
    <2>3. \A k \in 1 .. Len(s) : k \in DOMAIN w
      BY <1>1
    <2> QED BY <1>1, <2>1, <2>2, <2>3 DEF LastBuy
  <1>4. ASSUME r.side = "SELL" PROVE ~LastBuy(w, r.coin)
    <2>1. \A i \in DOMAIN w : w[i].side = "BUY" => Len(s) + 1 > i
      BY <1>1, <1>2, <1>4
    <2> QED BY <1>1, <1>4, <2>1 DEF LastBuy
  <1>5. ASSUME Once(s), r.side = "BUY" => ~LastBuy(s, r.coin) PROVE Once(w)
    <2> SUFFICES ASSUME NEW i \in DOMAIN w, NEW j \in DOMAIN w, i < j,
                        w[i].side = "BUY", w[j].side = "BUY", w[i].coin = w[j].coin
                 PROVE  \E k \in i + 1 .. j - 1 : w[k].coin = w[i].coin /\ w[k].side = "SELL"
      BY DEF Once
    <2>1. i \in 1 .. Len(s)
      BY <1>1
    <2>2. CASE j \in 1 .. Len(s)
      <3>1. PICK k \in i + 1 .. j - 1 : s[k].coin = s[i].coin /\ s[k].side = "SELL"
        BY <1>1, <1>5, <2>1, <2>2 DEF Once
      <3>2. k \in 1 .. Len(s)
        BY <1>1, <2>1, <2>2
      <3> QED BY <1>1, <2>1, <3>1, <3>2
    <2>3. CASE j = Len(s) + 1
      <3>1. w[j] = r /\ w[i] = s[i]
        BY <1>1, <2>1, <2>3
      <3>2. ~LastBuy(s, r.coin)
        BY <1>5, <3>1
      <3>3. PICK k \in DOMAIN s : k > i /\ s[k].coin = r.coin /\ s[k].side = "SELL"
        BY <1>1, <2>1, <3>1, <3>2 DEF LastBuy
      <3>4. k \in i + 1 .. j - 1 /\ w[k] = s[k]
        BY <1>1, <2>1, <2>3, <3>3
      <3> QED BY <3>1, <3>3, <3>4
    <2> QED BY <1>1, <1>2, <2>2, <2>3
  <1> QED BY <1>3, <1>4, <1>5 DEF w

\* The steps of the system, as far as the file of trades and the holdings go.
Buys(c) ==
  /\ \E r \in Entry : rows' = Append(rows, r) /\ r.coin = c /\ r.side = "BUY"
  /\ wallet \cup {c} \subseteq wallet' /\ held \cup {c} \subseteq held' /\ legs \cup {c} \subseteq legs'
  /\ process' = process
  /\ \/ process = "up" /\ c \notin held
     \/ process # "down" /\ c \notin legs /\ ~OpenIn(log, c) /\ c \notin hushed

Sells(c) ==
  /\ \E r \in Entry : rows' = Append(rows, r) /\ r.coin = c /\ r.side = "SELL"
  /\ wallet \ {c} \subseteq wallet' /\ held \ {c} \subseteq held' /\ legs \ {c} \subseteq legs'
  /\ process' = process

Rests ==
  /\ rows' = rows \/ rows' = <<>>
  /\ wallet \subseteq wallet'
  /\ process' = "up" => (process = "up" /\ held \subseteq held') \/ wallet' \subseteq held'
  /\ LoseLegs \/ legs \subseteq legs'

LEMMA StepsOfTheFile ==
  ASSUME LogInv, [LogNext]_logVars
  PROVE  Rests \/ \E c \in LogCoins : Buys(c) \/ Sells(c)
  <1>0. now \in Nat
    BY DEF LogInv, StateOK
  <1>1. ASSUME NEW c \in LogCoins, Buy(c) \/ SmokeBuy(c) PROVE Buys(c)
    <2>1. PICK kind \in {"trade", "smoke"} : Recorded(Trade(c, "BUY", kind))
      BY <1>1 DEF Buy, SmokeBuy
    <2> DEFINE r == Row(Trade(c, "BUY", kind))
    <2>2. r \in Entry /\ r.coin = c /\ r.side = "BUY"
      BY <1>0, TradeIsEntry
    <2>3. rows' = Append(rows, r)
      BY <2>1 DEF Recorded
    <2> HIDE DEF r
    <2>4. process' = process /\ process = "up" /\ c \notin held /\ Takes(c)
      BY <1>1 DEF Buy, SmokeBuy, Env
    <2> QED BY <2>2, <2>3, <2>4 DEF Buys, Takes
  <1>2. ASSUME NEW c \in LogCoins, NEW byHand \in BOOLEAN,
               Sell(c, byHand) \/ (SmokeSell(c) /\ c \in held)
        PROVE  Sells(c)
    <2>1. PICK kind \in {"trade", "smoke"} : Recorded(Trade(c, "SELL", kind))
      BY <1>2 DEF Sell, SmokeSell
    <2> DEFINE r == Row(Trade(c, "SELL", kind))
    <2>2. r \in Entry /\ r.coin = c /\ r.side = "SELL"
      BY <1>0, TradeIsEntry
    <2>3. rows' = Append(rows, r)
      BY <2>1 DEF Recorded
    <2> HIDE DEF r
    <2>4. process' = process /\ Gives(c)
      BY <1>2 DEF Sell, SmokeSell, Env
    <2> QED BY <2>2, <2>3, <2>4 DEF Sells, Gives
  <1>3. ASSUME NEW c \in LogCoins, SellPart(c) PROVE Sells(c)
    <2> DEFINE r == Row(Trade(c, "SELL", "trade"))
    <2>1. r \in Entry /\ r.coin = c /\ r.side = "SELL"
      BY <1>0, TradeIsEntry
    <2>2. rows' = Append(rows, r)
      BY <1>3 DEF SellPart
    <2> HIDE DEF r
    <2> QED BY <1>3, <2>1, <2>2 DEF Sells, SellPart, Bot, Env
  <1>4. ASSUME NEW c \in LogCoins, Adopt(c) PROVE Rests \/ Buys(c)
    <2>1. /\ wallet' = wallet /\ held' = held \cup {c} /\ legs' = legs \cup {c} /\ process' = process
          /\ process # "down" /\ c \in wallet
      BY <1>4 DEF Adopt, Env
    <2>2. CASE c \in legs \/ OpenInLog(c) \/ c \in hushed
      <3>1. rows' = rows
        BY <1>4, <2>2 DEF Adopt, LogState
      <3> QED BY <2>1, <3>1 DEF Rests
    <2>3. CASE ~(c \in legs \/ OpenInLog(c) \/ c \in hushed)
      <3> DEFINE r == Row(Trade(c, "BUY", "found"))
      <3>1. r \in Entry /\ r.coin = c /\ r.side = "BUY"
        BY <1>0, TradeIsEntry
      <3>2. rows' = Append(rows, r)
        BY <1>4, <2>3 DEF Adopt, Recorded
      <3> HIDE DEF r
      <3>3. ~OpenIn(log, c) /\ c \notin legs /\ c \notin hushed
        BY <2>3 DEF OpenIn, OpenInLog
      <3> QED BY <2>1, <3>1, <3>2, <3>3 DEF Buys
    <2> QED BY <2>2, <2>3
  <1>5. ASSUME NEW c \in LogCoins, SmokeSell(c), c \notin held PROVE Rests
    BY <1>5 DEF SmokeSell, LogState, Env, Rests
  <1>6. ASSUME NEW c \in LogCoins, BuyElsewhere(c) \/ Repair(c) PROVE Rests
    BY <1>6 DEF BuyElsewhere, Repair, Bot, LogState, Env, Rests
  <1>7. ASSUME NEW t, Delete(t) PROVE Rests
    BY <1>7 DEF Delete, Bot, Env, Rests
  <1>8. CASE SmokeTells \/ Reset \/ WriteLog \/ LogWritten
    BY <1>8 DEF SmokeTells, Reset, WriteLog, LogWritten, Bot, LogState, Env, Rests
  <1>9. CASE Exit \/ LoseLegs \/ Boot \/ Booted
    BY <1>9 DEF Exit, LoseLegs, Boot, Booted, Bot, LogState, Rests
  <1>10. CASE Deliver \/ Connect \/ Drop \/ Heartbeat \/ Load
    BY <1>10 DEF Deliver, Connect, Drop, Heartbeat, Load, Bot, LogState, Env, Rests
  <1>11. CASE UNCHANGED logVars
    BY <1>11 DEF logVars, Rests
  <1> QED BY <1>1, <1>2, <1>3, <1>4, <1>5, <1>6, <1>7, <1>8, <1>9, <1>10, <1>11 DEF LogNext

LEMMA HoldStep ==
  ASSUME LogInv, HoldInv, AdoptsNew, [LogNext]_logVars
  PROVE  HoldInv'
  <1>0. rows \in Seq(Entry)
    BY DEF LogInv, StateOK, Chronicle
  <1>1. ASSUME NEW c \in LogCoins, Buys(c) PROVE HoldInv'
    <2>1. PICK r \in Entry : rows' = Append(rows, r) /\ r.coin = c /\ r.side = "BUY"
      BY <1>1 DEF Buys
    <2>2. ~LastBuy(rows, c)
      BY <1>1 DEF Buys, HoldInv, AdoptsNew
    <2>3. Once(rows') /\ \A d : d # c /\ LastBuy(rows', d) => LastBuy(rows, d)
      BY <1>0, <2>1, <2>2, RowAdded DEF HoldInv
    <2> QED BY <1>1, <2>3 DEF Buys, HoldInv
  <1>2. ASSUME NEW c \in LogCoins, Sells(c) PROVE HoldInv'
    <2>1. PICK r \in Entry : rows' = Append(rows, r) /\ r.coin = c /\ r.side = "SELL"
      BY <1>2 DEF Sells
    <2>2. Once(rows') /\ ~LastBuy(rows', c) /\ \A d : d # c /\ LastBuy(rows', d) => LastBuy(rows, d)
      BY <1>0, <2>1, RowAdded DEF HoldInv
    <2> QED BY <1>2, <2>2 DEF Sells, HoldInv
  <1>3. CASE Rests
    <2>1. Once(<<>>) /\ \A c : ~LastBuy(<<>>, c)
      BY DEF Once, LastBuy
    <2> QED BY <1>3, <2>1 DEF Rests, HoldInv
  <1> QED BY <1>1, <1>2, <1>3, StepsOfTheFile

LEMMA LegsStep ==
  ASSUME LogInv, LegsInv, [LogNext]_logVars, ~LoseLegs
  PROVE  LegsInv'
  <1>0. rows \in Seq(Entry)
    BY DEF LogInv, StateOK, Chronicle
  <1>1. ASSUME NEW c \in LogCoins, Buys(c) PROVE LegsInv'
    <2>1. \A d : d # c /\ LastBuy(rows', d) => LastBuy(rows, d)
      BY <1>0, <1>1, RowAdded DEF Buys
    <2> QED BY <1>1, <2>1 DEF Buys, LegsInv
  <1>2. ASSUME NEW c \in LogCoins, Sells(c) PROVE LegsInv'
    <2>1. ~LastBuy(rows', c) /\ \A d : d # c /\ LastBuy(rows', d) => LastBuy(rows, d)
      BY <1>0, <1>2, RowAdded DEF Sells
    <2> QED BY <1>2, <2>1 DEF Sells, LegsInv
  <1>3. CASE Rests
    <2>1. \A c : ~LastBuy(<<>>, c)
      BY DEF LastBuy
    <2> QED BY <1>3, <2>1 DEF Rests, LegsInv
  <1> QED BY <1>1, <1>2, <1>3, StepsOfTheFile

\* What the log or the suppression knows of the holdings that are written down, now and in the
\* saved file; in the page's behaviours the legs are never lost.
KnownInv ==
  /\ process = "down" => ~due
  /\ now <= MaxTime[scene]
  /\ IF scene = "page" THEN LegsInv
     ELSE \A c \in LogCoins : LastBuy(rows, c) =>
            /\ process # "down" => OpenIn(log, c) \/ c \in hushed
            /\ ~due => OpenIn(saved.log, c) \/ c \in saved.hushed

LEMMA OpenStays ==
  ASSUME NEW s \in Seq(Entry), NEW w \in Seq(Entry), NEW m \in Nat, NEW c, OpenIn(s, c),
         m + Len(s) <= Len(w),
         \A i \in 1 .. Len(s) : w[m + i] = s[i],
         \A i \in 1 .. m : w[i].coin # c
  PROVE  OpenIn(w, c)
  <1>1. PICK i \in DOMAIN s : s[i].coin = c /\ s[i].side = "BUY" /\ \A j \in 1 .. i - 1 : s[j].coin # c
    BY DEF OpenIn
  <1>2. i \in 1 .. Len(s) /\ m + i \in DOMAIN w
    OBVIOUS
  <1>3. ASSUME NEW j \in 1 .. (m + i) - 1 PROVE w[j].coin # c
    <2>1. CASE j \in 1 .. m
      BY <2>1
    <2>2. CASE j \notin 1 .. m
      <3>1. j - m \in 1 .. i - 1 /\ j - m \in 1 .. Len(s) /\ j = m + (j - m)
        BY <1>2, <2>2
      <3> QED BY <1>1, <3>1
    <2> QED BY <2>1, <2>2
  <1> QED BY <1>1, <1>2, <1>3 DEF OpenIn

LEMMA OpenBehind ==
  ASSUME NEW s \in Seq(Entry), NEW t \in Entry, NEW n \in Nat, NEW c, OpenIn(s, c), t.coin # c, Len(s) < n
  PROVE  OpenIn(First(<<t>> \o s, n), c)
  <1> DEFINE v == <<t>> \o s
             w == First(v, n)
  <1>1. v \in Seq(Entry) /\ Len(v) = Len(s) + 1 /\ v[1] = t /\ \A i \in 1 .. Len(s) : v[1 + i] = s[i]
    OBVIOUS
  <1> HIDE DEF v
  <1>2. w \in Seq(Entry) /\ Len(w) = Len(v) /\ \A i \in 1 .. Len(v) : w[i] = v[i]
    <2>1. w \in Seq(Entry) /\ Len(w) = (IF Len(v) < n THEN Len(v) ELSE n) /\ \A i \in 1 .. Len(w) : w[i] = v[i]
      BY <1>1, FirstIs
    <2> HIDE DEF w
    <2> QED BY <1>1, <2>1
  <1> HIDE DEF w
  <1>3. 1 + Len(s) <= Len(w) /\ w[1] = t /\ \A i \in 1 .. Len(s) : w[1 + i] = s[i]
    BY <1>1, <1>2
  <1>4. OpenIn(w, c)
    BY <1>2, <1>3, OpenStays
  <1> QED BY <1>4 DEF w, v

LEMMA OpenOnTheTop ==
  ASSUME NEW s \in Seq(Entry), NEW t \in Entry, t.side = "BUY", NEW n \in Nat \ {0}
  PROVE  OpenIn(First(<<t>> \o s, n), t.coin)
  <1> DEFINE v == <<t>> \o s
             w == First(v, n)
  <1>1. v \in Seq(Entry) /\ Len(v) = Len(s) + 1 /\ v[1] = t
    OBVIOUS
  <1> HIDE DEF v
  <1>2. w \in Seq(Entry) /\ Len(w) = (IF Len(v) < n THEN Len(v) ELSE n) /\ \A i \in 1 .. Len(w) : w[i] = v[i]
    BY <1>1, FirstIs
  <1> HIDE DEF w
  <1>3. 1 \in DOMAIN w /\ w[1] = t /\ 1 .. 1 - 1 = {}
    BY <1>1, <1>2
  <1>4. OpenIn(w, t.coin)
    BY <1>3 DEF OpenIn
  <1> QED BY <1>4 DEF w, v

LEMMA OpenBefore ==
  ASSUME NEW s \in Seq(Entry), NEW r \in Seq(Entry), NEW n \in Nat, NEW c, OpenIn(s, c), Len(s) <= n
  PROVE  OpenIn(First(s \o r, n), c)
  <1> DEFINE v == s \o r
             w == First(v, n)
  <1>1. v \in Seq(Entry) /\ Len(v) = Len(s) + Len(r) /\ \A i \in 1 .. Len(s) : v[i] = s[i]
    OBVIOUS
  <1> HIDE DEF v
  <1>2. w \in Seq(Entry) /\ Len(w) = (IF Len(v) < n THEN Len(v) ELSE n) /\ \A i \in 1 .. Len(w) : w[i] = v[i]
    BY <1>1, FirstIs
  <1> HIDE DEF w
  <1> DEFINE m == 0
  <1>3. m \in Nat /\ m + Len(s) <= Len(w) /\ \A i \in 1 .. Len(s) : w[m + i] = s[i]
    BY <1>1, <1>2
  <1>4. \A i \in 1 .. m : w[i].coin # c
    OBVIOUS
  <1> HIDE DEF m
  <1>5. OpenIn(w, c)
    BY <1>2, <1>3, <1>4, OpenStays
  <1> QED BY <1>5 DEF w, v

\* Taking entries out hides an open BUY only when it is taken out itself.
LEMMA OpenWithout ==
  ASSUME NEW s \in Seq(Entry), NEW times, NEW c, OpenIn(s, c),
         \A k \in DOMAIN s : s[k].at \in times => ~(s[k].coin = c /\ s[k].side = "BUY")
  PROVE  OpenIn(Without(s, times), c)
  <1> DEFINE w == Without(s, times)
  <1>1. PICK e \in [1 .. Len(w) -> 1 .. Len(s)] :
          /\ \A i \in 1 .. Len(w) : w[i] = s[e[i]] /\ s[e[i]].at \notin times
          /\ \A i, j \in 1 .. Len(w) : i < j => e[i] < e[j]
          /\ \A k \in 1 .. Len(s) : s[k].at \notin times => \E i \in 1 .. Len(w) : e[i] = k
    <2>1. Selects(w, s, times)
      BY WithoutKeeps
    <2> HIDE DEF w
    <2> QED BY <2>1 DEF Selects
  <1>2. w \in Seq(Entry)
    BY WithoutKeeps
  <1> HIDE DEF w
  <1>3. PICK i \in DOMAIN s : s[i].coin = c /\ s[i].side = "BUY" /\ \A j \in 1 .. i - 1 : s[j].coin # c
    BY DEF OpenIn
  <1>4. PICK m \in 1 .. Len(w) : e[m] = i
    BY <1>1, <1>3
  <1>5. ASSUME NEW j \in 1 .. m - 1 PROVE w[j].coin # c
    <2>1. j \in 1 .. Len(w) /\ j < m
      BY <1>2, <1>4
    <2>2. e[j] < i /\ e[j] \in 1 .. Len(s)
      BY <1>1, <1>4, <2>1
    <2>3. e[j] \in 1 .. i - 1
      BY <2>2
    <2> QED BY <1>1, <1>3, <2>1, <2>3
  <1>6. m \in DOMAIN w
    BY <1>2, <1>4
  <1>7. OpenIn(w, c)
    BY <1>1, <1>3, <1>4, <1>5, <1>6 DEF OpenIn
  <1> QED BY <1>7 DEF w

\* After a trade is recorded, the log knows what it knew, and what was bought.
LEMMA RecordedIsKnown ==
  ASSUME LogInv, FileTrades <= LogLimit, scene = "files", NEW t \in Entry, Recorded(t),
         NEW c, OpenIn(log, c) \/ c \in hushed \/ (t.coin = c /\ t.side = "BUY"),
         t.coin = c => t.side = "BUY"
  PROVE  OpenIn(log', c) \/ c \in hushed'
  <1>1. log \in Seq(Entry) /\ Len(log) <= now /\ now \in Nat
    BY ChronicleFits DEF LogInv, StateOK, Chronicle
  <1>2. now < LogLimit /\ LogLimit \in Nat \ {0}
    BY <1>1, LogAssumption DEF Recorded, MaxTime, Scenes
  <1>3. log' = First(<<t>> \o log, LogLimit)
    BY DEF Recorded
  <1>4. CASE t.coin = c
    BY <1>1, <1>2, <1>3, <1>4, OpenOnTheTop
  <1>5. CASE t.coin # c /\ c \in hushed
    BY <1>5 DEF Recorded
  <1>6. CASE t.coin # c /\ OpenIn(log, c)
    <2>1. Len(log) < LogLimit
      BY <1>1, <1>2
    <2> QED BY <1>1, <1>2, <1>3, <1>6, <2>1, OpenBehind
  <1> QED BY <1>4, <1>5, <1>6

\* A step that records a trade.
LEMMA TradeIsKnown ==
  ASSUME LogInv, KnownInv, FileTrades <= LogLimit, scene = "files",
         NEW c \in LogCoins, NEW side \in {"BUY", "SELL"}, NEW kind \in {"trade", "found", "smoke"},
         Recorded(Trade(c, side, kind)), process # "down", process' = process, scene' = scene
  PROVE  KnownInv'
  <1> DEFINE t == Trade(c, side, kind)
             r == Row(t)
  <1>0. now \in Nat /\ rows \in Seq(Entry)
    BY DEF LogInv, StateOK, Chronicle
  <1>1. t \in Entry /\ r \in Entry /\ t.coin = c /\ r.coin = c /\ t.side = side /\ r.side = side /\ t.at = now + 1
    BY <1>0, TradeIsEntry
  <1>2. rows' = Append(rows, r) /\ due' = TRUE /\ now' = now + 1 /\ now < MaxTime[scene] /\ Recorded(t)
    BY <1>1 DEF Recorded
  <1> HIDE DEF t, r
  <1>3. ASSUME NEW d \in LogCoins, LastBuy(rows', d) PROVE OpenIn(log', d) \/ d \in hushed'
    <2>1. d = c => side = "BUY"
      BY <1>0, <1>1, <1>2, <1>3, RowAdded
    <2>2. d # c => LastBuy(rows, d)
      BY <1>0, <1>1, <1>2, <1>3, RowAdded
    <2>3. OpenIn(log, d) \/ d \in hushed \/ (t.coin = d /\ t.side = "BUY")
      BY <1>1, <2>1, <2>2 DEF KnownInv
    <2> QED BY <1>1, <1>2, <2>1, <2>3, RecordedIsKnown
  <1>4. now' <= MaxTime'[scene']
    <2>1. MaxTime[scene] \in Nat
      BY LogAssumption DEF MaxTime, Scenes
    <2> QED BY <1>0, <1>2, <2>1 DEF MaxTime, Scenes
  <1> QED BY <1>2, <1>3, <1>4 DEF KnownInv

\* A process that is down has nothing to save, and no smoke test under way.
StillInv == process = "down" => ~due /\ probe = NoProbe

LEMMA StillStep ==
  ASSUME LogInv, StillInv, [LogNext]_logVars
  PROVE  StillInv' /\ scene' = scene /\ (now' = now \/ (now' = now + 1 /\ now < MaxTime[scene]))
  <1>1. ASSUME NEW c \in LogCoins, Buy(c) PROVE process' # "down" /\ scene' = scene /\ now' = now + 1 /\ now < MaxTime[scene]
    BY <1>1 DEF Buy, Recorded, Trade, Env
  <1>2. ASSUME NEW c \in LogCoins, NEW byHand \in BOOLEAN, Sell(c, byHand)
        PROVE process' # "down" /\ scene' = scene /\ now' = now + 1 /\ now < MaxTime[scene]
    BY <1>2 DEF Sell, Recorded, Trade, Env
  <1>3. ASSUME NEW c \in LogCoins, SellPart(c)
        PROVE process' # "down" /\ scene' = scene /\ now' = now + 1 /\ now < MaxTime[scene]
    BY <1>3 DEF SellPart, Env
  <1>4. ASSUME NEW c \in LogCoins, BuyElsewhere(c) PROVE StillInv' /\ scene' = scene /\ now' = now
    BY <1>4 DEF BuyElsewhere, LogState, Env, StillInv, NoProbe
  <1>5. ASSUME NEW c \in LogCoins, Adopt(c)
        PROVE process' # "down" /\ scene' = scene /\ (now' = now \/ (now' = now + 1 /\ now < MaxTime[scene]))
    <2>1. process' # "down" /\ scene' = scene
      BY <1>5 DEF Adopt, Env
    <2>2. UNCHANGED LogState \/ Recorded(Trade(c, "BUY", "found"))
      BY <1>5 DEF Adopt
    <2> QED BY <2>1, <2>2 DEF LogState, Recorded, Trade
  <1>6. ASSUME NEW c \in LogCoins, SmokeBuy(c)
        PROVE process' # "down" /\ scene' = scene /\ now' = now + 1 /\ now < MaxTime[scene]
    BY <1>6 DEF SmokeBuy, Recorded, Trade, Env
  <1>7. ASSUME NEW c \in LogCoins, SmokeSell(c)
        PROVE process' # "down" /\ scene' = scene /\ (now' = now \/ (now' = now + 1 /\ now < MaxTime[scene]))
    <2>1. process' # "down" /\ scene' = scene
      BY <1>7 DEF SmokeSell, Env, StillInv, NoProbe
    <2>2. UNCHANGED LogState \/ Recorded(Trade(c, "SELL", "smoke"))
      BY <1>7 DEF SmokeSell, LogState
    <2> QED BY <2>1, <2>2 DEF LogState, Recorded, Trade
  <1>8. ASSUME NEW c \in LogCoins, Repair(c) PROVE StillInv' /\ scene' = scene /\ now' = now
    BY <1>8 DEF Repair, Bot, LogState, Env, StillInv, NoProbe
  <1>9. CASE SmokeTells
    BY <1>9 DEF SmokeTells, LogState, Env, StillInv, NoProbe
  <1>10. CASE Reset
    BY <1>10 DEF Reset, Env, StillInv, NoProbe
  <1>11. CASE WriteLog \/ LogWritten
    BY <1>11 DEF WriteLog, LogWritten, Bot, LogState, Env, StillInv, NoProbe
  <1>12. CASE Exit
    BY <1>12 DEF Exit, StillInv, NoProbe
  <1>13. CASE LoseLegs \/ Boot \/ Booted
    BY <1>13 DEF LoseLegs, Boot, Booted, Bot, LogState, StillInv, NoProbe
  <1>14. ASSUME NEW t, Delete(t) PROVE process' # "down" /\ scene' = scene /\ now' = now
    BY <1>14 DEF Delete, Env
  <1>15. CASE Deliver \/ Connect \/ Drop \/ Heartbeat \/ Load
    BY <1>15 DEF Deliver, Connect, Drop, Heartbeat, Load, Bot, LogState, Env, StillInv, NoProbe
  <1>16. CASE UNCHANGED logVars
    BY <1>16 DEF logVars, StillInv, NoProbe
  <1> QED BY <1>1, <1>2, <1>3, <1>4, <1>5, <1>6, <1>7, <1>8, <1>9, <1>10, <1>11, <1>12, <1>13, <1>14, <1>15, <1>16
          DEF LogNext, StillInv

\* The suppression and the saved file know what the log knew.
LEMMA KnownStep ==
  ASSUME LogInv, LogInv', StillInv, KnownInv, [LogNext]_logVars, FileTrades <= LogLimit,
         Exit => ~due /\ ~saved.torn
  PROVE  KnownInv'
  <1>1. CASE scene = "page"
    <2>1. ~LoseLegs /\ ~Exit
      BY <1>1 DEF LoseLegs, Exit
    <2>2. LegsInv'
      BY <1>1, <2>1, LegsStep DEF KnownInv
    <2>3. scene' = scene /\ now' <= MaxTime'[scene'] /\ (process' = "down" => ~due')
      <3>1. now \in Nat /\ MaxTime[scene] \in Nat /\ MaxTime' = MaxTime
        BY LogAssumption DEF MaxTime, Scenes, LogInv, StateOK, EnvOK
      <3> QED BY <3>1, StillStep DEF KnownInv, StillInv
    <2> QED BY <1>1, <2>2, <2>3 DEF KnownInv
  <1>2. CASE scene = "files"
    <2>0. /\ log \in Seq(Entry) /\ rows \in Seq(Entry) /\ saved.log \in Seq(Entry)
          /\ now \in Nat /\ LogLimit \in Nat /\ MaxTime' = MaxTime
      BY LogAssumption DEF LogInv, StateOK, SavedOK, Chronicle, MaxTime
    <2>1. ASSUME NEW c \in LogCoins, Buy(c) \/ SmokeBuy(c) PROVE KnownInv'
      <3>1. PICK kind \in {"trade", "smoke"} : Recorded(Trade(c, "BUY", kind))
        BY <2>1 DEF Buy, SmokeBuy
      <3>2. process # "down" /\ process' = process /\ scene' = scene
        BY <2>1 DEF Buy, SmokeBuy, Env
      <3> QED BY <1>2, <3>1, <3>2, TradeIsKnown
    <2>2. ASSUME NEW c \in LogCoins, NEW byHand \in BOOLEAN, Sell(c, byHand) PROVE KnownInv'
      <3>1. Recorded(Trade(c, "SELL", "trade"))
        BY <2>2 DEF Sell
      <3>2. process # "down" /\ process' = process /\ scene' = scene
        BY <2>2 DEF Sell, Env
      <3> QED BY <1>2, <3>1, <3>2, TradeIsKnown
    <2>3. ASSUME NEW c \in LogCoins, SmokeSell(c) PROVE KnownInv'
      <3>1. CASE c \notin held
        BY <1>2, <2>3, <3>1, <2>0 DEF SmokeSell, LogState, Env, KnownInv
      <3>2. CASE c \in held
        <4>1. Recorded(Trade(c, "SELL", "smoke"))
          BY <2>3, <3>2 DEF SmokeSell
        <4>2. process # "down" /\ process' = process /\ scene' = scene
          BY <2>3, <3>2 DEF SmokeSell, Env, StillInv, NoProbe
        <4> QED BY <1>2, <4>1, <4>2, TradeIsKnown
      <3> QED BY <3>1, <3>2
    <2>4. ASSUME NEW c \in LogCoins, SellPart(c) PROVE KnownInv'
      <3> DEFINE r == Row(Trade(c, "SELL", "trade"))
      <3>1. r \in Entry /\ r.coin = c /\ r.side = "SELL"
        BY <2>0, TradeIsEntry
      <3>2. rows' = Append(rows, r)
        BY <2>4 DEF SellPart
      <3> HIDE DEF r
      <3>3. \A d : LastBuy(rows', d) => LastBuy(rows, d)
        BY <2>0, <3>1, <3>2, RowAdded
      <3>4. MaxTime[scene] \in Nat
        BY LogAssumption DEF MaxTime, Scenes, LogInv, EnvOK
      <3> QED BY <1>2, <2>0, <2>4, <3>3, <3>4 DEF SellPart, Env, Bot, KnownInv
    <2>5. ASSUME NEW c \in LogCoins, Adopt(c) PROVE KnownInv'
      <3>1. CASE UNCHANGED LogState
        BY <1>2, <2>0, <2>5, <3>1 DEF Adopt, LogState, Env, KnownInv
      <3>2. CASE Recorded(Trade(c, "BUY", "found"))
        BY <1>2, <2>5, <3>2, TradeIsKnown DEF Adopt, Env
      <3> QED BY <2>5, <3>1, <3>2 DEF Adopt
    <2>6. ASSUME NEW c \in LogCoins, Repair(c) PROVE KnownInv'
      <3> DEFINE wrong == {t.at : t \in {t \in Range(saved.log) : t.coin = c /\ t.kind = "found"}}
      <3>1. saved' = [saved EXCEPT !.log = Without(@, wrong), !.hushed = @ \cup {c}]
        BY <2>6 DEF Repair
      <3>2. \A k \in DOMAIN saved.log : saved.log[k].at \in wrong => saved.log[k].coin = c
        BY DEF Range, LogInv, SavedOK, Chronicle, Distinct
      <3> HIDE DEF wrong
      <3>3. saved'.log = Without(saved.log, wrong) /\ saved'.hushed = saved.hushed \cup {c}
        BY <3>1 DEF LogInv, SavedOK
      <3>4. ASSUME NEW d \in LogCoins, OpenIn(saved.log, d) \/ d \in saved.hushed
            PROVE  OpenIn(saved'.log, d) \/ d \in saved'.hushed
        BY <2>0, <3>2, <3>3, <3>4, OpenWithout
      <3> QED BY <1>2, <2>0, <2>6, <3>4 DEF Repair, Bot, LogState, Env, KnownInv
    <2>7. ASSUME NEW t \in Range(log), Delete(t) PROVE KnownInv'
      <3>1. log' = Without(log, {t.at}) /\ due' = TRUE
            /\ hushed' = IF t.side = "BUY" THEN hushed \cup {t.coin} ELSE hushed
        BY <2>7 DEF Delete
      <3>2. \A k \in DOMAIN log : log[k].at \in {t.at} => log[k] = t
        BY DEF Range, LogInv, StateOK, Chronicle, Distinct
      <3>3. ASSUME NEW d \in LogCoins, OpenIn(log, d) \/ d \in hushed PROVE OpenIn(log', d) \/ d \in hushed'
        <4>1. CASE t.coin = d /\ t.side = "BUY"
          BY <3>1, <4>1
        <4>2. CASE ~(t.coin = d /\ t.side = "BUY")
          BY <2>0, <3>1, <3>2, <3>3, <4>2, OpenWithout
        <4> QED BY <4>1, <4>2
      <3>4. process # "down" /\ process' = process /\ scene' = scene /\ rows' = rows /\ now' = now
        BY <2>7 DEF Delete, Env
      <3> QED BY <1>2, <2>0, <3>1, <3>3, <3>4 DEF KnownInv
    <2>8. CASE Reset
      <3>1. \A c : ~LastBuy(<<>>, c)
        BY DEF LastBuy
      <3> QED BY <1>2, <2>0, <2>8, <3>1 DEF Reset, Env, KnownInv
    <2>9. CASE WriteLog
      <3>1. saved'.log = log /\ saved'.hushed = hushed
        BY <2>9 DEF WriteLog
      <3> QED BY <1>2, <2>0, <2>9, <3>1 DEF WriteLog, Bot, Env, KnownInv
    <2>10. CASE LogWritten
      <3>1. saved'.log = saved.log /\ saved'.hushed = saved.hushed
        BY <2>10 DEF LogWritten, LogInv, SavedOK
      <3> QED BY <1>2, <2>0, <2>10, <3>1 DEF LogWritten, Bot, LogState, Env, KnownInv
    <2>11. CASE Exit
      BY <1>2, <2>0, <2>11 DEF Exit, KnownInv
    <2>12. CASE Boot
      <3>1. Len(saved.log) <= LogLimit
        <4>1. Len(saved.log) <= now
          BY <2>0, ChronicleFits DEF LogInv, SavedOK
        <4>2. now <= FileTrades /\ FileTrades \in Nat
          BY <1>2, LogAssumption DEF KnownInv, MaxTime, Scenes
        <4> QED BY <2>0, <4>1, <4>2
      <3> DEFINE newest == First(Reverse(rows), LogLimit)
                 rest == Without(newest, Times(saved.log))
      <3>2. rest \in Seq(Entry)
        BY <2>0, ChronicleReverse, ChronicleFirst, ChronicleWithout DEF LogInv, StateOK, Chronicle
      <3>3. log' = (IF saved.log = <<>> THEN newest ELSE First(saved.log \o rest, LogLimit))
            /\ hushed' = saved.hushed
        BY <2>12 DEF Boot, RestoredLog
      <3> HIDE DEF rest, newest
      <3>4. \A d : ~OpenIn(<<>>, d)
        BY DEF OpenIn
      <3>5. ASSUME NEW d, OpenIn(saved.log, d) PROVE OpenIn(log', d)
        <4>1. saved.log # <<>>
          BY <3>4, <3>5
        <4> QED BY <2>0, <3>1, <3>2, <3>3, <3>5, <4>1, OpenBefore
      <3> QED BY <1>2, <2>0, <2>12, <3>3, <3>5 DEF Boot, Bot, KnownInv
    <2>13. CASE Booted \/ LoseLegs \/ SmokeTells \/ Deliver \/ Connect \/ Drop \/ Heartbeat \/ Load
              \/ \E c \in LogCoins : BuyElsewhere(c)
      BY <1>2, <2>0, <2>13 DEF Booted, LoseLegs, SmokeTells, Deliver, Connect, Drop, Heartbeat, Load, BuyElsewhere,
         Bot, LogState, Env, KnownInv
    <2>14. CASE UNCHANGED logVars
      BY <1>2, <2>0, <2>14 DEF logVars, KnownInv
    <2> QED BY <1>2, <2>1, <2>2, <2>3, <2>4, <2>5, <2>6, <2>7, <2>8, <2>9, <2>10, <2>11, <2>12, <2>13, <2>14
            DEF LogNext
  <1> QED BY <1>1, <1>2 DEF LogInv, EnvOK, Scenes

LEMMA LogStartsEmpty ==
  ASSUME LogInit
  PROVE  HoldInv /\ LegsInv /\ StillInv /\ KnownInv
  <1>1. Once(<<>>) /\ \A c : ~LastBuy(<<>>, c)
    BY DEF Once, LastBuy
  <1>2. 0 <= MaxTime[scene]
    BY LogAssumption DEF LogInit, MaxTime, Scenes
  <1> QED BY <1>1, <1>2 DEF LogInit, HoldInv, LegsInv, StillInv, KnownInv, NoProbe

LEMMA KnownAdopts ==
  ASSUME LogInv, KnownInv
  PROVE  AdoptsNew
  BY DEF LogInv, EnvOK, Scenes, KnownInv, LegsInv, AdoptsNew

LEMMA OnceIsOnce ==
  ASSUME HoldInv
  PROVE  BoughtOnce
  BY DEF HoldInv, Once, BoughtOnce

\* As long as the saved legs can be read, a holding is written down once, whatever becomes of the
\* log, its saves and its limit.
THEOREM LegsKeepTheBooks ==
  LogSpec /\ [][~LoseLegs]_logVars => []BoughtOnce
  <1>1. LogInit => HoldInv /\ LegsInv
    BY LogStartsEmpty
  <1>2. LogInv /\ HoldInv /\ LegsInv /\ [LogNext]_logVars /\ [~LoseLegs]_logVars => HoldInv' /\ LegsInv'
    <2> SUFFICES ASSUME LogInv, HoldInv, LegsInv, [LogNext]_logVars, [~LoseLegs]_logVars
                 PROVE  HoldInv' /\ LegsInv'
      OBVIOUS
    <2>1. AdoptsNew
      BY DEF LegsInv, AdoptsNew
    <2>2. HoldInv'
      BY <2>1, HoldStep
    <2>3. CASE ~LoseLegs
      BY <2>2, <2>3, LegsStep
    <2>4. CASE UNCHANGED logVars
      BY <2>2, <2>4 DEF logVars, LegsInv
    <2> QED BY <2>3, <2>4
  <1>3. HoldInv => BoughtOnce
    BY OnceIsOnce
  <1> QED BY <1>1, <1>2, <1>3, LogsAreChronicles, PTL DEF LogSpec

\* As long as no restart loses a save and the log has a place for every trade, a holding is
\* written down once, though the saved legs be lost at every restart.
THEOREM LogKeepsTheBooks ==
  ASSUME FileTrades <= LogLimit
  PROVE  LogSpec /\ [][Exit => ~due /\ ~saved.torn]_logVars => []BoughtOnce
  <1>1. LogInit => HoldInv /\ StillInv /\ KnownInv
    BY LogStartsEmpty
  <1>2. LogInv /\ LogInv' /\ HoldInv /\ StillInv /\ KnownInv /\ [LogNext]_logVars
        /\ [Exit => ~due /\ ~saved.torn]_logVars => HoldInv' /\ StillInv' /\ KnownInv'
    <2> SUFFICES ASSUME LogInv, LogInv', HoldInv, StillInv, KnownInv, [LogNext]_logVars,
                        [Exit => ~due /\ ~saved.torn]_logVars
                 PROVE  HoldInv' /\ StillInv' /\ KnownInv'
      OBVIOUS
    <2>1. HoldInv' /\ StillInv'
      BY KnownAdopts, HoldStep, StillStep
    <2>2. CASE Exit => ~due /\ ~saved.torn
      BY <2>1, <2>2, KnownStep
    <2>3. CASE UNCHANGED logVars
      BY <2>1, <2>3 DEF logVars, KnownInv, LegsInv, MaxTime
    <2> QED BY <2>2, <2>3
  <1>3. HoldInv => BoughtOnce
    BY OnceIsOnce
  <1> QED BY <1>1, <1>2, <1>3, LogsAreChronicles, PTL DEF LogSpec

\* What is left after at most one mishap: the legs, or the log; both as long as there was none.
BooksInv ==
  /\ mishaps \in Nat /\ HoldInv /\ StillInv
  /\ LegsInv \/ KnownInv
  /\ mishaps = 0 => LegsInv /\ KnownInv

LEMMA MishapsCount ==
  ASSUME [LogNext]_logVars
  PROVE  mishaps' = mishaps \/ \E n \in {0, 1} : Mishap(n)
  <1>1. ASSUME NEW c \in LogCoins, Buy(c) \/ SellPart(c) \/ BuyElsewhere(c) \/ Adopt(c) PROVE mishaps' = mishaps
    BY <1>1 DEF Buy, SellPart, BuyElsewhere, Adopt, Env
  <1>2. ASSUME NEW c \in LogCoins, SmokeBuy(c) \/ SmokeSell(c) \/ Repair(c) PROVE mishaps' = mishaps
    BY <1>2 DEF SmokeBuy, SmokeSell, Repair, Env
  <1>3. ASSUME NEW c \in LogCoins, NEW byHand \in BOOLEAN, Sell(c, byHand) PROVE mishaps' = mishaps
    BY <1>3 DEF Sell, Env
  <1>4. CASE SmokeTells \/ Reset \/ WriteLog \/ LogWritten \/ Boot \/ Booted
    BY <1>4 DEF SmokeTells, Reset, WriteLog, LogWritten, Boot, Booted, Env
  <1>5. CASE Exit \/ LoseLegs \/ Drop \/ Load
    BY <1>5 DEF Exit, LoseLegs, Drop, Load
  <1>6. ASSUME NEW t, Delete(t) PROVE mishaps' = mishaps
    BY <1>6 DEF Delete, Env
  <1>7. CASE Deliver \/ Connect \/ Heartbeat
    BY <1>7 DEF Deliver, Connect, Heartbeat, Env
  <1>8. CASE UNCHANGED logVars
    BY <1>8 DEF logVars
  <1> QED BY <1>1, <1>2, <1>3, <1>4, <1>5, <1>6, <1>7, <1>8 DEF LogNext

LEMMA OneMishap ==
  ASSUME mishaps \in Nat, [LogNext]_logVars, MaxMishaps <= 1, mishaps # 0
  PROVE  ~LoseLegs /\ (Exit => ~due /\ ~saved.torn)
  <1>1. mishaps \in Nat /\ MaxMishaps \in Nat /\ ~(mishaps + 1 <= MaxMishaps)
    BY LogAssumption
  <1>2. ~LoseLegs
    BY <1>1 DEF LoseLegs, Mishap
  <1>3. Exit => ~due /\ ~saved.torn
    BY <1>1 DEF Exit, Mishap
  <1> QED BY <1>2, <1>3

LEMMA BooksStep ==
  ASSUME LogInv, LogInv', BooksInv, [LogNext]_logVars, MaxMishaps <= 1, FileTrades <= LogLimit
  PROVE  BooksInv'
  <1>0. mishaps \in Nat
    BY DEF BooksInv
  <1>1. HoldInv' /\ StillInv' /\ mishaps' \in Nat
    <2>1. AdoptsNew
      BY KnownAdopts DEF BooksInv, LegsInv, AdoptsNew
    <2>2. mishaps' \in Nat
      BY <1>0, MishapsCount DEF Mishap
    <2> QED BY <2>1, <2>2, HoldStep, StillStep DEF BooksInv
  <1>2. CASE mishaps # 0
    <2>1. LegsInv' \/ KnownInv'
      BY <1>0, <1>2, OneMishap, LegsStep, KnownStep DEF BooksInv
    <2>2. mishaps' # 0
      BY <1>0, <1>2, MishapsCount DEF Mishap
    <2> QED BY <1>1, <2>1, <2>2 DEF BooksInv
  <1>3. CASE mishaps = 0 /\ LoseLegs
    <2>1. KnownInv' /\ mishaps' # 0
      BY <1>3, KnownStep DEF BooksInv, LoseLegs, Exit, Mishap
    <2> QED BY <1>1, <2>1 DEF BooksInv
  <1>4. CASE mishaps = 0 /\ ~LoseLegs
    <2>1. LegsInv'
      BY <1>4, LegsStep DEF BooksInv
    <2>2. CASE Exit => ~due /\ ~saved.torn
      BY <1>1, <1>4, <2>1, <2>2, KnownStep DEF BooksInv
    <2>3. CASE Exit /\ (due \/ saved.torn)
      <3>1. mishaps' # 0
        BY <1>4, <2>3 DEF Exit, Mishap
      <3> QED BY <1>1, <2>1, <3>1 DEF BooksInv
    <2> QED BY <2>2, <2>3
  <1> QED BY <1>2, <1>3, <1>4

\* A holding is written down once when at most one thing goes wrong - a save that a restart
\* loses, or the saved legs - and the log has a place for every trade.
THEOREM HoldingsAreWrittenOnce ==
  ASSUME MaxMishaps <= 1, FileTrades <= LogLimit
  PROVE  LogSpec => []BoughtOnce
  <1>1. LogInit => BooksInv
    <2>1. LogInit => HoldInv /\ LegsInv /\ StillInv /\ KnownInv
      BY LogStartsEmpty
    <2>2. LogInit => mishaps \in Nat
      BY DEF LogInit
    <2> QED BY <2>1, <2>2 DEF BooksInv
  <1>2. LogInv /\ LogInv' /\ BooksInv /\ [LogNext]_logVars => BooksInv'
    BY BooksStep
  <1>3. BooksInv => BoughtOnce
    BY OnceIsOnce DEF BooksInv
  <1> QED BY <1>1, <1>2, <1>3, LogsAreChronicles, PTL DEF LogSpec

-----------------------------------------------------------------------------
(***************************************************************************)
(* The paper account.  An operation of the trader is a function of the book:  *)
(* a lemma for each operation says that its outcome is Sound, and a step that  *)
(* trades writes down a sound outcome.  The invariant then ties the record,    *)
(* the saved record and the trade file together (Traced), and the record that  *)
(* misses no trade to the book (Stands).                                      *)
(***************************************************************************)

\* A position under a key: what has no lots has cost nothing.
Stake == [qty : Nat, cost : Int, stop : Int, initial : Int, target : Int, high : Int,
          partialDone : BOOLEAN, tierDue : BOOLEAN]
PaperLeg == {p \in Stake : p.qty = 0 => p.cost = 0}

Order == [reserve : Nat, limit : Int, stop : Int]

\* The trader's book: an order rests only under a key that holds nothing, above the floor.
Book == [balance : Int, reserved : Int, pnl : Int, positions : [Keys -> PaperLeg], pending : [Satellites -> Order]]
OrderRests(b, k) == b.pending[k].reserve > 0 => b.positions[k].qty = 0 /\ b.pending[k].limit > 0
BookOK(b) == b \in Book /\ \A k \in Satellites : OrderRests(b, k)

\* Why a position is opened or closed whole.
Reasons == {"entry", "core", "satellite", "partial", "strategy_sell", "stop_loss", "trailing_stop", "take_profit",
            "sat_time", "sat_tier", "sat_stop", "sat_breakeven", "sat_target", "none"}

\* A trade as the file or the record has it.
PaperTrade == [side : {"BUY", "SELL"}, key : Keys, qty : Nat, price : Int, pnl : Int, at : Int,
               balance : Int, reason : Reasons \cup {"resize", "row"}, position : PaperLeg]

-----------------------------------------------------------------------------
(* Positions. *)

\* Only what a stop rule may change of a position.
Same(p, q) == q \in PaperLeg /\ q.qty = p.qty /\ q.cost = p.cost

LEMMA StakeFields ==
  ASSUME NEW p \in PaperLeg
  PROVE  /\ p \in Stake
         /\ p.qty \in Nat /\ p.cost \in Int /\ p.stop \in Int /\ p.initial \in Int /\ p.target \in Int
         /\ p.high \in Int /\ p.partialDone \in BOOLEAN /\ p.tierDue \in BOOLEAN
         /\ (p.qty = 0 => p.cost = 0)
  BY DEF PaperLeg, Stake

LEMMA FlatIsLeg == Flat \in PaperLeg /\ Flat.qty = 0 /\ Flat.cost = 0
  BY DEF Flat, PaperLeg, Stake

LEMMA NewLegs ==
  ASSUME NEW lots \in Nat, NEW cost \in Int, NEW high \in Int, NEW stop \in Int, NEW initial \in Int, NEW target \in Int,
         lots = 0 => cost = 0
  PROVE  /\ [Flat EXCEPT !.qty = lots, !.cost = cost, !.high = high] \in PaperLeg
         /\ [Flat EXCEPT !.qty = lots, !.cost = cost, !.high = high,
                         !.stop = stop, !.initial = initial, !.target = target] \in PaperLeg
         /\ [Flat EXCEPT !.qty = lots, !.cost = cost, !.stop = stop, !.initial = initial,
                         !.high = high, !.target = target] \in PaperLeg
         /\ [Flat EXCEPT !.qty = lots, !.cost = cost, !.high = high, !.target = target] \in PaperLeg
  <1> DEFINE f == Flat
  <1>1. f \in Stake
    BY FlatIsLeg, StakeFields
  <1> HIDE DEF f
  <1>2. [f EXCEPT !.qty = lots, !.cost = cost, !.high = high] \in PaperLeg
    <2> DEFINE p == [f EXCEPT !.qty = lots, !.cost = cost, !.high = high]
    <2>1. p \in Stake /\ p.qty = lots /\ p.cost = cost
      BY <1>1 DEF Stake
    <2> HIDE DEF p
    <2>2. p \in PaperLeg
      BY <2>1 DEF PaperLeg
    <2> QED BY <2>2 DEF p
  <1>3. [f EXCEPT !.qty = lots, !.cost = cost, !.high = high,
                       !.stop = stop, !.initial = initial, !.target = target] \in PaperLeg
    <2> DEFINE p == [f EXCEPT !.qty = lots, !.cost = cost, !.high = high,
                       !.stop = stop, !.initial = initial, !.target = target]
    <2>1. p \in Stake /\ p.qty = lots /\ p.cost = cost
      BY <1>1 DEF Stake
    <2> HIDE DEF p
    <2>2. p \in PaperLeg
      BY <2>1 DEF PaperLeg
    <2> QED BY <2>2 DEF p
  <1>4. [f EXCEPT !.qty = lots, !.cost = cost, !.stop = stop, !.initial = initial,
                       !.high = high, !.target = target] \in PaperLeg
    <2> DEFINE p == [f EXCEPT !.qty = lots, !.cost = cost, !.stop = stop, !.initial = initial,
                       !.high = high, !.target = target]
    <2>1. p \in Stake /\ p.qty = lots /\ p.cost = cost
      BY <1>1 DEF Stake
    <2> HIDE DEF p
    <2>2. p \in PaperLeg
      BY <2>1 DEF PaperLeg
    <2> QED BY <2>2 DEF p
  <1>5. [f EXCEPT !.qty = lots, !.cost = cost, !.high = high, !.target = target] \in PaperLeg
    <2> DEFINE p == [f EXCEPT !.qty = lots, !.cost = cost, !.high = high, !.target = target]
    <2>1. p \in Stake /\ p.qty = lots /\ p.cost = cost
      BY <1>1 DEF Stake
    <2> HIDE DEF p
    <2>2. p \in PaperLeg
      BY <2>1 DEF PaperLeg
    <2> QED BY <2>2 DEF p
  <1> QED BY <1>2, <1>3, <1>4, <1>5 DEF f

\* The leg a strategy's entry opens is a leg of the book.
LEMMA OpenedLegs ==
  ASSUME NEW lots \in Nat, NEW cost \in Int, NEW high \in Int, NEW stop \in Int, NEW target \in Int,
         lots = 0 => cost = 0
  PROVE  [Flat EXCEPT !.qty = lots, !.cost = cost, !.high = high,
                      !.stop = stop, !.initial = stop, !.target = target] \in PaperLeg
  BY NewLegs, Zenon

\* The leg a filled order opens is a leg of the book.
LEMMA FilledLegs ==
  ASSUME NEW lots \in Nat, NEW cost \in Int, NEW high \in Int, NEW stop \in Int, NEW target \in Int,
         lots = 0 => cost = 0
  PROVE  [Flat EXCEPT !.qty = lots, !.cost = cost, !.stop = stop, !.initial = stop,
                      !.high = high, !.target = target] \in PaperLeg
  BY NewLegs, Zenon

\* A position grows by lots and their cost.
LEMMA LegGrows ==
  ASSUME NEW p \in PaperLeg, NEW lots \in Nat, NEW paid \in Int, 0 < lots
  PROVE  LET q == [p EXCEPT !.qty = p.qty + lots, !.cost = p.cost + paid]
         IN q \in PaperLeg /\ q.cost = p.cost + paid
  <1> DEFINE n == p.qty + lots
             x == p.cost + paid
  <1>1. n \in Nat /\ n # 0 /\ x \in Int /\ p \in Stake
    BY StakeFields
  <1> HIDE DEF n, x
  <1>2. [p EXCEPT !.qty = n, !.cost = x] \in PaperLeg /\ [p EXCEPT !.qty = n, !.cost = x].cost = x
    BY <1>1 DEF PaperLeg, Stake
  <1> QED BY <1>2 DEF n, x

LEMMA SameIsSame == \A p \in PaperLeg : Same(p, p)
  BY DEF Same

LEMMA PartIsInt ==
  ASSUME NEW a \in Int, NEW m \in Int
  PROVE  Part(a, m) \in Int
  BY DEF Part

LEMMA ExtremesOfTwo ==
  ASSUME NEW x \in Int, NEW y \in Int
  PROVE  /\ Min({x, y}) \in Int /\ (Min({x, y}) = x \/ Min({x, y}) = y)
         /\ Min({x, y}) <= x /\ Min({x, y}) <= y
         /\ Max({x, y}) \in Int
  <1> DEFINE S == {x, y}
  <1>1. \E m \in S : \A z \in S : m <= z
    OBVIOUS
  <1>2. \E m \in S : \A z \in S : m >= z
    OBVIOUS
  <1>3. Min(S) \in S /\ \A z \in S : Min(S) <= z
    BY <1>1 DEF Min
  <1>4. Max(S) \in S
    BY <1>2 DEF Max
  <1>5. x \in S /\ y \in S /\ \A z \in S : z = x \/ z = y
    OBVIOUS
  <1> HIDE DEF S
  <1>6. Min(S) \in Int /\ (Min(S) = x \/ Min(S) = y) /\ Min(S) <= x /\ Min(S) <= y /\ Max(S) \in Int
    BY <1>3, <1>4, <1>5
  <1> QED BY <1>6 DEF S

\* A new stop, high-water mark or flag.
LEMMA StopMoves ==
  ASSUME NEW p \in PaperLeg, NEW x \in Int, NEW y \in Int
  PROVE  /\ Same(p, [p EXCEPT !.stop = x])
         /\ Same(p, [p EXCEPT !.high = y, !.stop = x])
         /\ \A flag \in BOOLEAN : Same(p, [p EXCEPT !.partialDone = flag, !.stop = x])
         /\ \A flag \in BOOLEAN : Same(p, [p EXCEPT !.high = y, !.stop = x, !.tierDue = flag])
         /\ Same(p, [p EXCEPT !.partialDone = FALSE, !.tierDue = FALSE])
  BY StakeFields DEF Same, PaperLeg, Stake

LEMMA Percents ==
  /\ StopPct \in Int /\ TargetPct \in Int /\ TrailPct \in Int /\ ArmPct \in Int /\ BreakEvenPct \in Int
  /\ StagePct \in Int /\ TargetR \in Int /\ NoTarget \in Int
  <1> DEFINE P == 0 .. 999
  <1>1. {StopPct, TargetPct, TrailPct, ArmPct, BreakEvenPct, StagePct} \subseteq P /\ TargetR \in Nat /\ NoTarget \in Nat
    BY StopRulesAssumption
  <1>2. \A x \in P : x \in Int
    OBVIOUS
  <1> HIDE DEF P
  <1>3. StopPct \in P /\ TargetPct \in P /\ TrailPct \in P /\ ArmPct \in P /\ BreakEvenPct \in P /\ StagePct \in P
    BY <1>1, Zenon
  <1> QED BY <1>1, <1>2, <1>3

LEMMA TrailedIsSame ==
  ASSUME NEW p \in PaperLeg, NEW entry \in Int, NEW price \in Int
  PROVE  Same(p, Trailed(p, entry, price))
  <1> DEFINE x == Part(price, 1000 - TrailPct)
             y == Max({p.stop, x})
  <1>1. x \in Int
    BY Percents, PartIsInt
  <1>2. p.stop \in Int
    BY StakeFields
  <1> HIDE DEF x
  <1>3. y \in Int
    BY <1>1, <1>2, ExtremesOfTwo
  <1>4. Trailed(p, entry, price) = p \/ Trailed(p, entry, price) = [p EXCEPT !.high = price, !.stop = y]
    BY DEF Trailed, x
  <1> HIDE DEF y
  <1>5. Same(p, [p EXCEPT !.high = price, !.stop = y])
    BY <1>3, StopMoves, Zenon
  <1> QED BY <1>4, <1>5, SameIsSame

LEMMA BreakEvenedIsSame ==
  ASSUME NEW p \in PaperLeg, NEW entry \in Int, NEW price \in Int
  PROVE  Same(p, BreakEvened(p, entry, price))
  <1>1. Lock(entry) \in Int
    BY PartIsInt DEF Lock
  <1>2. BreakEvened(p, entry, price) = p \/ BreakEvened(p, entry, price) = [p EXCEPT !.stop = Lock(entry)]
    BY DEF BreakEvened
  <1> QED BY <1>1, <1>2, StopMoves, SameIsSame, Zenon

LEMMA RemainderIsSame ==
  ASSUME NEW p \in PaperLeg, NEW entry \in Int
  PROVE  Same(p, Remainder(p, entry))
  <1> DEFINE x == IF p.stop < entry THEN Lock(entry) ELSE p.stop
  <1>1. Lock(entry) \in Int /\ p.stop \in Int
    BY PartIsInt, StakeFields DEF Lock
  <1>2. x \in Int
    BY <1>1
  <1>3. Remainder(p, entry) = [p EXCEPT !.partialDone = TRUE, !.stop = x]
    BY DEF Remainder
  <1> HIDE DEF x
  <1> QED BY <1>2, <1>3, StopMoves, Zenon

LEMMA SatelliteKeptIsSame ==
  ASSUME NEW p \in PaperLeg, NEW entry \in Int, NEW o, o.high \in Int, o.weak \in BOOLEAN
  PROVE  Same(p, SatelliteKept(p, entry, o))
  <1> DEFINE top == Max({p.high, o.high})
             raised == Max({p.stop, entry})
             x == IF top >= entry + (entry - p.initial) THEN raised ELSE p.stop
  <1>1. top \in Int /\ raised \in Int /\ p.stop \in Int
    BY StakeFields, ExtremesOfTwo, Zenon
  <1>2. x \in Int
    BY <1>1
  <1>3. SatelliteKept(p, entry, o) = [p EXCEPT !.high = top, !.stop = x, !.tierDue = o.weak]
    BY DEF SatelliteKept
  <1> HIDE DEF x, top
  <1>4. \A flag \in BOOLEAN : Same(p, [p EXCEPT !.high = top, !.stop = x, !.tierDue = flag])
    BY <1>1, <1>2, StopMoves, Zenon
  <1> QED BY <1>3, <1>4

LEMMA SatelliteExitIsPriced ==
  ASSUME NEW p \in PaperLeg, NEW entry \in Int, NEW price \in Int, NEW late, NEW weak
  PROVE  LET o == [open |-> price, low |-> price, high |-> price, close |-> price, late |-> late, weak |-> weak]
             e == SatelliteExit(p, entry, o)
         IN e.price \in Int /\ e.reason \in Reasons
  <1> DEFINE o == [open |-> price, low |-> price, high |-> price, close |-> price, late |-> late, weak |-> weak]
             e == SatelliteExit(p, entry, o)
             x == Min({p.stop, price})
             y == Max({p.target, price})
  <1>1. x \in Int /\ y \in Int
    BY StakeFields, ExtremesOfTwo
  <1>2. o.open = price /\ o.low = price /\ o.high = price /\ o.close = price
    OBVIOUS
  <1>3. \/ e = [reason |-> "sat_time", price |-> price]
        \/ e = [reason |-> "sat_tier", price |-> price]
        \/ e = [reason |-> IF p.stop >= entry THEN "sat_breakeven" ELSE "sat_stop", price |-> x]
        \/ e = [reason |-> "sat_target", price |-> y]
        \/ e = [reason |-> "none", price |-> price]
    <2>1. CASE late
      BY <2>1 DEF SatelliteExit
    <2>2. CASE ~late /\ p.tierDue
      BY <2>2 DEF SatelliteExit
    <2>3. CASE ~late /\ ~p.tierDue /\ price <= p.stop
      BY <2>3 DEF SatelliteExit
    <2>4. CASE ~late /\ ~p.tierDue /\ price > p.stop /\ price >= p.target
      BY <2>4, StakeFields DEF SatelliteExit
    <2>5. CASE ~late /\ ~p.tierDue /\ price > p.stop /\ ~(price >= p.target)
      BY <2>5, StakeFields DEF SatelliteExit
    <2>6. p.stop \in Int
      BY StakeFields
    <2> QED BY <2>1, <2>2, <2>3, <2>4, <2>5, <2>6
  <1> HIDE DEF x, y, e
  <1>4. e.price \in Int /\ e.reason \in Reasons
    <2> DEFINE why == IF p.stop >= entry THEN "sat_breakeven" ELSE "sat_stop"
    <2>1. why \in Reasons
      BY DEF Reasons
    <2>2. "sat_time" \in Reasons /\ "sat_tier" \in Reasons /\ "sat_target" \in Reasons /\ "none" \in Reasons
      BY DEF Reasons
    <2>3. \/ e = [reason |-> "sat_time", price |-> price]
          \/ e = [reason |-> "sat_tier", price |-> price]
          \/ e = [reason |-> why, price |-> x]
          \/ e = [reason |-> "sat_target", price |-> y]
          \/ e = [reason |-> "none", price |-> price]
      BY <1>3
    <2> HIDE DEF why
    <2> QED BY <1>1, <2>1, <2>2, <2>3
  <1> QED BY <1>4 DEF e

\* Two strings that are not what a position is closed whole for.
LEMMA ReasonsApart == "row" \notin Reasons /\ "resize" \notin Reasons
  BY DEF Reasons

LEMMA ExitReasonIsReason ==
  ASSUME NEW p \in PaperLeg, NEW price \in Int
  PROVE  ExitReason(p, price) \in Reasons
  <1>1. p.stop \in Int /\ p.target \in Int
    BY StakeFields
  <1>2. CASE price <= p.stop
    BY <1>2 DEF ExitReason, Reasons
  <1>3. CASE price > p.stop /\ price >= p.target
    <2>1. ~(price <= p.stop)
      BY <1>1, <1>3
    <2> QED BY <1>3, <2>1 DEF ExitReason, Reasons
  <1>4. CASE price > p.stop /\ ~(price >= p.target)
    <2>1. ~(price <= p.stop)
      BY <1>1, <1>4
    <2> QED BY <1>4, <2>1 DEF ExitReason, Reasons
  <1> QED BY <1>1, <1>2, <1>3, <1>4

LEMMA StopsAreInt ==
  ASSUME NEW price \in Int, NEW atr \in Int
  PROVE  FirstStop(price, atr) \in Int /\ FirstTarget(price, atr) \in Int
  <1>1. ASSUME NEW a \in Int, NEW f \in Int, NEW lo \in Int, NEW hi \in Int PROVE Clamped(a, f, lo, hi) \in Int
    <2> DEFINE x == (a * f) \div 10
               y == Max({x, lo})
    <2>1. x \in Int
      OBVIOUS
    <2> HIDE DEF x
    <2>2. y \in Int
      BY <2>1, ExtremesOfTwo
    <2> HIDE DEF y
    <2>3. Min({y, hi}) \in Int
      BY <2>2, ExtremesOfTwo
    <2> QED BY <2>3 DEF Clamped, x, y
  <1> DEFINE u == IF atr = 0 THEN StopPct ELSE Clamped(atr, 15, 20, 120)
             v == IF atr = 0 THEN TargetPct ELSE Clamped(atr, 30, 40, 300)
  <1>2. Clamped(atr, 15, 20, 120) \in Int /\ Clamped(atr, 30, 40, 300) \in Int
    BY <1>1
  <1>3. u \in Int /\ v \in Int
    BY <1>2, Percents
  <1> HIDE DEF u, v
  <1>4. Part(price, u) \in Int /\ Part(price, v) \in Int
    BY <1>3, PartIsInt
  <1> QED BY <1>4 DEF FirstStop, FirstTarget, u, v

LEMMA EntryPriceIsInt ==
  ASSUME NEW p \in PaperLeg, p.qty > 0
  PROVE  EntryPrice(p) \in Int
  <1>1. p.qty \in Nat /\ p.cost \in Int
    BY StakeFields
  <1> QED BY <1>1 DEF EntryPrice

-----------------------------------------------------------------------------
(* What an operation does. *)

\* The books of b and c are worth what was realised apart.
KeepsWorth(b, c) == Worth(c) - c.pnl = Worth(b) - b.pnl

\* The same lots, at the same cost, under every key.
Alike(b, c) == \A k \in Keys : /\ c.positions[k].qty = b.positions[k].qty
                              /\ c.positions[k].cost = b.positions[k].cost

\* c is b after the trade r, as a replay of the trade has it.
Books(b, c, r) ==
  \A k \in Keys :
    LET p == IF k # r.key THEN b.positions[k]
             ELSE IF r.side = "BUY" \/ r.reason = "resize" THEN r.position ELSE Flat
    IN c.positions[k].qty = p.qty /\ c.positions[k].cost = p.cost

\* The outcome s of an operation on b: no money is made or lost, its rows and its record are
\* trades, the record is the last row and has the cash there is, and a single row that is recorded
\* tells all.
Sound(b, s) ==
  /\ BookOK(s.book) /\ KeepsWorth(b, s.book)
  /\ s.rows \in Seq(PaperTrade)
  /\ s.record # NoRecord =>
       /\ s.rows # <<>> /\ s.record = s.rows[Len(s.rows)]
       /\ s.record \in PaperTrade /\ s.record.reason # "row" /\ s.record.balance = s.book.balance
  /\ s.rows = <<>> => Alike(b, s.book)
  /\ Len(s.rows) = 1 /\ s.record # NoRecord => Books(b, s.book, s.record)

LEMMA BookFields ==
  ASSUME NEW b, BookOK(b)
  PROVE  /\ b.balance \in Int /\ b.reserved \in Int /\ b.pnl \in Int
         /\ b.positions \in [Keys -> PaperLeg] /\ b.pending \in [Satellites -> Order]
         /\ \A k \in Keys : b.positions[k] \in PaperLeg
         /\ \A k \in Satellites : /\ b.pending[k].reserve \in Nat /\ b.pending[k].limit \in Int
                                 /\ b.pending[k].stop \in Int /\ OrderRests(b, k)
  <1>1. b \in Book /\ \A k \in Satellites : OrderRests(b, k)
    BY DEF BookOK
  <1>2. /\ b.balance \in Int /\ b.reserved \in Int /\ b.pnl \in Int
        /\ b.positions \in [Keys -> PaperLeg] /\ b.pending \in [Satellites -> Order]
    BY <1>1 DEF Book
  <1>3. \A k \in Satellites : b.pending[k] \in Order
    BY <1>2
  <1>4. \A x \in Order : x.reserve \in Nat /\ x.limit \in Int /\ x.stop \in Int
    BY DEF Order
  <1> QED BY <1>1, <1>2, <1>3, <1>4

\* What was paid for the positions.
LEMMA InvestedIsInt ==
  ASSUME NEW b, BookOK(b)
  PROVE  Invested(b) \in Int /\ Worth(b) \in Int
  <1> DEFINE f == [k \in Keys |-> b.positions[k].cost]
  <1>1. \A k \in Keys : f[k] \in Int
    BY BookFields, StakeFields
  <1>2. Summable(f, Keys)
    BY <1>1, PaperAssumption DEF Summable
  <1> HIDE DEF f
  <1>3. SumFunctionOnSet(f, Keys) \in Int
    BY <1>2, SumIsInt
  <1>4. Invested(b) \in Int
    BY <1>3 DEF Invested, f
  <1> QED BY <1>4, BookFields DEF Worth

\* Every other position has cost the same.
OthersCost(b, c, k) == \A j \in Keys \ {k} : c.positions[j].cost = b.positions[j].cost

\* What was paid has changed by the cost of one position.
CostMoves(b, c, k) == Invested(c) = Invested(b) - b.positions[k].cost + c.positions[k].cost

\* It moves by the cost of the one position that is replaced.
LEMMA InvestedMoves ==
  ASSUME NEW b, NEW c, BookOK(b), BookOK(c), NEW k \in Keys, OthersCost(b, c, k)
  PROVE  CostMoves(b, c, k)
  <1> DEFINE f == [j \in Keys |-> b.positions[j].cost]
             g == [j \in Keys |-> c.positions[j].cost]
             rest == Keys \ {k}
  <1>1. \A j \in Keys : f[j] \in Int /\ g[j] \in Int
    BY BookFields, StakeFields
  <1>2. Summable(f, Keys) /\ Summable(g, Keys)
    BY <1>1, PaperAssumption DEF Summable
  <1>3. \A j \in rest : g[j] = f[j]
    BY DEF OthersCost
  <1>4. f[k] = b.positions[k].cost /\ g[k] = c.positions[k].cost /\ f[k] \in Int /\ g[k] \in Int
    BY <1>1
  <1>5. Invested(b) = SumFunctionOnSet(f, Keys) /\ Invested(c) = SumFunctionOnSet(g, Keys)
    BY DEF Invested
  <1> HIDE DEF f, g
  <1>6. /\ Summable(f, rest) /\ SumFunctionOnSet(f, Keys) = f[k] + SumFunctionOnSet(f, rest)
        /\ SumFunctionOnSet(g, Keys) = g[k] + SumFunctionOnSet(g, rest)
    BY <1>2, SumTakes
  <1>7. SumFunctionOnSet(g, rest) = SumFunctionOnSet(f, rest)
    <2> HIDE DEF rest
    <2> QED BY <1>3, <1>6, SumAgrees
  <1>8. SumFunctionOnSet(f, rest) \in Int
    <2> HIDE DEF rest
    <2> QED BY <1>6, SumIsInt
  <1> DEFINE x == SumFunctionOnSet(f, rest)
             u == SumFunctionOnSet(f, Keys)
             v == SumFunctionOnSet(g, Keys)
  <1>9. x \in Int /\ u = f[k] + x /\ v = g[k] + x
    BY <1>6, <1>7, <1>8
  <1>10. Invested(b) = u /\ Invested(c) = v
    BY <1>5
  <1> HIDE DEF x, u, v, rest
  <1>11. Invested(c) = Invested(b) - b.positions[k].cost + c.positions[k].cost
    BY <1>4, <1>9, <1>10
  <1> QED BY <1>11 DEF CostMoves

\* A book in which one position and the cash have moved.
LEMMA MovesKeep ==
  ASSUME NEW b, NEW c, BookOK(b), c \in Book, NEW k \in Keys, NEW p \in PaperLeg,
         c.positions = [b.positions EXCEPT ![k] = p],
         \A j \in Satellites : c.pending[j] = b.pending[j] \/ j = k,
         k \in Satellites => OrderRests(c, k),
         c.balance + c.reserved + p.cost - c.pnl = b.balance + b.reserved + b.positions[k].cost - b.pnl
  PROVE  BookOK(c) /\ KeepsWorth(b, c)
  <1>1. b.positions \in [Keys -> PaperLeg]
    BY BookFields
  <1>2. c.positions[k] = p /\ \A j \in Keys \ {k} : c.positions[j] = b.positions[j]
    BY <1>1
  <1>3. \A j \in Satellites : OrderRests(c, j)
    <2> SUFFICES ASSUME NEW j \in Satellites, j # k PROVE OrderRests(c, j)
      OBVIOUS
    <2>1. j \in Keys /\ OrderRests(b, j)
      BY BookFields DEF Keys
    <2>2. c.pending[j] = b.pending[j] /\ c.positions[j] = b.positions[j]
      BY <1>2, <2>1
    <2> QED BY <2>1, <2>2 DEF OrderRests
  <1>4. BookOK(c)
    BY <1>3 DEF BookOK
  <1>5. OthersCost(b, c, k)
    BY <1>2 DEF OthersCost
  <1>6. Invested(c) = Invested(b) - b.positions[k].cost + p.cost
    <2>1. CostMoves(b, c, k)
      BY <1>4, <1>5, InvestedMoves
    <2> QED BY <1>2, <2>1 DEF CostMoves
  <1>7. Invested(b) \in Int /\ b.positions[k].cost \in Int /\ p.cost \in Int
    BY InvestedIsInt, BookFields, StakeFields
  <1>8. /\ b.balance \in Int /\ b.reserved \in Int /\ b.pnl \in Int
        /\ c.balance \in Int /\ c.reserved \in Int /\ c.pnl \in Int
    BY <1>4, BookFields
  <1>9. Worth(c) - c.pnl = Worth(b) - b.pnl
    BY <1>6, <1>7, <1>8 DEF Worth
  <1> QED BY <1>4, <1>9 DEF KeepsWorth

\* An operation that trades nothing.
LEMMA NothingIsSound ==
  ASSUME NEW b, NEW c, BookOK(c), KeepsWorth(b, c), Alike(b, c)
  PROVE  Sound(b, Nothing(c))
  <1> DEFINE s == Nothing(c)
  <1>1. s.book = c /\ s.rows = <<>> /\ s.record = NoRecord
    BY DEF Nothing, Step
  <1> HIDE DEF s
  <1>2. s.rows \in Seq(PaperTrade)
    BY <1>1
  <1>3. Sound(b, s)
    BY <1>1, <1>2 DEF Sound
  <1> QED BY <1>3 DEF s

LEMMA StaysSound ==
  ASSUME NEW b, BookOK(b)
  PROVE  Sound(b, Nothing(b))
  BY NothingIsSound DEF KeepsWorth, Alike

\* An operation that makes one trade, with or without a record of it.
LEMMA TradeIsSound ==
  ASSUME NEW b, NEW c, BookOK(c), KeepsWorth(b, c), NEW k \in Keys,
         \A j \in Keys \ {k} : c.positions[j] = b.positions[j],
         NEW side \in {"BUY", "SELL"}, NEW lots \in Nat, NEW price \in Int, NEW pnl \in Int,
         NEW reason \in Reasons \cup {"resize"}
  PROVE  LET r == Record(side, k, lots, price, pnl, c, reason)
         IN /\ side = "BUY" \/ reason = "resize" \/ c.positions[k] = Flat => Sound(b, Step(c, <<r>>, r))
            /\ Sound(b, Step(c, <<r>>, NoRecord))
  <1> DEFINE r == Record(side, k, lots, price, pnl, c, reason)
  <1>1. /\ r.key = k /\ r.side = side /\ r.reason = reason /\ r.position = c.positions[k] /\ r.balance = c.balance
    BY DEF Record
  <1>2. c.balance \in Int /\ c.positions[k] \in PaperLeg
    BY BookFields
  <1>3. r \in PaperTrade
    BY <1>2 DEF Record, PaperTrade
  <1>4. r.reason # "row"
    BY <1>1, ReasonsApart
  <1>5. ASSUME side = "BUY" \/ reason = "resize" \/ c.positions[k] = Flat PROVE Books(b, c, r)
    BY <1>1, <1>5 DEF Books
  <1> HIDE DEF r
  <1>6. <<r>> \in Seq(PaperTrade) /\ <<r>> # <<>> /\ Len(<<r>>) = 1 /\ <<r>>[1] = r
    BY <1>3
  <1>7. ASSUME side = "BUY" \/ reason = "resize" \/ c.positions[k] = Flat PROVE Sound(b, Step(c, <<r>>, r))
    <2> DEFINE s == Step(c, <<r>>, r)
    <2>1. s.book = c /\ s.rows = <<r>> /\ s.record = r
      BY DEF Step
    <2> HIDE DEF s
    <2>2. s.rows[Len(s.rows)] = r /\ s.rows \in Seq(PaperTrade) /\ s.rows # <<>>
      BY <1>6, <2>1
    <2>3. Books(b, c, r)
      BY <1>5, <1>7
    <2>4. Sound(b, s)
      BY <1>1, <1>3, <1>4, <2>1, <2>2, <2>3 DEF Sound
    <2> QED BY <2>4 DEF s
  <1>8. Sound(b, Step(c, <<r>>, NoRecord))
    <2> DEFINE s == Step(c, <<r>>, NoRecord)
    <2>1. s.book = c /\ s.rows = <<r>> /\ s.record = NoRecord
      BY DEF Step
    <2> HIDE DEF s
    <2>2. s.rows \in Seq(PaperTrade) /\ s.rows # <<>>
      BY <1>6, <2>1
    <2>4. Sound(b, s)
      BY <2>1, <2>2 DEF Sound
    <2> QED BY <2>4 DEF s
  <1> QED BY <1>7, <1>8 DEF r

\* One sequence after another.
LEMMA Joined ==
  ASSUME NEW T, NEW x \in Seq(T), NEW y \in Seq(T)
  PROVE  /\ x \o y \in Seq(T) /\ Len(x) \in Nat /\ Len(y) \in Nat /\ Len(x \o y) = Len(x) + Len(y)
         /\ \A i \in 1 .. Len(x) : (x \o y)[i] = x[i]
         /\ \A i \in 1 .. Len(y) : (x \o y)[Len(x) + i] = y[i]
         /\ (x = <<>>) <=> (Len(x) = 0)
  OBVIOUS

\* One operation after another, of which only the second's record is handed on.
LEMMA SoundAfterSound ==
  ASSUME NEW b, NEW s, NEW t, Sound(b, s), Sound(s.book, t)
  PROVE  Sound(b, Step(t.book, s.rows \o t.rows, t.record))
  <1> DEFINE u == s.rows \o t.rows
             v == Step(t.book, u, t.record)
             m == Len(s.rows)
             n == Len(t.rows)
  <1>1. s.rows \in Seq(PaperTrade) /\ t.rows \in Seq(PaperTrade)
    BY DEF Sound
  <1>2. u \in Seq(PaperTrade) /\ m \in Nat /\ n \in Nat /\ Len(u) = m + n /\ (n > 0 => u[m + n] = t.rows[n])
    <2>1. /\ u \in Seq(PaperTrade) /\ m \in Nat /\ n \in Nat /\ Len(u) = m + n
          /\ \A i \in 1 .. n : u[m + i] = t.rows[i]
      <3> DEFINE x == s.rows
                 y == t.rows
      <3>1. x \in Seq(PaperTrade) /\ y \in Seq(PaperTrade)
        BY <1>1
      <3> HIDE DEF x, y
      <3>2. /\ x \o y \in Seq(PaperTrade) /\ Len(x) \in Nat /\ Len(y) \in Nat /\ Len(x \o y) = Len(x) + Len(y)
            /\ \A i \in 1 .. Len(y) : (x \o y)[Len(x) + i] = y[i]
        BY <3>1, Joined
      <3> QED BY <3>2 DEF x, y
    <2> HIDE DEF u, m, n
    <2> QED BY <2>1
  <1>3. v.book = t.book /\ v.rows = u /\ v.record = t.record
    BY DEF Step
  <1>4. BookOK(t.book) /\ KeepsWorth(b, t.book)
    BY DEF Sound, KeepsWorth
  <1>5. (s.rows = <<>> <=> m = 0) /\ (t.rows = <<>> <=> n = 0) /\ (u = <<>> <=> Len(u) = 0)
    BY <1>1, <1>2, Joined
  <1> HIDE DEF u, v, m, n
  <1>6. ASSUME t.record # NoRecord
        PROVE  /\ u # <<>> /\ t.record = u[Len(u)] /\ n > 0
               /\ t.record \in PaperTrade /\ t.record.reason # "row" /\ t.record.balance = t.book.balance
    <2>1. /\ t.rows # <<>> /\ t.record = t.rows[n]
          /\ t.record \in PaperTrade /\ t.record.reason # "row" /\ t.record.balance = t.book.balance
      BY <1>6 DEF Sound, n
    <2>2. n > 0 /\ u # <<>>
      BY <1>2, <1>5, <2>1
    <2> QED BY <1>2, <2>1, <2>2
  <1>7. ASSUME u = <<>> PROVE Alike(b, t.book)
    <2>1. Alike(b, s.book) /\ Alike(s.book, t.book)
      BY <1>2, <1>5, <1>7 DEF Sound
    <2> QED BY <2>1 DEF Alike
  <1>8. ASSUME Len(u) = 1, t.record # NoRecord PROVE Books(b, t.book, t.record)
    <2>0. n > 0 /\ Len(u) = 1
      BY <1>6, <1>8
    <2>1. m = 0 /\ n = 1
      <3> DEFINE l == Len(u)
      <3>1. l = m + n /\ l = 1 /\ m \in Nat /\ n \in Nat /\ n > 0
        BY <1>2, <2>0
      <3> HIDE DEF l
      <3> QED BY <3>1
    <2>2. Alike(b, s.book) /\ Books(s.book, t.book, t.record)
      BY <1>5, <1>8, <2>1 DEF Sound, n
    <2> QED BY <2>2 DEF Alike, Books
  <1>9. Sound(b, v)
    BY <1>2, <1>3, <1>4, <1>6, <1>7, <1>8 DEF Sound
  <1> QED BY <1>9 DEF u, v

\* After an operation that traded nothing, the next one is the whole.
LEMMA NoRowsFirst ==
  ASSUME NEW b, NEW s, NEW t, Sound(b, s), s.rows = <<>>, Sound(s.book, t)
  PROVE  Sound(b, t)
  <1>1. Alike(b, s.book) /\ KeepsWorth(b, s.book)
    BY DEF Sound
  <1>2. KeepsWorth(b, t.book)
    BY <1>1 DEF Sound, KeepsWorth
  <1>3. t.rows = <<>> => Alike(b, t.book)
    <2>1. t.rows = <<>> => Alike(s.book, t.book)
      BY DEF Sound
    <2> QED BY <1>1, <2>1 DEF Alike
  <1>4. Len(t.rows) = 1 /\ t.record # NoRecord => Books(b, t.book, t.record)
    <2>1. Len(t.rows) = 1 /\ t.record # NoRecord => Books(s.book, t.book, t.record)
      BY DEF Sound
    <2> QED BY <1>1, <2>1 DEF Alike, Books
  <1> QED BY <1>2, <1>3, <1>4 DEF Sound

-----------------------------------------------------------------------------
(* The operations. *)

\* A sale of some lots of a position, of all of them or of a part.
LEMMA SoldKeeps ==
  ASSUME NEW b, BookOK(b), NEW k \in Keys, NEW lots \in Nat, NEW price \in Int,
         0 < lots, lots <= b.positions[k].qty
  PROVE  LET c == Sold(b, k, lots, price)
         IN /\ BookOK(c) /\ KeepsWorth(b, c) /\ c.pnl - b.pnl \in Int
            /\ \A j \in Keys \ {k} : c.positions[j] = b.positions[j]
            /\ (lots = b.positions[k].qty => c.positions[k] = Flat)
  <1> DEFINE p == b.positions[k]
             basis == IF lots = p.qty THEN p.cost ELSE lots * EntryPrice(p)
             paid == lots * price
             q == IF lots = p.qty THEN Flat ELSE [p EXCEPT !.qty = @ - lots, !.cost = @ - basis]
             c == Sold(b, k, lots, price)
  <1>1. p \in PaperLeg /\ p.qty \in Nat /\ p.cost \in Int
    BY BookFields, StakeFields
  <1>2. basis \in Int /\ paid \in Int
    <2>1. p.qty > 0
      BY <1>1
    <2>2. EntryPrice(p) \in Int
      <3> HIDE DEF p
      <3> QED BY <1>1, <2>1, EntryPriceIsInt
    <2> HIDE DEF p
    <2> QED BY <1>1, <2>2
  <1>3. q \in PaperLeg /\ q.cost = p.cost - basis /\ (lots = p.qty => q = Flat)
    <2> HIDE DEF basis, p
    <2>1. CASE lots = p.qty
      <3>1. p.cost - basis = 0
        BY <1>1, <2>1 DEF basis
      <3> QED BY <2>1, <3>1, FlatIsLeg
    <2>2. CASE lots # p.qty
      <3>1. p \in Stake /\ p.qty - lots \in Nat /\ p.qty - lots # 0 /\ p.cost - basis \in Int
        BY <1>1, <1>2, <2>2, StakeFields DEF p
      <3>2. q = [p EXCEPT !.qty = p.qty - lots, !.cost = p.cost - basis]
        BY <2>2
      <3> HIDE DEF q
      <3> QED BY <2>2, <3>1, <3>2 DEF PaperLeg, Stake
    <2> QED BY <2>1, <2>2
  <1>4. c = [b EXCEPT !.balance = @ + paid, !.pnl = @ + (paid - basis), !.positions[k] = q]
    BY DEF Sold
  <1> HIDE DEF basis, q, c, paid
  <1>5. b \in Book /\ b.positions \in [Keys -> PaperLeg] /\ b.balance \in Int /\ b.pnl \in Int /\ b.reserved \in Int
    BY BookFields DEF BookOK
  <1>6. /\ c \in Book /\ c.positions = [b.positions EXCEPT ![k] = q] /\ c.pending = b.pending
        /\ c.balance = b.balance + paid /\ c.pnl = b.pnl + (paid - basis) /\ c.reserved = b.reserved
    <2> DEFINE ps == [b.positions EXCEPT ![k] = q]
    <2>1. ps \in [Keys -> PaperLeg]
      BY <1>3, <1>5
    <2>2. c = [b EXCEPT !.balance = b.balance + paid, !.pnl = b.pnl + (paid - basis), !.positions = ps]
      BY <1>4, <1>5 DEF Book
    <2>3. b.balance + paid \in Int /\ b.pnl + (paid - basis) \in Int
      BY <1>2, <1>5
    <2> HIDE DEF ps
    <2>4. /\ c \in Book /\ c.positions = ps /\ c.pending = b.pending
          /\ c.balance = b.balance + paid /\ c.pnl = b.pnl + (paid - basis) /\ c.reserved = b.reserved
      BY <1>5, <2>1, <2>2, <2>3 DEF Book
    <2> QED BY <2>4 DEF ps
  <1>7. k \in Satellites => OrderRests(c, k)
    <2> SUFFICES ASSUME k \in Satellites PROVE OrderRests(c, k)
      OBVIOUS
    <2>1. OrderRests(b, k) /\ p.qty # 0
      BY <1>1, BookFields
    <2> QED BY <1>6, <2>1 DEF OrderRests
  <1>8. c.balance + c.reserved + q.cost - c.pnl = b.balance + b.reserved + p.cost - b.pnl
    BY <1>1, <1>2, <1>3, <1>5, <1>6
  <1>9. BookOK(c) /\ KeepsWorth(b, c)
    <2>1. \A j \in Satellites : c.pending[j] = b.pending[j] \/ j = k
      BY <1>6
    <2> QED BY <1>3, <1>6, <1>7, <1>8, <2>1, MovesKeep
  <1>10. /\ \A j \in Keys \ {k} : c.positions[j] = b.positions[j]
         /\ c.positions[k] = q
    BY <1>5, <1>6
  <1>11. c.pnl - b.pnl \in Int
    BY <1>2, <1>5, <1>6
  <1>12. lots = b.positions[k].qty => c.positions[k] = Flat
    BY <1>3, <1>10
  <1> QED BY <1>9, <1>10, <1>11, <1>12 DEF c

LEMMA CloseIsSound ==
  ASSUME NEW b, BookOK(b), NEW k \in Keys, NEW price \in Int, NEW reason \in Reasons
  PROVE  Sound(b, Close(b, k, price, reason))
  <1>1. CASE ~Held(b, k)
    BY <1>1, StaysSound DEF Close
  <1>2. CASE Held(b, k)
    <2> DEFINE lots == b.positions[k].qty
               c == Sold(b, k, lots, price)
               r == Record("SELL", k, lots, price, c.pnl - b.pnl, c, reason)
    <2>1. lots \in Nat /\ 0 < lots /\ lots <= lots
      BY <1>2, BookFields, StakeFields DEF Held
    <2>2. /\ BookOK(c) /\ KeepsWorth(b, c) /\ c.pnl - b.pnl \in Int
          /\ \A j \in Keys \ {k} : c.positions[j] = b.positions[j]
          /\ c.positions[k] = Flat
      BY <2>1, SoldKeeps
    <2>3. Close(b, k, price, reason) = Step(c, <<r>>, r)
      BY <1>2 DEF Close
    <2> HIDE DEF lots, c
    <2>4. Sound(b, Step(c, <<r>>, r))
      BY <2>1, <2>2, TradeIsSound
    <2> QED BY <2>3, <2>4
  <1> QED BY <1>1, <1>2

LEMMA PartialCloseIsSound ==
  ASSUME NEW b, BookOK(b), NEW k \in Keys, NEW price \in Int
  PROVE  Sound(b, PartialClose(b, k, price))
  <1> DEFINE half == b.positions[k].qty \div 2
             c == Sold(b, k, half, price)
             r == Record("SELL", k, half, price, c.pnl - b.pnl, c, "partial")
  <1>1. half \in Nat /\ half <= b.positions[k].qty
    <2>1. b.positions[k].qty \in Nat
      BY BookFields, StakeFields
    <2> QED BY <2>1
  <1>2. CASE half = 0
    BY <1>2, StaysSound DEF PartialClose
  <1>3. CASE half # 0
    <2>1. 0 < half
      BY <1>1, <1>3
    <2>2. /\ BookOK(c) /\ KeepsWorth(b, c) /\ c.pnl - b.pnl \in Int
          /\ \A j \in Keys \ {k} : c.positions[j] = b.positions[j]
      <3> HIDE DEF half
      <3> QED BY <1>1, <2>1, SoldKeeps
    <2>3. PartialClose(b, k, price) = Step(c, <<r>>, NoRecord)
      BY <1>3 DEF PartialClose
    <2> HIDE DEF half, c
    <2>4. "partial" \in Reasons
      BY DEF Reasons
    <2>5. Sound(b, Step(c, <<r>>, NoRecord))
      BY <1>1, <2>2, <2>4, TradeIsSound
    <2> QED BY <2>3, <2>5
  <1> QED BY <1>2, <1>3

\* A position takes a new stop, high-water mark or flag.
LEMMA StopIsSound ==
  ASSUME NEW b, BookOK(b), NEW k \in Keys, NEW p, Same(b.positions[k], p)
  PROVE  LET c == [b EXCEPT !.positions[k] = p]
         IN BookOK(c) /\ KeepsWorth(b, c) /\ Alike(b, c) /\ Sound(b, Nothing(c)) /\ c.positions[k] = p
  <1> DEFINE c == [b EXCEPT !.positions[k] = p]
             ps == [b.positions EXCEPT ![k] = p]
  <1>1. p \in PaperLeg /\ p.qty = b.positions[k].qty /\ p.cost = b.positions[k].cost
    BY DEF Same
  <1>2. b \in Book /\ b.positions \in [Keys -> PaperLeg] /\ b.balance \in Int /\ b.pnl \in Int /\ b.reserved \in Int
    BY BookFields DEF BookOK
  <1>3. ps \in [Keys -> PaperLeg] /\ ps[k] = p /\ \A j \in Keys \ {k} : ps[j] = b.positions[j]
    BY <1>1, <1>2
  <1>4. c = [b EXCEPT !.positions = ps]
    BY <1>2 DEF Book
  <1>5. b.positions[k].cost \in Int
    BY BookFields, StakeFields
  <1> HIDE DEF c
  <1>6. /\ c \in Book /\ c.positions = ps /\ c.pending = b.pending
        /\ c.balance = b.balance /\ c.pnl = b.pnl /\ c.reserved = b.reserved
    <2> HIDE DEF ps
    <2> QED BY <1>2, <1>3, <1>4 DEF Book
  <1>7. k \in Satellites => OrderRests(c, k)
    <2> HIDE DEF ps
    <2> QED BY <1>1, <1>3, <1>6, BookFields DEF OrderRests
  <1>8. c.balance + c.reserved + p.cost - c.pnl = b.balance + b.reserved + b.positions[k].cost - b.pnl
    BY <1>1, <1>6
  <1>9. BookOK(c) /\ KeepsWorth(b, c)
    <2>1. \A j \in Satellites : c.pending[j] = b.pending[j] \/ j = k
      BY <1>6
    <2> QED BY <1>1, <1>6, <1>7, <1>8, <2>1, MovesKeep
  <1>10. Alike(b, c) /\ c.positions[k] = p
    <2> HIDE DEF ps
    <2> QED BY <1>1, <1>3, <1>6 DEF Alike
  <1>11. Sound(b, Nothing(c))
    BY <1>9, <1>10, NothingIsSound
  <1> QED BY <1>9, <1>10, <1>11 DEF c

\* What a size buys is lots when it is above the floor.
LEMMA LotsAboveTheFloor ==
  ASSUME NEW lots \in Int, NEW price \in Prices, ~(lots * price < Floor)
  PROVE  lots \in Nat /\ 0 < lots /\ price \in Int /\ lots * price \in Int
  <1>1. price \in Nat /\ price > 0 /\ Floor \in Nat /\ Floor > 0
    BY PaperAssumption
  <1>2. ASSUME lots <= 0 PROVE lots * price <= 0
    BY <1>1, <1>2
  <1>3. lots * price \in Int /\ lots * price > 0
    BY <1>1
  <1> QED BY <1>1, <1>2, <1>3

\* c is b after a position was paid for.
PaysFor(b, c, k, p, paid) ==
  c = [b EXCEPT !.balance = b.balance - paid, !.positions = [b.positions EXCEPT ![k] = p]]

\* A position is opened, or replaced, for what it costs more.
LEMMA BoughtKeeps ==
  ASSUME NEW b, BookOK(b), NEW c, NEW k \in Keys, NEW p \in PaperLeg, NEW paid \in Int,
         PaysFor(b, c, k, p, paid), p.cost = b.positions[k].cost + paid,
         k \in Satellites => b.pending[k].reserve = 0
  PROVE  /\ BookOK(c) /\ KeepsWorth(b, c)
         /\ \A j \in Keys \ {k} : c.positions[j] = b.positions[j]
  <1> DEFINE ps == [b.positions EXCEPT ![k] = p]
  <1>1. b \in Book /\ b.positions \in [Keys -> PaperLeg] /\ b.balance \in Int /\ b.pnl \in Int /\ b.reserved \in Int
    BY BookFields DEF BookOK
  <1>2. ps \in [Keys -> PaperLeg] /\ ps[k] = p /\ \A j \in Keys \ {k} : ps[j] = b.positions[j]
    BY <1>1
  <1>3. b.balance - paid \in Int /\ b.positions[k].cost \in Int /\ p.cost \in Int
    BY <1>1, BookFields, StakeFields
  <1>4. c = [b EXCEPT !.balance = b.balance - paid, !.positions = ps]
    BY DEF PaysFor
  <1>5. /\ c \in Book /\ c.positions = ps /\ c.pending = b.pending
        /\ c.balance = b.balance - paid /\ c.pnl = b.pnl /\ c.reserved = b.reserved
    <2> HIDE DEF ps
    <2> QED BY <1>1, <1>2, <1>3, <1>4 DEF Book
  <1>6. k \in Satellites => OrderRests(c, k)
    <2> HIDE DEF ps
    <2> QED BY <1>5 DEF OrderRests
  <1>7. c.balance + c.reserved + p.cost - c.pnl = b.balance + b.reserved + b.positions[k].cost - b.pnl
    BY <1>1, <1>3, <1>5
  <1>8. BookOK(c) /\ KeepsWorth(b, c)
    <2>1. \A j \in Satellites : c.pending[j] = b.pending[j] \/ j = k
      BY <1>5
    <2> QED BY <1>5, <1>6, <1>7, <2>1, MovesKeep
  <1>9. \A j \in Keys \ {k} : c.positions[j] = b.positions[j]
    <2> HIDE DEF ps
    <2> QED BY <1>2, <1>5
  <1> QED BY <1>8, <1>9

\* A position is opened under a key that holds nothing.
LEMMA BuyIsSound ==
  ASSUME NEW b, BookOK(b), NEW k \in Keys, NEW p \in PaperLeg, NEW lots \in Nat, NEW price \in Int,
         NEW reason \in Reasons, b.positions[k].qty = 0,
         k \in Satellites => b.pending[k].reserve = 0
  PROVE  LET c == Bought(b, k, p)
             r == Record("BUY", k, lots, price, 0, c, reason)
         IN /\ BookOK(c) /\ KeepsWorth(b, c)
            /\ Sound(b, Step(c, <<r>>, r)) /\ Sound(b, Step(c, <<r>>, NoRecord))
  <1> DEFINE c == Bought(b, k, p)
             r == Record("BUY", k, lots, price, 0, c, reason)
  <1>1. PaysFor(b, c, k, p, p.cost)
    <2>1. b \in Book /\ b.positions \in [Keys -> PaperLeg]
      BY BookFields DEF BookOK
    <2> QED BY <2>1 DEF Bought, Book, PaysFor
  <1>2. p.cost \in Int /\ p.cost = b.positions[k].cost + p.cost
    <2>1. b.positions[k].cost = 0 /\ p.cost \in Int
      BY BookFields, StakeFields
    <2> QED BY <2>1
  <1> HIDE DEF c
  <1>3. /\ BookOK(c) /\ KeepsWorth(b, c)
        /\ \A j \in Keys \ {k} : c.positions[j] = b.positions[j]
    BY <1>1, <1>2, BoughtKeeps
  <1>4. Sound(b, Step(c, <<r>>, r)) /\ Sound(b, Step(c, <<r>>, NoRecord))
    BY <1>3, TradeIsSound
  <1> QED BY <1>3, <1>4 DEF c

LEMMA Sizes ==
  /\ InitialBalance \in Int /\ MaxPositionPct \in Int /\ Floor \in Int /\ Floor > 0
  /\ \A p \in Prices : p \in Int /\ p > 0
  /\ \A a \in Allocations : a \in Int
  /\ \A a \in Atrs : a \in Int
  BY PaperAssumption

LEMMA OpenIsSound ==
  ASSUME NEW b, BookOK(b), NEW k \in Keys, k \notin Satellites, NEW price \in Prices, NEW atr \in Atrs
  PROVE  Sound(b, Open(b, k, price, atr))
  <1> DEFINE budget == Part(b.balance, MaxPositionPct)
             lots == budget \div price
             stop == FirstStop(price, atr)
             target == FirstTarget(price, atr)
             cost == lots * price
             p == [Flat EXCEPT !.qty = lots, !.cost = cost, !.high = price,
                               !.stop = stop, !.initial = stop, !.target = target]
             c == Bought(b, k, p)
             r == Record("BUY", k, lots, price, 0, c, "entry")
  <1>1. price \in Int /\ price > 0 /\ atr \in Int /\ budget \in Int
    BY Sizes, BookFields, PartIsInt
  <1>2. lots \in Int /\ stop \in Int /\ target \in Int
    <2>1. stop \in Int /\ target \in Int
      BY <1>1, StopsAreInt
    <2> HIDE DEF budget
    <2> QED BY <1>1, <2>1
  <1>3. Open(b, k, price, atr) = IF Held(b, k) \/ cost < Floor THEN Nothing(b) ELSE Step(c, <<r>>, r)
    BY DEF Open
  <1> HIDE DEF budget, lots, stop, target, c
  <1>4. CASE Held(b, k) \/ cost < Floor
    BY <1>3, <1>4, StaysSound
  <1>5. CASE ~Held(b, k) /\ ~(cost < Floor)
    <2>1. lots \in Nat /\ 0 < lots /\ cost \in Int
      BY <1>2, <1>5, LotsAboveTheFloor
    <2> HIDE DEF cost
    <2>2. p \in PaperLeg
      <3>1. lots = 0 => cost = 0
        BY <2>1
      <3>2. price \in Int /\ stop \in Int /\ target \in Int /\ lots \in Nat /\ cost \in Int
        BY <1>1, <1>2, <2>1
      <3> QED BY <3>1, <3>2, OpenedLegs, Zenon
    <2>3. b.positions[k].qty = 0
      BY <1>5, BookFields, StakeFields DEF Held
    <2>4. "entry" \in Reasons
      BY DEF Reasons
    <2> HIDE DEF p
    <2>5. Sound(b, Step(c, <<r>>, r))
      BY <1>1, <2>1, <2>2, <2>3, <2>4, BuyIsSound DEF c
    <2> QED BY <1>3, <1>5, <2>5
  <1> QED BY <1>4, <1>5

LEMMA OpenCoreIsSound ==
  ASSUME NEW b, BookOK(b), NEW k \in Keys, k \notin Satellites, NEW price \in Prices, NEW a \in Allocations
  PROVE  Sound(b, OpenCore(b, k, price, a))
  <1> DEFINE budget == Min({a, b.balance})
             lots == budget \div price
             cost == lots * price
             p == [Flat EXCEPT !.qty = lots, !.cost = cost, !.high = price]
             c == Bought(b, k, p)
             r == Record("BUY", k, lots, price, 0, c, "core")
  <1>1. price \in Int /\ price > 0 /\ budget \in Int
    BY Sizes, BookFields, ExtremesOfTwo
  <1>2. lots \in Int
    <2> HIDE DEF budget
    <2> QED BY <1>1
  <1>3. OpenCore(b, k, price, a) = IF Held(b, k) \/ cost < Floor THEN Nothing(b) ELSE Step(c, <<r>>, r)
    BY DEF OpenCore
  <1> HIDE DEF budget, lots, c
  <1>4. CASE Held(b, k) \/ cost < Floor
    BY <1>3, <1>4, StaysSound
  <1>5. CASE ~Held(b, k) /\ ~(cost < Floor)
    <2>1. lots \in Nat /\ 0 < lots /\ cost \in Int
      BY <1>2, <1>5, LotsAboveTheFloor
    <2> HIDE DEF cost
    <2>2. p \in PaperLeg
      <3>1. lots = 0 => cost = 0
        BY <2>1
      <3> QED BY <1>1, <1>2, <2>1, <3>1, NewLegs, Zenon
    <2>3. b.positions[k].qty = 0
      BY <1>5, BookFields, StakeFields DEF Held
    <2>4. "core" \in Reasons
      BY DEF Reasons
    <2> HIDE DEF p
    <2>5. Sound(b, Step(c, <<r>>, r))
      BY <1>1, <2>1, <2>2, <2>3, <2>4, BuyIsSound DEF c
    <2> QED BY <1>3, <1>5, <2>5
  <1> QED BY <1>4, <1>5

LEMMA GrowCoreIsSound ==
  ASSUME NEW b, BookOK(b), NEW k \in Keys, k \notin Satellites, NEW price \in Prices, NEW a \in Allocations
  PROVE  Sound(b, GrowCore(b, k, price, a))
  <1> DEFINE budget == Min({a, b.balance})
             lots == budget \div price
             paid == lots * price
             o == b.positions[k]
             p == [o EXCEPT !.qty = o.qty + lots, !.cost = o.cost + paid]
             c == [b EXCEPT !.balance = @ - paid, !.positions[k].qty = @ + lots, !.positions[k].cost = @ + paid]
             r == Record("BUY", k, lots, price, 0, c, "resize")
  <1>1. price \in Int /\ price > 0 /\ budget \in Int
    BY Sizes, BookFields, ExtremesOfTwo
  <1>2. lots \in Int
    <2> HIDE DEF budget
    <2> QED BY <1>1
  <1>3. GrowCore(b, k, price, a) = IF ~Held(b, k) \/ paid < Floor THEN Nothing(b) ELSE Step(c, <<r>>, r)
    BY DEF GrowCore
  <1>0. PaysFor(b, c, k, p, paid)
    <2>1. b \in Book /\ b.positions \in [Keys -> PaperLeg] /\ o \in Stake
      BY BookFields, StakeFields DEF BookOK
    <2> HIDE DEF lots, paid
    <2> QED BY <2>1 DEF Book, Stake, PaysFor
  <1> HIDE DEF budget, lots, c
  <1>4. CASE ~Held(b, k) \/ paid < Floor
    BY <1>3, <1>4, StaysSound
  <1>5. CASE Held(b, k) /\ ~(paid < Floor)
    <2>1. lots \in Nat /\ 0 < lots /\ paid \in Int
      BY <1>2, <1>5, LotsAboveTheFloor
    <2> HIDE DEF paid
    <2>2. o \in Stake /\ o.qty \in Nat /\ o.cost \in Int
      BY BookFields, StakeFields
    <2>3. p \in PaperLeg /\ p.cost = o.cost + paid
      <3>1. o \in PaperLeg
        BY BookFields
      <3> HIDE DEF o
      <3> QED BY <2>1, <3>1, LegGrows
    <2> HIDE DEF p
    <2>4. /\ BookOK(c) /\ KeepsWorth(b, c)
          /\ \A j \in Keys \ {k} : c.positions[j] = b.positions[j]
      <3>1. p.cost = b.positions[k].cost + paid
        BY <2>3
      <3> QED BY <1>0, <2>1, <2>3, <3>1, BoughtKeeps
    <2>5. Sound(b, Step(c, <<r>>, r))
      BY <1>1, <2>1, <2>4, TradeIsSound
    <2> QED BY <1>3, <1>5, <2>5
  <1> QED BY <1>4, <1>5

LEMMA TrimCoreIsSound ==
  ASSUME NEW b, BookOK(b), NEW k \in Keys, NEW price \in Prices, NEW a \in Allocations
  PROVE  Sound(b, TrimCore(b, k, price, a))
  <1> DEFINE part == a \div price
             qty == b.positions[k].qty
             lots == Min({part, qty})
             c == Sold(b, k, lots, price)
             r == Record("SELL", k, lots, price, c.pnl - b.pnl, c, "resize")
  <1>1. price \in Int /\ price > 0 /\ part \in Int /\ qty \in Nat
    <2>1. price \in Int /\ price > 0 /\ a \in Int /\ qty \in Nat
      BY Sizes, BookFields, StakeFields
    <2> QED BY <2>1
  <1>2. lots \in Int /\ lots <= qty
    <2>1. part \in Int /\ qty \in Int
      BY <1>1
    <2> HIDE DEF part, qty
    <2>2. Min({part, qty}) \in Int /\ Min({part, qty}) <= qty
      BY <2>1, ExtremesOfTwo
    <2> QED BY <2>2
  <1>3. TrimCore(b, k, price, a) = IF ~Held(b, k) \/ lots * price < Floor THEN Nothing(b)
                                   ELSE IF lots = qty THEN CloseCore(b, k, price) ELSE Step(c, <<r>>, r)
    BY DEF TrimCore
  <1> HIDE DEF lots
  <1>4. CASE ~Held(b, k) \/ lots * price < Floor
    BY <1>3, <1>4, StaysSound
  <1>5. CASE Held(b, k) /\ ~(lots * price < Floor) /\ lots = qty
    <2>1. "core" \in Reasons
      BY DEF Reasons
    <2>2. Sound(b, CloseCore(b, k, price))
      BY <1>1, <2>1, CloseIsSound DEF CloseCore
    <2> QED BY <1>3, <1>5, <2>2
  <1>6. CASE Held(b, k) /\ ~(lots * price < Floor) /\ lots # qty
    <2>1. lots \in Nat /\ 0 < lots
      BY <1>2, <1>6, LotsAboveTheFloor
    <2>2. /\ BookOK(c) /\ KeepsWorth(b, c) /\ c.pnl - b.pnl \in Int
          /\ \A j \in Keys \ {k} : c.positions[j] = b.positions[j]
      BY <1>1, <1>2, <2>1, SoldKeeps
    <2> HIDE DEF c
    <2>3. Sound(b, Step(c, <<r>>, r))
      BY <1>1, <2>1, <2>2, TradeIsSound
    <2> QED BY <1>3, <1>6, <2>3
  <1> QED BY <1>4, <1>5, <1>6

-----------------------------------------------------------------------------
(* The stops, and the satellites' orders. *)

\* The stops, the first stage and the exit.
LEMMA RiskIsSound ==
  ASSUME NEW b, BookOK(b), NEW k \in Keys, NEW price \in Int
  PROVE  Sound(b, CheckRisk(b, k, price))
  <1>1. CASE ~Held(b, k) \/ k \notin Scalpers
    BY <1>1, StaysSound, Zenon DEF CheckRisk
  <1>2. CASE Held(b, k) /\ k \in Scalpers
    <2> DEFINE o == b.positions[k]
               entry == EntryPrice(o)
               u == Trailed(o, entry, price)
               p == BreakEvened(u, entry, price)
               moved == [b EXCEPT !.positions[k] = p]
               stage == PartialDue(p, entry, price)
               first == IF stage THEN PartialClose(moved, k, price) ELSE Nothing(moved)
               q == Remainder(first.book.positions[k], entry)
               left == IF stage THEN [first.book EXCEPT !.positions[k] = q] ELSE first.book
               why == ExitReason(left.positions[k], price)
               exit == IF why = "none" THEN Nothing(left) ELSE Close(left, k, price, why)
    <2>1. o \in PaperLeg /\ entry \in Int
      <3>1. o \in PaperLeg /\ o.qty > 0
        BY <1>2, BookFields DEF Held
      <3> HIDE DEF o
      <3> QED BY <3>1, EntryPriceIsInt
    <2>2. Same(o, p)
      <3> HIDE DEF o, entry
      <3>1. Same(o, u)
        BY <2>1, TrailedIsSame
      <3> HIDE DEF u
      <3>2. Same(u, p)
        BY <2>1, <3>1, BreakEvenedIsSame DEF Same
      <3> QED BY <3>1, <3>2 DEF Same
    <2>3. CheckRisk(b, k, price) = Step(exit.book, first.rows \o exit.rows, exit.record)
      <3>1. [first.book EXCEPT !.positions[k] = Remainder(@, entry)] = [first.book EXCEPT !.positions[k] = q]
        OBVIOUS
      <3>2. left = IF stage THEN [first.book EXCEPT !.positions[k] = Remainder(@, entry)] ELSE first.book
        BY <3>1
      <3> QED BY <1>2, <3>2, Zenon DEF CheckRisk
    <2> HIDE DEF entry, p
    <2>4. BookOK(moved) /\ Sound(b, Nothing(moved))
      BY <2>2, StopIsSound
    <2> HIDE DEF moved
    <2>5. Sound(moved, first)
      BY <2>4, PartialCloseIsSound, StaysSound
    <2> HIDE DEF first, stage
    <2>6. BookOK(first.book)
      BY <2>5 DEF Sound
    <2>7. BookOK(left) /\ Sound(first.book, Nothing(left))
      <3>1. Same(first.book.positions[k], q)
        <4>1. first.book.positions[k] \in PaperLeg
          BY <2>6, BookFields
        <4> QED BY <2>1, <4>1, RemainderIsSame
      <3> HIDE DEF q
      <3>2. CASE stage
        <4> DEFINE c == [first.book EXCEPT !.positions[k] = q]
        <4>1. BookOK(c) /\ Sound(first.book, Nothing(c))
          BY <2>6, <3>1, StopIsSound
        <4> HIDE DEF c
        <4>2. left = c
          BY <3>2 DEF c
        <4> QED BY <4>1, <4>2
      <3>3. CASE ~stage
        <4>1. left = first.book
          BY <3>3
        <4> HIDE DEF left
        <4> QED BY <2>6, <4>1, StaysSound
      <3> QED BY <3>2, <3>3
    <2> HIDE DEF left
    <2>8. Sound(left, exit)
      <3>1. why \in Reasons
        <4>1. left.positions[k] \in PaperLeg
          BY <2>7, BookFields
        <4> QED BY <4>1, ExitReasonIsReason
      <3> HIDE DEF why
      <3> QED BY <2>7, <3>1, CloseIsSound, StaysSound
    <2> HIDE DEF exit
    <2>9. Sound(b, first)
      <3> DEFINE s == Nothing(moved)
      <3>1. s.book = moved /\ s.rows = <<>>
        BY DEF Nothing, Step
      <3>2. Sound(b, s)
        BY <2>4
      <3> HIDE DEF s
      <3> QED BY <2>5, <3>1, <3>2, NoRowsFirst
    <2>10. Sound(b, Step(left, first.rows, NoRecord))
      <3> DEFINE s == Nothing(left)
      <3>1. s.book = left /\ s.rows = <<>> /\ s.record = NoRecord
        BY DEF Nothing, Step
      <3>2. Sound(first.book, s)
        BY <2>7
      <3> HIDE DEF s
      <3>3. Sound(b, Step(s.book, first.rows \o s.rows, s.record))
        BY <2>9, <3>2, SoundAfterSound
      <3>4. first.rows \o s.rows = first.rows
        <4>1. first.rows \in Seq(PaperTrade)
          BY <2>9 DEF Sound
        <4> QED BY <3>1, <4>1
      <3> QED BY <3>1, <3>3, <3>4
    <2>11. Sound(b, Step(exit.book, first.rows \o exit.rows, exit.record))
      <3> DEFINE s == Step(left, first.rows, NoRecord)
      <3>1. s.book = left /\ s.rows = first.rows
        BY DEF Step
      <3>2. Sound(b, s)
        BY <2>10
      <3> HIDE DEF s
      <3>3. Sound(s.book, exit)
        BY <2>8, <3>1
      <3> QED BY <3>1, <3>2, <3>3, SoundAfterSound
    <2> QED BY <2>3, <2>11
  <1> QED BY <1>1, <1>2

\* The stops, and a decision when none fired.
LEMMA ExecuteIsSound ==
  ASSUME NEW b, BookOK(b), NEW k \in Scalpers, NEW price \in Prices, NEW atr \in Atrs, NEW decision
  PROVE  Sound(b, Execute(b, k, decision, price, atr))
  <1> DEFINE risk == CheckRisk(b, k, price)
             then == IF decision = "BUY" THEN Open(risk.book, k, price, atr)
                     ELSE IF decision = "SELL" THEN Close(risk.book, k, price, "strategy_sell")
                     ELSE Nothing(risk.book)
  <1>1. k \in Keys /\ k \notin Satellites /\ price \in Int /\ "strategy_sell" \in Reasons
    BY PaperAssumption DEF Keys, Reasons
  <1>2. Execute(b, k, decision, price, atr) = IF risk.record # NoRecord THEN risk
          ELSE Step(then.book, risk.rows \o then.rows, then.record)
    BY DEF Execute
  <1>3. Sound(b, risk)
    BY <1>1, RiskIsSound
  <1> HIDE DEF risk
  <1>4. BookOK(risk.book)
    BY <1>3 DEF Sound
  <1>5. Sound(risk.book, then)
    BY <1>1, <1>4, OpenIsSound, CloseIsSound, StaysSound
  <1> HIDE DEF then
  <1>6. Sound(b, Step(then.book, risk.rows \o then.rows, then.record))
    BY <1>3, <1>5, SoundAfterSound
  <1> QED BY <1>2, <1>3, <1>6

\* c is b with other cash and other resting orders.
OrdersMoved(b, c, x, y, orders) == c = [b EXCEPT !.balance = x, !.reserved = y, !.pending = orders]

LEMMA OrdersMove ==
  ASSUME NEW b \in Book, NEW c, NEW x \in Int, NEW y \in Int, NEW orders \in [Satellites -> Order],
         OrdersMoved(b, c, x, y, orders)
  PROVE  /\ c \in Book /\ c.positions = b.positions /\ c.pending = orders
         /\ c.balance = x /\ c.pnl = b.pnl /\ c.reserved = y
  BY DEF Book, OrdersMoved

\* A cancelled order gives it back.
LEMMA CancelIsSound ==
  ASSUME NEW b, BookOK(b), NEW k \in Satellites
  PROVE  LET c == CancelSatelliteOrder(b, k)
         IN /\ BookOK(c) /\ KeepsWorth(b, c) /\ Sound(b, Nothing(c))
            /\ c.positions = b.positions /\ c.pending[k].reserve = 0
  <1> DEFINE x == b.pending[k].reserve
             orders == [b.pending EXCEPT ![k] = NoOrder]
             c == CancelSatelliteOrder(b, k)
             p == b.positions[k]
  <1>1. /\ b \in Book /\ b.positions \in [Keys -> PaperLeg] /\ b.pending \in [Satellites -> Order]
        /\ b.balance \in Int /\ b.pnl \in Int /\ b.reserved \in Int /\ x \in Int /\ k \in Keys
    <2>1. x \in Nat
      BY BookFields
    <2>2. x \in Int
      BY <2>1
    <2> HIDE DEF x
    <2> QED BY <2>2, BookFields DEF BookOK, Keys
  <1>2. /\ orders \in [Satellites -> Order] /\ orders[k].reserve = 0
        /\ \A j \in Satellites : orders[j] = b.pending[j] \/ j = k
    <2>1. NoOrder \in Order /\ NoOrder.reserve = 0
      BY DEF NoOrder, Order
    <2> HIDE DEF x
    <2> QED BY <1>1, <2>1
  <1>3. c = [b EXCEPT !.balance = b.balance + x, !.reserved = b.reserved - x, !.pending = orders]
    BY <1>1 DEF CancelSatelliteOrder, Book
  <1> HIDE DEF x, orders, c
  <1>4. /\ c \in Book /\ c.positions = b.positions /\ c.pending = orders
        /\ c.balance = b.balance + x /\ c.pnl = b.pnl /\ c.reserved = b.reserved - x
    <2> DEFINE u == b.balance + x
               v == b.reserved - x
    <2>1. u \in Int /\ v \in Int /\ b \in Book
      BY <1>1
    <2>2. OrdersMoved(b, c, u, v, orders)
      BY <1>3 DEF OrdersMoved
    <2> HIDE DEF u, v
    <2>3. /\ c \in Book /\ c.positions = b.positions /\ c.pending = orders
          /\ c.balance = u /\ c.pnl = b.pnl /\ c.reserved = v
      BY <1>2, <2>1, <2>2, OrdersMove
    <2> QED BY <2>3 DEF u, v
  <1>5. OrderRests(c, k)
    BY <1>2, <1>4 DEF OrderRests
  <1>6. p \in PaperLeg /\ c.positions = [b.positions EXCEPT ![k] = p] /\ p.cost \in Int
    <2>1. p \in PaperLeg /\ p.cost \in Int
      BY <1>1, BookFields, StakeFields
    <2> QED BY <1>1, <1>4, <2>1
  <1>7. c.balance + c.reserved + p.cost - c.pnl = b.balance + b.reserved + p.cost - b.pnl
    BY <1>1, <1>4, <1>6
  <1>8. BookOK(c) /\ KeepsWorth(b, c)
    <2>1. \A j \in Satellites : c.pending[j] = b.pending[j] \/ j = k
      BY <1>2, <1>4
    <2> QED BY <1>1, <1>4, <1>5, <1>6, <1>7, <2>1, MovesKeep
  <1>9. Sound(b, Nothing(c))
    <2>1. Alike(b, c)
      BY <1>4 DEF Alike
    <2> QED BY <1>8, <2>1, NothingIsSound
  <1> QED BY <1>2, <1>4, <1>8, <1>9 DEF c

\* An order takes its reserve from the cash.
LEMMA PlaceIsSound ==
  ASSUME NEW b, BookOK(b), NEW k \in Satellites, NEW sig \in Signals
  PROVE  Sound(b, PlaceSatelliteOrder(b, k, sig.limit, sig.stop, sig.size))
  <1> DEFINE x == Min({sig.size, b.balance})
             o == [reserve |-> x, limit |-> sig.limit, stop |-> sig.stop]
             orders == [b.pending EXCEPT ![k] = o]
             c == [b EXCEPT !.balance = b.balance - x, !.reserved = b.reserved + x, !.pending = orders]
             p == b.positions[k]
  <1>1. /\ b \in Book /\ b.positions \in [Keys -> PaperLeg] /\ b.pending \in [Satellites -> Order]
        /\ b.balance \in Int /\ b.pnl \in Int /\ b.reserved \in Int /\ k \in Keys
    BY BookFields DEF BookOK, Keys
  <1>2. sig.limit \in Int /\ sig.limit > 0 /\ sig.stop \in Int /\ sig.size \in Int /\ Floor \in Int /\ Floor > 0
    <2>1. sig.stop \in 1 .. sig.limit - 1 /\ sig.limit \in 1 .. Floor /\ sig.size \in Nat
      BY PaperAssumption
    <2> QED BY <2>1, Sizes
  <1>3. x \in Int
    BY <1>1, <1>2, ExtremesOfTwo
  <1>4. PlaceSatelliteOrder(b, k, sig.limit, sig.stop, sig.size)
          = IF Held(b, k) \/ Waiting(b, k) \/ x < Floor THEN Nothing(b) ELSE Nothing(c)
    <2>1. [b EXCEPT !.balance = @ - x, !.reserved = @ + x, !.pending[k] = o] = c
      <3> HIDE DEF x, o
      <3> QED BY <1>1 DEF Book
    <2> QED BY <2>1 DEF PlaceSatelliteOrder, Nothing
  <1>5. CASE Held(b, k) \/ Waiting(b, k) \/ x < Floor
    <2> HIDE DEF x, c
    <2> QED BY <1>4, <1>5, StaysSound
  <1>6. CASE ~(Held(b, k) \/ Waiting(b, k) \/ x < Floor)
    <2> HIDE DEF x
    <2>1. x \in Nat /\ p.qty = 0
      <3>1. x >= Floor
        BY <1>2, <1>3, <1>6
      <3>2. p.qty \in Nat /\ ~(p.qty > 0)
        BY <1>1, <1>6, BookFields, StakeFields DEF Held
      <3> QED BY <1>2, <1>3, <3>1, <3>2
    <2>2. o \in Order /\ o.limit > 0
      BY <1>2, <2>1 DEF Order
    <2> HIDE DEF o
    <2>3. orders \in [Satellites -> Order] /\ orders[k] = o /\ \A j \in Satellites : orders[j] = b.pending[j] \/ j = k
      BY <1>1, <2>2
    <2> HIDE DEF orders
    <2>4. /\ c \in Book /\ c.positions = b.positions /\ c.pending = orders
          /\ c.balance = b.balance - x /\ c.pnl = b.pnl /\ c.reserved = b.reserved + x
      <3> DEFINE u == b.balance - x
                 v == b.reserved + x
      <3>1. u \in Int /\ v \in Int /\ b \in Book
        BY <1>1, <1>3
      <3>2. OrdersMoved(b, c, u, v, orders)
        BY DEF OrdersMoved
      <3> HIDE DEF u, v, c
      <3>3. /\ c \in Book /\ c.positions = b.positions /\ c.pending = orders
            /\ c.balance = u /\ c.pnl = b.pnl /\ c.reserved = v
        BY <2>3, <3>1, <3>2, OrdersMove
      <3> QED BY <3>3 DEF u, v
    <2> HIDE DEF c
    <2>5. OrderRests(c, k)
      BY <2>1, <2>2, <2>3, <2>4 DEF OrderRests
    <2>6. p \in PaperLeg /\ c.positions = [b.positions EXCEPT ![k] = p] /\ p.cost \in Int
      <3>1. p \in PaperLeg /\ p.cost \in Int
        BY <1>1, BookFields, StakeFields
      <3> QED BY <1>1, <2>4, <3>1
    <2>7. c.balance + c.reserved + p.cost - c.pnl = b.balance + b.reserved + p.cost - b.pnl
      BY <1>1, <1>3, <2>4, <2>6
    <2>8. BookOK(c) /\ KeepsWorth(b, c)
      <3>1. \A j \in Satellites : c.pending[j] = b.pending[j] \/ j = k
        BY <2>3, <2>4
      <3> QED BY <1>1, <2>4, <2>5, <2>6, <2>7, <3>1, MovesKeep
    <2>9. Alike(b, c)
      BY <2>4 DEF Alike
    <2>10. Sound(b, Nothing(c))
      BY <2>8, <2>9, NothingIsSound
    <2> QED BY <1>4, <1>6, <2>10
  <1> QED BY <1>5, <1>6

\* A fill, and the exit of the same tick.
LEMMA FillIsSound ==
  ASSUME NEW b, BookOK(b), NEW k \in Satellites, NEW price \in Int, Waiting(b, k)
  PROVE  Sound(b, FillSatellite(b, k, price))
  <1> DEFINE o == b.pending[k]
             lots == o.reserve \div o.limit
             a == CancelSatelliteOrder(b, k)
             p == Filled(o, lots)
             c == Bought(a, k, p)
             limit == o.limit
             r == Record("BUY", k, lots, limit, 0, c, "satellite")
             s == Step(c, <<r>>, NoRecord)
             exit == Close(c, k, price, "sat_stop")
  <1>1. /\ k \in Keys /\ o.reserve \in Nat /\ o.limit \in Int /\ o.stop \in Int /\ o.limit > 0
        /\ b.positions[k].qty = 0
    BY BookFields DEF Waiting, OrderRests, Keys
  <1>2. lots \in Nat
    BY <1>1
  <1>3. p \in PaperLeg
    <2> DEFINE target == IF TargetR = 0 THEN NoTarget ELSE limit + TargetR * (limit - o.stop)
               cost == lots * limit
    <2>1. target \in Int /\ cost \in Int /\ (lots = 0 => cost = 0)
      <3> HIDE DEF lots
      <3> QED BY <1>1, <1>2, Percents
    <2>2. p = [Flat EXCEPT !.qty = lots, !.cost = cost, !.stop = o.stop, !.initial = o.stop,
                           !.high = limit, !.target = target]
      BY DEF Filled, SatellitePlan
    <2>3. o.stop \in Int /\ limit \in Int /\ lots \in Nat
      BY <1>1, <1>2
    <2> DEFINE stop == o.stop
    <2> HIDE DEF p, lots, cost, target, limit, stop
    <2>4. stop \in Int /\ p = [Flat EXCEPT !.qty = lots, !.cost = cost, !.stop = stop, !.initial = stop,
                                        !.high = limit, !.target = target]
      BY <2>2, <2>3 DEF stop
    <2> QED BY <2>1, <2>3, <2>4, FilledLegs, Zenon
  <1>4. FillSatellite(b, k, price) = IF price <= o.stop THEN Step(exit.book, <<r>> \o exit.rows, exit.record)
                                     ELSE Step(c, <<r>>, r)
    BY DEF FillSatellite
  <1>5. limit \in Int /\ "satellite" \in Reasons /\ "sat_stop" \in Reasons
    BY <1>1 DEF Reasons
  <1> HIDE DEF lots, p, limit
  <1>6. /\ BookOK(a) /\ Sound(b, Nothing(a)) /\ a.positions[k].qty = 0 /\ a.pending[k].reserve = 0
    <2> DEFINE x == a
    <2>1. /\ BookOK(x) /\ Sound(b, Nothing(x)) /\ x.positions = b.positions /\ x.pending[k].reserve = 0
      BY CancelIsSound
    <2> HIDE DEF x
    <2>2. x.positions[k].qty = 0
      BY <1>1, <2>1
    <2> QED BY <2>1, <2>2 DEF x
  <1> HIDE DEF a
  <1>7. BookOK(c) /\ Sound(a, Step(c, <<r>>, r)) /\ Sound(a, s)
    BY <1>1, <1>2, <1>3, <1>5, <1>6, BuyIsSound
  <1> HIDE DEF c
  <1>8. Sound(b, Step(c, <<r>>, r)) /\ Sound(b, s)
    <2> DEFINE z == Nothing(a)
    <2>1. z.book = a /\ z.rows = <<>>
      BY DEF Nothing, Step
    <2>2. Sound(b, z)
      BY <1>6
    <2> HIDE DEF z
    <2> QED BY <1>7, <2>1, <2>2, NoRowsFirst
  <1>9. s.book = c /\ s.rows = <<r>>
    BY DEF Step
  <1>10. Sound(s.book, exit)
    BY <1>1, <1>5, <1>7, <1>9, CloseIsSound
  <1> HIDE DEF s, exit
  <1>11. Sound(b, Step(exit.book, <<r>> \o exit.rows, exit.record))
    <2>1. Sound(b, Step(exit.book, s.rows \o exit.rows, exit.record))
      BY <1>8, <1>10, SoundAfterSound
    <2> QED BY <1>9, <2>1
  <1> QED BY <1>4, <1>8, <1>11

\* An order that expires, waits or fills, or a position on its plan.
LEMMA TickIsSound ==
  ASSUME NEW b, BookOK(b), NEW k \in Satellites, NEW price \in Int, NEW event
  PROVE  Sound(b, SatelliteTick(b, k, price, event))
  <1>1. CASE Waiting(b, k)
    <2>1. SatelliteTick(b, k, price, event)
            = IF event = "late" THEN Nothing(CancelSatelliteOrder(b, k))
              ELSE IF price > b.pending[k].limit THEN Nothing(b) ELSE FillSatellite(b, k, price)
      BY <1>1 DEF SatelliteTick
    <2>2. Sound(b, Nothing(CancelSatelliteOrder(b, k)))
      BY CancelIsSound
    <2>3. Sound(b, Nothing(b)) /\ Sound(b, FillSatellite(b, k, price))
      BY <1>1, StaysSound, FillIsSound
    <2> QED BY <2>1, <2>2, <2>3
  <1>2. CASE ~Waiting(b, k) /\ ~Held(b, k)
    BY <1>2, StaysSound DEF SatelliteTick
  <1>3. CASE ~Waiting(b, k) /\ Held(b, k)
    <2> DEFINE p == b.positions[k]
               entry == EntryPrice(p)
               late == event = "late"
               weak == event = "weak"
               o == [open |-> price, low |-> price, high |-> price, close |-> price, late |-> late, weak |-> weak]
               exit == SatelliteExit(p, entry, o)
               q == SatelliteKept(p, entry, o)
               c == [b EXCEPT !.positions[k] = q]
    <2>1. k \in Keys /\ p \in PaperLeg /\ entry \in Int
      <3>1. k \in Keys
        BY DEF Keys
      <3>2. p \in PaperLeg /\ p.qty > 0
        BY <1>3, <3>1, BookFields DEF Held
      <3> HIDE DEF p
      <3> QED BY <3>1, <3>2, EntryPriceIsInt
    <2>2. SatelliteTick(b, k, price, event)
            = IF exit.reason = "none" THEN Nothing(c) ELSE Close(b, k, exit.price, exit.reason)
      BY <1>3 DEF SatelliteTick
    <2> HIDE DEF p, entry, late, weak
    <2>3. exit.price \in Int /\ exit.reason \in Reasons
      BY <2>1, SatelliteExitIsPriced
    <2>4. Same(p, q)
      <3>1. o.high \in Int /\ o.weak \in BOOLEAN
        BY DEF weak
      <3> HIDE DEF o
      <3> QED BY <2>1, <3>1, SatelliteKeptIsSame
    <2> HIDE DEF exit, q
    <2>5. Sound(b, Nothing(c))
      BY <2>1, <2>4, StopIsSound DEF p
    <2>6. Sound(b, Close(b, k, exit.price, exit.reason))
      BY <2>1, <2>3, CloseIsSound
    <2> QED BY <2>2, <2>5, <2>6
  <1> QED BY <1>1, <1>2, <1>3

-----------------------------------------------------------------------------
(* What a restart makes of a record. *)

Holdings == [Keys -> PaperLeg]

\* A trade is replayed.
Replayed(o, t) ==
  [o EXCEPT ![t.key] = IF t.side = "BUY" \/ t.reason = "resize" THEN Restored(t) ELSE Flat]

\* What a trade restores is the position it recorded, when it recorded one.
LEMMA RestoredIsLeg ==
  ASSUME NEW t \in PaperTrade
  PROVE  /\ Restored(t) \in PaperLeg
         /\ t.reason # "row" => Restored(t).qty = t.position.qty /\ Restored(t).cost = t.position.cost
  <1>1. t.qty \in Nat /\ t.price \in Int /\ t.position \in PaperLeg
    BY DEF PaperTrade
  <1>2. CASE t.reason # "row"
    <2> DEFINE p == t.position
    <2>1. Restored(t) = [p EXCEPT !.partialDone = FALSE, !.tierDue = FALSE]
      BY <1>2 DEF Restored
    <2>2. p \in PaperLeg /\ 0 \in Int
      BY <1>1
    <2> HIDE DEF p
    <2>3. Same(p, [p EXCEPT !.partialDone = FALSE, !.tierDue = FALSE])
      BY <2>2, StopMoves, Zenon
    <2>4. Same(p, Restored(t))
      BY <2>1, <2>3
    <2> QED BY <2>4 DEF Same, p
  <1>3. CASE t.reason = "row"
    <2> DEFINE lots == t.qty
               cost == t.qty * t.price
               high == t.price
               target == IF t.key \in Satellites THEN NoTarget ELSE 0
    <2>1. Restored(t) = [Flat EXCEPT !.qty = lots, !.cost = cost, !.high = high, !.target = target]
      BY <1>3 DEF Restored
    <2>2. lots \in Nat /\ cost \in Int /\ high \in Int /\ target \in Int /\ (lots = 0 => cost = 0)
      BY <1>1, Percents
    <2> HIDE DEF lots, cost, high, target
    <2>3. 0 \in Int
      OBVIOUS
    <2>4. [Flat EXCEPT !.qty = lots, !.cost = cost, !.high = high, !.target = target] \in PaperLeg
      BY <2>2, <2>3, NewLegs, Zenon
    <2> QED BY <1>3, <2>1, <2>4
  <1> QED BY <1>2, <1>3

\* A replayed trade leaves holdings.
LEMMA ReplayKeeps ==
  ASSUME NEW o \in Holdings, NEW t \in PaperTrade
  PROVE  Replayed(o, t) \in Holdings
  <1> DEFINE p == IF t.side = "BUY" \/ t.reason = "resize" THEN Restored(t) ELSE Flat
  <1>1. p \in PaperLeg
    BY RestoredIsLeg, FlatIsLeg
  <1>2. Replayed(o, t) = [o EXCEPT ![t.key] = p]
    BY DEF Replayed
  <1> HIDE DEF p
  <1> QED BY <1>1, <1>2 DEF Holdings

\* The record is replayed from its oldest trade.
LEMMA ReopenedSteps ==
  ASSUME NEW s \in Seq(PaperTrade)
  PROVE  \E g :
           /\ g[{}] = [k \in Keys |-> Flat]
           /\ \A k \in 1 .. Len(s) : g[1 .. k] = Replayed(g[1 .. k - 1], s[Len(s) - k + 1])
           /\ Reopened(s) = g[1 .. Len(s)]
  <1> DEFINE base == [k \in Keys |-> Flat]
             z == Reverse(s)
             D == SUBSET (1 .. Len(s))
             Again(g, S) == Replayed(g[S \ {Max(S)}], z[Max(S)])
             Folds(g) == g = [S \in D |-> IF S = {} THEN base ELSE Again(g, S)]
             f == [p \in Holdings \X PaperTrade |-> Replayed(p[1], p[2])]
             h == CHOOSE g : Folds(g)
             t == Reopened(s)
  <1>0. /\ Len(s) \in Nat /\ z \in Seq(PaperTrade) /\ Len(z) = Len(s) /\ DOMAIN z = 1 .. Len(s)
        /\ \A k \in 1 .. Len(s) : z[k] = s[Len(s) - k + 1]
    BY DEF Reverse
  <1>1. t = h[1 .. Len(s)]
    <2>1. DOMAIN Reverse(s) = 1 .. Len(s)
      BY <1>0
    <2> QED BY <2>1 DEF Reopened, FoldLeft, MapThenFoldSet, Replayed
  <1> HIDE DEF t
  <1>2. \E g : Folds(g)
    <2>1. f \in [Holdings \X PaperTrade -> Holdings]
      BY ReplayKeeps
    <2>2. base \in Holdings
      BY FlatIsLeg DEF Holdings
    <2>3. PICK g : IsFold(g, Holdings, f, base, z, Len(s))
      <3>1. Len(s) <= Len(z)
        BY <1>0
      <3> HIDE DEF f, base, z
      <3> QED BY <1>0, <2>1, <2>2, <3>1, FoldExists
    <2>4. ASSUME NEW S \in D, S # {} PROVE f[g[S \ {Max(S)}], z[Max(S)]] = Again(g, S)
      <3> DEFINE last == Max(S)
      <3>1. last \in S
        BY <1>0, <2>4, LastPosition
      <3> HIDE DEF last
      <3>2. S \ {last} \in D /\ last \in 1 .. Len(s)
        BY <3>1
      <3>3. g[S \ {last}] \in Holdings
        BY <2>3, <3>2 DEF IsFold
      <3> HIDE DEF z
      <3>4. z[last] \in PaperTrade
        BY <1>0, <3>2
      <3> QED BY <3>3, <3>4 DEF last
    <2>5. \A S \in D : g[S] = IF S = {} THEN base ELSE Again(g, S)
      <3> HIDE DEF f, Again, base, z
      <3> QED BY <2>3, <2>4 DEF IsFold
    <2>6. g = [S \in D |-> g[S]]
      BY <2>3 DEF IsFold
    <2>7. Folds(g)
      <3> HIDE DEF Again, base
      <3> QED BY <2>5, <2>6
    <2> QED BY <2>7
  <1>3. Folds(h)
    <2> HIDE DEF Folds
    <2> QED BY <1>2
  <1>4. h[{}] = base
    BY <1>3
  <1>5. ASSUME NEW k \in 1 .. Len(s) PROVE h[1 .. k] = Replayed(h[1 .. k - 1], s[Len(s) - k + 1])
    <2> HIDE DEF h
    <2>1. 1 .. k \in D /\ 1 .. k # {} /\ k \in 1 .. k /\ k \in Nat
      <3>1. k \in Nat /\ 1 <= k /\ k <= Len(s)
        BY <1>0
      <3>2. k \in 1 .. k /\ \A i \in 1 .. k : i \in 1 .. Len(s)
        BY <1>0, <3>1
      <3> QED BY <3>1, <3>2
    <2>2. Max(1 .. k) = k
      BY <2>1, LastPosition
    <2>3. (1 .. k) \ {k} = 1 .. k - 1
      OBVIOUS
    <2>4. h[1 .. k] = Again(h, 1 .. k)
      <3> HIDE DEF Again, base
      <3> QED BY <1>3, <2>1
    <2>5. Again(h, 1 .. k) = Replayed(h[1 .. k - 1], z[k])
      BY <2>2, <2>3
    <2>6. z[k] = s[Len(s) - k + 1]
      BY <1>0
    <2> HIDE DEF Again, z
    <2> QED BY <2>4, <2>5, <2>6
  <1> HIDE DEF h
  <1> QED BY <1>1, <1>4, <1>5 DEF t

LEMMA ReopenedHolds ==
  ASSUME NEW s \in Seq(PaperTrade)
  PROVE  Reopened(s) \in Holdings
  <1>1. PICK g :
           /\ g[{}] = [k \in Keys |-> Flat]
           /\ \A k \in 1 .. Len(s) : g[1 .. k] = Replayed(g[1 .. k - 1], s[Len(s) - k + 1])
           /\ Reopened(s) = g[1 .. Len(s)]
    BY ReopenedSteps
  <1> DEFINE Has == {n \in Nat : n <= Len(s) => g[1 .. n] \in Holdings}
  <1>2. 0 \in Has
    <2>1. 1 .. 0 = {}
      OBVIOUS
    <2>2. [k \in Keys |-> Flat] \in Holdings
      BY FlatIsLeg DEF Holdings
    <2> QED BY <1>1, <2>1, <2>2
  <1>3. ASSUME NEW n \in Nat, n \in Has PROVE n + 1 \in Has
    <2> SUFFICES ASSUME n + 1 <= Len(s) PROVE g[1 .. n + 1] \in Holdings
      OBVIOUS
    <2> DEFINE t == s[Len(s) - (n + 1) + 1]
               o == g[1 .. n]
    <2>1. Len(s) - (n + 1) + 1 \in 1 .. Len(s) /\ n + 1 \in 1 .. Len(s) /\ (n + 1) - 1 = n
      OBVIOUS
    <2>2. t \in PaperTrade
      BY <2>1
    <2>3. o \in Holdings
      BY <1>3
    <2>4. g[1 .. n + 1] = Replayed(o, t)
      BY <1>1, <2>1
    <2> HIDE DEF o, t
    <2> QED BY <2>2, <2>3, <2>4, ReplayKeeps
  <1>4. Nat \subseteq Has
    <2> HIDE DEF Has
    <2> QED BY <1>2, <1>3, NatInductive
  <1>5. Len(s) \in Has
    BY <1>4
  <1> QED BY <1>1, <1>5

\* A newer trade is replayed last.
LEMMA ReopenedGrows ==
  ASSUME NEW s \in Seq(PaperTrade), NEW r \in PaperTrade
  PROVE  Reopened(<<r>> \o s) = Replayed(Reopened(s), r)
  <1> DEFINE z == <<r>> \o s
             n == Len(s)
  <1>1. /\ z \in Seq(PaperTrade) /\ Len(z) = n + 1 /\ n \in Nat /\ z[1] = r
        /\ \A i \in 1 .. n : z[i + 1] = s[i]
    OBVIOUS
  <1> HIDE DEF z
  <1>2. PICK g :
           /\ g[{}] = [k \in Keys |-> Flat]
           /\ \A k \in 1 .. Len(s) : g[1 .. k] = Replayed(g[1 .. k - 1], s[Len(s) - k + 1])
           /\ Reopened(s) = g[1 .. Len(s)]
    BY ReopenedSteps
  <1>3. PICK h :
           /\ h[{}] = [k \in Keys |-> Flat]
           /\ \A k \in 1 .. Len(z) : h[1 .. k] = Replayed(h[1 .. k - 1], z[Len(z) - k + 1])
           /\ Reopened(z) = h[1 .. Len(z)]
    BY <1>1, ReopenedSteps
  <1> DEFINE Has == {k \in Nat : k <= n => h[1 .. k] = g[1 .. k]}
  <1>4. 0 \in Has
    <2>1. 1 .. 0 = {}
      OBVIOUS
    <2> QED BY <1>2, <1>3, <2>1
  <1>5. ASSUME NEW k \in Nat, k \in Has PROVE k + 1 \in Has
    <2> SUFFICES ASSUME k + 1 <= n PROVE h[1 .. k + 1] = g[1 .. k + 1]
      OBVIOUS
    <2> DEFINE i == n - (k + 1) + 1
    <2>1. i \in 1 .. n /\ Len(z) - (k + 1) + 1 = i + 1 /\ (k + 1) - 1 = k /\ k + 1 \in 1 .. n /\ k + 1 \in 1 .. Len(z)
      BY <1>1
    <2>2. z[i + 1] = s[i]
      BY <1>1, <2>1
    <2>3. g[1 .. k + 1] = Replayed(g[1 .. k], s[i])
      BY <1>2, <2>1
    <2>4. h[1 .. k + 1] = Replayed(h[1 .. k], z[i + 1])
      BY <1>3, <2>1
    <2>5. h[1 .. k] = g[1 .. k]
      BY <1>1, <1>5
    <2> QED BY <2>2, <2>3, <2>4, <2>5
  <1>6. Nat \subseteq Has
    <2> HIDE DEF Has
    <2> QED BY <1>4, <1>5, NatInductive
  <1>7. h[1 .. n] = g[1 .. n]
    BY <1>1, <1>6
  <1>8. h[1 .. n + 1] = Replayed(h[1 .. n], z[1])
    <2>1. n + 1 \in 1 .. Len(z) /\ (n + 1) - 1 = n /\ Len(z) - (n + 1) + 1 = 1
      BY <1>1
    <2> QED BY <1>3, <2>1
  <1>9. Reopened(z) = Replayed(Reopened(s), r)
    BY <1>1, <1>2, <1>3, <1>7, <1>8
  <1> QED BY <1>9 DEF z

-----------------------------------------------------------------------------
(* A record of trades, and the file they were appended to. *)

\* Every trade of s is a row of z, and no two are the same one; of trades of one time the newer
\* is first.
Tracks(m, s, z) ==
  /\ m \in [1 .. Len(s) -> 1 .. Len(z)]
  /\ \A i, j \in 1 .. Len(s) : i # j => m[i] # m[j]
  /\ \A i \in 1 .. Len(s) : s[i].at = z[m[i]].at /\ s[i].balance = z[m[i]].balance
  /\ \A i, j \in 1 .. Len(s) : i < j /\ s[i].at = s[j].at => m[i] > m[j]
Traced(s, z) == \E m : Tracks(m, s, z)

\* The file grows.
LEMMA TracedGrows ==
  ASSUME NEW s \in Seq(PaperTrade), NEW z \in Seq(PaperTrade), NEW w \in Seq(PaperTrade), Traced(s, z)
  PROVE  Traced(s, z \o w)
  <1> DEFINE y == z \o w
  <1>1. y \in Seq(PaperTrade) /\ Len(z) \in Nat /\ Len(y) >= Len(z) /\ \A i \in 1 .. Len(z) : y[i] = z[i]
    <2>1. y \in Seq(PaperTrade) /\ Len(z) \in Nat /\ Len(w) \in Nat /\ Len(y) = Len(z) + Len(w)
          /\ \A i \in 1 .. Len(z) : y[i] = z[i]
      BY Joined
    <2> QED BY <2>1
  <1> HIDE DEF y
  <1>2. PICK m : Tracks(m, s, z)
    BY DEF Traced
  <1>3. m \in [1 .. Len(s) -> 1 .. Len(y)]
    <2>1. \A i \in 1 .. Len(z) : i \in 1 .. Len(y)
      BY <1>1
    <2> QED BY <1>2, <2>1 DEF Tracks
  <1>4. Tracks(m, s, y)
    BY <1>1, <1>2, <1>3 DEF Tracks
  <1> QED BY <1>4 DEF Traced, y

\* The newest row is recorded.
LEMMA TracedNewer ==
  ASSUME NEW s \in Seq(PaperTrade), NEW z \in Seq(PaperTrade), NEW w \in Seq(PaperTrade), Traced(s, z), Len(w) > 0
  PROVE  Traced(<<w[Len(w)]>> \o s, z \o w)
  <1> DEFINE y == z \o w
             r == w[Len(w)]
             x == <<r>> \o s
             n == Len(s)
  <1>1. /\ y \in Seq(PaperTrade) /\ Len(z) \in Nat /\ Len(y) \in Nat /\ Len(y) > Len(z) /\ y[Len(y)] = r
        /\ \A i \in 1 .. Len(z) : y[i] = z[i]
    <2>1. /\ y \in Seq(PaperTrade) /\ Len(z) \in Nat /\ Len(w) \in Nat /\ Len(y) = Len(z) + Len(w)
          /\ \A i \in 1 .. Len(z) : y[i] = z[i]
          /\ \A i \in 1 .. Len(w) : y[Len(z) + i] = w[i]
      BY Joined
    <2> QED BY <2>1
  <1>2. r \in PaperTrade
    OBVIOUS
  <1> HIDE DEF y, r
  <1>3. /\ x \in Seq(PaperTrade) /\ Len(x) = n + 1 /\ n \in Nat /\ x[1] = r
        /\ \A i \in 1 .. n : x[i + 1] = s[i]
    BY <1>2
  <1> HIDE DEF x
  <1>4. PICK m : Tracks(m, s, z)
    BY DEF Traced
  <1> DEFINE d == [i \in 1 .. n + 1 |-> IF i = 1 THEN Len(y) ELSE m[i - 1]]
  <1>5. \A i \in 1 .. n : m[i] \in Nat /\ m[i] >= 1 /\ m[i] <= Len(z) /\ y[m[i]] = z[m[i]]
    <2>1. \A i \in 1 .. n : m[i] \in 1 .. Len(z)
      BY <1>4 DEF Tracks
    <2>2. \A k \in 1 .. Len(z) : k \in Nat /\ k >= 1 /\ k <= Len(z) /\ y[k] = z[k]
      BY <1>1
    <2> QED BY <2>1, <2>2
  <1>6. d \in [1 .. n + 1 -> 1 .. Len(y)] /\ d[1] = Len(y)
    <2>1. \A i \in 1 .. n + 1 : i # 1 => i - 1 \in 1 .. n
      BY <1>3
    <2>2. \A i \in 1 .. n : m[i] \in 1 .. Len(y)
      BY <1>1, <1>5
    <2>3. Len(y) \in 1 .. Len(y) /\ 1 \in 1 .. n + 1
      BY <1>1, <1>3
    <2> QED BY <2>1, <2>2, <2>3
  <1>7. \A i \in 1 .. n + 1 : i = 1 \/ (i - 1 \in 1 .. n /\ d[i] = m[i - 1] /\ d[i] < d[1] /\ x[i] = s[i - 1])
    <2> SUFFICES ASSUME NEW i \in 1 .. n + 1, i # 1
                 PROVE  i - 1 \in 1 .. n /\ d[i] = m[i - 1] /\ d[i] < d[1] /\ x[i] = s[i - 1]
      OBVIOUS
    <2>1. i - 1 \in 1 .. n /\ (i - 1) + 1 = i
      BY <1>3
    <2>2. d[i] = m[i - 1]
      OBVIOUS
    <2>3. m[i - 1] < Len(y)
      BY <1>1, <1>5, <2>1
    <2>4. x[i] = s[i - 1]
      BY <1>3, <2>1
    <2> QED BY <1>6, <2>1, <2>2, <2>3, <2>4
  <1> HIDE DEF d
  <1>8. \A i, j \in 1 .. n + 1 : i # j => d[i] # d[j]
    <2> SUFFICES ASSUME NEW i \in 1 .. n + 1, NEW j \in 1 .. n + 1, i # j PROVE d[i] # d[j]
      OBVIOUS
    <2>0. d[1] \in Nat /\ i \in Int /\ j \in Int
      BY <1>1, <1>6
    <2>1. CASE i = 1 \/ j = 1
      BY <1>5, <1>7, <2>0, <2>1
    <2>2. CASE i # 1 /\ j # 1
      <3> DEFINE u == i - 1
                 v == j - 1
      <3>1. u # v
        BY <2>0
      <3>2. u \in 1 .. n /\ v \in 1 .. n /\ d[i] = m[u] /\ d[j] = m[v]
        BY <1>7, <2>2
      <3> HIDE DEF u, v
      <3> QED BY <1>4, <3>1, <3>2 DEF Tracks
    <2> QED BY <2>1, <2>2
  <1>9. \A i \in 1 .. n + 1 : x[i].at = y[d[i]].at /\ x[i].balance = y[d[i]].balance
    <2>1. \A i \in 1 .. n : s[i].at = z[m[i]].at /\ s[i].balance = z[m[i]].balance
      BY <1>4 DEF Tracks
    <2> SUFFICES ASSUME NEW i \in 1 .. n + 1 PROVE x[i].at = y[d[i]].at /\ x[i].balance = y[d[i]].balance
      OBVIOUS
    <2>2. CASE i = 1
      BY <1>1, <1>3, <1>6, <2>2
    <2>3. CASE i # 1
      <3> DEFINE j == i - 1
      <3>1. j \in 1 .. n /\ d[i] = m[j] /\ x[i] = s[j]
        BY <1>7, <2>3
      <3> HIDE DEF j
      <3> QED BY <1>5, <2>1, <3>1
    <2> QED BY <2>2, <2>3
  <1>10. \A i, j \in 1 .. n + 1 : i < j /\ x[i].at = x[j].at => d[i] > d[j]
    <2> SUFFICES ASSUME NEW i \in 1 .. n + 1, NEW j \in 1 .. n + 1, i < j, x[i].at = x[j].at PROVE d[i] > d[j]
      OBVIOUS
    <2>0. d[1] \in Nat /\ i \in Int /\ j \in Int /\ j # 1
      BY <1>1, <1>6
    <2>1. CASE i = 1
      BY <1>5, <1>7, <2>0, <2>1
    <2>2. CASE i # 1
      <3> DEFINE u == i - 1
                 v == j - 1
      <3>1. u < v
        BY <2>0
      <3>2. u \in 1 .. n /\ v \in 1 .. n /\ d[i] = m[u] /\ d[j] = m[v] /\ x[i] = s[u] /\ x[j] = s[v]
        BY <1>7, <2>0, <2>2
      <3> HIDE DEF u, v
      <3> QED BY <1>4, <3>1, <3>2 DEF Tracks
    <2> QED BY <2>1, <2>2
  <1>11. Tracks(d, x, y)
    BY <1>3, <1>6, <1>8, <1>9, <1>10 DEF Tracks
  <1> QED BY <1>11 DEF Traced, x, y, r

\* The newest of a record.
LEMMA NewestIs ==
  ASSUME NEW T, NEW s \in Seq(T)
  PROVE  /\ Newest(s) \in Seq(T) /\ Len(Newest(s)) \in Nat
         /\ Len(Newest(s)) <= Len(s) /\ Len(Newest(s)) <= MaxTrades
         /\ Len(s) <= MaxTrades => Newest(s) = s
         /\ \A i \in 1 .. Len(Newest(s)) : i \in 1 .. Len(s) /\ Newest(s)[i] = s[i]
  <1> DEFINE n == Min({Len(s), MaxTrades})
             x == Newest(s)
  <1>1. Len(s) \in Int /\ MaxTrades \in Int /\ MaxTrades > 0 /\ Len(s) \in Nat
    BY RestartAssumption
  <1>2. n \in Int /\ (n = Len(s) \/ n = MaxTrades) /\ n <= Len(s) /\ n <= MaxTrades
    <2> DEFINE l == Len(s)
    <2>1. l \in Int
      BY <1>1
    <2> HIDE DEF l
    <2>2. /\ Min({l, MaxTrades}) \in Int /\ (Min({l, MaxTrades}) = l \/ Min({l, MaxTrades}) = MaxTrades)
          /\ Min({l, MaxTrades}) <= l /\ Min({l, MaxTrades}) <= MaxTrades
      BY <1>1, <2>1, ExtremesOfTwo
    <2> QED BY <2>2 DEF l
  <1>3. x = SubSeq(s, 1, n)
    BY DEF Newest
  <1> HIDE DEF n, x
  <1>4. n \in 0 .. Len(s)
    BY <1>1, <1>2
  <1>5. x \in Seq(T) /\ Len(x) = n /\ \A i \in 1 .. n : x[i] = s[i]
    BY <1>3, <1>4
  <1>6. \A i \in 1 .. n : i \in 1 .. Len(s)
    BY <1>4
  <1>7. ASSUME Len(s) <= MaxTrades PROVE x = s
    <2>1. n = Len(s)
      BY <1>1, <1>2, <1>7
    <2> QED BY <1>3, <2>1
  <1> QED BY <1>1, <1>2, <1>5, <1>6, <1>7 DEF x

\* The record is cut down.
LEMMA TracedNewest ==
  ASSUME NEW s \in Seq(PaperTrade), NEW z \in Seq(PaperTrade), Traced(s, z)
  PROVE  Traced(Newest(s), z)
  <1> DEFINE x == Newest(s)
  <1>1. x \in Seq(PaperTrade) /\ Len(x) \in Nat /\ \A i \in 1 .. Len(x) : i \in 1 .. Len(s) /\ x[i] = s[i]
    BY NewestIs
  <1> HIDE DEF x
  <1>2. PICK m : Tracks(m, s, z)
    BY DEF Traced
  <1> DEFINE d == [i \in 1 .. Len(x) |-> m[i]]
  <1>3. d \in [1 .. Len(x) -> 1 .. Len(z)] /\ \A i \in 1 .. Len(x) : d[i] = m[i]
    BY <1>1, <1>2 DEF Tracks
  <1> HIDE DEF d
  <1>4. Tracks(d, x, z)
    BY <1>1, <1>2, <1>3 DEF Tracks
  <1> QED BY <1>4 DEF Traced, x

\* A record of as many trades as there are rows has them all.
LEMMA TracksAll ==
  ASSUME NEW s \in Seq(PaperTrade), NEW z \in Seq(PaperTrade), NEW m, Tracks(m, s, z), Len(z) <= Len(s)
  PROVE  Len(s) = Len(z) /\ \A k \in 1 .. Len(z) : \E i \in 1 .. Len(s) : m[i] = k
  <1>1. Len(s) \in Nat /\ Len(z) \in Nat
    OBVIOUS
  <1>2. Len(s) <= Len(z)
    BY <1>1, PlacesFit DEF Tracks
  <1>3. ASSUME NEW k \in 1 .. Len(z), \A i \in 1 .. Len(s) : m[i] # k PROVE FALSE
    <2> DEFINE n == Len(s) + 1
               d == [i \in 1 .. n |-> IF i = n THEN k ELSE m[i]]
    <2>1. n \in Nat /\ \A i \in 1 .. n : i = n \/ (i # n /\ i \in 1 .. Len(s))
      BY <1>1
    <2>2. d \in [1 .. n -> 1 .. Len(z)]
      BY <2>1 DEF Tracks
    <2>3. \A i \in 1 .. n : (i = n /\ d[i] = k) \/ (i # n /\ i \in 1 .. Len(s) /\ d[i] = m[i])
      BY <2>1
    <2> HIDE DEF d, n
    <2>4. \A i, j \in 1 .. n : i # j => d[i] # d[j]
      BY <1>3, <2>3 DEF Tracks
    <2>5. n <= Len(z)
      BY <1>1, <2>1, <2>2, <2>4, PlacesFit
    <2> QED BY <1>1, <2>5 DEF n
  <1>4. Len(s) = Len(z)
    BY <1>1, <1>2
  <1> QED BY <1>3, <1>4, Zenon

\* A record has no more trades than the file has rows.
LEMMA TracedFits ==
  ASSUME NEW s \in Seq(PaperTrade), NEW z \in Seq(PaperTrade), Traced(s, z)
  PROVE  Len(s) <= Len(z)
  <1>1. PICK m : Tracks(m, s, z)
    BY DEF Traced
  <1>2. Len(s) \in Nat /\ Len(z) \in Nat
    OBVIOUS
  <1> QED BY <1>1, <1>2, PlacesFit DEF Tracks

\* The rows of the file as a restart reads them, newest first.
FileRows(z) == [i \in 1 .. Len(z) |-> FromRow(z[Len(z) + 1 - i])]

LEMMA FileRowsAre ==
  ASSUME NEW z \in Seq(PaperTrade)
  PROVE  /\ FileRows(z) \in Seq(PaperTrade) /\ Len(FileRows(z)) = Len(z) /\ Len(z) \in Nat
         /\ \A i \in 1 .. Len(z) :
              /\ Len(z) + 1 - i \in 1 .. Len(z)
              /\ FileRows(z)[i].at = z[Len(z) + 1 - i].at /\ FileRows(z)[i].balance = z[Len(z) + 1 - i].balance
  <1>1. ASSUME NEW r \in PaperTrade
        PROVE  FromRow(r) \in PaperTrade /\ FromRow(r).at = r.at /\ FromRow(r).balance = r.balance
    <2> DEFINE p == Flat
               Why == Reasons \cup {"resize", "row"}
    <2>1. p \in PaperLeg /\ "row" \in Why
      BY FlatIsLeg
    <2>2. FromRow(r) = [r EXCEPT !.reason = "row", !.position = p]
      BY DEF FromRow
    <2> HIDE DEF p, Why
    <2> QED BY <2>1, <2>2 DEF PaperTrade, Why
  <1>2. Len(z) \in Nat /\ \A i \in 1 .. Len(z) : Len(z) + 1 - i \in 1 .. Len(z) /\ z[Len(z) + 1 - i] \in PaperTrade
    <2>1. Len(z) \in Nat /\ \A i \in 1 .. Len(z) : z[i] \in PaperTrade
      OBVIOUS
    <2>2. \A i \in 1 .. Len(z) : Len(z) + 1 - i \in 1 .. Len(z)
      BY <2>1
    <2> QED BY <2>1, <2>2
  <1> DEFINE x == FileRows(z)
  <1>3. \A i \in 1 .. Len(z) : FromRow(z[Len(z) + 1 - i]) \in PaperTrade
    BY <1>1, <1>2
  <1>4. x = [i \in 1 .. Len(z) |-> FromRow(z[Len(z) + 1 - i])]
    BY DEF FileRows
  <1> HIDE DEF x
  <1>5. x \in Seq(PaperTrade) /\ Len(x) = Len(z)
    BY <1>2, <1>3, <1>4
  <1>6. \A i \in 1 .. Len(z) : x[i].at = z[Len(z) + 1 - i].at /\ x[i].balance = z[Len(z) + 1 - i].balance
    BY <1>1, <1>2, <1>4
  <1> QED BY <1>2, <1>5, <1>6 DEF x

\* What is loaded from a saved record and a file.
Extra(kept, z)  == Without(Newest(FileRows(z)), {kept[i].at : i \in DOMAIN kept})
Together(kept, z) == IF kept = <<>> THEN Newest(FileRows(z)) ELSE Newest(kept \o Extra(kept, z))

LEMMA LoadedIsTogether ==
  /\ Loaded = Together(IF file.torn THEN <<>> ELSE file.trades, csv)
  /\ Loaded' = Together(IF file'.torn THEN <<>> ELSE file'.trades, csv')
  BY DEF Loaded, Together, Extra, FileRows

\* The file's rows are its trades.
LEMMA TracedRows ==
  ASSUME NEW z \in Seq(PaperTrade)
  PROVE  Traced(FileRows(z), z)
  <1> DEFINE x == FileRows(z)
             d == [i \in 1 .. Len(x) |-> Len(z) + 1 - i]
  <1>1. /\ x \in Seq(PaperTrade) /\ Len(x) = Len(z) /\ Len(z) \in Nat
        /\ \A i \in 1 .. Len(z) :
              /\ Len(z) + 1 - i \in 1 .. Len(z)
              /\ x[i].at = z[Len(z) + 1 - i].at /\ x[i].balance = z[Len(z) + 1 - i].balance
    BY FileRowsAre
  <1> HIDE DEF x
  <1>2. d \in [1 .. Len(x) -> 1 .. Len(z)] /\ \A i \in 1 .. Len(x) : d[i] = Len(z) + 1 - i
    BY <1>1
  <1> HIDE DEF d
  <1>3. \A i, j \in 1 .. Len(x) : (i # j => d[i] # d[j]) /\ (i < j => d[i] > d[j])
    BY <1>1, <1>2
  <1>4. Tracks(d, x, z)
    BY <1>1, <1>2, <1>3 DEF Tracks
  <1> QED BY <1>4 DEF Traced, x

\* The rows that are added are those of no saved time.
LEMMA ExtraIs ==
  ASSUME NEW kept \in Seq(PaperTrade), NEW z \in Seq(PaperTrade)
  PROVE  /\ Extra(kept, z) \in Seq(PaperTrade) /\ Len(Extra(kept, z)) \in Nat
         /\ \E d : /\ Tracks(d, Extra(kept, z), z)
                   /\ \A i \in 1 .. Len(Extra(kept, z)), j \in 1 .. Len(kept) : Extra(kept, z)[i].at # kept[j].at
         /\ Len(z) <= MaxTrades =>
              \A k \in 1 .. Len(z) : \/ \E j \in 1 .. Len(kept) : kept[j].at = z[k].at
                                     \/ \E i \in 1 .. Len(Extra(kept, z)) : Extra(kept, z)[i].at = z[k].at
  <1> DEFINE R == Newest(FileRows(z))
             times == {kept[i].at : i \in DOMAIN kept}
             w == Without(R, times)
  <1>1. Extra(kept, z) = w
    BY DEF Extra
  <1>2. /\ FileRows(z) \in Seq(PaperTrade) /\ Len(FileRows(z)) = Len(z) /\ Len(z) \in Nat
        /\ \A i \in 1 .. Len(z) : Len(z) + 1 - i \in 1 .. Len(z) /\ FileRows(z)[i].at = z[Len(z) + 1 - i].at
    BY FileRowsAre
  <1>3. R \in Seq(PaperTrade) /\ Traced(R, z) /\ Len(R) \in Nat
    BY <1>2, TracedRows, TracedNewest, NewestIs
  <1>4. Len(z) <= MaxTrades => R = FileRows(z)
    BY <1>2, NewestIs
  <1>5. \A t : t \in times <=> \E j \in 1 .. Len(kept) : kept[j].at = t
    OBVIOUS
  <1> HIDE DEF R, times
  <1>6. w \in Seq(PaperTrade)
    BY <1>3, WithoutKeeps
  <1>7. PICK e \in [1 .. Len(w) -> 1 .. Len(R)] :
              /\ \A i \in 1 .. Len(w) : w[i] = R[e[i]] /\ R[e[i]].at \notin times
              /\ \A i, j \in 1 .. Len(w) : i < j => e[i] < e[j]
              /\ \A k \in 1 .. Len(R) : R[k].at \notin times => \E i \in 1 .. Len(w) : e[i] = k
    <2>1. R \in Seq(PaperTrade)
      BY <1>3
    <2>2. Selects(w, R, times)
      BY <2>1, WithoutKeeps
    <2> HIDE DEF w
    <2> QED BY <2>2 DEF Selects
  <1> HIDE DEF w
  <1>8. PICK m : Tracks(m, R, z)
    BY <1>3 DEF Traced
  <1>9. Len(w) \in Nat /\ \A i \in 1 .. Len(w) : e[i] \in 1 .. Len(R) /\ e[i] \in Nat
    BY <1>6, <1>7
  <1> DEFINE d == [i \in 1 .. Len(w) |-> m[e[i]]]
  <1>10. Tracks(d, w, z)
    <2>1. d \in [1 .. Len(w) -> 1 .. Len(z)] /\ \A i \in 1 .. Len(w) : d[i] = m[e[i]]
      BY <1>8, <1>9 DEF Tracks
    <2> HIDE DEF d
    <2>2. \A i, j \in 1 .. Len(w) : i # j => e[i] # e[j]
      <3> SUFFICES ASSUME NEW i \in 1 .. Len(w), NEW j \in 1 .. Len(w), i # j PROVE e[i] # e[j]
        OBVIOUS
      <3>1. i < j \/ j < i
        BY <1>9
      <3> QED BY <1>7, <1>9, <3>1
    <2>3. \A i, j \in 1 .. Len(w) : i # j => d[i] # d[j]
      BY <1>8, <1>9, <2>1, <2>2 DEF Tracks
    <2>4. \A i \in 1 .. Len(w) : w[i].at = z[d[i]].at /\ w[i].balance = z[d[i]].balance
      <3>1. \A k \in 1 .. Len(R) : R[k].at = z[m[k]].at /\ R[k].balance = z[m[k]].balance
        BY <1>8 DEF Tracks
      <3> SUFFICES ASSUME NEW i \in 1 .. Len(w) PROVE w[i].at = z[d[i]].at /\ w[i].balance = z[d[i]].balance
        OBVIOUS
      <3> DEFINE k == e[i]
      <3>2. k \in 1 .. Len(R) /\ w[i] = R[k] /\ d[i] = m[k]
        BY <1>7, <1>9, <2>1
      <3> HIDE DEF k
      <3> QED BY <3>1, <3>2
    <2>5. \A i, j \in 1 .. Len(w) : i < j /\ w[i].at = w[j].at => d[i] > d[j]
      <3>1. \A u, v \in 1 .. Len(R) : u < v /\ R[u].at = R[v].at => m[u] > m[v]
        BY <1>8 DEF Tracks
      <3> SUFFICES ASSUME NEW i \in 1 .. Len(w), NEW j \in 1 .. Len(w), i < j, w[i].at = w[j].at PROVE d[i] > d[j]
        OBVIOUS
      <3> DEFINE u == e[i]
                 v == e[j]
      <3>2. /\ u \in 1 .. Len(R) /\ w[i] = R[u] /\ d[i] = m[u]
            /\ v \in 1 .. Len(R) /\ w[j] = R[v] /\ d[j] = m[v] /\ u < v
        BY <1>7, <1>9, <2>1
      <3> HIDE DEF u, v
      <3>3. R[u].at = R[v].at
        BY <3>2
      <3> QED BY <3>1, <3>2, <3>3
    <2> QED BY <2>1, <2>3, <2>4, <2>5 DEF Tracks
  <1>11. \A i \in 1 .. Len(w), j \in 1 .. Len(kept) : w[i].at # kept[j].at
    BY <1>5, <1>7
  <1>12. ASSUME Len(z) <= MaxTrades, NEW k \in 1 .. Len(z), \A j \in 1 .. Len(kept) : kept[j].at # z[k].at
         PROVE  \E i \in 1 .. Len(w) : w[i].at = z[k].at
    <2> DEFINE l == Len(z) + 1 - k
    <2>1. l \in 1 .. Len(z) /\ Len(z) + 1 - l = k
      BY <1>2
    <2> HIDE DEF l
    <2>2. R[l].at = z[k].at /\ l \in 1 .. Len(R)
      BY <1>2, <1>4, <1>12, <2>1
    <2>3. R[l].at \notin times
      BY <1>5, <1>12, <2>2
    <2>4. PICK i \in 1 .. Len(w) : e[i] = l
      BY <1>7, <2>2, <2>3
    <2> QED BY <1>7, <2>2, <2>4
  <1> HIDE DEF d
  <1>13. Len(z) <= MaxTrades =>
           \A k \in 1 .. Len(z) : \/ \E j \in 1 .. Len(kept) : kept[j].at = z[k].at
                                  \/ \E i \in 1 .. Len(w) : w[i].at = z[k].at
    BY <1>12
  <1>14. \E x : Tracks(x, w, z) /\ \A i \in 1 .. Len(w), j \in 1 .. Len(kept) : w[i].at # kept[j].at
    BY <1>10, <1>11
  <1> QED BY <1>1, <1>6, <1>9, <1>13, <1>14

\* A saved record and the rows of other times.
LEMMA TracedTogether ==
  ASSUME NEW s \in Seq(PaperTrade), NEW w \in Seq(PaperTrade), NEW z \in Seq(PaperTrade),
         NEW m, Tracks(m, s, z), NEW d, Tracks(d, w, z),
         \A i \in 1 .. Len(w), j \in 1 .. Len(s) : w[i].at # s[j].at
  PROVE  Traced(s \o w, z)
  <1> DEFINE y == s \o w
             n == Len(s)
             l == Len(w)
             c == [i \in 1 .. n + l |-> IF i <= n THEN m[i] ELSE d[i - n]]
             Old(i) == i \in 1 .. n /\ y[i] = s[i] /\ c[i] = m[i]
             New(i) == i - n \in 1 .. l /\ y[i] = w[i - n] /\ c[i] = d[i - n]
  <1>1. /\ y \in Seq(PaperTrade) /\ n \in Nat /\ l \in Nat /\ Len(y) = n + l
        /\ \A i \in 1 .. n : y[i] = s[i]
        /\ \A i \in 1 .. l : y[n + i] = w[i]
    BY Joined
  <1> HIDE DEF y
  <1>2. m \in [1 .. n -> 1 .. Len(z)] /\ d \in [1 .. l -> 1 .. Len(z)] /\ Len(z) \in Nat
    BY DEF Tracks
  <1> HIDE DEF n, l
  <1>3. \A i \in 1 .. n + l : (i <= n /\ Old(i)) \/ (i > n /\ New(i))
    <2> SUFFICES ASSUME NEW i \in 1 .. n + l PROVE (i <= n /\ Old(i)) \/ (i > n /\ New(i))
      OBVIOUS
    <2>1. CASE i <= n
      <3>1. i \in 1 .. n
        BY <1>1, <2>1
      <3> QED BY <1>1, <2>1, <3>1
    <2>2. CASE i > n
      <3>1. i - n \in 1 .. l /\ n + (i - n) = i
        BY <1>1, <2>2
      <3>2. y[i] = w[i - n]
        BY <1>1, <3>1
      <3>3. ~(i <= n)
        BY <1>1, <2>2
      <3>4. c[i] = d[i - n]
        BY <3>3
      <3> QED BY <2>2, <3>1, <3>2, <3>4
    <2> QED BY <1>1, <2>1, <2>2
  <1>4. c \in [1 .. n + l -> 1 .. Len(z)]
    <2>1. \A i \in 1 .. n + l : c[i] \in 1 .. Len(z)
      BY <1>2, <1>3
    <2> QED BY <2>1
  <1> HIDE DEF c
  <1>5. \A i, j \in 1 .. n : (i # j => m[i] # m[j]) /\ (i < j /\ s[i].at = s[j].at => m[i] > m[j])
    BY DEF Tracks, n
  <1>6. \A i, j \in 1 .. l : (i # j => d[i] # d[j]) /\ (i < j /\ w[i].at = w[j].at => d[i] > d[j])
    BY DEF Tracks, l
  <1>7. /\ \A i \in 1 .. n : s[i].at = z[m[i]].at /\ s[i].balance = z[m[i]].balance
        /\ \A i \in 1 .. l : w[i].at = z[d[i]].at /\ w[i].balance = z[d[i]].balance
    BY DEF Tracks, n, l
  <1>8. \A i \in 1 .. l, j \in 1 .. n : w[i].at # s[j].at /\ d[i] # m[j]
    <2>1. \A i \in 1 .. l, j \in 1 .. n : w[i].at # s[j].at
      BY DEF n, l
    <2> QED BY <1>7, <2>1
  <1>9. \A i \in 1 .. n + l : y[i].at = z[c[i]].at /\ y[i].balance = z[c[i]].balance
    BY <1>3, <1>7
  <1>10. ASSUME NEW i \in 1 .. n + l, NEW j \in 1 .. n + l, i < j
         PROVE  c[i] # c[j] /\ (y[i].at = y[j].at => c[i] > c[j])
    <2>1. CASE j <= n
      <3>1. i <= n
        BY <1>1, <1>10, <2>1
      <3>2. Old(i) /\ Old(j)
        <4>1. ~(i > n) /\ ~(j > n)
          BY <1>1, <2>1, <3>1
        <4> QED BY <1>3, <4>1
      <3> HIDE DEF Old
      <3>3. i # j
        BY <1>1, <1>10
      <3> QED BY <1>5, <1>10, <3>2, <3>3 DEF Old
    <2>2. CASE i > n
      <3> DEFINE u == i - n
                 v == j - n
      <3>1. j > n /\ u < v /\ u # v
        BY <1>1, <1>10, <2>2
      <3>2. u \in 1 .. l /\ v \in 1 .. l /\ y[i] = w[u] /\ y[j] = w[v] /\ c[i] = d[u] /\ c[j] = d[v]
        <4>1. ~(i <= n) /\ ~(j <= n)
          BY <1>1, <2>2, <3>1
        <4> QED BY <1>3, <4>1
      <3> HIDE DEF u, v
      <3> QED BY <1>6, <3>1, <3>2
    <2>3. CASE i <= n /\ j > n
      <3> DEFINE v == j - n
      <3>1. i \in 1 .. n /\ v \in 1 .. l /\ y[i] = s[i] /\ y[j] = w[v] /\ c[i] = m[i] /\ c[j] = d[v]
        <4>1. ~(i > n) /\ ~(j <= n)
          BY <1>1, <2>3
        <4> QED BY <1>3, <4>1
      <3> HIDE DEF v
      <3> QED BY <1>8, <3>1
    <2> QED BY <1>1, <2>1, <2>2, <2>3
  <1>11. \A i, j \in 1 .. n + l : i # j => c[i] # c[j]
    <2> SUFFICES ASSUME NEW i \in 1 .. n + l, NEW j \in 1 .. n + l, i # j PROVE c[i] # c[j]
      OBVIOUS
    <2>1. i < j \/ j < i
      BY <1>1
    <2> QED BY <1>10, <2>1
  <1>12. Tracks(c, y, z)
    BY <1>1, <1>4, <1>9, <1>10, <1>11 DEF Tracks
  <1> QED BY <1>12 DEF Traced, y

\* What a restart has for a record: trades of the file, all of them unless they are too many, and the
\* saved record itself when that has them all.
LEMMA TogetherIs ==
  ASSUME NEW kept \in Seq(PaperTrade), NEW z \in Seq(PaperTrade), Traced(kept, z), Len(kept) <= MaxTrades
  PROVE  /\ Together(kept, z) \in Seq(PaperTrade) /\ Len(Together(kept, z)) \in Nat
         /\ Len(Together(kept, z)) <= MaxTrades
         /\ Traced(Together(kept, z), z)
         /\ Len(z) <= Len(kept) => Together(kept, z) = kept
         /\ Len(z) <= MaxTrades =>
              \A k \in 1 .. Len(z) : \E j \in 1 .. Len(Together(kept, z)) : Together(kept, z)[j].at = z[k].at
  <1> DEFINE x == Together(kept, z)
             R == FileRows(z)
             w == Extra(kept, z)
             y == kept \o w
  <1>1. /\ R \in Seq(PaperTrade) /\ Len(R) = Len(z) /\ Len(z) \in Nat
        /\ \A i \in 1 .. Len(z) : Len(z) + 1 - i \in 1 .. Len(z) /\ R[i].at = z[Len(z) + 1 - i].at
    BY FileRowsAre
  <1>2. Traced(R, z)
    BY TracedRows
  <1>3. /\ w \in Seq(PaperTrade) /\ Len(w) \in Nat
        /\ \E d : /\ Tracks(d, w, z)
                  /\ \A i \in 1 .. Len(w), j \in 1 .. Len(kept) : w[i].at # kept[j].at
        /\ Len(z) <= MaxTrades =>
             \A k \in 1 .. Len(z) : \/ \E j \in 1 .. Len(kept) : kept[j].at = z[k].at
                                    \/ \E i \in 1 .. Len(w) : w[i].at = z[k].at
    BY ExtraIs
  <1>4. PICK m : Tracks(m, kept, z)
    BY DEF Traced
  <1>5. x = IF kept = <<>> THEN Newest(R) ELSE Newest(y)
    BY DEF Together
  <1>6. /\ y \in Seq(PaperTrade) /\ Len(kept) \in Nat /\ Len(y) = Len(kept) + Len(w)
        /\ \A i \in 1 .. Len(kept) : y[i] = kept[i]
        /\ \A i \in 1 .. Len(w) : y[Len(kept) + i] = w[i]
        /\ (kept = <<>>) <=> (Len(kept) = 0)
    <2> HIDE DEF w
    <2> QED BY <1>3, Joined
  <1>7. Len(w) = 0 => y = kept
    <2> HIDE DEF w
    <2> QED BY <1>3
  <1> HIDE DEF R, w, y, x
  <1>8. Traced(y, z)
    <2>1. PICK d : /\ Tracks(d, w, z)
                   /\ \A i \in 1 .. Len(w), j \in 1 .. Len(kept) : w[i].at # kept[j].at
      BY <1>3
    <2> QED BY <1>3, <1>4, <2>1, TracedTogether DEF y
  <1>9. CASE kept = <<>>
    <2>1. x = Newest(R)
      BY <1>5, <1>9
    <2>2. /\ x \in Seq(PaperTrade) /\ Len(x) \in Nat /\ Len(x) <= MaxTrades /\ Len(x) <= Len(R)
          /\ (Len(R) <= MaxTrades => x = R)
      BY <1>1, <2>1, NewestIs
    <2>3. Traced(x, z)
      BY <1>1, <1>2, <2>1, TracedNewest
    <2>4. Len(z) <= Len(kept) => x = kept
      BY <1>1, <1>6, <1>9, <2>2
    <2>5. ASSUME Len(z) <= MaxTrades, NEW k \in 1 .. Len(z) PROVE \E j \in 1 .. Len(x) : x[j].at = z[k].at
      <3> DEFINE j == Len(z) + 1 - k
      <3>1. j \in 1 .. Len(z) /\ Len(z) + 1 - j = k
        BY <1>1
      <3> HIDE DEF j
      <3>2. x = R /\ j \in 1 .. Len(x) /\ x[j].at = z[k].at
        BY <1>1, <2>2, <2>5, <3>1
      <3> QED BY <3>2
    <2> QED BY <2>2, <2>3, <2>4, <2>5 DEF x
  <1>10. CASE kept # <<>>
    <2>1. x = Newest(y)
      BY <1>5, <1>10
    <2>2. /\ x \in Seq(PaperTrade) /\ Len(x) \in Nat /\ Len(x) <= MaxTrades
          /\ (Len(y) <= MaxTrades => x = y)
      BY <1>6, <2>1, NewestIs
    <2>3. Traced(x, z)
      BY <1>6, <1>8, <2>1, TracedNewest
    <2>4. Len(y) <= Len(z)
      BY <1>6, <1>8, TracedFits
    <2>5. ASSUME Len(z) <= Len(kept) PROVE x = kept
      <3>1. Len(w) = 0
        BY <1>1, <1>3, <1>6, <2>4, <2>5
      <3>2. y = kept
        BY <1>7, <3>1
      <3> QED BY <2>2, <3>2
    <2>6. ASSUME Len(z) <= MaxTrades, NEW k \in 1 .. Len(z) PROVE \E j \in 1 .. Len(x) : x[j].at = z[k].at
      <3>1. x = y
        <4>1. Len(y) <= MaxTrades
          BY <1>1, <1>3, <1>6, <2>4, <2>6, RestartAssumption
        <4> QED BY <2>2, <4>1
      <3>2. CASE \E j \in 1 .. Len(kept) : kept[j].at = z[k].at
        <4>1. \A j \in 1 .. Len(kept) : j \in 1 .. Len(y)
          BY <1>3, <1>6
        <4> QED BY <1>6, <3>1, <3>2, <4>1
      <3>3. CASE \E i \in 1 .. Len(w) : w[i].at = z[k].at
        <4>1. PICK i \in 1 .. Len(w) : w[i].at = z[k].at
          BY <3>3
        <4>2. Len(kept) + i \in 1 .. Len(y) /\ y[Len(kept) + i] = w[i]
          BY <1>3, <1>6
        <4> QED BY <3>1, <4>1, <4>2
      <3> QED BY <1>3, <2>6, <3>2, <3>3
    <2> QED BY <2>2, <2>3, <2>5, <2>6 DEF x
  <1> QED BY <1>9, <1>10

-----------------------------------------------------------------------------
(* Trading. *)

PaperFile == [trades : Seq(PaperTrade), torn : BOOLEAN]

PaperTypeOK ==
  /\ BookOK(book)
  /\ trades \in Seq(PaperTrade) /\ csv \in Seq(PaperTrade)
  /\ file \in PaperFile
  /\ dirty \in BOOLEAN /\ clock \in Nat

Trading == Scalp \/ Sleeve \/ PlaceOrder \/ CancelOrder \/ Tick

\* The time of a trade, and nothing else of it.
LEMMA StampedIsTrade ==
  ASSUME NEW r \in PaperTrade, NEW t \in Int
  PROVE  /\ Stamped(r, t) \in PaperTrade
         /\ Stamped(r, t).at = t
         /\ Stamped(r, t).side = r.side /\ Stamped(r, t).key = r.key /\ Stamped(r, t).balance = r.balance
         /\ Stamped(r, t).reason = r.reason /\ Stamped(r, t).position = r.position
  BY DEF Stamped, PaperTrade

\* Whatever the trader does, it does soundly.
LEMMA TradingIsSound ==
  ASSUME PaperTypeOK, Trading
  PROVE  \E s : Sound(book, s) /\ Do(s)
  <1>0. BookOK(book)
    BY DEF PaperTypeOK
  <1>1. /\ \A p \in Prices : p \in Nat /\ p \in Int /\ p > 0
        /\ \A a \in Atrs : a \in Int
        /\ \A a \in Allocations : a \in Int
    BY PaperAssumption
  <1>2. CASE Scalp
    <2>1. PICK k \in Scalpers, d \in {"BUY", "SELL", "HOLD"}, p \in Prices, a \in Atrs :
            Do(Execute(book, k, d, p, a))
      BY <1>2 DEF Scalp
    <2>2. Sound(book, Execute(book, k, d, p, a))
      BY <1>0, <1>1, ExecuteIsSound
    <2> QED BY <2>1, <2>2
  <1>3. CASE Sleeve
    <2>1. PICK k \in Cores, p \in Prices :
            \/ Do(CloseCore(book, k, p))
            \/ \E a \in Allocations : \/ Do(OpenCore(book, k, p, a))
                                      \/ Do(GrowCore(book, k, p, a))
                                      \/ Do(TrimCore(book, k, p, a))
      BY <1>3 DEF Sleeve
    <2>2. k \in Keys /\ k \notin Satellites /\ "core" \in Reasons
      BY PaperAssumption DEF Keys, Reasons
    <2>3. Sound(book, CloseCore(book, k, p))
      BY <1>0, <1>1, <2>2, CloseIsSound DEF CloseCore
    <2>4. \A a \in Allocations : /\ Sound(book, OpenCore(book, k, p, a)) /\ Sound(book, GrowCore(book, k, p, a))
                                /\ Sound(book, TrimCore(book, k, p, a))
      BY <1>0, <1>1, <2>2, OpenCoreIsSound, GrowCoreIsSound, TrimCoreIsSound
    <2> QED BY <2>1, <2>3, <2>4
  <1>4. CASE PlaceOrder
    <2>1. PICK k \in Satellites, sig \in Signals : Do(PlaceSatelliteOrder(book, k, sig.limit, sig.stop, sig.size))
      BY <1>4 DEF PlaceOrder
    <2>2. Sound(book, PlaceSatelliteOrder(book, k, sig.limit, sig.stop, sig.size))
      BY <1>0, PlaceIsSound
    <2> QED BY <2>1, <2>2
  <1>5. CASE CancelOrder
    <2>1. PICK k \in Satellites : Do(Nothing(CancelSatelliteOrder(book, k)))
      BY <1>5 DEF CancelOrder
    <2>2. Sound(book, Nothing(CancelSatelliteOrder(book, k)))
      BY <1>0, CancelIsSound
    <2> QED BY <2>1, <2>2
  <1>6. CASE Tick
    <2>1. PICK k \in Satellites, p \in Prices, event \in {"none", "late", "weak"} :
            Do(SatelliteTick(book, k, p, event))
      BY <1>6 DEF Tick
    <2>2. Sound(book, SatelliteTick(book, k, p, event))
      BY <1>0, <1>1, TickIsSound
    <2> QED BY <2>1, <2>2
  <1> QED BY <1>2, <1>3, <1>4, <1>5, <1>6 DEF Trading

\* What an operation writes: the rows w after those of the file; the last one is recorded, or none.
Writes(s, w) ==
  /\ w \in Seq(PaperTrade) /\ Len(w) = Len(s.rows)
  /\ csv' = csv \o w
  /\ book' = s.book /\ file' = file /\ clock' \in Nat
  /\ \/ s.record = NoRecord /\ trades' = trades /\ dirty' = dirty
     \/ /\ s.record # NoRecord /\ Len(w) > 0 /\ w[Len(w)] = Stamped(s.record, clock')
        /\ trades' = Newest(<<w[Len(w)]>> \o trades) /\ dirty' = TRUE

\* A sound outcome is written down.
LEMMA DoWrites ==
  ASSUME PaperTypeOK, NEW s, Sound(book, s), Do(s)
  PROVE  \E w : Writes(s, w)
  <1> DEFINE n == Len(s.rows)
  <1>1. s.rows \in Seq(PaperTrade) /\ n \in Nat /\ (s.rows # <<>> => n > 0) /\ clock \in Nat
        /\ \A i \in 1 .. n : s.rows[i] \in PaperTrade
    <2> DEFINE x == s.rows
    <2>1. x \in Seq(PaperTrade) /\ clock \in Nat
      BY DEF Sound, PaperTypeOK
    <2> HIDE DEF x
    <2>2. Len(x) \in Nat /\ (x # <<>> => Len(x) > 0) /\ \A i \in 1 .. Len(x) : x[i] \in PaperTrade
      BY <2>1
    <2> QED BY <2>1, <2>2 DEF x
  <1>2. PICK apart \in BOOLEAN :
          LET time == [i \in 1 .. n |-> clock + (IF apart THEN i ELSE 1)]
          IN /\ book' = s.book
             /\ csv' = csv \o [i \in 1 .. n |-> Stamped(s.rows[i], time[i])]
             /\ clock' = IF n = 0 THEN clock ELSE time[n]
             /\ IF s.record = NoRecord THEN UNCHANGED <<trades, dirty>>
                ELSE trades' = Newest(<<Stamped(s.record, time[n])>> \o trades) /\ dirty' = TRUE
             /\ UNCHANGED file
    BY Zenon DEF Do
  <1> DEFINE time == [i \in 1 .. n |-> clock + (IF apart THEN i ELSE 1)]
             w == [i \in 1 .. n |-> Stamped(s.rows[i], time[i])]
  <1>3. \A i \in 1 .. n : time[i] \in Nat
    BY <1>1
  <1>4. /\ book' = s.book
        /\ csv' = csv \o w
        /\ clock' = IF n = 0 THEN clock ELSE time[n]
        /\ IF s.record = NoRecord THEN UNCHANGED <<trades, dirty>>
           ELSE trades' = Newest(<<Stamped(s.record, time[n])>> \o trades) /\ dirty' = TRUE
        /\ UNCHANGED file
    BY <1>2
  <1> HIDE DEF time
  <1>5. \A i \in 1 .. n : Stamped(s.rows[i], time[i]) \in PaperTrade
    <2> SUFFICES ASSUME NEW i \in 1 .. n PROVE Stamped(s.rows[i], time[i]) \in PaperTrade
      OBVIOUS
    <2> DEFINE r == s.rows[i]
               u == time[i]
    <2>1. r \in PaperTrade /\ u \in Int
      BY <1>1, <1>3
    <2> HIDE DEF r, u
    <2>2. Stamped(r, u) \in PaperTrade
      BY <2>1, StampedIsTrade
    <2> QED BY <2>2 DEF r, u
  <1>6. w \in Seq(PaperTrade) /\ Len(w) = n /\ \A i \in 1 .. n : w[i] = Stamped(s.rows[i], time[i])
    <2> DEFINE e == [i \in 1 .. n |-> Stamped(s.rows[i], time[i])]
    <2>1. n \in Nat /\ \A i \in 1 .. n : Stamped(s.rows[i], time[i]) \in PaperTrade
      BY <1>1, <1>5
    <2> HIDE DEF n
    <2>2. e \in Seq(PaperTrade) /\ Len(e) = n
      BY <2>1
    <2> QED BY <2>2
  <1> HIDE DEF w
  <1>7. clock' \in Nat
    <2>1. CASE n = 0
      BY <1>1, <1>4, <2>1
    <2>2. CASE n # 0
      <3>1. n \in 1 .. n
        BY <1>1, <2>2
      <3> QED BY <1>3, <1>4, <2>2, <3>1
    <2> QED BY <2>1, <2>2
  <1>8. ASSUME s.record # NoRecord PROVE Len(w) > 0 /\ w[Len(w)] = Stamped(s.record, clock') /\ time[n] = clock'
    <2>1. s.rows # <<>> /\ s.record = s.rows[n]
      BY <1>8 DEF Sound
    <2>2. n > 0 /\ n \in 1 .. n
      BY <1>1, <2>1
    <2>3. time[n] = clock'
      BY <1>1, <1>4, <2>2
    <2>4. w[n] = Stamped(s.rows[n], time[n])
      BY <1>6, <2>2
    <2> HIDE DEF n
    <2> QED BY <1>6, <2>1, <2>2, <2>3, <2>4
  <1>9. Writes(s, w)
    <2>1. CASE s.record = NoRecord
      <3>1. trades' = trades /\ dirty' = dirty
        BY <1>4, <2>1
      <3> QED BY <1>4, <1>6, <1>7, <2>1, <3>1 DEF Writes
    <2>2. CASE s.record # NoRecord
      <3>1. trades' = Newest(<<w[Len(w)]>> \o trades) /\ dirty' = TRUE
        BY <1>4, <1>8, <2>2
      <3> QED BY <1>4, <1>6, <1>7, <1>8, <2>2, <3>1 DEF Writes
    <2> QED BY <2>1, <2>2
  <1> QED BY <1>9

-----------------------------------------------------------------------------
(* The account is typed. *)

LEMMA PaperInitTyped == ASSUME PaperInit PROVE PaperTypeOK
  <1>1. NewBook \in Book /\ \A k \in Satellites : OrderRests(NewBook, k)
    <2> DEFINE positions == [k \in Keys |-> Flat]
               pending == [k \in Satellites |-> NoOrder]
    <2>1. positions \in [Keys -> PaperLeg] /\ pending \in [Satellites -> Order]
      BY FlatIsLeg DEF NoOrder, Order
    <2>2. \A k \in Satellites : pending[k].reserve = 0
      BY DEF NoOrder
    <2>3. InitialBalance \in Int
      BY PaperAssumption
    <2>4. NewBook = [balance |-> InitialBalance, reserved |-> 0, pnl |-> 0, positions |-> positions, pending |-> pending]
      BY DEF NewBook
    <2> HIDE DEF positions, pending
    <2> QED BY <2>1, <2>2, <2>3, <2>4 DEF Book, OrderRests
  <1>2. <<>> \in Seq(PaperTrade)
    OBVIOUS
  <1>3. file \in PaperFile
    BY <1>2 DEF PaperInit, PaperFile
  <1> QED BY <1>1, <1>2, <1>3 DEF PaperInit, PaperTypeOK, BookOK

LEMMA TradingTyped == ASSUME PaperTypeOK, Trading PROVE PaperTypeOK'
  <1>1. PICK s : Sound(book, s) /\ Do(s)
    BY TradingIsSound
  <1>2. PICK w : Writes(s, w)
    BY <1>1, DoWrites
  <1>3. BookOK(book') /\ file' \in PaperFile /\ clock' \in Nat
    BY <1>1, <1>2 DEF Writes, Sound, PaperTypeOK
  <1>4. csv' \in Seq(PaperTrade)
    <2>1. csv \in Seq(PaperTrade) /\ w \in Seq(PaperTrade) /\ csv' = csv \o w
      BY <1>2 DEF Writes, PaperTypeOK
    <2> QED BY <2>1
  <1>5. trades' \in Seq(PaperTrade) /\ dirty' \in BOOLEAN
    <2>1. w \in Seq(PaperTrade) /\ trades \in Seq(PaperTrade) /\ dirty \in BOOLEAN
      BY <1>2 DEF Writes, PaperTypeOK
    <2>2. CASE trades' = trades /\ dirty' = dirty
      BY <2>1, <2>2
    <2>3. CASE Len(w) > 0 /\ trades' = Newest(<<w[Len(w)]>> \o trades) /\ dirty' = TRUE
      <3> DEFINE x == <<w[Len(w)]>> \o trades
      <3>1. x \in Seq(PaperTrade)
        <4>1. w[Len(w)] \in PaperTrade
          BY <2>1, <2>3
        <4> QED BY <2>1, <4>1
      <3> HIDE DEF x
      <3>2. Newest(x) \in Seq(PaperTrade)
        BY <3>1, NewestIs
      <3> QED BY <2>3, <3>2 DEF x
    <2> QED BY <1>2, <2>2, <2>3 DEF Writes
  <1> QED BY <1>3, <1>4, <1>5 DEF PaperTypeOK

-----------------------------------------------------------------------------
(* The record and the book stay together. *)

\* The positions are those that the record s tells.
Stands(s, b) ==
  \A k \in Keys : b.positions[k].qty = Reopened(s)[k].qty /\ b.positions[k].cost = Reopened(s)[k].cost

\* A record that has every trade tells the positions; one that has them all and is saved is what
\* a restart loads.
RecordInv ==
  /\ Len(trades) <= MaxTrades /\ Len(file.trades) <= MaxTrades
  /\ Traced(trades, csv) /\ Traced(file.trades, csv)
  /\ ~dirty /\ file.torn => file.trades = trades
  /\ ~dirty /\ ~file.torn /\ Len(csv) <= Len(trades) => trades = Loaded
  /\ Len(csv) <= Len(trades) => Stands(trades, book)

PaperInv == PaperTypeOK /\ RecordInv

LEMMA NothingTraced ==
  ASSUME NEW z \in Seq(PaperTrade), NEW s, s = <<>>
  PROVE  s \in Seq(PaperTrade) /\ Len(s) = 0 /\ Traced(s, z)
  <1>1. s \in Seq(PaperTrade) /\ Len(s) = 0 /\ 1 .. Len(s) = {}
    OBVIOUS
  <1>2. [i \in {} |-> 1] \in [{} -> 1 .. Len(z)]
    OBVIOUS
  <1>3. Tracks([i \in {} |-> 1], s, z)
    BY <1>1, <1>2 DEF Tracks
  <1> QED BY <1>1, <1>3 DEF Traced

\* One more trade, recorded alone.
LEMMA StandsGrows ==
  ASSUME NEW s \in Seq(PaperTrade), NEW r \in PaperTrade, r.reason # "row", NEW b, NEW c, Stands(s, b), Books(b, c, r)
  PROVE  Stands(<<r>> \o s, c)
  <1> DEFINE o == Reopened(s)
             n == Replayed(o, r)
             buys == r.side = "BUY" \/ r.reason = "resize"
             p == IF buys THEN Restored(r) ELSE Flat
             q == IF buys THEN r.position ELSE Flat
  <1>1. o \in Holdings /\ Reopened(<<r>> \o s) = n
    BY ReopenedHolds, ReopenedGrows
  <1>2. p.qty = q.qty /\ p.cost = q.cost
    BY RestoredIsLeg
  <1>3. n = [o EXCEPT ![r.key] = p]
    BY DEF Replayed
  <1>4. r.key \in Keys
    BY DEF PaperTrade
  <1>5. /\ c.positions[r.key].qty = q.qty /\ c.positions[r.key].cost = q.cost
        /\ \A k \in Keys \ {r.key} : /\ c.positions[k].qty = b.positions[k].qty
                                      /\ c.positions[k].cost = b.positions[k].cost
    <2> HIDE DEF o, n
    <2> QED BY <1>4 DEF Books
  <1>6. \A k \in Keys : b.positions[k].qty = o[k].qty /\ b.positions[k].cost = o[k].cost
    BY DEF Stands
  <1> HIDE DEF o, n, p, q
  <1>7. n[r.key] = p /\ \A k \in Keys \ {r.key} : n[k] = o[k]
    BY <1>1, <1>3, <1>4 DEF Holdings
  <1>8. \A k \in Keys : c.positions[k].qty = n[k].qty /\ c.positions[k].cost = n[k].cost
    BY <1>2, <1>5, <1>6, <1>7
  <1> QED BY <1>1, <1>8 DEF Stands

\* What a restart would load now.
LEMMA LoadedIs ==
  ASSUME PaperInv
  PROVE  /\ Loaded \in Seq(PaperTrade) /\ Len(Loaded) \in Nat /\ Len(Loaded) <= MaxTrades /\ Traced(Loaded, csv)
         /\ Len(csv) <= MaxTrades =>
              \A k \in 1 .. Len(csv) : \E j \in 1 .. Len(Loaded) : Loaded[j].at = csv[k].at
  <1> DEFINE kept == IF file.torn THEN <<>> ELSE file.trades
  <1>1. csv \in Seq(PaperTrade) /\ file.trades \in Seq(PaperTrade) /\ Traced(file.trades, csv)
        /\ Len(file.trades) <= MaxTrades
    BY DEF PaperInv, PaperTypeOK, RecordInv, PaperFile
  <1>2. kept \in Seq(PaperTrade) /\ Traced(kept, csv) /\ Len(kept) <= MaxTrades
    <2>1. 0 <= MaxTrades
      BY RestartAssumption
    <2>2. CASE file.torn
      <3>1. kept = <<>>
        BY <2>2
      <3> HIDE DEF kept
      <3> QED BY <1>1, <2>1, <3>1, NothingTraced
    <2>3. CASE ~file.torn
      BY <1>1, <2>3
    <2> QED BY <2>2, <2>3
  <1>3. Loaded = Together(kept, csv)
    BY LoadedIsTogether
  <1> HIDE DEF kept
  <1> DEFINE x == Together(kept, csv)
  <1>4. /\ x \in Seq(PaperTrade) /\ Len(x) \in Nat /\ Len(x) <= MaxTrades /\ Traced(x, csv)
        /\ Len(csv) <= MaxTrades => \A k \in 1 .. Len(csv) : \E j \in 1 .. Len(x) : x[j].at = csv[k].at
    BY <1>1, <1>2, TogetherIs
  <1> HIDE DEF x
  <1>5. Loaded = x
    BY <1>3 DEF x
  <1> QED BY <1>4, <1>5

LEMMA PaperInitInv == ASSUME PaperInit PROVE PaperInv
  <1>1. PaperTypeOK
    BY PaperInitTyped
  <1>2. trades = <<>> /\ csv = <<>> /\ file.trades = <<>> /\ file.torn = FALSE /\ book = NewBook /\ dirty = FALSE
    BY DEF PaperInit
  <1>3. Traced(trades, csv) /\ Traced(file.trades, csv) /\ Len(trades) = 0 /\ Len(file.trades) = 0 /\ 0 <= MaxTrades
    <2>1. csv \in Seq(PaperTrade) /\ 0 <= MaxTrades
      BY <1>1, RestartAssumption DEF PaperTypeOK
    <2> QED BY <1>2, <2>1, NothingTraced
  <1>4. trades = Loaded
    <2> DEFINE none == <<>>
    <2>1. none \in Seq(PaperTrade) /\ Traced(none, none) /\ Len(none) = 0 /\ Len(none) <= MaxTrades /\ Len(none) <= Len(none)
      <3>1. none \in Seq(PaperTrade) /\ none = <<>> /\ 0 <= MaxTrades
        BY RestartAssumption
      <3> HIDE DEF none
      <3>2. Len(none) = 0 /\ Traced(none, none)
        BY <3>1, NothingTraced
      <3> QED BY <3>1, <3>2
    <2> HIDE DEF none
    <2>2. Together(none, none) = none
      BY <2>1, TogetherIs
    <2>3. Loaded = Together(none, none)
      BY <1>2, LoadedIsTogether DEF none
    <2> QED BY <1>2, <2>2, <2>3 DEF none
  <1>5. Stands(trades, book)
    <2> DEFINE none == <<>>
    <2>1. none \in Seq(PaperTrade) /\ Len(none) = 0
      OBVIOUS
    <2> HIDE DEF none
    <2>2. Reopened(none) = [k \in Keys |-> Flat]
      <3>1. PICK g :
               /\ g[{}] = [k \in Keys |-> Flat]
               /\ \A k \in 1 .. Len(none) : g[1 .. k] = Replayed(g[1 .. k - 1], none[Len(none) - k + 1])
               /\ Reopened(none) = g[1 .. Len(none)]
        BY <2>1, ReopenedSteps
      <3>2. 1 .. 0 = {}
        OBVIOUS
      <3> QED BY <2>1, <3>1, <3>2
    <2>3. trades = none /\ book.positions = [k \in Keys |-> Flat]
      BY <1>2 DEF none, NewBook
    <2> QED BY <2>2, <2>3 DEF Stands
  <1>6. RecordInv
    BY <1>2, <1>3, <1>4, <1>5 DEF RecordInv
  <1> QED BY <1>1, <1>6 DEF PaperInv

\* A trade that is not recorded, or not alone, leaves a record that misses one.
LEMMA PaperInvTrading == ASSUME PaperInv, Trading PROVE PaperInv'
  <1>0. PaperTypeOK'
    BY TradingTyped DEF PaperInv
  <1>1. PICK s : Sound(book, s) /\ Do(s)
    BY TradingIsSound DEF PaperInv
  <1>2. PICK w : Writes(s, w)
    BY <1>1, DoWrites DEF PaperInv
  <1>3. /\ trades \in Seq(PaperTrade) /\ csv \in Seq(PaperTrade) /\ w \in Seq(PaperTrade)
        /\ Len(trades) \in Nat /\ Len(csv) \in Nat /\ Len(w) \in Nat
    <2>1. trades \in Seq(PaperTrade) /\ csv \in Seq(PaperTrade) /\ w \in Seq(PaperTrade)
      BY <1>2 DEF PaperInv, PaperTypeOK, Writes
    <2> QED BY <2>1
  <1>4. /\ Len(trades) <= MaxTrades /\ Len(file.trades) <= MaxTrades
        /\ Traced(trades, csv) /\ Traced(file.trades, csv) /\ file.trades \in Seq(PaperTrade)
    BY DEF PaperInv, RecordInv, PaperTypeOK, PaperFile
  <1>5. Len(trades) <= Len(csv)
    BY <1>3, <1>4, TracedFits
  <1>6. csv' = csv \o w /\ file' = file /\ book' = s.book /\ Len(w) = Len(s.rows)
    BY <1>2 DEF Writes
  <1>7. Len(csv') = Len(csv) + Len(w)
    <2>1. Len(csv \o w) = Len(csv) + Len(w)
      BY <1>3, Joined
    <2> QED BY <1>6, <2>1
  <1>8. Traced(file.trades, csv')
    BY <1>3, <1>4, <1>6, TracedGrows
  <1>9. CASE s.record = NoRecord
    <2>1. trades' = trades /\ dirty' = dirty
      BY <1>2, <1>9 DEF Writes
    <2>2. Traced(trades', csv')
      BY <1>3, <1>4, <1>6, <2>1, TracedGrows
    <2>3. ASSUME Len(csv') <= Len(trades') PROVE csv' = csv /\ s.rows = <<>> /\ Len(csv) <= Len(trades)
      <3>1. Len(w) = 0 /\ Len(csv) <= Len(trades)
        BY <1>3, <1>5, <1>7, <2>1, <2>3
      <3>2. csv' = csv
        BY <1>3, <1>6, <3>1
      <3>3. s.rows = <<>>
        <4> DEFINE x == s.rows
        <4>1. x \in Seq(PaperTrade) /\ Len(x) = 0
          BY <1>1, <1>6, <3>1 DEF Sound
        <4> HIDE DEF x
        <4>2. x = <<>>
          BY <4>1
        <4> QED BY <4>2 DEF x
      <3> QED BY <3>1, <3>2, <3>3
    <2>4. ASSUME ~dirty', ~file'.torn, Len(csv') <= Len(trades') PROVE trades' = Loaded'
      <3>1. trades = Loaded
        BY <1>6, <2>1, <2>3, <2>4 DEF PaperInv, RecordInv
      <3>2. Loaded' = Loaded
        BY <1>6, <2>3, <2>4, LoadedIsTogether
      <3> QED BY <2>1, <3>1, <3>2
    <2>5. ASSUME Len(csv') <= Len(trades') PROVE Stands(trades', book')
      <3>1. Stands(trades, book)
        BY <2>3, <2>5 DEF PaperInv, RecordInv
      <3>2. Alike(book, book')
        BY <1>1, <1>6, <2>3, <2>5 DEF Sound
      <3> QED BY <2>1, <3>1, <3>2 DEF Stands, Alike
    <2>6. ~dirty' /\ file'.torn => file'.trades = trades'
      BY <1>6, <2>1 DEF PaperInv, RecordInv
    <2>7. RecordInv'
      BY <1>4, <1>6, <1>8, <2>1, <2>2, <2>4, <2>5, <2>6 DEF RecordInv
    <2> QED BY <1>0, <2>7 DEF PaperInv
  <1>10. CASE s.record # NoRecord
    <2> DEFINE r == w[Len(w)]
               x == <<r>> \o trades
    <2>1. Len(w) > 0 /\ r = Stamped(s.record, clock') /\ trades' = Newest(x) /\ dirty' = TRUE /\ clock' \in Nat
      BY <1>2, <1>10 DEF Writes
    <2>2. Traced(x, csv')
      BY <1>3, <1>4, <1>6, <2>1, TracedNewer
    <2>3. r \in PaperTrade /\ x \in Seq(PaperTrade) /\ Len(x) = Len(trades) + 1
      <3>1. r \in PaperTrade
        BY <1>3, <2>1
      <3> HIDE DEF r
      <3> QED BY <1>3, <3>1
    <2> HIDE DEF r
    <2>4. csv' \in Seq(PaperTrade)
      BY <1>0 DEF PaperTypeOK
    <2>5. /\ Traced(trades', csv')
          /\ Len(trades') \in Nat /\ Len(trades') <= MaxTrades /\ Len(trades') <= Len(x)
          /\ Len(x) <= MaxTrades => trades' = x
      <3> HIDE DEF x
      <3>1. Traced(Newest(x), csv')
        BY <2>2, <2>3, <2>4, TracedNewest
      <3>2. /\ Len(Newest(x)) \in Nat /\ Len(Newest(x)) <= MaxTrades /\ Len(Newest(x)) <= Len(x)
            /\ Len(x) <= MaxTrades => Newest(x) = x
        BY <2>3, NewestIs
      <3> QED BY <2>1, <3>1, <3>2
    <2>6. ASSUME Len(csv') <= Len(trades') PROVE Stands(trades', book')
      <3>1. Len(w) = 1 /\ Len(csv) <= Len(trades) /\ Len(x) <= MaxTrades
        <4> DEFINE u == Len(w)
                   v == Len(csv)
                   y == Len(trades)
                   z == Len(trades')
                   l == Len(x)
        <4>1. /\ u \in Nat /\ v \in Nat /\ y \in Nat /\ z \in Nat /\ MaxTrades \in Nat
              /\ u > 0 /\ y <= v /\ v + u <= z /\ z <= MaxTrades /\ z <= l /\ l = y + 1
          BY <1>3, <1>5, <1>7, <2>1, <2>3, <2>5, <2>6, RestartAssumption
        <4> HIDE DEF u, v, y, z, l
        <4>2. u = 1 /\ v <= y /\ l <= MaxTrades
          BY <4>1
        <4> QED BY <4>2 DEF u, v, y, z, l
      <3>2. trades' = x
        BY <2>5, <3>1
      <3>3. Stands(trades, book)
        BY <3>1 DEF PaperInv, RecordInv
      <3>4. /\ Books(book, book', s.record) /\ s.record \in PaperTrade /\ s.record.reason # "row"
        BY <1>1, <1>6, <1>10, <3>1 DEF Sound
      <3>5. Books(book, book', r) /\ r.reason # "row"
        <4>1. clock' \in Int
          BY <2>1
        <4>2. r.key = s.record.key /\ r.side = s.record.side /\ r.reason = s.record.reason
              /\ r.position = s.record.position
          BY <2>1, <3>4, <4>1, StampedIsTrade
        <4> QED BY <3>4, <4>2 DEF Books
      <3>6. Stands(x, book')
        BY <1>3, <2>3, <3>3, <3>5, StandsGrows
      <3> QED BY <3>2, <3>6
    <2>7. RecordInv'
      <3> HIDE DEF x
      <3> QED BY <1>4, <1>6, <1>8, <2>1, <2>5, <2>6 DEF RecordInv
    <2> QED BY <1>0, <2>7 DEF PaperInv
  <1> QED BY <1>9, <1>10

\* A save writes the record of its moment.
LEMMA PaperInvSaves == ASSUME PaperInv, StartSave \/ EndSave PROVE PaperInv'
  <1>1. /\ trades \in Seq(PaperTrade) /\ csv \in Seq(PaperTrade) /\ file \in PaperFile /\ dirty \in BOOLEAN
        /\ file.trades \in Seq(PaperTrade) /\ file.torn \in BOOLEAN
    BY DEF PaperInv, PaperTypeOK, PaperFile
  <1>2. CASE StartSave
    <2>1. /\ file' = [trades |-> trades, torn |-> TRUE] /\ dirty' = FALSE
          /\ UNCHANGED <<book, trades, csv, clock>>
      BY <1>2 DEF StartSave
    <2>2. file'.trades = trades /\ file'.torn = TRUE /\ file' \in PaperFile
      BY <1>1, <2>1 DEF PaperFile
    <2>3. PaperTypeOK'
      BY <2>1, <2>2 DEF PaperInv, PaperTypeOK
    <2>4. RecordInv'
      BY <2>1, <2>2 DEF PaperInv, RecordInv
    <2> QED BY <2>3, <2>4 DEF PaperInv
  <1>3. CASE EndSave
    <2>1. /\ file.torn /\ file' = [file EXCEPT !.torn = FALSE] /\ UNCHANGED <<book, trades, csv, dirty, clock>>
      BY <1>3 DEF EndSave
    <2>2. file'.trades = file.trades /\ file'.torn = FALSE /\ file' \in PaperFile
      BY <1>1, <2>1 DEF PaperFile
    <2>3. PaperTypeOK'
      BY <2>1, <2>2 DEF PaperInv, PaperTypeOK
    <2>4. ASSUME ~dirty, Len(csv) <= Len(trades) PROVE trades = Loaded'
      <3>1. file.trades = trades /\ Traced(trades, csv) /\ Len(trades) <= MaxTrades
        BY <2>1, <2>4 DEF PaperInv, RecordInv
      <3>2. Loaded' = Together(trades, csv)
        BY <2>1, <2>2, <3>1, LoadedIsTogether
      <3>3. Together(trades, csv) = trades
        BY <1>1, <2>4, <3>1, TogetherIs
      <3> QED BY <3>2, <3>3
    <2>5. RecordInv'
      BY <2>1, <2>2, <2>4 DEF PaperInv, RecordInv
    <2> QED BY <2>3, <2>5 DEF PaperInv
  <1> QED BY <1>2, <1>3

\* A restart has the positions from what it loads.
LEMMA PaperInvRestart == ASSUME PaperInv, Restart PROVE PaperInv'
  <1> DEFINE s == Loaded
             cash == IF s # <<>> /\ s[1].balance > 0 THEN s[1].balance ELSE InitialBalance
  <1>1. /\ book' = [NewBook EXCEPT !.balance = cash, !.positions = Reopened(s)]
        /\ trades' = s /\ dirty' = FALSE
        /\ file' = IF file.torn THEN [trades |-> <<>>, torn |-> FALSE] ELSE file
        /\ csv' = csv /\ clock' = clock
    BY DEF Restart
  <1>2. s \in Seq(PaperTrade) /\ Len(s) \in Nat /\ Len(s) <= MaxTrades /\ Traced(s, csv)
    BY LoadedIs
  <1>3. s = Together(IF file.torn THEN <<>> ELSE file.trades, csv)
    BY LoadedIsTogether
  <1> HIDE DEF s
  <1>4. cash \in Int
    <2>1. CASE s # <<>>
      <3>1. s[1] \in PaperTrade
        BY <1>2, <2>1
      <3>2. s[1].balance \in Int
        BY <3>1 DEF PaperTrade
      <3> QED BY <3>2, PaperAssumption
    <2>2. CASE s = <<>>
      BY <2>2, PaperAssumption
    <2> QED BY <2>1, <2>2
  <1> HIDE DEF cash
  <1>5. BookOK(book') /\ book'.positions = Reopened(s)
    <2> DEFINE o == Reopened(s)
               pending == [k \in Satellites |-> NoOrder]
               free == [k \in Keys |-> Flat]
    <2>1. o \in [Keys -> PaperLeg]
      BY <1>2, ReopenedHolds DEF Holdings
    <2>2. pending \in [Satellites -> Order] /\ \A k \in Satellites : pending[k].reserve = 0
      BY DEF NoOrder, Order
    <2>3. book' = [[balance |-> InitialBalance, reserved |-> 0, pnl |-> 0, positions |-> free, pending |-> pending]
                     EXCEPT !.balance = cash, !.positions = o]
      BY <1>1 DEF NewBook
    <2> HIDE DEF o, pending, free
    <2>4. book' = [balance |-> cash, reserved |-> 0, pnl |-> 0, positions |-> o, pending |-> pending]
      BY <2>3
    <2>5. book' \in Book
      BY <1>4, <2>1, <2>2, <2>4 DEF Book
    <2>6. \A k \in Satellites : OrderRests(book', k)
      BY <2>2, <2>4 DEF OrderRests
    <2>7. book'.positions = o
      BY <2>4
    <2> QED BY <2>5, <2>6, <2>7 DEF BookOK, o
  <1>6. /\ file \in PaperFile /\ csv \in Seq(PaperTrade) /\ clock \in Nat
        /\ Traced(file.trades, csv) /\ Len(file.trades) <= MaxTrades
    BY DEF PaperInv, PaperTypeOK, RecordInv
  <1>7. /\ file' \in PaperFile /\ file'.torn = FALSE /\ Traced(file'.trades, csv)
        /\ Len(file'.trades) <= MaxTrades
        /\ file'.trades = IF file.torn THEN <<>> ELSE file.trades
    <2>1. CASE file.torn
      <3> DEFINE none == <<>>
      <3>0. none = <<>>
        OBVIOUS
      <3>1. file' = [trades |-> none, torn |-> FALSE]
        BY <1>1, <2>1
      <3> HIDE DEF none
      <3>2. none \in Seq(PaperTrade) /\ Len(none) = 0 /\ Traced(none, csv) /\ 0 <= MaxTrades
        BY <1>6, <3>0, NothingTraced, RestartAssumption
      <3> QED BY <2>1, <3>0, <3>1, <3>2 DEF PaperFile
    <2>2. CASE ~file.torn
      BY <1>1, <1>6, <2>2 DEF PaperFile
    <2> QED BY <2>1, <2>2
  <1>8. PaperTypeOK'
    BY <1>1, <1>2, <1>5, <1>6, <1>7 DEF PaperTypeOK
  <1>9. trades' = Loaded'
    BY <1>1, <1>3, <1>7, LoadedIsTogether
  <1>10. Stands(trades', book')
    BY <1>1, <1>5 DEF Stands
  <1>11. RecordInv'
    BY <1>1, <1>2, <1>7, <1>9, <1>10 DEF RecordInv
  <1> QED BY <1>8, <1>11 DEF PaperInv

LEMMA PaperInvStutters == ASSUME PaperInv, UNCHANGED paperVars PROVE PaperInv'
  <1>1. UNCHANGED <<book, trades, file, csv, dirty, clock>>
    BY DEF paperVars
  <1>2. Loaded' = Loaded
    BY <1>1, LoadedIsTogether
  <1> QED BY <1>1, <1>2 DEF PaperInv, PaperTypeOK, RecordInv

LEMMA PaperInvStep == ASSUME PaperInv, [PaperNext]_paperVars PROVE PaperInv'
  BY PaperInvTrading, PaperInvSaves, PaperInvRestart, PaperInvStutters DEF PaperNext, Trading

\* The invariant of the paper account.
THEOREM PaperInvariant == PaperSpec => []PaperInv
  <1>1. PaperInit => PaperInv
    BY PaperInitInv
  <1>2. PaperInv /\ [PaperNext]_paperVars => PaperInv'
    BY PaperInvStep
  <1> QED BY <1>1, <1>2, PTL DEF PaperSpec

-----------------------------------------------------------------------------
(* What it promises. *)

\* Whatever the prices and however an operation ends, the cash, the reserves and the cost of the
\* positions together change by what was realised alone.  (The methods of PaperTrader: one lemma
\* says it of each.)
THEOREM BooksBalance == PaperSpec => CashKept
  <1> DEFINE Kept == Worth(book') - book'.pnl = Worth(book) - book.pnl
  <1>1. ASSUME PaperInv, [PaperNext]_paperVars PROVE [Kept \/ Restart]_paperVars
    <2>1. CASE Trading
      <3>1. PICK s : Sound(book, s) /\ Do(s)
        BY <1>1, <2>1, TradingIsSound DEF PaperInv
      <3>2. PICK w : Writes(s, w)
        BY <1>1, <3>1, DoWrites DEF PaperInv
      <3>3. book' = s.book /\ KeepsWorth(book, s.book)
        BY <3>1, <3>2 DEF Writes, Sound
      <3> QED BY <3>3 DEF KeepsWorth
    <2>2. CASE StartSave \/ EndSave
      <3>1. book' = book
        BY <2>2 DEF StartSave, EndSave
      <3> QED BY <3>1
    <2> QED BY <1>1, <2>1, <2>2 DEF PaperNext, Trading
  <1>2. PaperInv /\ [PaperNext]_paperVars => [Kept \/ Restart]_paperVars
    BY <1>1
  <1> QED BY <1>2, PaperInvariant, PTL DEF PaperSpec, CashKept

\* A restart, even in the middle of a save, loads every trade of the trade file, as long as they are no
\* more than the record holds.  (The constructor of DashboardState.)
THEOREM TradesAreRemembered == PaperSpec => NoTradeForgotten
  <1> DEFINE Known == Len(csv) <= MaxTrades /\ Restart
                        => \A i \in DOMAIN csv : \E j \in DOMAIN trades' : trades'[j].at = csv[i].at
  <1>1. ASSUME PaperInv PROVE Known
    <2> SUFFICES ASSUME Len(csv) <= MaxTrades, Restart
                 PROVE  \A i \in DOMAIN csv : \E j \in DOMAIN trades' : trades'[j].at = csv[i].at
      OBVIOUS
    <2> DEFINE s == Loaded
    <2>1. s \in Seq(PaperTrade) /\ \A k \in 1 .. Len(csv) : \E j \in 1 .. Len(s) : s[j].at = csv[k].at
      BY <1>1, LoadedIs
    <2>2. trades' = s
      BY DEF Restart
    <2>3. csv \in Seq(PaperTrade)
      BY <1>1 DEF PaperInv, PaperTypeOK
    <2> HIDE DEF s
    <2>4. DOMAIN csv = 1 .. Len(csv) /\ DOMAIN s = 1 .. Len(s)
      BY <2>1, <2>3
    <2> QED BY <2>1, <2>2, <2>4
  <1>2. PaperInv => [Known]_paperVars
    BY <1>1
  <1> QED BY <1>2, PaperInvariant, PTL DEF PaperSpec, NoTradeForgotten

\* From a record with all the trades and nothing left to save, a restart rebuilds every position as it
\* was and takes the cash of the newest trade.  (main.js, restorePosition.)
THEOREM RestartsFindThePositions == PaperSpec => SettledRestart
  <1> DEFINE Found == Settled /\ Restart =>
                        /\ csv # <<>> => book'.balance = csv[Len(csv)].balance
                        /\ \A k \in Keys : /\ Lots(book', k) = Lots(book, k)
                                           /\ book'.positions[k].cost = book.positions[k].cost
  <1>1. ASSUME PaperInv PROVE Found
    <2> SUFFICES ASSUME Settled, Restart
                 PROVE  /\ csv # <<>> => book'.balance = csv[Len(csv)].balance
                        /\ \A k \in Keys : /\ Lots(book', k) = Lots(book, k)
                                           /\ book'.positions[k].cost = book.positions[k].cost
      OBVIOUS
    <2>1. trades \in Seq(PaperTrade) /\ csv \in Seq(PaperTrade)
      BY <1>1 DEF PaperInv, PaperTypeOK
    <2>2. /\ DOMAIN trades = 1 .. Len(trades) /\ DOMAIN csv = 1 .. Len(csv)
          /\ Len(trades) \in Nat /\ Len(csv) \in Nat
      BY <2>1
    <2>3. DOMAIN trades = DOMAIN csv /\ \A i \in DOMAIN trades : trades[i].at = csv[Len(csv) + 1 - i].at
      <3> DEFINE f == [i \in DOMAIN trades |-> trades[i].at]
                 g == [i \in DOMAIN csv |-> csv[Len(csv) + 1 - i].at]
      <3>1. f = g
        BY DEF Settled
      <3>2. DOMAIN f = DOMAIN trades /\ DOMAIN g = DOMAIN csv
        OBVIOUS
      <3>3. DOMAIN trades = DOMAIN csv
        BY <3>1, <3>2
      <3>4. \A i \in DOMAIN trades : f[i] = trades[i].at /\ g[i] = csv[Len(csv) + 1 - i].at
        BY <3>3
      <3> HIDE DEF f, g
      <3> QED BY <3>1, <3>3, <3>4
    <2>4. Len(trades) = Len(csv)
      <3>1. 1 .. Len(trades) = 1 .. Len(csv)
        BY <2>2, <2>3, Zenon
      <3>2. ASSUME NEW n \in Nat, NEW m \in Nat, 1 .. n = 1 .. m PROVE n <= m
        <4>1. CASE n = 0
          BY <4>1
        <4>2. CASE n # 0
          <5>1. n \in 1 .. n
            BY <4>2
          <5>2. n \in 1 .. m
            BY <3>2, <5>1
          <5> QED BY <5>2
        <4> QED BY <4>1, <4>2
      <3>3. Len(trades) <= Len(csv) /\ Len(csv) <= Len(trades)
        BY <2>2, <3>1, <3>2, Zenon
      <3> DEFINE u == Len(trades)
                 v == Len(csv)
      <3>4. u \in Nat /\ v \in Nat /\ u <= v /\ v <= u
        BY <2>2, <3>3
      <3> HIDE DEF u, v
      <3>5. u = v
        BY <3>4
      <3> QED BY <3>5 DEF u, v
    <2>5. trades = Loaded /\ Stands(trades, book) /\ Traced(trades, csv)
      BY <1>1, <2>2, <2>4 DEF PaperInv, RecordInv, Settled
    <2> DEFINE cash == IF trades # <<>> /\ trades[1].balance > 0 THEN trades[1].balance ELSE InitialBalance
    <2>6. book' = [NewBook EXCEPT !.balance = cash, !.positions = Reopened(trades)]
      BY <2>5 DEF Restart
    <2>7. book'.balance = cash /\ book'.positions = Reopened(trades)
      <3> HIDE DEF cash
      <3> QED BY <2>6 DEF NewBook
    <2>8. \A k \in Keys : /\ Lots(book', k) = Lots(book, k)
                         /\ book'.positions[k].cost = book.positions[k].cost
      BY <2>5, <2>7 DEF Stands, Lots
    <2>9. ASSUME csv # <<>> PROVE cash = csv[Len(csv)].balance
      <3> DEFINE n == Len(csv)
      <3>1. n \in Nat /\ n > 0 /\ n \in 1 .. n /\ 1 \in 1 .. n
        BY <2>1, <2>9
      <3>2. PICK m : Tracks(m, trades, csv)
        BY <2>5 DEF Traced
      <3>3. PICK i \in 1 .. n : m[i] = n
        <4>1. n <= Len(trades)
          BY <2>2, <2>4
        <4>2. \A k \in 1 .. Len(csv) : \E j \in 1 .. Len(trades) : m[j] = k
          BY <2>1, <3>2, <4>1, TracksAll
        <4> QED BY <2>4, <3>1, <4>2
      <3>4. i = 1
        <4>1. trades[i].at = csv[n].at
          BY <2>4, <3>2, <3>3 DEF Tracks
        <4>2. trades[1].at = csv[n].at
          <5>1. Len(csv) + 1 - 1 = n
            BY <3>1
          <5> QED BY <2>2, <2>3, <3>1, <5>1
        <4>3. m[1] \in 1 .. n
          BY <2>4, <3>1, <3>2 DEF Tracks
        <4>4. ASSUME 1 < i PROVE FALSE
          <5>1. m[1] > m[i]
            <6>1. 1 \in 1 .. Len(trades) /\ i \in 1 .. Len(trades) /\ trades[1].at = trades[i].at
              BY <2>4, <3>1, <4>1, <4>2
            <6> QED BY <3>2, <4>4, <6>1 DEF Tracks
          <5> QED BY <3>1, <3>3, <4>3, <5>1
        <4> QED BY <3>1, <4>4
      <3>5. trades[1].balance = csv[n].balance
        BY <2>4, <3>2, <3>3, <3>4 DEF Tracks
      <3>6. csv[n].balance > 0 /\ trades # <<>>
        <4>1. csv[n].balance > 0
          BY <2>9 DEF Settled
        <4>2. Len(trades) > 0
          BY <2>4, <3>1
        <4>3. trades # <<>>
          BY <2>1, <4>2
        <4> QED BY <4>1, <4>3
      <3> QED BY <3>5, <3>6
    <2> HIDE DEF cash
    <2> QED BY <2>7, <2>8, <2>9
  <1>2. PaperInv => [Found]_paperVars
    BY <1>1
  <1> QED BY <1>2, PaperInvariant, PTL DEF PaperSpec, SettledRestart
===============================================================================
