-------------------------- MODULE AlgorithmProofs --------------------------
(***************************************************************************)
(* Pure functions of the crate on every input, where MCAlgorithms evaluates*)
(* them on chosen ones: the pairing of filaments and trays (AmsMapping),   *)
(* the calendar and the years a listing leaves out (ListingDates), and what*)
(* platform failures are reported as (PlatformIo).                         *)
(***************************************************************************)
EXTENDS MCAlgorithms, FiniteSetTheorems, SequenceTheorems, WellFoundedInduction, TLAPS

-----------------------------------------------------------------------------
(* Induction over the numbers, for sets, and what it is used for here: a   *)
(* function that is computed step by step exists.                          *)

LEMMA NumbersIn ==
  ASSUME NEW S, 0 \in S, \A n \in Nat : n \in S => n + 1 \in S
  PROVE  Nat \subseteq S
  <1> DEFINE T == Nat \ S
             R == {ss \in Nat \X Nat : ss[1] < ss[2]}
  <1> SUFFICES ASSUME T # {} PROVE FALSE  OBVIOUS
  <1>1. IsWellFoundedOn(R, Nat)  BY NatLessThanWellFounded DEF OpToRel
  <1>2. PICK x \in T : \A y \in T : ~(<<y, x>> \in R)
    <2> HIDE DEF R
    <2> QED BY <1>1, WFMin
  <1>3. x # 0 /\ x - 1 \in Nat  OBVIOUS
  <1>4. <<x - 1, x>> \in R  BY <1>3
  <1>5. x - 1 \notin T  BY <1>2, <1>4
  <1> QED BY <1>3, <1>5

Stepwise(g, n, base, step) ==
  g[0] = base /\ \A k \in 1..n : g[k] = step[<<k, g[k - 1]>>]

LEMMA StepsExist ==
  ASSUME NEW N \in Nat, NEW S, NEW base \in S, NEW step \in [(1..N) \X S -> S]
  PROVE  \E g \in [0..N -> S] : Stepwise(g, N, base, step)
  <1> DEFINE Good == {n \in Nat : n <= N => \E g \in [0..n -> S] : Stepwise(g, n, base, step)}
  <1>1. 0 \in Good
    <2>1. [k \in 0..0 |-> base] \in [0..0 -> S] /\ Stepwise([k \in 0..0 |-> base], 0, base, step)
      BY DEF Stepwise
    <2> QED BY <2>1
  <1>2. ASSUME NEW n \in Nat, n \in Good PROVE n + 1 \in Good
    <2> SUFFICES ASSUME n + 1 <= N
                 PROVE  \E h \in [0..(n + 1) -> S] : Stepwise(h, n + 1, base, step)
      OBVIOUS
    <2>1. PICK g \in [0..n -> S] : Stepwise(g, n, base, step)  BY <1>2
    <2> DEFINE v == step[<<n + 1, g[n]>>]
               h == [k \in 0..(n + 1) |-> IF k <= n THEN g[k] ELSE v]
    <2>2. v \in S
      <3>1. n + 1 \in 1..N /\ g[n] \in S  BY <2>1
      <3> QED BY <3>1
    <2>3. h \in [0..(n + 1) -> S]
      <3> HIDE DEF v
      <3> QED BY <2>1, <2>2
    <2>4. h[0] = base  BY <2>1 DEF Stepwise
    <2>5. ASSUME NEW k \in 1..(n + 1) PROVE h[k] = step[<<k, h[k - 1]>>]
      <3>1. CASE k \in 1..n
        <4>1. h[k] = g[k] /\ h[k - 1] = g[k - 1]  BY <3>1
        <4>2. g[k] = step[<<k, g[k - 1]>>]  BY <2>1, <3>1 DEF Stepwise
        <4> QED BY <4>1, <4>2
      <3>2. CASE k = n + 1
        <4>1. h[k] = v /\ h[k - 1] = g[n]  BY <3>2
        <4> QED BY <3>2, <4>1
      <3> QED BY <3>1, <3>2
    <2> HIDE DEF h
    <2>6. Stepwise(h, n + 1, base, step)  BY <2>4, <2>5 DEF Stepwise
    <2> QED BY <2>3, <2>6
  <1>3. Nat \subseteq Good
    <2> HIDE DEF Good
    <2> QED BY <1>1, <1>2, NumbersIn
  <1>4. N \in Good
    <2> HIDE DEF Good
    <2> QED BY <1>3
  <1> QED BY <1>4

-----------------------------------------------------------------------------
(* The pairs in row order                                                  *)

PairAt(cols, k) == <<((k - 1) \div cols) + 1, ((k - 1) % cols) + 1>>

LEMMA Rows ==
  ASSUME NEW n \in Nat, NEW c \in Nat \ {0}, NEW m \in Nat
  PROVE  /\ m \div c \in Nat /\ m % c \in 0..(c - 1)
         /\ m = c * (m \div c) + (m % c)
         /\ m < n * c => m \div c < n
  <1>1. m \div c \in Nat /\ m % c \in 0..(c - 1)  OBVIOUS
  <1>2. m = c * (m \div c) + (m % c)  OBVIOUS
  <1>3. ASSUME NEW q \in Nat, NEW r \in 0..(c - 1), m = c * q + r, m < n * c PROVE q < n
    <2> SUFFICES ASSUME q >= n PROVE FALSE  BY <1>3
    <2>1. PICK d \in Nat : q = n + d  BY Z3
    <2>2. c * q = n * c + c * d  BY <2>1
    <2>3. c * d \in Nat /\ n * c \in Nat  OBVIOUS
    <2> QED BY <1>3, <2>2, <2>3
  <1> QED BY <1>1, <1>2, <1>3

LEMMA RowOf ==
  ASSUME NEW c \in Nat \ {0}, NEW q \in Nat, NEW r \in 0..(c - 1)
  PROVE  (c * q + r) \div c = q /\ (c * q + r) % c = r
  <1> DEFINE m == c * q + r
             p == m \div c
             s == m % c
  <1>1. m \in Nat  OBVIOUS
  <1>2. p \in Nat /\ s \in 0..(c - 1) /\ m = c * p + s  BY <1>1, Rows
  <1>3. c * p \in Nat /\ c * q \in Nat  BY <1>2
  <1> HIDE DEF p, s
  <1>4. CASE p < q
    <2>1. PICK d \in Nat : q = p + 1 + d  BY <1>2, <1>4, Z3
    <2>2. c * q = c * p + c + c * d /\ c * d \in Nat  BY <1>2, <2>1
    <2> QED BY <1>2, <1>3, <2>2
  <1>5. CASE q < p
    <2>1. PICK d \in Nat : p = q + 1 + d  BY <1>2, <1>5, Z3
    <2>2. c * p = c * q + c + c * d /\ c * d \in Nat  BY <1>2, <2>1
    <2> QED BY <1>2, <1>3, <2>2
  <1>6. CASE p = q  BY <1>2, <1>3, <1>6 DEF p, s
  <1> QED BY <1>2, <1>4, <1>5, <1>6

LEMMA PairAtType ==
  ASSUME NEW n \in Nat, NEW c \in Nat \ {0}, NEW k \in 1..(n * c)
  PROVE  PairAt(c, k) \in (1..n) \X (1..c)
  <1>1. k - 1 \in Nat /\ k - 1 < n * c
    <2>1. n * c \in Nat  OBVIOUS
    <2> QED BY <2>1
  <1>2. (k - 1) \div c \in Nat /\ (k - 1) \div c < n /\ (k - 1) % c \in 0..(c - 1)
    BY <1>1, Rows
  <1> QED BY <1>2 DEF PairAt

LEMMA PairAtOnto ==
  ASSUME NEW n \in Nat, NEW c \in Nat \ {0}, NEW i \in 1..n, NEW j \in 1..c
  PROVE  \E k \in 1..(n * c) : PairAt(c, k) = <<i, j>>
  <1> DEFINE k == c * (i - 1) + (j - 1) + 1
  <1>1. i - 1 \in Nat /\ j - 1 \in 0..(c - 1)  OBVIOUS
  <1>2. k - 1 = c * (i - 1) + (j - 1) /\ k \in Nat \ {0}
    <2>1. c * (i - 1) \in Nat  BY <1>1
    <2> QED BY <1>1, <2>1
  <1>3. (k - 1) \div c = i - 1 /\ (k - 1) % c = j - 1  BY <1>1, <1>2, RowOf
  <1>4. PairAt(c, k) = <<i, j>>
    <2> HIDE DEF k
    <2> QED BY <1>3 DEF PairAt
  <1>5. k <= n * c
    <2>1. PICK d \in Nat : n = (i - 1) + 1 + d  BY Z3
    <2>2. n * c = c * (i - 1) + c + c * d /\ c * d \in Nat /\ c * (i - 1) \in Nat  BY <1>1, <2>1
    <2> QED BY <1>1, <2>2
  <1>6. k \in 1..(n * c)
    <2>1. n * c \in Nat  OBVIOUS
    <2> HIDE DEF k
    <2> QED BY <1>2, <1>5, <2>1
  <1> QED BY <1>4, <1>6

-----------------------------------------------------------------------------
(* The best pair                                                           *)

\* The colours are numbers (rgba, parsed).
Tinted(s) == \A i \in DOMAIN s : s[i].color \in Int

Pairs(wanted, trays) == (DOMAIN wanted) \X (DOMAIN trays)
DistanceOf(wanted, trays, p) == PairDistance(wanted[p[1]], trays[p[2]])
OpenPair(wanted, trays, result, allowUsed, p) ==
  /\ result[p[1]] = None /\ FreeTray(result, p[2], allowUsed)
  /\ DistanceOf(wanted, trays, p) # None

LEMMA DistanceType ==
  ASSUME NEW w, NEW t, w.color \in Int, t.color \in Int
  PROVE  PairDistance(w, t) \in Int \cup {None} /\ (PairDistance(w, t) # None <=> w.type = t.type)
         /\ (PairDistance(w, t) # None => PairDistance(w, t) \in Int)
  <1>1. ColorDistance(w.color, t.color) \in Int  BY DEF ColorDistance
  <1>2. CASE w.type = t.type
    <2>1. PairDistance(w, t) = ColorDistance(w.color, t.color)
                                 + (IF SameClass(w.fid, t.fid) THEN 10000 ELSE 20000)
      BY <1>2 DEF PairDistance
    <2>2. (IF SameClass(w.fid, t.fid) THEN 10000 ELSE 20000) \in Int  OBVIOUS
    <2>3. PairDistance(w, t) \in Int  BY <1>1, <2>1, <2>2
    <2> QED BY <1>2, <2>3, NoneAssumption
  <1>3. CASE w.type # t.type  BY <1>3 DEF PairDistance
  <1> QED BY <1>2, <1>3

\* The distance of a filament from a tray, for the pairs of two sequences.
LEMMA DistanceIn ==
  ASSUME NEW wanted, NEW trays, Tinted(wanted), Tinted(trays), NEW p \in Pairs(wanted, trays)
  PROVE  /\ DistanceOf(wanted, trays, p) \in Int \cup {None}
         /\ DistanceOf(wanted, trays, p) # None => DistanceOf(wanted, trays, p) \in Int
         /\ DistanceOf(wanted, trays, p) # None <=> wanted[p[1]].type = trays[p[2]].type
  <1>1. p[1] \in DOMAIN wanted /\ p[2] \in DOMAIN trays  BY DEF Pairs
  <1>2. wanted[p[1]].color \in Int /\ trays[p[2]].color \in Int  BY <1>1 DEF Tinted
  <1> QED BY <1>2, DistanceType DEF DistanceOf

\* A pair that is better is as near; one that is not is as far.
LEMMA BetterIsNear ==
  ASSUME NEW wanted, NEW trays, NEW p, NEW b, b # None,
         DistanceOf(wanted, trays, p) \in Int, DistanceOf(wanted, trays, b) \in Int
  PROVE  /\ BetterPair(wanted, trays, p, b) => DistanceOf(wanted, trays, p) <= DistanceOf(wanted, trays, b)
         /\ ~BetterPair(wanted, trays, p, b) => DistanceOf(wanted, trays, b) <= DistanceOf(wanted, trays, p)
  BY DEF BetterPair, DistanceOf

LEMMA InPairs ==
  ASSUME NEW W, NEW T, NEW wanted \in Seq(W), NEW trays \in Seq(T)
  PROVE  /\ Len(wanted) * Len(trays) \in Nat
         /\ \A l \in 1..(Len(wanted) * Len(trays)) : PairAt(Len(trays), l) \in Pairs(wanted, trays)
         /\ \A q \in Pairs(wanted, trays) :
              \E l \in 1..(Len(wanted) * Len(trays)) : PairAt(Len(trays), l) = q
         /\ \A q \in Pairs(wanted, trays) : q # None
  <1> DEFINE n == Len(wanted)
             c == Len(trays)
  <1>1. n \in Nat /\ c \in Nat /\ DOMAIN wanted = 1..n /\ DOMAIN trays = 1..c  OBVIOUS
  <1> HIDE DEF n, c
  <1>2. n * c \in Nat  BY <1>1
  <1>3. ASSUME NEW l \in 1..(n * c) PROVE PairAt(c, l) \in Pairs(wanted, trays)
    <2>1. c # 0
      <3> SUFFICES ASSUME c = 0 PROVE FALSE  OBVIOUS
      <3>1. n * c = 0  BY <1>1
      <3> QED BY <3>1
    <2>2. PairAt(c, l) \in (1..n) \X (1..c)  BY <1>1, <2>1, PairAtType
    <2> QED BY <1>1, <2>2 DEF Pairs
  <1>4. ASSUME NEW q \in Pairs(wanted, trays) PROVE \E l \in 1..(n * c) : PairAt(c, l) = q
    <2>1. q[1] \in 1..n /\ q[2] \in 1..c /\ q = <<q[1], q[2]>>  BY <1>1 DEF Pairs
    <2>2. c \in Nat \ {0}  BY <1>1, <2>1
    <2>3. \E l \in 1..(n * c) : PairAt(c, l) = <<q[1], q[2]>>  BY <1>1, <2>1, <2>2, PairAtOnto
    <2> QED BY <2>1, <2>3
  <1>5. ASSUME NEW q \in Pairs(wanted, trays) PROVE q # None
    <2>1. q \in Nat \X Nat  BY <1>1 DEF Pairs
    <2> QED BY <2>1, NoneIsNoPair
  <1> QED BY <1>2, <1>3, <1>4, <1>5 DEF n, c

\* What best_pair's scan holds after the first k pairs.
Scanned(wanted, trays, result, allowUsed, k, b) ==
  /\ b \in Pairs(wanted, trays) \cup {None}
  /\ b # None => OpenPair(wanted, trays, result, allowUsed, b)
  /\ \A l \in 1..k : OpenPair(wanted, trays, result, allowUsed, PairAt(Len(trays), l)) =>
       /\ b # None
       /\ DistanceOf(wanted, trays, b) <= DistanceOf(wanted, trays, PairAt(Len(trays), l))

LEMMA ScanOn ==
  ASSUME NEW W, NEW T, NEW wanted \in Seq(W), NEW trays \in Seq(T), Tinted(wanted), Tinted(trays),
         NEW result, NEW allowUsed, NEW k \in Nat, k + 1 <= Len(wanted) * Len(trays),
         NEW p, p = PairAt(Len(trays), k + 1), NEW b, NEW c,
         Scanned(wanted, trays, result, allowUsed, k, b),
         c = IF OpenPair(wanted, trays, result, allowUsed, p) /\ BetterPair(wanted, trays, p, b) THEN p ELSE b
  PROVE  Scanned(wanted, trays, result, allowUsed, k + 1, c)
  <1> DEFINE O(q) == OpenPair(wanted, trays, result, allowUsed, q)
             D(q) == DistanceOf(wanted, trays, q)
             P(l) == PairAt(Len(trays), l)
  <1>1. \A q \in Pairs(wanted, trays) : O(q) => D(q) \in Int  BY DistanceIn DEF OpenPair
  <1>2. \A l \in 1..(k + 1) : P(l) \in Pairs(wanted, trays)
    <2>1. Len(wanted) * Len(trays) \in Nat  BY InPairs
    <2>2. \A l \in 1..(k + 1) : l \in 1..(Len(wanted) * Len(trays))  BY <2>1
    <2> QED BY <2>2, InPairs
  <1>3. \A l \in 1..(k + 1) : l \in 1..k \/ P(l) = p  OBVIOUS
  <1>4. p \in Pairs(wanted, trays) /\ p # None
    <2>1. k + 1 \in 1..(k + 1)  OBVIOUS
    <2> QED BY <1>2, <2>1, InPairs
  <1>5. \A l \in 1..k : O(P(l)) => b # None /\ D(b) <= D(P(l))  BY DEF Scanned
  <1>6. b \in Pairs(wanted, trays) \cup {None} /\ (b # None => O(b))  BY DEF Scanned
  <1>7. b # None => D(b) \in Int  BY <1>1, <1>6
  <1>8. \A l \in 1..k : O(P(l)) => D(P(l)) \in Int  BY <1>1, <1>2
  <1> HIDE DEF P
  <1>9. CASE O(p) /\ BetterPair(wanted, trays, p, b)
    <2>1. c = p  BY <1>9
    <2>2. b # None => D(p) <= D(b)  BY <1>1, <1>4, <1>7, <1>9, BetterIsNear
    <2>3. D(p) \in Int  BY <1>1, <1>4, <1>9
    <2> HIDE DEF O, D
    <2>4. \A l \in 1..(k + 1) : O(P(l)) => D(p) <= D(P(l))
      BY <1>3, <1>5, <1>7, <1>8, <2>2, <2>3
    <2> QED BY <1>4, <1>9, <2>1, <2>4 DEF O, D, P, Scanned
  <1>10. CASE ~(O(p) /\ BetterPair(wanted, trays, p, b))
    <2>1. c = b  BY <1>10
    <2>2. O(p) => b # None  BY <1>10 DEF BetterPair
    <2>3. O(p) => D(b) <= D(p)  BY <1>1, <1>4, <1>7, <1>10, <2>2, BetterIsNear
    <2> HIDE DEF O, D
    <2>4. \A l \in 1..(k + 1) : O(P(l)) => b # None /\ D(b) <= D(P(l))
      BY <1>3, <1>5, <2>2, <2>3
    <2> QED BY <1>6, <2>1, <2>4 DEF O, D, P, Scanned
  <1> QED BY <1>9, <1>10

\* best_pair returns an open pair no other is nearer than, or none when no pair is.
BestOf(wanted, trays, result, allowUsed, b) ==
  /\ b \in Pairs(wanted, trays) \cup {None}
  /\ b # None => OpenPair(wanted, trays, result, allowUsed, b)
  /\ \A q \in Pairs(wanted, trays) : OpenPair(wanted, trays, result, allowUsed, q) =>
       b # None /\ DistanceOf(wanted, trays, b) <= DistanceOf(wanted, trays, q)

LEMMA BestPairIs ==
  ASSUME NEW W, NEW T, NEW wanted \in Seq(W), NEW trays \in Seq(T), Tinted(wanted), Tinted(trays),
         NEW result, NEW allowUsed
  PROVE  BestOf(wanted, trays, result, allowUsed, BestPair(wanted, trays, result, allowUsed))
  <1> DEFINE N == Len(wanted) * Len(trays)
             S == Pairs(wanted, trays) \cup {None}
             next(k, b) == IF OpenPair(wanted, trays, result, allowUsed, PairAt(Len(trays), k))
                                /\ BetterPair(wanted, trays, PairAt(Len(trays), k), b)
                           THEN PairAt(Len(trays), k) ELSE b
             step == [x \in (1..N) \X S |-> next(x[1], x[2])]
             scan(g) == [k \in 0..N |-> IF k = 0 THEN None ELSE next(k, g[k - 1])]
             among == CHOOSE g : g = scan(g)
  <1>1. BestPair(wanted, trays, result, allowUsed) = among[N]
    BY DEF BestPair, OpenPair, PairAt, DistanceOf
  <1>2. N \in Nat  BY InPairs
  <1>3. step \in [(1..N) \X S -> S]
    <2>1. \A k \in 1..N, b \in S : next(k, b) \in S
      <3>1. \A k \in 1..N : PairAt(Len(trays), k) \in Pairs(wanted, trays)  BY InPairs
      <3> QED BY <3>1
    <2> HIDE DEF N, S, next
    <2> QED BY <2>1
  <1> HIDE DEF N
  <1>4. \E g : g = scan(g)
    <2>1. None \in S  OBVIOUS
    <2>2. PICK g \in [0..N -> S] : Stepwise(g, N, None, step)
      <3> HIDE DEF S, step
      <3> QED BY <1>2, <1>3, <2>1, StepsExist
    <2>3. ASSUME NEW k \in 0..N PROVE g[k] = scan(g)[k]
      <3>1. CASE k = 0  BY <2>2, <3>1 DEF Stepwise
      <3>2. CASE k \in 1..N
        <4>1. g[k] = step[<<k, g[k - 1]>>]  BY <2>2, <3>2 DEF Stepwise
        <4>2. <<k, g[k - 1]>> \in (1..N) \X S
          <5>1. k - 1 \in 0..N  BY <1>2, <3>2
          <5> HIDE DEF S
          <5> QED BY <2>2, <3>2, <5>1
        <4> HIDE DEF next, S
        <4>3. g[k] = next(k, g[k - 1])  BY <4>1, <4>2
        <4> QED BY <3>2, <4>3
      <3> QED BY <1>2, <3>1, <3>2
    <2> HIDE DEF next
    <2>4. scan(g) = [k \in 0..N |-> scan(g)[k]]  OBVIOUS
    <2>5. g = [k \in 0..N |-> g[k]]  BY <2>2
    <2> HIDE DEF scan
    <2>6. g = scan(g)  BY <2>3, <2>4, <2>5
    <2> QED BY <2>6
  <1>5. among = scan(among)
    <2> HIDE DEF scan
    <2> QED BY <1>4
  <1> HIDE DEF among
  <1>6. among[0] = None /\ \A k \in 1..N : among[k] = next(k, among[k - 1])
    <2> HIDE DEF next
    <2>1. \A k \in 0..N : among[k] = IF k = 0 THEN None ELSE next(k, among[k - 1])  BY <1>5
    <2> QED BY <1>2, <2>1
  <1> DEFINE Good == {k \in Nat : k <= N => Scanned(wanted, trays, result, allowUsed, k, among[k])}
  <1>7. 0 \in Good  BY <1>6 DEF Scanned
  <1>8. ASSUME NEW k \in Nat, k \in Good PROVE k + 1 \in Good
    <2> SUFFICES ASSUME k + 1 <= N
                 PROVE  Scanned(wanted, trays, result, allowUsed, k + 1, among[k + 1])
      OBVIOUS
    <2>1. Scanned(wanted, trays, result, allowUsed, k, among[k])  BY <1>2, <1>8
    <2>2. k + 1 \in 1..N /\ (k + 1) - 1 = k  BY <1>2
    <2>3. among[k + 1] = next(k + 1, among[k])  BY <1>6, <2>2
    <2>4. k + 1 <= Len(wanted) * Len(trays)  BY DEF N
    <2> QED BY <2>1, <2>3, <2>4, ScanOn
  <1>9. N \in Good
    <2> HIDE DEF Good
    <2> QED BY <1>2, <1>7, <1>8, NumbersIn
  <1>10. Scanned(wanted, trays, result, allowUsed, N, among[N])  BY <1>2, <1>9
  <1>11. \A q \in Pairs(wanted, trays) : \E l \in 1..N : PairAt(Len(trays), l) = q  BY InPairs DEF N
  <1> HIDE DEF next
  <1> QED BY <1>1, <1>10, <1>11 DEF Scanned, BestOf

-----------------------------------------------------------------------------
(* The rounds                                                              *)

\* The distance of filament i from tray t.
Far(wanted, trays, i, t) == DistanceOf(wanted, trays, <<i, t>>)
Fits(wanted, trays, i, t) == wanted[i].type = trays[t].type

\* What the rounds keep: a tray goes to the filament nearest to it of those that
\* wait, a filament misses a nearer tray only for one as near to that tray, and
\* trays are shared only when the material has no free one.
Matched(wanted, trays, r) ==
  /\ r \in [DOMAIN wanted -> DOMAIN trays \cup {None}]
  /\ \A i \in DOMAIN wanted : r[i] # None => Fits(wanted, trays, i, r[i])
  /\ \A i, j \in DOMAIN wanted : r[j] # None /\ r[i] = None /\ Fits(wanted, trays, i, r[j]) =>
       Far(wanted, trays, j, r[j]) <= Far(wanted, trays, i, r[j])
  /\ \A i \in DOMAIN wanted, o \in DOMAIN trays :
       /\ r[i] # None /\ Fits(wanted, trays, i, o)
       /\ Far(wanted, trays, i, o) < Far(wanted, trays, i, r[i])
       => \E j \in DOMAIN wanted : r[j] = o /\ Far(wanted, trays, j, o) <= Far(wanted, trays, i, o)
  /\ \A i, j \in DOMAIN wanted, o \in DOMAIN trays :
       i # j /\ r[i] # None /\ r[i] = r[j] /\ Fits(wanted, trays, i, o) =>
         \E l \in DOMAIN wanted : r[l] = o

NothingOpen(wanted, trays, r) ==
  \A i \in DOMAIN wanted, t \in DOMAIN trays : r[i] = None => ~Fits(wanted, trays, i, t)

\* What a round gives: filament i gets tray t.
Gives(wanted, trays, r, s, i, t) ==
  /\ r[i] = None /\ Fits(wanted, trays, i, t) /\ s = [r EXCEPT ![i] = t]
  /\ \/ /\ \A j \in DOMAIN wanted : r[j] # t
        /\ \A j \in DOMAIN wanted, o \in DOMAIN trays :
             r[j] = None /\ (\A l \in DOMAIN wanted : r[l] # o) /\ Fits(wanted, trays, j, o) =>
               Far(wanted, trays, i, t) <= Far(wanted, trays, j, o)
     \/ \A j \in DOMAIN wanted, o \in DOMAIN trays :
          r[j] = None /\ Fits(wanted, trays, j, o) =>
            /\ Far(wanted, trays, i, t) <= Far(wanted, trays, j, o)
            /\ \E l \in DOMAIN wanted : r[l] = o

LEMMA FarIn ==
  ASSUME NEW wanted, NEW trays, Tinted(wanted), Tinted(trays), NEW i \in DOMAIN wanted, NEW t \in DOMAIN trays
  PROVE  /\ Fits(wanted, trays, i, t) <=> Far(wanted, trays, i, t) # None
         /\ Fits(wanted, trays, i, t) => Far(wanted, trays, i, t) \in Int
  <1>1. <<i, t>> \in Pairs(wanted, trays)  BY DEF Pairs
  <1> QED BY <1>1, DistanceIn DEF Fits, Far

LEMMA OpenIs ==
  ASSUME NEW wanted, NEW trays, Tinted(wanted), Tinted(trays), NEW i \in DOMAIN wanted, NEW t \in DOMAIN trays,
         NEW r
  PROVE  OpenPair(wanted, trays, r, TRUE, <<i, t>>) <=> r[i] = None /\ Fits(wanted, trays, i, t)
  BY FarIn DEF OpenPair, FreeTray, Far

LEMMA RoundIs ==
  ASSUME NEW W, NEW T, NEW wanted \in Seq(W), NEW trays \in Seq(T), Tinted(wanted), Tinted(trays),
         NEW r \in [DOMAIN wanted -> DOMAIN trays \cup {None}]
  PROVE  \/ NothingOpen(wanted, trays, r) /\ MatchRound(wanted, trays, r) = r
         \/ \E i \in DOMAIN wanted, t \in DOMAIN trays :
              Gives(wanted, trays, r, MatchRound(wanted, trays, r), i, t)
  <1> DEFINE a == BestPair(wanted, trays, r, FALSE)
             b == BestPair(wanted, trays, r, TRUE)
             s == MatchRound(wanted, trays, r)
             Free(i, t) == OpenPair(wanted, trays, r, FALSE, <<i, t>>)
             Used(i, t) == OpenPair(wanted, trays, r, TRUE, <<i, t>>)
             D(i, t) == Far(wanted, trays, i, t)
  <1>1. s = IF Or(a, b) = None THEN r ELSE [r EXCEPT ![Or(a, b)[1]] = Or(a, b)[2]]
    BY DEF MatchRound
  <1>2. BestOf(wanted, trays, r, FALSE, a) /\ BestOf(wanted, trays, r, TRUE, b)  BY BestPairIs
  <1> HIDE DEF a, b, s
  <1>3. DOMAIN r = DOMAIN wanted  OBVIOUS
  <1>4. /\ a # None => a[1] \in DOMAIN wanted /\ a[2] \in DOMAIN trays /\ a = <<a[1], a[2]>>
                       /\ Free(a[1], a[2])
        /\ b # None => b[1] \in DOMAIN wanted /\ b[2] \in DOMAIN trays /\ b = <<b[1], b[2]>>
                       /\ Used(b[1], b[2])
    <2>1. \A q \in Pairs(wanted, trays) : q[1] \in DOMAIN wanted /\ q[2] \in DOMAIN trays /\ q = <<q[1], q[2]>>
      BY DEF Pairs
    <2>2. a # None => a \in Pairs(wanted, trays) /\ OpenPair(wanted, trays, r, FALSE, a)  BY <1>2 DEF BestOf
    <2>3. b # None => b \in Pairs(wanted, trays) /\ OpenPair(wanted, trays, r, TRUE, b)  BY <1>2 DEF BestOf
    <2> QED BY <2>1, <2>2, <2>3
  <1>5. \A j \in DOMAIN wanted, o \in DOMAIN trays :
          /\ Free(j, o) => a # None /\ DistanceOf(wanted, trays, a) <= D(j, o)
          /\ Used(j, o) => b # None /\ DistanceOf(wanted, trays, b) <= D(j, o)
    <2> SUFFICES ASSUME NEW j \in DOMAIN wanted, NEW o \in DOMAIN trays
                 PROVE  /\ Free(j, o) => a # None /\ DistanceOf(wanted, trays, a) <= D(j, o)
                        /\ Used(j, o) => b # None /\ DistanceOf(wanted, trays, b) <= D(j, o)
      OBVIOUS
    <2>1. <<j, o>> \in Pairs(wanted, trays)  BY DEF Pairs
    <2> QED BY <1>2, <2>1 DEF BestOf, Far
  <1>6. \A j \in DOMAIN wanted, o \in DOMAIN trays :
          /\ Used(j, o) <=> r[j] = None /\ Fits(wanted, trays, j, o)
          /\ Free(j, o) <=>
               /\ r[j] = None /\ Fits(wanted, trays, j, o)
               /\ \A l \in DOMAIN wanted : r[l] # o
    <2> SUFFICES ASSUME NEW j \in DOMAIN wanted, NEW o \in DOMAIN trays
                 PROVE  /\ Used(j, o) <=> r[j] = None /\ Fits(wanted, trays, j, o)
                        /\ Free(j, o) <=>
                             /\ r[j] = None /\ Fits(wanted, trays, j, o)
                             /\ \A l \in DOMAIN wanted : r[l] # o
      OBVIOUS
    <2>1. OpenPair(wanted, trays, r, TRUE, <<j, o>>) <=> r[j] = None /\ Fits(wanted, trays, j, o)
      BY OpenIs
    <2>2. OpenPair(wanted, trays, r, FALSE, <<j, o>>) <=>
            /\ r[j] = None /\ Fits(wanted, trays, j, o)
            /\ \A l \in DOMAIN wanted : r[l] # o
      BY <1>3, FarIn DEF OpenPair, FreeTray, Far
    <2> QED BY <2>1, <2>2
  <1> HIDE DEF Free, Used
  <1>7. CASE a # None
    <2> DEFINE i == a[1]
               t == a[2]
    <2>1. s = [r EXCEPT ![i] = t]  BY <1>1, <1>7 DEF Or
    <2>2. DistanceOf(wanted, trays, a) = D(i, t)  BY <1>4, <1>7 DEF Far
    <2> i \in DOMAIN wanted /\ t \in DOMAIN trays /\ Free(i, t)  BY <1>4, <1>7
    <2> HIDE DEF D, i, t
    <2>3. r[i] = None /\ Fits(wanted, trays, i, t) /\ \A j \in DOMAIN wanted : r[j] # t
      BY <1>6
    <2>4. \A j \in DOMAIN wanted, o \in DOMAIN trays :
            r[j] = None /\ (\A l \in DOMAIN wanted : r[l] # o) /\ Fits(wanted, trays, j, o) =>
              D(i, t) <= D(j, o)
      BY <1>5, <1>6, <2>2
    <2>5. Gives(wanted, trays, r, s, i, t)  BY <2>1, <2>3, <2>4 DEF Gives, D
    <2> QED BY <2>5 DEF s
  <1>8. CASE a = None /\ b # None
    <2> DEFINE i == b[1]
               t == b[2]
    <2>1. s = [r EXCEPT ![i] = t]  BY <1>1, <1>8 DEF Or
    <2>2. DistanceOf(wanted, trays, b) = D(i, t)  BY <1>4, <1>8 DEF Far
    <2> i \in DOMAIN wanted /\ t \in DOMAIN trays /\ Used(i, t)  BY <1>4, <1>8
    <2> HIDE DEF D, i, t
    <2>3. r[i] = None /\ Fits(wanted, trays, i, t)  BY <1>6
    <2>4. \A j \in DOMAIN wanted, o \in DOMAIN trays :
            r[j] = None /\ Fits(wanted, trays, j, o) =>
              /\ D(i, t) <= D(j, o)
              /\ \E l \in DOMAIN wanted : r[l] = o
      BY <1>5, <1>6, <1>8, <2>2
    <2>5. Gives(wanted, trays, r, s, i, t)  BY <2>1, <2>3, <2>4 DEF Gives, D
    <2> QED BY <2>5 DEF s
  <1>9. CASE a = None /\ b = None
    <2>1. s = r  BY <1>1, <1>9 DEF Or
    <2>2. NothingOpen(wanted, trays, r)  BY <1>5, <1>6, <1>9 DEF NothingOpen
    <2> QED BY <2>1, <2>2 DEF s
  <1> QED BY <1>7, <1>8, <1>9

LEMMA GivesKeeps ==
  ASSUME NEW W, NEW T, NEW wanted \in Seq(W), NEW trays \in Seq(T), Tinted(wanted), Tinted(trays),
         NEW r, NEW s, Matched(wanted, trays, r), NEW i \in DOMAIN wanted, NEW t \in DOMAIN trays,
         Gives(wanted, trays, r, s, i, t)
  PROVE  Matched(wanted, trays, s)
  <1> DEFINE I == DOMAIN wanted
             J == DOMAIN trays
             D(j, o) == Far(wanted, trays, j, o)
             F(j, o) == Fits(wanted, trays, j, o)
  <1>1. /\ r \in [I -> J \cup {None}]
        /\ \A j \in I : r[j] # None => F(j, r[j])
        /\ \A k, j \in I : r[j] # None /\ r[k] = None /\ F(k, r[j]) => D(j, r[j]) <= D(k, r[j])
        /\ \A k \in I, o \in J : r[k] # None /\ F(k, o) /\ D(k, o) < D(k, r[k]) =>
             \E j \in I : r[j] = o /\ D(j, o) <= D(k, o)
        /\ \A k, j \in I, o \in J : k # j /\ r[k] # None /\ r[k] = r[j] /\ F(k, o) => \E l \in I : r[l] = o
    BY DEF Matched
  <1>2. /\ r[i] = None /\ F(i, t) /\ s = [r EXCEPT ![i] = t]
        /\ \/ /\ \A j \in I : r[j] # t
              /\ \A j \in I, o \in J :
                   r[j] = None /\ (\A l \in I : r[l] # o) /\ F(j, o) => D(i, t) <= D(j, o)
           \/ \A j \in I, o \in J : r[j] = None /\ F(j, o) => D(i, t) <= D(j, o) /\ \E l \in I : r[l] = o
    BY DEF Gives
  <1>3. \A j \in I, o \in J : F(j, o) => D(j, o) \in Int  BY FarIn
  <1>4. t # None /\ None \notin J
    <2>1. J \subseteq Int  OBVIOUS
    <2> QED BY <2>1, NoneAssumption
  <1>5. \A j, k \in I, o, u \in J : F(j, u) /\ F(k, u) /\ F(j, o) => F(k, o)  BY DEF Fits
  <1> i \in I /\ t \in J  OBVIOUS
  <1> HIDE DEF I, J, D, F
  <1>6. s \in [I -> J \cup {None}] /\ s[i] = t /\ \A j \in I : j # i => s[j] = r[j]  BY <1>1, <1>2
  <1>7. \A j \in I, o \in J : r[j] = o => s[j] = o  BY <1>2, <1>4, <1>6
  <1>8. \A j \in I : s[j] # None => F(j, s[j])  BY <1>1, <1>2, <1>6
  <1>9. ASSUME NEW k \in I, NEW j \in I, s[j] # None, s[k] = None, F(k, s[j])
        PROVE  D(j, s[j]) <= D(k, s[j])
    <2>1. k # i /\ r[k] = None  BY <1>4, <1>6, <1>9
    <2>2. CASE j # i  BY <1>1, <1>6, <1>9, <2>1, <2>2
    <2>3. CASE j = i  BY <1>2, <1>6, <1>9, <2>1, <2>3
    <2> QED BY <2>2, <2>3
  <1>10. ASSUME NEW k \in I, NEW o \in J, s[k] # None, F(k, o), D(k, o) < D(k, s[k])
         PROVE  \E j \in I : s[j] = o /\ D(j, o) <= D(k, o)
    <2>1. CASE k # i
      <3>1. PICK j \in I : r[j] = o /\ D(j, o) <= D(k, o)  BY <1>1, <1>6, <1>10, <2>1
      <3> QED BY <1>7, <3>1
    <2>2. CASE k = i
      <3>1. D(i, o) \in Int /\ D(i, t) \in Int /\ D(i, o) < D(i, t)  BY <1>2, <1>3, <1>6, <1>10, <2>2
      <3>2. ~(D(i, t) <= D(i, o))  BY <3>1
      <3>3. PICK l \in I : r[l] = o  BY <1>2, <1>10, <2>2, <3>2
      <3>4. D(l, o) <= D(i, o)  BY <1>1, <1>2, <1>4, <1>10, <2>2, <3>3
      <3> QED BY <1>7, <2>2, <3>3, <3>4
    <2> QED BY <2>1, <2>2
  <1>11. ASSUME NEW k \in I, NEW j \in I, NEW o \in J, k # j, s[k] # None, s[k] = s[j], F(k, o)
         PROVE  \E l \in I : s[l] = o
    <2>1. CASE k # i /\ j # i
      <3>1. PICK l \in I : r[l] = o  BY <1>1, <1>6, <1>11, <2>1
      <3> QED BY <1>7, <3>1
    <2>2. CASE k = i \/ j = i
      <3>1. PICK m \in I : m # i /\ r[m] = t  BY <1>6, <1>11, <2>2
      <3>2. F(i, o)
        <4>1. s[k] = t  BY <1>6, <1>11, <2>2
        <4>2. F(k, t)  BY <1>4, <1>8, <4>1
        <4> QED BY <1>2, <1>5, <1>11, <4>2
      <3>3. PICK l \in I : r[l] = o  BY <1>2, <3>1, <3>2
      <3> QED BY <1>7, <3>3
    <2> QED BY <2>1, <2>2
  <1> QED BY <1>6, <1>8, <1>9, <1>10, <1>11 DEF Matched, I, J, D, F

-----------------------------------------------------------------------------
(* match_group                                                             *)

Assigned(wanted, r) == {i \in DOMAIN wanted : r[i] # None}

\* Each round gives one more filament its tray, until nothing is open.
Rounds(wanted, trays, k, r) ==
  /\ Matched(wanted, trays, r)
  /\ NothingOpen(wanted, trays, r) \/ Cardinality(Assigned(wanted, r)) >= k

LEMMA AssignedFinite ==
  ASSUME NEW W, NEW wanted \in Seq(W), NEW r
  PROVE  /\ IsFiniteSet(DOMAIN wanted) /\ Cardinality(DOMAIN wanted) = Len(wanted)
         /\ IsFiniteSet(Assigned(wanted, r)) /\ Cardinality(Assigned(wanted, r)) \in Nat
         /\ Cardinality(Assigned(wanted, r)) >= Len(wanted) => Assigned(wanted, r) = DOMAIN wanted
  <1>1. DOMAIN wanted = 1..Len(wanted) /\ Len(wanted) \in Nat  OBVIOUS
  <1>2. IsFiniteSet(DOMAIN wanted) /\ Cardinality(DOMAIN wanted) = Len(wanted)
    <2>1. IsFiniteSet(1..Len(wanted))
          /\ Cardinality(1..Len(wanted)) = IF 1 > Len(wanted) THEN 0 ELSE Len(wanted) - 1 + 1
      BY <1>1, FS_Interval
    <2> QED BY <1>1, <2>1
  <1>3. Assigned(wanted, r) \subseteq DOMAIN wanted  BY DEF Assigned
  <1>4. IsFiniteSet(Assigned(wanted, r)) /\ Cardinality(Assigned(wanted, r)) <= Cardinality(DOMAIN wanted)
        /\ (Cardinality(Assigned(wanted, r)) = Cardinality(DOMAIN wanted) => Assigned(wanted, r) = DOMAIN wanted)
    BY <1>2, <1>3, FS_Subset
  <1>5. Cardinality(Assigned(wanted, r)) \in Nat  BY <1>4, FS_CardinalityType
  <1> QED BY <1>1, <1>2, <1>4, <1>5

LEMMA RoundOn ==
  ASSUME NEW W, NEW T, NEW wanted \in Seq(W), NEW trays \in Seq(T), Tinted(wanted), Tinted(trays),
         NEW k \in Nat, NEW r, Rounds(wanted, trays, k, r)
  PROVE  Rounds(wanted, trays, k + 1, MatchRound(wanted, trays, r))
  <1> DEFINE s == MatchRound(wanted, trays, r)
  <1>1. r \in [DOMAIN wanted -> DOMAIN trays \cup {None}] /\ Matched(wanted, trays, r)
    BY DEF Rounds, Matched
  <1>2. \/ NothingOpen(wanted, trays, r) /\ s = r
        \/ \E i \in DOMAIN wanted, t \in DOMAIN trays : Gives(wanted, trays, r, s, i, t)
    BY <1>1, RoundIs
  <1> HIDE DEF s
  <1>3. CASE NothingOpen(wanted, trays, r) /\ s = r  BY <1>1, <1>3 DEF Rounds, s
  <1>4. CASE \E i \in DOMAIN wanted, t \in DOMAIN trays : Gives(wanted, trays, r, s, i, t)
    <2>1. PICK i \in DOMAIN wanted, t \in DOMAIN trays : Gives(wanted, trays, r, s, i, t)  BY <1>4
    <2>2. Matched(wanted, trays, s)  BY <1>1, <2>1, GivesKeeps
    <2>3. r[i] = None /\ s = [r EXCEPT ![i] = t] /\ Fits(wanted, trays, i, t)  BY <2>1 DEF Gives
    <2>4. t # None
      <3>1. t \in Int  OBVIOUS
      <3> QED BY <3>1, NoneAssumption
    <2>5. Assigned(wanted, s) = Assigned(wanted, r) \cup {i} /\ i \notin Assigned(wanted, r)
      BY <1>1, <2>3, <2>4 DEF Assigned
    <2>6. Cardinality(Assigned(wanted, s)) = Cardinality(Assigned(wanted, r)) + 1
      BY <2>5, AssignedFinite, FS_AddElement
    <2>7. ~NothingOpen(wanted, trays, r)  BY <2>3 DEF NothingOpen
    <2>8. Cardinality(Assigned(wanted, r)) >= k  BY <2>7 DEF Rounds
    <2>9. Cardinality(Assigned(wanted, s)) >= k + 1  BY <2>6, <2>8, AssignedFinite
    <2> QED BY <2>2, <2>9 DEF Rounds, s
  <1> QED BY <1>2, <1>3, <1>4

LEMMA NoneYet ==
  ASSUME NEW W, NEW T, NEW wanted \in Seq(W), NEW trays \in Seq(T)
  PROVE  Rounds(wanted, trays, 0, [i \in DOMAIN wanted |-> None])
  <1> DEFINE r == [i \in DOMAIN wanted |-> None]
  <1>1. Cardinality(Assigned(wanted, r)) >= 0  BY AssignedFinite
  <1>2. \A i \in DOMAIN wanted : r[i] = None  OBVIOUS
  <1>3. r \in [DOMAIN wanted -> DOMAIN trays \cup {None}]  OBVIOUS
  <1> HIDE DEF r
  <1>4. Matched(wanted, trays, r)  BY <1>2, <1>3 DEF Matched
  <1> QED BY <1>1, <1>4 DEF Rounds, r

LEMMA MatchGroupIs ==
  ASSUME NEW W, NEW T, NEW wanted \in Seq(W), NEW trays \in Seq(T), Tinted(wanted), Tinted(trays)
  PROVE  Rounds(wanted, trays, Len(wanted), MatchGroup(wanted, trays))
  <1> DEFINE n == Len(wanted)
             S == [DOMAIN wanted -> DOMAIN trays \cup {None}]
             zero == [i \in DOMAIN wanted |-> None]
             step == [x \in (1..n) \X S |-> MatchRound(wanted, trays, x[2])]
             rounds(g) == [k \in 0..n |-> IF k = 0 THEN zero ELSE MatchRound(wanted, trays, g[k - 1])]
             after == CHOOSE g : g = rounds(g)
  <1>1. MatchGroup(wanted, trays) = after[n]  BY DEF MatchGroup
  <1>2. n \in Nat  OBVIOUS
  <1>3. step \in [(1..n) \X S -> S]
    <2>1. \A r \in S : MatchRound(wanted, trays, r) \in S
      <3> SUFFICES ASSUME NEW r \in S PROVE MatchRound(wanted, trays, r) \in S  OBVIOUS
      <3>1. CASE MatchRound(wanted, trays, r) = r  BY <3>1
      <3>2. CASE \E i \in DOMAIN wanted, t \in DOMAIN trays :
                   Gives(wanted, trays, r, MatchRound(wanted, trays, r), i, t)
        <4>1. PICK i \in DOMAIN wanted, t \in DOMAIN trays : MatchRound(wanted, trays, r) = [r EXCEPT ![i] = t]
          BY <3>2 DEF Gives
        <4> QED BY <4>1
      <3> QED BY <3>1, <3>2, RoundIs
    <2> HIDE DEF n, S
    <2> QED BY <2>1
  <1>4. \E g : g = rounds(g)
    <2>1. zero \in S  OBVIOUS
    <2>2. PICK g \in [0..n -> S] : Stepwise(g, n, zero, step)
      <3> HIDE DEF n, S, zero, step
      <3> QED BY <1>2, <1>3, <2>1, StepsExist
    <2> HIDE DEF zero, n
    <2>3. ASSUME NEW k \in 0..n PROVE g[k] = rounds(g)[k]
      <3>1. CASE k = 0  BY <2>2, <3>1 DEF Stepwise
      <3>2. CASE k \in 1..n
        <4>1. g[k] = step[<<k, g[k - 1]>>]  BY <2>2, <3>2 DEF Stepwise
        <4>2. <<k, g[k - 1]>> \in (1..n) \X S
          <5>1. k - 1 \in 0..n  BY <1>2, <3>2
          <5> HIDE DEF S
          <5> QED BY <2>2, <3>2, <5>1
        <4> HIDE DEF S
        <4>3. g[k] = MatchRound(wanted, trays, g[k - 1])  BY <4>1, <4>2
        <4> QED BY <3>2, <4>3
      <3> QED BY <1>2, <3>1, <3>2
    <2>4. rounds(g) = [k \in 0..n |-> rounds(g)[k]]  OBVIOUS
    <2>5. g = [k \in 0..n |-> g[k]]  BY <2>2
    <2> HIDE DEF rounds
    <2>6. g = rounds(g)  BY <2>3, <2>4, <2>5
    <2> QED BY <2>6
  <1>5. after = rounds(after)
    <2> HIDE DEF rounds
    <2> QED BY <1>4
  <1> HIDE DEF after, n, zero
  <1>6. after[0] = zero /\ \A k \in 1..n : after[k] = MatchRound(wanted, trays, after[k - 1])
    <2>1. \A k \in 0..n : after[k] = IF k = 0 THEN zero ELSE MatchRound(wanted, trays, after[k - 1])  BY <1>5
    <2> QED BY <1>2, <2>1
  <1> DEFINE Good == {k \in Nat : k <= n => Rounds(wanted, trays, k, after[k])}
  <1>7. 0 \in Good  BY <1>6, NoneYet DEF zero
  <1>8. ASSUME NEW k \in Nat, k \in Good PROVE k + 1 \in Good
    <2> SUFFICES ASSUME k + 1 <= n PROVE Rounds(wanted, trays, k + 1, after[k + 1])  OBVIOUS
    <2>1. Rounds(wanted, trays, k, after[k])  BY <1>2, <1>8
    <2>2. k + 1 \in 1..n /\ (k + 1) - 1 = k  BY <1>2
    <2>3. after[k + 1] = MatchRound(wanted, trays, after[k])  BY <1>6, <2>2
    <2> QED BY <2>1, <2>3, RoundOn
  <1>9. n \in Good
    <2> HIDE DEF Good
    <2> QED BY <1>2, <1>7, <1>8, NumbersIn
  <1>10. Rounds(wanted, trays, n, after[n])  BY <1>2, <1>9
  <1> QED BY <1>1, <1>10 DEF n

(***************************************************************************)
(* For any number of filaments and of trays, match_group (auto_map.rs:     *)
(* 542-602) gives every filament a tray of its material and leaves it      *)
(* without one only when no tray has the material; a filament misses a     *)
(* nearer tray only for a filament as near to that tray; and two filaments *)
(* share a tray only when every tray of their material is in use.          *)
(***************************************************************************)
THEOREM MatchTheorem ==
  ASSUME NEW W, NEW T, NEW wanted \in Seq(W), NEW trays \in Seq(T), Tinted(wanted), Tinted(trays),
         NEW match, match = MatchGroup(wanted, trays)
  PROVE  /\ match \in [DOMAIN wanted -> DOMAIN trays \cup {None}]
         /\ \A i \in DOMAIN wanted :
              /\ match[i] # None => wanted[i].type = trays[match[i]].type
              /\ match[i] = None => \A t \in DOMAIN trays : wanted[i].type # trays[t].type
         /\ \A i \in DOMAIN wanted, o \in DOMAIN trays :
              /\ match[i] # None /\ wanted[i].type = trays[o].type
              /\ PairDistance(wanted[i], trays[o]) < PairDistance(wanted[i], trays[match[i]])
              => \E j \in DOMAIN wanted :
                   /\ match[j] = o
                   /\ PairDistance(wanted[j], trays[o]) <= PairDistance(wanted[i], trays[o])
         /\ \A i, j \in DOMAIN wanted, o \in DOMAIN trays :
              i # j /\ match[i] # None /\ match[i] = match[j] /\ wanted[i].type = trays[o].type =>
                \E l \in DOMAIN wanted : match[l] = o
  <1>1. Rounds(wanted, trays, Len(wanted), match)  BY MatchGroupIs
  <1>2. Matched(wanted, trays, match)  BY <1>1 DEF Rounds
  <1>3. NothingOpen(wanted, trays, match)
    <2>1. CASE NothingOpen(wanted, trays, match)  BY <2>1
    <2>2. CASE Cardinality(Assigned(wanted, match)) >= Len(wanted)
      <3>1. Assigned(wanted, match) = DOMAIN wanted  BY <2>2, AssignedFinite
      <3> QED BY <3>1 DEF Assigned, NothingOpen
    <2> QED BY <1>1, <2>1, <2>2 DEF Rounds
  <1>4. \A i \in DOMAIN wanted, o \in DOMAIN trays :
          Far(wanted, trays, i, o) = PairDistance(wanted[i], trays[o])
    BY DEF Far, DistanceOf
  <1>5. \A i \in DOMAIN wanted : match[i] # None => match[i] \in DOMAIN trays  BY <1>2 DEF Matched
  <1>6. \A i \in DOMAIN wanted, o \in DOMAIN trays :
          /\ match[i] # None /\ wanted[i].type = trays[o].type
          /\ PairDistance(wanted[i], trays[o]) < PairDistance(wanted[i], trays[match[i]])
          => \E j \in DOMAIN wanted :
               /\ match[j] = o
               /\ PairDistance(wanted[j], trays[o]) <= PairDistance(wanted[i], trays[o])
    BY <1>2, <1>4, <1>5 DEF Matched, Fits
  <1> QED BY <1>2, <1>3, <1>6 DEF Matched, Fits, NothingOpen

-----------------------------------------------------------------------------
(* The years of an era: 400 years from a first of March.                   *)

LEMMA DivOf ==
  ASSUME NEW c \in Int, c > 0, NEW q \in Int, q >= 0, NEW r \in Int, 0 <= r, r < c, NEW m, m = c * q + r
  PROVE  m \div c = q /\ m % c = r
  <1>1. c \in Nat \ {0} /\ q \in Nat /\ r \in 0..(c - 1)  OBVIOUS
  <1> QED BY <1>1, RowOf

LEMMA DivBy ==
  ASSUME NEW c \in Int, c > 0, NEW m \in Int, m >= 0
  PROVE  \E q, r \in Int : m \div c = q /\ m % c = r /\ m = c * q + r /\ 0 <= q /\ 0 <= r /\ r < c
  <1>1. c \in Nat \ {0} /\ m \in Nat  OBVIOUS
  <1>2. m \div c \in Nat /\ m % c \in 0..(c - 1) /\ m = c * (m \div c) + (m % c)  BY <1>1, Rows
  <1>3. m % c \in Int /\ 0 <= m % c /\ m % c < c /\ m \div c \in Int /\ 0 <= m \div c  BY <1>2
  <1> QED BY <1>2, <1>3

Start(y) == 365 * y + (y \div 4) - (y \div 100)
Days(y) == IF y = 399 THEN DaysPerEra ELSE Start(y + 1)
Yoe(doe) == (doe - (doe \div (DaysPerQuad - 1)) + (doe \div DaysPerCentury) - (doe \div (DaysPerEra - 1))) \div 365

\* Year 100 c + 4 q + b of the era, and its day d.
YearAt(c, q, b) == 100 * c + 4 * q + b
DayAt(c, q, b, d) == DaysPerCentury * c + DaysPerQuad * q + 365 * b + d
Long(c, q, b) == b = 3 /\ (q < 24 \/ c = 3)   \* its February has 29 days
InEra(c, q, b, d) ==
  /\ c \in Int /\ q \in Int /\ b \in Int /\ d \in Int
  /\ 0 <= c /\ c <= 3 /\ 0 <= q /\ q <= 24 /\ 0 <= b /\ b <= 3 /\ 0 <= d /\ d <= 365
  /\ d = 365 => Long(c, q, b)

LEMMA YearParts ==
  ASSUME NEW c \in Int, NEW q \in Int, NEW b \in Int, 0 <= c, 0 <= q, q <= 24, 0 <= b, b <= 3
  PROVE  YearAt(c, q, b) \in Nat /\ YearAt(c, q, b) \div 4 = 25 * c + q /\ YearAt(c, q, b) \div 100 = c
         /\ YearAt(c, q, b) % 4 = b /\ YearAt(c, q, b) % 100 = 4 * q + b
  <1> DEFINE y == YearAt(c, q, b)
  <1>1. y = 4 * (25 * c + q) + b /\ y = 100 * c + (4 * q + b)  BY DEF YearAt
  <1>2. 25 * c + q \in Int /\ 25 * c + q >= 0 /\ 4 * q + b \in Int /\ 0 <= 4 * q + b /\ 4 * q + b < 100 OBVIOUS
  <1>3. y \in Nat  BY DEF YearAt
  <1> DEFINE u == 25 * c + q
             v == 4 * q + b
  <1> HIDE DEF y, u, v
  <1>4. y \div 4 = u /\ y % 4 = b  BY <1>1, <1>2, DivOf DEF u
  <1>5. y \div 100 = c /\ y % 100 = v  BY <1>1, <1>2, DivOf DEF v
  <1> QED BY <1>3, <1>4, <1>5 DEF y, u, v

LEMMA EraYearStart ==
  ASSUME NEW c \in Int, NEW q \in Int, NEW b \in Int, 0 <= c, 0 <= q, q <= 24, 0 <= b, b <= 3
  PROVE  YearAt(c, q, b) \in Nat /\ Start(YearAt(c, q, b)) = 365 * YearAt(c, q, b) + (25 * c + q) - c
  <1> DEFINE y == YearAt(c, q, b)
  <1>1. y \in Nat /\ y \div 4 = 25 * c + q /\ y \div 100 = c  BY YearParts
  <1> HIDE DEF y
  <1>2. y \in Nat /\ Start(y) = 365 * y + (25 * c + q) - c  BY <1>1 DEF Start
  <1> QED BY <1>2 DEF y

LEMMA StartIs ==
  ASSUME NEW c, NEW q, NEW b, InEra(c, q, b, 0)
  PROVE  /\ Start(YearAt(c, q, b)) = DayAt(c, q, b, 0)
         /\ Days(YearAt(c, q, b)) = Start(YearAt(c, q, b)) + IF Long(c, q, b) THEN 366 ELSE 365
  <1> DEFINE y == YearAt(c, q, b)
             L == IF Long(c, q, b) THEN 366 ELSE 365
  <1>1. c \in Int /\ q \in Int /\ b \in Int /\ 0 <= c /\ c <= 3 /\ 0 <= q /\ q <= 24 /\ 0 <= b /\ b <= 3
    BY DEF InEra
  <1>2. Start(y) = 365 * y + (25 * c + q) - c /\ y \in Nat  BY <1>1, EraYearStart
  <1>3. Start(y) = DayAt(c, q, b, 0)  BY <1>1, <1>2 DEF DayAt, YearAt, DaysPerCentury, DaysPerQuad
  <1>4. y = 399 <=> b = 3 /\ q = 24 /\ c = 3  BY <1>1 DEF YearAt
  <1>5. y # 399 => Start(y + 1) = Start(y) + L
    <2> SUFFICES ASSUME y # 399 PROVE Start(y + 1) = Start(y) + L  OBVIOUS
    <2>1. PICK C, Q, B \in Int : /\ 0 <= C /\ 0 <= Q /\ Q <= 24 /\ 0 <= B /\ B <= 3
                                /\ YearAt(C, Q, B) = y + 1 /\ 24 * C + Q = 24 * c + q + (L - 365)
      <3>1. CASE b < 3
        <4>1. YearAt(c, q, b + 1) = y + 1  BY <1>1 DEF YearAt
        <4>2. L = 365  BY <3>1 DEF Long
        <4> QED BY <1>1, <3>1, <4>1, <4>2
      <3>2. CASE b = 3 /\ q < 24
        <4>1. YearAt(c, q + 1, 0) = y + 1  BY <1>1, <3>2 DEF YearAt
        <4>2. L = 366  BY <3>2 DEF Long
        <4> QED BY <1>1, <3>2, <4>1, <4>2
      <3>3. CASE b = 3 /\ q = 24 /\ c < 3
        <4>1. YearAt(c + 1, 0, 0) = y + 1  BY <1>1, <3>3 DEF YearAt
        <4>2. L = 365  BY <3>3 DEF Long
        <4> QED BY <1>1, <3>3, <4>1, <4>2
      <3> QED BY <1>1, <1>4, <3>1, <3>2, <3>3
    <2>3. Start(y + 1) = 365 * (y + 1) + (25 * C + Q) - C
      <3>1. Start(YearAt(C, Q, B)) = 365 * YearAt(C, Q, B) + (25 * C + Q) - C  BY <2>1, EraYearStart
      <3> HIDE DEF y, L
      <3> QED BY <2>1, <3>1
    <2> HIDE DEF y
    <2>4. L \in Int  OBVIOUS
    <2> HIDE DEF L
    <2> QED BY <1>1, <1>2, <2>1, <2>3, <2>4
  <1>6. CASE y = 399
    <2>1. Start(y) = 3 * DaysPerCentury + 24 * DaysPerQuad + 365 * 3  BY <1>3, <1>4, <1>6 DEF DayAt, DaysPerCentury, DaysPerQuad
    <2>2. L = 366  BY <1>4, <1>6 DEF Long
    <2>3. Days(y) = DaysPerEra  BY <1>6 DEF Days
    <2> QED BY <1>3, <2>1, <2>2, <2>3 DEF DaysPerEra, DaysPerCentury, DaysPerQuad
  <1>7. CASE y # 399  BY <1>3, <1>5, <1>7 DEF Days
  <1> QED BY <1>3, <1>6, <1>7

LEMMA YoeAt ==
  ASSUME NEW c, NEW q, NEW b, NEW d, InEra(c, q, b, d)
  PROVE  /\ DayAt(c, q, b, d) \in Int /\ 0 <= DayAt(c, q, b, d) /\ DayAt(c, q, b, d) < DaysPerEra
         /\ Yoe(DayAt(c, q, b, d)) = YearAt(c, q, b)
  <1> DEFINE doe == DayAt(c, q, b, d)
             e == IF 24 * c + q + 365 * b + d >= DaysPerQuad - 1 THEN 1 ELSE 0
             l == IF c = 3 /\ q = 24 /\ b = 3 /\ d = 365 THEN 1 ELSE 0
             f == 24 * c + q + 365 * b + d - (DaysPerQuad - 1) * e
             g == DaysPerQuad * q + 365 * b + d - DaysPerCentury * l
             h == doe - (DaysPerEra - 1) * l
             u == 25 * c + q + e
             v == c + l
             y == YearAt(c, q, b)
             n == d - e
  <1>0. /\ c \in Int /\ q \in Int /\ b \in Int /\ d \in Int
        /\ 0 <= c /\ c <= 3 /\ 0 <= q /\ q <= 24 /\ 0 <= b /\ b <= 3 /\ 0 <= d /\ d <= 365
        /\ (d <= 364 \/ (b = 3 /\ (q <= 23 \/ c = 3)))
    BY DEF InEra, Long
  <1>1. doe \in Int /\ 0 <= doe /\ doe < DaysPerEra
    BY <1>0 DEF DayAt, DaysPerEra, DaysPerCentury, DaysPerQuad
  <1>2. /\ doe = (DaysPerQuad - 1) * u + f
        /\ f \in Int /\ 0 <= f /\ f < DaysPerQuad - 1 /\ u \in Int /\ u >= 0
    BY <1>0 DEF DayAt, DaysPerCentury, DaysPerQuad
  <1>3. /\ doe = DaysPerCentury * v + g
        /\ g \in Int /\ 0 <= g /\ g < DaysPerCentury /\ v \in Int /\ v >= 0
    BY <1>0 DEF DayAt, DaysPerCentury, DaysPerQuad
  <1>4. /\ doe = (DaysPerEra - 1) * l + h
        /\ h \in Int /\ 0 <= h /\ h < DaysPerEra - 1 /\ l \in Int /\ l >= 0
    BY <1>0 DEF DayAt, DaysPerEra, DaysPerCentury, DaysPerQuad
  <1>5. DaysPerQuad - 1 \in Int /\ DaysPerQuad - 1 > 0 /\ DaysPerCentury \in Int /\ DaysPerCentury > 0
        /\ DaysPerEra - 1 \in Int /\ DaysPerEra - 1 > 0
    BY DEF DaysPerEra, DaysPerCentury, DaysPerQuad
  <1>6. doe - u + v - l = 365 * y + n
    BY <1>0 DEF DayAt, YearAt, DaysPerCentury, DaysPerQuad
  <1>7. y \in Int /\ y >= 0 /\ n \in Int /\ 0 <= n /\ n < 365
    BY <1>0 DEF YearAt, DaysPerQuad
  <1> HIDE DEF doe, e, f, g, h, l, u, v, y, n
  <1>8. doe \div (DaysPerQuad - 1) = u  BY <1>2, <1>5, DivOf
  <1>9. doe \div DaysPerCentury = v  BY <1>3, <1>5, DivOf
  <1>10. doe \div (DaysPerEra - 1) = l  BY <1>4, <1>5, DivOf
  <1>11. (365 * y + n) \div 365 = y
    <2>1. 365 \in Int /\ 365 > 0  OBVIOUS
    <2> QED BY <1>7, <2>1, DivOf
  <1>12. Yoe(doe) = y  BY <1>6, <1>8, <1>9, <1>10, <1>11 DEF Yoe
  <1> QED BY <1>1, <1>12 DEF doe, y

LEMMA EraDay ==
  ASSUME NEW doe \in Int, 0 <= doe, doe < DaysPerEra
  PROVE  \E c, q, b, d : InEra(c, q, b, d) /\ doe = DayAt(c, q, b, d)
  <1>0. DaysPerCentury \in Int /\ DaysPerCentury > 0 /\ DaysPerQuad \in Int /\ DaysPerQuad > 0
    BY DEF DaysPerCentury, DaysPerQuad
  <1>1. PICK c, r \in Int : /\ doe = DaysPerCentury * c + r /\ 0 <= c /\ c <= 3 /\ 0 <= r
                            /\ r <= DaysPerCentury /\ (r = DaysPerCentury => c = 3)
    <2>1. PICK c, r \in Int : doe = DaysPerCentury * c + r /\ 0 <= c /\ 0 <= r /\ r < DaysPerCentury
      BY <1>0, DivBy
    <2>2. CASE c <= 3  BY <1>0, <2>1, <2>2
    <2>3. CASE c > 3
      <3>1. c = 4 /\ r = 0  BY <2>1, <2>3 DEF DaysPerEra, DaysPerCentury
      <3>2. doe = DaysPerCentury * 3 + DaysPerCentury  BY <1>0, <2>1, <3>1
      <3> QED BY <1>0, <3>2
    <2> QED BY <2>1, <2>2, <2>3
  <1>2. PICK q, s \in Int : /\ r = DaysPerQuad * q + s /\ 0 <= q /\ q <= 24 /\ 0 <= s /\ s < DaysPerQuad
                            /\ s = DaysPerQuad - 1 => q < 24 \/ c = 3
    <2>1. PICK q, s \in Int : r = DaysPerQuad * q + s /\ 0 <= q /\ 0 <= s /\ s < DaysPerQuad
      BY <1>0, <1>1, DivBy
    <2>2. q <= 24 /\ (s = DaysPerQuad - 1 => q < 24 \/ c = 3)
      BY <1>1, <2>1 DEF DaysPerCentury, DaysPerQuad
    <2> QED BY <2>1, <2>2
  <1>3. PICK b, d \in Int : /\ s = 365 * b + d /\ 0 <= b /\ b <= 3 /\ 0 <= d /\ d <= 365
                            /\ d = 365 => b = 3 /\ s = DaysPerQuad - 1
    <2>1. CASE s = DaysPerQuad - 1
      <3>1. s = 365 * 3 + 365  BY <2>1 DEF DaysPerQuad
      <3> QED BY <2>1, <3>1
    <2>2. CASE s # DaysPerQuad - 1
      <3> DEFINE k == 365
      <3>1. k \in Int /\ k > 0  OBVIOUS
      <3> HIDE DEF k
      <3>4. PICK b, d \in Int : s = k * b + d /\ 0 <= b /\ 0 <= d /\ d < k  BY <1>2, <3>1, DivBy
      <3>2. s = 365 * b + d /\ 0 <= b /\ 0 <= d /\ d < 365  BY <3>4 DEF k
      <3>3. b <= 3  BY <1>2, <2>2, <3>2 DEF DaysPerQuad
      <3>5. d \in Int /\ b \in Int /\ d <= 365 /\ d # 365  BY <3>2
      <3>6. /\ s = 365 * b + d /\ 0 <= b /\ b <= 3 /\ 0 <= d /\ d <= 365
            /\ d = 365 => b = 3 /\ s = DaysPerQuad - 1
        BY <3>2, <3>3, <3>5
      <3>7. b \in Int /\ d \in Int  BY <3>5
      <3> WITNESS b \in Int, d \in Int
      <3> QED BY <3>6
    <2> QED BY <2>1, <2>2
  <1>4. InEra(c, q, b, d)  BY <1>1, <1>2, <1>3 DEF InEra, Long
  <1>5. doe = DayAt(c, q, b, d)  BY <1>0, <1>1, <1>2, <1>3 DEF DayAt
  <1> QED BY <1>4, <1>5

-----------------------------------------------------------------------------
(* The months of a year that begins in March.                              *)

MonthStart(mp) == (153 * mp + 2) \div 5
MonthOf(doy) == (5 * doy + 2) \div 153
MonthName(mp) == IF mp < 10 THEN mp + 3 ELSE mp - 9

LEMMA MonthStartIs ==
  ASSUME NEW mp \in Int, 0 <= mp
  PROVE  MonthStart(mp) \in Int /\ 5 * MonthStart(mp) <= 153 * mp + 2 /\ 153 * mp + 2 < 5 * MonthStart(mp) + 5
  <1> DEFINE m == 153 * mp + 2
             k == 5
  <1>1. m \in Int /\ m >= 0 /\ k \in Int /\ k > 0  OBVIOUS
  <1> HIDE DEF m, k
  <1>2. PICK q, r \in Int : m \div k = q /\ m = k * q + r /\ 0 <= r /\ r < k  BY <1>1, DivBy
  <1>3. MonthStart(mp) = q  BY <1>2 DEF MonthStart, m, k
  <1>4. m = 5 * q + r /\ r < 5  BY <1>2 DEF k
  <1> QED BY <1>2, <1>3, <1>4 DEF m

LEMMA MonthOnly ==
  ASSUME NEW mp \in Int, 0 <= mp, NEW doy \in Int, 0 <= doy,
         MonthStart(mp) <= doy, doy < MonthStart(mp + 1)
  PROVE  MonthOf(doy) = mp
  <1>1. 153 * mp <= 5 * doy + 2 /\ 5 * doy + 2 < 153 * (mp + 1)
    <2>1. 153 * mp + 2 < 5 * MonthStart(mp) + 5 /\ MonthStart(mp) \in Int  BY MonthStartIs
    <2>2. 0 <= mp + 1 /\ mp + 1 \in Int  OBVIOUS
    <2>3. 5 * MonthStart(mp + 1) <= 153 * (mp + 1) + 2 /\ MonthStart(mp + 1) \in Int  BY <2>2, MonthStartIs
    <2> QED BY <2>1, <2>3
  <1> DEFINE m == 5 * doy + 2
             k == 153
             r == 5 * doy + 2 - 153 * mp
  <1>2. m = k * mp + r /\ k \in Int /\ k > 0 /\ r \in Int /\ 0 <= r /\ r < k  BY <1>1
  <1> HIDE DEF m, k, r
  <1>3. m \div k = mp  BY <1>2, DivOf
  <1> QED BY <1>3 DEF MonthOf, m, k

LEMMA MonthIs ==
  ASSUME NEW doy \in Int, 0 <= doy, doy <= 365
  PROVE  /\ MonthOf(doy) \in Int /\ 0 <= MonthOf(doy) /\ MonthOf(doy) <= 11
         /\ MonthStart(MonthOf(doy)) <= doy /\ doy < MonthStart(MonthOf(doy) + 1)
  <1> DEFINE m == 5 * doy + 2
             k == 153
  <1>1. m \in Int /\ m >= 0 /\ k \in Int /\ k > 0  OBVIOUS
  <1> HIDE DEF m, k
  <1>2. PICK q, r \in Int : m \div k = q /\ m = k * q + r /\ 0 <= q /\ 0 <= r /\ r < k  BY <1>1, DivBy
  <1>3. MonthOf(doy) = q  BY <1>2 DEF MonthOf, m, k
  <1>4. 5 * doy + 2 = 153 * q + r /\ r < 153  BY <1>2 DEF m, k
  <1>5. MonthStart(q) \in Int /\ 5 * MonthStart(q) <= 153 * q + 2  BY <1>2, MonthStartIs
  <1>6. MonthStart(q + 1) \in Int /\ 153 * (q + 1) + 2 < 5 * MonthStart(q + 1) + 5
    <2>1. q + 1 \in Int /\ 0 <= q + 1  BY <1>2
    <2> QED BY <2>1, MonthStartIs
  <1>7. MonthStart(q) <= doy /\ doy < MonthStart(q + 1)  BY <1>2, <1>4, <1>5, <1>6
  <1>8. q <= 11  BY <1>2, <1>4
  <1> QED BY <1>2, <1>3, <1>7, <1>8

\* The twelve months begin where the formula says.
LEMMA MonthStarts ==
  /\ MonthStart(0) = 0 /\ MonthStart(1) = 31 /\ MonthStart(2) = 61 /\ MonthStart(3) = 92
  /\ MonthStart(4) = 122 /\ MonthStart(5) = 153 /\ MonthStart(6) = 184 /\ MonthStart(7) = 214
  /\ MonthStart(8) = 245 /\ MonthStart(9) = 275 /\ MonthStart(10) = 306 /\ MonthStart(11) = 337
  /\ MonthStart(12) = 367
  <1>1. \A mp, s \in Int : 0 <= mp /\ 5 * s <= 153 * mp + 2 /\ 153 * mp + 2 < 5 * s + 5 => MonthStart(mp) = s
    <2> SUFFICES ASSUME NEW mp \in Int, NEW s \in Int,
                        0 <= mp, 5 * s <= 153 * mp + 2, 153 * mp + 2 < 5 * s + 5
                 PROVE  MonthStart(mp) = s
      OBVIOUS
    <2>1. MonthStart(mp) \in Int /\ 5 * MonthStart(mp) <= 153 * mp + 2
          /\ 153 * mp + 2 < 5 * MonthStart(mp) + 5
      BY MonthStartIs
    <2> QED BY <2>1
  <1> QED BY <1>1

\* days_in_month, except for February
LEMMA MonthLength ==
  ASSUME NEW mp \in Int, 0 <= mp, mp <= 10, NEW y
  PROVE  DaysInMonth(MonthName(mp), y) = MonthStart(mp + 1) - MonthStart(mp)
  <1>1. mp \in {0, 1, 2, 3, 4, 5, 6, 7, 8, 9, 10}  OBVIOUS
  <1>2. CASE mp \in {0, 2, 4, 5, 7, 9, 10}
    <2>1. MonthStart(mp + 1) - MonthStart(mp) = 31  BY <1>2, MonthStarts
    <2>2. MonthName(mp) \in {1, 3, 5, 7, 8, 10, 12}  BY <1>2 DEF MonthName
    <2> QED BY <2>1, <2>2 DEF DaysInMonth
  <1>3. CASE mp \in {1, 3, 6, 8}
    <2>1. MonthStart(mp + 1) - MonthStart(mp) = 30  BY <1>3, MonthStarts
    <2>2. MonthName(mp) \in {4, 6, 9, 11} /\ MonthName(mp) \notin {1, 3, 5, 7, 8, 10, 12}
      BY <1>3 DEF MonthName
    <2> QED BY <2>1, <2>2 DEF DaysInMonth
  <1> QED BY <1>1, <1>2, <1>3

\* February has 29 days in the long years.
LeapYear(y) == (y % 4 = 0 /\ y % 100 # 0) \/ y % 400 = 0

LEMMA LeapIs ==
  ASSUME NEW era \in Int, 0 <= era, NEW c, NEW q, NEW b, InEra(c, q, b, 0)
  PROVE  LeapYear(400 * era + YearAt(c, q, b) + 1) <=> Long(c, q, b)
  <1> DEFINE y == 400 * era + YearAt(c, q, b) + 1
  <1>1. c \in Int /\ q \in Int /\ b \in Int /\ 0 <= c /\ c <= 3 /\ 0 <= q /\ q <= 24 /\ 0 <= b /\ b <= 3
    BY DEF InEra
  <1>2. \A k, n, r \in Int : k > 0 /\ n >= 0 /\ 0 <= r /\ r < k /\ y = k * n + r => y % k = r
    <2> SUFFICES ASSUME NEW k \in Int, NEW n \in Int, NEW r \in Int, k > 0, n >= 0, 0 <= r, r < k,
                        y = k * n + r
                 PROVE  y % k = r
      OBVIOUS
    <2> HIDE DEF y
    <2> QED BY DivOf
  <1>3. CASE b < 3
    <2> DEFINE n4 == 100 * era + 25 * c + q
               r400 == YearAt(c, q, b) + 1
    <2>1. y = 4 * n4 + (b + 1) /\ n4 \in Int /\ n4 >= 0  BY <1>1 DEF YearAt
    <2>2. y = 400 * era + r400 /\ r400 \in Int /\ 0 < r400 /\ r400 < 400  BY <1>1, <1>3 DEF YearAt
    <2>3. b + 1 \in Int /\ 0 < b + 1 /\ b + 1 < 4  BY <1>1, <1>3
    <2> HIDE DEF y, n4, r400
    <2>4. y % 4 = b + 1  BY <1>2, <2>1, <2>3
    <2>5. y % 400 = r400  BY <1>2, <2>2
    <2>6. ~Long(c, q, b)  BY <1>1, <1>3 DEF Long
    <2> QED BY <2>2, <2>3, <2>4, <2>5, <2>6 DEF LeapYear, y
  <1>4. CASE b = 3 /\ q < 24
    <2> DEFINE n4 == 100 * era + 25 * c + q + 1
               n100 == 4 * era + c
               r == 4 * q + 4
    <2>1. y = 4 * n4 + 0 /\ n4 \in Int /\ n4 >= 0  BY <1>1, <1>4 DEF YearAt
    <2>2. y = 100 * n100 + r /\ n100 \in Int /\ n100 >= 0 /\ r \in Int /\ 0 < r /\ r < 100
      BY <1>1, <1>4 DEF YearAt
    <2> HIDE DEF y, n4, n100, r
    <2>3. y % 4 = 0  BY <1>2, <2>1
    <2>4. y % 100 = r  BY <1>2, <2>2
    <2>5. Long(c, q, b)  BY <1>4 DEF Long
    <2> QED BY <2>2, <2>3, <2>4, <2>5 DEF LeapYear, y
  <1>5. CASE b = 3 /\ q = 24 /\ c < 3
    <2> DEFINE n100 == 4 * era + c + 1
               r == 100 * c + 100
    <2>1. y = 100 * n100 + 0 /\ n100 \in Int /\ n100 >= 0  BY <1>1, <1>5 DEF YearAt
    <2>2. y = 400 * era + r /\ r \in Int /\ 0 < r /\ r < 400  BY <1>1, <1>5 DEF YearAt
    <2> HIDE DEF y, n100, r
    <2>3. y % 100 = 0  BY <1>2, <2>1
    <2>4. y % 400 = r  BY <1>2, <2>2
    <2>5. ~Long(c, q, b)  BY <1>5 DEF Long
    <2> QED BY <2>2, <2>3, <2>4, <2>5 DEF LeapYear, y
  <1>6. CASE b = 3 /\ q = 24 /\ c = 3
    <2> DEFINE n == era + 1
    <2>1. y = 400 * n + 0 /\ n \in Int /\ n >= 0  BY <1>6 DEF YearAt
    <2> HIDE DEF y, n
    <2>2. y % 400 = 0  BY <1>2, <2>1
    <2>3. Long(c, q, b)  BY <1>6 DEF Long
    <2> QED BY <2>2, <2>3 DEF LeapYear, y
  <1>7. b < 3 \/ (b = 3 /\ q < 24) \/ (b = 3 /\ q = 24 /\ c < 3) \/ (b = 3 /\ q = 24 /\ c = 3)  BY <1>1
  <1> QED BY <1>3, <1>4, <1>5, <1>6, <1>7

-----------------------------------------------------------------------------
(* A day of the calendar: day doy of year yoe of an era, years from March on.*)

InYear(era, yoe, doy) ==
  /\ era \in Int /\ 0 <= era /\ yoe \in Int /\ doy \in Int /\ 0 <= doy
  /\ \E c, q, b : InEra(c, q, b, doy) /\ yoe = YearAt(c, q, b)
DayOf(era, yoe, doy) == DaysPerEra * era + Start(yoe) + doy - EpochShift
DateOf(era, yoe, doy) ==
  LET m == MonthName(MonthOf(doy)) IN
  [y |-> yoe + era * 400 + (IF m <= 2 THEN 1 ELSE 0), m |-> m,
   d |-> doy - MonthStart(MonthOf(doy)) + 1]

LEMMA InYearIs ==
  ASSUME NEW era, NEW yoe, NEW doy, InYear(era, yoe, doy)
  PROVE  /\ 0 <= yoe /\ yoe <= 399 /\ doy <= 365
         /\ Start(yoe) \in Int /\ 0 <= Start(yoe) + doy /\ Start(yoe) + doy < DaysPerEra
         /\ Yoe(Start(yoe) + doy) = yoe
  <1>1. PICK c, q, b : InEra(c, q, b, doy) /\ yoe = YearAt(c, q, b)  BY DEF InYear
  <1>2. InEra(c, q, b, 0)  BY <1>1 DEF InEra
  <1>3. Start(yoe) = DayAt(c, q, b, 0)  BY <1>1, <1>2, StartIs
  <1>4. Start(yoe) \in Int /\ Start(yoe) + doy = DayAt(c, q, b, doy)
    BY <1>1, <1>3 DEF InEra, DayAt, DaysPerCentury, DaysPerQuad
  <1>5. 0 <= yoe /\ yoe <= 399 /\ doy <= 365  BY <1>1 DEF InEra, YearAt
  <1> QED BY <1>1, <1>4, <1>5, YoeAt

LEMMA EveryDay ==
  ASSUME NEW days \in Int, days + EpochShift >= 0
  PROVE  \E era, yoe, doy : InYear(era, yoe, doy) /\ days = DayOf(era, yoe, doy)
  <1>0. DaysPerEra \in Int /\ DaysPerEra > 0 /\ EpochShift \in Int  BY DEF DaysPerEra, EpochShift
  <1> DEFINE z == days + EpochShift
  <1>1. z \in Int /\ z >= 0  BY <1>0
  <1> HIDE DEF z
  <1>2. PICK era, doe \in Int : z = DaysPerEra * era + doe /\ 0 <= era /\ 0 <= doe /\ doe < DaysPerEra
    BY <1>0, <1>1, DivBy
  <1>3. PICK c, q, b, d : InEra(c, q, b, d) /\ doe = DayAt(c, q, b, d)  BY <1>2, EraDay
  <1> DEFINE yoe == YearAt(c, q, b)
  <1>4. yoe \in Int /\ d \in Int /\ 0 <= d  BY <1>3 DEF InEra, YearAt
  <1>5. InYear(era, yoe, d)  BY <1>2, <1>3, <1>4 DEF InYear
  <1>6. Start(yoe) = DayAt(c, q, b, 0)
    <2>1. InEra(c, q, b, 0)  BY <1>3 DEF InEra
    <2> QED BY <2>1, StartIs
  <1>7. doe = Start(yoe) + d /\ Start(yoe) \in Int
    BY <1>3, <1>6 DEF InEra, DayAt, DaysPerCentury, DaysPerQuad
  <1> HIDE DEF yoe
  <1>8. DaysPerEra * era \in Int  BY <1>0, <1>2
  <1>9. days = z - EpochShift  BY <1>0 DEF z
  <1>10. days = DayOf(era, yoe, d)  BY <1>0, <1>2, <1>4, <1>7, <1>8, <1>9 DEF DayOf
  <1> QED BY <1>5, <1>10

LEMMA CivilIs ==
  ASSUME NEW era, NEW yoe, NEW doy, InYear(era, yoe, doy)
  PROVE  CivilFromDays(DayOf(era, yoe, doy)) = DateOf(era, yoe, doy)
  <1>0. DaysPerEra \in Int /\ DaysPerEra > 0 /\ EpochShift \in Int  BY DEF DaysPerEra, EpochShift
  <1> DEFINE doe == Start(yoe) + doy
             days == DayOf(era, yoe, doy)
             z == days + EpochShift
  <1>1. era \in Int /\ 0 <= era /\ doy \in Int /\ yoe \in Int  BY DEF InYear
  <1>2. doe \in Int /\ 0 <= doe /\ doe < DaysPerEra /\ Yoe(doe) = yoe /\ doe - Start(yoe) = doy
    BY <1>1, InYearIs
  <1>3. z = DaysPerEra * era + doe
    <2>1. DaysPerEra * era \in Int /\ Start(yoe) \in Int  BY <1>0, <1>1, InYearIs
    <2> QED BY <1>0, <1>1, <2>1 DEF DayOf
  <1> HIDE DEF doe, days, z
  <1>4. z \div DaysPerEra = era /\ z % DaysPerEra = doe  BY <1>0, <1>1, <1>2, <1>3, DivOf
  <1> DEFINE dy == doe - (365 * yoe + (yoe \div 4) - (yoe \div 100))
             mp == (5 * dy + 2) \div 153
             m == IF mp < 10 THEN mp + 3 ELSE mp - 9
  <1>5. CivilFromDays(days) =
          [y |-> yoe + era * 400 + (IF m <= 2 THEN 1 ELSE 0), m |-> m,
           d |-> dy - ((153 * mp + 2) \div 5) + 1]
    <2>1. (doe - (doe \div (DaysPerQuad - 1)) + (doe \div DaysPerCentury) - (doe \div (DaysPerEra - 1))) \div 365
            = yoe
      BY <1>2 DEF Yoe
    <2> QED BY <1>4, <2>1 DEF CivilFromDays, z
  <1>6. dy = doy  BY <1>2 DEF Start
  <1>7. mp = MonthOf(doy)  BY <1>6 DEF MonthOf
  <1> QED BY <1>5, <1>6, <1>7 DEF DateOf, MonthName, MonthStart, days

LEMMA DaysIs ==
  ASSUME NEW era, NEW yoe, NEW doy, InYear(era, yoe, doy)
  PROVE  DaysFromCivil(DateOf(era, yoe, doy)) = DayOf(era, yoe, doy)
  <1> DEFINE mp == MonthOf(doy)
             m == MonthName(mp)
             cc == DateOf(era, yoe, doy)
             y == yoe + era * 400
  <1>1. era \in Int /\ 0 <= era /\ doy \in Int /\ 0 <= doy /\ doy <= 365 /\ yoe \in Int /\ 0 <= yoe /\ yoe <= 399
    <2>1. era \in Int /\ 0 <= era /\ doy \in Int /\ 0 <= doy /\ yoe \in Int  BY DEF InYear
    <2>2. 0 <= yoe /\ yoe <= 399 /\ doy <= 365  BY InYearIs
    <2> QED BY <2>1, <2>2
  <1>2. mp \in Int /\ 0 <= mp /\ mp <= 11  BY <1>1, MonthIs
  <1>3. cc.m = m /\ cc.y = y + (IF m <= 2 THEN 1 ELSE 0) /\ cc.d = doy - MonthStart(mp) + 1  BY DEF DateOf
  <1> HIDE DEF mp, cc
  <1>4. m \in Int /\ (m <= 2 <=> mp >= 10) /\ (IF m > 2 THEN m - 3 ELSE m + 9) = mp  BY <1>2 DEF MonthName
  <1>5. MonthStart(mp) \in Int  BY <1>2, MonthStartIs
  <1> HIDE DEF m
  <1>6. cc.y - (IF cc.m <= 2 THEN 1 ELSE 0) = y /\ y \in Int  BY <1>1, <1>3, <1>4
  <1>7. y % 400 = yoe /\ y \div 400 = era
    <2> DEFINE k == 400
    <2>1. y = k * era + yoe /\ k \in Int /\ k > 0 /\ yoe < k  BY <1>1
    <2> HIDE DEF k, y
    <2>2. y % k = yoe /\ y \div k = era  BY <1>1, <2>1, DivOf
    <2> QED BY <2>2 DEF k
  <1> HIDE DEF y
  <1>8. ((153 * (IF cc.m > 2 THEN cc.m - 3 ELSE cc.m + 9) + 2) \div 5) + cc.d - 1 = doy
    <2>1. (153 * (IF cc.m > 2 THEN cc.m - 3 ELSE cc.m + 9) + 2) \div 5 = MonthStart(mp)
      BY <1>3, <1>4 DEF MonthStart
    <2> QED BY <1>1, <1>3, <1>5, <2>1
  <1>9. DaysFromCivil(cc) =
          era * DaysPerEra + yoe * 365 + (yoe \div 4) - (yoe \div 100) + doy - EpochShift
    <2> DEFINE dd == ((153 * (IF cc.m > 2 THEN cc.m - 3 ELSE cc.m + 9) + 2) \div 5) + cc.d - 1
    <2>1. DaysFromCivil(cc) =
            (y \div 400) * DaysPerEra + (y % 400) * 365 + ((y % 400) \div 4) - ((y % 400) \div 100)
              + dd - EpochShift
      BY <1>6 DEF DaysFromCivil
    <2>2. dd = doy  BY <1>8
    <2> HIDE DEF dd
    <2> QED BY <1>7, <2>1, <2>2
  <1>10. yoe \div 4 \in Int /\ yoe \div 100 \in Int  BY <1>1
  <1>11. DaysPerEra \in Int /\ EpochShift \in Int  BY DEF DaysPerEra, EpochShift
  <1>12. era * DaysPerEra \in Int /\ era * DaysPerEra = DaysPerEra * era  BY <1>1, <1>11
  <1>13. DayOf(era, yoe, doy) =
           DaysPerEra * era + (365 * yoe + (yoe \div 4) - (yoe \div 100)) + doy - EpochShift
    BY DEF DayOf, Start
  <1> QED BY <1>1, <1>9, <1>10, <1>11, <1>12, <1>13 DEF cc

Year(era, yoe) == 400 * era + yoe
LastDay(era, yoe) == IF LeapYear(Year(era, yoe) + 1) THEN 365 ELSE 364

LEMMA YearOf ==
  ASSUME NEW era, NEW yoe, NEW doy, InYear(era, yoe, doy)
  PROVE  doy <= LastDay(era, yoe) /\ (doy < LastDay(era, yoe) => InYear(era, yoe, doy + 1))
  <1>1. PICK c, q, b : InEra(c, q, b, doy) /\ yoe = YearAt(c, q, b)  BY DEF InYear
  <1>2. InEra(c, q, b, 0) /\ era \in Int /\ 0 <= era /\ doy \in Int /\ doy >= 0  BY <1>1 DEF InEra, InYear
  <1>3. LeapYear(Year(era, yoe) + 1) <=> Long(c, q, b)  BY <1>1, <1>2, LeapIs DEF Year
  <1>4. doy <= LastDay(era, yoe)  BY <1>1, <1>3 DEF InEra, LastDay
  <1>5. ASSUME doy < LastDay(era, yoe) PROVE InYear(era, yoe, doy + 1)
    <2>1. InEra(c, q, b, doy + 1)  BY <1>1, <1>2, <1>3, <1>5 DEF InEra, LastDay
    <2>2. yoe \in Int  BY DEF InYear
    <2> QED BY <1>1, <1>2, <2>1, <2>2 DEF InYear
  <1> QED BY <1>4, <1>5

LEMMA NewYear ==
  ASSUME NEW era, NEW yoe, InYear(era, yoe, LastDay(era, yoe))
  PROVE  \E e, y : /\ InYear(e, y, 0) /\ Year(e, y) = Year(era, yoe) + 1
                   /\ DayOf(e, y, 0) = DayOf(era, yoe, LastDay(era, yoe)) + 1
  <1> DEFINE doy == LastDay(era, yoe)
  <1>1. PICK c, q, b : InEra(c, q, b, doy) /\ yoe = YearAt(c, q, b)  BY DEF InYear
  <1>2. InEra(c, q, b, 0) /\ era \in Int /\ 0 <= era /\ doy \in Int /\ doy >= 0 /\ yoe \in Int
    BY <1>1 DEF InEra, InYear
  <1>3. LeapYear(Year(era, yoe) + 1) <=> Long(c, q, b)  BY <1>1, <1>2, LeapIs DEF Year
  <1>4. Days(yoe) = Start(yoe) + doy + 1
    <2>1. Days(yoe) = Start(yoe) + IF Long(c, q, b) THEN 366 ELSE 365  BY <1>1, <1>2, StartIs
    <2>2. Start(yoe) \in Int  BY InYearIs
    <2> QED BY <1>3, <2>1, <2>2 DEF LastDay
  <1>5. DaysPerEra \in Int /\ EpochShift \in Int /\ Start(yoe) \in Int /\ DaysPerEra * era \in Int
    <2>1. DaysPerEra \in Int /\ EpochShift \in Int  BY DEF DaysPerEra, EpochShift
    <2> QED BY <1>2, <2>1, InYearIs
  <1> HIDE DEF doy
  <1>6. CASE yoe = 399
    <2>1. InYear(era + 1, 0, 0)
      <3>1. InEra(0, 0, 0, 0) /\ YearAt(0, 0, 0) = 0  BY DEF InEra, YearAt
      <3> QED BY <1>2, <3>1 DEF InYear
    <2>2. Start(0) = 0  BY DEF Start
    <2>3. DaysPerEra = Start(yoe) + doy + 1  BY <1>4, <1>6 DEF Days
    <2>4. DaysPerEra * (era + 1) = DaysPerEra * era + DaysPerEra  BY <1>2, <1>5
    <2>5. DayOf(era + 1, 0, 0) = DayOf(era, yoe, doy) + 1
      BY <1>2, <1>5, <2>2, <2>3, <2>4 DEF DayOf
    <2>6. Year(era + 1, 0) = Year(era, yoe) + 1  BY <1>2, <1>6 DEF Year
    <2> QED BY <2>1, <2>5, <2>6 DEF doy
  <1>7. CASE yoe # 399
    <2>1. \E C, Q, B : InEra(C, Q, B, 0) /\ yoe + 1 = YearAt(C, Q, B)
      <3>1. /\ c \in Int /\ q \in Int /\ b \in Int
            /\ 0 <= c /\ c <= 3 /\ 0 <= q /\ q <= 24 /\ 0 <= b /\ b <= 3
        BY <1>2 DEF InEra
      <3>2. CASE b < 3
        <4>1. InEra(c, q, b + 1, 0) /\ YearAt(c, q, b + 1) = yoe + 1  BY <1>1, <3>1, <3>2 DEF InEra, YearAt
        <4> QED BY <4>1
      <3>3. CASE b = 3 /\ q < 24
        <4>1. InEra(c, q + 1, 0, 0) /\ YearAt(c, q + 1, 0) = yoe + 1  BY <1>1, <3>1, <3>3 DEF InEra, YearAt
        <4> QED BY <4>1
      <3>4. CASE b = 3 /\ q = 24 /\ c < 3
        <4>1. InEra(c + 1, 0, 0, 0) /\ YearAt(c + 1, 0, 0) = yoe + 1  BY <1>1, <3>1, <3>4 DEF InEra, YearAt
        <4> QED BY <4>1
      <3>5. ~(b = 3 /\ q = 24 /\ c = 3)  BY <1>1, <1>7 DEF YearAt
      <3>6. b < 3 \/ (b = 3 /\ q < 24) \/ (b = 3 /\ q = 24 /\ c < 3)  BY <3>1, <3>5
      <3> QED BY <3>2, <3>3, <3>4, <3>6
    <2>2. InYear(era, yoe + 1, 0)  BY <1>2, <2>1 DEF InYear
    <2>3. Start(yoe + 1) = Start(yoe) + doy + 1  BY <1>4, <1>7 DEF Days
    <2>4. DayOf(era, yoe + 1, 0) = DayOf(era, yoe, doy) + 1  BY <1>2, <1>5, <2>3 DEF DayOf
    <2>5. Year(era, yoe + 1) = Year(era, yoe) + 1  BY <1>2 DEF Year
    <2> QED BY <2>2, <2>4, <2>5 DEF doy
  <1> QED BY <1>6, <1>7

\* What the date of a day is, month by month.
LEMMA DateIs ==
  ASSUME NEW era, NEW yoe, NEW doy, InYear(era, yoe, doy)
  PROVE  LET c == DateOf(era, yoe, doy)
             mp == MonthOf(doy)
         IN /\ Year(era, yoe) \in Int /\ doy \in Int /\ 0 <= doy /\ doy <= 365
            /\ mp \in Int /\ 0 <= mp /\ mp <= 11 /\ MonthStart(mp) \in Int /\ MonthStart(mp + 1) \in Int
            /\ MonthStart(mp) <= doy /\ doy < MonthStart(mp + 1)
            /\ c = [y |-> Year(era, yoe) + (IF mp >= 10 THEN 1 ELSE 0), m |-> MonthName(mp),
                    d |-> doy - MonthStart(mp) + 1]
            /\ mp <= 10 => DaysInMonth(c.m, c.y) = MonthStart(mp + 1) - MonthStart(mp)
            /\ mp = 11 => DaysInMonth(c.m, c.y) = LastDay(era, yoe) - MonthStart(11) + 1
  <1> DEFINE c == DateOf(era, yoe, doy)
             mp == MonthOf(doy)
  <1>1. era \in Int /\ doy \in Int /\ 0 <= doy /\ doy <= 365 /\ yoe \in Int
    <2>1. era \in Int /\ 0 <= era /\ doy \in Int /\ 0 <= doy /\ yoe \in Int  BY DEF InYear
    <2> QED BY <2>1, InYearIs
  <1>2. mp \in Int /\ 0 <= mp /\ mp <= 11 /\ MonthStart(mp) <= doy /\ doy < MonthStart(mp + 1)
    BY <1>1, MonthIs
  <1>3. MonthStart(mp) \in Int /\ MonthStart(mp + 1) \in Int
    <2>1. mp + 1 \in Int /\ 0 <= mp + 1  BY <1>2
    <2> QED BY <1>2, <2>1, MonthStartIs
  <1>4. Year(era, yoe) \in Int /\ yoe + era * 400 = Year(era, yoe)  BY <1>1 DEF Year
  <1>5. c = [y |-> yoe + era * 400 + (IF MonthName(mp) <= 2 THEN 1 ELSE 0), m |-> MonthName(mp),
             d |-> doy - MonthStart(mp) + 1]
    BY DEF DateOf
  <1> HIDE DEF mp, c
  <1>6. MonthName(mp) <= 2 <=> mp >= 10  BY <1>2 DEF MonthName
  <1>7. c = [y |-> Year(era, yoe) + (IF mp >= 10 THEN 1 ELSE 0), m |-> MonthName(mp),
             d |-> doy - MonthStart(mp) + 1]
    BY <1>4, <1>5, <1>6
  <1>8. mp <= 10 => DaysInMonth(c.m, c.y) = MonthStart(mp + 1) - MonthStart(mp)
    BY <1>2, <1>7, MonthLength
  <1>9. ASSUME mp = 11 PROVE DaysInMonth(c.m, c.y) = LastDay(era, yoe) - MonthStart(11) + 1
    <2>1. c.m = 2 /\ c.y = Year(era, yoe) + 1  BY <1>7, <1>9 DEF MonthName
    <2>2. DaysInMonth(2, Year(era, yoe) + 1) = IF LeapYear(Year(era, yoe) + 1) THEN 29 ELSE 28
      BY DEF DaysInMonth, LeapYear
    <2>3. MonthStart(11) = 337  BY MonthStarts
    <2> QED BY <2>1, <2>2, <2>3 DEF LastDay
  <1> QED BY <1>1, <1>2, <1>3, <1>4, <1>7, <1>8, <1>9 DEF c, mp

LEMMA DateValid ==
  ASSUME NEW era, NEW yoe, NEW doy, InYear(era, yoe, doy)
  PROVE  LET c == DateOf(era, yoe, doy) IN c.d \in 1..DaysInMonth(c.m, c.y)
  <1> DEFINE c == DateOf(era, yoe, doy)
             mp == MonthOf(doy)
             n == DaysInMonth(c.m, c.y)
  <1>1. /\ doy \in Int
        /\ mp \in Int /\ mp <= 11 /\ MonthStart(mp) \in Int /\ MonthStart(mp + 1) \in Int
        /\ MonthStart(mp) <= doy /\ doy < MonthStart(mp + 1)
        /\ c.d = doy - MonthStart(mp) + 1
        /\ mp <= 10 => n = MonthStart(mp + 1) - MonthStart(mp)
        /\ mp = 11 => n = LastDay(era, yoe) - MonthStart(11) + 1
    BY DateIs
  <1>2. doy <= LastDay(era, yoe) /\ LastDay(era, yoe) \in Int  BY YearOf DEF LastDay
  <1> HIDE DEF c, mp, n
  <1>3. CASE mp <= 10  BY <1>1, <1>3 DEF c, n
  <1>4. CASE mp = 11  BY <1>1, <1>2, <1>4 DEF c, n
  <1> QED BY <1>1, <1>3, <1>4

LEMMA Tomorrow ==
  ASSUME NEW era, NEW yoe, NEW doy, InYear(era, yoe, doy)
  PROVE  \E e, y, n : /\ InYear(e, y, n) /\ DayOf(e, y, n) = DayOf(era, yoe, doy) + 1
                      /\ DateOf(e, y, n) = NextDay(DateOf(era, yoe, doy))
  <1> DEFINE c == DateOf(era, yoe, doy)
             mp == MonthOf(doy)
             Y == Year(era, yoe)
             L == LastDay(era, yoe)
  <1>1. /\ Y \in Int /\ doy \in Int /\ 0 <= doy /\ doy <= 365
        /\ mp \in Int /\ 0 <= mp /\ mp <= 11 /\ MonthStart(mp) \in Int /\ MonthStart(mp + 1) \in Int
        /\ MonthStart(mp) <= doy /\ doy < MonthStart(mp + 1)
        /\ c = [y |-> Y + (IF mp >= 10 THEN 1 ELSE 0), m |-> MonthName(mp), d |-> doy - MonthStart(mp) + 1]
        /\ mp <= 10 => DaysInMonth(c.m, c.y) = MonthStart(mp + 1) - MonthStart(mp)
        /\ mp = 11 => DaysInMonth(c.m, c.y) = L - MonthStart(11) + 1
    BY DateIs
  <1>2. L \in Int /\ 364 <= L /\ L <= 365  BY DEF LastDay
  <1>3. doy <= L /\ (doy < L => InYear(era, yoe, doy + 1))  BY YearOf
  <1>4. MonthStart(11) = 337  BY MonthStarts
  <1> HIDE DEF c, mp, L
  <1>5. CASE doy < L
    <2> DEFINE n == doy + 1
               mn == MonthOf(n)
               cn == DateOf(era, yoe, n)
    <2>1. InYear(era, yoe, n)  BY <1>3, <1>5
    <2>2. cn = [y |-> Y + (IF mn >= 10 THEN 1 ELSE 0), m |-> MonthName(mn), d |-> n - MonthStart(mn) + 1]
      BY <2>1, DateIs
    <2>3. DayOf(era, yoe, n) = DayOf(era, yoe, doy) + 1
      <3>1. DaysPerEra \in Int /\ EpochShift \in Int /\ era \in Int  BY DEF DaysPerEra, EpochShift, InYear
      <3>2. DaysPerEra * era \in Int /\ Start(yoe) \in Int  BY <3>1, InYearIs
      <3> QED BY <1>1, <3>1, <3>2 DEF DayOf
    <2> HIDE DEF Y, cn
    <2>4. cn = NextDay(c)
      <3>1. CASE n < MonthStart(mp + 1)
        <4>1. mn = mp  BY <1>1, <3>1, MonthOnly
        <4>2. c.d < DaysInMonth(c.m, c.y)
          <5>1. CASE mp <= 10  BY <1>1, <3>1, <5>1
          <5>2. CASE mp = 11  BY <1>1, <1>2, <1>4, <1>5, <5>2
          <5> QED BY <1>1, <5>1, <5>2
        <4>3. NextDay(c) = [c EXCEPT !.d = @ + 1]  BY <4>2 DEF NextDay
        <4>4. cn = [y |-> Y + (IF mp >= 10 THEN 1 ELSE 0), m |-> MonthName(mp), d |-> n - MonthStart(mp) + 1]
          BY <2>2, <4>1
        <4>5. n - MonthStart(mp) + 1 = (doy - MonthStart(mp) + 1) + 1  BY <1>1
        <4> QED BY <1>1, <4>3, <4>4, <4>5
      <3>2. CASE n >= MonthStart(mp + 1)
        <4>1. n = MonthStart(mp + 1)  BY <1>1, <3>2
        <4>2. mp <= 10
          <5>1. MonthStart(12) = 367  BY MonthStarts
          <5> QED BY <1>1, <4>1, <5>1
        <4>3. mn = mp + 1
          <5>1. mp + 1 \in Int /\ 0 <= mp + 1 /\ (mp + 1) + 1 \in Int /\ 0 <= (mp + 1) + 1  BY <1>1
          <5>2. 153 * (mp + 1) + 2 < 5 * MonthStart(mp + 1) + 5 /\ 5 * MonthStart(mp + 1) <= 153 * (mp + 1) + 2
            BY <5>1, MonthStartIs
          <5>3. 153 * ((mp + 1) + 1) + 2 < 5 * MonthStart((mp + 1) + 1) + 5 /\ MonthStart((mp + 1) + 1) \in Int
            BY <5>1, MonthStartIs
          <5>4. MonthStart(mp + 1) < MonthStart((mp + 1) + 1)  BY <1>1, <5>2, <5>3
          <5> QED BY <1>1, <4>1, <5>1, <5>4, MonthOnly
        <4>4. c.d = DaysInMonth(c.m, c.y) /\ DaysInMonth(c.m, c.y) \in Int
          <5>1. c.d = doy - MonthStart(mp) + 1 /\ DaysInMonth(c.m, c.y) = MonthStart(mp + 1) - MonthStart(mp)
            BY <1>1, <4>2
          <5> HIDE DEF n
          <5>2. MonthStart(mp + 1) = doy + 1  BY <4>1 DEF n
          <5> QED BY <1>1, <5>1, <5>2
        <4>5. NextDay(c) = IF c.m < 12 THEN [y |-> c.y, m |-> c.m + 1, d |-> 1]
                           ELSE [y |-> c.y + 1, m |-> 1, d |-> 1]
          BY <4>4 DEF NextDay
        <4>6. cn = [y |-> Y + (IF mp + 1 >= 10 THEN 1 ELSE 0), m |-> MonthName(mp + 1), d |-> 1]
          <5>1. n - MonthStart(mp + 1) + 1 = 1  BY <1>1, <4>1
          <5> QED BY <2>2, <4>3, <5>1
        <4>7. CASE mp <= 8
          <5>1. c.m = mp + 3 /\ c.y = Y /\ MonthName(mp + 1) = mp + 4 /\ c.m < 12
            BY <1>1, <4>7 DEF MonthName
          <5> QED BY <1>1, <4>5, <4>6, <4>7, <5>1
        <4>8. CASE mp = 9
          <5>1. c.m = 12 /\ c.y = Y /\ MonthName(mp + 1) = 1  BY <1>1, <4>8 DEF MonthName
          <5> QED BY <1>1, <4>5, <4>6, <4>8, <5>1
        <4>9. CASE mp = 10
          <5>1. c.m = 1 /\ c.y = Y + 1 /\ MonthName(mp + 1) = 2  BY <1>1, <4>9 DEF MonthName
          <5> QED BY <1>1, <4>5, <4>6, <4>9, <5>1
        <4> QED BY <1>1, <4>2, <4>7, <4>8, <4>9
      <3> QED BY <1>1, <3>1, <3>2
    <2> QED BY <2>1, <2>3, <2>4 DEF c, cn
  <1>6. CASE doy = L
    <2>1. PICK e, y : InYear(e, y, 0) /\ Year(e, y) = Y + 1 /\ DayOf(e, y, 0) = DayOf(era, yoe, doy) + 1
      BY <1>6, NewYear DEF L
    <2> DEFINE cn == DateOf(e, y, 0)
               mz == MonthOf(0)
    <2>2. /\ mz \in Int /\ 0 <= mz /\ MonthStart(mz) <= 0
          /\ cn = [y |-> Year(e, y) + (IF mz >= 10 THEN 1 ELSE 0), m |-> MonthName(mz), d |-> 0 - MonthStart(mz) + 1]
      BY <2>1, DateIs
    <2>3. mz = 0
      <3>1. MonthStart(0) = 0 /\ MonthStart(0 + 1) = 31  BY MonthStarts
      <3> QED BY <3>1, MonthOnly
    <2> HIDE DEF Y, cn, mz
    <2>4. cn = [y |-> Y + 1, m |-> 3, d |-> 1]
      <3>1. MonthStart(0) = 0  BY MonthStarts
      <3> QED BY <1>1, <2>1, <2>2, <2>3, <3>1 DEF MonthName
    <2>5. mp = 11
      <3>1. MonthOf(doy) = 11
        <4>1. MonthStart(11 + 1) = 367  BY MonthStarts
        <4> QED BY <1>1, <1>2, <1>4, <1>6, <4>1, MonthOnly
      <3> QED BY <3>1 DEF mp
    <2>6. c.m = 2 /\ c.y = Y + 1 /\ c.d = DaysInMonth(c.m, c.y) /\ DaysInMonth(c.m, c.y) \in Int
      BY <1>1, <1>2, <1>4, <1>6, <2>5 DEF MonthName
    <2>7. NextDay(c) = [y |-> Y + 1, m |-> 3, d |-> 1]  BY <1>1, <2>6 DEF NextDay
    <2> QED BY <2>1, <2>4, <2>7 DEF c, cn
  <1> QED BY <1>1, <1>2, <1>3, <1>5, <1>6

(***************************************************************************)
(* The calendar of the listings (parser.rs, civil_from_days and            *)
(* days_from_civil) is right on every day from 1970 on: the two functions  *)
(* are each other's inverse, the day after a date is the next date of      *)
(* days_in_month's calendar, and every date is one of that calendar.       *)
(***************************************************************************)
THEOREM CalendarTheorem ==
  ASSUME input.of = "calendar" => input.day \in Nat
  PROVE  CalendarIsRight
  <1> SUFFICES ASSUME input.of = "calendar"
               PROVE  LET c == CivilFromDays(input.day) IN
                        /\ DaysFromCivil(c) = input.day
                        /\ CivilFromDays(input.day + 1) = NextDay(c)
                        /\ c.d \in 1..DaysInMonth(c.m, c.y)
    BY DEF CalendarIsRight, Given
  <1> DEFINE day == input.day
  <1>1. day \in Int /\ day + EpochShift >= 0  BY DEF EpochShift
  <1> HIDE DEF day
  <1>2. PICK era, yoe, doy : InYear(era, yoe, doy) /\ day = DayOf(era, yoe, doy)  BY <1>1, EveryDay
  <1>3. CivilFromDays(day) = DateOf(era, yoe, doy)  BY <1>2, CivilIs
  <1>4. PICK e, y, n : InYear(e, y, n) /\ DayOf(e, y, n) = day + 1
                       /\ DateOf(e, y, n) = NextDay(DateOf(era, yoe, doy))
    BY <1>2, Tomorrow
  <1>5. CivilFromDays(day + 1) = NextDay(CivilFromDays(day))
    <2>1. CivilFromDays(DayOf(e, y, n)) = DateOf(e, y, n)  BY <1>4, CivilIs
    <2> QED BY <1>3, <1>4, <2>1
  <1> QED BY <1>2, <1>3, <1>5, DaysIs, DateValid DEF day

-----------------------------------------------------------------------------
(* The year of a listed file.                                              *)

\* The day before the year that begins in March of year Y ends its count.
YearStart(Y) == DaysPerEra * (Y \div 400) + Start(Y % 400) - EpochShift

LEMMA YearStartIs ==
  ASSUME NEW era, NEW yoe, InYear(era, yoe, 0)
  PROVE  /\ Year(era, yoe) \in Nat /\ YearStart(Year(era, yoe)) \in Int
         /\ \A doy \in Int : DayOf(era, yoe, doy) = YearStart(Year(era, yoe)) + doy
  <1>1. era \in Int /\ 0 <= era /\ yoe \in Int /\ 0 <= yoe /\ yoe <= 399 /\ Start(yoe) \in Int
    <2>1. era \in Int /\ 0 <= era /\ yoe \in Int  BY DEF InYear
    <2> QED BY <2>1, InYearIs
  <1> DEFINE Y == Year(era, yoe)
             k == 400
  <1>2. Y = k * era + yoe /\ k \in Int /\ k > 0 /\ yoe < k /\ Y \in Nat  BY <1>1 DEF Year
  <1> HIDE DEF Y, k
  <1>3. Y \div k = era /\ Y % k = yoe  BY <1>1, <1>2, DivOf
  <1>4. YearStart(Y) = DaysPerEra * era + Start(yoe) - EpochShift  BY <1>3 DEF YearStart, k
  <1>5. DaysPerEra * era \in Int /\ EpochShift \in Int
    <2>1. DaysPerEra \in Int /\ EpochShift \in Int  BY DEF DaysPerEra, EpochShift
    <2> QED BY <1>1, <2>1
  <1>6. YearStart(Y) \in Int  BY <1>1, <1>4, <1>5
  <1>7. \A doy \in Int : DayOf(era, yoe, doy) = YearStart(Y) + doy  BY <1>1, <1>4, <1>5 DEF DayOf
  <1> QED BY <1>2, <1>6, <1>7 DEF Y

LEMMA EveryYear ==
  ASSUME NEW Y \in Nat
  PROVE  \E era, yoe : InYear(era, yoe, 0) /\ Year(era, yoe) = Y
  <1> DEFINE k == 400
             h == 100
  <1>1. k \in Int /\ k > 0 /\ h \in Int /\ h > 0 /\ Y \in Int /\ Y >= 0  OBVIOUS
  <1> HIDE DEF k, h
  <1>2. PICK era, yoe \in Int : Y = k * era + yoe /\ 0 <= era /\ 0 <= yoe /\ yoe < k  BY <1>1, DivBy
  <1>3. PICK c, r \in Int : yoe = h * c + r /\ 0 <= c /\ 0 <= r /\ r < h  BY <1>1, <1>2, DivBy
  <1> DEFINE f == 4
  <1>4. f \in Int /\ f > 0  OBVIOUS
  <1> HIDE DEF f
  <1>5. PICK q, b \in Int : r = f * q + b /\ 0 <= q /\ 0 <= b /\ b < f  BY <1>3, <1>4, DivBy
  <1>6. Y = 400 * era + yoe /\ yoe = 100 * c + r /\ r = 4 * q + b /\ yoe < 400 /\ r < 100 /\ b < 4
    BY <1>2, <1>3, <1>5 DEF k, h, f
  <1>7. InEra(c, q, b, 0) /\ yoe = YearAt(c, q, b)  BY <1>2, <1>3, <1>5, <1>6 DEF InEra, YearAt
  <1>8. InYear(era, yoe, 0)  BY <1>2, <1>7 DEF InYear
  <1> QED BY <1>6, <1>8 DEF Year

LEMMA YearLength ==
  ASSUME NEW Y \in Nat
  PROVE  /\ YearStart(Y) \in Int /\ YearStart(Y + 1) \in Int
         /\ YearStart(Y) + 365 <= YearStart(Y + 1) /\ YearStart(Y + 1) <= YearStart(Y) + 366
  <1>1. PICK era, yoe : InYear(era, yoe, 0) /\ Year(era, yoe) = Y  BY EveryYear
  <1> DEFINE L == LastDay(era, yoe)
  <1>2. L \in Int /\ 364 <= L /\ L <= 365  BY DEF LastDay
  <1>3. InYear(era, yoe, L)
    <2>1. PICK c, q, b : InEra(c, q, b, 0) /\ yoe = YearAt(c, q, b)  BY <1>1 DEF InYear
    <2>2. era \in Int /\ 0 <= era /\ yoe \in Int  BY <1>1 DEF InYear
    <2>3. LeapYear(Year(era, yoe) + 1) <=> Long(c, q, b)  BY <2>1, <2>2, LeapIs DEF Year
    <2>4. InEra(c, q, b, L)  BY <2>1, <2>3 DEF InEra, LastDay
    <2> HIDE DEF L
    <2> QED BY <1>2, <2>1, <2>2, <2>4 DEF InYear
  <1>4. PICK e, y : InYear(e, y, 0) /\ Year(e, y) = Y + 1 /\ DayOf(e, y, 0) = DayOf(era, yoe, L) + 1
    BY <1>1, <1>3, NewYear
  <1> HIDE DEF L
  <1>5. YearStart(Y) \in Int /\ DayOf(era, yoe, L) = YearStart(Y) + L  BY <1>1, <1>2, YearStartIs
  <1>6. YearStart(Y + 1) \in Int /\ DayOf(e, y, 0) = YearStart(Y + 1) + 0  BY <1>4, YearStartIs
  <1> QED BY <1>2, <1>4, <1>5, <1>6

\* Years apart are days apart.
LEMMA YearsApart ==
  ASSUME NEW Y \in Nat, NEW Z \in Nat, Y < Z
  PROVE  YearStart(Y) \in Int /\ YearStart(Z) \in Int /\ YearStart(Y) + 365 * (Z - Y) <= YearStart(Z)
  <1> DEFINE Good == {n \in Nat : YearStart(Y + n) \in Int /\ YearStart(Y) + 365 * n <= YearStart(Y + n)}
  <1>1. YearStart(Y) \in Int  BY YearLength
  <1>2. 0 \in Good  BY <1>1
  <1>3. ASSUME NEW n \in Nat, n \in Good PROVE n + 1 \in Good
    <2>1. Y + n \in Nat /\ (Y + n) + 1 = Y + (n + 1)  OBVIOUS
    <2>2. YearStart((Y + n) + 1) \in Int /\ YearStart(Y + n) + 365 <= YearStart((Y + n) + 1)  BY <2>1, YearLength
    <2>3. YearStart(Y + (n + 1)) \in Int /\ YearStart(Y + n) + 365 <= YearStart(Y + (n + 1))  BY <2>1, <2>2
    <2>4. YearStart(Y + n) \in Int /\ YearStart(Y) + 365 * n <= YearStart(Y + n)  BY <1>3
    <2>5. YearStart(Y) + 365 * (n + 1) <= YearStart(Y + (n + 1))  BY <1>1, <2>3, <2>4
    <2> QED BY <2>3, <2>5
  <1>4. Z - Y \in Good
    <2> HIDE DEF Good
    <2>1. Nat \subseteq Good  BY <1>2, <1>3, NumbersIn
    <2> QED BY <2>1
  <1>5. Y + (Z - Y) = Z  OBVIOUS
  <1> QED BY <1>1, <1>4, <1>5

\* The same month and day of another year.
MarchYear(c) == c.y - (IF c.m <= 2 THEN 1 ELSE 0)
DayIn(c) == MonthStart(IF c.m > 2 THEN c.m - 3 ELSE c.m + 9) + c.d - 1

LEMMA SameDay ==
  ASSUME NEW y, NEW m, NEW d
  PROVE  LET c == [y |-> y, m |-> m, d |-> d] IN
         MarchYear(c) \in Nat /\ DayIn(c) \in Int => DaysFromCivil(c) = YearStart(MarchYear(c)) + DayIn(c)
  <1> DEFINE c == [y |-> y, m |-> m, d |-> d]
             Y == MarchYear(c)
             n == DayIn(c)
  <1> SUFFICES ASSUME Y \in Nat, n \in Int PROVE DaysFromCivil(c) = YearStart(Y) + n  OBVIOUS
  <1>1. DaysFromCivil(c) =
          (Y \div 400) * DaysPerEra + (Y % 400) * 365 + ((Y % 400) \div 4) - ((Y % 400) \div 100) + n - EpochShift
    BY DEF DaysFromCivil, MarchYear, DayIn, MonthStart
  <1> DEFINE era == Y \div 400
             yoe == Y % 400
  <1> HIDE DEF Y, n, c
  <1>2. era \in Int /\ yoe \in Int /\ yoe >= 0  OBVIOUS
  <1>3. YearStart(Y) = DaysPerEra * era + (365 * yoe + (yoe \div 4) - (yoe \div 100)) - EpochShift
    BY DEF YearStart, Start
  <1> HIDE DEF era, yoe
  <1>4. yoe \div 4 \in Int /\ yoe \div 100 \in Int  BY <1>2
  <1>5. EpochShift \in Int /\ DaysPerEra * era \in Int /\ era * DaysPerEra = DaysPerEra * era
    <2>1. DaysPerEra \in Int /\ EpochShift \in Int  BY DEF DaysPerEra, EpochShift
    <2> QED BY <1>2, <2>1
  <1>6. DaysFromCivil(c) = era * DaysPerEra + yoe * 365 + (yoe \div 4) - (yoe \div 100) + n - EpochShift
    BY <1>1 DEF era, yoe
  <1> QED BY <1>2, <1>3, <1>4, <1>5, <1>6

\* What a day on the calendar is: its date is valid, and its number is the one
\* its year and month give.
LEMMA OnCalendar ==
  ASSUME NEW day \in Int, day + EpochShift >= 0
  PROVE  LET c == CivilFromDays(day) IN
         /\ c = [y |-> c.y, m |-> c.m, d |-> c.d] /\ c.y \in Int /\ c.m \in Int /\ c.d \in Int
         /\ c.d <= DaysInMonth(c.m, c.y)
         /\ MarchYear(c) \in Nat /\ DayIn(c) \in Int /\ 0 <= DayIn(c) /\ DayIn(c) <= 365
         /\ c.m <= 2 <=> DayIn(c) >= 306
         /\ day = YearStart(MarchYear(c)) + DayIn(c)
  <1> DEFINE c == CivilFromDays(day)
  <1>1. PICK era, yoe, doy : InYear(era, yoe, doy) /\ day = DayOf(era, yoe, doy)  BY EveryDay
  <1>2. c = DateOf(era, yoe, doy)  BY <1>1, CivilIs
  <1> DEFINE mp == MonthOf(doy)
             Y == Year(era, yoe)
  <1>3. /\ Y \in Int /\ doy \in Int /\ 0 <= doy /\ doy <= 365
        /\ mp \in Int /\ 0 <= mp /\ mp <= 11 /\ MonthStart(mp) \in Int
        /\ MonthStart(mp) <= doy /\ doy < MonthStart(mp + 1)
        /\ c = [y |-> Y + (IF mp >= 10 THEN 1 ELSE 0), m |-> MonthName(mp), d |-> doy - MonthStart(mp) + 1]
    BY <1>1, <1>2, DateIs
  <1>4. c.d \in 1..DaysInMonth(c.m, c.y)  BY <1>1, <1>2, DateValid
  <1>5. c.d <= DaysInMonth(c.m, c.y)  BY <1>4
  <1>6. InYear(era, yoe, 0)
    <2>1. PICK a, q, b : InEra(a, q, b, doy) /\ yoe = YearAt(a, q, b)  BY <1>1 DEF InYear
    <2>2. InEra(a, q, b, 0)  BY <2>1 DEF InEra
    <2>3. era \in Int /\ 0 <= era /\ yoe \in Int  BY <1>1 DEF InYear
    <2> QED BY <2>1, <2>2, <2>3 DEF InYear
  <1>7. Y \in Nat /\ day = YearStart(Y) + doy  BY <1>1, <1>3, <1>6, YearStartIs
  <1> HIDE DEF c, mp, Y
  <1>8. c.m \in Int /\ (c.m <= 2 <=> mp >= 10) /\ (IF c.m > 2 THEN c.m - 3 ELSE c.m + 9) = mp
    BY <1>3 DEF MonthName
  <1>9. MarchYear(c) = Y /\ DayIn(c) = doy  BY <1>3, <1>8 DEF MarchYear, DayIn
  <1>10. mp >= 10 <=> doy >= 306
    <2>1. CASE mp >= 10
      <3>1. mp = 10 \/ mp = 11  BY <1>3, <2>1
      <3>2. MonthStart(mp) >= 306  BY <3>1, MonthStarts
      <3> QED BY <1>3, <2>1, <3>2
    <2>2. CASE mp < 10
      <3>1. 5 * MonthStart(mp + 1) <= 153 * (mp + 1) + 2 /\ MonthStart(mp + 1) \in Int
        <4>1. mp + 1 \in Int /\ 0 <= mp + 1  BY <1>3
        <4> QED BY <4>1, MonthStartIs
      <3>2. MonthStart(mp + 1) <= 306  BY <1>3, <2>2, <3>1
      <3> QED BY <1>3, <2>2, <3>1, <3>2
    <2> QED BY <1>3, <2>1, <2>2
  <1>11. c.y \in Int /\ c.d \in Int /\ c = [y |-> c.y, m |-> c.m, d |-> c.d]  BY <1>3
  <1> QED BY <1>3, <1>5, <1>7, <1>8, <1>9, <1>10, <1>11 DEF c

MinutesOfDay == 0..1439

LEMMA RecentYears ==
  ASSUME NEW now \in Int, now >= 0, NEW back \in Int, -2 <= back, back <= 181
  PROVE  LET n == CivilFromDays(now)
             w == CivilFromDays(now - back)
         IN /\ n.y - 1 <= w.y
            /\ MarchYear(w) - 1 \in Nat
  <1> DEFINE n == CivilFromDays(now)
             w == CivilFromDays(now - back)
             Y == MarchYear(n)
             Z == MarchYear(w)
             i == DayIn(n)
             j == DayIn(w)
             then == now - back
  <1>1. EpochShift \in Int /\ EpochShift >= 2000  BY DEF EpochShift
  <1>2. /\ n.y \in Int /\ n.m \in Int /\ Y \in Nat /\ i \in Int /\ 0 <= i /\ i <= 365
        /\ n.m <= 2 <=> i >= 306
        /\ now = YearStart(Y) + i
    BY <1>1, OnCalendar
  <1>3. then \in Int /\ then + EpochShift >= 0 /\ then = now - back  BY <1>1
  <1> HIDE DEF then
  <1>4. /\ w.y \in Int /\ w.m \in Int /\ Z \in Nat /\ j \in Int /\ 0 <= j /\ j <= 365
        /\ w.m <= 2 <=> j >= 306
        /\ then = YearStart(Z) + j
    <2> DEFINE x == CivilFromDays(then)
    <2>1. x = w  BY DEF then
    <2>2. /\ x.y \in Int /\ x.m \in Int /\ MarchYear(x) \in Nat /\ DayIn(x) \in Int
          /\ 0 <= DayIn(x) /\ DayIn(x) <= 365
          /\ x.m <= 2 <=> DayIn(x) >= 306
          /\ then = YearStart(MarchYear(x)) + DayIn(x)
      BY <1>3, OnCalendar
    <2> HIDE DEF x, w
    <2> QED BY <2>1, <2>2
  <1>5. n.y = Y + (IF n.m <= 2 THEN 1 ELSE 0) /\ w.y = Z + (IF w.m <= 2 THEN 1 ELSE 0)
    BY <1>2, <1>4 DEF MarchYear
  <1> HIDE DEF n, w, Y, Z, i, j
  <1>6. YearStart(Y) \in Int /\ YearStart(Z) \in Int  BY <1>2, <1>4, YearLength
  <1>7. ASSUME w.y < n.y - 1 PROVE FALSE
    <2>1. Z < Y  BY <1>2, <1>4, <1>5, <1>7
    <2>2. YearStart(Z) + 365 * (Y - Z) <= YearStart(Y)  BY <1>2, <1>4, <2>1, YearsApart
    <2>3. CASE Y - Z >= 2  BY <1>2, <1>3, <1>4, <1>6, <2>2, <2>3
    <2>4. CASE Y - Z = 1
      <3>1. n.m <= 2 /\ ~(w.m <= 2)  BY <1>2, <1>4, <1>5, <1>7, <2>4
      <3>2. i >= 306 /\ j < 306  BY <1>2, <1>4, <3>1
      <3> QED BY <1>2, <1>3, <1>4, <1>6, <2>2, <2>4, <3>2
    <2> QED BY <1>2, <1>4, <2>1, <2>3, <2>4
  <1>8. Z # 0
    <2> SUFFICES ASSUME Z = 0 PROVE FALSE  OBVIOUS
    <2>1. YearStart(0) = 0 - EpochShift
      <3>1. Start(0) = 0 /\ 0 \div 400 = 0 /\ 0 % 400 = 0  BY DEF Start
      <3>2. DaysPerEra \in Int  BY DEF DaysPerEra
      <3> QED BY <3>1, <3>2, <1>1 DEF YearStart
    <2> QED BY <1>1, <1>3, <1>4, <2>1
  <1>9. Z - 1 \in Nat  BY <1>4, <1>8
  <1>10. n.y - 1 <= w.y  BY <1>2, <1>4, <1>7
  <1> QED BY <1>9, <1>10 DEF n, w, Z

(***************************************************************************)
(* Whatever day the printer's clock stands at, an entry it wrote up to 181 *)
(* days before its clock or two days after, at any minute, gets back the   *)
(* year it was written in, unless that is the year after the clock's; and  *)
(* whatever the entry, the year is the clock's, the one before, or None    *)
(* (parser.rs, parse_listing_line).                                        *)
(***************************************************************************)
THEOREM YearTheorem ==
  ASSUME input.of = "listed" => /\ input.now \in Nat /\ input.back \in Int
                                /\ input.minute \in MinutesOfDay /\ input.nowMinute \in MinutesOfDay
  PROVE  YearRecovered
  <1> DEFINE now == input.now
             back == input.back
             minute == input.minute
             nowMinute == input.nowMinute
             n == CivilFromDays(now)
             w == CivilFromDays(now - back)
             near == NearerYear(w.m, w.d, minute, n, nowMinute)
             year == InferYear(w.m, w.d, minute, n, nowMinute)
  <1> SUFFICES ASSUME input.of = "listed"
               PROVE  IF back \in -2..181 /\ w.y <= n.y THEN year = w.y
                      ELSE year \in {n.y - 1, n.y, None}
    BY DEF YearRecovered, Given
  <1>1. /\ now \in Int /\ now >= 0 /\ back \in Int /\ minute \in Int /\ 0 <= minute /\ minute <= 1439
        /\ nowMinute \in Int /\ 0 <= nowMinute /\ nowMinute <= 1439
    <2> DEFINE k == 1439
    <2>1. now \in Nat /\ back \in Int /\ minute \in 0..k /\ nowMinute \in 0..k /\ k \in Int
      BY DEF MinutesOfDay
    <2> HIDE DEF k, now, back, minute, nowMinute
    <2>2. /\ now \in Int /\ now >= 0 /\ back \in Int /\ minute \in Int /\ 0 <= minute /\ minute <= k
          /\ nowMinute \in Int /\ 0 <= nowMinute /\ nowMinute <= k
      BY <2>1
    <2> QED BY <2>2 DEF k
  <1> DEFINE reference == DaysFromCivil(n) * 1440 + nowMinute
             at(y) == DaysFromCivil([y |-> y, m |-> w.m, d |-> w.d]) * 1440 + minute
  <1>2. near = IF reference - at(n.y - 1) < at(n.y) - reference THEN n.y - 1 ELSE n.y
    BY DEF NearerYear, MinutesSinceEpoch
  <1>3. year = IF w.d <= DaysInMonth(w.m, near) THEN near
               ELSE IF near = n.y /\ w.d <= DaysInMonth(w.m, n.y - 1) THEN n.y - 1 ELSE None
    BY DEF InferYear
  <1> HIDE DEF now, back, minute, nowMinute, year
  <1>4. ASSUME back \in -2..181, w.y <= n.y PROVE year = w.y
    <2>1. -2 <= back /\ back <= 181  BY <1>4
    <2>2. n.y - 1 <= w.y /\ MarchYear(w) - 1 \in Nat
      <3>1. now \in Int /\ now >= 0 /\ back \in Int  BY <1>1
      <3> HIDE DEF near
      <3> QED BY <2>1, <3>1, RecentYears
    <2>3. EpochShift \in Int /\ EpochShift >= 2000  BY DEF EpochShift
    <2> DEFINE then == now - back
    <2>4. then \in Int /\ then + EpochShift >= 0  BY <1>1, <2>1, <2>3
    <2> HIDE DEF then
    <2> DEFINE x == CivilFromDays(then)
    <2>5. x = w  BY DEF then
    <2>6. /\ x = [y |-> x.y, m |-> x.m, d |-> x.d] /\ x.y \in Int /\ x.m \in Int
          /\ x.d <= DaysInMonth(x.m, x.y)
          /\ MarchYear(x) \in Nat /\ DayIn(x) \in Int
          /\ then = YearStart(MarchYear(x)) + DayIn(x)
      BY <2>4, OnCalendar
    <2>7. n.y \in Int /\ DaysFromCivil(n) = now
      <3>1. now + EpochShift >= 0  BY <1>1, <2>3
      <3>2. n.y \in Int  BY <1>1, <3>1, OnCalendar
      <3>3. PICK era, yoe, doy : InYear(era, yoe, doy) /\ now = DayOf(era, yoe, doy)  BY <1>1, <3>1, EveryDay
      <3>4. n = DateOf(era, yoe, doy)  BY <3>3, CivilIs
      <3> QED BY <3>2, <3>3, <3>4, DaysIs
    <2> HIDE DEF x, w, n, near
    <2> DEFINE Y == MarchYear(w)
               j == DayIn(w)
               s == IF w.m <= 2 THEN 1 ELSE 0
    <2>8. /\ w.y \in Int /\ w.d <= DaysInMonth(w.m, w.y) /\ Y \in Nat /\ Y - 1 \in Nat /\ j \in Int
          /\ now - back = YearStart(Y) + j
      BY <2>2, <2>5, <2>6 DEF then
    <2>9. Y = w.y - s /\ s \in Int  BY DEF MarchYear
    <2>10. ASSUME NEW y \in Int, y - s \in Nat
           PROVE  DaysFromCivil([y |-> y, m |-> w.m, d |-> w.d]) = YearStart(y - s) + j
      <3> DEFINE c == [y |-> y, m |-> w.m, d |-> w.d]
      <3>1. MarchYear(c) = y - s /\ DayIn(c) = j  BY DEF MarchYear, DayIn
      <3>2. MarchYear(c) \in Nat /\ DayIn(c) \in Int => DaysFromCivil(c) = YearStart(MarchYear(c)) + DayIn(c)
        BY SameDay
      <3> HIDE DEF c, s, j
      <3> QED BY <2>8, <2>10, <3>1, <3>2 DEF c
    <2> DEFINE D(y) == DaysFromCivil([y |-> y, m |-> w.m, d |-> w.d])
    <2>11. \A y \in Int : y - s \in Nat => D(y) = YearStart(y - s) + j  BY <2>10
    <2>12. reference = now * 1440 + nowMinute  BY <2>7
    <2>13. \A y \in Int : at(y) = D(y) * 1440 + minute  OBVIOUS
    <2> HIDE DEF D, Y, j, s, at, reference
    <2>14. CASE w.y = n.y
      <3>1. n.y - s = Y /\ (n.y - 1) - s = Y - 1 /\ n.y - 1 \in Int  BY <2>7, <2>8, <2>9, <2>14
      <3>2. D(n.y) = YearStart(Y) + j  BY <2>7, <2>8, <2>11, <3>1
      <3>3. D(n.y - 1) = YearStart(Y - 1) + j  BY <2>8, <2>11, <3>1
      <3>4. YearStart(Y - 1) \in Int /\ YearStart(Y) \in Int /\ YearStart(Y - 1) + 365 <= YearStart(Y)
        <4>1. (Y - 1) + 1 = Y  BY <2>8
        <4> QED BY <2>8, <4>1, YearLength
      <3>5. D(n.y) = now - back /\ D(n.y - 1) + 365 <= now - back /\ D(n.y) \in Int /\ D(n.y - 1) \in Int
        BY <2>8, <3>2, <3>3, <3>4
      <3>6. at(n.y) = D(n.y) * 1440 + minute /\ at(n.y - 1) = D(n.y - 1) * 1440 + minute
        BY <2>7, <2>13, <3>1
      <3>7. ~(reference - at(n.y - 1) < at(n.y) - reference)
        BY <1>1, <2>1, <2>12, <3>5, <3>6
      <3>8. near = w.y  BY <1>2, <2>14, <3>7
      <3> QED BY <1>3, <2>8, <3>8
    <2>15. CASE w.y = n.y - 1
      <3>1. n.y - s = Y + 1 /\ (n.y - 1) - s = Y /\ n.y - 1 \in Int /\ Y + 1 \in Nat
        BY <2>7, <2>8, <2>9, <2>15
      <3>2. D(n.y) = YearStart(Y + 1) + j  BY <2>7, <2>11, <3>1
      <3>3. D(n.y - 1) = YearStart(Y) + j  BY <2>8, <2>11, <3>1
      <3>4. YearStart(Y + 1) \in Int /\ YearStart(Y) \in Int /\ YearStart(Y) + 365 <= YearStart(Y + 1)
        BY <2>8, YearLength
      <3>5. D(n.y - 1) = now - back /\ now - back + 365 <= D(n.y) /\ D(n.y) \in Int /\ D(n.y - 1) \in Int
        BY <2>8, <3>2, <3>3, <3>4
      <3>6. at(n.y) = D(n.y) * 1440 + minute /\ at(n.y - 1) = D(n.y - 1) * 1440 + minute
        BY <2>7, <2>13, <3>1
      <3>7. reference - at(n.y - 1) < at(n.y) - reference
        BY <1>1, <2>1, <2>12, <3>5, <3>6
      <3>8. near = w.y  BY <1>2, <2>15, <3>7
      <3> QED BY <1>3, <2>8, <3>8
    <2>16. w.y = n.y \/ w.y = n.y - 1  BY <1>4, <2>2, <2>7, <2>8
    <2> QED BY <2>14, <2>15, <2>16
  <1>5. year \in {n.y - 1, n.y, None}  BY <1>2, <1>3
  <1> QED BY <1>4, <1>5

-----------------------------------------------------------------------------
(* Failures below the protocols                                            *)

AnyFlag == Flags \cup {"BAD_MD", "BAD_KEY", "EXT_KEY_USAGE", "NS_CERT_TYPE"}
Nominal == {"NOT_TRUSTED", "CN_MISMATCH", "OTHER"}

LEMMA VerdictRows ==
  /\ DOMAIN VerdictOrder = 1..8
  /\ VerdictOrder[1] = [flags |-> {"MISSING"}, as |-> "Missing"]
  /\ VerdictOrder[2] = [flags |-> {"BAD_MD", "BAD_PK", "BAD_KEY"}, as |-> "UnsupportedAlgorithm"]
  /\ VerdictOrder[3] = [flags |-> {"KEY_USAGE", "EXT_KEY_USAGE", "NS_CERT_TYPE"}, as |-> "InvalidPurpose"]
  /\ VerdictOrder[4] = [flags |-> {"REVOKED"}, as |-> "Revoked"]
  /\ VerdictOrder[5] = [flags |-> {"EXPIRED"}, as |-> "Expired"]
  /\ VerdictOrder[6] = [flags |-> {"FUTURE"}, as |-> "NotYetValid"]
  /\ VerdictOrder[7] = [flags |-> {"NOT_TRUSTED"}, as |-> "UntrustedAnchor"]
  /\ VerdictOrder[8] = [flags |-> {"CN_MISMATCH"}, as |-> "NameMismatch"]
  BY DEF VerdictOrder

\* The missing anchor is the verdict where it is the most fundamental defect.
LEMMA VerdictIs ==
  ASSUME NEW ran \in BOOLEAN, NEW flags \in SUBSET AnyFlag, NEW measured, measured = flags \ {"SKIP_VERIFY"}
  PROVE  /\ MapVerifyFlags(ran, flags) = None <=> ~ran \/ measured = {}
         /\ MapVerifyFlags(ran, flags) = "UntrustedAnchor" <=>
              ran /\ "NOT_TRUSTED" \in measured /\ measured \subseteq Nominal
         /\ MapVerifyFlags(ran, flags) # None => MapVerifyFlags(ran, flags) \in Verdicts
  <1> DEFINE hits == {i \in DOMAIN VerdictOrder : VerdictOrder[i].flags \cap measured # {}}
             first == CHOOSE i \in hits : \A j \in hits : i <= j
             out == MapVerifyFlags(ran, flags)
  <1>1. out = IF ~ran \/ measured = {} THEN None ELSE IF hits = {} THEN "Unspecified" ELSE VerdictOrder[first].as
    BY DEF MapVerifyFlags
  <1>2. hits \subseteq 1..8  BY VerdictRows
  <1>3. /\ 7 \in hits <=> "NOT_TRUSTED" \in measured
        /\ (\A i \in hits : i >= 7) <=> measured \subseteq Nominal
    <2>1. /\ 1 \in hits <=> "MISSING" \in measured
          /\ 2 \in hits <=> "BAD_MD" \in measured \/ "BAD_PK" \in measured \/ "BAD_KEY" \in measured
          /\ 3 \in hits <=> "KEY_USAGE" \in measured \/ "EXT_KEY_USAGE" \in measured \/ "NS_CERT_TYPE" \in measured
          /\ 4 \in hits <=> "REVOKED" \in measured
          /\ 5 \in hits <=> "EXPIRED" \in measured
          /\ 6 \in hits <=> "FUTURE" \in measured
          /\ 7 \in hits <=> "NOT_TRUSTED" \in measured
      BY VerdictRows
    <2> HIDE DEF hits
    <2>2. (\A i \in hits : i >= 7) <=> \A i \in {1, 2, 3, 4, 5, 6} : i \notin hits  BY <1>2
    <2>3. \A f \in measured : f \in {"MISSING", "BAD_MD", "BAD_PK", "BAD_KEY", "KEY_USAGE", "EXT_KEY_USAGE",
                                     "NS_CERT_TYPE", "REVOKED", "EXPIRED", "FUTURE"} \cup Nominal
      BY DEF AnyFlag, Flags, Nominal
    <2>4. (\A i \in {1, 2, 3, 4, 5, 6} : i \notin hits) <=>
            {"MISSING", "BAD_MD", "BAD_PK", "BAD_KEY", "KEY_USAGE", "EXT_KEY_USAGE",
             "NS_CERT_TYPE", "REVOKED", "EXPIRED", "FUTURE"} \cap measured = {}
      BY <2>1
    <2>5. {"MISSING", "BAD_MD", "BAD_PK", "BAD_KEY", "KEY_USAGE", "EXT_KEY_USAGE",
           "NS_CERT_TYPE", "REVOKED", "EXPIRED", "FUTURE"} \cap Nominal = {}
      BY DEF Nominal
    <2> QED BY <2>1, <2>2, <2>3, <2>4, <2>5
  <1>4. hits # {} => first \in hits /\ \A j \in hits : first <= j
    <2> HIDE DEF hits
    <2> SUFFICES ASSUME hits # {} PROVE \E i \in hits : \A j \in hits : i <= j  OBVIOUS
    <2>1. \A i \in hits : i \in {1, 2, 3, 4, 5, 6, 7, 8}  BY <1>2
    <2> QED BY <2>1
  <1>5. \A i \in 1..8 : /\ VerdictOrder[i].as = "UntrustedAnchor" <=> i = 7
                        /\ VerdictOrder[i].as # None /\ VerdictOrder[i].as \in Verdicts
    <2>1. \A i \in 1..8 : VerdictOrder[i].as # None /\ VerdictOrder[i].as \in Verdicts
      BY FoundAssumption, VerdictRows DEF Verdicts
    <2>2. \A i \in 1..8 : i \in {1, 2, 3, 4, 5, 6, 7, 8}  OBVIOUS
    <2> QED BY <2>1, <2>2, VerdictRows
  <1>6. "Unspecified" # None /\ "Unspecified" \in Verdicts /\ "UntrustedAnchor" # None
    <2>1. 7 \in DOMAIN VerdictOrder /\ VerdictOrder[7].as = "UntrustedAnchor"  BY VerdictRows
    <2> QED BY <2>1, FoundAssumption DEF Verdicts
  <1> HIDE DEF hits, first, out
  <1>7. hits # {} => (first = 7 <=> "NOT_TRUSTED" \in measured /\ measured \subseteq Nominal)
    <2>1. hits # {} => (first = 7 <=> 7 \in hits /\ \A i \in hits : i >= 7)
      <3>1. \A i \in hits : i \in Int  BY <1>2
      <3> QED BY <1>4, <3>1
    <2> QED BY <1>3, <2>1
  <1>8. hits # {} => first \in 1..8  BY <1>2, <1>4
  <1>9. hits = {} => ~("NOT_TRUSTED" \in measured)  BY <1>3
  <1> QED BY <1>1, <1>5, <1>6, <1>7, <1>8, <1>9 DEF out

LEMMA BreaksApart ==
  ASSUME NEW x \in ConnectionReset
  PROVE  x \notin ConnectionAborted
  <1>1. CASE x = -80  BY <1>1 DEF ConnectionAborted
  <1>2. CASE x = -29312  BY <1>2 DEF ConnectionAborted
  <1>3. CASE x = -30848  BY <1>3 DEF ConnectionAborted
  <1> QED BY <1>1, <1>2, <1>3 DEF ConnectionReset

LEMMA CaptureOnlyWhenSound ==
  ASSUME input.of = "handshake" => /\ input.ran \in BOOLEAN /\ input.flags \in SUBSET AnyFlag
                                   /\ input.loaded \in Nat /\ input.expected \in Nat
  PROVE  CaptureOnlySound
  <1> DEFINE ran == input.ran
             flags == input.flags
             loaded == input.loaded
             expected == input.expected
             measured == flags \ {"SKIP_VERIFY"}
             v == MapVerifyFlags(ran, flags)
             out == HandshakeFailure(ran, flags, loaded, expected, None, 80)
  <1> SUFFICES ASSUME input.of = "handshake"
               PROVE  /\ (out = "UntrustedAnchor") =
                           (/\ ran /\ loaded >= expected
                            /\ "NOT_TRUSTED" \in measured
                            /\ measured \subseteq {"NOT_TRUSTED", "CN_MISMATCH", "OTHER"})
                      /\ (out = "IncompleteTrustStore") =>
                           measured \subseteq {"NOT_TRUSTED", "CN_MISMATCH", "OTHER"}
                      /\ (out = "ConnectionReset") = (~ran \/ measured = {})
    BY DEF CaptureOnlySound, Given
  <1>1. ran \in BOOLEAN /\ flags \in SUBSET AnyFlag /\ loaded \in Nat /\ expected \in Nat  OBVIOUS
  <1> HIDE DEF ran, flags, loaded, expected
  <1>2. /\ v = None <=> ~ran \/ measured = {}
        /\ v = "UntrustedAnchor" <=> ran /\ "NOT_TRUSTED" \in measured /\ measured \subseteq Nominal
        /\ v # None => v \in Verdicts
    BY <1>1, VerdictIs
  <1>3. MapConnectError(None, 80) = "ConnectionReset"
    <2>1. CodeFromRecord(80) = -80 /\ 80 # None  BY NoneAssumption DEF CodeFromRecord
    <2>2. MbedtlsErrorKind(-80) = "ConnectionReset"
      <3>1. -80 \in ConnectionReset  BY DEF ConnectionReset
      <3> QED BY <3>1, BreaksApart DEF MbedtlsErrorKind
    <2>3. "ConnectionReset" # None  BY FoundAssumption DEF ErrorKinds
    <2> QED BY <2>1, <2>2, <2>3 DEF MapConnectError, MapErrorKind
  <1>4. out = IF v # None THEN (IF v = "UntrustedAnchor" /\ loaded < expected THEN "IncompleteTrustStore" ELSE v)
              ELSE "ConnectionReset"
    BY <1>3 DEF HandshakeFailure, AccountForTrustStore
  <1>5. "IncompleteTrustStore" \notin Verdicts /\ "ConnectionReset" \notin Verdicts
    <2>1. \A i \in DOMAIN VerdictOrder : i \in {1, 2, 3, 4, 5, 6, 7, 8}  BY VerdictRows
    <2> QED BY <2>1, VerdictRows DEF Verdicts
  <1>6. loaded >= expected <=> ~(loaded < expected)  BY <1>1
  <1> HIDE DEF v, out, measured
  <1>10. v = "UntrustedAnchor" => v # None
    <2>1. v = "UntrustedAnchor" => "NOT_TRUSTED" \in measured  BY <1>2
    <2>2. "NOT_TRUSTED" \in measured => measured # {}  OBVIOUS
    <2> QED BY <1>1, <1>2, <2>1, <2>2
  <1>7. (out = "UntrustedAnchor") <=> v = "UntrustedAnchor" /\ ~(loaded < expected)
    BY <1>4, <1>10
  <1>8. out = "IncompleteTrustStore" => v = "UntrustedAnchor"  BY <1>2, <1>4, <1>5
  <1>9. out = "ConnectionReset" <=> v = None  BY <1>2, <1>4, <1>5
  <1> QED BY <1>2, <1>6, <1>7, <1>8, <1>9, Zenon DEF Nominal

LEMMA ExhaustionIsReported ==
  ASSUME /\ input.of = "code" => \E h \in Nat, l \in 0..127 : /\ input.high = 128 * h /\ input.low = l
                                                            /\ input.recorded \in BOOLEAN
  PROVE  ExhaustionReported
  <1>1. ASSUME input.of = "code"
        PROVE  LET code == -(input.high + input.low)
                   whole == code \in ConnectionReset \cup ConnectionAborted
                   out == MapConnectError(input.espErr, IF input.recorded THEN -code ELSE None)
               IN (out = "ResourceExhausted") =
                    (\/ input.recorded /\ ~whole /\ {-input.high, -input.low} \cap AllocFailed # {}
                     \/ (~input.recorded \/ ~whole) /\ input.espErr = "ESP_ERR_NO_MEM")
    <2>1. PICK h \in Nat, l \in 0..127 : input.high = 128 * h /\ input.low = l /\ input.recorded \in BOOLEAN
      BY <1>1
    <2> DEFINE a == input.high
               e == input.espErr
               rec == input.recorded
               mag == a + l
               code == -mag
               kind == MbedtlsErrorKind(code)
               out == MapConnectError(e, IF rec THEN -code ELSE None)
               whole == code \in ConnectionReset \cup ConnectionAborted
    <2>2. a \in Int /\ l \in Int /\ 0 <= a /\ 0 <= l /\ l < 128 /\ a = 128 * h /\ h \in Int /\ 0 <= h  BY <2>1
    <2>3. input.low = l /\ rec \in BOOLEAN  BY <2>1
    <2> HIDE DEF a, e, rec
    <2>4. mag % 128 = l /\ -code = mag /\ mag \in Int
      <3> DEFINE k == 128
      <3>1. k \in Int /\ k > 0 /\ mag = k * h + l /\ l < k  BY <2>2
      <3>2. -code = mag /\ mag \in Int  BY <2>2
      <3> HIDE DEF k, mag
      <3>3. mag % k = l  BY <2>2, <3>1, DivOf
      <3> QED BY <3>2, <3>3 DEF k
    <2>5. IsAllocFailure(code) <=> {-a, -l} \cap AllocFailed # {}
      <3>1. IsAllocFailure(code) <=> mag > 0 /\ (-l \in AllocFailed \/ -(mag - l) \in AllocFailed)
        BY <2>4 DEF IsAllocFailure
      <3>2. mag - l = a  BY <2>2
      <3>3. mag = 0 => -l = 0 /\ -a = 0  BY <2>2
      <3>4. 0 \notin AllocFailed  BY DEF AllocFailed
      <3>5. mag > 0 \/ mag = 0  BY <2>2
      <3> HIDE DEF mag
      <3> QED BY <3>1, <3>2, <3>3, <3>4, <3>5
    <2> HIDE DEF mag, code
    <2>6. kind = IF code \in ConnectionReset THEN "ConnectionReset"
                 ELSE IF code \in ConnectionAborted THEN "ConnectionAborted"
                 ELSE IF IsAllocFailure(code) THEN "OutOfMemory" ELSE None
      BY BreaksApart DEF MbedtlsErrorKind
    <2>7. out = IF rec /\ kind # None THEN MapErrorKind(kind)
                ELSE IF e = "ESP_ERR_NO_MEM" THEN "ResourceExhausted" ELSE "Other"
      <3>1. rec => -code # None
        <4>1. -code \in Int  BY <2>4
        <4> QED BY <4>1, NoneAssumption
      <3>2. CodeFromRecord(-code) = code
        <4>1. code \in Int  BY <2>4 DEF code
        <4> QED BY <4>1 DEF CodeFromRecord
      <3> QED BY <2>3, <3>1, <3>2 DEF MapConnectError
    <2>8. /\ MapErrorKind("ConnectionReset") = "ConnectionReset"
          /\ MapErrorKind("ConnectionAborted") = "ConnectionAborted"
          /\ MapErrorKind("OutOfMemory") = "ResourceExhausted"
      BY DEF MapErrorKind
    <2>9. "ConnectionReset" # None /\ "ConnectionAborted" # None /\ "OutOfMemory" # None
      BY FoundAssumption DEF ErrorKinds
    <2>10. whole <=> kind \in {"ConnectionReset", "ConnectionAborted"}  BY <2>6, <2>9
    <2> HIDE DEF kind, out, whole
    <2>11. out = "ResourceExhausted" <=>
             \/ rec /\ ~whole /\ IsAllocFailure(code)
             \/ (~rec \/ ~whole) /\ e = "ESP_ERR_NO_MEM"
      BY <2>3, <2>6, <2>7, <2>8, <2>9, <2>10
    <2> QED BY <2>3, <2>5, <2>11, Zenon DEF whole, out, code, mag, a, e, rec
  <1>2. MapErrorKind(MapStdKind(input.kind)) = "ResourceExhausted" <=> input.kind = "OutOfMemory"
    BY DEF MapErrorKind, MapStdKind
  <1>3. input.kind \in {"Interrupted", "PermissionDenied"} => MapErrorKind(MapStdKind(input.kind)) = "Other"
    BY DEF MapErrorKind, MapStdKind
  <1> QED BY <1>1, <1>2, <1>3 DEF ExhaustionReported, Given

LEMMA ErrorCodesAreNotData ==
  ASSUME input.of = "esp-read" => /\ input.reachable \in BOOLEAN /\ input.len \in Nat
                                  /\ input.ticketFails \in Nat
                                  /\ input.ticketFails = 0 \/ input.ticketFails > 256
  PROVE  ErrorCodeNeverData
  <1> DEFINE version == input.version
             len == input.len
             fails == input.ticketFails
             meets == input.reachable /\ version # "Tls12" /\ fails # 0
             cap == EspTlsReadCap(input.reachable, version)
             asked == Requested(len, cap)
             n == IF meets THEN fails ELSE asked
             out == EspTlsReadCount(n, asked)
  <1> SUFFICES ASSUME input.of = "esp-read" PROVE out.ok = ~meets /\ out.n <= len
    BY DEF ErrorCodeNeverData, Given
  <1>1. len \in Nat /\ fails \in Nat /\ (fails = 0 \/ fails > 256)  OBVIOUS
  <1>2. cap \in Nat /\ (meets => cap = 256)
    <2>1. NoCap \in Nat  BY DEF NoCap
    <2> QED BY <2>1 DEF EspTlsReadCap, ReadCap
  <1>3. meets \in BOOLEAN /\ (meets => fails # 0)  OBVIOUS
  <1> HIDE DEF len, fails, cap, meets
  <1>4. asked \in Nat /\ asked <= len /\ asked <= cap  BY <1>1, <1>2 DEF Requested
  <1> HIDE DEF asked
  <1>5. n \in Nat /\ (n <= asked <=> ~meets) /\ (~meets => n = asked)
    BY <1>1, <1>2, <1>3, <1>4
  <1> HIDE DEF n
  <1>6. CASE meets
    <2>1. out.ok = FALSE /\ out.n = 0  BY <1>5, <1>6 DEF EspTlsReadCount
    <2>2. out.n <= len  BY <1>1, <2>1
    <2> HIDE DEF out
    <2>3. out.ok = ~meets  BY <1>6, <2>1
    <2> QED BY <2>2, <2>3
  <1>7. CASE ~meets
    <2>1. out.ok = TRUE /\ out.n = n  BY <1>5, <1>7 DEF EspTlsReadCount
    <2> QED BY <1>4, <1>5, <1>7, <2>1
  <1> QED BY <1>6, <1>7

LEMMA ReadsBeatDeadlines ==
  ASSUME input.of = "read" => /\ input.remaining \in Nat \cup {None}
                              /\ input.read # "TimedOut"
  PROVE  ReadBeatsDeadline
  <1> DEFINE remaining == input.remaining
             read == input.read
             slept == input.slept
             out == ReadChunkOutcome(remaining, read, slept)
  <1> SUFFICES ASSUME input.of = "read",
                      ~(read = "pending" /\ (slept = "pending" \/ remaining = None))
               PROVE  /\ (read = "bytes" /\ remaining # 0) = (out = "bytes")
                      /\ out = "TimedOut" => remaining = 0 \/ slept = "ok"
    BY DEF ReadBeatsDeadline, Given
  <1>1. remaining \in Nat \cup {None} /\ read # "TimedOut" /\ None # 0  BY NoneAssumption
  <1> HIDE DEF remaining, read, slept
  <1>2. (ReadResult(read) = "bytes" <=> read = "bytes") /\ ReadResult(read) # "TimedOut"
    BY <1>1 DEF ReadResult, MapErrorKind
  <1>3. DeadlineError(slept) # "bytes" /\ (DeadlineError(slept) = "TimedOut" => slept = "ok")
    BY DEF DeadlineError
  <1>4. CASE remaining = None
    <2>1. out = ReadResult(read)  BY <1>1, <1>4 DEF ReadChunkOutcome
    <2> QED BY <1>1, <1>2, <1>4, <2>1
  <1>5. CASE remaining = 0
    <2>1. out = "TimedOut"  BY <1>1, <1>5 DEF ReadChunkOutcome
    <2> QED BY <1>5, <2>1
  <1>6. CASE remaining # None /\ remaining # 0
    <2>1. out = IF read # "pending" THEN ReadResult(read) ELSE DeadlineError(slept)
      BY <1>6 DEF ReadChunkOutcome, Race
    <2> QED BY <1>2, <1>3, <1>6, <2>1
  <1> QED BY <1>4, <1>5, <1>6

-----------------------------------------------------------------------------
\* For every failure: any flags a verification can set over a store with any
\* number of anchors, any mbedTLS code with either ESP record, any buffer and any
\* code esp_tls returns as a count (all are above the cap), any wait that is left
\* when a read answers (a transport that itself reports a timeout aside).  What
\* the platform says is never misread: trust on first use is offered only where
\* it is sound, exhausted memory is told from a broken link, an error code is not
\* data, and a deadline loses no bytes (io/mod.rs, esp_idf.rs).
THEOREM IoVerdictsTheorem ==
  ASSUME input.of = "handshake" => /\ input.ran \in BOOLEAN /\ input.flags \in SUBSET AnyFlag
                                   /\ input.loaded \in Nat /\ input.expected \in Nat,
         input.of = "code" => \E h \in Nat, l \in 0..127 : /\ input.high = 128 * h /\ input.low = l
                                                           /\ input.recorded \in BOOLEAN,
         input.of = "esp-read" => /\ input.reachable \in BOOLEAN /\ input.len \in Nat
                                  /\ input.ticketFails \in Nat
                                  /\ input.ticketFails = 0 \/ input.ticketFails > 256,
         input.of = "read" => /\ input.remaining \in Nat \cup {None}
                              /\ input.read # "TimedOut"
  PROVE  IoVerdictsSound
  <1>1. CaptureOnlySound  BY CaptureOnlyWhenSound
  <1>2. ExhaustionReported  BY ExhaustionIsReported
  <1>3. ErrorCodeNeverData  BY ErrorCodesAreNotData
  <1>4. ReadBeatsDeadline  BY ReadsBeatDeadlines
  <1> QED BY <1>1, <1>2, <1>3, <1>4 DEF IoVerdictsSound
====
