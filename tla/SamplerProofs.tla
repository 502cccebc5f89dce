---------------------------- MODULE SamplerProofs ----------------------------
(***************************************************************************)
(* Theorems about Sampler, for any vocabulary, scores, penalties, cuts and *)
(* lengths of history.                                                     *)
(***************************************************************************)
EXTENDS Sampler, FoldProofs

-----------------------------------------------------------------------------
(***************************************************************************)
(* The penalty                                                             *)
(***************************************************************************)

\* A penalty makes every score worse and keeps the order of scores.
LEMMA PenaltyWorsens ==
    ASSUME NEW p \in Nat \ {0}, NEW a \in Int
    PROVE  Penalise(a, p) \in Int /\ Penalise(a, p) <= a
<1>1. CASE a < 0
  <2>1. a * p <= a
    BY <1>1
  <2> QED BY <1>1, <2>1 DEF Penalise
<1>2. CASE a >= 0
  <2>1. a \div p \in Int /\ a \div p >= 0 /\ (a \div p) * p <= a
    BY <1>2
  <2>2. a \div p <= (a \div p) * p
    BY <2>1
  <2> QED BY <1>2, <2>1, <2>2 DEF Penalise
<1> QED BY <1>1, <1>2

LEMMA PenaltyKeepsOrder ==
    ASSUME NEW p \in Nat \ {0}, NEW a \in Int, NEW b \in Int, a <= b
    PROVE  Penalise(a, p) <= Penalise(b, p)
<1>1. CASE b < 0
  <2>1. a * p <= b * p
    BY <1>1
  <2> QED BY <1>1, <2>1 DEF Penalise
<1>2. CASE a < 0 /\ b >= 0
  <2>1. a * p <= 0 /\ b \div p >= 0 /\ b \div p \in Int /\ a * p \in Int
    BY <1>2
  <2> QED BY <1>2, <2>1 DEF Penalise
<1>3. CASE a >= 0
  <2> DEFINE m == a \div p
             n == b \div p
  <2>1. m \in Int /\ n \in Int /\ m * p <= a /\ b < n * p + p
    BY <1>3
  <2> HIDE DEF m, n
  <2>2. m * p < n * p + p
    BY <2>1
  <2>3. n * p + p = (n + 1) * p
    BY <2>1
  <2>4. ~(n + 1 <= m)
    <3>1. n + 1 <= m => (n + 1) * p <= m * p
      BY <2>1
    <3> QED BY <2>1, <2>2, <2>3, <3>1
  <2>5. m <= n
    BY <2>1, <2>4
  <2> QED BY <1>3, <2>5 DEF Penalise, m, n
<1> QED BY <1>1, <1>2, <1>3

\* it[k] is the score a after k penalties.
Worsened(it, a, p, n) ==
    /\ it \in [0..n -> Int] /\ it[0] = a
    /\ \A k \in 1..n : it[k] = Penalise(it[k - 1], p)

LEMMA WorsenedExists ==
    ASSUME NEW p \in Nat \ {0}, NEW a \in Int, NEW n \in Nat
    PROVE  \E it : Worsened(it, a, p, n)
<1> DEFINE T == {m \in Nat : \E it : Worsened(it, a, p, m)}
<1>1. 0 \in T
  <2> DEFINE it == [k \in 0..0 |-> a]
  <2>1. Worsened(it, a, p, 0)
    BY DEF Worsened
  <2> QED BY <2>1
<1>2. ASSUME NEW m \in Nat, m \in T PROVE m + 1 \in T
  <2>1. PICK it : Worsened(it, a, p, m)
    BY <1>2
  <2> DEFINE next == [k \in 0..(m + 1) |-> IF k <= m THEN it[k] ELSE Penalise(it[m], p)]
  <2>2. it[m] \in Int /\ Penalise(it[m], p) \in Int
    BY <2>1, PenaltyWorsens DEF Worsened
  <2>3. next \in [0..(m + 1) -> Int] /\ next[0] = a
    BY <2>1, <2>2 DEF Worsened
  <2>4. ASSUME NEW k \in 1..(m + 1) PROVE next[k] = Penalise(next[k - 1], p)
    <3>1. CASE k <= m
      BY <2>1, <3>1 DEF Worsened
    <3>2. CASE k = m + 1
      BY <3>2
    <3> QED BY <3>1, <3>2
  <2> HIDE DEF next
  <2>5. Worsened(next, a, p, m + 1)
    BY <2>3, <2>4 DEF Worsened
  <2> QED BY <2>5
<1> HIDE DEF T
<1>3. n \in T
  BY <1>1, <1>2, NaturalsReached
<1> QED BY <1>3 DEF T

\* More penalties on a lower score leave less.
LEMMA WorsenedOrdered ==
    ASSUME NEW p \in Nat \ {0}, NEW n \in Nat, NEW a \in Int, NEW b \in Int, a <= b,
           NEW x, Worsened(x, a, p, n), NEW y, Worsened(y, b, p, n),
           NEW k \in 0..n, NEW m \in 0..k
    PROVE  x[k] <= y[m]
<1> DEFINE Same == {i \in Nat : i <= n => x[i] <= y[i]}
           Down == {i \in Nat : i <= n => \A j \in 0..i : x[i] <= x[j]}
<1>1. \A i \in 0..n : x[i] \in Int /\ y[i] \in Int
  BY DEF Worsened
<1>2. 0 \in Same
  BY DEF Worsened
<1>3. ASSUME NEW i \in Nat, i \in Same PROVE i + 1 \in Same
  <2> SUFFICES ASSUME i + 1 <= n PROVE x[i + 1] <= y[i + 1]
    OBVIOUS
  <2>1. i \in 0..n /\ i + 1 \in 1..n /\ (i + 1) - 1 = i
    OBVIOUS
  <2>2. x[i] <= y[i]
    BY <1>3, <2>1
  <2>3. x[i + 1] = Penalise(x[i], p) /\ y[i + 1] = Penalise(y[i], p)
    BY <2>1 DEF Worsened
  <2> QED BY <1>1, <2>1, <2>2, <2>3, PenaltyKeepsOrder
<1>4. 0 \in Down
  BY <1>1
<1>5. ASSUME NEW i \in Nat, i \in Down PROVE i + 1 \in Down
  <2> SUFFICES ASSUME i + 1 <= n, NEW j \in 0..(i + 1) PROVE x[i + 1] <= x[j]
    OBVIOUS
  <2>1. i \in 0..n /\ i + 1 \in 1..n /\ (i + 1) - 1 = i
    OBVIOUS
  <2>2. x[i + 1] \in Int /\ x[i] \in Int /\ x[i + 1] <= x[i]
    <3>1. x[i + 1] = Penalise(x[i], p)
      BY <2>1 DEF Worsened
    <3> QED BY <1>1, <2>1, <3>1, PenaltyWorsens
  <2>3. CASE j = i + 1
    BY <2>2, <2>3
  <2>4. CASE j \in 0..i
    <3>1. x[i] <= x[j] /\ x[j] \in Int
      BY <1>1, <1>5, <2>1, <2>4
    <3> QED BY <2>2, <3>1
  <2> QED BY <2>3, <2>4
<1> HIDE DEF Same, Down
<1>6. \A i \in Nat : i \in Same
  BY <1>2, <1>3, NaturalsReached
<1>7. \A i \in Nat : i \in Down
  BY <1>4, <1>5, NaturalsReached
<1>8. x[k] <= x[m] /\ x[m] <= y[m]
  BY <1>6, <1>7 DEF Same, Down
<1> QED BY <1>1, <1>8

\* run[m] has the scores after the first m tokens of the history.
Penalising(run, l, p, tokens) ==
    /\ run \in [0..Len(tokens) -> [Vocabulary -> Int]] /\ run[0] = l
    /\ \A m \in 1..Len(tokens) :
          run[m] = [run[m - 1] EXCEPT ![tokens[m]] = Penalise(@, p)]

\* The history is gone through from its first token to its last.
LEMMA PenalisingExists ==
    ASSUME NEW l \in [Vocabulary -> Int], NEW p \in Nat \ {0}, NEW tokens \in Seq(Vocabulary)
    PROVE  \E run : Penalising(run, l, p, tokens) /\ Penalised(l, p, tokens) = run[Len(tokens)]
<1> DEFINE Typ == [Vocabulary -> Int]
<1>1. PICK n \in Nat : n = Len(tokens) /\ DOMAIN tokens = 1..n
  OBVIOUS
<1> DEFINE step == [q \in Typ \X (1..n) |-> PenaliseToken(q[1], tokens[q[2]], p)]
<1>2. \A i \in 1..n : tokens[i] \in Vocabulary
  BY <1>1
<1>3. ASSUME NEW s \in Typ, NEW i \in 1..n
      PROVE  PenaliseToken(s, tokens[i], p) \in Typ /\ step[<<s, i>>] = PenaliseToken(s, tokens[i], p)
  <2>1. s[tokens[i]] \in Int /\ Penalise(s[tokens[i]], p) \in Int
    BY <1>2, PenaltyWorsens
  <2>2. PenaliseToken(s, tokens[i], p) \in Typ
    BY <2>1 DEF PenaliseToken
  <2> QED BY <2>2
<1>4. step \in [Typ \X (1..n) -> Typ]
  <2> HIDE DEF Typ
  <2> QED BY <1>3
<1> HIDE DEF step
<1>5. PICK g : FoldsOver(g, 1..n, Typ, l, step, LastPlace(n))
  BY <1>4, LeftFoldExists
<1>6. \A t \in SUBSET (1..n) : t # {} =>
            Max(t) \in t /\ g[t] = PenaliseToken(g[t \ {Max(t)}], tokens[Max(t)], p)
  <2> SUFFICES ASSUME NEW t \in SUBSET (1..n), t # {}
               PROVE  Max(t) \in t /\ g[t] = PenaliseToken(g[t \ {Max(t)}], tokens[Max(t)], p)
    OBVIOUS
  <2>1. LastPlace(n)[t] \in t /\ Max(t) = LastPlace(n)[t]
    BY LastIsAPlace
  <2>2. Max(t) \in 1..n /\ t \ {Max(t)} \in SUBSET (1..n)
    BY <2>1
  <2>3. g[t \ {Max(t)}] \in Typ
    BY <1>5, <2>2 DEF FoldsOver
  <2>4. g[t] = step[<<g[t \ {Max(t)}], Max(t)>>]
    BY <1>5, <2>1 DEF FoldsOver
  <2> HIDE DEF Typ
  <2> QED BY <1>3, <2>1, <2>2, <2>3, <2>4
<1>7. g[{}] = l
  BY <1>5 DEF FoldsOver
<1> HIDE DEF Typ
<1>8. g = [t \in SUBSET (1..n) |-> IF t = {} THEN l
             ELSE PenaliseToken(g[t \ {Max(t)}], tokens[Max(t)], p)]
  <2> QED BY <1>5, <1>6, <1>7 DEF FoldsOver
<1>9. PICK it : /\ it = [t \in SUBSET (1..n) |-> IF t = {} THEN l
                           ELSE PenaliseToken(it[t \ {Max(t)}], tokens[Max(t)], p)]
                /\ Penalised(l, p, tokens) = it[1..n]
  BY <1>1, <1>8 DEF Penalised, FoldLeft, MapThenFoldSet
<1>10. it[{}] = l
  BY <1>9
<1>11. \A t \in SUBSET (1..n) : t # {} /\ it[t \ {Max(t)}] \in Typ =>
            it[t] = step[<<it[t \ {Max(t)}], Max(t)>>]
  <2> SUFFICES ASSUME NEW t \in SUBSET (1..n), t # {}, it[t \ {Max(t)}] \in Typ
               PROVE  it[t] = step[<<it[t \ {Max(t)}], Max(t)>>]
    OBVIOUS
  <2>1. Max(t) \in 1..n
    BY <1>6
  <2>2. it[t] = PenaliseToken(it[t \ {Max(t)}], tokens[Max(t)], p)
    BY <1>9
  <2> QED BY <1>3, <2>1, <2>2
<1>12. PICK run : IsRun(run, n, Typ, l, step) /\ EndsAs(run, it, n)
  <2>1. TakesLast(it, n, Typ, l, step)
    BY <1>10, <1>11 DEF TakesLast
  <2> QED BY <1>4, <2>1, LeftFoldRuns DEF Typ
<1>13. ASSUME NEW i \in 1..n PROVE run[i] = PenaliseToken(run[i - 1], tokens[i], p)
  <2>1. i - 1 \in 0..n
    BY <1>1
  <2>2. run[i - 1] \in Typ
    BY <1>12, <2>1 DEF IsRun
  <2>3. run[i] = step[<<run[i - 1], i>>]
    BY <1>12, Zenon DEF IsRun
  <2> QED BY <1>3, <2>2, <2>3
<1>14. run \in [0..n -> Typ] /\ run[0] = l
  BY <1>12 DEF IsRun
<1>15. Penalising(run, l, p, tokens)
  BY <1>1, <1>13, <1>14 DEF Penalising, PenaliseToken, Typ
<1>16. Penalised(l, p, tokens) = run[Len(tokens)]
  BY <1>1, <1>9, <1>12 DEF EndsAs
<1> QED BY <1>15, <1>16

\* How often a token is among the first m.
Seen(tokens, m, i) == {n \in 1..m : tokens[n] = i}

LEMMA SeenOnceMore ==
    ASSUME NEW tokens \in Seq(Vocabulary), NEW i, NEW m \in 0..Len(tokens)
    PROVE  /\ IsFiniteSet(Seen(tokens, m, i)) /\ Cardinality(Seen(tokens, m, i)) \in 0..m
           /\ m > 0 => Cardinality(Seen(tokens, m, i))
                         = Cardinality(Seen(tokens, m - 1, i)) + (IF tokens[m] = i THEN 1 ELSE 0)
<1>1. ASSUME NEW n \in 0..Len(tokens)
      PROVE  /\ IsFiniteSet(Seen(tokens, n, i)) /\ Cardinality(Seen(tokens, n, i)) \in 0..n
  <2>1. IsFiniteSet(1..n) /\ Cardinality(1..n) = n
    BY FS_Interval
  <2>2. Seen(tokens, n, i) \subseteq 1..n
    BY DEF Seen
  <2>3. IsFiniteSet(Seen(tokens, n, i)) /\ Cardinality(Seen(tokens, n, i)) <= n
    BY <2>1, <2>2, FS_Subset
  <2>4. Cardinality(Seen(tokens, n, i)) \in Nat
    BY <2>3, FS_CardinalityType
  <2> QED BY <2>3, <2>4
<1>2. ASSUME m > 0
      PROVE  Cardinality(Seen(tokens, m, i))
                 = Cardinality(Seen(tokens, m - 1, i)) + (IF tokens[m] = i THEN 1 ELSE 0)
  <2>1. m - 1 \in 0..Len(tokens) /\ m \notin 1..(m - 1) /\ 1..m = (1..(m - 1)) \cup {m}
    BY <1>2
  <2>2. CASE tokens[m] = i
    <3>1. Seen(tokens, m, i) = Seen(tokens, m - 1, i) \cup {m} /\ m \notin Seen(tokens, m - 1, i)
      BY <2>1, <2>2 DEF Seen
    <3>2. Cardinality(Seen(tokens, m, i)) = Cardinality(Seen(tokens, m - 1, i)) + 1
      BY <1>1, <2>1, <3>1, FS_AddElement
    <3> QED BY <2>2, <3>2
  <2>3. CASE tokens[m] # i
    <3>1. Seen(tokens, m, i) = Seen(tokens, m - 1, i)
      BY <2>1, <2>3 DEF Seen
    <3>2. Cardinality(Seen(tokens, m - 1, i)) \in Nat
      BY <1>1, <2>1
    <3> QED BY <2>3, <3>1, <3>2
  <2> QED BY <2>2, <2>3
<1> QED BY <1>1, <1>2

\* After m tokens of the history, i has as many penalties as it has occurred.
HasPenalties(run, it, tokens, m, i) == run[m][i] = it[Cardinality(Seen(tokens, m, i))]

\* So it has after every m.
LEMMA OnePerOccurrence ==
    ASSUME NEW l \in [Vocabulary -> Int], NEW p \in Nat \ {0}, NEW tokens \in Seq(Vocabulary),
           NEW run, Penalising(run, l, p, tokens),
           NEW i \in Vocabulary, NEW it, Worsened(it, l[i], p, Len(tokens)),
           NEW m \in 0..Len(tokens)
    PROVE  HasPenalties(run, it, tokens, m, i)
<1> DEFINE C(n) == Cardinality(Seen(tokens, n, i))
           T    == {n \in Nat : n <= Len(tokens) => run[n][i] = it[C(n)]}
<1>1. Len(tokens) \in Nat
  OBVIOUS
<1>2. 0 \in T
  <2>1. C(0) = 0
    BY <1>1, SeenOnceMore
  <2> QED BY <2>1 DEF Penalising, Worsened
<1>3. ASSUME NEW n \in Nat, n \in T PROVE n + 1 \in T
  <2> SUFFICES ASSUME n + 1 <= Len(tokens) PROVE run[n + 1][i] = it[C(n + 1)]
    OBVIOUS
  <2>1. /\ n + 1 \in 1..Len(tokens) /\ n + 1 \in 0..Len(tokens) /\ n \in 0..Len(tokens)
        /\ n + 1 > 0 /\ (n + 1) - 1 = n
    BY <1>1
  <2>2. run[n][i] = it[C(n)]
    BY <1>3, <2>1
  <2>3. /\ run[n] \in [Vocabulary -> Int]
        /\ run[n + 1] = [run[n] EXCEPT ![tokens[n + 1]] = Penalise(@, p)]
    BY <2>1 DEF Penalising
  <2>4. C(n) \in 0..n /\ C(n + 1) \in 0..(n + 1)
        /\ C(n + 1) = C(n) + (IF tokens[n + 1] = i THEN 1 ELSE 0)
    <3>1. Cardinality(Seen(tokens, n, i)) \in 0..n
      BY <2>1, SeenOnceMore
    <3>2. PICK m1 \in 0..Len(tokens) : m1 = n + 1 /\ m1 > 0 /\ m1 - 1 = n
      BY <2>1
    <3>3. /\ Cardinality(Seen(tokens, m1, i)) \in 0..m1
          /\ Cardinality(Seen(tokens, m1, i))
                = Cardinality(Seen(tokens, m1 - 1, i)) + (IF tokens[m1] = i THEN 1 ELSE 0)
      BY <3>2, SeenOnceMore
    <3> QED BY <3>1, <3>2, <3>3
  <2> HIDE DEF C
  <2>5. CASE tokens[n + 1] = i
    <3>1. run[n + 1][i] = Penalise(run[n][i], p)
      BY <2>3, <2>5
    <3>2. C(n + 1) \in 1..Len(tokens) /\ C(n + 1) - 1 = C(n)
      <4>1. PICK c \in 0..n : c = C(n) /\ C(n + 1) = c + 1
        BY <2>4, <2>5
      <4>2. c + 1 \in 1..Len(tokens) /\ (c + 1) - 1 = c
        BY <1>1, <2>1
      <4> QED BY <4>1, <4>2
    <3>3. it[C(n + 1)] = Penalise(it[C(n)], p)
      BY <3>2 DEF Worsened
    <3> QED BY <2>2, <3>1, <3>3
  <2>6. CASE tokens[n + 1] # i
    <3>1. run[n + 1][i] = run[n][i]
      BY <2>3, <2>6
    <3>2. C(n + 1) = C(n)
      BY <2>4, <2>6
    <3> QED BY <2>2, <3>1, <3>2
  <2> QED BY <2>5, <2>6
<1> HIDE DEF T
<1>4. \A n \in Nat : n \in T
  BY <1>2, <1>3, NaturalsReached
<1> QED BY <1>1, <1>4 DEF T, HasPenalties

\* What the penalties leave are scores, ordered as the property says.
LEMMA PenalisedOrdered ==
    ASSUME NEW l \in [Vocabulary -> Int], NEW p \in Nat \ {0}, NEW tokens \in Seq(Vocabulary)
    PROVE  /\ Penalised(l, p, tokens) \in [Vocabulary -> Int]
           /\ \A i, j \in Vocabulary :
                 l[i] <= l[j] /\ TimesIn(tokens, i) >= TimesIn(tokens, j)
                     => Penalised(l, p, tokens)[i] <= Penalised(l, p, tokens)[j]
<1> DEFINE n == Len(tokens)
<1>1. n \in Nat /\ DOMAIN tokens = 1..n /\ n \in 0..n
  OBVIOUS
<1>2. PICK run : Penalising(run, l, p, tokens) /\ Penalised(l, p, tokens) = run[n]
  BY PenalisingExists
<1>3. run[n] \in [Vocabulary -> Int]
  BY <1>1, <1>2 DEF Penalising
<1>4. ASSUME NEW i \in Vocabulary, NEW j \in Vocabulary,
             l[i] <= l[j], TimesIn(tokens, i) >= TimesIn(tokens, j)
      PROVE  run[n][i] <= run[n][j]
  <2> DEFINE k == Cardinality(Seen(tokens, n, i))
             m == Cardinality(Seen(tokens, n, j))
  <2>1. k \in 0..n /\ m \in 0..k
    <3>1. k \in 0..n /\ m \in 0..n
      BY <1>1, SeenOnceMore
    <3>2. k >= m
      BY <1>1, <1>4 DEF TimesIn, Seen
    <3> HIDE DEF k, m
    <3> QED BY <1>1, <3>1, <3>2
  <2>2. l[i] \in Int /\ l[j] \in Int
    OBVIOUS
  <2>3. PICK x : Worsened(x, l[i], p, n)
    BY <1>1, <2>2, WorsenedExists
  <2>4. PICK y : Worsened(y, l[j], p, n)
    BY <1>1, <2>2, WorsenedExists
  <2>5. run[n][i] = x[k] /\ run[n][j] = y[m]
    <3>1. HasPenalties(run, x, tokens, n, i)
      BY <1>1, <1>2, <2>3, OnePerOccurrence
    <3>2. HasPenalties(run, y, tokens, n, j)
      BY <1>1, <1>2, <2>4, OnePerOccurrence
    <3> QED BY <3>1, <3>2 DEF HasPenalties
  <2> HIDE DEF k, m
  <2>6. x[k] <= y[m]
    BY <1>1, <1>4, <2>1, <2>2, <2>3, <2>4, WorsenedOrdered
  <2> QED BY <2>5, <2>6
<1> QED BY <1>2, <1>3, <1>4

-----------------------------------------------------------------------------
(***************************************************************************)
(* The cuts                                                                *)
(***************************************************************************)

\* The vocabulary is finite, and some token in any part of it is best.
LEMMA SomeBest ==
    ASSUME NEW s \in [Vocabulary -> Int], NEW K \in SUBSET Vocabulary, K # {}
    PROVE  /\ IsFiniteSet(K)
           /\ \E b \in K : Max({s[i] : i \in K}) = s[b] /\ \A i \in K : s[i] <= s[b]
<1>1. IsFiniteSet(Vocabulary)
  BY SamplerAssumption, FS_Interval DEF Vocabulary
<1>2. IsFiniteSet(K)
  BY <1>1, FS_Subset
<1> DEFINE V == {s[i] : i \in K}
<1>3. IsFiniteSet(V)
  <2> DEFINE f == [i \in K |-> s[i]]
  <2>1. f \in [K -> V] /\ \A v \in V : \E i \in K : f[i] = v
    OBVIOUS
  <2>2. f \in Surjection(K, V)
    BY <2>1 DEF Surjection
  <2> QED BY <1>2, <2>2, FS_Surjection
<1>4. V \in SUBSET Int /\ V # {}
  OBVIOUS
<1>5. Max(V) \in V /\ \A y \in V : y <= Max(V)
  <2> HIDE DEF V
  <2> QED BY <1>3, <1>4, FiniteHasMax
<1>6. PICK b \in K : Max(V) = s[b]
  BY <1>5
<1> QED BY <1>2, <1>5, <1>6

\* The best one has the weight Exp(0), and where there is a weight it grows with the score.
Weighs(w, s, K) ==
    /\ w \in [Vocabulary -> Nat]
    /\ \A i \in Vocabulary \ K : w[i] = 0
    /\ \A i, j \in K : s[i] < s[j] /\ w[i] > 0 => w[i] < w[j]
    /\ \E b \in K : w[b] = Exp(0)
    /\ \A i \in Vocabulary : w[i] <= Exp(0)

LEMMA RelativeWeighs ==
    ASSUME ExpGrows, NEW s \in [Vocabulary -> Int], NEW K \in SUBSET Vocabulary, K # {}
    PROVE  Weighs(Relative(s, K), s, K)
<1> DEFINE w == Relative(s, K)
<1>1. PICK b \in K : Max({s[i] : i \in K}) = s[b] /\ \A i \in K : s[i] <= s[b]
  BY SomeBest
<1>2. w = [i \in Vocabulary |-> IF i \in K THEN Exp(s[i] - s[b]) ELSE 0]
  BY <1>1 DEF Relative
<1>3. \A i \in K : s[i] - s[b] \in Int /\ s[i] - s[b] <= 0 /\ w[i] = Exp(s[i] - s[b])
  BY <1>1, <1>2
<1>4. /\ Exp(0) > 0 /\ \A d \in Int : d <= 0 => Exp(d) \in Nat
      /\ \A c, d \in Int : c <= 0 /\ d <= 0 /\ c < d => Exp(c) < Exp(d) \/ Exp(c) = 0
  BY DEF ExpGrows, ExpGrowsOn
<1>5. Exp(0) \in Nat
  BY <1>4
<1>6. w \in [Vocabulary -> Nat] /\ \A i \in Vocabulary \ K : w[i] = 0
  BY <1>2, <1>3, <1>4
<1>7. ASSUME NEW i \in K, NEW j \in K, s[i] < s[j], w[i] > 0 PROVE w[i] < w[j]
  <2>1. s[i] - s[b] < s[j] - s[b]
    BY <1>7
  <2>2. Exp(s[i] - s[b]) < Exp(s[j] - s[b]) \/ Exp(s[i] - s[b]) = 0
    BY <1>3, <1>4, <2>1
  <2> QED BY <1>3, <1>7, <2>2
<1>8. w[b] = Exp(0)
  <2>1. s[b] - s[b] = 0
    OBVIOUS
  <2> QED BY <1>3, <2>1
<1>9. ASSUME NEW i \in Vocabulary PROVE w[i] <= Exp(0)
  <2>1. CASE i \in K
    <3>1. s[i] - s[b] = 0 \/ s[i] - s[b] < 0
      BY <1>3, <2>1
    <3>2. Exp(s[i] - s[b]) <= Exp(0)
      BY <1>3, <1>4, <1>5, <2>1, <3>1
    <3> QED BY <1>3, <2>1, <3>2
  <2>2. CASE i \notin K
    BY <1>5, <1>6, <2>2
  <2> QED BY <2>1, <2>2
<1> HIDE DEF w
<1>10. Weighs(w, s, K)
  BY <1>6, <1>7, <1>8, <1>9 DEF Weighs
<1> QED BY <1>10 DEF w

\* Top-k keeps the top, and fewer than top_k are ahead of any it keeps.
KeepsTop(K, s) == \A i \in K, j \in Vocabulary : s[i] < s[j] => j \in K
FewAhead(K, s, top_k) ==
    \A i \in K : Cardinality({j \in Vocabulary : s[j] > s[i]}) < top_k

LEMMA TopKKeepsTop ==
    ASSUME NEW s \in [Vocabulary -> Int], NEW top_k \in Nat
    PROVE  /\ TopK(s, top_k) \in SUBSET Vocabulary /\ TopK(s, top_k) # {}
           /\ KeepsTop(TopK(s, top_k), s)
           /\ top_k > 0 => FewAhead(TopK(s, top_k), s, top_k)
<1> DEFINE Better(i) == {j \in Vocabulary : s[j] > s[i]}
<1>1. VocabSize \in Nat \ {0} /\ Vocabulary # {} /\ IsFiniteSet(Vocabulary)
      /\ Cardinality(Vocabulary) = VocabSize
  <2>1. VocabSize \in Nat \ {0} /\ 1 \in Vocabulary
    BY SamplerAssumption DEF Vocabulary
  <2>2. IsFiniteSet(1..VocabSize) /\ Cardinality(1..VocabSize) = VocabSize
    BY <2>1, FS_Interval
  <2> QED BY <2>1, <2>2 DEF Vocabulary
<1>2. ASSUME NEW i \in Vocabulary
      PROVE  /\ IsFiniteSet(Better(i)) /\ Cardinality(Better(i)) \in Nat
             /\ Cardinality(Better(i)) < VocabSize
  <2>1. Better(i) \subseteq Vocabulary \ {i}
    OBVIOUS
  <2>2. IsFiniteSet(Vocabulary \ {i}) /\ Cardinality(Vocabulary \ {i}) = VocabSize - 1
    BY <1>1, FS_RemoveElement
  <2> HIDE DEF Better
  <2>3. IsFiniteSet(Better(i)) /\ Cardinality(Better(i)) <= VocabSize - 1
    BY <2>1, <2>2, FS_Subset
  <2>4. Cardinality(Better(i)) \in Nat
    BY <2>3, FS_CardinalityType
  <2> QED BY <1>1, <2>3, <2>4
<1>3. CASE top_k \in 1..(VocabSize - 1)
  <2>1. TopK(s, top_k) = {i \in Vocabulary : Cardinality(Better(i)) < top_k}
    BY <1>3 DEF TopK
  <2>2. PICK b \in Vocabulary : \A i \in Vocabulary : s[i] <= s[b]
    BY <1>1, SomeBest
  <2>3. Better(b) = {}
    BY <2>2
  <2>4. b \in TopK(s, top_k)
    <3>1. Cardinality(Better(b)) = 0
      BY <2>3, FS_EmptySet
    <3> QED BY <1>3, <2>1, <3>1
  <2>5. ASSUME NEW i \in TopK(s, top_k), NEW j \in Vocabulary, s[i] < s[j]
        PROVE  j \in TopK(s, top_k)
    <3>1. i \in Vocabulary /\ Cardinality(Better(i)) < top_k
      BY <2>1
    <3>2. Better(j) \subseteq Better(i)
      BY <2>5, <3>1
    <3> HIDE DEF Better
    <3>3. Cardinality(Better(j)) <= Cardinality(Better(i))
      BY <1>2, <3>1, <3>2, FS_Subset
    <3> QED BY <1>2, <1>3, <2>1, <3>1, <3>3
  <2> QED BY <2>1, <2>4, <2>5 DEF KeepsTop, FewAhead
<1>4. CASE top_k \notin 1..(VocabSize - 1)
  <2>1. TopK(s, top_k) = Vocabulary
    BY <1>4 DEF TopK
  <2>2. top_k > 0 => top_k >= VocabSize
    BY <1>1, <1>4
  <2>3. ASSUME top_k > 0, NEW i \in Vocabulary PROVE Cardinality(Better(i)) < top_k
    <3> HIDE DEF Better
    <3> QED BY <1>1, <1>2, <2>2, <2>3
  <2> QED BY <1>1, <2>1, <2>3 DEF KeepsTop, FewAhead
<1> QED BY <1>3, <1>4

\* A cut of w keeps or drops each weight, keeps a best one, never drops what is
\* better than what it keeps, and without the last it keeps less than top_p.
Cuts(u, w, top_p) ==
    /\ u \in [Vocabulary -> Nat]
    /\ \A i \in Vocabulary : u[i] = w[i] \/ u[i] = 0
    /\ \A i \in Vocabulary : Ahead(w, i) = {} => u[i] = w[i]
    /\ \A i, j \in Vocabulary : u[i] > 0 /\ w[j] > w[i] => u[j] = w[j]
    /\ top_p < 4 =>
          \A i \in Vocabulary : u[i] > 0 /\ Ahead(w, i) # {} =>
              4 * Sum(w, Ahead(w, i)) < top_p * Sum(w, Vocabulary)

LEMMA NoCut == ASSUME NEW w \in [Vocabulary -> Nat] PROVE Cuts(w, w, 4)
  BY DEF Cuts

LEMMA VocabularyFinite == IsFiniteSet(Vocabulary) /\ Vocabulary # {}
<1>1. VocabSize \in Nat \ {0} /\ 1 \in 1..VocabSize
  BY SamplerAssumption
<1>2. IsFiniteSet(1..VocabSize)
  BY <1>1, FS_Interval
<1> QED BY <1>1, <1>2 DEF Vocabulary

\* What is ahead of a token has a sum.
LEMMA AheadSums ==
    ASSUME NEW w \in [Vocabulary -> Nat], NEW i \in Vocabulary
    PROVE  /\ Ahead(w, i) \subseteq Vocabulary /\ IsFiniteSet(Ahead(w, i))
           /\ Sum(w, Ahead(w, i)) \in Nat /\ Sum(w, Vocabulary) \in Nat
<1>1. Ahead(w, i) \subseteq Vocabulary
  BY DEF Ahead
<1>2. IsFiniteSet(Ahead(w, i))
  BY <1>1, VocabularyFinite, FS_Subset
<1>3. (\A n \in Ahead(w, i) : w[n] \in Nat) /\ \A n \in Vocabulary : w[n] \in Nat
  BY <1>1
<1> QED BY <1>1, <1>2, <1>3, VocabularyFinite, SumNatural DEF Sum

\* What is ahead of a better token is ahead of a worse one, and so is that token.
LEMMA AheadOfBetter ==
    ASSUME NEW w \in [Vocabulary -> Nat], NEW i \in Vocabulary, NEW j \in Vocabulary, w[j] > w[i]
    PROVE  /\ Ahead(w, j) \cup {j} \subseteq Ahead(w, i) /\ j \notin Ahead(w, j)
           /\ Sum(w, Ahead(w, j)) \in Nat /\ Sum(w, Ahead(w, i)) \in Nat
           /\ w[j] + Sum(w, Ahead(w, j)) <= Sum(w, Ahead(w, i))
<1>1. Ahead(w, j) \cup {j} \subseteq Ahead(w, i) /\ j \notin Ahead(w, j)
  <2>1. w[i] \in Nat /\ w[j] \in Nat /\ j \in Int
    BY DEF Vocabulary
  <2>2. j \in Ahead(w, i) /\ j \notin Ahead(w, j)
    BY <2>1 DEF Ahead
  <2>3. ASSUME NEW n \in Ahead(w, j) PROVE n \in Ahead(w, i)
    <3>1. n \in Vocabulary /\ w[n] >= w[j]
      BY DEF Ahead
    <3>2. w[n] > w[i]
      BY <2>1, <3>1
    <3> QED BY <3>1, <3>2 DEF Ahead
  <2> QED BY <2>2, <2>3
<1>2. IsFiniteSet(Ahead(w, j)) /\ IsFiniteSet(Ahead(w, i)) /\ Ahead(w, i) \subseteq Vocabulary
      /\ Ahead(w, j) \subseteq Vocabulary
  BY AheadSums
<1>3. /\ \A n \in Ahead(w, i) : w[n] \in Nat
      /\ \A n \in Ahead(w, j) : w[n] \in Nat
      /\ \A n \in Ahead(w, j) \cup {j} : w[n] \in Int
  BY <1>2
<1>4. SumFunctionOnSet(w, Ahead(w, j) \cup {j}) = w[j] + SumFunctionOnSet(w, Ahead(w, j))
  BY <1>1, <1>2, <1>3, SumPutIn
<1>5. SumFunctionOnSet(w, Ahead(w, j) \cup {j}) <= SumFunctionOnSet(w, Ahead(w, i))
  BY <1>1, <1>2, <1>3, SumOfPart
<1>6. SumFunctionOnSet(w, Ahead(w, j)) \in Nat /\ SumFunctionOnSet(w, Ahead(w, i)) \in Nat
  BY <1>2, <1>3, SumNatural
<1> QED BY <1>1, <1>4, <1>5, <1>6 DEF Sum

\* The engine's top-p cuts: its threshold is a part of the best weight only.
LEMMA TopPCuts ==
    ASSUME NEW w \in [Vocabulary -> Nat], NEW b \in Vocabulary, w[b] = Exp(0), NEW top_p \in 0..4
    PROVE  Cuts(TopP(w, top_p), w, top_p)
<1>1. CASE top_p = 4
  BY <1>1, NoCut DEF TopP
<1>2. CASE top_p < 4
  <2> DEFINE Stays(i) == Ahead(w, i) = {} \/ 4 * Sum(w, Ahead(w, i)) < top_p * Exp(0)
             u        == [i \in Vocabulary |-> IF Stays(i) THEN w[i] ELSE 0]
  <2>1. TopP(w, top_p) = u
    BY <1>2 DEF TopP
  <2>2. u \in [Vocabulary -> Nat]
    OBVIOUS
  <2>3. ASSUME NEW i \in Vocabulary, NEW j \in Vocabulary, u[i] > 0, w[j] > w[i]
        PROVE  Stays(j)
    <3>1. Stays(i)
      BY <2>3
    <3>2. j \in Ahead(w, i)
      BY <2>3 DEF Ahead
    <3>3. 4 * Sum(w, Ahead(w, i)) < top_p * Exp(0)
      BY <3>1, <3>2
    <3>4. /\ Sum(w, Ahead(w, j)) \in Nat /\ Sum(w, Ahead(w, i)) \in Nat /\ w[j] \in Nat
          /\ w[j] + Sum(w, Ahead(w, j)) <= Sum(w, Ahead(w, i))
      BY <2>3, AheadOfBetter
    <3>5. 4 * Sum(w, Ahead(w, j)) <= 4 * Sum(w, Ahead(w, i))
      BY <3>4
    <3>6. top_p * Exp(0) \in Nat
      <4>1. Exp(0) \in Nat
        OBVIOUS
      <4> QED BY <4>1
    <3>7. 4 * Sum(w, Ahead(w, j)) < top_p * Exp(0)
      BY <3>3, <3>4, <3>5, <3>6
    <3> QED BY <3>7
  <2>4. top_p * Exp(0) <= top_p * Sum(w, Vocabulary)
    <3>1. IsFiniteSet(Vocabulary) /\ \A n \in Vocabulary : w[n] \in Nat
      BY VocabularyFinite
    <3>2. SumFunctionOnSet(w, Vocabulary) = w[b] + SumFunctionOnSet(w, Vocabulary \ {b})
      BY <3>1, SumTakeOut
    <3>3. SumFunctionOnSet(w, Vocabulary \ {b}) \in Nat
      <4>1. IsFiniteSet(Vocabulary \ {b}) /\ \A n \in Vocabulary \ {b} : w[n] \in Nat
        BY <3>1, FS_RemoveElement
      <4> QED BY <4>1, SumNatural
    <3>4. Exp(0) \in Nat /\ Sum(w, Vocabulary) \in Nat /\ Exp(0) <= Sum(w, Vocabulary)
      BY <3>2, <3>3 DEF Sum
    <3>5. \A m, n, k \in Nat : m <= n => k * m <= k * n
      OBVIOUS
    <3> QED BY <3>4, <3>5
  <2>5. ASSUME NEW i \in Vocabulary, u[i] > 0, Ahead(w, i) # {}
        PROVE  4 * Sum(w, Ahead(w, i)) < top_p * Sum(w, Vocabulary)
    <3>1. 4 * Sum(w, Ahead(w, i)) < top_p * Exp(0)
      BY <2>5
    <3>2. Sum(w, Ahead(w, i)) \in Nat /\ Sum(w, Vocabulary) \in Nat /\ Exp(0) \in Nat
      <4>1. Exp(0) \in Nat
        OBVIOUS
      <4> QED BY <4>1, AheadSums
    <3>3. top_p * Exp(0) \in Nat /\ top_p * Sum(w, Vocabulary) \in Nat
      BY <3>2
    <3> QED BY <2>4, <3>1, <3>2, <3>3
  <2> QED BY <2>1, <2>2, <2>3, <2>5 DEF Cuts
<1> QED BY <1>1, <1>2

\* So does the library's, whose threshold is a part of all the weights.
LEMMA LibraryTopPCuts ==
    ASSUME NEW w \in [Vocabulary -> Nat], NEW top_p \in 0..4
    PROVE  Cuts(LibraryTopP(w, top_p), w, top_p)
<1> DEFINE all      == top_p * Sum(w, Vocabulary)
           Stays(i) == Ahead(w, i) = {} \/ 4 * (Sum(w, Ahead(w, i)) + w[i]) <= all
           u        == [i \in Vocabulary |-> IF Stays(i) THEN w[i] ELSE 0]
<1>1. LibraryTopP(w, top_p) = u
  BY DEF LibraryTopP
<1>2. ASSUME NEW i \in Vocabulary PROVE Sum(w, Ahead(w, i)) \in Nat /\ all \in Nat
  <2>1. Sum(w, Ahead(w, i)) \in Nat /\ Sum(w, Vocabulary) \in Nat
    BY AheadSums
  <2> QED BY <2>1
<1>3. ASSUME NEW i \in Vocabulary, NEW j \in Vocabulary, u[i] > 0, w[j] > w[i]
      PROVE  Stays(j)
  <2>1. Stays(i) /\ w[i] \in Nat /\ w[j] \in Nat
    BY <1>3
  <2>2. j \in Ahead(w, i)
    BY <1>3 DEF Ahead
  <2>3. 4 * (Sum(w, Ahead(w, i)) + w[i]) <= all
    BY <2>1, <2>2
  <2>4. /\ Sum(w, Ahead(w, j)) \in Nat /\ Sum(w, Ahead(w, i)) \in Nat
        /\ w[j] + Sum(w, Ahead(w, j)) <= Sum(w, Ahead(w, i))
    BY <1>3, AheadOfBetter
  <2>5. all \in Nat
    BY <1>2
  <2> HIDE DEF all
  <2>6. 4 * (Sum(w, Ahead(w, j)) + w[j]) <= all
    BY <2>1, <2>3, <2>4, <2>5
  <2> QED BY <2>6
<1>4. ASSUME NEW i \in Vocabulary, u[i] > 0, Ahead(w, i) # {}
      PROVE  4 * Sum(w, Ahead(w, i)) < all
  <2>1. Stays(i) /\ w[i] \in Nat /\ w[i] > 0
    BY <1>4
  <2>2. 4 * (Sum(w, Ahead(w, i)) + w[i]) <= all
    BY <1>4, <2>1
  <2>3. Sum(w, Ahead(w, i)) \in Nat /\ all \in Nat
    BY <1>2
  <2> HIDE DEF all
  <2> QED BY <2>1, <2>2, <2>3
<1>5. u \in [Vocabulary -> Nat]
  OBVIOUS
<1> QED BY <1>1, <1>3, <1>4, <1>5 DEF Cuts

\* What a cut of weights leaves is the top of the scores.
LeavesTheTop(u, s, w, top_k, top_p) ==
    LET kept == {i \in Vocabulary : u[i] > 0}
    IN  /\ kept # {}
        /\ \A i \in kept, j \in Vocabulary \ kept : s[j] <= s[i]
        /\ top_k > 0 =>
              \A i \in kept : Cardinality({j \in kept : s[j] > s[i]}) < top_k
        /\ top_p < 4 =>
              \A i \in kept : Ahead(u, i) # {} =>
                  4 * Sum(u, Ahead(u, i)) < top_p * Sum(w, Vocabulary)

LEMMA CutsLeave ==
    ASSUME ExpGrows, NEW s \in [Vocabulary -> Int], NEW K \in SUBSET Vocabulary,
           KeepsTop(K, s), NEW w, Weighs(w, s, K), NEW top_p \in 0..4,
           NEW u, Cuts(u, w, top_p),
           NEW top_k \in Nat, top_k > 0 => FewAhead(K, s, top_k)
    PROVE  LeavesTheTop(u, s, w, top_k, top_p)
<1> DEFINE kept == {i \in Vocabulary : u[i] > 0}
<1>1. w \in [Vocabulary -> Nat] /\ u \in [Vocabulary -> Nat] /\ kept \subseteq K
  BY DEF Weighs, Cuts
<1>2. kept # {}
  <2>1. PICK b \in K : w[b] = Exp(0)
    BY DEF Weighs
  <2>2. Exp(0) > 0 /\ \A i \in Vocabulary : w[i] <= w[b]
    BY <2>1 DEF ExpGrows, ExpGrowsOn, Weighs
  <2> DEFINE Bests == {i \in Vocabulary : w[i] = w[b]}
  <2>3. Bests \in SUBSET Nat /\ b \in Bests
    BY <2>1 DEF Vocabulary
  <2>4. Min(Bests) \in Bests /\ \A i \in Bests : Min(Bests) <= i
    BY <2>3, NaturalsHaveMin
  <2> DEFINE m == Min(Bests)
  <2>5. m \in Vocabulary /\ w[m] = w[b] /\ m \in Nat
    BY <2>3, <2>4
  <2>6. Ahead(w, m) = {}
    <3> SUFFICES ASSUME NEW j \in Ahead(w, m) PROVE FALSE
      OBVIOUS
    <3>1. j \in Vocabulary /\ (w[j] > w[m] \/ (w[j] = w[m] /\ j < m))
      BY DEF Ahead
    <3>2. w[j] <= w[b] /\ w[j] \in Nat /\ w[b] \in Nat /\ j \in Nat
      BY <1>1, <2>2, <3>1 DEF Vocabulary
    <3>3. w[j] = w[b] /\ j < m
      BY <2>5, <3>1, <3>2
    <3> QED BY <2>3, <2>4, <2>5, <3>1, <3>2, <3>3
  <2> HIDE DEF m
  <2>7. u[m] = w[m]
    BY <2>5, <2>6 DEF Cuts
  <2> QED BY <2>1, <2>2, <2>5, <2>7
<1>3. ASSUME NEW i \in kept, NEW j \in Vocabulary, s[j] > s[i] PROVE j \in kept
  <2>1. i \in K /\ j \in K
    BY <1>1, <1>3 DEF KeepsTop
  <2>2. u[i] = w[i] /\ w[i] > 0
    BY <1>1 DEF Cuts
  <2>3. w[j] > w[i] /\ w[j] > 0
    BY <1>1, <1>3, <2>1, <2>2 DEF Weighs
  <2>4. u[j] = w[j]
    BY <2>3 DEF Cuts
  <2> QED BY <2>3, <2>4
<1>4. \A i \in kept, j \in Vocabulary \ kept : s[j] <= s[i]
  BY <1>3
<1>5. ASSUME top_k > 0, NEW i \in kept PROVE Cardinality({j \in kept : s[j] > s[i]}) < top_k
  <2> DEFINE better == {j \in Vocabulary : s[j] > s[i]}
             worse  == {j \in kept : s[j] > s[i]}
  <2>1. worse \subseteq better /\ better \subseteq Vocabulary
    OBVIOUS
  <2>2. Cardinality(better) < top_k
    BY <1>1, <1>5 DEF FewAhead
  <2> HIDE DEF better, worse
  <2>3. IsFiniteSet(better)
    BY <2>1, VocabularyFinite, FS_Subset
  <2>4. IsFiniteSet(worse) /\ Cardinality(worse) <= Cardinality(better)
    BY <2>1, <2>3, FS_Subset
  <2>5. Cardinality(worse) \in Nat /\ Cardinality(better) \in Nat
    BY <2>3, <2>4, FS_CardinalityType
  <2>6. Cardinality(worse) < top_k
    BY <2>2, <2>4, <2>5
  <2> QED BY <2>6 DEF worse
<1>6. ASSUME top_p < 4, NEW i \in kept, Ahead(u, i) # {}
      PROVE  4 * Sum(u, Ahead(u, i)) < top_p * Sum(w, Vocabulary)
  <2>1. u[i] = w[i] /\ w[i] > 0 /\ i \in Vocabulary
    BY <1>1 DEF Cuts
  <2>2. Ahead(u, i) \subseteq Ahead(w, i)
    <3> SUFFICES ASSUME NEW j \in Ahead(u, i) PROVE j \in Ahead(w, i)
      OBVIOUS
    <3>1. j \in Vocabulary /\ (u[j] > u[i] \/ (u[j] = u[i] /\ j < i))
      BY DEF Ahead
    <3>2. u[j] \in Nat /\ u[i] \in Nat /\ (u[j] = w[j] \/ u[j] = 0)
      BY <1>1, <3>1 DEF Cuts
    <3>3. u[j] = w[j]
      BY <2>1, <3>1, <3>2
    <3> QED BY <2>1, <3>1, <3>3 DEF Ahead
  <2>3. 4 * Sum(w, Ahead(w, i)) < top_p * Sum(w, Vocabulary)
    BY <1>6, <2>1, <2>2 DEF Cuts
  <2>4. Sum(u, Ahead(u, i)) <= Sum(w, Ahead(u, i))
    <3>1. \A n \in Ahead(u, i) : u[n] \in Int /\ w[n] \in Int /\ u[n] <= w[n]
      <4>1. \A n \in Vocabulary : u[n] \in Nat /\ w[n] \in Nat /\ (u[n] = w[n] \/ u[n] = 0)
        BY <1>1 DEF Cuts
      <4>2. Ahead(u, i) \subseteq Vocabulary
        BY DEF Ahead
      <4> QED BY <4>1, <4>2
    <3>2. IsFiniteSet(Ahead(u, i))
      BY <1>1, AheadSums
    <3> QED BY <3>1, <3>2, SumMonotone DEF Sum
  <2>5. Sum(w, Ahead(u, i)) <= Sum(w, Ahead(w, i))
    <3>1. IsFiniteSet(Ahead(w, i)) /\ \A n \in Ahead(w, i) : w[n] \in Nat
      BY <1>1, AheadSums
    <3> QED BY <2>2, <3>1, SumOfPart DEF Sum
  <2>6. Sum(u, Ahead(u, i)) \in Nat /\ Sum(w, Ahead(w, i)) \in Nat /\ Sum(w, Vocabulary) \in Nat
    BY <1>1, AheadSums
  <2>7. Sum(w, Ahead(u, i)) \in Nat
    <3>1. IsFiniteSet(Ahead(u, i)) /\ \A n \in Ahead(u, i) : w[n] \in Nat
      BY <1>1, AheadSums
    <3> QED BY <3>1, SumNatural DEF Sum
  <2>8. top_p * Sum(w, Vocabulary) \in Nat
    BY <2>6
  <2> QED BY <2>3, <2>4, <2>5, <2>6, <2>7, <2>8
<1> QED BY <1>2, <1>4, <1>5, <1>6 DEF LeavesTheTop

-----------------------------------------------------------------------------
(***************************************************************************)
(* Steps                                                                   *)
(***************************************************************************)

\* Tokens are of the vocabulary, and the library is asked for no more than it does.
SamplerTypes ==
    /\ sampling \in [temperature : Temperatures, top_k : TopKs, top_p : TopPs,
                     repetition_penalty : Penalties, by : {"engine", "library"}]
    /\ sampling.by = "library" => sampling.top_k = 0 /\ sampling.repetition_penalty = 1
    /\ history_tokens \in Seq(Vocabulary)
    /\ token \in Vocabulary \cup {NoToken}

LEMMA FirstBestType ==
    ASSUME NEW s \in [Vocabulary -> Int]
    PROVE  FirstBest(s) \in Vocabulary
<1> DEFINE Bests == {i \in Vocabulary : \A j \in Vocabulary : s[j] <= s[i]}
<1>1. Bests # {}
  BY VocabularyFinite, SomeBest
<1>2. Bests \in SUBSET Nat
  BY DEF Vocabulary
<1> HIDE DEF Bests
<1>3. Min(Bests) \in Bests
  BY <1>1, <1>2, NaturalsHaveMin
<1> QED BY <1>3 DEF FirstBest, Bests

\* A step takes in a token, scores the vocabulary and chooses from it.
LEMMA SampleScores ==
    ASSUME SamplerTypes, Sample
    PROVE  /\ history_tokens' \in Seq(Vocabulary)
           /\ logits' \in [Vocabulary -> Int] /\ scores' \in [Vocabulary -> Int]
           /\ \/ scores' = logits'
              \/ scores' = Penalised(logits', sampling.repetition_penalty, history_tokens')
           /\ sampling' = sampling
<1>1. history_tokens' \in Seq(Vocabulary)
  BY DEF SamplerTypes, Sample
<1>2. logits' \in [Vocabulary -> Int]
  BY SamplerAssumption DEF Sample
<1>3. sampling.repetition_penalty \in Nat \ {0}
  BY SamplerAssumption DEF SamplerTypes
<1>4. \/ scores' = logits'
      \/ scores' = Penalised(logits', sampling.repetition_penalty, history_tokens')
  BY DEF Sample, SampleOnDevice, SampleOnHost, SampleInLibrary
<1>5. Penalised(logits', sampling.repetition_penalty, history_tokens') \in [Vocabulary -> Int]
  BY <1>1, <1>2, <1>3, PenalisedOrdered
<1> QED BY <1>1, <1>2, <1>4, <1>5 DEF Sample

LEMMA SampleType ==
    ASSUME SamplerTypes, Sample
    PROVE  SamplerTypes' /\ token' \in Vocabulary
<1>1. FirstBest(logits') \in Vocabulary /\ FirstBest(scores') \in Vocabulary
  BY SampleScores, FirstBestType
<1>2. {1, VocabSize} \subseteq Vocabulary
  BY SamplerAssumption DEF Vocabulary
<1>3. token' \in Vocabulary
  BY <1>1, <1>2 DEF Sample, SampleOnDevice, SampleOnHost, SampleInLibrary, Greedy, Draw
<1> QED BY <1>3, SampleScores DEF SamplerTypes

LEMMA SamplerTyped == SamplerSpec => []SamplerTypes
<1>1. SamplerInit => SamplerTypes
  <2>1. << >> \in Seq(Vocabulary) /\ \A t \in Vocabulary : <<t>> \in Seq(Vocabulary)
    OBVIOUS
  <2>2. {<< >>} \cup {<<t>> : t \in Vocabulary} \subseteq Seq(Vocabulary)
    BY <2>1, Zenon
  <2>3. SamplerInit => history_tokens \in Seq(Vocabulary)
    BY <2>2, Zenon DEF SamplerInit
  <2> QED BY <2>3 DEF SamplerInit, SamplerTypes
<1>2. SamplerTypes /\ [SamplerNext]_samplerVars => SamplerTypes'
  <2>1. SamplerTypes /\ UNCHANGED samplerVars => SamplerTypes'
    BY DEF samplerVars, SamplerTypes
  <2> QED BY <2>1, SampleType DEF SamplerNext
<1> QED BY <1>1, <1>2, PTL DEF SamplerSpec

-----------------------------------------------------------------------------
(***************************************************************************)
(* The specification                                                       *)
(***************************************************************************)

\* The penalty keeps the order of the model: a token that occurred more often
\* never gets ahead by it of one that was scored as high, whatever the signs.
THEOREM PenaltyOrders == SamplerSpec => []PenaltyIsMonotone
<1>1. SamplerInit => PenaltyIsMonotone
  BY DEF SamplerInit, PenaltyIsMonotone
<1>2. SamplerTypes /\ PenaltyIsMonotone /\ [SamplerNext]_samplerVars => PenaltyIsMonotone'
  <2> SUFFICES ASSUME SamplerTypes, PenaltyIsMonotone, [SamplerNext]_samplerVars
               PROVE  PenaltyIsMonotone'
    OBVIOUS
  <2>1. CASE UNCHANGED samplerVars
    BY <2>1 DEF samplerVars, PenaltyIsMonotone, TimesIn
  <2>2. CASE Sample
    <3>1. CASE scores' = logits'
      BY <3>1 DEF PenaltyIsMonotone
    <3>2. CASE scores' = Penalised(logits', sampling.repetition_penalty, history_tokens')
      <4>1. sampling.repetition_penalty \in Nat \ {0}
        BY SamplerAssumption DEF SamplerTypes
      <4>2. history_tokens' \in Seq(Vocabulary) /\ logits' \in [Vocabulary -> Int]
        BY <2>2, SampleScores
      <4>3. \A i, j \in Vocabulary :
               logits'[i] <= logits'[j] /\ TimesIn(history_tokens', i) >= TimesIn(history_tokens', j)
                   => scores'[i] <= scores'[j]
        BY <3>2, <4>1, <4>2, PenalisedOrdered
      <4> QED BY <4>3 DEF PenaltyIsMonotone, TimesIn
    <3> QED BY <2>2, <3>1, <3>2, SampleScores
  <2> QED BY <2>1, <2>2 DEF SamplerNext
<1> QED BY <1>1, <1>2, SamplerTyped, PTL DEF SamplerSpec

\* Whoever samples at a temperature: the weights left are a cut of what the
\* scores weigh.
LEMMA SampleCuts ==
    ASSUME ExpGrows, SamplerTypes, Sample, sampling.temperature # 0
    PROVE  LeavesTheTop(weights', scores', Considered', sampling.top_k, sampling.top_p)
<1> DEFINE c == sampling
           s == scores'
           K == IF c.by = "engine" THEN TopK(s, c.top_k) ELSE Vocabulary
           w == Relative(s, K)
<1>1. c.top_k \in Nat /\ c.top_p \in 0..4 /\ s \in [Vocabulary -> Int] /\ sampling' = sampling
  BY SampleScores, SamplerAssumption DEF SamplerTypes
<1>2. K \in SUBSET Vocabulary /\ K # {} /\ KeepsTop(K, s) /\ (c.top_k > 0 => FewAhead(K, s, c.top_k))
  <2>1. CASE c.by = "engine"
    BY <1>1, <2>1, TopKKeepsTop
  <2>2. CASE c.by # "engine"
    <3>1. c.by = "library" /\ c.top_k = 0
      BY <2>2 DEF SamplerTypes
    <3> QED BY <2>2, <3>1, VocabularyFinite DEF KeepsTop
  <2> QED BY <2>1, <2>2
<1>3. Weighs(w, s, K)
  BY <1>1, <1>2, RelativeWeighs
<1>4. Considered' = w
  BY <1>1 DEF Considered
<1>5. Cuts(weights', w, c.top_p)
  <2>1. w \in [Vocabulary -> Nat] /\ \E b \in Vocabulary : w[b] = Exp(0)
    BY <1>2, <1>3 DEF Weighs
  <2>2. CASE c.by = "engine" /\ SampleOnHost
    <3>1. weights' = TopP(w, c.top_p)
      BY <2>2 DEF SampleOnHost
    <3> HIDE DEF w
    <3> QED BY <1>1, <2>1, <3>1, TopPCuts
  <2>3. CASE c.by = "engine" /\ SampleOnDevice
    <3>1. c.top_k = 0 /\ c.top_p = 4
      BY <1>1, <2>3 DEF SampleOnDevice, RequiresHostSampling
    <3>2. K = Vocabulary
      <4>1. 0 \notin 1..(VocabSize - 1)
        OBVIOUS
      <4> QED BY <2>3, <3>1, <4>1 DEF TopK
    <3>3. weights' = Relative(s, Vocabulary)
      BY <2>3 DEF SampleOnDevice
    <3>4. weights' = w
      BY <3>2, <3>3
    <3> HIDE DEF w
    <3> QED BY <2>1, <3>1, <3>4, NoCut
  <2>4. CASE c.by # "engine" /\ SampleInLibrary
    <3>1. weights' = IF c.top_p = 4 THEN w ELSE LibraryTopP(w, c.top_p)
      BY <2>4 DEF SampleInLibrary
    <3> HIDE DEF w
    <3> QED BY <1>1, <2>1, <3>1, NoCut, LibraryTopPCuts
  <2> QED BY <2>2, <2>3, <2>4 DEF Sample
<1> HIDE DEF w, K
<1>6. LeavesTheTop(weights', s, w, c.top_k, c.top_p)
  BY <1>1, <1>2, <1>3, <1>5, CutsLeave
<1> QED BY <1>4, <1>6

\* What top-k and top-p leave is the top of the ranking and no more than was
\* asked for, on the host, on the device and in the library, for any weights
\* that tell scores apart until they are zero.
THEOREM CutsLeaveTop == ExpGrows => (SamplerSpec => []CutsLeaveTheTop)
<1> SUFFICES ASSUME ExpGrows PROVE SamplerSpec => []CutsLeaveTheTop
  OBVIOUS
<1>1. SamplerInit => CutsLeaveTheTop
  BY DEF SamplerInit, CutsLeaveTheTop
<1>2. SamplerTypes /\ CutsLeaveTheTop /\ [SamplerNext]_samplerVars => CutsLeaveTheTop'
  <2> SUFFICES ASSUME SamplerTypes, CutsLeaveTheTop, [SamplerNext]_samplerVars
               PROVE  CutsLeaveTheTop'
    OBVIOUS
  <2>1. CASE UNCHANGED samplerVars
    BY <2>1 DEF samplerVars, CutsLeaveTheTop, Kept, Considered
  <2>2. CASE Sample
    <3> SUFFICES ASSUME sampling.temperature # 0 PROVE CutsLeaveTheTop'
      BY <2>2 DEF Sample, CutsLeaveTheTop
    <3>1. LeavesTheTop(weights', scores', Considered', sampling.top_k, sampling.top_p)
      BY <2>2, SampleCuts
    <3>2. sampling' = sampling
      BY <2>2, SampleScores
    <3> QED BY <3>1, <3>2 DEF LeavesTheTop, CutsLeaveTheTop, Kept, Ahead, Sum
  <2> QED BY <2>1, <2>2 DEF SamplerNext
<1> QED BY <1>1, <1>2, SamplerTyped, PTL DEF SamplerSpec
=============================================================================
