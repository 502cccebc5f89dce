---------------------------- MODULE ModelProofs -----------------------------
(***************************************************************************)
(* Theorems about what a model computes with.  Its caches, for any tokens, *)
(* any number of layers, any interval of full attention, any growth step   *)
(* and any lengths: a pass over cached layers sees what one pass over the  *)
(* whole context would, the caches of a context stay in step with it and   *)
(* with one another, and buffers do not run away.  The inside of a layer   *)
(* of Qwen3-Next, for any number of heads, any dimensions, any number of   *)
(* experts and any weights: the columns that belong together meet, and     *)
(* each token mixes its best experts.                                      *)
(***************************************************************************)
EXTENDS ModelCache, HybridLayer, FoldProofs

\* What buffers are made of.
Inputs  == Tokens \cup {Zero}
KVItems == {Zero} \cup [token : Tokens, position : Nat]

\* The keys of the tokens, where they stand, in a buffer that is not much longer.
KVOf(c, tokens) ==
    /\ c = [kind |-> c.kind, keys |-> c.keys, offset |-> c.offset]
    /\ c.keys \in Seq(KVItems)
    /\ c.offset = Len(tokens)
    /\ Len(tokens) <= Len(c.keys)
    /\ \A i \in 1..Len(tokens) : c.keys[i] = [token |-> tokens[i], position |-> i - 1]
    /\ Len(c.keys) < Len(tokens) + MaxInput + KV_CACHE_GROWTH_STEP

\* The last inputs, padded, and a state that has absorbed all.
ArraysOf(c, tokens) ==
    /\ c = [kind |-> c.kind, conv_state |-> c.conv_state, ssm_state |-> c.ssm_state,
            offset |-> c.offset]
    /\ c.conv_state = Ending(Zeros(ConvKernelSize - 1) \o tokens, ConvKernelSize - 1)
    /\ c.ssm_state = tokens
    /\ c.offset = Len(tokens)

\* The cache of layer l.
CacheOf(l, c, tokens) == IF IsLinear(l) THEN ArraysOf(c, tokens) ELSE KVOf(c, tokens)

-----------------------------------------------------------------------------
(***************************************************************************)
(* The KV cache                                                            *)
(***************************************************************************)

\* Division by a step rounds down to a whole number of steps.
LEMMA DivBounds ==
    ASSUME NEW a \in Nat, NEW b \in Nat \ {0}
    PROVE  a \div b \in Nat /\ (a \div b) * b <= a /\ a < (a \div b) * b + b
OBVIOUS

\* A buffer grows by what is appended, up to the end of a step.
LEMMA GrowTokensBounds ==
    ASSUME NEW n \in Nat \ {0}
    PROVE  GrowTokens(n) \in Nat /\ n <= GrowTokens(n) /\ GrowTokens(n) < n + KV_CACHE_GROWTH_STEP
<1> DEFINE S == KV_CACHE_GROWTH_STEP
           a == S + n - 1
<1>1. S \in Nat \ {0} /\ a \in Nat
  BY ModelCacheAssumption
<1>2. a \div S \in Nat /\ (a \div S) * S <= a /\ a < (a \div S) * S + S
  <2> HIDE DEF S, a
  <2> QED BY <1>1, DivBounds
<1>3. (a \div S) * S \in Nat
  BY <1>1, <1>2
<1>4. GrowTokens(n) = (a \div S) * S
  BY DEF GrowTokens
<1> QED
  <2> DEFINE g == (a \div S) * S
  <2>1. g \in Nat /\ g <= S + n - 1 /\ S + n - 1 < g + S
    BY <1>2, <1>3
  <2> HIDE DEF g
  <2>2. g \in Nat /\ n <= g /\ g < n + S
    BY <2>1, <1>1
  <2> QED BY <1>4, <2>2 DEF g

\* A multiple is as large as what it is a multiple of.
LEMMA ModSmall ==
    ASSUME NEW l \in Nat \ {0}, NEW d \in Nat \ {0}, l % d = 0
    PROVE  d <= l
OBVIOUS

\* A fresh buffer.
LEMMA ZerosSeq ==
    ASSUME NEW n \in Nat, NEW S, Zero \in S
    PROVE  Zeros(n) \in Seq(S) /\ Len(Zeros(n)) = n
BY DEF Zeros

\* A function on an initial segment is a sequence.
LEMMA FunctionIsSeq ==
    ASSUME NEW n \in Nat, NEW S, NEW f \in [1..n -> S]
    PROVE  f \in Seq(S) /\ Len(f) = n
OBVIOUS

\* What a concatenation holds, its parts measured.
LEMMA ConcatAt ==
    ASSUME NEW S, NEW s \in Seq(S), NEW t \in Seq(S), NEW a, NEW b, Len(s) = a, Len(t) = b
    PROVE  /\ s \o t \in Seq(S) /\ Len(s \o t) = a + b
           /\ \A i \in 1..(a + b) : (s \o t)[i] = IF i <= a THEN s[i] ELSE t[i - a]
BY ConcatProperties

\* What is kept of a buffer that grows.
LEMMA TrimKeeps ==
    ASSUME NEW S, NEW s \in Seq(S), NEW k \in Nat, k <= Len(s)
    PROVE  /\ SubSeq(s, 1, k) \in Seq(S) /\ Len(SubSeq(s, 1, k)) = k
           /\ \A i \in 1..k : SubSeq(s, 1, k)[i] = s[i]
OBVIOUS

\* The buffer has room for the new, keeps the old and is not much too long.
LEMMA GrownProps ==
    ASSUME NEW c, NEW tokens \in Seq(Tokens), KVOf(c, tokens), NEW n \in 1..MaxInput,
           NEW g, g = Grown(c, n)
    PROVE  /\ g \in Seq(KVItems)
           /\ Len(tokens) + n <= Len(g)
           /\ Len(g) < Len(tokens) + n + MaxInput + KV_CACHE_GROWTH_STEP
           /\ \A i \in 1..Len(tokens) : g[i] = c.keys[i]
<1> DEFINE L == Len(tokens)
           G == GrowTokens(n)
           z == Zeros(G)
<1>1. /\ c.keys \in Seq(KVItems) /\ c.offset = L /\ L \in Nat /\ L <= Len(c.keys)
      /\ Len(c.keys) < L + MaxInput + KV_CACHE_GROWTH_STEP /\ Len(c.keys) \in Nat
  BY DEF KVOf
<1>2. n \in Nat \ {0} /\ n <= MaxInput /\ MaxInput \in Nat /\ KV_CACHE_GROWTH_STEP \in Nat
  BY ModelCacheAssumption
<1>3. G \in Nat /\ n <= G /\ G < n + KV_CACHE_GROWTH_STEP
  BY <1>2, GrowTokensBounds
<1>4. z \in Seq(KVItems) /\ Len(z) = G
  BY <1>3, ZerosSeq DEF KVItems
<1> HIDE DEF G, z
<1>5. CASE L + n <= Len(c.keys)
  <2>1. g = c.keys
    BY <1>1, <1>2, <1>5 DEF Grown, Capacity
  <2> QED BY <1>1, <1>2, <1>5, <2>1
<1>6. CASE L + n > Len(c.keys)
  <2> DEFINE kept == IF c.offset % KV_CACHE_GROWTH_STEP # 0 THEN SubSeq(c.keys, 1, c.offset)
                                                           ELSE c.keys
  <2>1. g = kept \o z
    BY <1>1, <1>2, <1>6 DEF Grown, Capacity, z, G
  <2>2. /\ kept \in Seq(KVItems) /\ Len(kept) \in {L, Len(c.keys)}
        /\ \A i \in 1..L : kept[i] = c.keys[i]
    BY <1>1, TrimKeeps
  <2> HIDE DEF kept
  <2>3. /\ g \in Seq(KVItems) /\ Len(g) = Len(kept) + G
        /\ \A i \in 1..Len(kept) : g[i] = kept[i]
    BY <1>4, <2>1, <2>2, ConcatProperties
  <2>4. L <= Len(kept) /\ Len(kept) < L + n /\ Len(kept) \in Nat
    BY <1>1, <1>2, <1>6, <2>2
  <2>5. \A i \in 1..L : g[i] = c.keys[i]
    BY <1>1, <2>2, <2>3, <2>4
  <2>6. L + n <= Len(g) /\ Len(g) < L + n + MaxInput + KV_CACHE_GROWTH_STEP
    BY <1>1, <1>2, <1>3, <2>3, <2>4
  <2> QED BY <2>3, <2>5, <2>6
<1> QED BY <1>1, <1>2, <1>5, <1>6

\* update_and_fetch adds the keys of x, each at its position.
LEMMA UpdateAdds ==
    ASSUME NEW c, NEW tokens \in Seq(Tokens), KVOf(c, tokens),
           NEW x \in Seq(Tokens), Len(x) \in 1..MaxInput
    PROVE  KVOf(Update(c, Rope(c, x)), tokens \o x)
<1> DEFINE L == Len(tokens)
           n == Len(x)
           rope == Rope(c, x)
           g == Grown(c, n)
           keys == Write(g, c.offset, rope)
           all == tokens \o x
<1>1. L \in Nat /\ n \in Nat \ {0} /\ n \in 1..MaxInput /\ c.offset = L
  BY DEF KVOf
<1>2. /\ rope \in Seq(KVItems) /\ Len(rope) = n
      /\ \A i \in 1..n : rope[i] = [token |-> x[i], position |-> L + i - 1]
  <2>1. rope = [i \in 1..n |-> [token |-> x[i], position |-> L + i - 1]]
    BY <1>1 DEF Rope
  <2>2. \A i \in 1..n : [token |-> x[i], position |-> L + i - 1] \in KVItems
    BY <1>1 DEF KVItems
  <2> QED BY <1>1, <2>1, <2>2
<1>3. /\ g \in Seq(KVItems) /\ Len(g) \in Nat /\ L + n <= Len(g)
      /\ Len(g) < L + n + MaxInput + KV_CACHE_GROWTH_STEP
      /\ \A i \in 1..L : g[i] = c.keys[i]
  BY <1>1, GrownProps
<1>4. all \in Seq(Tokens) /\ Len(all) = L + n
      /\ \A i \in 1..(L + n) : all[i] = IF i <= L THEN tokens[i] ELSE x[i - L]
  BY <1>1
<1> HIDE DEF rope, g, all
<1>5. keys = [i \in 1..Len(g) |-> IF L < i /\ i <= L + n THEN rope[i - L] ELSE g[i]]
  BY <1>1, <1>2, <1>3 DEF Write
<1>6. ASSUME NEW i \in 1..Len(g)
      PROVE  (IF L < i /\ i <= L + n THEN rope[i - L] ELSE g[i]) \in KVItems
  <2>1. CASE L < i /\ i <= L + n
    <3>1. i - L \in 1..n
      BY <1>1, <1>3, <2>1
    <3> QED BY <1>2, <2>1, <3>1
  <2>2. CASE ~(L < i /\ i <= L + n)
    BY <1>3, <2>2
  <2> QED BY <2>1, <2>2
<1>7. keys \in Seq(KVItems) /\ Len(keys) = Len(g)
  <2>1. keys \in [1..Len(g) -> KVItems] /\ Len(g) \in Nat
    BY <1>3, <1>5, <1>6
  <2> HIDE DEF keys
  <2> QED BY <2>1, FunctionIsSeq
<1>8. ASSUME NEW i \in 1..Len(all)
      PROVE  keys[i] = [token |-> all[i], position |-> i - 1]
  <2>1. i \in 1..Len(g) /\ i \in 1..(L + n)
    BY <1>1, <1>3, <1>4
  <2>2. CASE i <= L
    <3>1. keys[i] = c.keys[i] /\ i \in 1..L
      BY <1>1, <1>3, <1>5, <2>1, <2>2
    <3> QED BY <1>4, <2>1, <2>2, <3>1 DEF KVOf
  <2>3. CASE i > L
    <3>1. i - L \in 1..n /\ keys[i] = rope[i - L]
      BY <1>1, <1>5, <2>1, <2>3
    <3>2. rope[i - L] = [token |-> x[i - L], position |-> L + (i - L) - 1]
      BY <1>2, <3>1
    <3>3. L + (i - L) - 1 = i - 1
      BY <1>1, <2>1
    <3> QED BY <1>1, <1>4, <2>1, <2>3, <3>1, <3>2, <3>3
  <2> QED BY <1>1, <2>1, <2>2, <2>3
<1>9. Update(c, rope) = [kind |-> c.kind, keys |-> keys, offset |-> L + n]
  <2>1. Update(c, rope) = [c EXCEPT !.keys = keys, !.offset = @ + n]
    BY <1>2 DEF Update, g
  <2>2. c = [kind |-> c.kind, keys |-> c.keys, offset |-> c.offset]
    BY DEF KVOf
  <2> HIDE DEF keys
  <2> QED BY <1>1, <2>1, <2>2
<1> HIDE DEF keys
<1>10. PICK new : new = Update(c, rope)
  OBVIOUS
<1>11. new.kind = c.kind /\ new.keys = keys /\ new.offset = L + n
  BY <1>9, <1>10
<1>12. KVOf(new, all)
  BY <1>1, <1>3, <1>4, <1>7, <1>8, <1>9, <1>10, <1>11 DEF KVOf
<1> QED BY <1>10, <1>12 DEF rope, all

-----------------------------------------------------------------------------
(***************************************************************************)
(* Layers                                                                  *)
(***************************************************************************)

\* What is seen of a context by attention, and by a linear layer, at position p.
Attends(all, p)  == [j \in 1..p |-> [token |-> all[j], position |-> j - 1]]
Absorbs(all, p) == [window |-> SubSeq(Zeros(ConvKernelSize - 1) \o all, p, p + ConvKernelSize - 1),
                    state  |-> SubSeq(all, 1, p)]

\* The keys that are fetched are those of the context.
LEMMA FetchedAll ==
    ASSUME NEW c, NEW all \in Seq(Tokens), KVOf(c, all)
    PROVE  Fetched(c) = Attends(all, Len(all))
<1>1. /\ c.keys \in Seq(KVItems) /\ c.offset = Len(all) /\ Len(all) \in Nat
      /\ Len(all) <= Len(c.keys)
  BY DEF KVOf
<1>2. SubSeq(c.keys, 1, Len(all)) = [j \in 1..Len(all) |-> c.keys[j]]
  BY <1>1
<1>3. \A j \in 1..Len(all) : c.keys[j] = [token |-> all[j], position |-> j - 1]
  BY DEF KVOf
<1> QED BY <1>1, <1>2, <1>3 DEF Fetched, Attends

\* The mask lets a query see the context up to where it stands.
LEMMA MaskedAttends ==
    ASSUME NEW all \in Seq(Tokens), NEW L \in Nat, NEW n \in Nat, n > 1, Len(all) = L + n,
           NEW i \in 1..n
    PROVE  Attended(Attends(all, L + n), CausalMask(n, L), i) = Attends(all, L + i)
<1> DEFINE keys == Attends(all, L + n)
           mask == CausalMask(n, L)
<1>1. keys = [j \in 1..(L + n) |-> [token |-> all[j], position |-> j - 1]]
  BY DEF Attends
<1>2. Len(keys) = L + n /\ DOMAIN keys = 1..(L + n)
  BY <1>1
<1>3. mask = [k \in 1..n |-> [j \in 1..(L + n) |-> L + k - 1 >= j - 1]]
  BY DEF CausalMask
<1>4. mask # NoMask
  <2>1. DOMAIN mask = 1..n /\ 1 \in 1..n
    BY <1>3
  <2> HIDE DEF mask
  <2>2. DOMAIN NoMask = {}
    BY DEF NoMask
  <2> QED BY <2>1, <2>2
<1>5. mask[i] = [j \in 1..(L + n) |-> L + i - 1 >= j - 1]
  BY <1>3
<1>6. Len(mask[i]) = L + n
  BY <1>5
<1> HIDE DEF keys, mask
<1>7. {k \in DOMAIN keys : mask[i][k]} = 1..(L + i)
  <2>1. \A k \in 1..(L + n) : mask[i][k] = (L + i - 1 >= k - 1)
    BY <1>5
  <2>2. \A k \in Int : k \in 1..(L + i) <=> k \in 1..(L + n) /\ L + i - 1 >= k - 1
    OBVIOUS
  <2>3. {k \in 1..(L + n) : mask[i][k]} = {k \in 1..(L + n) : L + i - 1 >= k - 1}
    BY <2>1
  <2> QED BY <1>2, <2>2, <2>3
<1>8. Attended(keys, mask, i) = [j \in 1..(L + i) |-> keys[j]]
  BY <1>2, <1>4, <1>6, <1>7 DEF Attended
<1>9. \A j \in 1..(L + i) : keys[j] = [token |-> all[j], position |-> j - 1]
  BY <1>1
<1> QED BY <1>8, <1>9 DEF Attends, keys, mask

\* An attention layer sees at each new position the context up to it.
LEMMA AttentionSees ==
    ASSUME NEW c, NEW tokens \in Seq(Tokens), KVOf(c, tokens),
           NEW x \in Seq(Tokens), Len(x) \in 1..MaxInput,
           NEW mask, mask = IF Len(x) > 1 THEN CausalMask(Len(x), Len(tokens)) ELSE NoMask
    PROVE  /\ KVOf(Attention(c, x, mask).cache, tokens \o x)
           /\ Attention(c, x, mask).seen =
                [i \in 1..Len(x) |-> Attends(tokens \o x, Len(tokens) + i)]
<1> DEFINE L == Len(tokens)
           n == Len(x)
           all == tokens \o x
           new == Update(c, Rope(c, x))
<1>1. KVOf(new, all)
  BY UpdateAdds
<1>2. all \in Seq(Tokens) /\ Len(all) = L + n /\ L \in Nat /\ n \in Nat /\ n >= 1
  BY ConcatProperties
<1>3. /\ Attention(c, x, mask).cache = new
      /\ Attention(c, x, mask).seen = [i \in DOMAIN x |-> Attended(Fetched(new), mask, i)]
  BY DEF Attention
<1> HIDE DEF new, all
<1>4. Fetched(new) = Attends(all, L + n)
  BY <1>1, <1>2, FetchedAll
<1>5. DOMAIN x = 1..n
  OBVIOUS
<1>6. ASSUME NEW i \in 1..n
      PROVE  Attended(Fetched(new), mask, i) = Attends(all, L + i)
  <2>1. CASE n > 1
    BY <1>2, <1>4, <2>1, MaskedAttends
  <2>2. CASE n = 1
    <3>1. i = 1 /\ mask = NoMask
      BY <2>2
    <3>2. Attended(Fetched(new), mask, i) = Fetched(new)
      BY <3>1 DEF Attended
    <3>3. L + n = L + i
      BY <2>2, <3>1
    <3> QED BY <1>4, <3>2, <3>3
  <2>3. n > 1 \/ n = 1
    <3>1. n \in Nat /\ n >= 1
      BY <1>2
    <3> HIDE DEF n
    <3> QED BY <3>1
  <2> QED BY <2>1, <2>2, <2>3
<1>7. Attention(c, x, mask).seen = [i \in 1..n |-> Attends(all, L + i)]
  BY <1>3, <1>5, <1>6
<1> QED BY <1>1, <1>3, <1>7 DEF all

\* Windows over the same elements are the same.
LEMMA SameWindow ==
    ASSUME NEW S, NEW a \in Seq(S), NEW b \in Seq(S), NEW d \in Nat, Len(b) = Len(a) + d,
           \A i \in 1..Len(a) : a[i] = b[d + i],
           NEW p \in 1..(Len(a) + 1), NEW q \in 0..Len(a)
    PROVE  SubSeq(a, p, q) = SubSeq(b, d + p, d + q)
<1>1. SubSeq(a, p, q) = [i \in 1..(q - p + 1) |-> a[i + p - 1]]
  OBVIOUS
<1>2. SubSeq(b, d + p, d + q) = [i \in 1..(q - p + 1) |-> b[i + (d + p) - 1]]
  OBVIOUS
<1>3. ASSUME NEW i \in 1..(q - p + 1) PROVE a[i + p - 1] = b[i + (d + p) - 1]
  <2>1. i + p - 1 \in 1..Len(a) /\ d + (i + p - 1) = i + (d + p) - 1
    OBVIOUS
  <2> QED BY <2>1
<1> QED BY <1>1, <1>2, <1>3

\* A linear layer sees at each new position the window that ends there, and absorbs
\* the context up to it; what it keeps serves the next pass.
LEMMA DeltaNetSees ==
    ASSUME NEW c, NEW tokens \in Seq(Tokens), ArraysOf(c, tokens), NEW x \in Seq(Tokens)
    PROVE  /\ ArraysOf(DeltaNet(c, x).cache, tokens \o x)
           /\ DeltaNet(c, x).seen =
                [i \in 1..Len(x) |-> Absorbs(tokens \o x, Len(tokens) + i)]
<1> DEFINE L == Len(tokens)
           n == Len(x)
           K == ConvKernelSize - 1
           all == tokens \o x
           before == Zeros(K) \o tokens
           padded == Zeros(K) \o all
           conv_input == c.conv_state \o x
<1>1. L \in Nat /\ n \in Nat /\ K \in Nat /\ ConvKernelSize = K + 1
  BY ModelCacheAssumption
<1>2. tokens \in Seq(Inputs) /\ x \in Seq(Inputs)
  BY DEF Inputs
<1>3. /\ all \in Seq(Inputs) /\ all \in Seq(Tokens) /\ Len(all) = L + n
      /\ \A i \in 1..(L + n) : all[i] = IF i <= L THEN tokens[i] ELSE x[i - L]
  BY <1>1, <1>2, ConcatProperties
<1>4. /\ Zeros(K) \in Seq(Inputs) /\ Len(Zeros(K)) = K
      /\ \A i \in 1..K : Zeros(K)[i] = Zero
  BY <1>1, ZerosSeq DEF Inputs, Zeros
<1> HIDE DEF all, K
<1>5. /\ before \in Seq(Inputs) /\ Len(before) = K + L
      /\ \A i \in 1..(K + L) : before[i] = IF i <= K THEN Zero ELSE tokens[i - K]
  <2>1. /\ before \in Seq(Inputs) /\ Len(before) = K + L
        /\ \A i \in 1..(K + L) : before[i] = IF i <= K THEN Zeros(K)[i] ELSE tokens[i - K]
    BY <1>1, <1>2, <1>4, ConcatAt
  <2> HIDE DEF before
  <2> QED BY <1>1, <1>4, <2>1
<1>6. /\ padded \in Seq(Inputs) /\ Len(padded) = K + L + n
      /\ \A i \in 1..(K + L + n) : padded[i] = IF i <= K THEN Zero ELSE all[i - K]
  <2>1. PICK m : m = L + n
    OBVIOUS
  <2>2. /\ padded \in Seq(Inputs) /\ Len(padded) = K + m
        /\ \A i \in 1..(K + m) : padded[i] = IF i <= K THEN Zeros(K)[i] ELSE all[i - K]
    BY <1>3, <1>4, <2>1, ConcatAt
  <2> HIDE DEF padded
  <2> QED BY <1>1, <1>4, <2>1, <2>2
<1> HIDE DEF before, padded
<1>7. /\ c.conv_state \in Seq(Inputs) /\ Len(c.conv_state) = K
      /\ \A i \in 1..K : c.conv_state[i] = before[L + i]
  <2>1. c.conv_state = SubSeq(before, L + 1, K + L)
    <3>1. c.conv_state = SubSeq(before, Len(before) - K + 1, Len(before))
      BY DEF ArraysOf, Ending, K, before
    <3>2. Len(before) - K + 1 = L + 1
      BY <1>1, <1>5
    <3> QED BY <1>5, <3>1, <3>2
  <2>2. /\ SubSeq(before, L + 1, K + L) \in Seq(Inputs)
        /\ Len(SubSeq(before, L + 1, K + L)) = K
        /\ \A i \in 1..K : SubSeq(before, L + 1, K + L)[i] = before[L + i]
    BY <1>1, <1>5
  <2> QED BY <2>1, <2>2
<1>8. /\ conv_input \in Seq(Inputs) /\ Len(conv_input) = K + n
      /\ \A i \in 1..(K + n) : conv_input[i] = IF i <= K THEN before[L + i] ELSE x[i - K]
  <2>1. /\ conv_input \in Seq(Inputs) /\ Len(conv_input) = K + n
        /\ \A i \in 1..(K + n) : conv_input[i] = IF i <= K THEN c.conv_state[i] ELSE x[i - K]
    <3>1. PICK w \in Seq(Inputs) : w = c.conv_state /\ Len(w) = K
      BY <1>7
    <3>2. /\ w \o x \in Seq(Inputs) /\ Len(w \o x) = K + n
          /\ \A i \in 1..(K + n) : (w \o x)[i] = IF i <= K THEN w[i] ELSE x[i - K]
      BY <1>2, <3>1, ConcatAt
    <3> QED BY <3>1, <3>2
  <2> HIDE DEF conv_input
  <2> QED BY <1>1, <1>7, <2>1
<1> HIDE DEF conv_input
<1>9. ASSUME NEW i \in 1..Len(conv_input) PROVE conv_input[i] = padded[L + i]
  <2>1. i \in 1..(K + n) /\ L + i \in 1..(K + L + n)
    BY <1>1, <1>8
  <2>2. CASE i <= K
    <3>1. conv_input[i] = before[L + i] /\ L + i \in 1..(K + L)
      BY <1>1, <1>8, <2>1, <2>2
    <3>2. CASE L + i <= K
      BY <1>5, <1>6, <2>1, <3>1, <3>2
    <3>3. CASE L + i > K
      <4>1. before[L + i] = tokens[(L + i) - K] /\ padded[L + i] = all[(L + i) - K]
        BY <1>1, <1>5, <1>6, <2>1, <3>1, <3>3
      <4>2. (L + i) - K \in 1..L
        BY <1>1, <2>1, <2>2, <3>3
      <4>3. all[(L + i) - K] = tokens[(L + i) - K]
        <5>1. PICK m \in 1..L : m = (L + i) - K
          BY <4>2
        <5>2. m \in 1..(L + n) /\ m <= L
          BY <1>1
        <5>3. all[m] = tokens[m]
          BY <1>3, <5>2
        <5> QED BY <5>1, <5>3
      <4> QED BY <3>1, <4>1, <4>3
    <3> QED BY <1>1, <2>1, <3>2, <3>3
  <2>3. CASE i > K
    <3>1. conv_input[i] = x[i - K] /\ padded[L + i] = all[(L + i) - K]
      <4>1. conv_input[i] = x[i - K]
        BY <1>1, <1>8, <2>1, <2>3
      <4>2. L + i \in 1..(K + L + n) /\ ~(L + i <= K)
        BY <1>1, <2>1, <2>3
      <4>3. padded[L + i] = all[(L + i) - K]
        BY <1>6, <4>2
      <4> QED BY <4>1, <4>3
    <3>2. (L + i) - K \in 1..(L + n) /\ (L + i) - K > L /\ ((L + i) - K) - L = i - K
      BY <1>1, <2>1, <2>3
    <3>3. all[(L + i) - K] = x[i - K]
      BY <1>1, <1>3, <3>2
    <3> QED BY <3>1, <3>3
  <2> QED BY <1>1, <2>1, <2>2, <2>3
<1>10. Len(padded) = Len(conv_input) + L
  BY <1>1, <1>6, <1>8
<1>11. ASSUME NEW p \in 1..(Len(conv_input) + 1), NEW q \in 0..Len(conv_input)
       PROVE  SubSeq(conv_input, p, q) = SubSeq(padded, L + p, L + q)
  BY <1>1, <1>6, <1>8, <1>9, <1>10, SameWindow
<1>12. Keep(conv_input) = Ending(padded, K)
  <2>1. Keep(conv_input) = SubSeq(conv_input, n + 1, K + n)
    <3>1. Keep(conv_input) = SubSeq(conv_input, Len(conv_input) - K + 1, Len(conv_input))
      BY DEF Keep, Ending, K
    <3>2. Len(conv_input) - K + 1 = n + 1
      BY <1>1, <1>8
    <3> QED BY <1>8, <3>1, <3>2
  <2>2. Ending(padded, K) = SubSeq(padded, L + (n + 1), L + (K + n))
    <3>1. Len(padded) - K + 1 = L + (n + 1) /\ Len(padded) = L + (K + n)
      BY <1>1, <1>6
    <3> QED BY <3>1 DEF Ending
  <2>3. n + 1 \in 1..(Len(conv_input) + 1) /\ K + n \in 0..Len(conv_input)
    BY <1>1, <1>8
  <2> QED BY <1>11, <2>1, <2>2, <2>3
<1>13. DeltaNet(c, x).cache = [kind |-> c.kind, conv_state |-> Ending(padded, K),
                               ssm_state |-> all, offset |-> L + n]
  <2>1. DeltaNet(c, x).cache = [c EXCEPT !.conv_state = Keep(conv_input), !.ssm_state = @ \o x,
                                         !.offset = @ + n]
    BY DEF DeltaNet, conv_input
  <2>2. c = [kind |-> c.kind, conv_state |-> c.conv_state, ssm_state |-> c.ssm_state,
             offset |-> c.offset]
        /\ c.ssm_state = tokens /\ c.offset = L
    BY DEF ArraysOf
  <2>3. DeltaNet(c, x).cache = [kind |-> c.kind, conv_state |-> Keep(conv_input),
                                ssm_state |-> c.ssm_state \o x, offset |-> c.offset + n]
    BY <2>1, <2>2
  <2> QED BY <1>12, <2>2, <2>3 DEF all
<1>14. ArraysOf(DeltaNet(c, x).cache, all)
  <2>1. PICK new : new = DeltaNet(c, x).cache
    OBVIOUS
  <2>2. ArraysOf(new, all)
    BY <1>3, <1>13, <2>1 DEF ArraysOf, padded, K
  <2> QED BY <2>1, <2>2
<1>15. ASSUME NEW i \in 1..n
       PROVE  /\ SubSeq(conv_input, i, i + ConvKernelSize - 1)
                    = SubSeq(padded, L + i, (L + i) + ConvKernelSize - 1)
              /\ tokens \o SubSeq(x, 1, i) = SubSeq(all, 1, L + i)
  <2>1. /\ i \in 1..(Len(conv_input) + 1) /\ i + ConvKernelSize - 1 \in 0..Len(conv_input)
        /\ L + (i + ConvKernelSize - 1) = (L + i) + ConvKernelSize - 1
    BY <1>1, <1>8
  <2>2. tokens \o SubSeq(x, 1, i) = SubSeq(all, 1, L + i)
    <3> DEFINE part == SubSeq(x, 1, i)
               a == tokens \o part
               b == SubSeq(all, 1, L + i)
    <3>1. /\ part \in Seq(Tokens) /\ Len(part) = i
          /\ \A j \in 1..i : part[j] = x[j]
      BY <1>1, TrimKeeps
    <3>2. /\ b \in Seq(Tokens) /\ Len(b) = L + i
          /\ \A j \in 1..(L + i) : b[j] = all[j]
      BY <1>1, <1>3, TrimKeeps
    <3> HIDE DEF part, b
    <3>3. /\ a \in Seq(Tokens) /\ Len(a) = L + i
          /\ \A j \in 1..(L + i) : a[j] = IF j <= L THEN tokens[j] ELSE part[j - L]
      BY <1>1, <3>1, ConcatProperties
    <3> HIDE DEF a
    <3>4. ASSUME NEW j \in 1..(L + i) PROVE a[j] = b[j]
      <4>1. j \in 1..(L + n)
        BY <1>1
      <4>2. CASE j <= L
        BY <1>3, <3>2, <3>3, <4>1, <4>2
      <4>3. CASE j > L
        <5>1. j - L \in 1..i
          BY <1>1, <4>3
        <5> QED BY <1>1, <1>3, <3>1, <3>2, <3>3, <4>1, <4>3, <5>1
      <4> QED BY <1>1, <4>2, <4>3
    <3>5. a = b
      BY <3>2, <3>3, <3>4, SeqEqual
    <3> QED BY <3>5 DEF a, b, part
  <2> QED BY <1>11, <2>1, <2>2
<1>16. DeltaNet(c, x).seen = [i \in 1..n |-> Absorbs(all, L + i)]
  <2>1. DeltaNet(c, x).seen =
           [i \in 1..n |-> [window |-> SubSeq(conv_input, i, i + ConvKernelSize - 1),
                            state  |-> c.ssm_state \o SubSeq(x, 1, i)]]
    BY DEF DeltaNet, conv_input
  <2>2. c.ssm_state = tokens
    BY DEF ArraysOf
  <2> QED BY <1>15, <2>1, <2>2 DEF Absorbs, padded, K
<1> QED BY <1>14, <1>16 DEF all

-----------------------------------------------------------------------------
(***************************************************************************)
(* The caches of a context                                                 *)
(***************************************************************************)

\* What the model is made of.
ModelOK ==
    /\ num_layers \in Nat \ {0} /\ full_attention_interval \in Nat \ {0}
    /\ architecture \in {"transformer", "qwen3_next"}

\* Only a prefill leads on, so there are inputs.
StageOK == stage # "new" => MaxInput # 0

\* The caches are there, one per layer, as far as the tokens, or not there yet.
InStep(caches, tokens) ==
    /\ tokens \in Seq(Tokens)
    /\ \/ caches = << >> /\ tokens = << >> /\ architecture = "transformer"
       \/ /\ DOMAIN caches = 1..num_layers
          /\ \A l \in 1..num_layers : CacheOf(l, caches[l], tokens)

\* The prefix cache is empty or its snapshot is in step.
PrefixInStep ==
    \/ prefix = [tokens |-> << >>, cache |-> << >>]
    \/ InStep(prefix.cache, prefix.tokens)

\* The inductive invariant.
CachesInv ==
    ModelOK /\ StageOK /\ InStep(cache, history) /\ PrefixInStep /\ CachedPassIsWholePass

\* A fresh cache of either kind.
LEMMA FreshCaches == ArraysOf(EmptyArrays, << >>) /\ KVOf(EmptyKV, << >>)
<1>1. KVOf(EmptyKV, << >>)
  <2>1. EmptyKV.keys = << >> /\ EmptyKV.offset = 0 /\ EmptyKV.kind = "KV"
    BY DEF EmptyKV
  <2>2. EmptyKV = [kind |-> EmptyKV.kind, keys |-> EmptyKV.keys, offset |-> EmptyKV.offset]
    BY DEF EmptyKV
  <2>3. 0 < 0 + MaxInput + KV_CACHE_GROWTH_STEP
    BY ModelCacheAssumption
  <2>4. << >> \in Seq(KVItems) /\ Len(<< >>) = 0
    OBVIOUS
  <2> QED BY <2>1, <2>2, <2>3, <2>4 DEF KVOf
<1>2. ArraysOf(EmptyArrays, << >>)
  <2> DEFINE K == ConvKernelSize - 1
  <2>1. K \in Nat
    BY ModelCacheAssumption
  <2>2. Zeros(K) \in Seq({Zero}) /\ Len(Zeros(K)) = K
    BY <2>1, ZerosSeq
  <2> HIDE DEF K
  <2>3. Ending(Zeros(K) \o << >>, K) = Zeros(K)
    BY <2>1, <2>2 DEF Ending
  <2>4. EmptyArrays = [kind |-> "Arrays", conv_state |-> Zeros(K), ssm_state |-> << >>, offset |-> 0]
    BY DEF EmptyArrays, K
  <2>5. PICK c : c = EmptyArrays
    OBVIOUS
  <2>6. ArraysOf(c, << >>)
    BY <2>3, <2>4, <2>5 DEF ArraysOf, K
  <2> QED BY <2>5, <2>6
<1> QED BY <1>1, <1>2

\* Fresh caches fit an empty context.
LEMMA FreshInStep == InStep(make_cache, << >>)
<1>1. CASE architecture = "transformer"
  BY <1>1 DEF InStep, make_cache
<1>2. CASE architecture # "transformer"
  <2>1. make_cache = [l \in 1..num_layers |-> IF IsLinear(l) THEN EmptyArrays ELSE EmptyKV]
    BY <1>2 DEF make_cache
  <2>2. ASSUME NEW l \in 1..num_layers
        PROVE  CacheOf(l, make_cache[l], << >>)
    <3>1. make_cache[l] = IF IsLinear(l) THEN EmptyArrays ELSE EmptyKV
      BY <2>1
    <3> QED BY <3>1, FreshCaches, ModelCacheAssumption DEF CacheOf
  <2> QED BY <2>1, <2>2 DEF InStep
<1> QED BY <1>1, <1>2

\* A pass starts with a cache per layer, as far as the context.
LEMMA FilledInStep ==
    ASSUME InStep(cache, history), NEW l \in 1..num_layers
    PROVE  CacheOf(l, Filled[l], history)
<1>1. CASE cache = << >> /\ history = << >> /\ architecture = "transformer"
  <2>1. Filled[l] = EmptyKV
    BY <1>1 DEF Filled
  <2>2. ~IsLinear(l)
    BY <1>1 DEF IsLinear
  <2> QED BY <1>1, <2>1, <2>2, FreshCaches, ModelCacheAssumption DEF CacheOf
<1>2. CASE cache # << >>
  BY <1>2 DEF Filled, InStep
<1>3. CASE cache = << >> /\ DOMAIN cache = 1..num_layers
  BY <1>3
<1> QED BY <1>1, <1>2, <1>3 DEF InStep

\* A cache is as far as its tokens, whatever its kind.
LEMMA OffsetInStep ==
    ASSUME NEW l, NEW c, NEW tokens, CacheOf(l, c, tokens)
    PROVE  c.offset = Len(tokens)
BY DEF CacheOf, KVOf, ArraysOf

\* Where there is a layer with full attention, the mask is made for its offset.
LEMMA MaskFits ==
    ASSUME ModelOK, InStep(cache, history), NEW l \in 1..num_layers, ~IsLinear(l)
    PROVE  MaskOffset = Len(history)
<1> DEFINE first == IF architecture = "transformer" THEN 1 ELSE full_attention_interval
<1>1. CASE cache = << >> /\ history = << >> /\ architecture = "transformer"
  BY <1>1 DEF MaskOffset
<1>2. CASE DOMAIN cache = 1..num_layers /\ \A k \in 1..num_layers : CacheOf(k, cache[k], history)
  <2>1. first \in 1..num_layers
    <3>1. CASE architecture = "transformer"
      BY <3>1 DEF ModelOK
    <3>2. CASE architecture = "qwen3_next"
      <4>1. l % full_attention_interval = 0
        BY <3>2 DEF IsLinear
      <4>2. /\ full_attention_interval \in Nat \ {0} /\ l \in Nat \ {0} /\ num_layers \in Nat
            /\ l <= num_layers
        BY DEF ModelOK
      <4>3. full_attention_interval <= l
        BY <4>1, <4>2, ModSmall
      <4> QED BY <3>2, <4>2, <4>3
    <3> QED BY <3>1, <3>2 DEF ModelOK
  <2>2. cache[first].offset = Len(history)
    BY <1>2, <2>1, OffsetInStep
  <2> QED BY <1>2, <2>1, <2>2 DEF MaskOffset
<1> QED BY <1>1, <1>2 DEF InStep

\* What a layer leaves in its cache and sees, given the tokens so far.
LEMMA LayerSees ==
    ASSUME NEW l, NEW c, NEW tokens \in Seq(Tokens), CacheOf(l, c, tokens),
           NEW x \in Seq(Tokens), Len(x) \in 1..MaxInput,
           NEW mask,
           ~IsLinear(l) => mask = IF Len(x) > 1 THEN CausalMask(Len(x), Len(tokens)) ELSE NoMask,
           NEW r, r = IF IsLinear(l) THEN DeltaNet(c, x) ELSE Attention(c, x, mask)
    PROVE  /\ CacheOf(l, r.cache, tokens \o x)
           /\ r.seen = [i \in 1..Len(x) |->
                            IF IsLinear(l) THEN Absorbs(tokens \o x, Len(tokens) + i)
                                           ELSE Attends(tokens \o x, Len(tokens) + i)]
<1>1. CASE IsLinear(l)
  <2>1. ArraysOf(c, tokens) /\ r = DeltaNet(c, x)
    BY <1>1 DEF CacheOf
  <2> QED BY <1>1, <2>1, DeltaNetSees DEF CacheOf
<1>2. CASE ~IsLinear(l)
  <2>1. KVOf(c, tokens) /\ r = Attention(c, x, mask)
    BY <1>2 DEF CacheOf
  <2> QED BY <1>2, <2>1, AttentionSees DEF CacheOf
<1> QED BY <1>1, <1>2

\* A pass over x keeps the caches in step, and every layer sees what one pass over
\* the whole context would.
LEMMA ForwardIsWholePass ==
    ASSUME ModelOK, InStep(cache, history), NEW x \in Seq(Tokens), Len(x) \in 1..MaxInput,
           Forward(x), UNCHANGED model
    PROVE  InStep(cache, history)' /\ CachedPassIsWholePass'
<1> DEFINE L == Len(history)
           n == Len(x)
           layer == [l \in 1..num_layers |-> DecoderLayer(l, x)]
<1>1. /\ history \in Seq(Tokens) /\ L \in Nat /\ n \in Nat
      /\ history' = history \o x /\ history' \in Seq(Tokens) /\ Len(history') = L + n
  BY ConcatProperties DEF Forward, InStep
<1>2. /\ cache' = [l \in 1..num_layers |-> layer[l].cache]
      /\ seen' = [l \in 1..num_layers |-> layer[l].seen]
  BY DEF Forward
<1>3. \A l : IsLinear(l)' <=> IsLinear(l)
  BY DEF IsLinear, model
<1>4. ASSUME NEW l \in 1..num_layers
      PROVE  /\ CacheOf(l, cache'[l], history')
             /\ seen'[l] = [i \in 1..n |-> IF IsLinear(l) THEN Absorbs(history', L + i)
                                                         ELSE Attends(history', L + i)]
  <2> DEFINE mask == MaskFor(n)
  <2>1. PICK c, r : c = Filled[l] /\ r = layer[l]
    OBVIOUS
  <2>2. r = IF IsLinear(l) THEN DeltaNet(c, x) ELSE Attention(c, x, mask)
    BY <2>1 DEF DecoderLayer
  <2>3. CacheOf(l, c, history)
    BY <2>1, FilledInStep
  <2>4. ~IsLinear(l) => mask = IF n > 1 THEN CausalMask(n, L) ELSE NoMask
    BY MaskFits DEF MaskFor
  <2> HIDE DEF mask, layer
  <2>5. /\ CacheOf(l, r.cache, history \o x)
        /\ r.seen = [i \in 1..n |-> IF IsLinear(l) THEN Absorbs(history \o x, L + i)
                                                  ELSE Attends(history \o x, L + i)]
    BY <1>1, <2>2, <2>3, <2>4, LayerSees
  <2> QED BY <1>1, <1>2, <2>1, <2>5
<1> HIDE DEF layer
<1>5. InStep(cache, history)'
  <2>1. num_layers' = num_layers /\ DOMAIN cache' = 1..num_layers
    BY <1>2 DEF model
  <2>2. \A l \in 1..num_layers : CacheOf(l, cache[l], history)'
    BY <1>3, <1>4 DEF CacheOf, KVOf, ArraysOf
  <2> QED BY <1>1, <2>1, <2>2 DEF InStep
<1>6. CachedPassIsWholePass'
  <2>1. SUFFICES ASSUME NEW l \in DOMAIN seen', NEW i \in DOMAIN (seen'[l])
                 PROVE  seen'[l][i] = WholeContext(l, Len(history) - Len(seen[l]) + i)'
    BY DEF CachedPassIsWholePass
  <2>2. l \in 1..num_layers
    BY <1>2
  <2>3. /\ seen'[l] = [k \in 1..n |-> IF IsLinear(l) THEN Absorbs(history', L + k)
                                                    ELSE Attends(history', L + k)]
        /\ Len(seen'[l]) = n /\ i \in 1..n
    <3>1. PICK s : s = seen'[l]
      OBVIOUS
    <3>2. s = [k \in 1..n |-> IF IsLinear(l) THEN Absorbs(history', L + k)
                                           ELSE Attends(history', L + k)]
      BY <1>4, <2>2, <3>1
    <3>3. Len(s) = n /\ DOMAIN s = 1..n
      BY <1>1, <3>2
    <3> QED BY <2>1, <3>1, <3>2, <3>3
  <2>4. Len(history') - Len(seen'[l]) + i = L + i
    BY <1>1, <2>3
  <2>5. WholeContext(l, Len(history) - Len(seen[l]) + i)'
           = IF IsLinear(l) THEN Absorbs(history', L + i) ELSE Attends(history', L + i)
    BY <1>3, <2>4 DEF WholeContext, Absorbs, Attends
  <2> QED BY <2>3, <2>5
<1> QED BY <1>5, <1>6

\* What has been seen stays seen.
LEMMA SeenStays ==
    ASSUME CachedPassIsWholePass, UNCHANGED <<model, history, seen>>
    PROVE  CachedPassIsWholePass'
<1>2. SUFFICES ASSUME NEW l \in DOMAIN seen, NEW i \in DOMAIN (seen[l])
               PROVE  seen'[l][i] = WholeContext(l, Len(history) - Len(seen[l]) + i)'
  BY DEF CachedPassIsWholePass
<1>3. seen[l][i] = WholeContext(l, Len(history) - Len(seen[l]) + i)
  BY DEF CachedPassIsWholePass
<1>4. WholeContext(l, Len(history) - Len(seen[l]) + i)'
         = WholeContext(l, Len(history) - Len(seen[l]) + i)
  BY DEF WholeContext, IsLinear, model
<1> QED BY <1>3, <1>4

\* Every step other than a pass.
LEMMA CarriedOver ==
    ASSUME ModelOK, StageOK', UNCHANGED model, InStep(cache', history'), CachedPassIsWholePass',
           (UNCHANGED prefix /\ PrefixInStep) \/ InStep(prefix.cache', prefix.tokens')
    PROVE  CachesInv'
<1>1. \A l : IsLinear(l)' <=> IsLinear(l)
  BY DEF IsLinear, model
<1>2. InStep(cache, history)'
  BY <1>1 DEF InStep, CacheOf, KVOf, ArraysOf, model
<1>3. PrefixInStep'
  <2>1. CASE UNCHANGED prefix /\ prefix = [tokens |-> << >>, cache |-> << >>]
    BY <2>1 DEF PrefixInStep
  <2>2. CASE InStep(prefix.cache', prefix.tokens')
    <3>1. InStep(prefix.cache, prefix.tokens)'
      BY <1>1, <2>2 DEF InStep, CacheOf, KVOf, ArraysOf, model
    <3> QED BY <3>1 DEF PrefixInStep
  <2>3. CASE UNCHANGED prefix /\ InStep(prefix.cache, prefix.tokens)
    BY <2>2, <2>3
  <2> QED BY <2>1, <2>2, <2>3 DEF PrefixInStep
<1>4. ModelOK'
  BY DEF ModelOK, model
<1> QED BY <1>2, <1>3, <1>4 DEF CachesInv

\* Fresh and stored caches are in step, and every step keeps them so.
LEMMA CachesInvariant == ModelCacheSpec => []CachesInv
<1>1. ModelCacheInit => CachesInv
  <2> SUFFICES ASSUME ModelCacheInit PROVE CachesInv
    OBVIOUS
  <2>1. InStep(cache, history)
    BY FreshInStep DEF ModelCacheInit
  <2>2. PrefixInStep /\ StageOK /\ CachedPassIsWholePass
    BY DEF ModelCacheInit, PrefixInStep, StageOK, CachedPassIsWholePass
  <2>3. ModelOK
    <3>1. num_layers \in Layers /\ Layers \subseteq Nat \ {0} /\ Intervals \subseteq Nat \ {0}
      BY ModelCacheAssumption DEF ModelCacheInit
    <3>2. \/ architecture = "transformer" /\ full_attention_interval = 1
          \/ architecture = "qwen3_next" /\ full_attention_interval \in Intervals
      BY DEF ModelCacheInit
    <3>3. full_attention_interval \in Nat \ {0}
      <4>1. CASE full_attention_interval = 1
        BY <4>1
      <4>2. CASE full_attention_interval \in Intervals
        BY <3>1, <4>2
      <4> QED BY <3>2, <4>1, <4>2
    <3>4. num_layers \in Nat \ {0}
      BY <3>1
    <3>5. architecture \in {"transformer", "qwen3_next"}
      BY <3>2
    <3> QED BY <3>3, <3>4, <3>5 DEF ModelOK
  <2> QED BY <2>1, <2>2, <2>3 DEF CachesInv
<1>2. CachesInv /\ [ModelCacheNext]_modelCacheVars => CachesInv'
  <2> SUFFICES ASSUME CachesInv, [ModelCacheNext]_modelCacheVars PROVE CachesInv'
    OBVIOUS
  <2>1. ModelOK /\ StageOK /\ InStep(cache, history) /\ PrefixInStep /\ CachedPassIsWholePass
    BY DEF CachesInv
  <2>2. CASE NewGeneration
    <3>1. CachedPassIsWholePass' /\ StageOK'
      BY <2>2 DEF NewGeneration, CachedPassIsWholePass, StageOK
    <3> QED BY <2>1, <2>2, <3>1, FreshInStep, CarriedOver DEF NewGeneration
  <2>3. CASE BorrowPrefix
    <3>1. prefix # [tokens |-> << >>, cache |-> << >>]
      BY <2>3 DEF BorrowPrefix
    <3>2. InStep(cache', history')
      BY <2>1, <2>3, <3>1 DEF BorrowPrefix, PrefixInStep
    <3>3. CachedPassIsWholePass' /\ StageOK'
      BY <2>3 DEF BorrowPrefix, CachedPassIsWholePass, StageOK
    <3> QED BY <2>1, <2>3, <3>2, <3>3, CarriedOver DEF BorrowPrefix
  <2>4. ASSUME NEW x \in Seq(Tokens), Len(x) \in 1..MaxInput, Forward(x),
               UNCHANGED <<model, prefix>>
        PROVE  CachesInv'
    <3>1. InStep(cache, history)' /\ CachedPassIsWholePass'
      BY <2>1, <2>4, ForwardIsWholePass
    <3>2. \A l : IsLinear(l)' <=> IsLinear(l)
      BY <2>4 DEF IsLinear, model
    <3>3. InStep(cache', history')
      BY <2>4, <3>1, <3>2 DEF InStep, CacheOf, KVOf, ArraysOf, model
    <3>4. StageOK'
      BY <2>4, ModelCacheAssumption DEF StageOK
    <3> QED BY <2>1, <2>4, <3>1, <3>3, <3>4, CarriedOver
  <2>5. CASE Prefill
    <3>1. PICK n \in 1..MaxInput : \E x \in [1..n -> Tokens] : Forward(x)
      BY <2>5 DEF Prefill
    <3>2. PICK x \in [1..n -> Tokens] : Forward(x)
      BY <3>1
    <3>3. x \in Seq(Tokens) /\ Len(x) = n
      BY ModelCacheAssumption, FunctionIsSeq
    <3> QED BY <2>4, <2>5, <3>2, <3>3 DEF Prefill
  <2>6. CASE StorePrefix
    <3>1. CachedPassIsWholePass'
      BY <2>1, <2>6, SeenStays DEF StorePrefix
    <3>2. StageOK'
      BY <2>1, <2>6 DEF StorePrefix, StageOK
    <3> QED BY <2>1, <2>6, <3>1, <3>2, CarriedOver DEF StorePrefix
  <2>7. CASE DecodeStep
    <3>1. PICK t \in Tokens : Forward(<<t>>)
      BY <2>7 DEF DecodeStep
    <3>2. <<t>> \in Seq(Tokens) /\ Len(<<t>>) \in 1..MaxInput
      BY <2>1, <2>7, ModelCacheAssumption DEF DecodeStep, StageOK
    <3> QED BY <2>4, <2>7, <3>1, <3>2 DEF DecodeStep
  <2>8. CASE UNCHANGED modelCacheVars
    <3>1. CachedPassIsWholePass' /\ StageOK'
      BY <2>1, <2>8, SeenStays DEF modelCacheVars, StageOK
    <3> QED BY <2>1, <2>8, <3>1, CarriedOver DEF modelCacheVars
  <2> QED BY <2>2, <2>3, <2>5, <2>6, <2>7, <2>8 DEF ModelCacheNext
<1> QED BY <1>1, <1>2, PTL DEF ModelCacheSpec

-----------------------------------------------------------------------------
(***************************************************************************)
(* The properties                                                          *)
(***************************************************************************)

\* All caches of a context and of the stored prefix are as far as their tokens, so
\* that the mask and the rotary positions, made from one layer's offset, fit all
\* layers (transformer.rs and qwen3_next.rs take the offset from one cache).
THEOREM LayersCorrect == ModelCacheSpec => []LayersInStep
<1>1. CachesInv => LayersInStep
  <2> SUFFICES ASSUME CachesInv
               PROVE  LayersInStep
    OBVIOUS
  <2>1. ASSUME NEW caches, NEW tokens, InStep(caches, tokens)
        PROVE  \A l \in DOMAIN caches : caches[l].offset = Len(tokens)
    <3>1. CASE caches = << >>
      BY <3>1
    <3>2. CASE /\ DOMAIN caches = 1..num_layers
               /\ \A l \in 1..num_layers : CacheOf(l, caches[l], tokens)
      BY <3>2, OffsetInStep
    <3> QED
      BY <2>1, <3>1, <3>2 DEF InStep
  <2>2. CASE prefix = [tokens |-> << >>, cache |-> << >>]
    BY <2>1, <2>2 DEF CachesInv, LayersInStep
  <2> QED
    BY <2>1, <2>2 DEF CachesInv, PrefixInStep, LayersInStep
<1> QED
  BY <1>1, CachesInvariant, PTL

\* Whatever a context was cut into, whenever it was borrowed and however the buffers
\* grew (cache.rs), every layer makes of every new position what one pass over the
\* whole context would.
THEOREM CachedPassCorrect == ModelCacheSpec => []CachedPassIsWholePass
<1>1. CachesInv => CachedPassIsWholePass
  BY DEF CachesInv
<1> QED
  BY <1>1, CachesInvariant, PTL

\* A buffer never has much more room than its context needs (grow_tokens and the
\* trim of update_and_fetch).
THEOREM BuffersCorrect == ModelCacheSpec => []BuffersBounded
<1>1. CachesInv => BuffersBounded
  <2> SUFFICES ASSUME CachesInv, NEW l \in DOMAIN cache, ~IsLinear(l)
               PROVE  Capacity(cache[l]) < cache[l].offset + MaxInput + KV_CACHE_GROWTH_STEP
    BY DEF BuffersBounded
  <2>1. KVOf(cache[l], history)
    <3>1. InStep(cache, history) /\ cache # << >>
      BY DEF CachesInv
    <3> QED BY <3>1 DEF InStep, CacheOf
  <2> QED BY <2>1 DEF KVOf, Capacity
<1> QED
  BY <1>1, CachesInvariant, PTL
-----------------------------------------------------------------------------
(***************************************************************************)
(* Heads                                                                   *)
(***************************************************************************)

\* Rows of blocks are the blocks.
LEMMA RowsOfFlat ==
    ASSUME NEW T, NEW n \in Nat \ {0}, NEW w \in Nat, NEW B, Blocks(B, n, w, T)
    PROVE  Rows(Flat(B, n, w), n) = B /\ Len(Flat(B, n, w)) = n * w
<1> USE DEF Blocks
<1> DEFINE l == n * w
           s == Flat(B, n, w)
<1>1. l \in Nat /\ l % n = 0 /\ l \div n = w
  <2>1. (w * n + 0) \div n = w /\ (w * n + 0) % n = 0
    <3>1. 0 \in 0..(n - 1)
      OBVIOUS
    <3> QED BY <3>1, QuotientAndRest
  <2>2. w * n + 0 = n * w
    OBVIOUS
  <2> QED BY <2>1, <2>2
<1>2. \A p \in 1..l : s[p] = B[BlockOf(p, w)][PlaceIn(p, w)]
  BY DEF Flat
<1>3. Array(s, l, T)
  <2> SUFFICES ASSUME NEW p \in 1..l PROVE B[BlockOf(p, w)][PlaceIn(p, w)] \in T
    BY DEF Flat, Array
  <2>1. l = n * w
    OBVIOUS
  <2> HIDE DEF l
  <2>2. BlockOf(p, w) \in 1..n /\ PlaceIn(p, w) \in 1..w
    BY <1>1, <2>1, BlockOfPlace DEF IsPlace
  <2> QED BY <2>2
<1>4. l = n * w
  OBVIOUS
<1> HIDE DEF l, s
<1>5. Len(s) = l
  BY <1>1, <1>3 DEF Array
<1>6. ASSUME NEW r \in 1..n PROVE SubSeq(s, (r - 1) * w + 1, r * w) = B[r]
  <2> DEFINE a == (r - 1) * w
             b == r * w
  <2>1. a \in Nat /\ b \in Nat /\ b = a + w /\ b <= l
    <3>1. r * w <= n * w
      OBVIOUS
    <3> QED BY <1>4, <3>1
  <2>2. \A j \in 1..w : IsPlace(a + j, r, j, n, w)
    BY DEF IsPlace
  <2> HIDE DEF a, b
  <2>3. SubSeq(s, a + 1, b) = [j \in 1..w |-> s[a + j]]
    BY <1>1, <1>3, <2>1, SliceIs DEF Array
  <2>4. ASSUME NEW j \in 1..w PROVE s[a + j] = B[r][j]
    <3>1. IsPlace(a + j, r, j, n, w)
      BY <2>2
    <3>2. a + j \in 1..(n * w) /\ BlockOf(a + j, w) = r /\ PlaceIn(a + j, w) = j
      <4> DEFINE p == a + j
      <4>1. IsPlace(p, r, j, n, w)
        BY <3>1
      <4> HIDE DEF p
      <4>2. p \in 1..(n * w) /\ BlockOf(p, w) = r /\ PlaceIn(p, w) = j
        BY <4>1, PlaceOfBlock
      <4> QED BY <4>2 DEF p
    <3> QED BY <1>2, <1>4, <3>2
  <2>5. B[r] = [j \in 1..w |-> B[r][j]]
    OBVIOUS
  <2>6. SubSeq(s, a + 1, b) = B[r]
    BY <2>3, <2>4, <2>5
  <2> QED BY <2>6 DEF a, b
<1>7. Rows(s, n) = [r \in 1..n |-> SubSeq(s, (r - 1) * w + 1, r * w)]
  BY <1>1, <1>5 DEF Rows
<1>8. B = [r \in 1..n |-> B[r]]
  OBVIOUS
<1> QED BY <1>4, <1>5, <1>6, <1>7, <1>8 DEF s

ColumnParts == {"q", "k", "v", "z", "b", "a", "query", "gate", "none"}
Names == ColumnParts \X Nat \X Nat

\* s is the columns of w places in heads of dim, after the first `base' heads.
AreColumns(s, part, base, dim, w) ==
    /\ s = [p \in 1..w |-> <<part, base + BlockOf(p, dim), PlaceIn(p, dim)>>]
    /\ Array(s, w, Names)

\* The columns of m heads, from head `first' on, of dim each.
LEMMA ColumnsAre ==
    ASSUME NEW part \in ColumnParts, NEW first \in Nat, NEW last \in Nat, NEW m \in Nat,
           last - first + 1 = m, NEW dim \in Nat \ {0}, NEW w \in Nat, w = m * dim
    PROVE  AreColumns(Columns(part, first, last, dim), part, first - 1, dim, w)
<1>1. (last - first + 1) * dim = w
  OBVIOUS
<1>2. \A p \in 1..w : BlockOf(p, dim) \in Nat \ {0} /\ PlaceIn(p, dim) \in Nat
  <2>1. \A p \in 1..w : IsPlace(p, BlockOf(p, dim), PlaceIn(p, dim), m, dim)
    BY BlockOfPlace
  <2> QED BY <2>1 DEF IsPlace
<1>3. \A p \in 1..w : first + ((p - 1) \div dim) = (first - 1) + BlockOf(p, dim)
  <2> SUFFICES ASSUME NEW p \in 1..w
      PROVE  first + ((p - 1) \div dim) = (first - 1) + BlockOf(p, dim)
    OBVIOUS
  <2> DEFINE q == (p - 1) \div dim
  <2>1. q \in Int /\ BlockOf(p, dim) = q + 1
    <3>1. BlockOf(p, dim) = q + 1
      BY DEF BlockOf
    <3>2. dim \in Int /\ dim > 0 /\ p - 1 \in Int
      OBVIOUS
    <3>3. q \in Int
      BY <3>2, Z3
    <3> QED BY <3>1, <3>3
  <2> HIDE DEF q
  <2>2. first + q = (first - 1) + BlockOf(p, dim)
    BY <2>1
  <2> QED BY <2>2 DEF q
<1>4. Columns(part, first, last, dim) =
        [p \in 1..w |-> <<part, (first - 1) + BlockOf(p, dim), PlaceIn(p, dim)>>]
  BY <1>1, <1>3 DEF Columns, PlaceIn
<1>5. \A p \in 1..w : <<part, (first - 1) + BlockOf(p, dim), PlaceIn(p, dim)>> \in Names
  <2> SUFFICES ASSUME NEW p \in 1..w
      PROVE  <<part, (first - 1) + BlockOf(p, dim), PlaceIn(p, dim)>> \in Names
    OBVIOUS
  <2>1. (first - 1) + BlockOf(p, dim) \in Nat /\ PlaceIn(p, dim) \in Nat
    BY <1>2
  <2> QED BY <2>1 DEF Names
<1> QED BY <1>4, <1>5 DEF Array, AreColumns

\* The block of f smaller blocks that p is in, and the smaller one.
Nests(p, n, f, dim, w) ==
    LET g == BlockOf(p, w)
        q == PlaceIn(p, w)
    IN  /\ g \in 1..n /\ q \in 1..w
        /\ BlockOf(p, dim) = (g - 1) * f + BlockOf(q, dim)
        /\ PlaceIn(p, dim) = PlaceIn(q, dim)

\* A place in a block that is a row of blocks itself.
LEMMA PlacesNest ==
    ASSUME NEW n \in Nat, NEW f \in Nat, NEW dim \in Nat, NEW w \in Nat, w = f * dim,
           NEW l \in Nat, l = n * w, NEW p \in 1..l
    PROVE  Nests(p, n, f, dim, w)
<1> DEFINE g == BlockOf(p, w)
           q == PlaceIn(p, w)
           c == BlockOf(q, dim)
           d == PlaceIn(q, dim)
           r == (g - 1) * f + c
<1>1. g \in 1..n /\ q \in 1..w /\ p = (g - 1) * w + q
  <2>1. IsPlace(p, g, q, n, w)
    BY BlockOfPlace
  <2> QED BY <2>1 DEF IsPlace
<1>2. c \in 1..f /\ d \in 1..dim /\ q = (c - 1) * dim + d
  <2> HIDE DEF q
  <2>1. IsPlace(q, c, d, f, dim)
    BY <1>1, BlockOfPlace
  <2> QED BY <2>1 DEF IsPlace
<1>3. IsPlace(p, r, d, n * f, dim)
  <2> HIDE DEF g, q, c, d
  <2> DEFINE a == g - 1
             b == c - 1
  <2>1. a \in Nat /\ b \in Nat /\ a + 1 <= n /\ b + 1 <= f /\ g = a + 1 /\ c = b + 1
    BY <1>1, <1>2
  <2>2. p = a * w + (b * dim + d) /\ r = a * f + b + 1
    BY <1>1, <1>2
  <2> HIDE DEF a, b, r
  <2>3. a * w = (a * f) * dim /\ a * f \in Nat /\ b * dim \in Nat /\ (a * f) * dim \in Nat
    BY <2>1
  <2>4. (a * f + b) * dim = (a * f) * dim + b * dim
    BY <2>1, <2>3
  <2>5. r - 1 = a * f + b
    BY <2>1, <2>2, <2>3
  <2>6. p = (r - 1) * dim + d
    BY <1>2, <2>2, <2>3, <2>4, <2>5
  <2>7. (a + 1) * f <= n * f /\ (a + 1) * f = a * f + f
    BY <2>1
  <2>8. r \in 1..(n * f)
    BY <2>1, <2>2, <2>3, <2>7
  <2> QED BY <1>2, <2>6, <2>8 DEF IsPlace
<1>4. BlockOf(p, dim) = r /\ PlaceIn(p, dim) = d
  <2>1. n * f \in Nat
    OBVIOUS
  <2> HIDE DEF r, d
  <2> DEFINE m == n * f
  <2>2. m \in Nat /\ IsPlace(p, r, d, m, dim)
    BY <1>3, <2>1
  <2> HIDE DEF m
  <2> QED BY <2>2, PlaceOfBlock
<1> QED BY <1>1, <1>4 DEF Nests

\* The columns of n groups of f heads, of dim each.
Groups(part, n, f, dim) == [g \in 1..n |-> Columns(part, (g - 1) * f + 1, g * f, dim)]

\* s is what the blocks B are one after the other.
GroupsMake(s, B, n, w) ==
    Blocks(B, n, w, Names) /\ Flat(B, n, w) = s /\ Array(s, n * w, Names)

\* Group by group they are the columns of all heads.
LEMMA GroupsAreColumns ==
    ASSUME NEW part \in ColumnParts, NEW n \in Nat, NEW f \in Nat, NEW dim \in Nat \ {0},
           NEW w \in Nat, w = f * dim
    PROVE  GroupsMake(Columns(part, 1, n * f, dim), Groups(part, n, f, dim), n, w)
<1>1. ASSUME NEW g \in 1..n
      PROVE  AreColumns(Columns(part, (g - 1) * f + 1, g * f, dim), part, (g - 1) * f, dim, w)
  <2> DEFINE first == (g - 1) * f + 1
             last  == g * f
  <2>1. first \in Nat /\ last \in Nat /\ last - first + 1 = f /\ first - 1 = (g - 1) * f
    <3>1. g * f = (g - 1) * f + f /\ (g - 1) * f \in Nat
      OBVIOUS
    <3> QED BY <3>1
  <2> HIDE DEF first, last
  <2>2. AreColumns(Columns(part, first, last, dim), part, first - 1, dim, w)
    BY <2>1, ColumnsAre
  <2> QED BY <2>1, <2>2 DEF first, last
<1> DEFINE B == Groups(part, n, f, dim)
<1>2. \A g \in 1..n : B[g] = Columns(part, (g - 1) * f + 1, g * f, dim)
  BY DEF Groups
<1>3. Blocks(B, n, w, Names)
  BY <1>1 DEF Groups, Blocks, Array, AreColumns
<1> DEFINE m == n * f
           l == n * w
<1>4. m \in Nat /\ l \in Nat /\ l = m * dim /\ l = n * w
  OBVIOUS
<1>5. AreColumns(Columns(part, 1, m, dim), part, 0, dim, l)
  <2> HIDE DEF m, l
  <2>1. m - 1 + 1 = m /\ 1 - 1 = 0
    BY <1>4
  <2>2. AreColumns(Columns(part, 1, m, dim), part, 1 - 1, dim, l)
    BY <1>4, <2>1, ColumnsAre
  <2> QED BY <2>1, <2>2
<1>6. ASSUME NEW p \in 1..l
      PROVE  B[BlockOf(p, w)][PlaceIn(p, w)] = <<part, 0 + BlockOf(p, dim), PlaceIn(p, dim)>>
  <2> DEFINE g == BlockOf(p, w)
             q == PlaceIn(p, w)
  <2>1. /\ g \in 1..n /\ q \in 1..w
        /\ BlockOf(p, dim) = (g - 1) * f + BlockOf(q, dim)
        /\ PlaceIn(p, dim) = PlaceIn(q, dim)
    <3>1. Nests(p, n, f, dim, w)
      <4> HIDE DEF l
      <4> QED BY <1>4, PlacesNest
    <3> QED BY <3>1 DEF Nests
  <2> HIDE DEF g, q
  <2>2. B[g] = [x \in 1..w |-> <<part, (g - 1) * f + BlockOf(x, dim), PlaceIn(x, dim)>>]
    BY <1>1, <1>2, <2>1 DEF AreColumns
  <2>3. B[g][q] = <<part, (g - 1) * f + BlockOf(q, dim), PlaceIn(q, dim)>>
    BY <2>1, <2>2
  <2>4. BlockOf(p, dim) \in Int
    <3>1. IsPlace(p, BlockOf(p, dim), PlaceIn(p, dim), m, dim)
      <4> HIDE DEF m, l
      <4> QED BY <1>4, BlockOfPlace
    <3> QED BY <3>1 DEF IsPlace
  <2>5. 0 + BlockOf(p, dim) = BlockOf(p, dim)
    BY <2>4
  <2>6. B[g][q] = <<part, BlockOf(p, dim), PlaceIn(p, dim)>>
    BY <2>1, <2>3, Zenon
  <2>7. B[g][q] = <<part, 0 + BlockOf(p, dim), PlaceIn(p, dim)>>
    BY <2>5, <2>6, Zenon
  <2> QED BY <2>7 DEF g, q
<1>7. Flat(B, n, w) = [p \in 1..l |-> B[BlockOf(p, w)][PlaceIn(p, w)]]
  BY DEF Flat
<1>8. Flat(B, n, w) = Columns(part, 1, m, dim)
  <2> HIDE DEF l, m, B
  <2> QED BY <1>5, <1>6, <1>7 DEF AreColumns
<1> QED BY <1>3, <1>5, <1>8 DEF GroupsMake, AreColumns

\* The columns of each head.
Each(part, n, dim) == [h \in 1..n |-> Columns(part, h, h, dim)]

LEMMA HeadsOfColumns ==
    ASSUME NEW part \in ColumnParts, NEW n \in Nat \ {0}, NEW dim \in Nat \ {0}
    PROVE  Heads(Columns(part, 1, n, dim), n, dim) = Each(part, n, dim)
<1>1. Groups(part, n, 1, dim) = Each(part, n, dim)
  <2>1. \A g \in 1..n : (g - 1) * 1 + 1 = g /\ g * 1 = g
    OBVIOUS
  <2>2. \A g \in 1..n : Columns(part, (g - 1) * 1 + 1, g * 1, dim) = Columns(part, g, g, dim)
    BY <2>1
  <2> QED BY <2>2 DEF Groups, Each
<1>2. n * 1 = n /\ 1 * dim = dim
  OBVIOUS
<1>3. Blocks(Each(part, n, dim), n, dim, Names) /\ Flat(Each(part, n, dim), n, dim) = Columns(part, 1, n, dim)
  <2> DEFINE one == 1
             m == n * one
  <2>1. one \in Nat /\ dim = one * dim /\ m = n
    OBVIOUS
  <2>2. GroupsMake(Columns(part, 1, m, dim), Groups(part, n, one, dim), n, dim)
    <3> HIDE DEF one
    <3> QED BY <2>1, GroupsAreColumns
  <2>3. GroupsMake(Columns(part, 1, n, dim), Each(part, n, dim), n, dim)
    BY <1>1, <2>1, <2>2, Zenon
  <2> QED BY <2>3 DEF GroupsMake
<1>4. /\ Rows(Flat(Each(part, n, dim), n, dim), n) = Each(part, n, dim)
      /\ Len(Flat(Each(part, n, dim), n, dim)) = n * dim
  BY <1>3, RowsOfFlat
<1> QED BY <1>3, <1>4 DEF Heads

\* Every row holds the columns of its group of heads, after k others.
RowsHave(rows, n, width, k, part, f, dim, w) ==
    /\ rows = [g \in 1..n |-> rows[g]]
    /\ \A g \in 1..n : Array(rows[g], width, Names)
    /\ \A g \in 1..n : Holds(rows[g], k, Columns(part, (g - 1) * f + 1, g * f, dim), w)

CutIs(s, rows, k, to) == Cut(rows, k, to) = s

\* Cut out, they are the columns of all heads.
LEMMA CutColumns ==
    ASSUME NEW part \in ColumnParts, NEW n \in Nat \ {0}, NEW f \in Nat, NEW dim \in Nat \ {0},
           NEW w \in Nat, w = f * dim, NEW width \in Nat, NEW k \in Nat,
           NEW to \in Nat, to = k + w, to <= width,
           NEW rows, RowsHave(rows, n, width, k, part, f, dim, w)
    PROVE  CutIs(Columns(part, 1, n * f, dim), rows, k, to)
<1> DEFINE B == Groups(part, n, f, dim)
<1>1. GroupsMake(Columns(part, 1, n * f, dim), B, n, w)
  BY GroupsAreColumns
<1>2. \A g \in 1..n : B[g] = Columns(part, (g - 1) * f + 1, g * f, dim)
  BY DEF Groups
<1>3. B = [g \in 1..n |-> B[g]]
  BY DEF Groups
<1> HIDE DEF B
<1>4. \A g \in 1..n : Array(B[g], w, Names)
  BY <1>1 DEF GroupsMake, Blocks, Array
<1>5. \A g \in 1..n : SubSeq(rows[g], k + 1, to) = B[g]
  <2> SUFFICES ASSUME NEW g \in 1..n PROVE SubSeq(rows[g], k + 1, to) = B[g]
    OBVIOUS
  <2> DEFINE s == rows[g]
             u == B[g]
  <2>1. Array(s, width, Names) /\ Array(u, w, Names) /\ Holds(s, k, u, w)
    BY <1>2, <1>4 DEF RowsHave
  <2> HIDE DEF s, u
  <2>2. Slices(u, s, k, to)
    BY <2>1, SliceHas
  <2> QED BY <2>2 DEF s, u, Slices
<1>6. DOMAIN rows = 1..n
  <2>1. rows = [g \in 1..n |-> rows[g]]
    BY DEF RowsHave
  <2> QED BY <2>1
<1>7. [r \in DOMAIN rows |-> SubSeq(rows[r], k + 1, to)] = B
  BY <1>3, <1>5, <1>6
<1>8. Cut(rows, k, to) = FlattenSeq(B)
  BY <1>7, Zenon DEF Cut
<1>9. FlattenSeq(B) = Flat(B, n, w)
  BY <1>1, FlattenIsFlat DEF GroupsMake
<1> QED BY <1>1, <1>8, <1>9 DEF GroupsMake, CutIs

GroupArrays(part, n, f, dim, w) ==
    \A g \in 1..n : Array(Columns(part, (g - 1) * f + 1, g * f, dim), w, Names)

\* A group's columns are an array.
LEMMA GroupIsArray ==
    ASSUME NEW part \in ColumnParts, NEW n \in Nat, NEW f \in Nat, NEW dim \in Nat \ {0},
           NEW w \in Nat, w = f * dim
    PROVE  GroupArrays(part, n, f, dim, w)
<1>1. GroupsMake(Columns(part, 1, n * f, dim), Groups(part, n, f, dim), n, w)
  BY GroupsAreColumns
<1>2. \A g \in 1..n : Groups(part, n, f, dim)[g] = Columns(part, (g - 1) * f + 1, g * f, dim)
  BY DEF Groups
<1>3. \A g \in 1..n : Groups(part, n, f, dim)[g] \in [1..w -> Names]
  BY <1>1 DEF GroupsMake, Blocks
<1> QED BY <1>2, <1>3 DEF Array, GroupArrays

\* A key head is the only one of its group.
LEMMA GroupOfOne ==
    ASSUME NEW g \in Nat
    PROVE  (g - 1) * 1 + 1 = g /\ g * 1 = g
OBVIOUS

\* The rows of in_proj_qkvz.
RowsQKVZ(n, f, dk, dv) ==
    [g \in 1..n |-> Columns("q", g, g, dk) \o Columns("k", g, g, dk)
                    \o Columns("v", (g - 1) * f + 1, g * f, dv)
                    \o Columns("z", (g - 1) * f + 1, g * f, dv)]

QKVZHave(rows, n, f, dk, dv, vw) ==
    /\ Blocks(rows, n, dk + dk + vw + vw, Names)
    /\ RowsHave(rows, n, dk + dk + vw + vw, 0, "q", 1, dk, dk)
    /\ RowsHave(rows, n, dk + dk + vw + vw, dk, "k", 1, dk, dk)
    /\ RowsHave(rows, n, dk + dk + vw + vw, dk + dk, "v", f, dv, vw)
    /\ RowsHave(rows, n, dk + dk + vw + vw, dk + dk + vw, "z", f, dv, vw)

LEMMA RowsOfQKVZ ==
    ASSUME NEW n \in Nat, NEW f \in Nat, NEW dk \in Nat \ {0}, NEW dv \in Nat \ {0},
           NEW vw \in Nat, vw = f * dv
    PROVE  QKVZHave(RowsQKVZ(n, f, dk, dv), n, f, dk, dv, vw)
<1> DEFINE rows == RowsQKVZ(n, f, dk, dv)
           W    == dk + dk + vw + vw
<1>1. rows = [g \in 1..n |-> rows[g]]
  BY DEF RowsQKVZ
<1>2. dk = 1 * dk
  OBVIOUS
<1>3. /\ \A g \in 1..n : Array(Columns("q", (g - 1) * 1 + 1, g * 1, dk), dk, Names)
      /\ \A g \in 1..n : Array(Columns("k", (g - 1) * 1 + 1, g * 1, dk), dk, Names)
      /\ \A g \in 1..n : Array(Columns("v", (g - 1) * f + 1, g * f, dv), vw, Names)
      /\ \A g \in 1..n : Array(Columns("z", (g - 1) * f + 1, g * f, dv), vw, Names)
  <2> DEFINE one == 1
  <2>1. one \in Nat /\ dk = one * dk
    OBVIOUS
  <2> HIDE DEF one
  <2>2. GroupArrays("q", n, one, dk, dk) /\ GroupArrays("k", n, one, dk, dk)
    <3>1. \A part \in ColumnParts : GroupArrays(part, n, one, dk, dk)
      BY <2>1, GroupIsArray
    <3> QED BY <3>1 DEF ColumnParts
  <2>3. GroupArrays("v", n, f, dv, vw) /\ GroupArrays("z", n, f, dv, vw)
    <3>1. \A part \in ColumnParts : GroupArrays(part, n, f, dv, vw)
      BY GroupIsArray
    <3> QED BY <3>1 DEF ColumnParts
  <2> QED BY <2>2, <2>3, Zenon DEF one, GroupArrays
<1>4. ASSUME NEW g \in 1..n
      PROVE  Parts4(rows[g], Columns("q", (g - 1) * 1 + 1, g * 1, dk), dk,
                    Columns("k", (g - 1) * 1 + 1, g * 1, dk), dk,
                    Columns("v", (g - 1) * f + 1, g * f, dv), vw,
                    Columns("z", (g - 1) * f + 1, g * f, dv), vw, Names)
  <2> DEFINE u == Columns("q", (g - 1) * 1 + 1, g * 1, dk)
             v == Columns("k", (g - 1) * 1 + 1, g * 1, dk)
             x == Columns("v", (g - 1) * f + 1, g * f, dv)
             y == Columns("z", (g - 1) * f + 1, g * f, dv)
  <2>1. Array(u, dk, Names) /\ Array(v, dk, Names) /\ Array(x, vw, Names) /\ Array(y, vw, Names)
    BY <1>3
  <2>2. (g - 1) * 1 + 1 = g /\ g * 1 = g
    BY GroupOfOne
  <2>3. rows[g] = ((u \o v) \o x) \o y
    BY <2>2 DEF RowsQKVZ
  <2> HIDE DEF u, v, x, y
  <2>4. Parts4(((u \o v) \o x) \o y, u, dk, v, dk, x, vw, y, vw, Names)
    BY <2>1, JoinFour
  <2>5. Parts4(rows[g], u, dk, v, dk, x, vw, y, vw, Names)
    BY <2>3, <2>4
  <2> QED BY <2>5 DEF u, v, x, y
<1> HIDE DEF rows
<1>5. \A g \in 1..n : Array(rows[g], W, Names)
  BY <1>4 DEF Parts4
<1>6. Blocks(rows, n, W, Names)
  <2> HIDE DEF W
  <2> QED BY <1>1, <1>5 DEF Blocks, Array
<1>7. RowsHave(rows, n, W, 0, "q", 1, dk, dk)
  BY <1>1, <1>4, <1>5 DEF RowsHave, Parts4
<1>8. RowsHave(rows, n, W, dk, "k", 1, dk, dk)
  BY <1>1, <1>4, <1>5 DEF RowsHave, Parts4
<1>9. RowsHave(rows, n, W, dk + dk, "v", f, dv, vw)
  BY <1>1, <1>4, <1>5 DEF RowsHave, Parts4
<1>10. RowsHave(rows, n, W, dk + dk + vw, "z", f, dv, vw)
  BY <1>1, <1>4, <1>5 DEF RowsHave, Parts4
<1> QED BY <1>6, <1>7, <1>8, <1>9, <1>10 DEF QKVZHave, rows
\* The rows of in_proj_ba, and of a gated q_proj.
RowsOfTwo(one, two, n, f, dim) ==
    [g \in 1..n |-> Columns(one, (g - 1) * f + 1, g * f, dim) \o Columns(two, (g - 1) * f + 1, g * f, dim)]

TwoHave(rows, one, two, n, f, dim, w) ==
    /\ Blocks(rows, n, w + w, Names)
    /\ RowsHave(rows, n, w + w, 0, one, f, dim, w)
    /\ RowsHave(rows, n, w + w, w, two, f, dim, w)

LEMMA RowsOfTwoParts ==
    ASSUME NEW n \in Nat, NEW f \in Nat, NEW dim \in Nat \ {0}, NEW w \in Nat, w = f * dim,
           NEW one \in ColumnParts, NEW two \in ColumnParts
    PROVE  TwoHave(RowsOfTwo(one, two, n, f, dim), one, two, n, f, dim, w)
<1> DEFINE rows == RowsOfTwo(one, two, n, f, dim)
<1>1. rows = [g \in 1..n |-> rows[g]]
  BY DEF RowsOfTwo
<1>2. GroupArrays(one, n, f, dim, w) /\ GroupArrays(two, n, f, dim, w)
  BY GroupIsArray
<1>3. ASSUME NEW g \in 1..n
      PROVE  /\ Array(rows[g], w + w, Names)
             /\ Holds(rows[g], 0, Columns(one, (g - 1) * f + 1, g * f, dim), w)
             /\ Holds(rows[g], w, Columns(two, (g - 1) * f + 1, g * f, dim), w)
  <2> DEFINE u == Columns(one, (g - 1) * f + 1, g * f, dim)
             v == Columns(two, (g - 1) * f + 1, g * f, dim)
  <2>1. Array(u, w, Names) /\ Array(v, w, Names)
    BY <1>2 DEF GroupArrays
  <2>2. rows[g] = u \o v
    BY DEF RowsOfTwo
  <2> HIDE DEF u, v, rows
  <2>3. Array(u \o v, w + w, Names) /\ Holds(u \o v, 0, u, w) /\ Holds(u \o v, w, v, w)
    BY <2>1, JoinHas
  <2>4. Array(rows[g], w + w, Names) /\ Holds(rows[g], 0, u, w) /\ Holds(rows[g], w, v, w)
    BY <2>2, <2>3
  <2> QED BY <2>4 DEF u, v
<1> HIDE DEF rows
<1>4. Blocks(rows, n, w + w, Names)
  <2> DEFINE W == w + w
  <2>1. \A g \in 1..n : Array(rows[g], W, Names)
    BY <1>3
  <2> HIDE DEF W
  <2>2. Blocks(rows, n, W, Names)
    BY <1>1, <2>1 DEF Blocks, Array
  <2> QED BY <2>2 DEF W
<1>5. RowsHave(rows, n, w + w, 0, one, f, dim, w) /\ RowsHave(rows, n, w + w, w, two, f, dim, w)
  BY <1>1, <1>3 DEF RowsHave
<1> QED BY <1>4, <1>5 DEF TwoHave, rows

\* A projection's output, cut into rows again.
LEMMA RowsBack ==
    ASSUME NEW n \in Nat \ {0}, NEW w \in Nat, NEW B, Blocks(B, n, w, Names)
    PROVE  /\ Rows(FlattenSeq(B), n) = B
           /\ B # << >> /\ Width(B) = w
           /\ Len(FlattenSeq(B)) = n * w
<1>1. FlattenSeq(B) = Flat(B, n, w)
  BY FlattenIsFlat
<1>2. Rows(Flat(B, n, w), n) = B /\ Len(Flat(B, n, w)) = n * w
  BY RowsOfFlat
<1>3. B # << >> /\ Len(B[1]) = w
  <2>1. B \in [1..n -> [1..w -> Names]] /\ 1 \in 1..n
    BY DEF Blocks
  <2> QED BY <2>1
<1> QED BY <1>1, <1>2, <1>3 DEF Width

HeadsAre(part, n, dim) ==
    /\ Heads(Columns(part, 1, n, dim), n, dim) = Each(part, n, dim)
    /\ Each(part, n, dim) # << >>

\* The columns of heads of both kinds.
LEMMA HeadsAreEach ==
    ASSUME NEW n \in Nat \ {0}, NEW dim \in Nat \ {0}
    PROVE  \A part \in ColumnParts : HeadsAre(part, n, dim)
<1> SUFFICES ASSUME NEW part \in ColumnParts PROVE HeadsAre(part, n, dim)
  OBVIOUS
<1>1. Heads(Columns(part, 1, n, dim), n, dim) = Each(part, n, dim)
  BY HeadsOfColumns
<1>2. Len(Each(part, n, dim)) = n
  BY DEF Each
<1>3. Each(part, n, dim) # << >>
  BY <1>2
<1> QED BY <1>1, <1>2, <1>3 DEF HeadsAre

\* All columns of heads.
LEMMA ColumnsArray ==
    ASSUME NEW n \in Nat, NEW dim \in Nat \ {0}
    PROVE  \A part \in ColumnParts : Array(Columns(part, 1, n, dim), n * dim, Names)
<1> DEFINE l == n * dim
<1>1. l \in Nat /\ l = n * dim /\ n - 1 + 1 = n
  OBVIOUS
<1> HIDE DEF l
<1>2. \A part \in ColumnParts : AreColumns(Columns(part, 1, n, dim), part, 1 - 1, dim, l)
  BY <1>1, ColumnsAre
<1> QED BY <1>1, <1>2 DEF AreColumns

\* Repeating key heads gives each value head its own.
Repeated(part, nv, f, dim) == [h \in 1..nv |-> Columns(part, BlockOf(h, f), BlockOf(h, f), dim)]

LEMMA RepeatedHeads ==
    ASSUME NEW n \in Nat \ {0}, NEW f \in Nat \ {0}, NEW nv \in Nat, nv = n * f,
           NEW part, NEW dim
    PROVE  RepeatHeads(Each(part, n, dim), f) = Repeated(part, nv, f, dim)
<1>1. Len(Each(part, n, dim)) = n /\ \A h \in 1..n : Each(part, n, dim)[h] = Columns(part, h, h, dim)
  BY DEF Each
<1>2. \A h \in 1..nv : BlockOf(h, f) \in 1..n
  <2>1. \A h \in 1..nv : IsPlace(h, BlockOf(h, f), PlaceIn(h, f), n, f)
    BY BlockOfPlace
  <2> QED BY <2>1 DEF IsPlace
<1>3. \A h \in 1..nv : Each(part, n, dim)[BlockOf(h, f)] = Columns(part, BlockOf(h, f), BlockOf(h, f), dim)
  BY <1>1, <1>2
<1>4. CASE f > 1
  <2>1. RepeatHeads(Each(part, n, dim), f) = [h \in 1..nv |-> Each(part, n, dim)[BlockOf(h, f)]]
    BY <1>1, <1>4 DEF RepeatHeads, BlockOf
  <2> QED BY <1>3, <2>1 DEF Repeated
<1>5. CASE f = 1
  <2>1. \A h \in 1..nv : BlockOf(h, 1) = h
    <3>1. \A h \in Int : h \div 1 = h
      BY Z3
    <3> QED BY <3>1 DEF BlockOf
  <2>2. nv = n
    BY <1>5
  <2>3. RepeatHeads(Each(part, n, dim), f) = Each(part, n, dim)
    BY <1>5 DEF RepeatHeads
  <2> QED BY <1>5, <2>1, <2>2, <2>3 DEF Repeated, Each
<1> QED BY <1>4, <1>5
\* What is cut out of the rows of in_proj_qkvz.
PiecesQKVZ(rows, n, nv, f, dk, dv) ==
    /\ Cut(rows, 0, dk) = Columns("q", 1, n, dk)
    /\ Cut(rows, dk, 2 * dk) = Columns("k", 1, n, dk)
    /\ Cut(rows, 2 * dk, 2 * dk + f * dv) = Columns("v", 1, nv, dv)
    /\ Cut(rows, 2 * dk + f * dv, Width(rows)) = Columns("z", 1, nv, dv)
    /\ Rows(FlattenSeq(rows), n) = rows /\ rows # << >>

LEMMA QKVZPieces ==
    ASSUME NEW n \in Nat \ {0}, NEW f \in Nat \ {0}, NEW dk \in Nat \ {0}, NEW dv \in Nat \ {0},
           NEW nv \in Nat, nv = n * f
    PROVE  PiecesQKVZ(RowsQKVZ(n, f, dk, dv), n, nv, f, dk, dv)
<1> DEFINE rows == RowsQKVZ(n, f, dk, dv)
           vw   == f * dv
           W    == dk + dk + vw + vw
           one  == 1
<1>1. vw \in Nat /\ W \in Nat /\ vw = f * dv /\ W = dk + dk + vw + vw
      /\ one \in Nat /\ dk = one * dk /\ n * one = n
  OBVIOUS
<1>2. QKVZHave(rows, n, f, dk, dv, vw)
  <2> HIDE DEF vw
  <2> QED BY <1>1, RowsOfQKVZ
<1>3. /\ Blocks(rows, n, W, Names)
      /\ RowsHave(rows, n, W, 0, "q", one, dk, dk)
      /\ RowsHave(rows, n, W, dk, "k", one, dk, dk)
      /\ RowsHave(rows, n, W, dk + dk, "v", f, dv, vw)
      /\ RowsHave(rows, n, W, dk + dk + vw, "z", f, dv, vw)
  BY <1>2 DEF QKVZHave
<1>4. "q" \in ColumnParts /\ "k" \in ColumnParts /\ "v" \in ColumnParts /\ "z" \in ColumnParts
  BY DEF ColumnParts
<1> HIDE DEF rows, vw, W, one
<1>5. Rows(FlattenSeq(rows), n) = rows /\ rows # << >> /\ Width(rows) = W
  BY <1>1, <1>3, RowsBack
<1>6. Cut(rows, 0, dk) = Columns("q", 1, n * one, dk)
  <2> DEFINE k == 0
  <2>1. k \in Nat /\ dk = k + dk /\ dk <= W /\ RowsHave(rows, n, W, k, "q", one, dk, dk)
    BY <1>1, <1>3
  <2> HIDE DEF k
  <2>2. CutIs(Columns("q", 1, n * one, dk), rows, k, dk)
    BY <1>1, <1>4, <2>1, CutColumns
  <2> QED BY <2>2 DEF k, CutIs
<1>7. Cut(rows, dk, 2 * dk) = Columns("k", 1, n * one, dk)
  <2> DEFINE to == 2 * dk
  <2>1. to \in Nat /\ to = dk + dk /\ to <= W
    BY <1>1
  <2> HIDE DEF to
  <2>2. CutIs(Columns("k", 1, n * one, dk), rows, dk, to)
    BY <1>1, <1>3, <1>4, <2>1, CutColumns
  <2> QED BY <2>2 DEF to, CutIs
<1>8. Cut(rows, 2 * dk, 2 * dk + vw) = Columns("v", 1, n * f, dv)
  <2> DEFINE k  == 2 * dk
             to == 2 * dk + vw
  <2>1. k \in Nat /\ to \in Nat /\ to = k + vw /\ to <= W /\ k = dk + dk
    BY <1>1
  <2> HIDE DEF k, to
  <2>2. RowsHave(rows, n, W, k, "v", f, dv, vw)
    BY <1>3, <2>1
  <2>3. CutIs(Columns("v", 1, n * f, dv), rows, k, to)
    BY <1>1, <1>4, <2>1, <2>2, CutColumns
  <2> QED BY <2>3 DEF k, to, CutIs
<1>9. Cut(rows, 2 * dk + vw, W) = Columns("z", 1, n * f, dv)
  <2> DEFINE k  == 2 * dk + vw
  <2>1. k \in Nat /\ W = k + vw /\ W <= W /\ k = dk + dk + vw
    BY <1>1
  <2> HIDE DEF k
  <2>2. RowsHave(rows, n, W, k, "z", f, dv, vw)
    BY <1>3, <2>1
  <2>3. CutIs(Columns("z", 1, n * f, dv), rows, k, W)
    BY <1>1, <1>4, <2>1, <2>2, CutColumns
  <2> QED BY <2>3 DEF k, CutIs
<1>10. PiecesQKVZ(rows, n, nv, f, dk, dv)
  BY <1>1, <1>5, <1>6, <1>7, <1>8, <1>9 DEF PiecesQKVZ
<1> QED BY <1>10 DEF rows

\* Of two parts.
PiecesOfTwo(rows, one, two, n, m, dim, w) ==
    /\ Cut(rows, 0, w) = Columns(one, 1, m, dim)
    /\ Cut(rows, w, Width(rows)) = Columns(two, 1, m, dim)
    /\ Rows(FlattenSeq(rows), n) = rows /\ rows # << >>
    /\ Width(rows) = w + w

LEMMA TwoPieces ==
    ASSUME NEW n \in Nat \ {0}, NEW f \in Nat \ {0}, NEW dim \in Nat \ {0}, NEW w \in Nat, w = f * dim,
           NEW one \in ColumnParts, NEW two \in ColumnParts, NEW m \in Nat, m = n * f
    PROVE  PiecesOfTwo(RowsOfTwo(one, two, n, f, dim), one, two, n, m, dim, w)
<1> DEFINE rows == RowsOfTwo(one, two, n, f, dim)
           W    == w + w
           k    == 0
<1>1. W \in Nat /\ W = w + w /\ k \in Nat /\ w = k + w /\ w <= W /\ W <= W
  OBVIOUS
<1>2. TwoHave(rows, one, two, n, f, dim, w)
  BY RowsOfTwoParts
<1>3. Blocks(rows, n, W, Names) /\ RowsHave(rows, n, W, k, one, f, dim, w) /\ RowsHave(rows, n, W, w, two, f, dim, w)
  BY <1>2 DEF TwoHave
<1> HIDE DEF rows, W, k
<1>4. Rows(FlattenSeq(rows), n) = rows /\ rows # << >> /\ Width(rows) = W
  BY <1>1, <1>3, RowsBack
<1>5. CutIs(Columns(one, 1, n * f, dim), rows, k, w)
  BY <1>1, <1>3, CutColumns
<1>6. CutIs(Columns(two, 1, n * f, dim), rows, w, W)
  BY <1>1, <1>3, CutColumns
<1>7. PiecesOfTwo(rows, one, two, n, m, dim, w)
  BY <1>1, <1>4, <1>5, <1>6 DEF PiecesOfTwo, CutIs, k
<1> QED BY <1>7 DEF rows

\* The split after the convolution undoes the concatenation before it.
Unjoined(m, u, v, x, a) ==
    SubSeq(m, 1, a) = u /\ SubSeq(m, a + 1, 2 * a) = v /\ SubSeq(m, 2 * a + 1, Len(m)) = x

LEMMA SplitJoined ==
    ASSUME NEW a \in Nat, NEW c \in Nat, NEW u, NEW v, NEW x,
           Array(u, a, Names), Array(v, a, Names), Array(x, c, Names)
    PROVE  Unjoined((u \o v) \o x, u, v, x, a)
<1> DEFINE m == (u \o v) \o x
           l == a + a + c
           b == 2 * a
           o == 0
<1>1. Parts3(m, u, a, v, a, x, c, Names)
  BY JoinThree
<1>2. l \in Nat /\ b \in Nat /\ b = a + a /\ l = b + c /\ a = o + a /\ a <= l /\ b <= l /\ l <= l /\ o \in Nat
  OBVIOUS
<1>3. Array(m, l, Names) /\ Holds(m, o, u, a) /\ Holds(m, a, v, a) /\ Holds(m, b, x, c)
  BY <1>1, <1>2 DEF Parts3
<1> HIDE DEF m, l, b, o
<1>4. Slices(u, m, o, a) /\ Slices(v, m, a, b) /\ Slices(x, m, b, l)
  BY <1>2, <1>3, SliceHas
<1>5. Len(m) = l
  BY <1>2, <1>3 DEF Array
<1>6. SubSeq(m, 1, a) = u
  BY <1>4 DEF Slices, o
<1>7. Unjoined(m, u, v, x, a)
  BY <1>4, <1>5, <1>6 DEF Slices, Unjoined, b
<1> QED BY <1>7 DEF m
\* Value heads in whole groups, or not.
LEMMA WholeGroups ==
    ASSUME NEW nk \in Nat \ {0}, NEW nv \in Nat \ {0}
    PROVE  LET f == nv \div nk
           IN  /\ f \in Nat
               /\ nv % nk = 0 => f # 0 /\ nv = nk * f
               /\ nv % nk # 0 => nk * f < nv
<1> DEFINE f == nv \div nk
           d == nv % nk
<1>1. f \in Int /\ d \in Int /\ f * nk <= nv /\ nv < f * nk + nk /\ d = nv - f * nk
  BY Z3
<1> HIDE DEF f, d
<1>2. nk * f = f * nk /\ f * nk \in Int
  BY <1>1
<1>3. f >= 0
  <2>1. ASSUME f + 1 <= 0 PROVE FALSE
    <3>1. (f + 1) * nk <= 0 * nk
      BY <1>1, <2>1
    <3>2. (f + 1) * nk = f * nk + nk
      BY <1>1
    <3> QED BY <1>1, <3>1, <3>2
  <2> QED BY <1>1, <2>1
<1>4. d = 0 => f # 0 /\ nv = nk * f
  <2>1. f = 0 => f * nk = 0
    OBVIOUS
  <2> QED BY <1>1, <1>2, <2>1
<1>5. d # 0 => nk * f < nv
  BY <1>1, <1>2
<1> QED BY <1>1, <1>3, <1>4, <1>5 DEF f, d

\* A geometry that the constructors accept.
ArgsTyped ==
    /\ args.num_k_heads \in Nat \ {0} /\ args.num_v_heads \in Nat \ {0}
    /\ args.head_k_dim \in Nat \ {0} /\ args.head_v_dim \in Nat \ {0}

\* The heads that belong together.
Together(nv, f, dk, dv) ==
    [h \in 1..nv |-> [q |-> Columns("q", BlockOf(h, f), BlockOf(h, f), dk),
                      k |-> Columns("k", BlockOf(h, f), BlockOf(h, f), dk),
                      v |-> Columns("v", h, h, dv), z |-> Columns("z", h, h, dv),
                      b |-> Columns("b", h, h, 1), a |-> Columns("a", h, h, 1)]]

LEMMA SplitInGroups ==
    ASSUME ArgsTyped, args.num_v_heads % args.num_k_heads = 0
    PROVE  /\ SplitLinear = Together(args.num_v_heads, args.num_v_heads \div args.num_k_heads,
                                     args.head_k_dim, args.head_v_dim)
           /\ SplitLinear # << >>
<1> DEFINE nk == args.num_k_heads
           nv == args.num_v_heads
           dk == args.head_k_dim
           dv == args.head_v_dim
           f  == nv \div nk
           key_dim == nk * dk
           qkvz == Rows(MixedQKVZ, nk)
           ba   == Rows(MixedBA, nk)
           z    == Heads(Cut(qkvz, 2 * dk + f * dv, Width(qkvz)), nv, dv)
           b_heads == Heads(Cut(ba, 0, f), nv, 1)
           a_heads == Heads(Cut(ba, f, Width(ba)), nv, 1)
           mixed_qkv == Cut(qkvz, 0, dk) \o Cut(qkvz, dk, 2 * dk) \o Cut(qkvz, 2 * dk, 2 * dk + f * dv)
           q == RepeatHeads(Heads(SubSeq(mixed_qkv, 1, key_dim), nk, dk), f)
           k == RepeatHeads(Heads(SubSeq(mixed_qkv, key_dim + 1, 2 * key_dim), nk, dk), f)
           v == Heads(SubSeq(mixed_qkv, 2 * key_dim + 1, Len(mixed_qkv)), nv, dv)
<1>1. SplitLinear =
        IF << >> \in {qkvz, ba, z, b_heads, a_heads, v} THEN << >>
        ELSE [h \in 1..nv |-> [q |-> q[h], k |-> k[h], v |-> v[h], z |-> z[h], b |-> b_heads[h], a |-> a_heads[h]]]
  BY Zenon DEF SplitLinear
<1>2. nk \in Nat \ {0} /\ nv \in Nat \ {0} /\ dk \in Nat \ {0} /\ dv \in Nat \ {0} /\ nv % nk = 0
  BY DEF ArgsTyped
<1>3. f \in Nat \ {0} /\ nv = nk * f
  <2> HIDE DEF nk, nv
  <2> QED BY <1>2, WholeGroups
<1>4. MixedQKVZ = FlattenSeq(RowsQKVZ(nk, f, dk, dv))
  BY <1>2 DEF MixedQKVZ, RowsQKVZ
<1>5. MixedBA = FlattenSeq(RowsOfTwo("b", "a", nk, f, 1))
  BY <1>2 DEF MixedBA, RowsOfTwo
<1> HIDE DEF nk, nv, dk, dv, f
<1>6. PiecesQKVZ(RowsQKVZ(nk, f, dk, dv), nk, nv, f, dk, dv)
  BY <1>2, <1>3, QKVZPieces
<1>7. qkvz = RowsQKVZ(nk, f, dk, dv) /\ qkvz # << >>
  BY <1>4, <1>6, Zenon DEF PiecesQKVZ
<1>8. PiecesOfTwo(RowsOfTwo("b", "a", nk, f, 1), "b", "a", nk, nv, 1, f)
  <2> DEFINE dim == 1
  <2>1. dim \in Nat \ {0} /\ f = f * dim /\ nv \in Nat
    BY <1>2, <1>3
  <2> HIDE DEF dim
  <2>2. \A x, y \in ColumnParts : PiecesOfTwo(RowsOfTwo(x, y, nk, f, dim), x, y, nk, nv, dim, f)
    BY <1>2, <1>3, <2>1, TwoPieces
  <2> QED BY <2>2 DEF ColumnParts, dim
<1>9. ba = RowsOfTwo("b", "a", nk, f, 1) /\ ba # << >>
  BY <1>5, <1>8, Zenon DEF PiecesOfTwo
<1>10. /\ Cut(qkvz, 0, dk) = Columns("q", 1, nk, dk) /\ Cut(qkvz, dk, 2 * dk) = Columns("k", 1, nk, dk)
       /\ Cut(qkvz, 2 * dk, 2 * dk + f * dv) = Columns("v", 1, nv, dv)
       /\ Cut(qkvz, 2 * dk + f * dv, Width(qkvz)) = Columns("z", 1, nv, dv)
  BY <1>6, <1>7, Zenon DEF PiecesQKVZ
<1>11. Cut(ba, 0, f) = Columns("b", 1, nv, 1) /\ Cut(ba, f, Width(ba)) = Columns("a", 1, nv, 1)
  BY <1>8, <1>9, Zenon DEF PiecesOfTwo
<1>12. /\ \A part \in ColumnParts : HeadsAre(part, nk, dk) /\ HeadsAre(part, nv, dv)
       /\ \A part \in ColumnParts : HeadsAre(part, nv, 1)
  <2>1. \A part \in ColumnParts : HeadsAre(part, nk, dk) /\ HeadsAre(part, nv, dv)
    BY <1>2, HeadsAreEach
  <2> DEFINE dim == 1
  <2>2. dim \in Nat \ {0}
    OBVIOUS
  <2> HIDE DEF dim
  <2>3. \A part \in ColumnParts : HeadsAre(part, nv, dim)
    BY <1>2, <2>2, HeadsAreEach
  <2> QED BY <2>1, <2>3 DEF dim
<1>13. z = Each("z", nv, dv) /\ z # << >>
  BY <1>10, <1>12 DEF HeadsAre, ColumnParts
<1>14. b_heads = Each("b", nv, 1) /\ b_heads # << >> /\ a_heads = Each("a", nv, 1) /\ a_heads # << >>
  BY <1>11, <1>12 DEF HeadsAre, ColumnParts
<1>15. Unjoined(mixed_qkv, Columns("q", 1, nk, dk), Columns("k", 1, nk, dk), Columns("v", 1, nv, dv), key_dim)
  <2> DEFINE c == nv * dv
  <2>1. key_dim \in Nat /\ c \in Nat
    BY <1>2
  <2>2. \A part \in ColumnParts : Array(Columns(part, 1, nk, dk), key_dim, Names) /\ Array(Columns(part, 1, nv, dv), c, Names)
    BY <1>2, ColumnsArray
  <2> DEFINE cq == Columns("q", 1, nk, dk)
             ck == Columns("k", 1, nk, dk)
             cv == Columns("v", 1, nv, dv)
  <2>3. Array(cq, key_dim, Names) /\ Array(ck, key_dim, Names) /\ Array(cv, c, Names)
    BY <2>2 DEF ColumnParts
  <2>4. mixed_qkv = (cq \o ck) \o cv
    BY <1>10, Zenon
  <2> HIDE DEF key_dim, c, cq, ck, cv, mixed_qkv
  <2>5. Unjoined(mixed_qkv, cq, ck, cv, key_dim)
    BY <2>1, <2>3, <2>4, SplitJoined
  <2> QED BY <2>5 DEF cq, ck, cv
<1> HIDE DEF mixed_qkv, key_dim
<1>16. q = Repeated("q", nv, f, dk) /\ k = Repeated("k", nv, f, dk)
  <2>1. \A part : RepeatHeads(Each(part, nk, dk), f) = Repeated(part, nv, f, dk)
    BY <1>2, <1>3, RepeatedHeads
  <2>2. q = RepeatHeads(Each("q", nk, dk), f) /\ k = RepeatHeads(Each("k", nk, dk), f)
    BY <1>12, <1>15 DEF HeadsAre, ColumnParts, Unjoined
  <2> HIDE DEF q, k
  <2> QED BY <2>1, <2>2, Zenon
<1>17. v = Each("v", nv, dv) /\ v # << >>
  BY <1>12, <1>15 DEF HeadsAre, ColumnParts, Unjoined
<1> HIDE DEF qkvz, ba, z, b_heads, a_heads, q, k, v
<1>18. SplitLinear = [h \in 1..nv |-> [q |-> q[h], k |-> k[h], v |-> v[h], z |-> z[h], b |-> b_heads[h], a |-> a_heads[h]]]
  <2>1. << >> \notin {qkvz, ba, z, b_heads, a_heads, v}
    BY <1>7, <1>9, <1>13, <1>14, <1>17
  <2> QED BY <1>1, <2>1, Zenon
<1>19. \A h \in 1..nv :
        /\ q[h] = Columns("q", BlockOf(h, f), BlockOf(h, f), dk) /\ k[h] = Columns("k", BlockOf(h, f), BlockOf(h, f), dk)
        /\ v[h] = Columns("v", h, h, dv) /\ z[h] = Columns("z", h, h, dv)
        /\ b_heads[h] = Columns("b", h, h, 1) /\ a_heads[h] = Columns("a", h, h, 1)
  BY <1>13, <1>14, <1>16, <1>17 DEF Each, Repeated
<1>20. SplitLinear = Together(nv, f, dk, dv)
  BY <1>18, <1>19, Zenon DEF Together
<1>21. SplitLinear # << >>
  <2> DEFINE s == SplitLinear
  <2>1. DOMAIN s = 1..nv /\ 1 \in 1..nv
    BY <1>2, <1>18
  <2>2. DOMAIN << >> = {}
    OBVIOUS
  <2> HIDE DEF s
  <2>3. s # << >>
    BY <2>1, <2>2, Zenon
  <2> QED BY <2>3 DEF s
<1> QED BY <1>20, <1>21 DEF nk, nv, dk, dv, f
\* Without whole groups a reshape fails.
LEMMA SplitWithoutGroups ==
    ASSUME ArgsTyped, args.num_v_heads % args.num_k_heads # 0
    PROVE  SplitLinear = << >>
<1> DEFINE nk == args.num_k_heads
           nv == args.num_v_heads
           dk == args.head_k_dim
           dv == args.head_v_dim
           f  == nv \div nk
           key_dim == nk * dk
           qkvz == Rows(MixedQKVZ, nk)
           ba   == Rows(MixedBA, nk)
           z    == Heads(Cut(qkvz, 2 * dk + f * dv, Width(qkvz)), nv, dv)
           b_heads == Heads(Cut(ba, 0, f), nv, 1)
           a_heads == Heads(Cut(ba, f, Width(ba)), nv, 1)
           mixed_qkv == Cut(qkvz, 0, dk) \o Cut(qkvz, dk, 2 * dk) \o Cut(qkvz, 2 * dk, 2 * dk + f * dv)
           q == RepeatHeads(Heads(SubSeq(mixed_qkv, 1, key_dim), nk, dk), f)
           k == RepeatHeads(Heads(SubSeq(mixed_qkv, key_dim + 1, 2 * key_dim), nk, dk), f)
           v == Heads(SubSeq(mixed_qkv, 2 * key_dim + 1, Len(mixed_qkv)), nv, dv)
<1>1. SplitLinear =
        IF << >> \in {qkvz, ba, z, b_heads, a_heads, v} THEN << >>
        ELSE [h \in 1..nv |-> [q |-> q[h], k |-> k[h], v |-> v[h], z |-> z[h], b |-> b_heads[h], a |-> a_heads[h]]]
  BY Zenon DEF SplitLinear
<1>2. nk \in Nat \ {0} /\ nv \in Nat \ {0} /\ nv % nk # 0
  BY DEF ArgsTyped
<1>3. f \in Nat /\ nk * f < nv
  <2> HIDE DEF nk, nv
  <2> QED BY <1>2, WholeGroups
<1> DEFINE l == 2 * nv
           s == Columns("none", 1, l, 1)
           w == Len(s) \div nk
<1>4. ba = Rows(s, nk)
  BY <1>2 DEF MixedBA
<1> HIDE DEF nk, nv, dk, dv, f
<1>5. l \in Nat /\ l = 2 * nv
  BY <1>2
<1>6. Array(s, l, Names) /\ Len(s) = l
  <2> DEFINE dim == 1
  <2>1. dim \in Nat \ {0} /\ l * dim = l
    BY <1>5
  <2> HIDE DEF dim, l
  <2>2. \A part \in ColumnParts : Array(Columns(part, 1, l, dim), l * dim, Names)
    BY <1>5, <2>1, ColumnsArray
  <2>3. Array(Columns("none", 1, l, 1), l, Names)
    BY <2>1, <2>2 DEF ColumnParts, dim
  <2>4. Len(Columns("none", 1, l, 1)) = l
    BY <1>5, <2>3 DEF Array
  <2> QED BY <2>3, <2>4 DEF l
<1> HIDE DEF l, s
<1>7. CASE Len(s) % nk # 0
  <2>1. ba = << >>
    BY <1>4, <1>7 DEF Rows
  <2> HIDE DEF qkvz, ba, z, b_heads, a_heads, q, k, v
  <2> QED BY <1>1, <2>1
<1>8. CASE Len(s) % nk = 0
  <2>1. ba = [r \in 1..nk |-> SubSeq(s, (r - 1) * w + 1, r * w)]
    BY <1>4, <1>8 DEF Rows
  <2>2. w \in Nat /\ l = nk * w
    <3>1. l \in Nat \ {0}
      BY <1>2, <1>5
    <3>2. l \div nk \in Nat /\ (l % nk = 0 => l = nk * (l \div nk))
      BY <1>2, <3>1, WholeGroups
    <3> QED BY <1>6, <1>8, <3>2
  <2> HIDE DEF w
  <2>3. f <= w
    <3>1. nk * f <= nk * w
      BY <1>2, <1>3, <1>5, <2>2
    <3>2. ASSUME w + 1 <= f PROVE FALSE
      <4>1. nk * (w + 1) <= nk * f
        BY <1>2, <1>3, <2>2, <3>2
      <4>2. nk * (w + 1) = nk * w + nk
        BY <1>2, <2>2
      <4>3. nk * w \in Nat /\ nk * f \in Nat
        BY <1>2, <1>3, <2>2
      <4> QED BY <1>2, <3>1, <4>1, <4>2, <4>3
    <3> QED BY <1>3, <2>2, <3>2
  <2>4. ASSUME NEW r \in 1..nk PROVE Array(SubSeq(ba[r], 0 + 1, f), f, Names)
    <3> DEFINE a == (r - 1) * w
               b == r * w
    <3>1. a \in Nat /\ b \in Nat /\ b = a + w /\ b <= l
      <4>1. r * w <= nk * w
        BY <1>2, <2>2
      <4> QED BY <1>2, <2>2, <4>1
    <3>2. ba[r] = SubSeq(s, a + 1, b)
      BY <2>1
    <3> HIDE DEF a, b, ba
    <3>3. SubSeq(s, a + 1, b) = [j \in 1..w |-> s[a + j]]
      BY <1>5, <1>6, <2>2, <3>1, SliceIs DEF Array
    <3>4. ba[r] \in [1..w -> Names]
      <4>1. \A j \in 1..w : a + j \in 1..l
        BY <1>5, <2>2, <3>1
      <4>2. \A j \in 1..w : s[a + j] \in Names
        BY <1>6, <4>1 DEF Array
      <4> QED BY <3>2, <3>3, <4>2
    <3> DEFINE u == ba[r]
               o == 0
    <3>5. u \in [1..w -> Names] /\ o \in Nat /\ f = o + f
      BY <1>3, <3>4
    <3> HIDE DEF u, o
    <3>6. SubSeq(u, o + 1, f) = [j \in 1..f |-> u[o + j]]
      BY <1>3, <2>2, <2>3, <3>5, SliceIs
    <3>7. \A j \in 1..f : u[o + j] \in Names
      BY <1>3, <2>2, <2>3, <3>5 DEF o
    <3>8. Array(SubSeq(u, o + 1, f), f, Names)
      BY <3>6, <3>7 DEF Array
    <3> QED BY <3>8 DEF u, o
  <2> DEFINE B == [r \in 1..nk |-> SubSeq(ba[r], 0 + 1, f)]
  <2>5. DOMAIN ba = 1..nk
    BY <2>1
  <2> HIDE DEF ba
  <2>6. Cut(ba, 0, f) = FlattenSeq(B)
    BY <2>5, Zenon DEF Cut
  <2>7. Blocks(B, nk, f, Names)
    BY <2>4 DEF Blocks, Array
  <2> HIDE DEF B
  <2>8. Len(FlattenSeq(B)) = nk * f
    BY <1>2, <1>3, <2>7, RowsBack
  <2>9. nk * f # nv * 1
    BY <1>2, <1>3
  <2>10. b_heads = << >>
    BY <2>6, <2>8, <2>9 DEF Heads
  <2> HIDE DEF qkvz, z, b_heads, a_heads, q, k, v
  <2> QED BY <1>1, <2>10
<1> QED BY <1>7, <1>8

\* In full attention each output column meets its own gate.
LEMMA GatesMeet ==
    ASSUME ArgsTyped
    PROVE  \A c \in Range(GatedOutput) : c[1][1] = "query" /\ c[2] = <<"gate", c[1][2], c[1][3]>>
<1> DEFINE n == args.num_k_heads
           dim == args.head_k_dim
           B == [h \in 1..n |-> Columns("query", h, h, dim) \o Columns("gate", h, h, dim)]
           q_heads == Rows(FlattenSeq(B), n)
           queries == Cut(q_heads, 0, dim)
           gate    == Cut(q_heads, dim, 2 * dim)
           l       == n * dim
<1>1. n \in Nat \ {0} /\ dim \in Nat \ {0}
  BY DEF ArgsTyped
<1>2. GatedOutput = [i \in 1..l |-> <<queries[i], gate[i]>>]
  BY Zenon DEF GatedOutput
<1> HIDE DEF n, dim
<1>3. B = RowsOfTwo("query", "gate", n, 1, dim)
  <2>1. \A h \in 1..n : (h - 1) * 1 + 1 = h /\ h * 1 = h
    BY <1>1
  <2>2. \A h \in 1..n : Columns("query", h, h, dim) \o Columns("gate", h, h, dim)
            = Columns("query", (h - 1) * 1 + 1, h * 1, dim) \o Columns("gate", (h - 1) * 1 + 1, h * 1, dim)
    BY <2>1
  <2> QED BY <2>2 DEF RowsOfTwo
<1>4. PiecesOfTwo(RowsOfTwo("query", "gate", n, 1, dim), "query", "gate", n, n, dim, dim)
  <2> DEFINE f == 1
  <2>1. f \in Nat \ {0} /\ dim = f * dim /\ n = n * f /\ dim \in Nat /\ n \in Nat
    BY <1>1
  <2> HIDE DEF f
  <2>2. \A x, y \in ColumnParts : PiecesOfTwo(RowsOfTwo(x, y, n, f, dim), x, y, n, n, dim, dim)
    BY <1>1, <2>1, TwoPieces
  <2> QED BY <2>2 DEF ColumnParts, f
<1>5. PiecesOfTwo(B, "query", "gate", n, n, dim, dim)
  BY <1>3, <1>4, Zenon
<1> HIDE DEF B
<1>6. q_heads = B /\ Width(B) = 2 * dim
  BY <1>1, <1>5 DEF PiecesOfTwo
<1>7. queries = Columns("query", 1, n, dim) /\ gate = Columns("gate", 1, n, dim)
  BY <1>5, <1>6, Zenon DEF PiecesOfTwo
<1> HIDE DEF queries, gate
<1>8. \A part \in ColumnParts : AreColumns(Columns(part, 1, n, dim), part, 1 - 1, dim, l)
  <2>1. l \in Nat /\ l = n * dim /\ n - 1 + 1 = n /\ n \in Nat
    BY <1>1
  <2> HIDE DEF l
  <2> QED BY <1>1, <2>1, ColumnsAre
<1> HIDE DEF l
<1>9. \A i \in 1..l : /\ queries[i] = <<"query", (1 - 1) + BlockOf(i, dim), PlaceIn(i, dim)>>
                     /\ gate[i] = <<"gate", (1 - 1) + BlockOf(i, dim), PlaceIn(i, dim)>>
  BY <1>7, <1>8 DEF AreColumns, ColumnParts
<1>10. ASSUME NEW c \in Range(GatedOutput)
       PROVE  c[1][1] = "query" /\ c[2] = <<"gate", c[1][2], c[1][3]>>
  <2>1. PICK i \in 1..l : c = <<queries[i], gate[i]>>
    BY <1>2 DEF Range
  <2> DEFINE x == (1 - 1) + BlockOf(i, dim)
             y == PlaceIn(i, dim)
  <2>2. c[1] = <<"query", x, y>> /\ c[2] = <<"gate", x, y>>
    BY <1>9, <2>1
  <2> HIDE DEF x, y
  <2> QED BY <2>2
<1> QED BY <1>10
\* A geometry that got past the constructors.
GeometryInv ==
    /\ args \in [num_k_heads : HeadCounts, num_v_heads : HeadCounts,
                 head_k_dim : HeadDims, head_v_dim : HeadDims,
                 num_experts : ExpertCounts, top_k : ExpertsPerToken, norm_topk_prob : BOOLEAN]
    /\ at \in {"built", "failed", "split", "routed", "mixed"} => Accepted

LEMMA AcceptedIsTyped ==
    ASSUME GeometryInv, at = "built"
    PROVE  ArgsTyped
<1>1. /\ args.num_k_heads \in HeadCounts /\ args.num_v_heads \in HeadCounts
      /\ args.head_k_dim \in HeadDims /\ args.head_v_dim \in HeadDims
  BY DEF GeometryInv
<1>2. args.num_k_heads > 0 /\ args.num_v_heads > 0
  BY DEF GeometryInv, Accepted
<1>3. HeadCounts \subseteq Nat /\ HeadDims \subseteq Nat \ {0}
  BY HybridLayerAssumption
<1>4. args.num_k_heads \in Nat /\ args.num_v_heads \in Nat
      /\ args.head_k_dim \in Nat \ {0} /\ args.head_v_dim \in Nat \ {0}
  BY <1>1, <1>3, Zenon
<1>5. \A x \in Nat : x > 0 => x \in Nat \ {0}
  OBVIOUS
<1> QED BY <1>2, <1>4, <1>5, Zenon DEF ArgsTyped

\* What the heads are to be.
Met(geometry, heads, columns) ==
    /\ geometry.num_v_heads % geometry.num_k_heads = 0
    /\ heads = [h \in 1..geometry.num_v_heads |->
            LET key == ((h - 1) \div (geometry.num_v_heads \div geometry.num_k_heads)) + 1
            IN  [q |-> Columns("q", key, key, geometry.head_k_dim),
                 k |-> Columns("k", key, key, geometry.head_k_dim),
                 v |-> Columns("v", h, h, geometry.head_v_dim), z |-> Columns("z", h, h, geometry.head_v_dim),
                 b |-> Columns("b", h, h, 1), a |-> Columns("a", h, h, 1)]]
    /\ \A c \in Range(columns) : c[1][1] = "query" /\ c[2] = <<"gate", c[1][2], c[1][3]>>

LEMMA MeetingIsMet ==
    /\ HeadsMeetTheirOwn <=>
            /\ at \in {"split", "routed", "mixed"} => Met(args, linear, gated)
            /\ at = "failed" => args.num_v_heads % args.num_k_heads # 0
    /\ HeadsMeetTheirOwn' <=>
            /\ at' \in {"split", "routed", "mixed"} => Met(args', linear', gated')
            /\ at' = "failed" => args'.num_v_heads % args'.num_k_heads # 0
BY Zenon DEF HeadsMeetTheirOwn, Met

\* What has met stays so.
LEMMA StaysMet ==
    ASSUME HeadsMeetTheirOwn, UNCHANGED <<args, linear, gated>>,
           at' \in {"split", "routed", "mixed"} => at \in {"split", "routed", "mixed"},
           at' = "failed" => at = "failed"
    PROVE  HeadsMeetTheirOwn'
<1>1. args' = args /\ linear' = linear /\ gated' = gated
  OBVIOUS
<1> QED BY <1>1, MeetingIsMet, Zenon

\* One pass of the attention.
LEMMA HeadsSplit ==
    ASSUME GeometryInv, SplitHeads
    PROVE  HeadsMeetTheirOwn'
<1>1. ArgsTyped /\ args' = args /\ linear' = SplitLinear /\ gated' = GatedOutput
      /\ at' = IF linear' = << >> THEN "failed" ELSE "split"
  <2>1. at = "built"
    BY DEF SplitHeads
  <2>2. ArgsTyped
    BY <2>1, AcceptedIsTyped
  <2>3. args' = args /\ linear' = SplitLinear /\ gated' = GatedOutput
        /\ at' = IF linear' = << >> THEN "failed" ELSE "split"
    BY Zenon DEF SplitHeads
  <2> QED BY <2>2, <2>3
<1>2. CASE args.num_v_heads % args.num_k_heads = 0
  <2>1. /\ SplitLinear = Together(args.num_v_heads, args.num_v_heads \div args.num_k_heads,
                                  args.head_k_dim, args.head_v_dim)
        /\ SplitLinear # << >>
    BY <1>1, <1>2, SplitInGroups
  <2>2. at' = "split"
    BY <1>1, <2>1, Zenon
  <2>3. linear' = Together(args.num_v_heads, args.num_v_heads \div args.num_k_heads,
                           args.head_k_dim, args.head_v_dim)
    BY <1>1, <2>1, Zenon
  <2>4. \A c \in Range(gated') : c[1][1] = "query" /\ c[2] = <<"gate", c[1][2], c[1][3]>>
    BY <1>1, GatesMeet, Zenon
  <2> QED BY <1>1, <1>2, <2>2, <2>3, <2>4 DEF HeadsMeetTheirOwn, Together, BlockOf
<1>3. CASE args.num_v_heads % args.num_k_heads # 0
  <2>1. SplitLinear = << >>
    BY <1>1, <1>3, SplitWithoutGroups
  <2>2. at' = "failed"
    BY <1>1, <2>1, Zenon
  <2> QED BY <1>1, <1>3, <2>2 DEF HeadsMeetTheirOwn
<1> QED BY <1>2, <1>3

\* The columns of the projections are mixed by group, cut apart, joined for the
\* convolution, split again, and reshaped into heads, and key heads are repeated:
\* yet every value head meets its own columns and those of its key head, in order,
\* and every output of full attention its own gate, for any number of heads and any
\* dimensions; without a whole number of value heads per key head, the pass fails.
THEOREM HeadsMeet == HybridSpec => []HeadsMeetTheirOwn
<1>1. HybridInit => GeometryInv /\ HeadsMeetTheirOwn
  BY DEF HybridInit, GeometryInv, HeadsMeetTheirOwn
<1>2. GeometryInv /\ HeadsMeetTheirOwn /\ [HybridNext]_hybridVars => GeometryInv' /\ HeadsMeetTheirOwn'
  <2> SUFFICES ASSUME GeometryInv, HeadsMeetTheirOwn, [HybridNext]_hybridVars
      PROVE  GeometryInv' /\ HeadsMeetTheirOwn'
    OBVIOUS
  <2>1. GeometryInv'
    BY DEF GeometryInv, Accepted, HybridNext, hybridVars, Build, SplitHeads, Route, AddExpert
  <2>2. CASE Build
    BY <2>1, <2>2, StaysMet DEF Build
  <2>3. CASE SplitHeads
    BY <2>1, <2>3, HeadsSplit
  <2>4. CASE Route
    BY <2>1, <2>4, StaysMet DEF Route
  <2>5. CASE AddExpert
    BY <2>1, <2>5, StaysMet DEF AddExpert
  <2>6. CASE UNCHANGED hybridVars
    BY <2>1, <2>6, StaysMet DEF hybridVars
  <2> QED BY <2>1, <2>2, <2>3, <2>4, <2>5, <2>6 DEF HybridNext
<1> QED BY <1>1, <1>2, PTL DEF HybridSpec

-----------------------------------------------------------------------------
(***************************************************************************)
(* The mixture of experts                                                  *)
(***************************************************************************)

\* Only a layer that the constructors accept gets anywhere.
ArgsInv ==
    /\ args \in [num_k_heads : HeadCounts, num_v_heads : HeadCounts,
                 head_k_dim : HeadDims, head_v_dim : HeadDims,
                 num_experts : ExpertCounts, top_k : ExpertsPerToken, norm_topk_prob : BOOLEAN]
    /\ at \in {"built", "failed", "split", "routed", "mixed"} => Accepted

\* Each token has scores for the experts and its choice of them.
ChoiceInv ==
    at \in {"routed", "mixed"} =>
        /\ gates \in [1..InputTokens -> [Experts -> GateWeights]]
        /\ \A t \in 1..InputTokens : top_inds[t] \in TopInds(gates[t])

\* What the first n of its experts make of a token.
Outputs(t, n) == [k \in 1..n |-> [expert |-> top_inds[t][k], score |-> Score(t, k)]]

\* After r rounds over the tokens, and c tokens of the next.
Rounds(r, c) ==
    /\ mixture = [t \in 1..InputTokens |-> Outputs(t, IF t <= c THEN r + 1 ELSE r)]
    /\ Added = r * InputTokens + c
    /\ IF at = "mixed" THEN r * InputTokens + c = args.top_k * InputTokens
                       ELSE r * InputTokens + c < args.top_k * InputTokens

MixtureInv ==
    at \in {"routed", "mixed"} =>
        \E r \in Nat : \E c \in 0..(InputTokens - 1) : Rounds(r, c)

HybridInv == ArgsInv /\ ChoiceInv /\ MixtureInv

\* All rounds are over when as many outputs are added as there are.
LEMMA AllRounds ==
    ASSUME NEW m \in Nat \ {0}, NEW r \in Nat, NEW k \in Nat, NEW c \in 0..(m - 1)
    PROVE  /\ r * m + c < k * m => r < k
           /\ r * m + c = k * m => r = k /\ c = 0
<1>1. (k * m + 0) \div m = k /\ (k * m + 0) % m = 0
  <2>1. 0 \in 0..(m - 1)
    OBVIOUS
  <2> QED BY <2>1, QuotientAndRest
<1>2. (r * m + c) \div m = r /\ (r * m + c) % m = c
  BY QuotientAndRest
<1>3. k * m + 0 = k * m /\ r * m \in Nat /\ k * m \in Nat
  OBVIOUS
<1>4. ASSUME r * m + c < k * m PROVE r < k
  <2>1. ASSUME k <= r PROVE FALSE
    <3>1. k * m <= r * m
      BY <2>1
    <3> QED BY <1>3, <1>4, <3>1
  <2> QED BY <2>1
<1>5. ASSUME r * m + c = k * m PROVE r = k /\ c = 0
  BY <1>1, <1>2, <1>3, <1>5
<1> QED BY <1>4, <1>5

\* A token's outputs are as many as said, and grow one by one.
LEMMA OutputsGrow ==
    ASSUME NEW t, NEW n \in Nat
    PROVE  /\ Len(Outputs(t, n)) = n
           /\ Append(Outputs(t, n), [expert |-> top_inds[t][n + 1], score |-> Score(t, n + 1)])
                = Outputs(t, n + 1)
<1> DEFINE O(k) == [expert |-> top_inds[t][k], score |-> Score(t, k)]
<1>1. Outputs(t, n) = [k \in 1..n |-> O(k)] /\ Outputs(t, n + 1) = [k \in 1..(n + 1) |-> O(k)]
  BY DEF Outputs
<1> HIDE DEF O
<1>2. [k \in 1..n |-> O(k)] \in Seq({O(k) : k \in 1..n}) /\ Len([k \in 1..n |-> O(k)]) = n
  OBVIOUS
<1>3. Append([k \in 1..n |-> O(k)], O(n + 1)) = [k \in 1..(n + 1) |-> O(k)]
  BY <1>2
<1> QED BY <1>1, <1>2, <1>3 DEF O

\* Before the first round.
LEMMA NoRounds ==
    ASSUME ArgsInv, Route
    PROVE  MixtureInv'
<1>1. InputTokens \in Nat \ {0} /\ args.top_k \in Nat \ {0} /\ args' = args /\ at' = "routed"
  BY HybridLayerAssumption DEF ArgsInv, Accepted, Route
<1>2. mixture' = [t \in 1..InputTokens |-> << >>]
  BY DEF Route
<1>3. Added' = 0
  <2> DEFINE f == [t \in 1..InputTokens |-> Len(mixture'[t])]
  <2>1. IsFiniteSet(1..InputTokens)
    BY <1>1, FS_Interval
  <2>2. \A t \in 1..InputTokens : f[t] = 0
    BY <1>2
  <2>3. Added' = SumFunctionOnSet(f, 1..InputTokens)
    BY DEF Added, SumFunction
  <2> HIDE DEF f
  <2> QED BY <2>1, <2>2, <2>3, SumOfZeros
<1>4. mixture' = [t \in 1..InputTokens |-> Outputs(t, IF t <= 0 THEN 0 + 1 ELSE 0)']
  <2>1. \A t \in 1..InputTokens : Outputs(t, IF t <= 0 THEN 0 + 1 ELSE 0)' = << >>
    BY DEF Outputs
  <2> QED BY <1>2, <2>1
<1>5. 0 * InputTokens + 0 = 0 /\ 0 < args.top_k * InputTokens /\ 0 \in 0..(InputTokens - 1)
  <2>1. \A m, n \in Nat \ {0} : m * n > 0
    OBVIOUS
  <2> QED BY <1>1, <2>1
<1>6. Rounds(0, 0)'
  BY <1>1, <1>3, <1>4, <1>5 DEF Rounds
<1> QED BY <1>5, <1>6 DEF MixtureInv

\* One output more.
LEMMA OneOutput ==
    ASSUME ArgsInv, ChoiceInv, MixtureInv, AddExpert
    PROVE  MixtureInv'
<1> DEFINE m == InputTokens
<1>1. m \in Nat \ {0} /\ args.top_k \in Nat /\ args' = args /\ at = "routed"
      /\ UNCHANGED <<gates, top_inds>>
  BY HybridLayerAssumption DEF ArgsInv, AddExpert
<1>2. PICK r \in Nat, c \in 0..(m - 1) : Rounds(r, c)
  BY <1>1 DEF MixtureInv
<1> DEFINE t == c + 1
<1>3. t \in 1..m /\ Added = r * m + c /\ r * m + c \in Nat
      /\ (r * m + c) \div m = r /\ (r * m + c) % m = c
  <2>1. t \in 1..m
    BY <1>1
  <2>2. Added = r * m + c
    BY <1>2 DEF Rounds
  <2>3. r * m + c \in Nat
    BY <1>1
  <2>4. (r * m + c) \div m = r /\ (r * m + c) % m = c
    BY <1>1, QuotientAndRest
  <2> QED BY <2>1, <2>2, <2>3, <2>4
<1>4. /\ mixture' = [mixture EXCEPT ![t] =
                       Append(@, [expert |-> top_inds[t][r + 1], score |-> Score(t, r + 1)])]
      /\ at' = IF r * m + c + 1 = args.top_k * m THEN "mixed" ELSE "routed"
  BY <1>3 DEF AddExpert
<1>5. \A u \in 1..m : mixture[u] = Outputs(u, IF u <= c THEN r + 1 ELSE r)
  BY <1>2 DEF Rounds
<1>6. mixture' = [u \in 1..m |-> Outputs(u, IF u <= t THEN r + 1 ELSE r)]
  <2>1. mixture'[t] = Outputs(t, r + 1)
    <3>1. mixture[t] = Outputs(t, r)
      BY <1>3, <1>5
    <3>2. mixture'[t] = Append(mixture[t], [expert |-> top_inds[t][r + 1], score |-> Score(t, r + 1)])
      BY <1>2, <1>3, <1>4 DEF Rounds
    <3> QED BY <3>1, <3>2, OutputsGrow
  <2>2. ASSUME NEW u \in 1..m, u # t PROVE mixture'[u] = Outputs(u, IF u <= t THEN r + 1 ELSE r)
    <3>1. mixture'[u] = mixture[u]
      BY <1>2, <1>4, <2>2 DEF Rounds
    <3>2. u <= c <=> u <= t
      BY <2>2
    <3> QED BY <1>5, <3>1, <3>2
  <2>3. ASSUME NEW u \in 1..m PROVE mixture'[u] = Outputs(u, IF u <= t THEN r + 1 ELSE r)
    BY <2>1, <2>2
  <2>4. mixture' = [u \in 1..m |-> mixture'[u]]
    BY <1>2, <1>4 DEF Rounds
  <2> QED BY <2>3, <2>4
<1>7. \A u : \A n : Outputs(u, n)' = Outputs(u, n)
  BY <1>1 DEF Outputs, Score, Experts
<1>8. Added' = Added + 1
  <2> DEFINE f == [u \in 1..m |-> Len(mixture[u])]
             g == [u \in 1..m |-> Len(mixture'[u])]
  <2>1. IsFiniteSet(1..m)
    BY <1>1, FS_Interval
  <2>9. \A u \in 1..m : Len(Outputs(u, r)) = r /\ Len(Outputs(u, r + 1)) = r + 1
    <3>1. r + 1 \in Nat
      OBVIOUS
    <3>2. \A u : \A n \in Nat : Len(Outputs(u, n)) = n
      BY OutputsGrow
    <3> QED BY <3>1, <3>2
  <2>2. \A u \in 1..m : f[u] = IF u <= c THEN r + 1 ELSE r
    BY <1>5, <2>9
  <2>3. \A u \in 1..m : g[u] = IF u <= t THEN r + 1 ELSE r
    BY <1>6, <2>9
  <2>4. Added = SumFunctionOnSet(f, 1..m) /\ Added' = SumFunctionOnSet(g, 1..m)
    BY DEF Added, SumFunction
  <2> HIDE DEF f, g
  <2>5. \A u \in 1..m : f[u] \in Int
    BY <2>2
  <2>6. g[t] = f[t] + 1 /\ \A u \in (1..m) \ {t} : g[u] = f[u]
    BY <1>3, <2>2, <2>3
  <2>7. t \in 1..m
    BY <1>3
  <2> HIDE DEF t
  <2>8. SumFunctionOnSet(g, 1..m) = SumFunctionOnSet(f, 1..m) + 1
    BY <2>1, <2>5, <2>6, <2>7, SumOneMore
  <2> QED BY <2>4, <2>8
<1>9. r * m + c < args.top_k * m
  BY <1>1, <1>2 DEF Rounds
<1>10. IF at' = "mixed" THEN r * m + c + 1 = args.top_k * m ELSE r * m + c + 1 < args.top_k * m
  <2>1. args.top_k * m \in Nat
    BY <1>1
  <2> QED BY <1>3, <1>4, <1>9, <2>1
<1>11. CASE t < m
  <2>1. r * m + t = r * m + c + 1 /\ t \in 0..(m - 1)
    BY <1>1, <1>3, <1>11
  <2>2. mixture' = [u \in 1..m |-> Outputs(u, IF u <= t THEN r + 1 ELSE r)']
    BY <1>6, <1>7
  <2> HIDE DEF t
  <2>3. Rounds(r, t)'
    BY <1>1, <1>3, <1>8, <1>10, <2>1, <2>2 DEF Rounds
  <2> QED BY <2>1, <2>3 DEF MixtureInv
<1>12. CASE t = m
  <2>1. (r + 1) * m + 0 = r * m + c + 1 /\ 0 \in 0..(m - 1) /\ r + 1 \in Nat
    BY <1>1, <1>3, <1>12
  <2>2. mixture' = [u \in 1..m |-> Outputs(u, IF u <= 0 THEN r + 2 ELSE r + 1)']
    <3>1. \A u \in 1..m : u <= t /\ ~(u <= 0)
      BY <1>12
    <3> HIDE DEF t
    <3> QED BY <1>6, <1>7, <3>1
  <2>3. (r + 1) + 1 = r + 2
    OBVIOUS
  <2>4. Rounds(r + 1, 0)'
    BY <1>1, <1>3, <1>8, <1>10, <2>1, <2>2, <2>3 DEF Rounds
  <2> QED BY <2>1, <2>4 DEF MixtureInv
<1> QED BY <1>1, <1>3, <1>11, <1>12

LEMMA HybridStep ==
    ASSUME HybridInv, [HybridNext]_hybridVars
    PROVE  HybridInv'
<1>1. CASE Build
  BY <1>1 DEF Build, HybridInv, ArgsInv, ChoiceInv, MixtureInv, Accepted
<1>2. CASE SplitHeads
  BY <1>2 DEF SplitHeads, HybridInv, ArgsInv, ChoiceInv, MixtureInv, Accepted
<1>3. CASE Route
  <2>1. ArgsInv'
    BY <1>3 DEF Route, HybridInv, ArgsInv, Accepted
  <2>2. ChoiceInv'
    <3>1. args' = args
      BY <1>3 DEF Route
    <3>2. gates' \in [1..InputTokens -> [Experts -> GateWeights]]
          /\ \A t \in 1..InputTokens : top_inds'[t] \in TopInds(gates'[t])
      BY <1>3, Zenon DEF Route
    <3>3. Experts' = Experts /\ \A w : TopInds(w)' = TopInds(w)
      BY <3>1 DEF Experts, TopInds
    <3> QED BY <3>2, <3>3 DEF ChoiceInv
  <2> QED BY <1>3, <2>1, <2>2, NoRounds DEF HybridInv
<1>4. CASE AddExpert
  <2>1. ArgsInv' /\ ChoiceInv'
    BY <1>4 DEF AddExpert, HybridInv, ArgsInv, ChoiceInv, Accepted, Experts, TopInds
  <2> QED BY <1>4, <2>1, OneOutput DEF HybridInv
<1>5. CASE UNCHANGED hybridVars
  <2>1. ArgsInv' /\ ChoiceInv'
    BY <1>5 DEF hybridVars, HybridInv, ArgsInv, ChoiceInv, Accepted, Experts, TopInds
  <2>2. MixtureInv'
    <3>1. UNCHANGED <<at, args, mixture, gates, top_inds>>
      BY <1>5 DEF hybridVars
    <3>2. Added' = Added
      BY <3>1 DEF Added
    <3>3. \A t, n : Outputs(t, n)' = Outputs(t, n)
      BY <3>1 DEF Outputs, Score, Experts
    <3>4. ASSUME NEW r, NEW c, Rounds(r, c) PROVE Rounds(r, c)'
      BY <3>1, <3>2, <3>3, <3>4 DEF Rounds
    <3>5. MixtureInv
      BY DEF HybridInv
    <3> QED BY <3>1, <3>4, <3>5 DEF MixtureInv
  <2> QED BY <2>1, <2>2 DEF HybridInv
<1> QED BY <1>1, <1>2, <1>3, <1>4, <1>5 DEF HybridNext
\* Different places hold different experts: there are as many as places.
LEMMA ChosenAreAsMany ==
    ASSUME NEW n \in Nat, NEW S, NEW f \in [1..n -> S], IsInjective(f)
    PROVE  Cardinality(Range(f)) = n
<1>1. IsFiniteSet(1..n) /\ Cardinality(1..n) = n
  BY FS_Interval
<1>2. f \in Surjection(1..n, Range(f))
  <2>1. f \in [1..n -> Range(f)]
    BY DEF Range
  <2>2. \A y \in Range(f) : \E x \in 1..n : f[x] = y
    BY DEF Range
  <2> QED BY <2>1, <2>2, Zenon DEF Surjection
<1>3. f \in Injection(1..n, Range(f))
  BY <1>2, Zenon DEF Injection, Surjection
<1> QED BY <1>1, <1>2, <1>3, FS_Surjection

\* What the chosen weigh, by place or by expert.
LEMMA ChosenWeigh ==
    ASSUME NEW n \in Nat, NEW S, NEW f \in [1..n -> S], IsInjective(f),
           NEW w \in [S -> Int], NEW g, g = [x \in 1..n |-> w[f[x]]]
    PROVE  SumFunction(g) = SumFunctionOnSet(w, Range(f))
<1>1. IsFiniteSet(1..n)
  BY FS_Interval
<1>2. \A x, y \in 1..n : f[x] = f[y] => x = y
  BY DEF IsInjective
<1>3. \A x \in 1..n : w[f[x]] \in Int /\ g[x] = w[f[x]]
  OBVIOUS
<1>4. Range(f) = {f[x] : x \in 1..n}
  BY DEF Range
<1>5. SumFunction(g) = SumFunctionOnSet(g, 1..n)
  BY DEF SumFunction
<1>6. Renames(f, g, 1..n, w, Range(f))
  BY <1>2, <1>3, <1>4 DEF Renames
<1>7. SumFunctionOnSet(g, 1..n) = SumFunctionOnSet(w, Range(f))
  BY <1>1, <1>6, SumRenamed
<1> QED BY <1>5, <1>7

\* A token's outputs, once its choices are all run.
LEMMA AllOutputs ==
    ASSUME HybridInv, at = "mixed", NEW t \in 1..InputTokens
    PROVE  mixture[t] = Outputs(t, args.top_k)
<1>1. InputTokens \in Nat \ {0} /\ args.top_k \in Nat
  BY HybridLayerAssumption DEF HybridInv, ArgsInv
<1>2. PICK r \in Nat, c \in 0..(InputTokens - 1) : Rounds(r, c)
  BY DEF HybridInv, MixtureInv
<1>3. r = args.top_k /\ c = 0
  <2>1. r * InputTokens + c = args.top_k * InputTokens
    BY <1>2 DEF Rounds
  <2> QED BY <1>1, <2>1, AllRounds
<1>4. mixture[t] = Outputs(t, IF t <= c THEN r + 1 ELSE r)
  BY <1>2 DEF Rounds
<1> QED BY <1>3, <1>4

LEMMA HybridInvIsEnough ==
    ASSUME HybridInv
    PROVE  TokensMixTheirBest
<1> SUFFICES ASSUME at = "mixed", NEW t \in 1..InputTokens
    PROVE  LET mix == mixture[t]
               chosen == {mix[n].expert : n \in DOMAIN mix}
           IN  /\ Len(mix) = args.top_k /\ Cardinality(chosen) = args.top_k
               /\ \A e \in chosen, o \in Experts \ chosen : gates[t][o] <= gates[t][e]
               /\ \A n \in DOMAIN mix : mix[n].score.num = gates[t][mix[n].expert]
               /\ args.norm_topk_prob =>
                    SumFunction([n \in DOMAIN mix |-> mix[n].score.num]) = mix[1].score.den
  BY DEF TokensMixTheirBest
<1> DEFINE mix    == mixture[t]
           chosen == {mix[n].expert : n \in DOMAIN mix}
           k      == args.top_k
           inds   == top_inds[t]
<1>1. k \in Nat \ {0} /\ mix = Outputs(t, k)
  <2>1. mix = Outputs(t, k)
    BY AllOutputs
  <2>2. args.top_k \in Nat /\ args.top_k > 0
    BY HybridLayerAssumption DEF HybridInv, ArgsInv, Accepted
  <2> QED BY <2>1, <2>2
<1>2. inds \in [1..k -> Experts] /\ IsInjective(inds)
      /\ \A e \in Experts \ Range(inds) : \A n \in 1..k : gates[t][e] <= gates[t][inds[n]]
  BY DEF HybridInv, ChoiceInv, TopInds
<1>3. gates[t] \in [Experts -> GateWeights]
  BY DEF HybridInv, ChoiceInv
<1>4. DOMAIN mix = 1..k /\ \A n \in 1..k : mix[n] = [expert |-> inds[n], score |-> Score(t, n)]
  BY <1>1 DEF Outputs
<1>5. Len(mix) = k
  BY <1>1, OutputsGrow
<1>6. \A n \in 1..k : mix[n].expert = inds[n] /\ mix[n].score.num = gates[t][inds[n]]
  <2>1. \A n : Score(t, n).num = gates[t][inds[n]]
    BY DEF Score
  <2>2. ASSUME NEW n \in 1..k PROVE mix[n].expert = inds[n] /\ mix[n].score = Score(t, n)
    <3>1. mix[n] = [expert |-> inds[n], score |-> Score(t, n)]
      BY <1>4
    <3> HIDE DEF inds, mix
    <3> QED BY <3>1
  <2> HIDE DEF inds, mix, k
  <2> QED BY <2>1, <2>2
<1>7. chosen = Range(inds)
  <2>1. DOMAIN inds = 1..k
    BY <1>2
  <2>2. \A n \in 1..k : mix[n].expert = inds[n]
    BY <1>6
  <2> HIDE DEF inds, mix, k
  <2>3. chosen = {inds[n] : n \in 1..k}
    BY <1>4, <2>2
  <2> QED BY <2>1, <2>3 DEF Range
<1>8. Cardinality(Range(inds)) = k
  BY <1>1, <1>2, ChosenAreAsMany
<1>9. \A e \in chosen, o \in Experts \ chosen : gates[t][o] <= gates[t][e]
  BY <1>2, <1>7 DEF Range
<1>10. \A n \in DOMAIN mix : mix[n].score.num = gates[t][mix[n].expert]
  BY <1>4, <1>6
<1>11. ASSUME args.norm_topk_prob
       PROVE  SumFunction([n \in DOMAIN mix |-> mix[n].score.num]) = mix[1].score.den
  <2> DEFINE g == [n \in DOMAIN mix |-> mix[n].score.num]
             w == gates[t]
  <2>1. IsInjective(inds) /\ inds \in [1..k -> Experts]
    BY <1>2
  <2>2. w \in [Experts -> Int]
    <3>1. GateWeights \subseteq Int
      BY HybridLayerAssumption
    <3> QED BY <1>3, <3>1
  <2>3. g = [n \in 1..k |-> w[inds[n]]]
    BY <1>4, <1>6
  <2>4. mix[1].score.den = SumFunctionOnSet(w, Range(inds))
    <3>1. mix[1].score = Score(t, 1)
      <4>1. mix[1] = [expert |-> inds[1], score |-> Score(t, 1)]
        BY <1>1, <1>4
      <4> HIDE DEF inds, mix
      <4> QED BY <4>1
    <3> QED BY <1>11, <3>1 DEF Score
  <2> HIDE DEF g, w, inds, k, mix
  <2>5. k \in Nat
    BY <1>1
  <2>6. SumFunction(g) = mix[1].score.den
    BY <2>1, <2>2, <2>3, <2>4, <2>5, ChosenWeigh
  <2> QED BY <2>6 DEF g
<1> QED BY <1>5, <1>7, <1>8, <1>9, <1>10, <1>11

\* The outputs are added expert by expert over all tokens, and the scores are looked
\* up by place: every token still gets its own best experts, each once, with its
\* own score for it, and normalised scores add up to one.
THEOREM TokensMix == HybridSpec => []TokensMixTheirBest
<1>1. HybridInit => HybridInv
  BY DEF HybridInit, HybridInv, ArgsInv, ChoiceInv, MixtureInv
<1>2. HybridInv /\ [HybridNext]_hybridVars => HybridInv'
  BY HybridStep
<1>3. HybridInv => TokensMixTheirBest
  BY HybridInvIsEnough
<1> QED BY <1>1, <1>2, <1>3, PTL DEF HybridSpec
=============================================================================
