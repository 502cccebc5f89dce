-------------------------- MODULE CompletionProofs --------------------------
(***************************************************************************)
(* Theorems about the text of a generation, for any tokens, any stop       *)
(* sequences and any length: the stop window is the end of the text, no    *)
(* generation passes over a stop sequence that ends with a token, what is  *)
(* cut off begins with a stop sequence, a stream is the text it streams,   *)
(* and an answer with tool calls is that text read once from its           *)
(* beginning.                                                              *)
(***************************************************************************)
EXTENDS Completion, FoldProofs, SequenceTheorems

Smaller(m, n) == IF m < n THEN m ELSE n

\* The last n elements of s, or all.
LastOf(s, n) == SubSeq(s, Len(s) - Smaller(Len(s), n) + 1, Len(s))

-----------------------------------------------------------------------------
\* The least element is what Min returns.
LEMMA MinOfNaturals ==
    ASSUME NEW T \in SUBSET Nat, T # {}
    PROVE  Min(T) \in T /\ \A y \in T : Min(T) <= y
BY LeastNatural DEF Min

\* No stop sequence is longer than the window may be.
LEMMA LongestBounds ==
    ASSUME NEW stops \in StopChoices
    PROVE  /\ max_stop_sequence_chars(stops) \in Nat
           /\ \A seq \in stops : Len(seq) <= max_stop_sequence_chars(stops)
<1>1. CASE stops = {}
  BY <1>1 DEF max_stop_sequence_chars
<1>2. CASE stops # {}
  <2> DEFINE Lens == {Len(seq) : seq \in stops}
  <2>1. PICK longest \in stops : \A seq \in stops : Len(seq) <= Len(longest)
    BY <1>2, StopAssumption
  <2>2. \A n \in Lens : n \in Nat
    BY StopAssumption
  <2>3. \E x \in Lens : \A y \in Lens : x >= y
    BY <2>1, <2>2
  <2>4. Max(Lens) \in Lens /\ \A y \in Lens : Max(Lens) >= y
    BY <2>3 DEF Max
  <2>5. max_stop_sequence_chars(stops) = Max(Lens)
    BY <1>2 DEF max_stop_sequence_chars
  <2>6. Max(Lens) \in Nat /\ \A seq \in stops : Len(seq) \in Lens /\ Len(seq) \in Nat
    BY <2>2, <2>4
  <2> HIDE DEF Lens
  <2> QED
    BY <2>4, <2>5, <2>6
<1> QED
  BY <1>1, <1>2

\* Smaller is one of the two.
LEMMA SmallerType ==
    ASSUME NEW m \in Nat, NEW n \in Nat
    PROVE  Smaller(m, n) \in 0..m /\ Smaller(m, n) \in Nat
BY DEF Smaller

\* l is made of n elements of s, those after the first `from'.
IsPart(l, s, from, n) ==
    /\ l \in Seq(Chars) /\ Len(l) = n
    /\ \A i \in 1..n : l[i] = s[from + i]

\* What a sequence is from its m-th element on.
LEMMA FromProperties ==
    ASSUME NEW s \in Seq(Chars), NEW m \in 1..(Len(s) + 1)
    PROVE  IsPart(SubSeq(s, m, Len(s)), s, m - 1, Len(s) - m + 1)
<1>1. /\ SubSeq(s, m, Len(s)) \in Seq(Chars)
      /\ Len(SubSeq(s, m, Len(s))) = Len(s) - m + 1
      /\ \A i \in 1..(Len(s) - m + 1) : SubSeq(s, m, Len(s))[i] = s[m + i - 1]
  OBVIOUS
<1>2. \A i \in 1..(Len(s) - m + 1) : m + i - 1 = (m - 1) + i
  OBVIOUS
<1> QED
  BY <1>1, <1>2 DEF IsPart

\* Two ways to count from the end.
LEMMA SmallerFromEnd ==
    ASSUME NEW l \in Nat, NEW n \in Nat
    PROVE  /\ l - Smaller(l, n) = (IF l > n THEN l - n ELSE 0)
           /\ l - Smaller(l, 0) + 1 = l + 1
BY DEF Smaller

\* The i-th of the last `all' of kept + lt elements, and of ls + lt, is either one
\* of those kept of the ls or one of the lt.
Aligned(ls, lt, kept, all) ==
    \A i \in 1..all :
        \/ \E j \in 1..kept : /\ kept + lt - all + i = j
                              /\ ls + lt - all + i = ls - kept + j
                              /\ ls - kept + j \in 1..ls
        \/ \E j \in 1..lt : /\ kept + lt - all + i = kept + j
                            /\ ls + lt - all + i = ls + j

\* A place near the end of the last n of ls elements and lt more, counted in the
\* former and in the latter.
LEMMA Places ==
    ASSUME NEW ls \in Nat, NEW lt \in Nat, NEW n \in Nat,
           NEW kept \in Nat, kept = Smaller(ls, n),
           NEW all \in Nat, all = Smaller(ls + lt, n)
    PROVE  /\ kept <= ls /\ all = Smaller(kept + lt, n)
           /\ Aligned(ls, lt, kept, all)
<1>1. kept <= ls /\ all = Smaller(kept + lt, n) /\ all <= kept + lt
  BY DEF Smaller
<1>2. ASSUME NEW i \in 1..all, lt - all + i <= 0
      PROVE  \E j \in 1..kept : /\ kept + lt - all + i = j
                                /\ ls + lt - all + i = ls - kept + j
                                /\ ls - kept + j \in 1..ls
  <2> DEFINE j == kept + lt - all + i
  <2>1. j \in 1..kept /\ ls + lt - all + i = ls - kept + j /\ ls - kept + j \in 1..ls
    BY <1>1, <1>2
  <2> QED
    BY <2>1
<1>3. ASSUME NEW i \in 1..all, lt - all + i > 0
      PROVE  \E j \in 1..lt : /\ kept + lt - all + i = kept + j
                              /\ ls + lt - all + i = ls + j
  <2> DEFINE j == lt - all + i
  <2>1. j \in 1..lt /\ kept + lt - all + i = kept + j /\ ls + lt - all + i = ls + j
    BY <1>1, <1>3
  <2> QED
    BY <2>1
<1> QED
  BY <1>1, <1>2, <1>3 DEF Aligned

\* What the last n elements of a sequence are.
LEMMA LastOfProperties ==
    ASSUME NEW s \in Seq(Chars), NEW n \in Nat,
           NEW len \in Nat, len = Len(s),
           NEW least \in Nat, least = Smaller(len, n)
    PROVE  IsPart(LastOf(s, n), s, len - least, least)
<1>1. LastOf(s, n) = SubSeq(s, len - least + 1, Len(s))
  BY DEF LastOf
<1>2. least <= len
  BY SmallerType
<1>3. len - least + 1 \in 1..(len + 1)
  BY <1>2
<1>4. IsPart(LastOf(s, n), s, (len - least + 1) - 1, Len(s) - (len - least + 1) + 1)
  BY <1>1, <1>3, FromProperties
<1>5. (len - least + 1) - 1 = len - least /\ len - (len - least + 1) + 1 = least
  BY <1>2
<1> QED
  BY <1>4, <1>5

\* They are characters.
LEMMA LastOfType ==
    ASSUME NEW s \in Seq(Chars), NEW n \in Nat
    PROVE  LastOf(s, n) \in Seq(Chars)
<1>1. PICK len \in Nat : len = Len(s)
  BY LenProperties
<1>2. PICK least \in Nat : least = Smaller(len, n)
  BY SmallerType
<1>3. IsPart(LastOf(s, n), s, len - least, least)
  BY <1>1, <1>2, LastOfProperties
<1> QED
  BY <1>3 DEF IsPart

\* What a concatenation is.
LEMMA ConcatElements ==
    ASSUME NEW s \in Seq(Chars), NEW t \in Seq(Chars)
    PROVE  /\ Len(s) \in Nat /\ Len(t) \in Nat
           /\ s \o t \in Seq(Chars) /\ Len(s \o t) = Len(s) + Len(t)
           /\ \A i \in 1..Len(s) : (s \o t)[i] = s[i]
           /\ \A i \in 1..Len(t) : (s \o t)[Len(s) + i] = t[i]
OBVIOUS

\* The last elements of a longer sequence are among the last of what was there
\* and what came.
LEMMA LastOfConcat ==
    ASSUME NEW s \in Seq(Chars), NEW t \in Seq(Chars), NEW n \in Nat
    PROVE  LastOf(LastOf(s, n) \o t, n) = LastOf(s \o t, n)
<1>1. PICK w : w = LastOf(s, n)
  OBVIOUS
<1>2. PICK ls \in Nat, lt \in Nat : ls = Len(s) /\ lt = Len(t)
  BY ConcatElements
<1>3. PICK kept \in Nat : kept = Smaller(ls, n)
  BY <1>2, SmallerType
<1>4. PICK all \in Nat : all = Smaller(ls + lt, n)
  <2>1. ls + lt \in Nat
    BY <1>2
  <2> QED
    BY <2>1, SmallerType
<1>5. /\ kept <= ls /\ all = Smaller(kept + lt, n)
      /\ Aligned(ls, lt, kept, all)
  BY <1>3, <1>4, Places
<1>6. /\ w \in Seq(Chars) /\ Len(w) = kept
      /\ \A i \in 1..kept : w[i] = s[(ls - kept) + i]
  <2>1. IsPart(w, s, ls - kept, kept)
    BY <1>1, <1>2, <1>3, LastOfProperties
  <2> QED
    BY <2>1 DEF IsPart
<1>7. PICK wt :
        /\ wt = w \o t /\ wt \in Seq(Chars) /\ Len(wt) = kept + lt
        /\ \A i \in 1..kept : wt[i] = w[i]
        /\ \A i \in 1..lt : wt[kept + i] = t[i]
  <2>1. /\ w \o t \in Seq(Chars) /\ Len(w \o t) = kept + lt
        /\ \A i \in 1..kept : (w \o t)[i] = w[i]
        /\ \A i \in 1..lt : (w \o t)[kept + i] = t[i]
    BY <1>2, <1>6, ConcatElements
  <2> QED
    BY <2>1, Zenon
<1>8. PICK st :
        /\ st = s \o t /\ st \in Seq(Chars) /\ Len(st) = ls + lt
        /\ \A i \in 1..ls : st[i] = s[i]
        /\ \A i \in 1..lt : st[ls + i] = t[i]
  <2>1. /\ s \o t \in Seq(Chars) /\ Len(s \o t) = ls + lt
        /\ \A i \in 1..ls : (s \o t)[i] = s[i]
        /\ \A i \in 1..lt : (s \o t)[ls + i] = t[i]
    BY <1>2, ConcatElements
  <2> QED
    BY <2>1, Zenon
<1>9. IsPart(LastOf(wt, n), wt, (kept + lt) - all, all)
  <2>1. kept + lt \in Nat
    BY <1>2, <1>3
  <2> QED
    BY <1>5, <1>7, <2>1, LastOfProperties
<1>10. IsPart(LastOf(st, n), st, (ls + lt) - all, all)
  <2>1. ls + lt \in Nat
    BY <1>2, <1>3
  <2> QED
    BY <1>4, <1>8, <2>1, LastOfProperties
<1>11. ASSUME NEW i \in 1..all
       PROVE  wt[kept + lt - all + i] = st[ls + lt - all + i]
  <2>1. ASSUME NEW j \in 1..kept, kept + lt - all + i = j,
               ls + lt - all + i = ls - kept + j, ls - kept + j \in 1..ls
        PROVE  wt[kept + lt - all + i] = st[ls + lt - all + i]
    <3>1. wt[j] = w[j] /\ w[j] = s[(ls - kept) + j]
      BY <1>6, <1>7, <2>1
    <3>2. st[ls - kept + j] = s[ls - kept + j]
      BY <1>8, <2>1
    <3> QED
      BY <2>1, <3>1, <3>2
  <2>2. ASSUME NEW j \in 1..lt, kept + lt - all + i = kept + j, ls + lt - all + i = ls + j
        PROVE  wt[kept + lt - all + i] = st[ls + lt - all + i]
    <3>1. wt[kept + j] = t[j] /\ st[ls + j] = t[j]
      BY <1>7, <1>8, <2>2
    <3> QED
      BY <2>2, <3>1
  <2> QED
    BY <1>5, <2>1, <2>2 DEF Aligned
<1>12. LastOf(wt, n) = LastOf(st, n)
  <2>1. /\ LastOf(wt, n) \in Seq(Chars) /\ Len(LastOf(wt, n)) = all
        /\ LastOf(st, n) \in Seq(Chars) /\ Len(LastOf(st, n)) = all
    BY <1>9, <1>10 DEF IsPart
  <2>2. ASSUME NEW i \in 1..all
        PROVE  LastOf(wt, n)[i] = LastOf(st, n)[i]
    <3>1. LastOf(wt, n)[i] = wt[kept + lt - all + i]
      BY <1>9 DEF IsPart
    <3>2. LastOf(st, n)[i] = st[ls + lt - all + i]
      BY <1>10 DEF IsPart
    <3> QED
      BY <1>11, <3>1, <3>2
  <2> QED
    BY <2>1, <2>2, SeqEqual
<1> QED
  BY <1>1, <1>7, <1>8, <1>12

\* append_stop_window keeps the window at the end of the text.
LEMMA AppendKeepsWindow ==
    ASSUME NEW s \in Seq(Chars), NEW t \in Seq(Chars), NEW n \in Nat
    PROVE  append_stop_window(LastOf(s, n), t, n) = LastOf(s \o t, n)
<1>1. /\ LastOf(s, n) \in Seq(Chars)
      /\ LastOf(s, n) \o t \in Seq(Chars)
      /\ s \o t \in Seq(Chars)
  BY LastOfType, ConcatElements
<1>2. CASE t = << >>
  BY <1>2, ConcatEmptySeq DEF append_stop_window
<1>3. CASE n = 0
  <2>1. ASSUME NEW u \in Seq(Chars)
        PROVE  LastOf(u, 0) = << >>
    <3>1. Len(u) \in Nat
      OBVIOUS
    <3>2. Len(u) - Smaller(Len(u), 0) + 1 = Len(u) + 1
      BY <3>1, SmallerFromEnd
    <3> QED
      BY <3>2 DEF LastOf
  <2> QED
    BY <1>1, <1>3, <2>1 DEF append_stop_window
<1>4. CASE ~(n = 0 \/ t = << >>)
  <2>1. append_stop_window(LastOf(s, n), t, n) = LastOf(LastOf(s, n) \o t, n)
    <3>1. PICK all \in Seq(Chars) : all = LastOf(s, n) \o t
      BY <1>1
    <3>2. Len(all) \in Nat
      BY <3>1
    <3>3. (IF Len(all) > n THEN Len(all) - n ELSE 0) = Len(all) - Smaller(Len(all), n)
      BY <3>2, SmallerFromEnd
    <3> QED
      BY <1>4, <3>1, <3>3 DEF append_stop_window, LastOf
  <2> QED
    BY <2>1, LastOfConcat
<1> QED
  BY <1>2, <1>3, <1>4

-----------------------------------------------------------------------------
\* The m elements of s after the first p.
Slice(s, p, m) == SubSeq(s, p + 1, p + m)

\* A place in a part of s is one in s.
LEMMA PartOfPart ==
    ASSUME NEW s \in Seq(Chars), NEW w, NEW from \in Nat, NEW k \in Nat,
           IsPart(w, s, from, k), from + k <= Len(s),
           NEW p \in Nat, NEW m \in Nat, p + m <= k
    PROVE  Slice(w, p, m) = Slice(s, from + p, m)
<1>1. /\ w \in Seq(Chars) /\ Len(w) = k
      /\ \A i \in 1..k : w[i] = s[from + i]
  BY DEF IsPart
<1>2. /\ SubSeq(w, p + 1, p + m) \in Seq(Chars)
      /\ Len(SubSeq(w, p + 1, p + m)) = m
      /\ \A i \in 1..m : SubSeq(w, p + 1, p + m)[i] = w[p + i]
  BY <1>1
<1>3. PICK q \in Nat : q = from + p /\ q + m <= Len(s)
  OBVIOUS
<1>4. /\ SubSeq(s, q + 1, q + m) \in Seq(Chars)
      /\ Len(SubSeq(s, q + 1, q + m)) = m
      /\ \A i \in 1..m : SubSeq(s, q + 1, q + m)[i] = s[q + i]
  BY <1>3
<1>5. ASSUME NEW i \in 1..m
      PROVE  w[p + i] = s[q + i]
  <2>1. p + i \in 1..k /\ from + (p + i) = q + i
    BY <1>3
  <2> QED
    BY <1>1, <2>1
<1>6. SubSeq(w, p + 1, p + m) = SubSeq(s, q + 1, q + m)
  BY <1>2, <1>4, <1>5, SeqEqual
<1> QED
  BY <1>3, <1>6 DEF Slice

\* A place where m of len elements fit.
LEMMA InRange ==
    ASSUME NEW len \in Nat, NEW m \in Nat, NEW p
    PROVE  p \in 0..(len - m) <=> p \in Nat /\ p + m <= len
OBVIOUS

\* What an occurrence is.
LEMMA Occurrence ==
    ASSUME NEW s \in Seq(Chars), NEW seq \in Seq(Chars),
           NEW len \in Nat, len = Len(s), NEW m \in Nat, m = Len(seq), NEW p
    PROVE  p \in Occurrences(seq, s) <=> p \in Nat /\ p + m <= len /\ Slice(s, p, m) = seq
<1>1. p \in Occurrences(seq, s) <=> p \in 0..(len - m) /\ Slice(s, p, m) = seq
  BY Zenon DEF Occurrences, Slice
<1>2. p \in 0..(len - m) <=> p \in Nat /\ p + m <= len
  BY InRange
<1> QED
  BY <1>1, <1>2, Zenon

\* The window w of s is found by what it leaves out of s.
LEMMA WindowIsPart ==
    ASSUME NEW s \in Seq(Chars), NEW n \in Nat, NEW w, w = LastOf(s, n)
    PROVE  \E from \in Nat, k \in Nat :
              /\ IsPart(w, s, from, k) /\ from + k = Len(s)
              /\ k = n \/ from = 0
<1>1. PICK len \in Nat : len = Len(s)
  BY LenProperties
<1>2. PICK k \in Nat : k = Smaller(len, n) /\ k <= len
  <2>1. Smaller(len, n) \in 0..len /\ Smaller(len, n) \in Nat
    BY SmallerType
  <2> QED
    BY <2>1
<1>3. PICK from \in Nat : from = len - k
  BY <1>2
<1>4. IsPart(w, s, from, k)
  BY <1>1, <1>2, <1>3, LastOfProperties
<1>5. from + k = Len(s) /\ (k = n \/ from = 0)
  BY <1>1, <1>2, <1>3 DEF Smaller
<1> QED
  BY <1>4, <1>5

\* What occurs in a part of s occurs in s.
LEMMA OccursInPart ==
    ASSUME NEW s \in Seq(Chars), NEW w, NEW from \in Nat, NEW k \in Nat,
           IsPart(w, s, from, k), from + k = Len(s),
           NEW seq \in Seq(Chars), NEW p \in Occurrences(seq, w)
    PROVE  p \in Nat /\ from + p \in Occurrences(seq, s)
<1>1. w \in Seq(Chars) /\ k = Len(w)
  BY DEF IsPart
<1>2. PICK m \in Nat, len \in Nat : m = Len(seq) /\ len = Len(s)
  BY LenProperties
<1>3. p \in Nat /\ p + m <= k /\ Slice(w, p, m) = seq
  BY <1>1, <1>2, Occurrence
<1>4. Slice(s, from + p, m) = seq
  BY <1>3, PartOfPart
<1>5. PICK q \in Nat : q = from + p /\ q + m <= len
  BY <1>2, <1>3
<1>6. Slice(s, q, m) = seq
  BY <1>4, <1>5
<1>7. q \in Occurrences(seq, s)
  BY <1>2, <1>5, <1>6, Occurrence
<1> QED
  BY <1>3, <1>5, <1>7

\* What ends s is found at the end of a part that ends s and is long enough.
LEMMA EndOccursInPart ==
    ASSUME NEW s \in Seq(Chars), NEW w, NEW from \in Nat, NEW k \in Nat,
           IsPart(w, s, from, k), from + k = Len(s),
           NEW seq \in Seq(Chars), Len(seq) <= k \/ from = 0,
           NEW q \in Occurrences(seq, s), q + Len(seq) = Len(s)
    PROVE  q \in Nat /\ q - from \in Occurrences(seq, w)
<1>1. w \in Seq(Chars) /\ k = Len(w)
  BY DEF IsPart
<1>2. PICK m \in Nat, len \in Nat : m = Len(seq) /\ len = Len(s)
  BY LenProperties
<1>3. q \in Nat /\ q + m <= len /\ Slice(s, q, m) = seq
  BY <1>2, Occurrence
<1>4. PICK p \in Nat : p = q - from /\ p + m = k /\ from + p = q
  <2>1. q \in Nat /\ q + m = from + k /\ (m <= k \/ from = 0)
    BY <1>2, <1>3
  <2> QED
    BY <2>1
<1>5. Slice(w, p, m) = Slice(s, from + p, m)
  BY <1>4, PartOfPart
<1>6. Slice(w, p, m) = seq
  BY <1>3, <1>4, <1>5
<1>7. p + m <= k
  BY <1>4
<1>8. p \in Occurrences(seq, w)
  BY <1>1, <1>2, <1>6, <1>7, Occurrence
<1> QED
  BY <1>3, <1>4, <1>8

\* A suffix occurs at the end.
LEMMA SuffixOccurs ==
    ASSUME NEW s \in Seq(Chars), NEW seq \in Seq(Chars), IsSuffix(seq, s)
    PROVE  Len(s) - Len(seq) \in Occurrences(seq, s)
<1>1. PICK m \in Nat, len \in Nat : m = Len(seq) /\ len = Len(s)
  BY LenProperties
<1>2. /\ Reverse(seq) \in Seq(Chars) /\ Len(Reverse(seq)) = m
      /\ \A i \in 1..m : Reverse(seq)[i] = seq[(m - i) + 1]
  BY <1>1 DEF Reverse
<1>3. /\ Reverse(s) \in Seq(Chars) /\ Len(Reverse(s)) = len
      /\ \A i \in 1..len : Reverse(s)[i] = s[(len - i) + 1]
  BY <1>1 DEF Reverse
<1>4. m <= len /\ SubSeq(Reverse(seq), 1, m) = SubSeq(Reverse(s), 1, m)
  BY <1>2, <1>3 DEF IsSuffix, IsPrefix
<1>5. ASSUME NEW i \in 1..m
      PROVE  Reverse(seq)[i] = Reverse(s)[i]
  <2>1. SubSeq(Reverse(seq), 1, m)[i] = Reverse(seq)[i]
    BY <1>2
  <2>2. SubSeq(Reverse(s), 1, m)[i] = Reverse(s)[i]
    BY <1>3, <1>4
  <2> QED
    BY <1>4, <2>1, <2>2
<1>6. PICK from \in Nat : from = len - m
  BY <1>4
<1>7. IsPart(SubSeq(s, from + 1, Len(s)), s, (from + 1) - 1, Len(s) - (from + 1) + 1)
  <2>1. from + 1 \in 1..(Len(s) + 1)
    BY <1>1, <1>6
  <2> QED
    BY <2>1, FromProperties
<1>8. (from + 1) - 1 = from /\ Len(s) - (from + 1) + 1 = m /\ from + m = Len(s)
  BY <1>1, <1>6
<1>9. /\ SubSeq(s, from + 1, from + m) \in Seq(Chars) /\ Len(SubSeq(s, from + 1, from + m)) = m
      /\ \A i \in 1..m : SubSeq(s, from + 1, from + m)[i] = s[from + i]
  BY <1>7, <1>8 DEF IsPart
<1>10. ASSUME NEW j \in 1..m
       PROVE  s[from + j] = seq[j]
  <2>1. PICK i \in 1..m : i = (m - j) + 1 /\ (m - i) + 1 = j /\ (len - i) + 1 = from + j /\ i <= len
    <3> DEFINE i == (m - j) + 1
    <3>1. i \in 1..m /\ (m - i) + 1 = j /\ (len - i) + 1 = from + j /\ i <= len
      BY <1>4, <1>6
    <3> QED
      BY <3>1
  <2>2. Reverse(seq)[i] = seq[j] /\ Reverse(s)[i] = s[from + j]
    <3>1. Reverse(seq)[i] = seq[(m - i) + 1]
      BY <1>2
    <3>2. i \in 1..len
      BY <2>1
    <3>3. Reverse(s)[i] = s[(len - i) + 1]
      BY <1>3, <3>2
    <3> QED
      BY <2>1, <3>1, <3>3
  <2> QED
    BY <1>5, <2>2
<1>11. SubSeq(s, from + 1, from + m) = seq
  BY <1>1, <1>9, <1>10, SeqEqual
<1>12. Slice(s, from, m) = seq
  BY <1>11 DEF Slice
<1>13. from + m <= len
  BY <1>6
<1>14. from \in Occurrences(seq, s)
  BY <1>1, <1>12, <1>13, Occurrence
<1> QED
  BY <1>1, <1>6, <1>14

\* Nothing but the empty sequence ends the empty sequence.
LEMMA SuffixOfEmpty ==
    ASSUME NEW seq \in Seq(Chars), seq # << >>
    PROVE  ~IsSuffix(seq, << >>)
<1> SUFFICES ASSUME IsSuffix(seq, << >>)
             PROVE  FALSE
  OBVIOUS
<1>1. << >> \in Seq(Chars) /\ Len(<< >>) = 0
  OBVIOUS
<1>2. PICK m \in Nat, p \in Int : m = Len(seq) /\ p = 0 - m
  BY LenProperties
<1>3. p \in Occurrences(seq, << >>)
  BY <1>1, <1>2, SuffixOccurs
<1>4. p \in Nat
  BY <1>1, <1>2, <1>3, Occurrence
<1>5. m = 0
  BY <1>2, <1>4
<1> QED
  BY <1>2, <1>5, EmptySeq

\* Every match is a place, and comes with a sequence that occurs there.
LEMMA MatchesType ==
    ASSUME NEW w \in Seq(Chars), NEW stops \in StopChoices
    PROVE  /\ Matches(w, stops) \in SUBSET Nat
           /\ \A p \in Matches(w, stops) : \E seq \in stops : p \in Occurrences(seq, w)
           /\ \A seq \in stops : Occurrences(seq, w) \subseteq Matches(w, stops)
<1>1. /\ \A p \in Matches(w, stops) : \E seq \in stops : p \in Occurrences(seq, w)
      /\ \A seq \in stops : Occurrences(seq, w) \subseteq Matches(w, stops)
  BY DEF Matches
<1>2. ASSUME NEW seq \in stops, NEW p \in Occurrences(seq, w)
      PROVE  p \in Nat
  <2>1. seq \in Seq(Chars)
    BY StopAssumption
  <2> QED
    BY <2>1, LenProperties, Occurrence
<1> QED
  BY <1>1, <1>2

\* A stop sequence that ends the text occurs in the window, as far from the end.
LEMMA EndIsInWindow ==
    ASSUME NEW s \in Seq(Chars), NEW stops \in StopChoices, NEW w,
           NEW from \in Nat, NEW k \in Nat,
           IsPart(w, s, from, k), from + k = Len(s),
           k = max_stop_sequence_chars(stops) \/ from = 0,
           NEW seq \in stops,
           NEW q \in Occurrences(seq, s), q + Len(seq) = Len(s)
    PROVE  q \in Nat /\ q - from \in Matches(w, stops)
<1>1. seq \in Seq(Chars)
  BY StopAssumption
<1>2. Len(seq) <= k \/ from = 0
  BY LongestBounds
<1>3. q \in Nat /\ q - from \in Occurrences(seq, w)
  BY <1>1, <1>2, EndOccursInPart
<1> QED
  BY <1>3 DEF Matches

\* If nothing matches in the window, the text does not end with a stop sequence.
LEMMA NoMatchNoSuffix ==
    ASSUME NEW s \in Seq(Chars), NEW stops \in StopChoices,
           Matches(LastOf(s, max_stop_sequence_chars(stops)), stops) = {},
           NEW seq \in stops
    PROVE  ~IsSuffix(seq, s)
<1> SUFFICES ASSUME IsSuffix(seq, s)
             PROVE  FALSE
  OBVIOUS
<1>1. PICK w : w = LastOf(s, max_stop_sequence_chars(stops))
  OBVIOUS
<1>2. seq \in Seq(Chars)
  BY StopAssumption
<1>3. PICK from \in Nat, k \in Nat :
        /\ IsPart(w, s, from, k) /\ from + k = Len(s)
        /\ k = max_stop_sequence_chars(stops) \/ from = 0
  <2>1. max_stop_sequence_chars(stops) \in Nat
    BY LongestBounds
  <2> QED
    BY <1>1, <2>1, WindowIsPart
<1>4. PICK q : q = Len(s) - Len(seq) /\ q \in Occurrences(seq, s)
  BY <1>2, SuffixOccurs
<1>5. q + Len(seq) = Len(s)
  <2>1. Len(s) \in Nat /\ Len(seq) \in Nat
    BY <1>2, LenProperties
  <2> QED
    BY <1>4, <2>1
<1>6. q - from \in Matches(w, stops)
  BY <1>3, <1>4, <1>5, EndIsInWindow
<1> QED
  BY <1>1, <1>6

\* A prefix of s is one.
LEMMA TakeIsPrefix ==
    ASSUME NEW s \in Seq(Chars), NEW n \in Nat, n <= Len(s)
    PROVE  IsPrefix(SubSeq(s, 1, n), s) /\ Len(SubSeq(s, 1, n)) = n
<1>1. SubSeq(s, 1, n) \in Seq(Chars) /\ Len(SubSeq(s, 1, n)) = n
  OBVIOUS
<1>2. SubSeq(SubSeq(s, 1, n), 1, n) = SubSeq(s, 1, n)
  BY <1>1
<1> QED
  BY <1>1, <1>2 DEF IsPrefix

\* l is the first n elements of s.
IsCut(l, s, n) == n <= Len(s) /\ l = SubSeq(s, 1, n)

\* What the text is cut to.
LEMMA TruncatedProperties ==
    ASSUME NEW s \in Seq(Chars), NEW stops \in StopChoices, NEW t, NEW w,
           w = LastOf(s, max_stop_sequence_chars(stops)),
           Matches(w, stops) # {}, t = Truncated(s, w, stops)
    PROVE  /\ \E n \in Nat : IsCut(t, s, n)
           /\ IsPrefix(t, s)
           /\ Len(t) \in Matches(s, stops)
           /\ \A seq \in stops : \A pos \in Occurrences(seq, s) :
                 pos + Len(seq) = Len(s) => Len(t) <= pos
<1>1. PICK from \in Nat, k \in Nat :
        /\ IsPart(w, s, from, k) /\ from + k = Len(s)
        /\ k = max_stop_sequence_chars(stops) \/ from = 0
  <2>1. max_stop_sequence_chars(stops) \in Nat
    BY LongestBounds
  <2> QED
    BY <2>1, WindowIsPart
<1>2. w \in Seq(Chars) /\ Len(w) = k
  BY <1>1 DEF IsPart
<1>3. PICK c \in Nat :
        /\ c = CutAt(w, stops) /\ c \in Matches(w, stops)
        /\ \A p \in Matches(w, stops) : c <= p
  <2>1. Matches(w, stops) \in SUBSET Nat
    BY <1>2, MatchesType
  <2> QED
    BY <2>1, MinOfNaturals DEF CutAt
<1>4. PICK first \in stops : c \in Occurrences(first, w)
  BY <1>2, <1>3, MatchesType
<1>5. first \in Seq(Chars)
  BY StopAssumption
<1>6. from + c \in Occurrences(first, s)
  BY <1>1, <1>4, <1>5, OccursInPart
<1>7. c <= k
  <2>1. PICK m \in Nat : m = Len(first)
    BY <1>5, LenProperties
  <2>2. c + m <= k
    BY <1>2, <1>4, <1>5, <2>1, Occurrence
  <2> QED
    BY <2>2
<1>8. t = SubSeq(s, 1, from + c)
  <2>1. t = SubSeq(s, 1, Len(s) - (k - c))
    BY <1>2, <1>3 DEF Truncated
  <2>2. (from + k) - (k - c) = from + c
    OBVIOUS
  <2> QED
    BY <1>1, <2>1, <2>2
<1>9. from + c \in Nat /\ from + c <= Len(s)
  BY <1>1, <1>7
<1>10. IsPrefix(t, s) /\ Len(t) = from + c
  BY <1>8, <1>9, TakeIsPrefix
<1>11. Len(t) \in Matches(s, stops)
  BY <1>6, <1>10 DEF Matches
<1>12. ASSUME NEW seq \in stops, NEW pos \in Occurrences(seq, s), pos + Len(seq) = Len(s)
       PROVE  Len(t) <= pos
  <2>1. pos \in Nat /\ pos - from \in Matches(w, stops)
    BY <1>1, <1>12, EndIsInWindow
  <2>2. c <= pos - from
    BY <1>3, <2>1
  <2> QED
    BY <1>10, <2>1, <2>2
<1> QED
  BY <1>8, <1>9, <1>10, <1>11, <1>12 DEF IsCut

\* A prefix has the first elements.
LEMMA PrefixElements ==
    ASSUME NEW s \in Seq(Chars), NEW t \in Seq(Chars),
           Len(s) <= Len(t), \A i \in 1..Len(s) : s[i] = t[i]
    PROVE  IsPrefix(s, t)
<1>1. PICK n \in Nat : n = Len(s) /\ n <= Len(t)
  BY LenProperties
<1>2. SubSeq(s, 1, n) \in Seq(Chars) /\ Len(SubSeq(s, 1, n)) = n
  BY <1>1
<1>3. SubSeq(t, 1, n) \in Seq(Chars) /\ Len(SubSeq(t, 1, n)) = n
  BY <1>1
<1>4. \A i \in 1..n : SubSeq(s, 1, n)[i] = SubSeq(t, 1, n)[i]
  BY <1>1
<1>5. SubSeq(s, 1, n) = SubSeq(t, 1, n)
  BY <1>2, <1>3, <1>4, SeqEqual
<1> QED
  BY <1>1, <1>5 DEF IsPrefix

\* A stream that has sent s sends what is new of the first n elements of s \o t.
LEMMA SentProperties ==
    ASSUME NEW s \in Seq(Chars), NEW t \in Seq(Chars), NEW whole, whole = s \o t,
           NEW final, NEW n \in Nat, IsCut(final, whole, n), NEW out, out = s \o NewText(final, s)
    PROVE  /\ IsPrefix(final, out) /\ IsPrefix(out, whole)
           /\ final = whole => out = whole
<1>1. PICK ls \in Nat : ls = Len(s)
  BY LenProperties
<1>2. /\ whole \in Seq(Chars) /\ ls <= Len(whole)
      /\ \A i \in 1..ls : whole[i] = s[i]
  BY <1>1, ConcatElements
<1>3. /\ final \in Seq(Chars) /\ Len(final) = n /\ n <= Len(whole)
      /\ \A i \in 1..n : final[i] = whole[i]
  BY <1>2 DEF IsCut
<1>4. CASE n <= ls
  <2>1. SubSeq(final, ls + 1, n) = << >>
    BY <1>1, <1>3, <1>4
  <2>2. out = s
    BY <1>1, <1>3, <2>1, ConcatEmptySeq DEF NewText
  <2>3. IsPrefix(final, s)
    <3>1. ASSUME NEW i \in 1..Len(final)
          PROVE  final[i] = s[i]
      <4>1. i \in 1..n /\ i \in 1..ls
        BY <1>3, <1>4
      <4>2. final[i] = whole[i] /\ whole[i] = s[i]
        BY <1>2, <1>3, <4>1
      <4> QED
        BY <4>2
    <3> QED
      BY <1>1, <1>3, <1>4, <3>1, PrefixElements
  <2>4. IsPrefix(s, whole)
    BY <1>1, <1>2, PrefixElements
  <2>5. final = whole => s = whole
    <3> SUFFICES ASSUME final = whole
                 PROVE  s = whole
      OBVIOUS
    <3>1. ls = Len(whole)
      BY <1>2, <1>3, <1>4
    <3> QED
      BY <1>1, <1>2, <3>1, SeqEqual
  <2> QED
    BY <2>2, <2>3, <2>4, <2>5
<1>5. CASE n > ls
  <2>1. PICK new : new = NewText(final, s)
    OBVIOUS
  <2>2. IsPart(new, final, (ls + 1) - 1, n - (ls + 1) + 1)
    <3>1. ls + 1 \in 1..(n + 1)
      BY <1>5
    <3>2. new = SubSeq(final, ls + 1, Len(final))
      BY <1>1, <2>1 DEF NewText
    <3> QED
      BY <1>3, <3>1, <3>2, FromProperties
  <2>3. (ls + 1) - 1 = ls /\ n - (ls + 1) + 1 = n - ls
    OBVIOUS
  <2>4. /\ new \in Seq(Chars) /\ Len(new) = n - ls
        /\ \A i \in 1..(n - ls) : new[i] = final[ls + i]
    BY <2>2, <2>3 DEF IsPart
  <2>5. /\ out \in Seq(Chars) /\ Len(out) = n
        /\ \A i \in 1..ls : out[i] = s[i]
        /\ \A i \in 1..(n - ls) : out[ls + i] = new[i]
    <3>1. PICK k \in Nat : k = n - ls /\ ls + k = n
      BY <1>5
    <3>2. out = s \o new /\ new \in Seq(Chars) /\ Len(new) = k
      BY <2>1, <2>4, <3>1
    <3>3. /\ out \in Seq(Chars) /\ Len(out) = ls + k
          /\ \A i \in 1..ls : out[i] = s[i]
          /\ \A i \in 1..k : out[ls + i] = new[i]
      <4>1. /\ s \o new \in Seq(Chars) /\ Len(s \o new) = Len(s) + Len(new)
            /\ \A i \in 1..Len(s) : (s \o new)[i] = s[i]
            /\ \A i \in 1..Len(new) : (s \o new)[Len(s) + i] = new[i]
        BY <3>2, ConcatElements, Zenon
      <4> QED
        BY <1>1, <3>2, <4>1, Zenon
    <3> QED
      BY <3>1, <3>3
  <2>6. ASSUME NEW i \in 1..n
        PROVE  out[i] = final[i]
    <3>1. CASE i <= ls
      <4>1. i \in 1..ls
        BY <3>1
      <4>2. out[i] = s[i] /\ final[i] = whole[i] /\ whole[i] = s[i]
        BY <1>2, <1>3, <2>5, <4>1
      <4> QED
        BY <4>2
    <3>2. CASE i > ls
      <4>1. PICK j \in 1..(n - ls) : i = ls + j
        <5> DEFINE j == i - ls
        <5>1. j \in 1..(n - ls) /\ i = ls + j
          BY <3>2
        <5> QED
          BY <5>1
      <4>2. out[ls + j] = new[j] /\ new[j] = final[ls + j]
        BY <2>4, <2>5
      <4> QED
        BY <4>1, <4>2, Zenon
    <3>3. i <= ls \/ i > ls
      OBVIOUS
    <3> QED
      BY <3>1, <3>2, <3>3, Zenon
  <2>7. out = final
    BY <1>3, <2>5, <2>6, SeqEqual
  <2>8. IsPrefix(final, final)
    <3>1. Len(final) <= Len(final)
      BY <1>3
    <3> QED
      BY <1>3, <3>1, PrefixElements
  <2>9. IsPrefix(final, whole)
    BY <1>2, <1>3, PrefixElements
  <2> QED
    BY <2>7, <2>8, <2>9
<1> QED
  BY <1>1, <1>4, <1>5

-----------------------------------------------------------------------------
\* The inductive invariant: what the window is and what it has been found not to
\* contain.
StopInv ==
    /\ stop_sequences \in StopChoices
    /\ generated_text \in Seq(Chars)
    /\ stop_window = LastOf(generated_text, max_stop_sequence_chars(stop_sequences))
    /\ condition \in {"None", "MaxTokens"} =>
          generated_text = << >> \/ Matches(stop_window, stop_sequences) = {}
    /\ CutsBeforeAStop
    /\ tokens \in Seq(TokenIds)
    /\ condition = "None" => Len(tokens) < MaxTokens
    /\ text \in Seq(Chars)
    /\ condition = "None" => sent = generated_text
    /\ StreamMatchesText

\* It holds before the first token.
LEMMA StopInvInit == StopInit => StopInv
<1> SUFFICES ASSUME StopInit
             PROVE  StopInv
  OBVIOUS
<1>1. stop_sequences \in StopChoices /\ generated_text = << >> /\ condition = "None"
  BY DEF StopInit
<1>2. stop_window = LastOf(<< >>, max_stop_sequence_chars(stop_sequences))
  <2>1. PICK n \in Nat : n = max_stop_sequence_chars(stop_sequences)
    BY <1>1, LongestBounds
  <2>2. Smaller(0, n) = 0
    BY DEF Smaller
  <2>3. LastOf(<< >>, n) = << >>
    BY <2>2 DEF LastOf
  <2> QED
    BY <2>1, <2>3 DEF StopInit
<1>3. generated_text \in Seq(Chars) /\ text = generated_text /\ sent = generated_text
  BY DEF StopInit
<1>4. IsPrefix(generated_text, generated_text)
  BY <1>3, PrefixElements
<1>5. tokens \in Seq(TokenIds) /\ Len(tokens) < MaxTokens
  BY StopAssumption DEF StopInit
<1> QED
  BY <1>1, <1>2, <1>3, <1>4, <1>5 DEF StopInv, CutsBeforeAStop, StreamMatchesText

\* What the generated tokens decode to, together and the last one alone, is text.
LEMMA DecodesToText ==
    ASSUME tokens \in Seq(TokenIds), Len(tokens) < MaxTokens, NEW token_id \in TokenIds
    PROVE  /\ Decode(<<token_id>>) \in Seq(Chars)
           /\ Append(tokens, token_id) \in Seq(TokenIds)
           /\ Len(Append(tokens, token_id)) = Len(tokens) + 1
           /\ Decode(Append(tokens, token_id)) \in Seq(Chars)
<1>1. PICK n \in Nat : n = Len(tokens) + 1
  OBVIOUS
<1>2. Append(tokens, token_id) \in Seq(TokenIds) /\ Len(Append(tokens, token_id)) = n
  BY <1>1
<1>3. n \in 1..MaxTokens /\ 1 \in 1..MaxTokens
  BY <1>1, StopAssumption
<1>4. Append(tokens, token_id) \in [1..n -> TokenIds]
  BY <1>2, LenProperties, Zenon
<1>5. <<token_id>> \in [1..1 -> TokenIds]
  OBVIOUS
<1> QED
  BY <1>1, <1>2, <1>3, <1>4, <1>5, StopAssumption

\* Every token keeps it.
LEMMA GenerateKeepsStopInv ==
    ASSUME StopInv, NEW token_id \in TokenIds, Generate(token_id)
    PROVE  StopInv'
<1> DEFINE token_text == Decode(<<token_id>>)
           all == Append(tokens, token_id)
           n == max_stop_sequence_chars(stop_sequences)
           window == append_stop_window(stop_window, token_text, n)
           eos == token_id \in EosTokenIds
           cond == check_termination(eos, Len(all), window, stop_sequences)
           final == IF cond = "StopSequence"
                    THEN Truncated(generated_text', window, stop_sequences)
                    ELSE generated_text'
<1>0. /\ tokens \in Seq(TokenIds) /\ Len(tokens) < MaxTokens
      /\ token_text \in Seq(Chars) /\ all \in Seq(TokenIds) /\ Decode(all) \in Seq(Chars)
  <2>1. tokens \in Seq(TokenIds) /\ Len(tokens) < MaxTokens
    BY DEF StopInv, Generate
  <2> QED
    BY <2>1, DecodesToText
<1>1. /\ stop_sequences \in StopChoices /\ generated_text \in Seq(Chars)
      /\ stop_window = LastOf(generated_text, n)
  BY DEF StopInv
<1>2. /\ generated_text' = generated_text \o token_text
      /\ stop_window' = window
      /\ condition' = cond
      /\ tokens' = all
      /\ text' = IF stop_sequences = {} THEN Decode(all) ELSE final
      /\ sent' = sent \o NewText(final, sent)
      /\ sent = generated_text
      /\ stop_sequences' = stop_sequences
  BY DEF Generate, StopInv
<1>13. tokens' \in Seq(TokenIds) /\ (condition' = "None" => Len(tokens') < MaxTokens)
  <2>1. cond = "None" => ~(Len(all) >= MaxTokens)
    BY DEF check_termination
  <2>2. Len(all) \in Nat /\ MaxTokens \in Nat
    BY <1>0, StopAssumption
  <2> QED
    BY <1>0, <1>2, <2>1, <2>2
<1> HIDE DEF token_text, all, eos
<1>3. generated_text' \in Seq(Chars)
  BY <1>0, <1>1, <1>2, ConcatElements
<1>4. stop_window' = LastOf(generated_text', n)
  <2>1. n \in Nat
    BY <1>1, LongestBounds
  <2> QED
    BY <1>0, <1>1, <1>2, <2>1, AppendKeepsWindow
<1>5. condition' \in {"None", "MaxTokens"} => Matches(stop_window', stop_sequences) = {}
  BY <1>2 DEF check_termination
<1>6. condition' = "StopSequence" => Matches(stop_window', stop_sequences) # {}
  BY <1>2 DEF check_termination
<1>14. condition' = "StopSequence" => stop_sequences # {} /\ text' = final
  <2>1. stop_sequences = {} => Matches(stop_window', stop_sequences) = {}
    BY DEF Matches
  <2> QED
    BY <1>2, <1>6, <2>1
<1>7. CutsBeforeAStop'
  <2> SUFFICES ASSUME condition' = "StopSequence"
               PROVE  /\ IsPrefix(text', generated_text')
                      /\ Len(text') \in Matches(generated_text', stop_sequences')
                      /\ \A seq \in Stops' : \A pos \in Occurrences(seq, generated_text') :
                            pos + Len(seq) = Len(generated_text') => Len(text') <= pos
    BY DEF CutsBeforeAStop
  <2>1. text' = Truncated(generated_text', stop_window', stop_sequences)
    BY <1>2, <1>14
  <2>2. /\ IsPrefix(text', generated_text')
        /\ Len(text') \in Matches(generated_text', stop_sequences)
        /\ \A seq \in stop_sequences : \A pos \in Occurrences(seq, generated_text') :
              pos + Len(seq) = Len(generated_text') => Len(text') <= pos
    BY <1>1, <1>3, <1>4, <1>6, <2>1, TruncatedProperties
  <2>3. Stops' \subseteq stop_sequences
    BY <1>2 DEF Stops
  <2> QED
    BY <1>2, <2>2, <2>3
<1>8. PICK m \in Nat : IsCut(final, generated_text', m)
  <2>1. CASE condition' = "StopSequence"
    <3>1. final = Truncated(generated_text', stop_window', stop_sequences)
      BY <1>2, <2>1
    <3> QED
      BY <1>1, <1>3, <1>4, <1>6, <2>1, <3>1, TruncatedProperties
  <2>2. CASE condition' # "StopSequence"
    <3>1. PICK m \in Nat : m = Len(generated_text')
      BY <1>3, LenProperties
    <3>2. generated_text' = SubSeq(generated_text', 1, m)
      BY <1>3, <3>1
    <3>3. IsCut(generated_text', generated_text', m)
      BY <3>1, <3>2 DEF IsCut
    <3> QED
      BY <1>2, <2>2, <3>3
  <2> QED
    BY <2>1, <2>2
<1>15. condition' # "StopSequence" => final = generated_text'
  BY <1>2
<1> HIDE DEF final
<1>9. /\ IsPrefix(final, sent') /\ IsPrefix(sent', generated_text')
      /\ final = generated_text' => sent' = generated_text'
  <2>1. sent' = generated_text \o NewText(final, generated_text)
    BY <1>2
  <2>2. generated_text' = generated_text \o token_text
    BY <1>2
  <2>3. /\ generated_text \in Seq(Chars) /\ token_text \in Seq(Chars)
    BY <1>0, <1>1
  <2> QED
    BY <1>8, <2>1, <2>2, <2>3, SentProperties
<1>10. condition' # "StopSequence" => sent' = generated_text'
  BY <1>9, <1>15
<1>12. text' \in Seq(Chars)
  <2>1. final \in Seq(Chars)
    BY <1>3, <1>8 DEF IsCut
  <2> QED
    BY <1>0, <1>2, <2>1
<1>16. ASSUME stop_sequences' # {} \/ Decode(tokens') = generated_text'
       PROVE  IsPrefix(text', sent') /\ (condition' # "StopSequence" => sent' = text')
  <2>1. text' = final
    <3>1. CASE stop_sequences # {}
      BY <1>2, <3>1
    <3>2. CASE stop_sequences = {}
      <4>1. text' = generated_text'
        BY <1>2, <1>16, <3>2
      <4>2. condition' # "StopSequence"
        BY <1>14, <3>2
      <4> QED
        BY <1>15, <4>1, <4>2
    <3> QED
      BY <3>1, <3>2
  <2> QED
    BY <1>9, <1>10, <1>15, <2>1
<1>11. StreamMatchesText' /\ (condition' = "None" => sent' = generated_text')
  BY <1>9, <1>10, <1>16 DEF StreamMatchesText
<1> QED
  BY <1>1, <1>2, <1>3, <1>4, <1>5, <1>7, <1>11, <1>12, <1>13 DEF StopInv

\* So does every step: only a token changes the text.
LEMMA StopInvStep == StopInv /\ [CompletionNext]_completionVars => StopInv'
<1> SUFFICES ASSUME StopInv, [CompletionNext]_completionVars
             PROVE  StopInv'
  OBVIOUS
<1>1. CASE GenerateAny
  BY <1>1, GenerateKeepsStopInv DEF GenerateAny
<1>2. CASE UNCHANGED stopVars
  BY <1>2 DEF StopInv, CutsBeforeAStop, StreamMatchesText, Stops, stopVars
<1>3. GenerateAny \/ UNCHANGED stopVars
  BY DEF CompletionNext, GenerateToken, ParseToolCalls, Respond, Answered, completionVars
<1> QED
  BY <1>1, <1>2, <1>3

\* It holds throughout.
LEMMA StopInvariant == CompletionSpec => []StopInv
<1>1. CompletionInit => StopInv
  BY StopInvInit DEF CompletionInit
<1> QED
  BY <1>1, StopInvStep, PTL DEF CompletionSpec

\* The stop window is the end of the text, as long as the longest stop sequence
\* (append_stop_window), however the text was cut into tokens.
THEOREM WindowCorrect == CompletionSpec => []WindowIsEndOfText
<1>1. StopInv => WindowIsEndOfText
  BY DEF StopInv, WindowIsEndOfText, LastOf, Smaller
<1> QED
  BY <1>1, StopInvariant, PTL

\* A generation never goes on, nor reports its token limit, with a stop sequence
\* at the end of its text (check_termination looks at the window only).
THEOREM StopsAreFound == CompletionSpec => []StopAtTheEndIsFound
<1>1. StopInv => StopAtTheEndIsFound
  <2> SUFFICES ASSUME StopInv, condition \in {"None", "MaxTokens"}, NEW seq \in Stops
               PROVE  ~IsSuffix(seq, generated_text)
    BY DEF StopAtTheEndIsFound
  <2>1. seq \in stop_sequences /\ seq # << >> /\ seq \in Seq(Chars)
    BY StopAssumption DEF Stops, StopInv
  <2>2. CASE generated_text = << >>
    BY <2>1, <2>2, SuffixOfEmpty
  <2>3. CASE Matches(stop_window, stop_sequences) = {}
    BY <2>1, <2>3, NoMatchNoSuffix DEF StopInv
  <2> QED
    BY <2>2, <2>3 DEF StopInv
<1> QED
  BY <1>1, StopInvariant, PTL

\* What truncate_text_for_stop_window cuts off begins with a stop sequence, and
\* with the earliest of those that end with the text.
THEOREM CutsCorrect == CompletionSpec => []CutsBeforeAStop
<1>1. StopInv => CutsBeforeAStop
  BY DEF StopInv
<1> QED
  BY <1>1, StopInvariant, PTL

\* The fragments of a stream (get(emitted_len..)) make up all of the text that its
\* tokens decode to, up to a stop sequence: nothing is sent twice or left out.  They
\* begin with what a complete answer to the same tokens has, and are that unless a
\* stop sequence cut it, whatever the tokenizer does if the request has stop
\* sequences, and without them if decoding at once and one by one is the same.
THEOREM StreamsMatch == CompletionSpec => []StreamMatchesText
<1>1. StopInv => StreamMatchesText
  BY DEF StopInv
<1> QED
  BY <1>1, StopInvariant, PTL
-----------------------------------------------------------------------------
(***************************************************************************)
(* The tool calls of a text                                                *)
(***************************************************************************)

\* What a part of a sequence is.
LEMMA SliceProperties ==
    ASSUME NEW A, NEW s \in Seq(A), NEW p \in Nat, NEW m \in Nat, p + m <= Len(s)
    PROVE  /\ Slice(s, p, m) \in Seq(A) /\ Len(Slice(s, p, m)) = m
           /\ \A i \in 1..m : Slice(s, p, m)[i] = s[p + i]
<1>1. PICK n \in Nat : n = Len(s) /\ s \in [1..n -> A]
  BY LenProperties
<1>2. PICK q \in Nat : q = p + m /\ q <= n
  BY <1>1
<1>3. SubSeq(s, p + 1, q) = [i \in 1..m |-> s[p + i]]
  BY <1>1, <1>2, SliceIs
<1>4. \A i \in 1..m : s[p + i] \in A
  BY <1>1, <1>2
<1> QED BY <1>2, <1>3, <1>4 DEF Slice

\* A part of a part is a part.
LEMMA SliceOfSlice ==
    ASSUME NEW A, NEW s \in Seq(A), NEW p \in Nat, NEW m \in Nat, p + m <= Len(s),
           NEW q \in Nat, NEW k \in Nat, q + k <= m
    PROVE  Slice(Slice(s, p, m), q, k) = Slice(s, p + q, k)
<1>1. PICK r : r = Slice(s, p, m) /\ r \in Seq(A) /\ Len(r) = m /\ \A i \in 1..m : r[i] = s[p + i]
  BY SliceProperties
<1>2. /\ Slice(r, q, k) \in Seq(A) /\ Len(Slice(r, q, k)) = k
      /\ \A i \in 1..k : Slice(r, q, k)[i] = r[q + i]
  <2>1. r \in Seq(A) /\ q + k <= Len(r)
    BY <1>1
  <2> QED BY <2>1, SliceProperties
<1>3. p + q \in Nat /\ (p + q) + k <= Len(s)
  <2>1. Len(s) \in Nat
    BY LenProperties
  <2> QED BY <2>1
<1>4. /\ Slice(s, p + q, k) \in Seq(A) /\ Len(Slice(s, p + q, k)) = k
      /\ \A i \in 1..k : Slice(s, p + q, k)[i] = s[(p + q) + i]
  BY <1>3, SliceProperties
<1>5. ASSUME NEW i \in 1..k PROVE r[q + i] = s[(p + q) + i]
  <2>1. q + i \in 1..m /\ p + (q + i) = (p + q) + i
    OBVIOUS
  <2> QED BY <1>1, <2>1
<1>6. Slice(r, q, k) = Slice(s, p + q, k)
  BY <1>2, <1>4, <1>5, SeqEqual
<1> QED BY <1>1, <1>6

\* Two parts that follow each other.
LEMMA SlicesMeet ==
    ASSUME NEW A, NEW s \in Seq(A), NEW p \in Nat, NEW m \in Nat, NEW k \in Nat,
           p + m + k <= Len(s)
    PROVE  Slice(s, p, m) \o Slice(s, p + m, k) = Slice(s, p, m + k)
<1>1. PICK n \in Nat : n = Len(s)
  BY LenProperties
<1>2. /\ p + 1 \in 1..(n + 1) /\ p + m \in ((p + 1) - 1)..n /\ p + m + k \in (p + m)..n
      /\ p + (m + k) = p + m + k
  BY <1>1
<1>3. SubSeq(s, p + 1, p + m) \o SubSeq(s, (p + m) + 1, p + m + k) = SubSeq(s, p + 1, p + m + k)
  BY <1>1, <1>2, ConcatAdjacentSubSeq
<1> QED BY <1>2, <1>3 DEF Slice

\* A part of one element.
LEMMA SliceOfOne ==
    ASSUME NEW A, NEW s \in Seq(A), NEW p \in Nat, p + 1 <= Len(s)
    PROVE  Slice(s, p, 1) = <<s[p + 1]>> /\ s[p + 1] \in A
<1>1. Slice(s, p, 1) \in Seq(A) /\ Len(Slice(s, p, 1)) = 1 /\ Slice(s, p, 1)[1] = s[p + 1]
  <2>1. /\ Slice(s, p, 1) \in Seq(A) /\ Len(Slice(s, p, 1)) = 1
        /\ \A i \in 1..1 : Slice(s, p, 1)[i] = s[p + i]
    <3>1. 1 \in Nat
      OBVIOUS
    <3> QED BY <3>1, SliceProperties, Zenon
  <2>2. 1 \in 1..1
    OBVIOUS
  <2> QED BY <2>1, <2>2, Zenon
<1>2. p + 1 \in 1..Len(s)
  BY LenProperties
<1>3. s[p + 1] \in A
  BY <1>2, ElementOfSeq
<1>4. <<s[p + 1]>> \in Seq(A) /\ Len(<<s[p + 1]>>) = 1 /\ <<s[p + 1]>>[1] = s[p + 1]
  BY <1>3
<1> QED BY <1>1, <1>3, <1>4, SeqEqual

\* A part and the element after it.
LEMMA SliceGrows ==
    ASSUME NEW A, NEW s \in Seq(A), NEW p \in Nat, NEW i \in Nat, p + i + 1 <= Len(s)
    PROVE  Slice(s, p, i) \o <<s[(p + i) + 1]>> = Slice(s, p, i + 1)
<1>1. 1 \in Nat /\ p + i \in Nat /\ (p + i) + 1 <= Len(s)
  OBVIOUS
<1>2. Slice(s, p, i) \o Slice(s, p + i, 1) = Slice(s, p, i + 1)
  BY <1>1, SlicesMeet, Zenon
<1>3. Slice(s, p + i, 1) = <<s[(p + i) + 1]>>
  BY <1>1, SliceOfOne
<1> QED BY <1>2, <1>3

\* Three parts in one, however they are joined.
Regroups(a, b, d) == (a \o b) \o d = a \o (b \o d)

LEMMA Regrouped ==
    ASSUME NEW A, NEW a \in Seq(A), NEW b \in Seq(A), NEW d \in Seq(A)
    PROVE  Regroups(a, b, d)
BY ConcatAssociative DEF Regroups

All == Chars \cup {TOOL_CALL_OPEN, TOOL_CALL_CLOSE}

\* What a part of a text with tags shows.
Shows(t, s, p, m) == t \in Seq(All) /\ Len(t) = m /\ \A i \in 1..m : t[i] = s[p + i]

LEMMA SliceShows ==
    ASSUME NEW s \in Seq(All), NEW p \in Nat, NEW m \in Nat, p + m <= Len(s)
    PROVE  Shows(Slice(s, p, m), s, p, m)
BY SliceProperties DEF Shows

Blank == [inside |-> FALSE, block |-> << >>, out |-> << >>, calls |-> << >>]

Readers == [inside : BOOLEAN, block : Seq(All), out : Seq(All), calls : Seq(Calls)]

\* What Read does with one character.
LEMMA ReadCases ==
    ASSUME NEW st \in Readers, NEW c \in All, NEW next, next = Read(st, c)
    PROVE  /\ next \in Readers
           /\ st.inside = FALSE /\ c # TOOL_CALL_OPEN =>
                /\ next.inside = FALSE /\ next.calls = st.calls /\ next.out = st.out \o <<c>>
           /\ st.inside = FALSE /\ c = TOOL_CALL_OPEN =>
                /\ next.inside = TRUE /\ next.calls = st.calls /\ next.out = st.out
                /\ next.block = << >>
           /\ st.inside = TRUE /\ c # TOOL_CALL_CLOSE =>
                /\ next.inside = TRUE /\ next.calls = st.calls /\ next.out = st.out
                /\ next.block = st.block \o <<c>>
           /\ st.inside = TRUE /\ c = TOOL_CALL_CLOSE =>
                /\ next.inside = FALSE
                /\ trim(st.block) \in Calls =>
                      next.calls = Append(st.calls, trim(st.block)) /\ next.out = st.out
                /\ trim(st.block) \notin Calls =>
                      /\ next.calls = st.calls
                      /\ next.out = ((st.out \o <<TOOL_CALL_OPEN>>) \o st.block) \o <<TOOL_CALL_CLOSE>>
<1>1. /\ st.inside \in BOOLEAN /\ st.block \in Seq(All) /\ st.out \in Seq(All)
      /\ st.calls \in Seq(Calls)
      /\ st = [inside |-> st.inside, block |-> st.block, out |-> st.out, calls |-> st.calls]
  BY DEF Readers
<1>2. /\ TOOL_CALL_OPEN \in All /\ TOOL_CALL_CLOSE \in All
      /\ <<TOOL_CALL_CLOSE>> \in Seq(All)
  BY DEF All
<1>3. /\ Append(st.out, c) = st.out \o <<c>> /\ Append(st.out, c) \in Seq(All)
      /\ Append(st.block, c) = st.block \o <<c>> /\ Append(st.block, c) \in Seq(All)
      /\ Append(st.out, TOOL_CALL_OPEN) = st.out \o <<TOOL_CALL_OPEN>>
      /\ Append(st.out, TOOL_CALL_OPEN) \in Seq(All)
  BY <1>1, <1>2, AppendIsConcat, AppendProperties
<1>4. /\ << >> \in Seq(All)
      /\ (Append(st.out, TOOL_CALL_OPEN) \o st.block) \o <<TOOL_CALL_CLOSE>> \in Seq(All)
  BY <1>1, <1>2, <1>3, ConcatProperties
<1>5. trim(st.block) \in Calls => Append(st.calls, trim(st.block)) \in Seq(Calls)
  BY <1>1, AppendProperties
<1>6. CASE st.inside = FALSE /\ c = TOOL_CALL_OPEN
  <2>1. next = [st EXCEPT !.inside = TRUE, !.block = << >>]
    BY <1>6 DEF Read
  <2> QED BY <1>1, <1>4, <1>6, <2>1 DEF Readers
<1>7. CASE st.inside = FALSE /\ c # TOOL_CALL_OPEN
  <2>1. next = [st EXCEPT !.out = Append(st.out, c)]
    BY <1>1, <1>7 DEF Read
  <2> QED BY <1>1, <1>3, <1>7, <2>1 DEF Readers
<1>8. CASE st.inside = TRUE /\ c # TOOL_CALL_CLOSE
  <2>1. next = [st EXCEPT !.block = Append(st.block, c)]
    BY <1>1, <1>8 DEF Read
  <2> QED BY <1>1, <1>3, <1>8, <2>1 DEF Readers
<1>9. CASE st.inside = TRUE /\ c = TOOL_CALL_CLOSE /\ trim(st.block) \in Calls
  <2>1. next = [st EXCEPT !.inside = FALSE, !.calls = Append(st.calls, trim(st.block))]
    BY <1>1, <1>9 DEF Read
  <2> QED BY <1>1, <1>5, <1>9, <2>1 DEF Readers
<1>10. CASE st.inside = TRUE /\ c = TOOL_CALL_CLOSE /\ trim(st.block) \notin Calls
  <2> DEFINE back == (Append(st.out, TOOL_CALL_OPEN) \o st.block) \o <<TOOL_CALL_CLOSE>>
  <2>1. next = [st EXCEPT !.inside = FALSE, !.out = back]
    BY <1>1, <1>10 DEF Read
  <2>2. back \in Seq(All) /\ back = ((st.out \o <<TOOL_CALL_OPEN>>) \o st.block) \o <<TOOL_CALL_CLOSE>>
    BY <1>3, <1>4
  <2> HIDE DEF back
  <2> QED BY <1>1, <1>10, <2>1, <2>2 DEF Readers
<1>11. st.inside = TRUE \/ st.inside = FALSE
  BY <1>1
<1> QED BY <1>6, <1>7, <1>8, <1>9, <1>10, <1>11

\* What it does inside a block.
Keeps(st, c, next) ==
    /\ next.inside = TRUE /\ next.calls = st.calls /\ next.out = st.out
    /\ next.block = st.block \o <<c>>

LEMMA ReadInBlock ==
    ASSUME NEW st \in Readers, NEW c \in All, NEW next, next = Read(st, c),
           st.inside = TRUE, c # TOOL_CALL_CLOSE
    PROVE  Keeps(st, c, next)
BY ReadCases DEF Keeps

\* run[i] is what the reader has after the first i characters of s.
Reading(run, s) ==
    /\ run \in [0..Len(s) -> Readers]
    /\ run[0] = Blank
    /\ \A i \in 1..Len(s) : run[i] = Read(run[i - 1], s[i])

\* What the reader has in the end.
ReadEnd(s) == FoldLeft(Read, Blank, s)

\* It reads from left to right.
LEMMA ReadingExists ==
    ASSUME NEW s \in Seq(All)
    PROVE  \E run : Reading(run, s) /\ ReadEnd(s) = run[Len(s)]
<1>1. PICK n \in Nat : n = Len(s) /\ DOMAIN s = 1..n
  BY LenProperties
<1> DEFINE step == [p \in Readers \X (1..n) |-> Read(p[1], s[p[2]])]
<1>2. Blank \in Readers
  BY DEF Blank, Readers
<1>3. \A st \in Readers : \A i \in 1..n : /\ Read(st, s[i]) \in Readers
                                         /\ step[<<st, i>>] = Read(st, s[i])
  <2>1. \A i \in 1..n : s[i] \in All
    BY <1>1, ElementOfSeq
  <2> QED BY <2>1, ReadCases
<1>4. step \in [Readers \X (1..n) -> Readers]
  BY <1>3
<1> HIDE DEF step
<1>5. PICK g : FoldsOver(g, 1..n, Readers, Blank, step, LastPlace(n))
  BY <1>2, <1>4, LeftFoldExists
<1>6. \A t \in SUBSET (1..n) : t # {} =>
            Max(t) \in t /\ g[t] = Read(g[t \ {Max(t)}], s[Max(t)])
  <2> SUFFICES ASSUME NEW t \in SUBSET (1..n), t # {}
               PROVE  Max(t) \in t /\ g[t] = Read(g[t \ {Max(t)}], s[Max(t)])
    OBVIOUS
  <2>1. LastPlace(n)[t] \in t /\ Max(t) = LastPlace(n)[t]
    BY LastIsAPlace
  <2>2. g[t \ {Max(t)}] \in Readers /\ Max(t) \in 1..n
    BY <1>5, <2>1 DEF FoldsOver
  <2>3. g[t] = step[<<g[t \ {Max(t)}], Max(t)>>]
    BY <1>5, <2>1 DEF FoldsOver
  <2> QED BY <1>3, <2>1, <2>2, <2>3
<1>7. g[{}] = Blank
  BY <1>5 DEF FoldsOver
<1>8. g = [t \in SUBSET (1..n) |-> IF t = {} THEN Blank ELSE Read(g[t \ {Max(t)}], s[Max(t)])]
  BY <1>5, <1>6, <1>7 DEF FoldsOver
<1>9. PICK it : /\ it = [t \in SUBSET (1..n) |-> IF t = {} THEN Blank
                                                  ELSE Read(it[t \ {Max(t)}], s[Max(t)])]
                /\ ReadEnd(s) = it[1..n]
  BY <1>1, <1>8 DEF ReadEnd, FoldLeft, MapThenFoldSet
<1>10. it[{}] = Blank
  BY <1>9
<1>11. \A t \in SUBSET (1..n) : t # {} /\ it[t \ {Max(t)}] \in Readers =>
            it[t] = step[<<it[t \ {Max(t)}], Max(t)>>]
  <2> SUFFICES ASSUME NEW t \in SUBSET (1..n), t # {}, it[t \ {Max(t)}] \in Readers
               PROVE  it[t] = step[<<it[t \ {Max(t)}], Max(t)>>]
    OBVIOUS
  <2>1. Max(t) \in 1..n
    BY <1>6
  <2>2. it[t] = Read(it[t \ {Max(t)}], s[Max(t)])
    BY <1>9
  <2> QED BY <1>3, <2>1, <2>2
<1>12. PICK run : IsRun(run, n, Readers, Blank, step) /\ EndsAs(run, it, n)
  <2>1. TakesLast(it, n, Readers, Blank, step)
    BY <1>10, <1>11 DEF TakesLast
  <2> QED BY <1>2, <1>4, <2>1, LeftFoldRuns
<1>13. ASSUME NEW i \in 1..n PROVE run[i] = Read(run[i - 1], s[i])
  <2>1. run[i] = step[<<run[i - 1], i>>] /\ run[i - 1] \in Readers
    BY <1>12 DEF IsRun
  <2> QED BY <1>3, <2>1
<1>14. run \in [0..n -> Readers] /\ run[0] = Blank
  BY <1>12 DEF IsRun
<1>15. Reading(run, s)
  BY <1>1, <1>13, <1>14 DEF Reading
<1>16. ReadEnd(s) = run[Len(s)]
  BY <1>1, <1>9, <1>12 DEF EndsAs
<1> QED BY <1>15, <1>16

\* What a reading has after one more character.
LEMMA ReadingStep ==
    ASSUME NEW s \in Seq(All), NEW run, Reading(run, s), NEW i \in Nat, i + 1 <= Len(s)
    PROVE  /\ run[i] \in Readers /\ s[i + 1] \in All
           /\ run[i + 1] = Read(run[i], s[i + 1]) /\ run[i + 1] \in Readers
<1>1. PICK n \in Nat : n = Len(s)
  BY LenProperties
<1>2. i \in 0..n /\ i + 1 \in 1..n /\ i + 1 \in 0..n /\ (i + 1) - 1 = i
  BY <1>1
<1>3. s[i + 1] \in All
  BY <1>1, <1>2, ElementOfSeq
<1> QED BY <1>1, <1>2, <1>3 DEF Reading

\* c is not among the m characters of s after the first p.
Lacks(s, p, m, c) == \A i \in 1..m : s[p + i] # c

\* What the reader has of those m characters, outside a block and inside one.
Copied(run, s, p, m) ==
    /\ run[p + m].inside = FALSE /\ run[p + m].calls = run[p].calls
    /\ run[p + m].out = run[p].out \o Slice(s, p, m)
Kept(run, s, p, m) ==
    /\ run[p + m].inside = TRUE /\ run[p + m].calls = run[p].calls
    /\ run[p + m].out = run[p].out
    /\ run[p + m].block = Slice(s, p, m)

\* Between two calls the reader copies the text.
LEMMA ReadsText ==
    ASSUME NEW s \in Seq(All), NEW run, Reading(run, s),
           NEW p \in Nat, NEW m \in Nat, p + m <= Len(s), run[p].inside = FALSE,
           Lacks(s, p, m, TOOL_CALL_OPEN)
    PROVE  Copied(run, s, p, m)
<1> DEFINE Good(i) == Copied(run, s, p, i)
           T == {i \in Nat : i <= m => Good(i)}
<1>1. PICK n \in Nat : n = Len(s)
  BY LenProperties
<1>2. run[p] \in Readers
  BY <1>1 DEF Reading
<1>3. run[p].out \in Seq(All)
  BY <1>2 DEF Readers
<1>4. 0 \in T
  <2>1. Slice(s, p, 0) = << >>
    BY SubSeqEmpty DEF Slice
  <2>2. run[p].out \o << >> = run[p].out
    BY <1>3, ConcatEmptySeq
  <2>3. p + 0 = p
    OBVIOUS
  <2>4. Good(0)
    BY <2>1, <2>2, <2>3 DEF Copied
  <2> HIDE DEF Good
  <2> QED BY <2>4
<1>5. ASSUME NEW i \in Nat, i \in T PROVE i + 1 \in T
  <2> HIDE DEF Good
  <2> SUFFICES ASSUME i + 1 <= m PROVE Good(i + 1)
    OBVIOUS
  <2>1. /\ p + i \in Nat /\ (p + i) + 1 <= n /\ p + (i + 1) = (p + i) + 1 /\ p + i + 1 <= n
        /\ i <= m /\ i + 1 \in 1..m /\ p + i <= n
    BY <1>1
  <2>2. Good(i)
    BY <1>5, <2>1
  <2> USE DEF Good, Copied
  <2>11. p + i <= Len(s) /\ (p + i) + 1 <= Len(s) /\ p + i + 1 <= Len(s)
    BY <1>1, <2>1
  <2>3. /\ run[p + i] \in Readers /\ s[(p + i) + 1] \in All
        /\ run[(p + i) + 1] = Read(run[p + i], s[(p + i) + 1])
    BY <2>1, <2>11, ReadingStep
  <2>4. s[(p + i) + 1] # TOOL_CALL_OPEN
    BY <2>1 DEF Lacks
  <2>5. PICK old, new, c : old = run[p + i] /\ new = run[(p + i) + 1] /\ c = s[(p + i) + 1]
    OBVIOUS
  <2>6. new.inside = FALSE /\ new.calls = old.calls /\ new.out = old.out \o <<c>>
    <3>1. old \in Readers /\ c \in All /\ new = Read(old, c) /\ old.inside = FALSE /\ c # TOOL_CALL_OPEN
      BY <2>2, <2>3, <2>4, <2>5
    <3> QED BY <3>1, ReadCases, Zenon
  <2>7. Slice(s, p, i) \in Seq(All) /\ Slice(s, p, i) \o <<c>> = Slice(s, p, i + 1) /\ <<c>> \in Seq(All)
    <3>1. Slice(s, p, i) \o <<s[(p + i) + 1]>> = Slice(s, p, i + 1)
      BY <2>11, SliceGrows
    <3>3. Slice(s, p, i) \in Seq(All)
      BY <2>11, SliceProperties
    <3>4. <<c>> \in Seq(All)
      BY <2>3, <2>5
    <3> QED BY <2>5, <3>1, <3>3, <3>4
  <2>8. (run[p].out \o Slice(s, p, i)) \o <<c>> = run[p].out \o Slice(s, p, i + 1)
    <3>1. PICK a, b, d, bd : /\ a = run[p].out /\ b = Slice(s, p, i) /\ d = <<c>>
                             /\ bd = Slice(s, p, i + 1)
      OBVIOUS
    <3>2. a \in Seq(All) /\ b \in Seq(All) /\ d \in Seq(All) /\ b \o d = bd
      BY <1>3, <2>7, <3>1, Zenon
    <3>3. Regroups(a, b, d)
      BY <3>2, Regrouped
    <3> QED BY <3>1, <3>2, <3>3, Zenon DEF Regroups
  <2>9. new.out = run[p].out \o Slice(s, p, i + 1)
    BY <2>2, <2>5, <2>6, <2>8
  <2> QED BY <2>1, <2>2, <2>5, <2>6, <2>9
<1> HIDE DEF T
<1>6. m \in T
  BY <1>4, <1>5, NaturalsReached
<1> QED BY <1>6 DEF T

\* Inside a block the reader keeps the text apart.
LEMMA ReadsBlock ==
    ASSUME NEW s \in Seq(All), NEW run, Reading(run, s),
           NEW p \in Nat, NEW m \in Nat, p + m <= Len(s),
           run[p].inside = TRUE, run[p].block = << >>,
           Lacks(s, p, m, TOOL_CALL_CLOSE)
    PROVE  Kept(run, s, p, m)
<1> DEFINE Good(i) == Kept(run, s, p, i)
           T == {i \in Nat : i <= m => Good(i)}
<1>1. PICK n \in Nat : n = Len(s)
  BY LenProperties
<1>4. 0 \in T
  <2>1. Slice(s, p, 0) = << >>
    BY SubSeqEmpty DEF Slice
  <2>3. Good(0)
    <3>1. p + 0 = p
      OBVIOUS
    <3> QED BY <2>1, <3>1 DEF Kept
  <2> QED BY <2>3
<1>5. ASSUME NEW i \in Nat, i \in T PROVE i + 1 \in T
  <2> HIDE DEF Good
  <2> SUFFICES ASSUME i + 1 <= m PROVE Good(i + 1)
    OBVIOUS
  <2>1. /\ p + i \in Nat /\ (p + i) + 1 <= n /\ p + (i + 1) = (p + i) + 1 /\ p + i + 1 <= n
        /\ i <= m /\ i + 1 \in 1..m /\ p + i <= n
    BY <1>1
  <2>2. Good(i)
    BY <1>5, <2>1
  <2> USE DEF Good, Kept
  <2>11. p + i <= Len(s) /\ (p + i) + 1 <= Len(s) /\ p + i + 1 <= Len(s)
    BY <1>1, <2>1
  <2>3. /\ run[p + i] \in Readers /\ s[(p + i) + 1] \in All
        /\ run[(p + i) + 1] = Read(run[p + i], s[(p + i) + 1])
    BY <2>1, <2>11, ReadingStep
  <2>4. s[(p + i) + 1] # TOOL_CALL_CLOSE
    BY <2>1 DEF Lacks
  <2>5. PICK old, new, c : old = run[p + i] /\ new = run[(p + i) + 1] /\ c = s[(p + i) + 1]
    OBVIOUS
  <2>6. /\ new.inside = TRUE /\ new.calls = old.calls /\ new.out = old.out
        /\ new.block = old.block \o <<c>>
    <3>1. old \in Readers /\ c \in All /\ new = Read(old, c) /\ old.inside = TRUE /\ c # TOOL_CALL_CLOSE
      BY <2>2, <2>3, <2>4, <2>5
    <3>2. Keeps(old, c, new)
      BY <3>1, ReadInBlock
    <3> QED BY <3>2 DEF Keeps
  <2>7. Slice(s, p, i) \o <<c>> = Slice(s, p, i + 1)
    <3>1. Slice(s, p, i) \o <<s[(p + i) + 1]>> = Slice(s, p, i + 1)
      BY <2>11, SliceGrows
    <3> QED BY <2>5, <3>1
  <2>9. new.block = Slice(s, p, i + 1)
    BY <2>2, <2>5, <2>6, <2>7
  <2> QED BY <2>1, <2>2, <2>5, <2>6, <2>9
<1> HIDE DEF T
<1>6. m \in T
  BY <1>4, <1>5, NaturalsReached
<1> QED BY <1>6 DEF T

\* c is first found in r, the k characters of s after the first p, after m others
\* and before l others.
FirstAfter(r, c, s, p, k, m, l) ==
    /\ m + 1 + l = k
    /\ Before(r, Find(r, c)) = Slice(s, p, m)
    /\ s[(p + m) + 1] = c
    /\ Lacks(s, p, m, c)
    /\ After(r, Find(r, c)) = Slice(s, (p + m) + 1, l)

LEMMA CutAtFirst ==
    ASSUME NEW A, NEW s \in Seq(A), NEW p \in Nat, NEW k \in Nat, p + k <= Len(s),
           NEW r, r = Slice(s, p, k), NEW c, Has(r, c)
    PROVE  \E m \in Nat, l \in Nat : FirstAfter(r, c, s, p, k, m, l)
<1>1. r \in Seq(A) /\ Len(r) = k /\ (\A i \in 1..k : r[i] = s[p + i]) /\ DOMAIN r = 1..k
  <2>1. r \in Seq(A) /\ Len(r) = k /\ \A i \in 1..k : r[i] = s[p + i]
    BY SliceProperties
  <2> QED BY <2>1, LenProperties
<1> DEFINE T == {i \in DOMAIN r : r[i] = c}
<1>2. T \in SUBSET Nat /\ T # {}
  BY <1>1 DEF Has
<1>3. PICK o : o = Find(r, c) /\ o \in T /\ \A y \in T : o <= y
  BY <1>2, MinOfNaturals DEF Find
<1>4. o \in 1..k /\ r[o] = c /\ \A i \in 1..k : r[i] = c => o <= i
  BY <1>1, <1>3
<1>5. PICK m \in Nat, l \in Nat : m + 1 = o /\ m + 1 + l = k /\ m <= k
  <2>1. o - 1 \in Nat /\ k - o \in Nat /\ (o - 1) + 1 = o /\ (o - 1) + 1 + (k - o) = k /\ o - 1 <= k
    BY <1>4
  <2> QED BY <2>1
<1>6. s[(p + m) + 1] = c
  <2>1. p + o = (p + m) + 1
    BY <1>4, <1>5
  <2> QED BY <1>1, <1>4, <2>1
<1>7. ASSUME NEW i \in 1..m PROVE s[p + i] # c
  <2>1. i \in 1..k /\ ~(o <= i)
    BY <1>4, <1>5
  <2> QED BY <1>1, <1>4, <2>1
<1>8. Before(r, o) = Slice(s, p, m)
  <2>1. o - 1 = 0 + m /\ 0 + 1 = 1 /\ p + 0 = p /\ 0 + m <= k /\ 0 \in Nat
    BY <1>4, <1>5
  <2>2. Before(r, o) = Slice(r, 0, m)
    BY <2>1 DEF Before, Slice
  <2>3. Slice(Slice(s, p, k), 0, m) = Slice(s, p + 0, m)
    BY <2>1, SliceOfSlice
  <2> QED BY <2>1, <2>2, <2>3
<1>9. After(r, o) = Slice(s, (p + m) + 1, l)
  <2>1. o + l = k /\ o \in Nat /\ p + o = (p + m) + 1 /\ o + l <= k
    BY <1>4, <1>5
  <2>2. After(r, o) = Slice(r, o, l)
    BY <1>1, <2>1 DEF After, Slice
  <2>3. Slice(Slice(s, p, k), o, l) = Slice(s, p + o, l)
    BY <2>1, SliceOfSlice
  <2> QED BY <2>1, <2>2, <2>3
<1>10. FirstAfter(r, c, s, p, k, m, l)
  BY <1>3, <1>5, <1>6, <1>7, <1>8, <1>9 DEF FirstAfter, Lacks
<1> QED BY <1>10

\* The parser has read p characters of s, and k remain.
Parsed(run, s, p, k, rest, out, calls) ==
    /\ p \in Nat /\ k \in Nat /\ p + k = Len(s) /\ rest = Slice(s, p, k)
    /\ run[p].inside = FALSE /\ run[p].out = out /\ run[p].calls = calls

\* What ClosedTag does with a block.
BlockOut(before, raw) ==
    IF trim(raw) \in Calls THEN before
    ELSE before \o <<TOOL_CALL_OPEN>> \o raw \o <<TOOL_CALL_CLOSE>>
BlockCalls(calls, raw) ==
    IF trim(raw) \in Calls THEN Append(calls, trim(raw)) ELSE calls

\* What the reader does with a tag.
Opens(st, next) ==
    next.inside = TRUE /\ next.calls = st.calls /\ next.out = st.out /\ next.block = << >>
Closes(st, next) ==
    /\ next.inside = FALSE
    /\ next.calls = BlockCalls(st.calls, st.block) /\ next.out = BlockOut(st.out, st.block)

LEMMA ReadTags ==
    ASSUME NEW st \in Readers
    PROVE  /\ st.inside = FALSE => Opens(st, Read(st, TOOL_CALL_OPEN))
           /\ st.inside = TRUE => Closes(st, Read(st, TOOL_CALL_CLOSE))
<1>1. TOOL_CALL_OPEN \in All /\ TOOL_CALL_CLOSE \in All
  BY DEF All
<1>2. ASSUME st.inside = FALSE PROVE Opens(st, Read(st, TOOL_CALL_OPEN))
  BY <1>1, <1>2, ReadCases DEF Opens
<1>3. ASSUME st.inside = TRUE PROVE Closes(st, Read(st, TOOL_CALL_CLOSE))
  <2>1. PICK next : next = Read(st, TOOL_CALL_CLOSE)
    OBVIOUS
  <2>2. next.inside = FALSE
    BY <1>1, <1>3, <2>1, ReadCases
  <2>3. CASE trim(st.block) \in Calls
    <3>1. next.calls = Append(st.calls, trim(st.block)) /\ next.out = st.out
      BY <1>1, <1>3, <2>1, <2>3, ReadCases
    <3> QED BY <2>1, <2>2, <2>3, <3>1 DEF Closes, BlockCalls, BlockOut
  <2>4. CASE trim(st.block) \notin Calls
    <3>1. /\ next.calls = st.calls
          /\ next.out = ((st.out \o <<TOOL_CALL_OPEN>>) \o st.block) \o <<TOOL_CALL_CLOSE>>
      BY <1>1, <1>3, <2>1, <2>4, ReadCases
    <3> QED BY <2>1, <2>2, <2>4, <3>1 DEF Closes, BlockCalls, BlockOut
  <2> QED BY <2>3, <2>4
<1> QED BY <1>2, <1>3

\* A block that is closed: the parser and the reader do the same with it.
LEMMA ReadsClosed ==
    ASSUME NEW s \in Seq(All), NEW run, Reading(run, s),
           NEW p, NEW k, NEW rest, NEW out, NEW calls, Parsed(run, s, p, k, rest, out, calls),
           Has(rest, TOOL_CALL_OPEN),
           NEW after, after = After(rest, Find(rest, TOOL_CALL_OPEN)),
           Has(after, TOOL_CALL_CLOSE),
           NEW before, before = out \o Before(rest, Find(rest, TOOL_CALL_OPEN)),
           NEW raw, raw = Before(after, Find(after, TOOL_CALL_CLOSE))
    PROVE  \E q, l : Parsed(run, s, q, l, After(after, Find(after, TOOL_CALL_CLOSE)),
                            BlockOut(before, raw), BlockCalls(calls, raw))
<1>1. /\ p \in Nat /\ k \in Nat /\ p + k = Len(s) /\ rest = Slice(s, p, k)
      /\ run[p].inside = FALSE /\ run[p].out = out /\ run[p].calls = calls
  BY DEF Parsed
<1>2. p + k <= Len(s)
  BY <1>1
<1>13. PICK m \in Nat, l1 \in Nat : FirstAfter(rest, TOOL_CALL_OPEN, s, p, k, m, l1)
  BY <1>1, <1>2, CutAtFirst
<1>3. /\ m + 1 + l1 = k
      /\ Before(rest, Find(rest, TOOL_CALL_OPEN)) = Slice(s, p, m)
      /\ s[(p + m) + 1] = TOOL_CALL_OPEN
      /\ Lacks(s, p, m, TOOL_CALL_OPEN)
      /\ after = Slice(s, (p + m) + 1, l1)
  BY <1>13 DEF FirstAfter
<1>4. PICK open \in Nat : open = (p + m) + 1 /\ open + l1 = Len(s) /\ open + l1 <= Len(s)
  BY <1>1, <1>3
<1>14. PICK j \in Nat, l \in Nat : FirstAfter(after, TOOL_CALL_CLOSE, s, open, l1, j, l)
  <2>1. after = Slice(s, open, l1)
    BY <1>3, <1>4
  <2> QED BY <1>4, <2>1, CutAtFirst
<1>5. /\ j + 1 + l = l1
      /\ raw = Slice(s, open, j)
      /\ s[(open + j) + 1] = TOOL_CALL_CLOSE
      /\ Lacks(s, open, j, TOOL_CALL_CLOSE)
      /\ After(after, Find(after, TOOL_CALL_CLOSE)) = Slice(s, (open + j) + 1, l)
  BY <1>14 DEF FirstAfter
<1>6. /\ p + m \in Nat /\ p + m <= Len(s) /\ (p + m) + 1 <= Len(s)
      /\ open + j \in Nat /\ open + j <= Len(s) /\ (open + j) + 1 <= Len(s)
      /\ (open + j) + 1 \in Nat /\ ((open + j) + 1) + l = Len(s)
  <2>1. PICK n \in Nat : n = Len(s)
    BY LenProperties
  <2> QED BY <1>1, <1>3, <1>4, <1>5, <2>1
<1>7. /\ run[p + m].inside = FALSE /\ run[p + m].calls = calls
      /\ run[p + m].out = before
  <2>1. Copied(run, s, p, m)
    BY <1>1, <1>3, <1>6, ReadsText
  <2> QED BY <1>1, <1>3, <2>1 DEF Copied
<1>8. /\ run[open].inside = TRUE /\ run[open].calls = calls
      /\ run[open].out = before /\ run[open].block = << >>
  <2>1. run[p + m] \in Readers /\ run[open] = Read(run[p + m], TOOL_CALL_OPEN)
    BY <1>3, <1>4, <1>6, ReadingStep
  <2>2. Opens(run[p + m], run[open])
    BY <1>7, <2>1, ReadTags
  <2> QED BY <1>7, <2>2 DEF Opens
<1>9. /\ run[open + j].inside = TRUE /\ run[open + j].calls = calls
      /\ run[open + j].out = before /\ run[open + j].block = raw
  <2>1. Kept(run, s, open, j)
    BY <1>5, <1>6, <1>8, ReadsBlock
  <2> QED BY <1>5, <1>8, <2>1 DEF Kept
<1>10. /\ run[(open + j) + 1].inside = FALSE
       /\ run[(open + j) + 1].calls = BlockCalls(calls, raw)
       /\ run[(open + j) + 1].out = BlockOut(before, raw)
  <2>1. run[open + j] \in Readers /\ run[(open + j) + 1] = Read(run[open + j], TOOL_CALL_CLOSE)
    BY <1>5, <1>6, ReadingStep
  <2>2. Closes(run[open + j], run[(open + j) + 1])
    BY <1>9, <2>1, ReadTags
  <2> QED BY <1>9, <2>2 DEF Closes
<1>11. Parsed(run, s, (open + j) + 1, l, After(after, Find(after, TOOL_CALL_CLOSE)),
              BlockOut(before, raw), BlockCalls(calls, raw))
  BY <1>5, <1>6, <1>10 DEF Parsed
<1> QED BY <1>11

\* What a reader has read, and what it has of a block that is not closed.
AllText(end) == IF end.inside THEN Append(end.out, TOOL_CALL_OPEN) \o end.block ELSE end.out

\* Without another block the parser and the reader end with the rest.
LEMMA ReadsRest ==
    ASSUME NEW s \in Seq(All), NEW run, Reading(run, s),
           NEW p, NEW k, NEW rest, NEW out, NEW calls, Parsed(run, s, p, k, rest, out, calls),
           Has(rest, TOOL_CALL_OPEN) =>
                ~Has(After(rest, Find(rest, TOOL_CALL_OPEN)), TOOL_CALL_CLOSE)
    PROVE  run[Len(s)].calls = calls /\ AllText(run[Len(s)]) = out \o rest
<1>1. /\ p \in Nat /\ k \in Nat /\ p + k = Len(s) /\ rest = Slice(s, p, k)
      /\ run[p].inside = FALSE /\ run[p].out = out /\ run[p].calls = calls
  BY DEF Parsed
<1>2. /\ p + k <= Len(s)
      /\ rest \in Seq(All) /\ DOMAIN rest = 1..k /\ \A i \in 1..k : rest[i] = s[p + i]
  <2>1. p + k <= Len(s)
    BY <1>1
  <2>2. rest \in Seq(All) /\ Len(rest) = k /\ \A i \in 1..k : rest[i] = s[p + i]
    BY <1>1, <2>1, SliceShows DEF Shows
  <2> QED BY <2>1, <2>2, LenProperties
<1>3. CASE ~Has(rest, TOOL_CALL_OPEN)
  <2>1. Lacks(s, p, k, TOOL_CALL_OPEN)
    BY <1>2, <1>3 DEF Has, Lacks
  <2>2. run[p + k].inside = FALSE /\ run[p + k].calls = calls /\ run[p + k].out = out \o rest
    <3>1. Copied(run, s, p, k)
      BY <1>1, <1>2, <2>1, ReadsText
    <3> QED BY <1>1, <3>1 DEF Copied
  <2> QED BY <1>1, <2>2 DEF AllText
<1>4. CASE Has(rest, TOOL_CALL_OPEN)
  <2>14. PICK m \in Nat, l \in Nat : FirstAfter(rest, TOOL_CALL_OPEN, s, p, k, m, l)
    BY <1>1, <1>2, <1>4, CutAtFirst
  <2>1. /\ m + 1 + l = k
        /\ s[(p + m) + 1] = TOOL_CALL_OPEN
        /\ Lacks(s, p, m, TOOL_CALL_OPEN)
        /\ After(rest, Find(rest, TOOL_CALL_OPEN)) = Slice(s, (p + m) + 1, l)
    BY <2>14 DEF FirstAfter
  <2>2. PICK open \in Nat : open = (p + m) + 1 /\ open + l = Len(s) /\ open + l <= Len(s)
    BY <1>1, <2>1
  <2>3. Lacks(s, open, l, TOOL_CALL_CLOSE)
    <3>1. PICK after : after = Slice(s, open, l) /\ ~Has(after, TOOL_CALL_CLOSE)
      BY <1>4, <2>1, <2>2
    <3>2. after \in Seq(All) /\ Len(after) = l /\ \A i \in 1..l : after[i] = s[open + i]
      <4>1. Shows(Slice(s, open, l), s, open, l)
        BY <2>2, SliceShows
      <4> QED BY <3>1, <4>1 DEF Shows
    <3>3. DOMAIN after = 1..l
      BY <3>2, LenProperties
    <3> QED BY <3>1, <3>2, <3>3 DEF Has, Lacks
  <2>4. /\ p + m \in Nat /\ p + m <= Len(s) /\ (p + m) + 1 <= Len(s)
        /\ p + m + 1 <= Len(s) /\ p + (m + 1) + l <= Len(s) /\ p + (m + 1) = open /\ (m + 1) + l = k
        /\ m + 1 \in Nat /\ 1 \in Nat
    <3>1. PICK n \in Nat : n = Len(s)
      BY LenProperties
    <3> QED BY <1>1, <2>1, <2>2, <3>1
  <2>5. /\ run[p + m].inside = FALSE /\ run[p + m].calls = calls
        /\ run[p + m].out = out \o Slice(s, p, m)
    <3>1. Copied(run, s, p, m)
      BY <1>1, <2>1, <2>4, ReadsText
    <3> QED BY <1>1, <3>1 DEF Copied
  <2>6. /\ run[open].inside = TRUE /\ run[open].calls = calls
        /\ run[open].out = out \o Slice(s, p, m) /\ run[open].block = << >>
    <3>1. run[p + m] \in Readers /\ run[open] = Read(run[p + m], TOOL_CALL_OPEN)
      <4>1. run[p + m] \in Readers /\ run[(p + m) + 1] = Read(run[p + m], s[(p + m) + 1])
        BY <2>4, ReadingStep
      <4> QED BY <2>1, <2>2, <4>1
    <3>2. Opens(run[p + m], run[open])
      BY <2>5, <3>1, ReadTags
    <3> QED BY <2>5, <3>2 DEF Opens
  <2>7. /\ run[open + l].inside = TRUE /\ run[open + l].calls = calls
        /\ run[open + l].out = out \o Slice(s, p, m) /\ run[open + l].block = Slice(s, open, l)
    <3>1. Kept(run, s, open, l)
      BY <2>2, <2>3, <2>6, ReadsBlock
    <3> QED BY <2>6, <3>1 DEF Kept
  <2>8. PICK a, b, d : a = Slice(s, p, m) /\ b = <<TOOL_CALL_OPEN>> /\ d = Slice(s, open, l)
    OBVIOUS
  <2>9. out \in Seq(All) /\ a \in Seq(All) /\ b \in Seq(All) /\ d \in Seq(All)
    <3>1. run[p] \in Readers
      <4>1. PICK n \in Nat : n = Len(s)
        BY LenProperties
      <4>2. p \in 0..n
        BY <1>1, <4>1
      <4> QED BY <4>1, <4>2 DEF Reading
    <3>2. out \in Seq(All)
      BY <1>1, <3>1 DEF Readers
    <3>3. Slice(s, p, m) \in Seq(All)
      BY <1>1, <2>4, SliceProperties
    <3>4. Slice(s, open, l) \in Seq(All)
      BY <2>2, SliceProperties
    <3>5. <<TOOL_CALL_OPEN>> \in Seq(All)
      BY DEF All
    <3> QED BY <2>8, <3>2, <3>3, <3>4, <3>5
  <2>10. (a \o b) \o d = rest
    <3>1. Slice(s, p, m) \o Slice(s, p + m, 1) = Slice(s, p, m + 1)
      BY <1>1, <2>4, SlicesMeet
    <3>2. Slice(s, p + m, 1) = <<TOOL_CALL_OPEN>>
      BY <2>1, <2>4, SliceOfOne
    <3>3. Slice(s, p, m + 1) \o Slice(s, p + (m + 1), l) = Slice(s, p, (m + 1) + l)
      BY <1>1, <2>4, SlicesMeet
    <3> QED BY <1>1, <2>4, <2>8, <3>1, <3>2, <3>3
  <2>11. ((out \o a) \o b) \o d = out \o rest
    <3>1. Regroups(out, a, b) /\ a \o b \in Seq(All)
      <4>1. a \o b \in Seq(All)
        BY <2>9, ConcatProperties
      <4> QED BY <2>9, <4>1, Regrouped
    <3>2. PICK ab : ab = a \o b
      OBVIOUS
    <3>3. Regroups(out, ab, d)
      BY <2>9, <3>1, <3>2, Regrouped
    <3> QED BY <2>10, <3>1, <3>2, <3>3 DEF Regroups
  <2>12. Append(out \o a, TOOL_CALL_OPEN) = (out \o a) \o b
    <3>1. out \o a \in Seq(All) /\ TOOL_CALL_OPEN \in All
      BY <2>9, ConcatProperties DEF All
    <3> QED BY <2>8, <3>1, AppendIsConcat
  <2>13. AllText(run[open + l]) = Append(out \o a, TOOL_CALL_OPEN) \o d
    BY <2>7, <2>8 DEF AllText
  <2> QED BY <2>2, <2>7, <2>11, <2>12, <2>13
<1> QED BY <1>3, <1>4

\* ReadAll in terms of what the reader has in the end.
LEMMA ReadAllIs ==
    ASSUME NEW s
    PROVE  ReadAll(s) = [calls |-> ReadEnd(s).calls, out |-> trim(AllText(ReadEnd(s)))]
BY Zenon DEF ReadAll, ReadEnd, Blank, AllText

\* The parser is somewhere in a reading of the text.
InReading(whole, rest, out, calls) ==
    \E run, p, k : /\ Reading(run, whole) /\ ReadEnd(whole) = run[Len(whole)]
                   /\ Parsed(run, whole, p, k, rest, out, calls)

\* It starts at the beginning.
LEMMA ParsingStarts ==
    ASSUME NEW s \in Seq(All)
    PROVE  InReading(s, s, << >>, << >>)
<1>1. PICK run : Reading(run, s) /\ ReadEnd(s) = run[Len(s)]
  BY ReadingExists
<1>2. PICK k \in Nat : k = Len(s)
  BY LenProperties
<1>3. /\ run[0].inside = FALSE /\ run[0].out = << >> /\ run[0].calls = << >>
  BY <1>1 DEF Reading, Blank
<1>4. 0 \in Nat /\ 0 + k = Len(s) /\ 0 + 1 = 1
  BY <1>2
<1>5. s = Slice(s, 0, k)
  <2>1. SubSeq(s, 1, Len(s)) = s
    BY SubSeqFull
  <2> QED BY <1>2, <1>4, <2>1 DEF Slice
<1>6. Parsed(run, s, 0, k, s, << >>, << >>)
  BY <1>3, <1>4, <1>5 DEF Parsed
<1> QED BY <1>1, <1>6 DEF InReading

\* The parser goes on in it.
LEMMA ParsingGoesOn ==
    ASSUME NEW s \in Seq(All), NEW rest, NEW out, NEW calls, InReading(s, rest, out, calls),
           Has(rest, TOOL_CALL_OPEN),
           NEW after, after = After(rest, Find(rest, TOOL_CALL_OPEN)),
           Has(after, TOOL_CALL_CLOSE),
           NEW before, before = out \o Before(rest, Find(rest, TOOL_CALL_OPEN)),
           NEW raw, raw = Before(after, Find(after, TOOL_CALL_CLOSE))
    PROVE  InReading(s, After(after, Find(after, TOOL_CALL_CLOSE)),
                     BlockOut(before, raw), BlockCalls(calls, raw))
<1>1. PICK run, p, k : /\ Reading(run, s) /\ ReadEnd(s) = run[Len(s)]
                       /\ Parsed(run, s, p, k, rest, out, calls)
  BY DEF InReading
<1>2. \E q, l : Parsed(run, s, q, l, After(after, Find(after, TOOL_CALL_CLOSE)),
                       BlockOut(before, raw), BlockCalls(calls, raw))
  BY <1>1, ReadsClosed
<1> QED BY <1>1, <1>2 DEF InReading

\* What it ends with is what a reader of the whole text has.
LEMMA ParsingEnds ==
    ASSUME NEW s \in Seq(All), NEW rest, NEW out, NEW calls, InReading(s, rest, out, calls),
           Has(rest, TOOL_CALL_OPEN) =>
                ~Has(After(rest, Find(rest, TOOL_CALL_OPEN)), TOOL_CALL_CLOSE)
    PROVE  ReadAll(s) = [calls |-> calls, out |-> trim(out \o rest)]
<1>1. PICK run, p, k : /\ Reading(run, s) /\ ReadEnd(s) = run[Len(s)]
                       /\ Parsed(run, s, p, k, rest, out, calls)
  BY DEF InReading
<1>2. run[Len(s)].calls = calls /\ AllText(run[Len(s)]) = out \o rest
  BY <1>1, ReadsRest
<1> QED BY <1>1, <1>2, ReadAllIs

\* The inductive invariant of the answer: until it is over, the parser has done
\* what the reader of the same part of the text does.
ParseInv ==
    /\ text \in Seq(Chars)
    /\ has_tools \in BOOLEAN
    /\ condition = "None" => scan = "idle" /\ response = << >>
    /\ scan \in {"idle", "loop", "over"}
    /\ scan = "idle" => tool_calls = << >>
    /\ ~has_tools => scan = "idle"
    /\ scan = "loop" => InReading(text, remaining, result_text, tool_calls)
    /\ scan = "over" => ReadAll(text) = [calls |-> tool_calls, out |-> result_text]
    /\ ResponseIsFaithful

LEMMA ParseInvInit == CompletionInit => ParseInv
<1> SUFFICES ASSUME CompletionInit
             PROVE  ParseInv
  OBVIOUS
<1>1. text = << >> /\ has_tools \in BOOLEAN /\ condition = "None" /\ scan = "idle"
      /\ response = << >> /\ tool_calls = << >>
  BY DEF CompletionInit, StopInit, ParserInit
<1>2. << >> \in Seq(Chars)
  OBVIOUS
<1> QED BY <1>1, <1>2 DEF ParseInv, ResponseIsFaithful

\* A step that leaves the answer alone leaves it faithful.
LEMMA FaithfulStays ==
    ASSUME ResponseIsFaithful, text' = text, has_tools' = has_tools, condition' = condition,
           response' = response
    PROVE  ResponseIsFaithful'
BY DEF ResponseIsFaithful

LEMMA ParseInvStep == StopInv /\ StopInv' /\ ParseInv /\ [CompletionNext]_completionVars => ParseInv'
<1> SUFFICES ASSUME StopInv, StopInv', ParseInv, [CompletionNext]_completionVars
             PROVE  ParseInv'
  OBVIOUS
<1>1. CASE GenerateToken
  <2>1. condition = "None" /\ UNCHANGED <<parserVars, has_tools, response>>
    BY <1>1 DEF GenerateToken, GenerateAny, Generate
  <2>2. scan = "idle" /\ response = << >> /\ tool_calls = << >> /\ has_tools \in BOOLEAN
    BY <2>1 DEF ParseInv
  <2>3. scan' = "idle" /\ response' = << >> /\ tool_calls' = << >> /\ has_tools' \in BOOLEAN
    BY <2>1, <2>2 DEF parserVars
  <2>4. text' \in Seq(Chars)
    BY DEF StopInv
  <2> QED BY <2>3, <2>4 DEF ParseInv, ResponseIsFaithful
<1>2. CASE ParseToolCalls
  <2>1. /\ condition # "None" /\ has_tools /\ UNCHANGED <<stopVars, has_tools, response>>
        /\ StartParsing(text) \/ Parse
    BY <1>2 DEF ParseToolCalls
  <2>2. text' = text /\ condition' = condition /\ has_tools' = has_tools /\ response' = response
    BY <2>1 DEF stopVars
  <2>3. ResponseIsFaithful'
    BY <2>2, FaithfulStays DEF ParseInv
  <2>4. text \in Seq(All)
    BY SeqMonotonic DEF ParseInv, All
  <2>5. CASE StartParsing(text)
    <3>1. scan' = "loop" /\ remaining' = text /\ result_text' = << >> /\ tool_calls' = << >>
      BY <2>5 DEF StartParsing
    <3>2. InReading(text', remaining', result_text', tool_calls')
      BY <2>2, <2>4, <3>1, ParsingStarts
    <3> QED BY <2>1, <2>2, <2>3, <3>1, <3>2 DEF ParseInv
  <2>6. CASE ClosedTag
    <3> DEFINE after == After(remaining, Find(remaining, TOOL_CALL_OPEN))
               raw == Before(after, Find(after, TOOL_CALL_CLOSE))
               before == result_text \o Before(remaining, Find(remaining, TOOL_CALL_OPEN))
    <3>1. /\ scan = "loop" /\ scan' = "loop"
          /\ Has(remaining, TOOL_CALL_OPEN) /\ Has(after, TOOL_CALL_CLOSE)
          /\ TakeBlock(raw)
          /\ remaining' = After(after, Find(after, TOOL_CALL_CLOSE))
      BY <2>6 DEF ClosedTag
    <3>2. result_text' = BlockOut(before, raw) /\ tool_calls' = BlockCalls(tool_calls, raw)
      BY <3>1 DEF TakeBlock, BlockOut, BlockCalls
    <3>3. InReading(text, remaining, result_text, tool_calls)
      BY <3>1 DEF ParseInv
    <3> HIDE DEF after, raw, before
    <3>4. InReading(text, After(after, Find(after, TOOL_CALL_CLOSE)),
                    BlockOut(before, raw), BlockCalls(tool_calls, raw))
      BY <2>4, <3>1, <3>3, ParsingGoesOn DEF after, raw, before
    <3>5. InReading(text', remaining', result_text', tool_calls')
      BY <2>2, <3>1, <3>2, <3>4
    <3> QED BY <2>1, <2>2, <2>3, <3>1, <3>5 DEF ParseInv
  <2>7. CASE Rest
    <3>1. /\ scan = "loop" /\ scan' = "over" /\ tool_calls' = tool_calls
          /\ result_text' = trim(result_text \o remaining)
          /\ Has(remaining, TOOL_CALL_OPEN) =>
                ~Has(After(remaining, Find(remaining, TOOL_CALL_OPEN)), TOOL_CALL_CLOSE)
      BY <2>7 DEF Rest
    <3>2. InReading(text, remaining, result_text, tool_calls)
      BY <3>1 DEF ParseInv
    <3>3. ReadAll(text) = [calls |-> tool_calls, out |-> trim(result_text \o remaining)]
      BY <2>4, <3>1, <3>2, ParsingEnds
    <3>4. ReadAll(text') = [calls |-> tool_calls', out |-> result_text']
      BY <2>2, <3>1, <3>3
    <3> QED BY <2>1, <2>2, <2>3, <3>1, <3>4 DEF ParseInv
  <2> QED BY <2>1, <2>5, <2>6, <2>7 DEF Parse
<1>3. CASE Respond
  <2>1. /\ condition # "None"
        /\ has_tools => scan = "over"
        /\ response' = IF tool_calls = << >>
                       THEN Message(text, << >>, reason_str(condition))
                       ELSE Message(result_text, tool_calls, "tool_calls")
        /\ UNCHANGED <<stopVars, parserVars, has_tools>>
    BY <1>3 DEF Respond
  <2>2. /\ text' = text /\ condition' = condition /\ has_tools' = has_tools
        /\ scan' = scan /\ tool_calls' = tool_calls /\ result_text' = result_text
        /\ remaining' = remaining
    BY <2>1 DEF stopVars, parserVars
  <2>3. /\ has_tools => ReadAll(text) = [calls |-> tool_calls, out |-> result_text]
        /\ ~has_tools => tool_calls = << >>
    BY <2>1 DEF ParseInv
  <2>4. PICK read : read = ReadAll(text)
    OBVIOUS
  <2>5. has_tools => read.calls = tool_calls /\ read.out = result_text
    BY <2>3, <2>4
  <2>6. \A i \in DOMAIN response' : i = 1
    BY <2>1 DEF Message
  <2>7. response'[1] = IF has_tools /\ read.calls # << >>
            THEN [content |-> read.out, tool_calls |-> read.calls, finish_reason |-> "tool_calls"]
            ELSE [content |-> text, tool_calls |-> << >>, finish_reason |-> reason_str(condition)]
    BY <2>1, <2>3, <2>5 DEF Message
  <2>8. ResponseIsFaithful'
    BY <2>2, <2>4, <2>6, <2>7 DEF ResponseIsFaithful
  <2> QED BY <2>1, <2>2, <2>8 DEF ParseInv
<1>4. CASE UNCHANGED completionVars
  <2>1. UNCHANGED <<text, condition, has_tools, response, scan, tool_calls, result_text, remaining>>
    BY <1>4 DEF completionVars, stopVars, parserVars
  <2>2. ResponseIsFaithful'
    BY <2>1, FaithfulStays DEF ParseInv
  <2> QED BY <2>1, <2>2 DEF ParseInv
<1> QED BY <1>1, <1>2, <1>3, <1>4 DEF CompletionNext, Answered

\* The answer is faithful to the text (parse_tool_calls, and the message made of
\* what it returns): its calls are the calls of the text in their order, and its
\* content is the rest of the text, of which nothing is lost.
THEOREM AnswersAreFaithful == CompletionSpec => []ResponseIsFaithful
<1>1. ParseInv => ResponseIsFaithful
  BY DEF ParseInv
<1>2. CompletionInit => ParseInv
  BY ParseInvInit
<1> QED
  BY <1>1, <1>2, ParseInvStep, StopInvariant, PTL DEF CompletionSpec
=============================================================================
