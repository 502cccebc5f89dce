----------------------------- MODULE FoldProofs -----------------------------
(***************************************************************************)
(* What the operators of the community modules compute, for data of any    *)
(* size: sums over finite sets, folds from left to right over sequences,   *)
(* and sequences of sequences laid flat.  Naturals are well-ordered;       *)
(* everything here follows from that, with sets and functions in place of  *)
(* the predicates and operators that the library's induction theorems      *)
(* take.                                                                   *)
(***************************************************************************)
EXTENDS Integers, Sequences, FiniteSets, Functions, FiniteSetsExt, SequencesExt,
        FiniteSetTheorems, SequenceTheorems, NaturalsInduction, WellFoundedInduction, TLAPS

-----------------------------------------------------------------------------
(***************************************************************************)
(* Induction                                                               *)
(***************************************************************************)

\* A set of naturals that is not empty has a least element.
LEMMA LeastNatural ==
    ASSUME NEW T \in SUBSET Nat, T # {}
    PROVE  \E x \in T : \A y \in T : x <= y
<1>1. IsWellFoundedOn(OpToRel(<, Nat), Nat)
  BY NatLessThanWellFounded, Zenon
<1>2. PICK x \in T : \A y \in T : ~(<<y, x>> \in OpToRel(<, Nat))
  BY <1>1, WFMin, Zenon
<1>3. \A y \in T : ~(y < x)
  BY <1>2 DEF OpToRel
<1> QED BY <1>3

\* Naturals are reached from zero.
LEMMA NaturalsReached ==
    ASSUME NEW T, 0 \in T, \A n \in Nat : n \in T => n + 1 \in T
    PROVE  \A n \in Nat : n \in T
<1> SUFFICES ASSUME Nat \ T # {} PROVE FALSE
  OBVIOUS
<1>1. PICK x \in Nat \ T : \A y \in Nat \ T : x <= y
  BY LeastNatural
<1>2. x # 0
  BY <1>1
<1>3. x - 1 \in Nat /\ ~(x <= x - 1)
  BY <1>2
<1>4. x - 1 \in T
  BY <1>1, <1>3
<1>5. x - 1 + 1 = x
  OBVIOUS
<1> QED BY <1>1, <1>3, <1>4, <1>5

\* The subsets of a finite set are reached from the empty one, element by element.
LEMMA SubsetsReached ==
    ASSUME NEW S, IsFiniteSet(S), NEW Good,
           {} \in Good,
           \A s \in SUBSET S : \A x \in S \ s : s \in Good => s \cup {x} \in Good
    PROVE  S \in Good
<1> DEFINE T == {n \in Nat : \A s \in SUBSET S : Cardinality(s) = n => s \in Good}
<1>1. \A s \in SUBSET S : IsFiniteSet(s) /\ Cardinality(s) \in Nat
  BY FS_Subset, FS_CardinalityType
<1>2. 0 \in T
  BY <1>1, FS_EmptySet
<1>3. ASSUME NEW n \in Nat, n \in T PROVE n + 1 \in T
  <2> SUFFICES ASSUME NEW s \in SUBSET S, Cardinality(s) = n + 1 PROVE s \in Good
    OBVIOUS
  <2>1. s # {}
    BY FS_EmptySet
  <2>2. PICK x \in s : TRUE
    BY <2>1
  <2>3. Cardinality(s \ {x}) = n
    <3>1. IsFiniteSet(s)
      BY <1>1
    <3>2. Cardinality(s \ {x}) = Cardinality(s) - 1
      BY <2>2, <3>1, FS_RemoveElement
    <3> QED BY <3>2
  <2>4. s \ {x} \in Good
    BY <1>3, <2>3
  <2>5. (s \ {x}) \cup {x} = s
    BY <2>2
  <2> QED BY <2>2, <2>4, <2>5
<1> HIDE DEF T
<1>4. \A n \in Nat : n \in T
  BY <1>2, <1>3, NaturalsReached
<1> QED BY <1>1, <1>4 DEF T

-----------------------------------------------------------------------------
(***************************************************************************)
(* Recursion over the subsets of a finite set                              *)
(***************************************************************************)

\* `it' folds each subset of S with `step', from `base', taking out pick[s] last.
FoldsOver(it, S, Typ, base, step, pick) ==
    /\ it \in [SUBSET S -> Typ]
    /\ \A s \in SUBSET S :
          it[s] = IF s = {} THEN base ELSE step[<<it[s \ {pick[s]}], pick[s]>>]

\* There is such a fold, whatever the order of `pick'.
LEMMA FoldExists ==
    ASSUME NEW S, IsFiniteSet(S), NEW Typ, NEW base \in Typ,
           NEW step \in [Typ \X S -> Typ],
           NEW pick, \A s \in SUBSET S : s # {} => pick[s] \in s
    PROVE  \E it : FoldsOver(it, S, Typ, base, step, pick)
<1> DEFINE Small(n) == {s \in SUBSET S : Cardinality(s) <= n}
           Folds(it, n) ==
              /\ it \in [Small(n) -> Typ]
              /\ \A s \in Small(n) :
                    it[s] = IF s = {} THEN base ELSE step[<<it[s \ {pick[s]}], pick[s]>>]
           T == {n \in Nat : \E it : Folds(it, n)}
<1>1. \A s \in SUBSET S : IsFiniteSet(s) /\ Cardinality(s) \in Nat
  BY FS_Subset, FS_CardinalityType
<1>2. ASSUME NEW s \in SUBSET S, s # {}
      PROVE  /\ pick[s] \in S /\ s \ {pick[s]} \in SUBSET S
             /\ Cardinality(s \ {pick[s]}) = Cardinality(s) - 1
  BY <1>1, <1>2, FS_RemoveElement
<1>3. 0 \in T
  <2> DEFINE it == [s \in Small(0) |-> base]
  <2>1. \A s \in Small(0) : s = {}
    BY <1>1, FS_EmptySet
  <2>2. Folds(it, 0)
    BY <2>1
  <2> QED BY <2>2
<1>4. ASSUME NEW n \in Nat, n \in T PROVE n + 1 \in T
  <2>1. PICK it : Folds(it, n)
    BY <1>4
  <2> DEFINE next == [s \in Small(n + 1) |->
                        IF s = {} THEN base ELSE step[<<it[s \ {pick[s]}], pick[s]>>]]
  <2>2. ASSUME NEW s \in Small(n + 1), s # {}
        PROVE  s \ {pick[s]} \in Small(n)
    BY <1>1, <1>2, <2>2
  <2>3. \A s \in Small(n) : s \in Small(n + 1) /\ next[s] = it[s]
    BY <1>1, <2>1
  <2>4. next \in [Small(n + 1) -> Typ]
    BY <1>2, <2>1, <2>2
  <2>5. \A s \in Small(n + 1) :
            next[s] = IF s = {} THEN base ELSE step[<<next[s \ {pick[s]}], pick[s]>>]
    BY <2>2, <2>3
  <2>6. Folds(next, n + 1)
    BY <2>4, <2>5
  <2> HIDE DEF Folds, next
  <2> QED BY <2>6
<1> HIDE DEF T
<1>5. Cardinality(S) \in T
  BY <1>1, <1>3, <1>4, NaturalsReached
<1>6. PICK it : Folds(it, Cardinality(S))
  BY <1>5 DEF T
<1>7. Small(Cardinality(S)) = SUBSET S
  BY FS_Subset
<1> QED BY <1>6, <1>7 DEF FoldsOver

-----------------------------------------------------------------------------
(***************************************************************************)
(* Sums                                                                    *)
(***************************************************************************)

\* `it' has the sum of f over each subset of S, whichever element is taken out first.
AddsUp(it, f, S) ==
    /\ it \in [SUBSET S -> Int] /\ it[{}] = 0
    /\ \A s \in SUBSET S : \A x \in s : it[s] = f[x] + it[s \ {x}]

\* What is added up in one order is the sum in any order.
LEMMA AnyOrder ==
    ASSUME NEW S, IsFiniteSet(S), NEW f, \A x \in S : f[x] \in Int,
           NEW it \in [SUBSET S -> Int], it[{}] = 0,
           \A s \in SUBSET S : s # {} => \E y \in s : it[s] = f[y] + it[s \ {y}]
    PROVE  AddsUp(it, f, S)
<1> DEFINE T == {n \in Nat : \A s \in SUBSET S : Cardinality(s) = n =>
                                \A x \in s : it[s] = f[x] + it[s \ {x}]}
<1>1. \A s \in SUBSET S : IsFiniteSet(s) /\ Cardinality(s) \in Nat
  BY FS_Subset, FS_CardinalityType
<1>2. 0 \in T
  BY <1>1, FS_EmptySet
<1>3. ASSUME NEW n \in Nat, n \in T PROVE n + 1 \in T
  <2> SUFFICES ASSUME NEW s \in SUBSET S, Cardinality(s) = n + 1, NEW x \in s
               PROVE  it[s] = f[x] + it[s \ {x}]
    OBVIOUS
  <2>1. PICK y \in s : it[s] = f[y] + it[s \ {y}]
    OBVIOUS
  <2>2. CASE x = y
    BY <2>1, <2>2
  <2>3. CASE x # y
    <3>1. IsFiniteSet(s)
      BY <1>1
    <3>2. Cardinality(s \ {x}) = n /\ Cardinality(s \ {y}) = n
      <4>1. Cardinality(s \ {x}) = Cardinality(s) - 1 /\ Cardinality(s \ {y}) = Cardinality(s) - 1
        BY <3>1, FS_RemoveElement
      <4> QED BY <4>1
    <3>3. it[s \ {x}] = f[y] + it[(s \ {x}) \ {y}]
      BY <1>3, <2>3, <3>2
    <3>4. it[s \ {y}] = f[x] + it[(s \ {y}) \ {x}]
      BY <1>3, <2>3, <3>2
    <3>5. (s \ {x}) \ {y} = (s \ {y}) \ {x}
      OBVIOUS
    <3> DEFINE rest == it[(s \ {x}) \ {y}]
    <3>6. rest \in Int /\ f[x] \in Int /\ f[y] \in Int
      OBVIOUS
    <3>7. it[s] = f[y] + (f[x] + rest) /\ it[s \ {x}] = f[y] + rest
      BY <2>1, <3>3, <3>4, <3>5
    <3> HIDE DEF rest
    <3> QED BY <3>6, <3>7
  <2> QED BY <2>2, <2>3
<1> HIDE DEF T
<1>4. \A n \in Nat : n \in T
  BY <1>2, <1>3, NaturalsReached
<1> QED BY <1>1, <1>4 DEF T, AddsUp

\* SumFunctionOnSet is such a sum.
LEMMA SumAddsUp ==
    ASSUME NEW S, IsFiniteSet(S), NEW f, \A x \in S : f[x] \in Int
    PROVE  \E it : AddsUp(it, f, S) /\ SumFunctionOnSet(f, S) = it[S]
<1> DEFINE Pick(s) == CHOOSE x \in s : TRUE
           pick == [s \in SUBSET S |-> Pick(s)]
           step == [p \in Int \X S |-> f[p[2]] + p[1]]
<1>1. \A s \in SUBSET S : s # {} => pick[s] \in s
  OBVIOUS
<1>2. step \in [Int \X S -> Int]
  OBVIOUS
<1>3. PICK g : FoldsOver(g, S, Int, 0, step, pick)
  <2>1. 0 \in Int
    OBVIOUS
  <2> HIDE DEF pick, step
  <2> QED BY <1>1, <1>2, <2>1, FoldExists
<1>4. ASSUME NEW s \in SUBSET S, s # {}
      PROVE  Pick(s) \in s /\ g[s] = f[Pick(s)] + g[s \ {Pick(s)}]
  <2>1. Pick(s) \in s /\ pick[s] = Pick(s)
    BY <1>4
  <2>2. s \ {Pick(s)} \in SUBSET S /\ Pick(s) \in S
    BY <2>1
  <2> QED BY <1>3, <1>4, <2>1, <2>2 DEF FoldsOver
<1>5. g[{}] = 0
  BY <1>3 DEF FoldsOver
<1>6. g = [s \in SUBSET S |-> IF s = {} THEN 0
            ELSE f[CHOOSE x \in s : TRUE] + g[s \ {CHOOSE x \in s : TRUE}]]
  BY <1>3, <1>4, <1>5 DEF FoldsOver
<1>7. PICK it : /\ it = [s \in SUBSET S |-> IF s = {} THEN 0
                          ELSE f[CHOOSE x \in s : TRUE] + it[s \ {CHOOSE x \in s : TRUE}]]
                /\ SumFunctionOnSet(f, S) = it[S]
  BY <1>6 DEF SumFunctionOnSet, FoldFunctionOnSet, MapThenFoldSet
<1>8. it[{}] = 0
  BY <1>7
<1>9. \A s \in SUBSET S : s # {} => Pick(s) \in s /\ it[s] = f[Pick(s)] + it[s \ {Pick(s)}]
  BY <1>7
<1>10. it \in [SUBSET S -> Int]
  <2> DEFINE Good == {s \in SUBSET S : it[s] \in Int}
             T == {n \in Nat : \A s \in SUBSET S : Cardinality(s) = n => it[s] \in Int}
  <2>1. \A s \in SUBSET S : IsFiniteSet(s) /\ Cardinality(s) \in Nat
    BY FS_Subset, FS_CardinalityType
  <2>2. 0 \in T
    <3>1. \A s \in SUBSET S : Cardinality(s) = 0 => it[s] = 0
      BY <1>8, <2>1, FS_EmptySet
    <3> QED BY <3>1
  <2>3. ASSUME NEW n \in Nat, n \in T PROVE n + 1 \in T
    <3> SUFFICES ASSUME NEW s \in SUBSET S, Cardinality(s) = n + 1 PROVE it[s] \in Int
      OBVIOUS
    <3>1. s # {}
      <4>1. Cardinality({}) = 0
        BY FS_EmptySet
      <4>2. n + 1 # 0
        OBVIOUS
      <4> HIDE DEF T
      <4> QED BY <4>1, <4>2
    <3>2. Pick(s) \in s /\ it[s] = f[Pick(s)] + it[s \ {Pick(s)}]
      BY <1>9, <3>1
    <3> HIDE DEF Pick
    <3>3. Cardinality(s \ {Pick(s)}) = n
      <4>1. Cardinality(s \ {Pick(s)}) = Cardinality(s) - 1
        BY <2>1, <3>2, FS_RemoveElement
      <4> QED BY <4>1
    <3> QED BY <2>3, <3>2, <3>3
  <2> HIDE DEF T
  <2>4. \A n \in Nat : n \in T
    BY <2>2, <2>3, NaturalsReached
  <2>5. \A s \in SUBSET S : it[s] \in Int
    BY <2>1, <2>4 DEF T
  <2>6. it = [s \in SUBSET S |-> it[s]]
    BY <1>7
  <2> QED BY <2>5, <2>6
<1>11. AddsUp(it, f, S)
  <2> HIDE DEF Pick
  <2> QED BY <1>8, <1>9, <1>10, AnyOrder
<1> QED BY <1>7, <1>11

\* There is one sum only, whatever larger set it is taken in.
LEMMA OneSum ==
    ASSUME NEW S, IsFiniteSet(S), NEW f, NEW g, \A x \in S : f[x] = g[x],
           NEW U, NEW V, S \subseteq U, S \subseteq V,
           NEW a, NEW b, AddsUp(a, f, U), AddsUp(b, g, V)
    PROVE  a[S] = b[S]
<1> DEFINE Good == {s \in SUBSET S : a[s] = b[s]}
<1>1. {} \in Good
  BY DEF AddsUp
<1>2. ASSUME NEW s \in SUBSET S, NEW x \in S \ s, s \in Good PROVE s \cup {x} \in Good
  <2>1. s \cup {x} \in SUBSET U /\ s \cup {x} \in SUBSET V /\ (s \cup {x}) \ {x} = s
    OBVIOUS
  <2>2. a[s \cup {x}] = f[x] + a[s] /\ b[s \cup {x}] = g[x] + b[s]
    BY <2>1 DEF AddsUp
  <2> QED BY <1>2, <2>2
<1> HIDE DEF Good
<1>3. S \in Good
  BY <1>1, <1>2, SubsetsReached
<1> QED BY <1>3 DEF Good

\* Nothing adds up to zero, and a sum of integers is one.
LEMMA SumEmpty == ASSUME NEW f PROVE SumFunctionOnSet(f, {}) = 0
<1>1. \E it : AddsUp(it, f, {}) /\ SumFunctionOnSet(f, {}) = it[{}]
  BY FS_EmptySet, SumAddsUp
<1> QED BY <1>1 DEF AddsUp

LEMMA SumType ==
    ASSUME NEW S, IsFiniteSet(S), NEW f, \A x \in S : f[x] \in Int
    PROVE  SumFunctionOnSet(f, S) \in Int
<1>1. PICK it : AddsUp(it, f, S) /\ SumFunctionOnSet(f, S) = it[S]
  BY SumAddsUp
<1> QED BY <1>1 DEF AddsUp

\* Only what is added counts.
LEMMA SumSame ==
    ASSUME NEW S, IsFiniteSet(S), NEW f, \A x \in S : f[x] \in Int,
           NEW g, \A x \in S : f[x] = g[x]
    PROVE  SumFunctionOnSet(f, S) = SumFunctionOnSet(g, S)
<1>1. PICK a : AddsUp(a, f, S) /\ SumFunctionOnSet(f, S) = a[S]
  BY SumAddsUp
<1>2. PICK b : AddsUp(b, g, S) /\ SumFunctionOnSet(g, S) = b[S]
  BY SumAddsUp
<1> QED BY <1>1, <1>2, OneSum

\* Any element may be taken out first.
LEMMA SumTakeOut ==
    ASSUME NEW S, IsFiniteSet(S), NEW f, \A x \in S : f[x] \in Int, NEW x \in S
    PROVE  SumFunctionOnSet(f, S) = f[x] + SumFunctionOnSet(f, S \ {x})
<1>1. PICK a : AddsUp(a, f, S) /\ SumFunctionOnSet(f, S) = a[S]
  BY SumAddsUp
<1>2. IsFiniteSet(S \ {x})
  BY FS_RemoveElement
<1>3. PICK b : AddsUp(b, f, S \ {x}) /\ SumFunctionOnSet(f, S \ {x}) = b[S \ {x}]
  BY <1>2, SumAddsUp
<1>4. a[S \ {x}] = b[S \ {x}]
  BY <1>1, <1>2, <1>3, OneSum
<1> QED BY <1>1, <1>3, <1>4 DEF AddsUp

\* One more element adds its value.
LEMMA SumPutIn ==
    ASSUME NEW S, IsFiniteSet(S), NEW x, x \notin S, NEW f, \A y \in S \cup {x} : f[y] \in Int
    PROVE  SumFunctionOnSet(f, S \cup {x}) = f[x] + SumFunctionOnSet(f, S)
<1>1. IsFiniteSet(S \cup {x}) /\ (S \cup {x}) \ {x} = S
  BY FS_AddElement
<1> QED BY <1>1, SumTakeOut

\* A sum of naturals is one.
LEMMA SumNatural ==
    ASSUME NEW S, IsFiniteSet(S), NEW f, \A x \in S : f[x] \in Nat
    PROVE  SumFunctionOnSet(f, S) \in Nat
<1> DEFINE Good == {s \in SUBSET S : SumFunctionOnSet(f, s) \in Nat}
<1>1. {} \in Good
  BY SumEmpty
<1>2. ASSUME NEW s \in SUBSET S, NEW x \in S \ s, s \in Good PROVE s \cup {x} \in Good
  <2>1. IsFiniteSet(s) /\ \A y \in s \cup {x} : f[y] \in Int
    BY FS_Subset
  <2>2. SumFunctionOnSet(f, s \cup {x}) = f[x] + SumFunctionOnSet(f, s)
    BY <1>2, <2>1, SumPutIn
  <2> QED BY <1>2, <2>2
<1> HIDE DEF Good
<1>3. S \in Good
  BY <1>1, <1>2, SubsetsReached
<1> QED BY <1>3 DEF Good

\* What is larger everywhere adds up to more.
LEMMA SumMonotone ==
    ASSUME NEW S, IsFiniteSet(S), NEW f, NEW g,
           \A x \in S : f[x] \in Int /\ g[x] \in Int /\ f[x] <= g[x]
    PROVE  SumFunctionOnSet(f, S) <= SumFunctionOnSet(g, S)
<1> DEFINE Good == {s \in SUBSET S : SumFunctionOnSet(f, s) <= SumFunctionOnSet(g, s)}
<1>1. {} \in Good
  BY SumEmpty
<1>2. ASSUME NEW s \in SUBSET S, NEW x \in S \ s, s \in Good PROVE s \cup {x} \in Good
  <2>1. IsFiniteSet(s) /\ \A y \in s \cup {x} : f[y] \in Int /\ g[y] \in Int
    BY FS_Subset
  <2>2. /\ SumFunctionOnSet(f, s \cup {x}) = f[x] + SumFunctionOnSet(f, s)
        /\ SumFunctionOnSet(g, s \cup {x}) = g[x] + SumFunctionOnSet(g, s)
    BY <1>2, <2>1, SumPutIn
  <2>3. SumFunctionOnSet(f, s) \in Int /\ SumFunctionOnSet(g, s) \in Int
    BY <2>1, SumType
  <2>4. f[x] \in Int /\ g[x] \in Int /\ f[x] <= g[x]
    OBVIOUS
  <2> QED BY <1>2, <2>2, <2>3, <2>4
<1> HIDE DEF Good
<1>3. S \in Good
  BY <1>1, <1>2, SubsetsReached
<1> QED BY <1>3 DEF Good

\* The sum of the sums is the sum of both.
LEMMA SumOfBoth ==
    ASSUME NEW S, IsFiniteSet(S), NEW f, NEW g, NEW h,
           \A x \in S : f[x] \in Int /\ g[x] \in Int /\ h[x] = f[x] + g[x]
    PROVE  SumFunctionOnSet(h, S) = SumFunctionOnSet(f, S) + SumFunctionOnSet(g, S)
<1> DEFINE Good == {s \in SUBSET S :
              SumFunctionOnSet(h, s) = SumFunctionOnSet(f, s) + SumFunctionOnSet(g, s)}
<1>1. {} \in Good
  BY SumEmpty
<1>2. ASSUME NEW s \in SUBSET S, NEW x \in S \ s, s \in Good PROVE s \cup {x} \in Good
  <2>1. IsFiniteSet(s) /\ \A y \in s \cup {x} : f[y] \in Int /\ g[y] \in Int /\ h[y] \in Int
    BY FS_Subset
  <2>2. /\ SumFunctionOnSet(f, s \cup {x}) = f[x] + SumFunctionOnSet(f, s)
        /\ SumFunctionOnSet(g, s \cup {x}) = g[x] + SumFunctionOnSet(g, s)
        /\ SumFunctionOnSet(h, s \cup {x}) = h[x] + SumFunctionOnSet(h, s)
    BY <1>2, <2>1, SumPutIn
  <2>3. SumFunctionOnSet(f, s) \in Int /\ SumFunctionOnSet(g, s) \in Int
    BY <2>1, SumType
  <2>4. f[x] \in Int /\ g[x] \in Int /\ h[x] = f[x] + g[x]
    OBVIOUS
  <2> QED BY <1>2, <2>2, <2>3, <2>4
<1> HIDE DEF Good
<1>3. S \in Good
  BY <1>1, <1>2, SubsetsReached
<1> QED BY <1>3 DEF Good

\* The terms g of S are the terms w of T, which f names after those of S.
Renames(f, g, S, w, T) ==
    /\ \A x, y \in S : f[x] = f[y] => x = y
    /\ \A x \in S : w[f[x]] \in Int /\ g[x] = w[f[x]]
    /\ T = {f[x] : x \in S}

\* Naming the terms differently does not change the sum.
LEMMA SumRenamed ==
    ASSUME NEW S, IsFiniteSet(S), NEW T, NEW f, NEW g, NEW w, Renames(f, g, S, w, T)
    PROVE  SumFunctionOnSet(g, S) = SumFunctionOnSet(w, T)
<1> USE DEF Renames
<1> DEFINE Image(s) == {f[x] : x \in s}
           Good     == {s \in SUBSET S : IsFiniteSet(Image(s)) /\
                          SumFunctionOnSet(g, s) = SumFunctionOnSet(w, Image(s))}
<1>1. {} \in Good
  <2>1. Image({}) = {}
    OBVIOUS
  <2> QED BY <2>1, SumEmpty, FS_EmptySet
<1>2. ASSUME NEW s \in SUBSET S, NEW x \in S \ s, s \in Good PROVE s \cup {x} \in Good
  <2>1. Image(s \cup {x}) = Image(s) \cup {f[x]} /\ f[x] \notin Image(s)
    OBVIOUS
  <2>2. IsFiniteSet(s) /\ \A y \in s \cup {x} : g[y] \in Int
    BY FS_Subset
  <2>3. IsFiniteSet(Image(s)) /\ SumFunctionOnSet(g, s) = SumFunctionOnSet(w, Image(s))
    BY <1>2
  <2>4. \A v \in Image(s) \cup {f[x]} : w[v] \in Int
    OBVIOUS
  <2>5. g[x] = w[f[x]]
    OBVIOUS
  <2> HIDE DEF Image
  <2>6. SumFunctionOnSet(g, s \cup {x}) = g[x] + SumFunctionOnSet(g, s)
    BY <2>2, SumPutIn
  <2>7. SumFunctionOnSet(w, Image(s) \cup {f[x]}) = w[f[x]] + SumFunctionOnSet(w, Image(s))
    BY <2>1, <2>3, <2>4, SumPutIn
  <2>8. IsFiniteSet(Image(s) \cup {f[x]})
    BY <2>3, FS_AddElement
  <2> QED BY <2>1, <2>3, <2>5, <2>6, <2>7, <2>8
<1> HIDE DEF Good
<1>3. S \in Good
  BY <1>1, <1>2, SubsetsReached
<1> QED BY <1>3 DEF Good

\* One term more by one is one more.
LEMMA SumOneMore ==
    ASSUME NEW S, IsFiniteSet(S), NEW f, NEW g, \A x \in S : f[x] \in Int,
           NEW x \in S, g[x] = f[x] + 1, \A y \in S \ {x} : g[y] = f[y]
    PROVE  SumFunctionOnSet(g, S) = SumFunctionOnSet(f, S) + 1
<1>1. IsFiniteSet(S \ {x}) /\ \A y \in S : g[y] \in Int
  BY FS_RemoveElement
<1>2. SumFunctionOnSet(f, S) = f[x] + SumFunctionOnSet(f, S \ {x})
  BY SumTakeOut
<1>3. SumFunctionOnSet(g, S) = g[x] + SumFunctionOnSet(g, S \ {x})
  BY <1>1, SumTakeOut
<1>4. SumFunctionOnSet(f, S \ {x}) = SumFunctionOnSet(g, S \ {x})
  <2>1. (\A y \in S \ {x} : f[y] \in Int) /\ \A y \in S \ {x} : f[y] = g[y]
    OBVIOUS
  <2> QED BY <1>1, <2>1, SumSame
<1>5. SumFunctionOnSet(f, S \ {x}) \in Int
  <2>1. \A y \in S \ {x} : f[y] \in Int
    OBVIOUS
  <2> QED BY <1>1, <2>1, SumType
<1> QED BY <1>2, <1>3, <1>4, <1>5

\* Zeros add up to zero.
LEMMA SumOfZeros ==
    ASSUME NEW S, IsFiniteSet(S), NEW f, \A x \in S : f[x] = 0
    PROVE  SumFunctionOnSet(f, S) = 0
<1> DEFINE Good == {s \in SUBSET S : SumFunctionOnSet(f, s) = 0}
<1>1. {} \in Good
  BY SumEmpty
<1>2. ASSUME NEW s \in SUBSET S, NEW x \in S \ s, s \in Good PROVE s \cup {x} \in Good
  <2>1. IsFiniteSet(s) /\ \A y \in s \cup {x} : f[y] \in Int
    BY FS_Subset
  <2>2. SumFunctionOnSet(f, s \cup {x}) = f[x] + SumFunctionOnSet(f, s)
    BY <1>2, <2>1, SumPutIn
  <2> QED BY <1>2, <2>2
<1> HIDE DEF Good
<1>3. S \in Good
  BY <1>1, <1>2, SubsetsReached
<1> QED BY <1>3 DEF Good

\* Terms that are not negative may be left out for less.
LEMMA SumOfPart ==
    ASSUME NEW S, IsFiniteSet(S), NEW f, \A x \in S : f[x] \in Nat, NEW T \in SUBSET S
    PROVE  SumFunctionOnSet(f, T) <= SumFunctionOnSet(f, S)
<1> DEFINE Good == {s \in SUBSET S : SumFunctionOnSet(f, T \cap s) <= SumFunctionOnSet(f, s)}
<1>1. {} \in Good
  BY SumEmpty
<1>2. ASSUME NEW s \in SUBSET S, NEW x \in S \ s, s \in Good PROVE s \cup {x} \in Good
  <2>1. /\ IsFiniteSet(s) /\ IsFiniteSet(T \cap s)
        /\ \A y \in s \cup {x} : f[y] \in Int
        /\ \A y \in (T \cap s) \cup {x} : f[y] \in Int
        /\ f[x] \in Nat
    BY FS_Subset
  <2>2. SumFunctionOnSet(f, s \cup {x}) = f[x] + SumFunctionOnSet(f, s)
    BY <1>2, <2>1, SumPutIn
  <2>3. SumFunctionOnSet(f, s) \in Int /\ SumFunctionOnSet(f, T \cap s) \in Int
    BY <2>1, SumType
  <2>4. CASE x \in T
    <3>1. T \cap (s \cup {x}) = (T \cap s) \cup {x} /\ x \notin T \cap s
      BY <2>4
    <3>2. SumFunctionOnSet(f, T \cap (s \cup {x})) = f[x] + SumFunctionOnSet(f, T \cap s)
      BY <2>1, <3>1, SumPutIn
    <3> QED BY <1>2, <2>2, <2>3, <3>2
  <2>5. CASE x \notin T
    <3>1. T \cap (s \cup {x}) = T \cap s
      BY <2>5
    <3> QED BY <1>2, <2>1, <2>2, <2>3, <3>1
  <2> QED BY <2>4, <2>5
<1> HIDE DEF Good
<1>3. S \in Good
  BY <1>1, <1>2, SubsetsReached
<1>4. T \cap S = T
  OBVIOUS
<1> QED BY <1>3, <1>4 DEF Good

-----------------------------------------------------------------------------
(***************************************************************************)
(* Folds from left to right                                                *)
(***************************************************************************)

\* A set of naturals with a bound has a greatest element, and Max returns it.
LEMMA MaxOfBounded ==
    ASSUME NEW T \in SUBSET Nat, T # {}, NEW n \in Nat, \A x \in T : x <= n
    PROVE  Max(T) \in T /\ \A y \in T : y <= Max(T)
<1> DEFINE Gaps == {k \in Nat : n - k \in T}
<1>1. Gaps # {}
  <2>1. PICK x \in T : TRUE
    OBVIOUS
  <2>2. n - x \in Nat /\ n - (n - x) = x
    BY <2>1
  <2> QED BY <2>1, <2>2
<1>2. PICK k \in Gaps : \A j \in Gaps : k <= j
  BY <1>1, LeastNatural
<1>3. ASSUME NEW y \in T PROVE n - k >= y
  <2>1. n - y \in Gaps
    <3>1. n - y \in Nat /\ n - (n - y) = y
      OBVIOUS
    <3> QED BY <3>1
  <2>2. k <= n - y
    BY <1>2, <2>1
  <2> QED BY <2>2
<1>4. \E x \in T : \A y \in T : x >= y
  BY <1>2, <1>3
<1>5. Max(T) \in T /\ \A y \in T : Max(T) >= y
  BY <1>4 DEF Max
<1>6. Max(T) \in Nat
  BY <1>5
<1> QED BY <1>5, <1>6

\* So has a finite set of integers.
LEMMA FiniteHasMax ==
    ASSUME NEW S \in SUBSET Int, IsFiniteSet(S), S # {}
    PROVE  Max(S) \in S /\ \A y \in S : y <= Max(S)
<1> DEFINE Good == {s \in SUBSET S : s = {} \/ \E x \in s : \A y \in s : x >= y}
<1>1. {} \in Good
  OBVIOUS
<1>2. ASSUME NEW s \in SUBSET S, NEW x \in S \ s, s \in Good PROVE s \cup {x} \in Good
  <2>1. CASE s = {}
    BY <2>1
  <2>2. ASSUME NEW z \in s, \A y \in s : z >= y PROVE s \cup {x} \in Good
    <3>1. CASE x >= z
      <4>1. \A y \in s \cup {x} : x >= y
        BY <2>2, <3>1
      <4> QED BY <4>1
    <3>2. CASE z >= x
      <4>1. \A y \in s \cup {x} : z >= y
        BY <2>2, <3>2
      <4> QED BY <4>1
    <3> QED BY <3>1, <3>2
  <2> QED BY <1>2, <2>1, <2>2
<1> HIDE DEF Good
<1>3. S \in Good
  BY <1>1, <1>2, SubsetsReached
<1>4. \E x \in S : \A y \in S : x >= y
  BY <1>3 DEF Good
<1> QED BY <1>4 DEF Max

\* A set of naturals has a least element, and Min returns it.
LEMMA NaturalsHaveMin ==
    ASSUME NEW S \in SUBSET Nat, S # {}
    PROVE  Min(S) \in S /\ \A y \in S : Min(S) <= y
BY LeastNatural DEF Min

\* A fold over places takes out the last of them.
LastPlace(n) == [s \in SUBSET (1..n) |-> Max(s)]

LEMMA LastIsAPlace ==
    ASSUME NEW n \in Nat
    PROVE  /\ \A s \in SUBSET (1..n) : s # {} => LastPlace(n)[s] \in s /\ Max(s) = LastPlace(n)[s]
           /\ \A i \in 1..n : Max(1..i) = i /\ (1..i) \ {i} = 1..(i - 1)
                             /\ 1..i \in SUBSET (1..n) /\ 1..i # {}
<1>1. ASSUME NEW s \in SUBSET (1..n), s # {}
      PROVE  LastPlace(n)[s] \in s /\ Max(s) = LastPlace(n)[s]
  <2>1. s \in SUBSET Nat /\ \A x \in s : x <= n
    OBVIOUS
  <2> QED BY <1>1, <2>1, MaxOfBounded DEF LastPlace
<1>2. ASSUME NEW i \in 1..n
      PROVE  /\ Max(1..i) = i /\ (1..i) \ {i} = 1..(i - 1)
             /\ 1..i \in SUBSET (1..n) /\ 1..i # {}
  <2>1. 1..i \in SUBSET Nat /\ 1..i # {} /\ i \in Nat /\ \A x \in 1..i : x <= i
    OBVIOUS
  <2>2. Max(1..i) \in 1..i /\ \A y \in 1..i : y <= Max(1..i)
    BY <2>1, MaxOfBounded
  <2>3. i \in 1..i
    OBVIOUS
  <2>4. Max(1..i) = i
    BY <2>2, <2>3
  <2> QED BY <2>4
<1> QED BY <1>1, <1>2

\* There is a fold over the places 1 to n.
LEMMA LeftFoldExists ==
    ASSUME NEW n \in Nat, NEW Typ, NEW base \in Typ, NEW step \in [Typ \X (1..n) -> Typ]
    PROVE  \E it : FoldsOver(it, 1..n, Typ, base, step, LastPlace(n))
<1>1. IsFiniteSet(1..n)
  BY FS_Interval
<1>2. \A s \in SUBSET (1..n) : s # {} => LastPlace(n)[s] \in s
  BY LastIsAPlace
<1> QED BY <1>1, <1>2, FoldExists

\* run[i] is what has been folded after the first i of n places.
IsRun(run, n, Typ, base, step) ==
    /\ run \in [0..n -> Typ]
    /\ run[0] = base
    /\ \A i \in 1..n : run[i] = step[<<run[i - 1], i>>]

\* As far as `it' has values of Typ, it folds places by taking out the last one.
TakesLast(it, n, Typ, base, step) ==
    /\ it[{}] = base
    /\ \A s \in SUBSET (1..n) : s # {} /\ it[s \ {Max(s)}] \in Typ =>
          it[s] = step[<<it[s \ {Max(s)}], Max(s)>>]

\* What is folded over all places.
EndsAs(run, it, n) == run[n] = it[1..n]

\* Folding over places from left to right is a run.
LEMMA LeftFoldRuns ==
    ASSUME NEW n \in Nat, NEW Typ, NEW base \in Typ, NEW step \in [Typ \X (1..n) -> Typ],
           NEW it, TakesLast(it, n, Typ, base, step)
    PROVE  \E run : IsRun(run, n, Typ, base, step) /\ EndsAs(run, it, n)
<1> DEFINE T == {i \in Nat : i <= n => it[1..i] \in Typ}
           run == [i \in 0..n |-> it[1..i]]
<1>1. ASSUME NEW i \in 1..n, it[1..(i - 1)] \in Typ
      PROVE  it[1..i] = step[<<it[1..(i - 1)], i>>]
  <2>1. 1..i \in SUBSET (1..n) /\ 1..i # {} /\ Max(1..i) = i /\ (1..i) \ {i} = 1..(i - 1)
    BY LastIsAPlace, Zenon
  <2> QED BY <1>1, <2>1 DEF TakesLast
<1>2. 0 \in T /\ it[1..0] = base
  <2>1. 1..0 = {}
    OBVIOUS
  <2>2. it[1..0] = base
    BY <2>1 DEF TakesLast
  <2> QED BY <2>2
<1>3. ASSUME NEW i \in Nat, i \in T PROVE i + 1 \in T
  <2> SUFFICES ASSUME i + 1 <= n PROVE it[1..(i + 1)] \in Typ
    OBVIOUS
  <2>1. i + 1 \in 1..n /\ (i + 1) - 1 = i /\ i <= n
    OBVIOUS
  <2>2. it[1..i] \in Typ
    BY <1>3, <2>1
  <2>3. it[1..(i + 1)] = step[<<it[1..i], i + 1>>]
    BY <1>1, <2>1, <2>2
  <2> QED BY <2>1, <2>2, <2>3
<1> HIDE DEF T
<1>4. \A i \in Nat : i \in T
  BY <1>2, <1>3, NaturalsReached
<1>5. \A i \in 0..n : it[1..i] \in Typ
  BY <1>4 DEF T
<1>6. run \in [0..n -> Typ] /\ run[0] = base /\ run[n] = it[1..n]
  BY <1>2, <1>5
<1>7. ASSUME NEW i \in 1..n PROVE run[i] = step[<<run[i - 1], i>>]
  <2>1. i - 1 \in 0..n /\ i \in 0..n
    OBVIOUS
  <2> QED BY <1>1, <1>5, <2>1
<1> HIDE DEF run
<1> QED BY <1>6, <1>7 DEF IsRun, EndsAs

-----------------------------------------------------------------------------
(***************************************************************************)
(* Arrays in blocks                                                        *)
(***************************************************************************)

\* Quotient and remainder of what is put together of them.
LEMMA QuotientAndRest ==
    ASSUME NEW m \in Nat \ {0}, NEW r \in Nat, NEW c \in 0..(m - 1)
    PROVE  (r * m + c) \div m = r /\ (r * m + c) % m = c
<1> DEFINE n == r * m + c
           q == n \div m
<1>1. n \in Nat /\ q \in Int /\ q * m <= n /\ n < q * m + m /\ n % m = n - q * m
  BY Z3
<1>2. r * m \in Nat /\ r * m <= n /\ n < r * m + m
  OBVIOUS
<1> HIDE DEF n, q
<1>3. q = r
  <2>1. CASE q < r
    <3>1. q + 1 <= r
      BY <1>1, <2>1
    <3>2. (q + 1) * m <= r * m
      BY <1>1, <3>1
    <3>3. (q + 1) * m = q * m + m
      BY <1>1
    <3> QED BY <1>1, <1>2, <3>2, <3>3
  <2>2. CASE q > r
    <3>1. r + 1 <= q
      BY <1>1, <2>2
    <3>2. (r + 1) * m <= q * m
      BY <1>1, <3>1
    <3>3. (r + 1) * m = r * m + m
      BY <1>1
    <3> QED BY <1>1, <1>2, <3>2, <3>3
  <2> QED BY <1>1, <2>1, <2>2
<1>4. n - q * m = c
  BY <1>3 DEF n
<1> QED BY <1>1, <1>3, <1>4 DEF n, q

\* The block of a place, and the place in the block.
BlockOf(p, w) == ((p - 1) \div w) + 1
PlaceIn(p, w) == ((p - 1) % w) + 1

IsPlace(p, r, j, n, w) == r \in 1..n /\ j \in 1..w /\ p = (r - 1) * w + j

\* Every place is in a block.
LEMMA BlockOfPlace ==
    ASSUME NEW n \in Nat, NEW w \in Nat, NEW l \in Nat, l = n * w, NEW p \in 1..l
    PROVE  IsPlace(p, BlockOf(p, w), PlaceIn(p, w), n, w)
<1> USE DEF IsPlace
<1>1. w > 0
  <2>1. w = 0 => n * w = 0
    OBVIOUS
  <2> QED BY <2>1
<1> DEFINE q == (p - 1) \div w
           d == (p - 1) % w
<1>2. q \in Int /\ q * w <= p - 1 /\ p - 1 < q * w + w /\ d = (p - 1) - q * w
  BY <1>1, Z3
<1>3. p - 1 \in Nat /\ p - 1 < n * w
  OBVIOUS
<1> HIDE DEF q, d
<1>4. q >= 0
  <2>1. ASSUME q + 1 <= 0 PROVE FALSE
    <3>1. (q + 1) * w <= 0 * w
      BY <1>1, <1>2, <2>1
    <3>2. (q + 1) * w = q * w + w
      BY <1>2
    <3> QED BY <1>2, <1>3, <3>1, <3>2
  <2> QED BY <1>2, <2>1
<1>5. q < n
  <2>1. ASSUME n <= q PROVE FALSE
    <3>1. n * w <= q * w
      BY <1>1, <1>2, <2>1
    <3> QED BY <1>2, <1>3, <3>1
  <2> QED BY <1>2, <2>1
<1>6. d \in 0..(w - 1) /\ p = q * w + d + 1
  BY <1>2
<1>7. BlockOf(p, w) = q + 1 /\ PlaceIn(p, w) = d + 1
  BY DEF BlockOf, PlaceIn, q, d
<1>8. (q + 1) - 1 = q
  BY <1>2
<1> QED BY <1>2, <1>4, <1>5, <1>6, <1>7, <1>8

\* Every place of a block is one.
LEMMA PlaceOfBlock ==
    ASSUME NEW n \in Nat, NEW w \in Nat, NEW r, NEW j, NEW p, IsPlace(p, r, j, n, w)
    PROVE  p \in 1..(n * w) /\ BlockOf(p, w) = r /\ PlaceIn(p, w) = j
<1> USE DEF IsPlace
<1> DEFINE a == r - 1
           b == j - 1
<1>1. a \in Nat /\ b \in 0..(w - 1) /\ w \in Nat \ {0} /\ a + 1 <= n
  OBVIOUS
<1>2. (a * w + b) \div w = a /\ (a * w + b) % w = b
  BY <1>1, QuotientAndRest
<1>3. a * w \in Nat /\ (a + 1) * w <= n * w /\ (a + 1) * w = a * w + w
  BY <1>1
<1>4. p = a * w + b + 1 /\ r = a + 1 /\ j = b + 1
  BY <1>3
<1> HIDE DEF a, b
<1>5. p - 1 = a * w + b
  BY <1>1, <1>3, <1>4
<1>6. p \in 1..(n * w)
  BY <1>1, <1>3, <1>4
<1> QED BY <1>2, <1>4, <1>5, <1>6 DEF BlockOf, PlaceIn

\* n elements of T.
Array(s, n, T) == s \in [1..n -> T]

\* s is the a elements of u and the b of v.
Joins(s, u, a, v, b) == \A p \in 1..(a + b) : s[p] = IF p <= a THEN u[p] ELSE v[p - a]

\* Joining two arrays.
LEMMA Join ==
    ASSUME NEW T, NEW a \in Nat, NEW b \in Nat, NEW u, NEW v, Array(u, a, T), Array(v, b, T)
    PROVE  Array(u \o v, a + b, T) /\ Joins(u \o v, u, a, v, b)
<1> USE DEF Array, Joins
<1>1. u \in Seq(T) /\ v \in Seq(T) /\ Len(u) = a /\ Len(v) = b
  OBVIOUS
<1>2. u \o v \in Seq(T) /\ Len(u \o v) = Len(u) + Len(v)
      /\ \A p \in 1..Len(u) + Len(v) : (u \o v)[p] = IF p <= Len(u) THEN u[p] ELSE v[p - Len(u)]
  BY <1>1, ConcatProperties, Zenon
<1>3. a + b \in Nat /\ Len(u \o v) = a + b
  BY <1>1, <1>2
<1>4. u \o v \in [1..(a + b) -> T]
  <2> DEFINE s == u \o v
  <2>1. s \in Seq(T) /\ Len(s) = a + b
    BY <1>2, <1>3
  <2> HIDE DEF s
  <2>2. s \in [1..Len(s) -> T]
    BY <2>1, LenProperties, Zenon
  <2>3. s \in [1..(a + b) -> T]
    BY <2>1, <2>2, Zenon
  <2> QED BY <2>3 DEF s
<1> QED BY <1>1, <1>2, <1>4

\* Arrays are equal that are equal everywhere.
LEMMA SameArray ==
    ASSUME NEW T, NEW n, NEW u, NEW v, Array(u, n, T), Array(v, n, T),
           \A p \in 1..n : u[p] = v[p]
    PROVE  u = v
<1>1. u = [p \in 1..n |-> u[p]] /\ v = [p \in 1..n |-> v[p]]
  BY DEF Array
<1>2. [p \in 1..n |-> u[p]] = [p \in 1..n |-> v[p]]
  OBVIOUS
<1> QED BY <1>1, <1>2, Zenon

\* Taking out of an array.
LEMMA SliceIs ==
    ASSUME NEW T, NEW n \in Nat, NEW s \in [1..n -> T],
           NEW a \in Nat, NEW b \in Nat, NEW w \in Nat, b = a + w, b <= n
    PROVE  SubSeq(s, a + 1, b) = [j \in 1..w |-> s[a + j]]
<1>1. s \in Seq(T) /\ Len(s) = n
  OBVIOUS
<1>2. SubSeq(s, a + 1, b) = [j \in 1..(b - (a + 1) + 1) |-> s[j + (a + 1) - 1]]
  BY <1>1
<1>3. b - (a + 1) + 1 = w /\ \A j \in 1..w : j + (a + 1) - 1 = a + j
  OBVIOUS
<1> QED BY <1>2, <1>3

\* n blocks of w elements of T, one after the other.
Flat(B, n, w) == [p \in 1..(n * w) |-> B[BlockOf(p, w)][PlaceIn(p, w)]]

Blocks(B, n, w, T) == B \in [1..n -> [1..w -> T]]

\* The block after the first i extends what they are.
Grows(B, i, w, T) ==
    Flat(B, i, w) \in Seq(T) /\ Flat(B, i, w) \o B[i + 1] = Flat(B, i + 1, w)

\* One block more.
LEMMA FlatGrows ==
    ASSUME NEW T, NEW n \in Nat, NEW w \in Nat, NEW i \in Nat, i + 1 <= n,
           NEW B, Blocks(B, n, w, T)
    PROVE  Grows(B, i, w, T)
<1> USE DEF Blocks
<1>1. ASSUME NEW m \in 1..n, NEW l \in Nat, l = m * w PROVE Array(Flat(B, m, w), l, T)
  <2> SUFFICES ASSUME NEW p \in 1..l PROVE B[BlockOf(p, w)][PlaceIn(p, w)] \in T
    BY <1>1 DEF Flat, Array
  <2>1. BlockOf(p, w) \in 1..m /\ PlaceIn(p, w) \in 1..w
    BY <1>1, m \in Nat, BlockOfPlace DEF IsPlace
  <2> QED BY <2>1
<1> DEFINE r == i + 1
           l == i * w
           u == Flat(B, i, w)
           v == B[r]
<1>2. l \in Nat /\ l + w \in Nat /\ l + w = r * w /\ r \in 1..n /\ l = (r - 1) * w
  OBVIOUS
<1>3. Array(u, l, T)
  <2>1. CASE i = 0
    <3>1. l = 0
      BY <2>1
    <3> QED BY <2>1, <3>1 DEF Flat, Array
  <2>2. CASE i \in 1..n
    <3>1. l = i * w
      OBVIOUS
    <3> HIDE DEF l
    <3> QED BY <1>1, <1>2, <2>2, <3>1
  <2> QED BY <2>1, <2>2
<1>4. Array(v, w, T)
  BY <1>2 DEF Array
<1>5. Array(Flat(B, r, w), l + w, T)
  <2> HIDE DEF r, l
  <2> QED BY <1>1, <1>2
<1>6. \A p \in 1..l : u[p] = B[BlockOf(p, w)][PlaceIn(p, w)]
  BY DEF Flat
<1>7. \A p \in 1..(l + w) : Flat(B, r, w)[p] = B[BlockOf(p, w)][PlaceIn(p, w)]
  <2>1. \A p \in 1..(r * w) : Flat(B, r, w)[p] = B[BlockOf(p, w)][PlaceIn(p, w)]
    BY DEF Flat
  <2> HIDE DEF r, l
  <2> QED BY <1>2, <2>1
<1> HIDE DEF r, l, u
<1>8. Array(u \o v, l + w, T) /\ Joins(u \o v, u, l, v, w)
  <2> HIDE DEF v
  <2> QED BY <1>2, <1>3, <1>4, Join
<1>9. ASSUME NEW p \in 1..(l + w)
      PROVE  (u \o v)[p] = Flat(B, r, w)[p]
  <2>1. CASE p <= l
    <3>1. p \in 1..l
      BY <1>2, <2>1
    <3> QED BY <1>6, <1>7, <1>8, <2>1, <3>1 DEF Joins
  <2>2. CASE p > l
    <3> DEFINE j == p - l
    <3>1. IsPlace(p, r, j, n, w)
      BY <1>2, <2>2 DEF IsPlace
    <3>2. (u \o v)[p] = v[j]
      <4>1. ~(p <= l)
        BY <1>2, <2>2
      <4> QED BY <1>8, <4>1 DEF Joins
    <3> HIDE DEF j
    <3>3. BlockOf(p, w) = r /\ PlaceIn(p, w) = j
      BY <3>1, PlaceOfBlock
    <3>4. Flat(B, r, w)[p] = B[r][j]
      BY <1>7, <3>3
    <3> QED BY <3>2, <3>4, Zenon
  <2>3. p <= l \/ p > l
    BY <1>2
  <2> QED BY <2>1, <2>2, <2>3, Zenon
<1>10. u \o v = Flat(B, r, w)
  <2> HIDE DEF v
  <2> QED BY <1>5, <1>8, <1>9, SameArray
<1>11. u \in Seq(T)
  BY <1>2, <1>3 DEF Array
<1> QED BY <1>10, <1>11 DEF r, u, Grows

\* What the recursion of FlattenSeq says of the function that it chooses.
Flattens(f, B, n) == f = [i \in 1..n |-> IF i = 1 THEN B[i] ELSE f[i - 1] \o B[i]]

LEMMA FlattenIsFlat ==
    ASSUME NEW T, NEW n \in Nat \ {0}, NEW w \in Nat, NEW B, Blocks(B, n, w, T)
    PROVE  FlattenSeq(B) = Flat(B, n, w)
<1>1. \A i \in Nat : i + 1 <= n =>
            Flat(B, i, w) \in Seq(T) /\ Flat(B, i, w) \o B[i + 1] = Flat(B, i + 1, w)
  <2>1. \A i \in Nat : i + 1 <= n => Grows(B, i, w, T)
    BY FlatGrows
  <2> QED BY <2>1 DEF Grows
<1> USE DEF Blocks
<1>2. Flat(B, 1, w) = B[1]
  <2>1. Flat(B, 0, w) = << >>
    BY DEF Flat
  <2>2. B[1] \in Seq(T)
    OBVIOUS
  <2>3. << >> \o B[1] = B[1]
    BY <2>2, ConcatEmptySeq
  <2>4. Flat(B, 0, w) \o B[0 + 1] = Flat(B, 0 + 1, w)
    BY <1>1, 0 + 1 <= n, 0 \in Nat, Zenon
  <2> QED BY <2>1, <2>3, <2>4
<1>3. Flattens([i \in 1..n |-> Flat(B, i, w)], B, n)
  <2> DEFINE f == [i \in 1..n |-> Flat(B, i, w)]
  <2>1. ASSUME NEW i \in 1..n
        PROVE  Flat(B, i, w) = IF i = 1 THEN B[i] ELSE f[i - 1] \o B[i]
    <3>1. CASE i # 1
      <4>1. i - 1 \in 1..n /\ i - 1 \in Nat /\ (i - 1) + 1 = i /\ i <= n
        BY <3>1
      <4>2. f[i - 1] = Flat(B, i - 1, w)
        BY <4>1
      <4> HIDE DEF f
      <4>3. Flat(B, i - 1, w) \o B[(i - 1) + 1] = Flat(B, (i - 1) + 1, w)
        <5> DEFINE j == i - 1
        <5>1. j \in Nat /\ j + 1 <= n
          BY <4>1
        <5> HIDE DEF j
        <5>2. Flat(B, j, w) \o B[j + 1] = Flat(B, j + 1, w)
          BY <1>1, <5>1
        <5> QED BY <5>2 DEF j
      <4> QED BY <3>1, <4>1, <4>2, <4>3
    <3> QED BY <1>2, <3>1
  <2> QED BY <2>1, Zenon DEF Flattens
<1>4. ASSUME NEW f, Flattens(f, B, n) PROVE f[n] = Flat(B, n, w)
  <2> DEFINE Good == {i \in Nat : i + 1 <= n => f[i + 1] = Flat(B, i + 1, w)}
  <2>1. \A i \in 1..n : f[i] = IF i = 1 THEN B[i] ELSE f[i - 1] \o B[i]
    BY <1>4, Zenon DEF Flattens
  <2>2. 0 \in Good
    BY <1>2, <2>1
  <2>3. ASSUME NEW i \in Nat, i \in Good PROVE i + 1 \in Good
    <3> SUFFICES ASSUME (i + 1) + 1 <= n PROVE f[(i + 1) + 1] = Flat(B, (i + 1) + 1, w)
      OBVIOUS
    <3> DEFINE j == i + 1
    <3>1. j \in Nat /\ j + 1 <= n /\ j + 1 \in 1..n /\ j + 1 # 1 /\ (j + 1) - 1 = j
      OBVIOUS
    <3>2. f[j] = Flat(B, j, w)
      BY <2>3
    <3> HIDE DEF j
    <3>3. f[j + 1] = f[j] \o B[j + 1]
      BY <2>1, <3>1
    <3>4. Flat(B, j, w) \o B[j + 1] = Flat(B, j + 1, w)
      BY <1>1, <3>1
    <3>5. f[j + 1] = Flat(B, j + 1, w)
      BY <3>2, <3>3, <3>4
    <3> QED BY <3>5 DEF j
  <2> HIDE DEF Good
  <2>4. \A i \in Nat : i \in Good
    BY <2>2, <2>3, NaturalsReached
  <2>5. n - 1 \in Good /\ (n - 1) + 1 = n
    BY <2>4
  <2> QED BY <2>5 DEF Good
<1>5. Len(B) = n /\ Len(B) # 0
  OBVIOUS
<1>6. FlattenSeq(B) = (CHOOSE f : Flattens(f, B, n))[n]
  BY <1>5, Zenon DEF FlattenSeq, Flattens
<1>7. Flattens(CHOOSE f : Flattens(f, B, n), B, n)
  BY <1>3, Zenon
<1> QED BY <1>4, <1>6, <1>7, Zenon

\* The w places of s after the first k are u.
Holds(s, k, u, w) == \A j \in 1..w : s[k + j] = u[j]

\* A joined array has both parts, and what the first has.
LEMMA JoinHas ==
    ASSUME NEW T, NEW a \in Nat, NEW b \in Nat, NEW u, NEW v, Array(u, a, T), Array(v, b, T)
    PROVE  Array(u \o v, a + b, T) /\ Holds(u \o v, 0, u, a) /\ Holds(u \o v, a, v, b)
<1> DEFINE s == u \o v
<1>1. Array(s, a + b, T) /\ Joins(s, u, a, v, b)
  BY Join
<1> HIDE DEF s
<1>2. \A p \in 1..(a + b) : s[p] = IF p <= a THEN u[p] ELSE v[p - a]
  BY <1>1 DEF Joins
<1>3. ASSUME NEW j \in 1..a PROVE s[0 + j] = u[j]
  <2>1. j \in 1..(a + b) /\ j <= a /\ 0 + j = j
    OBVIOUS
  <2> QED BY <1>2, <2>1
<1>4. ASSUME NEW j \in 1..b PROVE s[a + j] = v[j]
  <2>1. a + j \in 1..(a + b) /\ ~(a + j <= a) /\ (a + j) - a = j
    OBVIOUS
  <2> QED BY <1>2, <2>1
<1> QED BY <1>1, <1>3, <1>4 DEF s, Holds

LEMMA JoinKeeps ==
    ASSUME NEW T, NEW a \in Nat, NEW b \in Nat, NEW u, NEW v, Array(u, a, T), Array(v, b, T),
           NEW k \in Nat, NEW w \in Nat, k + w <= a, NEW x, Holds(u, k, x, w)
    PROVE  Holds(u \o v, k, x, w)
<1>1. Joins(u \o v, u, a, v, b)
  BY Join
<1>2. ASSUME NEW j \in 1..w PROVE (u \o v)[k + j] = x[j]
  <2>1. k + j \in 1..(a + b) /\ k + j <= a
    OBVIOUS
  <2>2. (u \o v)[k + j] = u[k + j]
    BY <1>1, <2>1 DEF Joins
  <2> QED BY <2>2 DEF Holds
<1> QED BY <1>2 DEF Holds

\* u is the elements of s after the first k, up to the given one.
Slices(u, s, k, to) == SubSeq(s, k + 1, to) = u

\* Slices are what is there.
LEMMA SliceHas ==
    ASSUME NEW T, NEW n \in Nat, NEW k \in Nat, NEW w \in Nat, NEW to \in Nat,
           to = k + w, to <= n, NEW s, NEW u, Array(s, n, T), Array(u, w, T), Holds(s, k, u, w)
    PROVE  Slices(u, s, k, to)
<1> USE DEF Slices
<1>1. SubSeq(s, k + 1, to) = [j \in 1..w |-> s[k + j]]
  BY SliceIs DEF Array
<1>2. u = [j \in 1..w |-> u[j]]
  BY DEF Array
<1>3. [j \in 1..w |-> s[k + j]] = [j \in 1..w |-> u[j]]
  BY DEF Holds
<1> QED BY <1>1, <1>2, <1>3, Zenon

\* Three and four parts, one after the other.
Parts3(s, u, a, v, b, x, c, T) ==
    Array(s, a + b + c, T) /\ Holds(s, 0, u, a) /\ Holds(s, a, v, b) /\ Holds(s, a + b, x, c)

LEMMA JoinThree ==
    ASSUME NEW T, NEW a \in Nat, NEW b \in Nat, NEW c \in Nat, NEW u, NEW v, NEW x,
           Array(u, a, T), Array(v, b, T), Array(x, c, T)
    PROVE  Parts3((u \o v) \o x, u, a, v, b, x, c, T)
<1> DEFINE uv == u \o v
           l  == a + b
           s  == uv \o x
<1>1. Array(uv, l, T) /\ Holds(uv, 0, u, a) /\ Holds(uv, a, v, b)
  BY JoinHas
<1>2. l \in Nat /\ l = a + b /\ 0 + a <= l /\ a + b <= l
  OBVIOUS
<1> HIDE DEF uv, l
<1>3. Array(s, l + c, T) /\ Holds(s, l, x, c)
  BY <1>1, <1>2, JoinHas
<1>4. Holds(s, 0, u, a)
  BY <1>1, <1>2, JoinKeeps, 0 \in Nat
<1>5. Holds(s, a, v, b)
  BY <1>1, <1>2, JoinKeeps
<1> HIDE DEF s
<1>6. Parts3(s, u, a, v, b, x, c, T)
  BY <1>2, <1>3, <1>4, <1>5 DEF Parts3
<1> QED BY <1>6 DEF s, uv

Parts4(s, u, a, v, b, x, c, y, d, T) ==
    /\ Array(s, a + b + c + d, T)
    /\ Holds(s, 0, u, a) /\ Holds(s, a, v, b) /\ Holds(s, a + b, x, c) /\ Holds(s, a + b + c, y, d)

LEMMA JoinFour ==
    ASSUME NEW T, NEW a \in Nat, NEW b \in Nat, NEW c \in Nat, NEW d \in Nat,
           NEW u, NEW v, NEW x, NEW y,
           Array(u, a, T), Array(v, b, T), Array(x, c, T), Array(y, d, T)
    PROVE  Parts4(((u \o v) \o x) \o y, u, a, v, b, x, c, y, d, T)
<1> DEFINE w == (u \o v) \o x
           m == a + b
           l == a + b + c
           s == w \o y
<1>1. Parts3(w, u, a, v, b, x, c, T)
  BY JoinThree
<1>2. Array(w, l, T) /\ Holds(w, 0, u, a) /\ Holds(w, a, v, b) /\ Holds(w, m, x, c)
  BY <1>1 DEF Parts3
<1>3. l \in Nat /\ m \in Nat /\ l = a + b + c /\ m = a + b /\ 0 + a <= l /\ a + b <= l /\ m + c <= l
  OBVIOUS
<1> HIDE DEF w, l, m
<1>4. Array(s, l + d, T) /\ Holds(s, l, y, d)
  BY <1>2, <1>3, JoinHas
<1>5. Holds(s, 0, u, a)
  BY <1>2, <1>3, JoinKeeps, 0 \in Nat
<1>6. Holds(s, a, v, b)
  BY <1>2, <1>3, JoinKeeps
<1>7. Holds(s, m, x, c)
  BY <1>2, <1>3, JoinKeeps
<1> HIDE DEF s
<1>8. Parts4(s, u, a, v, b, x, c, y, d, T)
  BY <1>3, <1>4, <1>5, <1>6, <1>7 DEF Parts4
<1> QED BY <1>8 DEF s, w
=============================================================================
