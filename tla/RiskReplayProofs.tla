--------------------------- MODULE RiskReplayProofs ---------------------------
(* What holds of the rate limiter, of the pre-trade gate and of the        *)
(* backtest's replay for every universe, every limit, every price and      *)
(* every equity.  Both sum over the symbols, hence one module for both.    *)
EXTENDS RiskEngine, Backtest, SequenceTheorems, FiniteSetTheorems,
        WellFoundedInduction, TLAPS

-----------------------------------------------------------------------------
(* Sums over the symbols.  The induction is on the number of summands, in  *)
(* the form of a set of numbers, since the provers cannot instantiate an   *)
(* induction rule with a predicate.                                        *)

Any(S) == CHOOSE x \in S : TRUE

(* h gives, for every set of symbols in D, the sum of f over it.           *)
Sums(h, f, D) ==
    \A A \in D : h[A] = IF A = {} THEN 0 ELSE f[Any(A)] + h[A \ {Any(A)}]

(* The function that SumOver looks its result up in.                       *)
SumOf(f) == CHOOSE h : h = [A \in SUBSET Symbols |->
                IF A = {} THEN 0 ELSE f[Any(A)] + h[A \ {Any(A)}]]

(* There are finitely many symbols.                                        *)
LEMMA SymbolsFinite == IsFiniteSet(Symbols)
BY ContractsAssumption

(* A set that has 0 and every successor of its members is Nat: otherwise   *)
(* there is a least number that it has not.                                *)
LEMMA NatSetInduction ==
    ASSUME NEW T, T \subseteq Nat, 0 \in T, \A n \in T : n + 1 \in T
    PROVE  T = Nat
<1> DEFINE R == Nat \ T
<1>1. SUFFICES ASSUME R # {} PROVE FALSE
  OBVIOUS
<1>2. PICK n \in R : \A y \in R : ~(<<y, n>> \in OpToRel(<, Nat))
  <2>1. R \subseteq Nat
    OBVIOUS
  <2> HIDE DEF R
  <2> QED BY <1>1, <2>1, WFMin, NatLessThanWellFounded
<1>3. \A y \in R : ~(y < n)
  BY <1>2 DEF OpToRel
<1>4. n - 1 \in T
  BY <1>3
<1> QED BY <1>4

(* What is used of the size of a set of symbols.                           *)
LEMMA PartOfSymbols ==
    ASSUME NEW A \in SUBSET Symbols
    PROVE  /\ IsFiniteSet(A) /\ Cardinality(A) \in Nat
           /\ \A x \in A : IsFiniteSet(A \ {x}) /\ Cardinality(A \ {x}) = Cardinality(A) - 1
           /\ Cardinality(A) = 0 <=> A = {}
           /\ A # {} => Any(A) \in A
<1>1. IsFiniteSet(A)
  BY SymbolsFinite, FS_Subset
<1>2. Cardinality(A) \in Nat
  BY <1>1, FS_CardinalityType
<1>3. \A x \in A : IsFiniteSet(A \ {x}) /\ Cardinality(A \ {x}) = Cardinality(A) - 1
  BY <1>1, FS_RemoveElement
<1>4. Cardinality(A) = 0 <=> A = {}
  BY <1>1, FS_EmptySet
<1>5. A # {} => Any(A) \in A
  BY DEF Any
<1> QED BY <1>1, <1>2, <1>3, <1>4, <1>5

(* There are such sums: those of n + 1 summands rest on those of n.         *)
LEMMA SumsExist ==
    ASSUME NEW f \in [Symbols -> Int]
    PROVE  \E h \in [SUBSET Symbols -> Int] : Sums(h, f, SUBSET Symbols)
<1> DEFINE Small(n) == {A \in SUBSET Symbols : Cardinality(A) <= n}
           T == {n \in Nat : \E h \in [Small(n) -> Int] : Sums(h, f, Small(n))}
<1>1. 0 \in T
  <2> DEFINE h == [A \in Small(0) |-> 0]
  <2>1. \A A \in Small(0) : A = {}
    <3> SUFFICES ASSUME NEW A \in Small(0) PROVE A = {}
      OBVIOUS
    <3> QED BY PartOfSymbols
  <2>2. h \in [Small(0) -> Int]
    OBVIOUS
  <2>3. Sums(h, f, Small(0))
    BY <2>1 DEF Sums
  <2> QED BY <2>2, <2>3
<1>2. ASSUME NEW n \in T PROVE n + 1 \in T
  <2>1. n \in Nat /\ n + 1 \in Nat
    OBVIOUS
  <2>2. PICK h \in [Small(n) -> Int] : Sums(h, f, Small(n))
    OBVIOUS
  <2> DEFINE g == [A \in Small(n + 1) |-> IF A = {} THEN 0 ELSE f[Any(A)] + h[A \ {Any(A)}]]
  <2>3. ASSUME NEW A \in Small(n + 1), A # {}
        PROVE  /\ Any(A) \in Symbols /\ A \ {Any(A)} \in Small(n)
               /\ A \ {Any(A)} \in Small(n + 1)
    BY <2>1, <2>3, PartOfSymbols
  <2>4. g \in [Small(n + 1) -> Int]
    <3> SUFFICES ASSUME NEW A \in Small(n + 1)
                 PROVE  (IF A = {} THEN 0 ELSE f[Any(A)] + h[A \ {Any(A)}]) \in Int
      OBVIOUS
    <3>1. CASE A = {}
      BY <3>1
    <3>2. CASE A # {}
      <4>1. Any(A) \in Symbols /\ A \ {Any(A)} \in Small(n)
        BY <2>3, <3>2
      <4>2. f[Any(A)] \in Int /\ h[A \ {Any(A)}] \in Int
        BY <4>1, <2>2
      <4> QED BY <4>2
    <3> QED BY <3>1, <3>2
  <2>5. \A A \in Small(n) : A \in Small(n + 1) /\ g[A] = h[A]
    <3> SUFFICES ASSUME NEW A \in Small(n) PROVE A \in Small(n + 1) /\ g[A] = h[A]
      OBVIOUS
    <3>1. A \in Small(n + 1)
      BY <2>1, PartOfSymbols
    <3>2. g[A] = IF A = {} THEN 0 ELSE f[Any(A)] + h[A \ {Any(A)}]
      BY <3>1
    <3>3. h[A] = IF A = {} THEN 0 ELSE f[Any(A)] + h[A \ {Any(A)}]
      <4> HIDE DEF Small
      <4> QED BY <2>2 DEF Sums
    <3> QED BY <3>1, <3>2, <3>3
  <2>6. Sums(g, f, Small(n + 1))
    <3> SUFFICES ASSUME NEW A \in Small(n + 1)
                 PROVE  g[A] = IF A = {} THEN 0 ELSE f[Any(A)] + g[A \ {Any(A)}]
      BY DEF Sums
    <3>1. g[A] = IF A = {} THEN 0 ELSE f[Any(A)] + h[A \ {Any(A)}]
      OBVIOUS
    <3>2. A # {} => g[A \ {Any(A)}] = h[A \ {Any(A)}]
      <4> HIDE DEF g, Small
      <4> QED BY <2>3, <2>5
    <3> HIDE DEF g
    <3> QED BY <3>1, <3>2
  <2> HIDE DEF g
  <2> QED BY <2>1, <2>4, <2>6
<1>3. T = Nat
  <2>1. T \subseteq Nat
    OBVIOUS
  <2> HIDE DEF T
  <2> QED BY <2>1, <1>1, <1>2, NatSetInduction
<1>4. Cardinality(Symbols) \in Nat
  BY SymbolsFinite, FS_CardinalityType
<1>5. Small(Cardinality(Symbols)) = SUBSET Symbols
  <2> SUFFICES ASSUME NEW A \in SUBSET Symbols PROVE Cardinality(A) <= Cardinality(Symbols)
    OBVIOUS
  <2> QED BY SymbolsFinite, FS_Subset
<1>6. Cardinality(Symbols) \in T
  BY <1>3, <1>4
<1>7. PICK h \in [Small(Cardinality(Symbols)) -> Int] : Sums(h, f, Small(Cardinality(Symbols)))
  BY <1>6
<1> QED BY <1>7, <1>5

(* SumOf is one of them, so its defining equation can be used.             *)
LEMMA SumOfSums ==
    ASSUME NEW f \in [Symbols -> Int]
    PROVE  SumOf(f) \in [SUBSET Symbols -> Int] /\ Sums(SumOf(f), f, SUBSET Symbols)
<1> DEFINE Eq(h) == h = [A \in SUBSET Symbols |->
                IF A = {} THEN 0 ELSE f[Any(A)] + h[A \ {Any(A)}]]
<1>1. PICK h \in [SUBSET Symbols -> Int] : Sums(h, f, SUBSET Symbols)
  BY SumsExist
<1>2. Eq(h)
  <2>1. \A A \in SUBSET Symbols : h[A] = IF A = {} THEN 0 ELSE f[Any(A)] + h[A \ {Any(A)}]
    BY <1>1 DEF Sums
  <2> QED BY <2>1
<1>3. SumOf(f) = CHOOSE g : Eq(g)
  BY DEF SumOf
<1>4. Eq(SumOf(f))
  <2> HIDE DEF Eq
  <2> QED BY <1>2, <1>3
<1> DEFINE g == SumOf(f)
<1> HIDE DEF g
<1>5. g = [A \in SUBSET Symbols |-> IF A = {} THEN 0 ELSE f[Any(A)] + g[A \ {Any(A)}]]
  BY <1>4 DEF g
<1>6. Sums(g, f, SUBSET Symbols)
  BY <1>5 DEF Sums
<1>7. \A A \in SUBSET Symbols : g[A] = h[A]
  <2> DEFINE T == {n \in Nat : \A A \in SUBSET Symbols : Cardinality(A) = n => g[A] = h[A]}
  <2>1. 0 \in T
    <3> SUFFICES ASSUME NEW A \in SUBSET Symbols, Cardinality(A) = 0 PROVE g[A] = h[A]
      OBVIOUS
    <3>1. A = {}
      BY PartOfSymbols
    <3> QED BY <3>1, <1>1, <1>6 DEF Sums
  <2>2. ASSUME NEW n \in T PROVE n + 1 \in T
    <3> SUFFICES ASSUME NEW A \in SUBSET Symbols, Cardinality(A) = n + 1 PROVE g[A] = h[A]
      OBVIOUS
    <3>1. A # {} /\ Any(A) \in A /\ A \ {Any(A)} \in SUBSET Symbols
      BY PartOfSymbols
    <3>2. Cardinality(A \ {Any(A)}) = n
      BY <3>1, PartOfSymbols
    <3>3. g[A \ {Any(A)}] = h[A \ {Any(A)}]
      BY <3>1, <3>2
    <3>4. g[A] = f[Any(A)] + g[A \ {Any(A)}] /\ h[A] = f[Any(A)] + h[A \ {Any(A)}]
      BY <3>1, <1>1, <1>6 DEF Sums
    <3> QED BY <3>3, <3>4
  <2>3. T = Nat
    <3>1. T \subseteq Nat
      OBVIOUS
    <3> HIDE DEF T
    <3> QED BY <3>1, <2>1, <2>2, NatSetInduction
  <2> QED BY <2>3, PartOfSymbols
<1>8. g = h
  BY <1>5, <1>7
<1> QED BY <1>1, <1>8 DEF g

(* SumOver unfolded: the library's fold is that function's value.          *)
LEMMA SumOverIs ==
    ASSUME NEW f
    PROVE  SumOver(f) = SumOf(f)[Symbols]
BY DEF SumOver, SumOf, MapThenSumSet, MapThenFoldSet, Any

(* The order of the summands does not matter: any one can be taken out.    *)
LEMMA SumTakesOut ==
    ASSUME NEW f \in [Symbols -> Int], NEW h \in [SUBSET Symbols -> Int],
           Sums(h, f, SUBSET Symbols)
    PROVE  \A A \in SUBSET Symbols : \A x \in A : h[A] = f[x] + h[A \ {x}]
<1> DEFINE T == {n \in Nat : \A A \in SUBSET Symbols :
                    Cardinality(A) = n => \A x \in A : h[A] = f[x] + h[A \ {x}]}
<1>1. 0 \in T
  <2> SUFFICES ASSUME NEW A \in SUBSET Symbols, Cardinality(A) = 0, NEW x \in A PROVE FALSE
    OBVIOUS
  <2> QED BY PartOfSymbols
<1>2. ASSUME NEW n \in T PROVE n + 1 \in T
  <2> SUFFICES ASSUME NEW A \in SUBSET Symbols, Cardinality(A) = n + 1, NEW x \in A
               PROVE  h[A] = f[x] + h[A \ {x}]
    OBVIOUS
  <2> DEFINE c == Any(A)
  <2>1. c \in A /\ A # {}
    BY PartOfSymbols
  <2> HIDE DEF c
  <2>2. h[A] = f[c] + h[A \ {c}]
    BY <2>1 DEF Sums, c
  <2>3. CASE c = x
    BY <2>2, <2>3
  <2>4. CASE c # x
    <3>1. A \ {c} \in SUBSET Symbols /\ A \ {x} \in SUBSET Symbols
      OBVIOUS
    <3>2. Cardinality(A \ {c}) = n /\ Cardinality(A \ {x}) = n
      BY <2>1, PartOfSymbols
    <3>3. x \in A \ {c} /\ c \in A \ {x}
      BY <2>1, <2>4
    <3>4. h[A \ {c}] = f[x] + h[(A \ {c}) \ {x}]
      BY <3>1, <3>2, <3>3
    <3>5. h[A \ {x}] = f[c] + h[(A \ {x}) \ {c}]
      BY <3>1, <3>2, <3>3
    <3>6. (A \ {x}) \ {c} = (A \ {c}) \ {x}
      OBVIOUS
    <3>7. f[x] \in Int /\ f[c] \in Int /\ h[(A \ {c}) \ {x}] \in Int
      BY <2>1
    <3>8. h[(A \ {x}) \ {c}] = h[(A \ {c}) \ {x}]
      BY <3>6
    <3>9. h[A] = f[c] + (f[x] + h[(A \ {c}) \ {x}])
      BY <2>2, <3>4
    <3>10. h[A \ {x}] = f[c] + h[(A \ {c}) \ {x}]
      BY <3>5, <3>8
    <3> HIDE DEF T
    <3> QED BY <3>7, <3>9, <3>10
  <2> QED BY <2>3, <2>4
<1>3. T = Nat
  <2>1. T \subseteq Nat
    OBVIOUS
  <2> HIDE DEF T
  <2> QED BY <2>1, <1>1, <1>2, NatSetInduction
<1> QED BY <1>3, PartOfSymbols

(* A sum depends on its summands only.                                     *)
LEMMA SumsAgree ==
    ASSUME NEW f \in [Symbols -> Int], NEW e \in [Symbols -> Int],
           NEW h \in [SUBSET Symbols -> Int], NEW g \in [SUBSET Symbols -> Int],
           Sums(h, f, SUBSET Symbols), Sums(g, e, SUBSET Symbols)
    PROVE  \A A \in SUBSET Symbols : (\A x \in A : f[x] = e[x]) => h[A] = g[A]
<1> DEFINE T == {n \in Nat : \A A \in SUBSET Symbols :
                    Cardinality(A) = n /\ (\A x \in A : f[x] = e[x]) => h[A] = g[A]}
<1>1. 0 \in T
  <2> SUFFICES ASSUME NEW A \in SUBSET Symbols, Cardinality(A) = 0 PROVE h[A] = g[A]
    OBVIOUS
  <2>1. A = {}
    BY PartOfSymbols
  <2> QED BY <2>1 DEF Sums
<1>2. ASSUME NEW n \in T PROVE n + 1 \in T
  <2> SUFFICES ASSUME NEW A \in SUBSET Symbols, Cardinality(A) = n + 1, \A x \in A : f[x] = e[x]
               PROVE  h[A] = g[A]
    OBVIOUS
  <2>1. A # {} /\ Any(A) \in A /\ A \ {Any(A)} \in SUBSET Symbols
    BY PartOfSymbols
  <2>2. Cardinality(A \ {Any(A)}) = n
    BY <2>1, PartOfSymbols
  <2>3. h[A \ {Any(A)}] = g[A \ {Any(A)}]
    BY <2>1, <2>2
  <2>4. h[A] = f[Any(A)] + h[A \ {Any(A)}] /\ g[A] = e[Any(A)] + g[A \ {Any(A)}]
    BY <2>1 DEF Sums
  <2> QED BY <2>1, <2>3, <2>4
<1>3. T = Nat
  <2>1. T \subseteq Nat
    OBVIOUS
  <2> HIDE DEF T
  <2> QED BY <2>1, <1>1, <1>2, NatSetInduction
<1> QED BY <1>3, PartOfSymbols

(* Replacing one summand changes a sum by the difference: what every fill  *)
(* and every close does to a sum over the symbols.                         *)
LEMMA SumChangesAt ==
    ASSUME NEW f \in [Symbols -> Int], NEW e \in [Symbols -> Int], NEW s \in Symbols,
           \A x \in Symbols \ {s} : e[x] = f[x]
    PROVE  /\ SumOver(f) \in Int /\ SumOver(e) \in Int
           /\ SumOver(e) = SumOver(f) + e[s] - f[s]
<1> DEFINE h == SumOf(f)
           g == SumOf(e)
           A == Symbols \ {s}
<1>1. h \in [SUBSET Symbols -> Int] /\ Sums(h, f, SUBSET Symbols)
  BY SumOfSums
<1>2. g \in [SUBSET Symbols -> Int] /\ Sums(g, e, SUBSET Symbols)
  BY SumOfSums
<1>3. SumOver(f) = h[Symbols] /\ SumOver(e) = g[Symbols]
  BY SumOverIs
<1> HIDE DEF h, g
<1>4. h[A] = g[A]
  <2>1. \A B \in SUBSET Symbols : (\A x \in B : f[x] = e[x]) => h[B] = g[B]
    BY <1>1, <1>2, SumsAgree
  <2> QED BY <2>1
<1>5. h[Symbols] = f[s] + h[A]
  <2>1. \A B \in SUBSET Symbols : \A x \in B : h[B] = f[x] + h[B \ {x}]
    BY <1>1, SumTakesOut
  <2> QED BY <2>1
<1>6. g[Symbols] = e[s] + g[A]
  <2>1. \A B \in SUBSET Symbols : \A x \in B : g[B] = e[x] + g[B \ {x}]
    BY <1>2, SumTakesOut
  <2> QED BY <2>1
<1>7. h[A] \in Int /\ g[A] \in Int /\ h[Symbols] \in Int /\ g[Symbols] \in Int
      /\ f[s] \in Int /\ e[s] \in Int
  BY <1>1, <1>2
<1> QED BY <1>3, <1>4, <1>5, <1>6, <1>7

(* A sum of nothing but zeroes.                                            *)
LEMMA SumOfZeroes ==
    ASSUME NEW f \in [Symbols -> Int], \A x \in Symbols : f[x] = 0
    PROVE  SumOver(f) = 0
<1> DEFINE h == SumOf(f)
           T == {n \in Nat : \A A \in SUBSET Symbols : Cardinality(A) = n => h[A] = 0}
<1>1. h \in [SUBSET Symbols -> Int] /\ Sums(h, f, SUBSET Symbols)
  BY SumOfSums
<1>2. SumOver(f) = h[Symbols]
  BY SumOverIs
<1> HIDE DEF h
<1>3. 0 \in T
  <2> SUFFICES ASSUME NEW A \in SUBSET Symbols, Cardinality(A) = 0 PROVE h[A] = 0
    OBVIOUS
  <2>1. A = {}
    BY PartOfSymbols
  <2> QED BY <1>1, <2>1 DEF Sums
<1>4. ASSUME NEW n \in T PROVE n + 1 \in T
  <2> SUFFICES ASSUME NEW A \in SUBSET Symbols, Cardinality(A) = n + 1 PROVE h[A] = 0
    OBVIOUS
  <2>1. A # {} /\ Any(A) \in A /\ A \ {Any(A)} \in SUBSET Symbols
    BY PartOfSymbols
  <2>2. Cardinality(A \ {Any(A)}) = n
    BY <2>1, PartOfSymbols
  <2>3. h[A \ {Any(A)}] = 0
    BY <2>1, <2>2
  <2>4. h[A] = f[Any(A)] + h[A \ {Any(A)}]
    BY <1>1, <2>1 DEF Sums
  <2> QED BY <2>1, <2>3, <2>4
<1>5. T = Nat
  <2>1. T \subseteq Nat
    OBVIOUS
  <2> HIDE DEF T
  <2> QED BY <2>1, <1>3, <1>4, NatSetInduction
<1>6. Cardinality(Symbols) \in Nat
  BY SymbolsFinite, FS_CardinalityType
<1> QED BY <1>2, <1>5, <1>6

-----------------------------------------------------------------------------
(* The rate limiter.                                                       *)

Times == 0 .. MaxNow

(* A window is the tail of the orders let through, and what it no longer   *)
(* holds is older than its span.                                           *)
WindowOf(w, a, t, span) ==
    /\ Len(w) <= Len(a)
    /\ \A i \in 1 .. Len(w) : w[i] = a[Len(a) - Len(w) + i]
    /\ \A i \in 1 .. Len(a) - Len(w) : t - a[i] > span

WindowInv(w, span) == WindowOf(w, acquired, now, span)

Spaced(a, max, span) == \A i \in 1 .. Len(a) - max : a[i + max] - a[i] > span

LimiterInv ==
    /\ LimiterTypeOK
    /\ WindowInv(secondWindow, Second) /\ WindowInv(minuteWindow, Minute)
    /\ RateBound

-----------------------------------------------------------------------------
(* There is a first entry that is fresh, or none is.                       *)
LEMMA FirstFreshExists ==
    ASSUME NEW w \in Seq(Times), NEW span \in Nat
    PROVE  /\ FirstFresh(w, span) \in 1 .. Len(w) + 1
           /\ \A j \in 1 .. FirstFresh(w, span) - 1 : Stale(w[j], span)
<1> DEFINE T == {k \in 1 .. Len(w) + 1 : k <= Len(w) => ~Stale(w[k], span)}
           Good(k) == /\ \A j \in 1 .. k - 1 : Stale(w[j], span)
                      /\ k <= Len(w) => ~Stale(w[k], span)
<1>1. Len(w) \in Nat
  BY LenProperties
<1>2. T \subseteq Nat /\ Len(w) + 1 \in T
  BY <1>1
<1>3. PICK k \in T : \A y \in T : ~(<<y, k>> \in OpToRel(<, Nat))
  <2>1. T # {}
    BY <1>2
  <2> HIDE DEF T
  <2> QED BY <1>2, <2>1, WFMin, NatLessThanWellFounded
<1>4. \A y \in T : ~(y < k)
  BY <1>2, <1>3 DEF OpToRel
<1>5. \A j \in 1 .. k - 1 : Stale(w[j], span)
  <2> SUFFICES ASSUME NEW j \in 1 .. k - 1, ~Stale(w[j], span) PROVE FALSE
    OBVIOUS
  <2>1. j \in T /\ j < k
    BY <1>1
  <2> QED BY <2>1, <1>4
<1>6. k \in 1 .. Len(w) + 1 /\ Good(k)
  BY <1>5
<1>7. FirstFresh(w, span) = CHOOSE n \in 1 .. Len(w) + 1 : Good(n)
  BY DEF FirstFresh
<1>8. FirstFresh(w, span) \in 1 .. Len(w) + 1 /\ Good(FirstFresh(w, span))
  <2> HIDE DEF Good
  <2> QED BY <1>6, <1>7
<1> QED BY <1>8

(* Pruning keeps a tail of the window and drops stale entries only.        *)
LEMMA PrunedIsTail ==
    ASSUME NEW w \in Seq(Times), NEW span \in Nat
    PROVE  /\ Pruned(w, span) \in Seq(Times)
           /\ Len(Pruned(w, span)) <= Len(w)
           /\ \A i \in 1 .. Len(Pruned(w, span)) :
                  Pruned(w, span)[i] = w[Len(w) - Len(Pruned(w, span)) + i]
           /\ \A j \in 1 .. Len(w) - Len(Pruned(w, span)) : Stale(w[j], span)
<1> DEFINE k == FirstFresh(w, span)
<1>1. Len(w) \in Nat /\ w \in [1 .. Len(w) -> Times]
  BY LenProperties
<1>2. k \in 1 .. Len(w) + 1 /\ \A j \in 1 .. k - 1 : Stale(w[j], span)
  BY FirstFreshExists
<1> HIDE DEF k
<1>3. \A i \in k .. Len(w) : w[i] \in Times
  BY <1>1, <1>2
<1>4. /\ SubSeq(w, k, Len(w)) \in Seq(Times)
      /\ Len(SubSeq(w, k, Len(w))) = IF k <= Len(w) THEN Len(w) - k + 1 ELSE 0
      /\ \A i \in 1 .. Len(w) - k + 1 : SubSeq(w, k, Len(w))[i] = w[k + i - 1]
  <2>1. k \in Int /\ Len(w) \in Int
    BY <1>1, <1>2
  <2> QED BY <1>3, <2>1, SubSeqProperties
<1>5. Pruned(w, span) = SubSeq(w, k, Len(w))
  BY DEF Pruned, k
<1>6. Len(Pruned(w, span)) = Len(w) - k + 1
  BY <1>1, <1>2, <1>4, <1>5
<1>7. \A i \in 1 .. Len(Pruned(w, span)) :
          Pruned(w, span)[i] = w[Len(w) - Len(Pruned(w, span)) + i]
  <2> SUFFICES ASSUME NEW i \in 1 .. Len(Pruned(w, span))
               PROVE  Pruned(w, span)[i] = w[Len(w) - Len(Pruned(w, span)) + i]
    OBVIOUS
  <2>1. Len(w) - Len(Pruned(w, span)) + i = k + i - 1 /\ i \in 1 .. Len(w) - k + 1
    BY <1>1, <1>2, <1>6
  <2> QED BY <2>1, <1>4, <1>5
<1>8. Len(w) - Len(Pruned(w, span)) = k - 1
  BY <1>1, <1>2, <1>6
<1>9. Len(Pruned(w, span)) <= Len(w)
  BY <1>1, <1>2, <1>6
<1>10. \A j \in 1 .. Len(w) - Len(Pruned(w, span)) : Stale(w[j], span)
  BY <1>2, <1>8
<1>11. Pruned(w, span) \in Seq(Times)
  BY <1>4, <1>5
<1> QED BY <1>7, <1>9, <1>10, <1>11

(* A pruned window still satisfies the invariant.                          *)
LEMMA PruningKeeps ==
    ASSUME LimiterTypeOK, NEW w \in Seq(Times), NEW span \in Nat, WindowInv(w, span)
    PROVE  WindowInv(Pruned(w, span), span)
<1> DEFINE p == Pruned(w, span)
           n == Len(acquired)
<1>1. /\ p \in Seq(Times) /\ Len(p) <= Len(w)
      /\ \A i \in 1 .. Len(p) : p[i] = w[Len(w) - Len(p) + i]
      /\ \A j \in 1 .. Len(w) - Len(p) : Stale(w[j], span)
  BY PrunedIsTail
<1>2. Len(w) \in Nat /\ Len(p) \in Nat /\ n \in Nat
  BY <1>1, LenProperties DEF LimiterTypeOK, Times
<1> HIDE DEF p, n
<1>3. /\ Len(w) <= n
      /\ \A i \in 1 .. Len(w) : w[i] = acquired[n - Len(w) + i]
      /\ \A i \in 1 .. n - Len(w) : now - acquired[i] > span
  BY DEF WindowInv, WindowOf, n
<1>4. \A i \in 1 .. Len(p) : p[i] = acquired[n - Len(p) + i]
  <2> SUFFICES ASSUME NEW i \in 1 .. Len(p) PROVE p[i] = acquired[n - Len(p) + i]
    OBVIOUS
  <2>1. Len(w) - Len(p) + i \in 1 .. Len(w)
    BY <1>1, <1>2
  <2>2. n - Len(w) + (Len(w) - Len(p) + i) = n - Len(p) + i
    BY <1>2
  <2> QED BY <1>1, <1>3, <2>1, <2>2
<1>5. \A i \in 1 .. n - Len(p) : now - acquired[i] > span
  <2> SUFFICES ASSUME NEW i \in 1 .. n - Len(p) PROVE now - acquired[i] > span
    OBVIOUS
  <2>1. CASE i \in 1 .. n - Len(w)
    BY <2>1, <1>3
  <2>2. CASE i \notin 1 .. n - Len(w)
    <3>1. i - (n - Len(w)) \in 1 .. Len(w) - Len(p) /\ i - (n - Len(w)) \in 1 .. Len(w)
      BY <2>2, <1>1, <1>2, <1>3
    <3>2. w[i - (n - Len(w))] = acquired[n - Len(w) + (i - (n - Len(w)))]
      BY <3>1, <1>3
    <3>3. n - Len(w) + (i - (n - Len(w))) = i
      BY <1>2
    <3>4. Stale(acquired[i], span)
      BY <3>1, <3>2, <3>3, <1>1
    <3> QED BY <3>4 DEF Stale
  <2> QED BY <2>1, <2>2
<1>6. Len(p) <= n
  BY <1>1, <1>2, <1>3
<1> QED BY <1>4, <1>5, <1>6 DEF WindowInv, WindowOf, p, n

(* Letting one more order through, when fewer than max are in the window,  *)
(* keeps the invariant and the bound.                                      *)
LEMMA AcquiringKeeps ==
    ASSUME NEW b \in Seq(Times), NEW p \in Seq(Times), NEW t \in Times,
           NEW span \in Nat, NEW max \in Nat \ {0},
           WindowOf(p, b, t, span), Len(p) < max, Spaced(b, max, span)
    PROVE  /\ Append(p, t) \in Seq(Times) /\ Append(b, t) \in Seq(Times)
           /\ WindowOf(Append(p, t), Append(b, t), t, span)
           /\ Spaced(Append(b, t), max, span)
<1> DEFINE n == Len(b)
           a == Append(b, t)
           q == Append(p, t)
<1>2. n \in Nat /\ Len(p) \in Nat
  BY LenProperties
<1>3. /\ Len(a) = n + 1 /\ a[n + 1] = t
      /\ \A i \in 1 .. n : a[i] = b[i]
  BY AppendProperties
<1>4. /\ q \in Seq(Times) /\ a \in Seq(Times) /\ Len(q) = Len(p) + 1 /\ q[Len(p) + 1] = t
      /\ \A i \in 1 .. Len(p) : q[i] = p[i]
  BY AppendProperties
<1>5. /\ Len(p) <= n
      /\ \A i \in 1 .. Len(p) : p[i] = b[n - Len(p) + i]
      /\ \A i \in 1 .. n - Len(p) : t - b[i] > span
  BY DEF WindowOf
<1> HIDE DEF n, a, q
<1>6. \A i \in 1 .. Len(q) : q[i] = a[Len(a) - Len(q) + i]
  <2> SUFFICES ASSUME NEW i \in 1 .. Len(q) PROVE q[i] = a[Len(a) - Len(q) + i]
    OBVIOUS
  <2>1. Len(a) - Len(q) + i = n - Len(p) + i
    BY <1>2, <1>3, <1>4
  <2>2. CASE i \in 1 .. Len(p)
    <3>1. n - Len(p) + i \in 1 .. n
      BY <2>2, <1>2, <1>5
    <3> QED BY <2>1, <2>2, <3>1, <1>3, <1>4, <1>5
  <2>3. CASE i = Len(p) + 1
    <3>1. n - Len(p) + i = n + 1
      BY <2>3, <1>2
    <3> QED BY <2>1, <2>3, <3>1, <1>3, <1>4
  <2> QED BY <2>2, <2>3, <1>2, <1>4
<1>7. Len(a) - Len(q) = n - Len(p)
  BY <1>2, <1>3, <1>4
<1>8. \A i \in 1 .. n - Len(p) : t - a[i] > span
  <2> SUFFICES ASSUME NEW i \in 1 .. n - Len(p) PROVE t - a[i] > span
    OBVIOUS
  <2>1. i \in 1 .. n
    BY <1>2
  <2> QED BY <2>1, <1>3, <1>5
<1>9. \A i \in 1 .. Len(a) - max : a[i + max] - a[i] > span
  <2> SUFFICES ASSUME NEW i \in 1 .. Len(a) - max PROVE a[i + max] - a[i] > span
    OBVIOUS
  <2>1. CASE i + max <= n
    <3>1. i \in 1 .. n - max /\ i \in 1 .. n /\ i + max \in 1 .. n
      BY <2>1, <1>2, <1>3
    <3>2. b[i + max] - b[i] > span
      BY <3>1 DEF n, Spaced
    <3> QED BY <3>1, <3>2, <1>3
  <2>2. CASE i + max = n + 1
    <3>1. i \in 1 .. n - Len(p)
      BY <2>2, <1>2, <1>3
    <3> QED BY <2>2, <3>1, <1>3, <1>8
  <2> QED BY <2>1, <2>2, <1>2, <1>3
<1>10. \A i \in 1 .. Len(a) - Len(q) : t - a[i] > span
  BY <1>7, <1>8
<1>11. Len(q) <= Len(a)
  BY <1>2, <1>3, <1>4, <1>5
<1> QED BY <1>4, <1>6, <1>9, <1>10, <1>11 DEF a, q, WindowOf, Spaced

-----------------------------------------------------------------------------
(* Every step of the limiter preserves its invariant.                      *)
LEMMA LimiterStep ==
    ASSUME LimiterInv, [LimiterNext]_limiterVars
    PROVE  LimiterInv'
<1>1. /\ now \in Times /\ secondWindow \in Seq(Times) /\ minuteWindow \in Seq(Times)
      /\ acquired \in Seq(Times)
      /\ Second \in Nat /\ Minute \in Nat
      /\ MaxPerSecond \in Nat \ {0} /\ MaxPerMinute \in Nat \ {0} /\ MaxNow \in Nat
  BY LimiterAssumption DEF LimiterInv, LimiterTypeOK, Times
<1>2. /\ Pruned(secondWindow, Second) \in Seq(Times)
      /\ Pruned(minuteWindow, Minute) \in Seq(Times)
  BY <1>1, PrunedIsTail
<1>3. /\ WindowInv(Pruned(secondWindow, Second), Second)
      /\ WindowInv(Pruned(minuteWindow, Minute), Minute)
  BY <1>1, PruningKeeps DEF LimiterInv
<1>4. CASE Acquire
  <2>1. /\ acquired' = Append(acquired, now) /\ now' = now
        /\ secondWindow' = Append(Pruned(secondWindow, Second), now)
        /\ minuteWindow' = Append(Pruned(minuteWindow, Minute), now)
        /\ Len(Pruned(secondWindow, Second)) < MaxPerSecond
        /\ Len(Pruned(minuteWindow, Minute)) < MaxPerMinute
    BY <1>4 DEF Acquire, HasRoom
  <2>2. Spaced(acquired, MaxPerSecond, Second) /\ Spaced(acquired, MaxPerMinute, Minute)
    BY DEF LimiterInv, RateBound, Spaced
  <2>3. /\ secondWindow' \in Seq(Times) /\ acquired' \in Seq(Times)
        /\ WindowOf(secondWindow', acquired', now, Second)
        /\ Spaced(acquired', MaxPerSecond, Second)
    BY <1>1, <1>2, <1>3, <2>1, <2>2, AcquiringKeeps DEF WindowInv
  <2>4. /\ minuteWindow' \in Seq(Times)
        /\ WindowOf(minuteWindow', acquired', now, Minute)
        /\ Spaced(acquired', MaxPerMinute, Minute)
    BY <1>1, <1>2, <1>3, <2>1, <2>2, AcquiringKeeps DEF WindowInv
  <2>5. WindowInv(secondWindow, Second)' /\ WindowInv(minuteWindow, Minute)'
    BY <2>1, <2>3, <2>4 DEF WindowInv
  <2>6. RateBound'
    BY <2>3, <2>4 DEF RateBound, Spaced
  <2>7. LimiterTypeOK'
    BY <1>1, <2>1, <2>3, <2>4 DEF LimiterTypeOK, Times
  <2> QED BY <2>5, <2>6, <2>7 DEF LimiterInv
<1>5. CASE Refuse
  <2>1. UNCHANGED <<now, acquired>>
    BY <1>5 DEF Refuse
  <2>2. /\ WindowInv(secondWindow, Second)' /\ secondWindow' \in Seq(Times)
        /\ WindowInv(minuteWindow, Minute)' /\ minuteWindow' \in Seq(Times)
    BY <1>2, <1>3, <1>5 DEF Refuse, WindowInv
  <2> QED BY <2>1, <2>2 DEF LimiterInv, LimiterTypeOK, RateBound, Times
<1>6. CASE Clock
  <2>1. now' = now + 1 /\ now' \in Times /\ UNCHANGED <<secondWindow, minuteWindow, acquired>>
    BY <1>1, <1>6 DEF Clock, Times
  <2>2. ASSUME NEW w \in Seq(Times), NEW span \in Nat, WindowInv(w, span)
        PROVE  \A i \in 1 .. Len(acquired) - Len(w) : now' - acquired[i] > span
    <3> SUFFICES ASSUME NEW i \in 1 .. Len(acquired) - Len(w) PROVE now' - acquired[i] > span
      OBVIOUS
    <3>1. Len(w) \in Nat /\ Len(acquired) \in Nat
      BY <1>1, LenProperties
    <3>2. i \in 1 .. Len(acquired) /\ now - acquired[i] > span
      BY <2>2, <3>1 DEF WindowInv, WindowOf
    <3>3. acquired[i] \in Times
      BY <1>1, <3>2, LenProperties
    <3> QED BY <1>1, <2>1, <3>2, <3>3 DEF Times
  <2>3. WindowInv(secondWindow, Second)' /\ WindowInv(minuteWindow, Minute)'
    BY <1>1, <2>1, <2>2 DEF LimiterInv, WindowInv, WindowOf
  <2> QED BY <2>1, <2>3 DEF LimiterInv, LimiterTypeOK, RateBound, Times
<1>7. CASE UNCHANGED limiterVars
  BY <1>7 DEF LimiterInv, limiterVars, LimiterTypeOK, WindowInv, RateBound
<1> QED BY <1>4, <1>5, <1>6, <1>7 DEF LimiterNext

(* Whatever the gate does, its limiter is only ever used through           *)
(* try_acquire, and time only ever moves on: the gate implements the       *)
(* limiter's own specification.                                            *)
LEMMA GateStep ==
    ASSUME [Next]_vars
    PROVE  [LimiterNext]_limiterVars
<1>1. CASE CheckOrder
  BY <1>1 DEF CheckOrder, LimiterNext
<1>2. CASE TimePasses
  BY <1>2 DEF TimePasses, LimiterNext
<1>3. CASE UNCHANGED limiterVars
  BY <1>3
<1>4. CASE UNCHANGED vars
  BY <1>4 DEF vars
<1> QED
  BY <1>1, <1>2, <1>3, <1>4
     DEF Next, OnSignal, ReadPositions, AlreadyConfigured, ChangeMarginType, SetLeverage,
         ChangeLeverage, ChangeLeverageFails, UseLeverageCap, SetupFails, PlaceOrder, OnTick,
         Close, EquityMoves, MonitorReads, MonitorApplies, Breaker

(* The gate implements the limiter: refinement of LimiterSpec under the    *)
(* identity mapping (try_acquire, risk_engine.py:52).                      *)
THEOREM GateImplementsLimiter == Spec => LimiterSpec
<1>1. Init => LimiterInit
  BY DEF Init
<1>2. [Next]_vars => [LimiterNext]_limiterVars
  BY GateStep
<1> QED BY <1>1, <1>2, PTL DEF Spec, LimiterSpec

(* The limiter starts with empty windows.                                  *)
LEMMA LimiterStart == LimiterInit => LimiterInv
<1> SUFFICES ASSUME LimiterInit PROVE LimiterInv
  OBVIOUS
<1>1. <<>> \in Seq(Times) /\ Len(<<>>) = 0
  OBVIOUS
<1>2. now = 0 /\ secondWindow = <<>> /\ minuteWindow = <<>> /\ acquired = <<>>
  BY DEF LimiterInit
<1>3. LimiterTypeOK
  BY <1>1, <1>2, LimiterAssumption DEF LimiterTypeOK, Times
<1>4. WindowInv(secondWindow, Second) /\ WindowInv(minuteWindow, Minute)
  BY <1>1, <1>2 DEF WindowInv, WindowOf
<1>5. RateBound
  BY <1>1, <1>2, LimiterAssumption DEF RateBound
<1> QED BY <1>3, <1>4, <1>5 DEF LimiterInv

(* For any limits and spans, no closed second and no closed minute holds   *)
(* more orders than max_orders_per_second and max_orders_per_minute.       *)
THEOREM RateIsBounded == Spec => []RateBound
<1>1. LimiterInit => LimiterInv
  BY LimiterStart
<1>2. LimiterInv /\ [LimiterNext]_limiterVars => LimiterInv'
  BY LimiterStep
<1>3. LimiterInv => RateBound
  BY DEF LimiterInv
<1> QED BY <1>1, <1>2, <1>3, GateImplementsLimiter, PTL DEF LimiterSpec

-----------------------------------------------------------------------------
(* An order that passed the checks is no larger than the order limit, and  *)
(* the symbol it is for has stayed flat since the signal: that, and not    *)
(* the stale position the check reads, is what keeps the symbol limit.     *)
Checked == {"approved", "leverage", "bracket", "placing"}

Moved(c, stage) ==
    [stage |-> stage, symbol |-> c.symbol, side |-> c.side, qty |-> c.qty,
     equity |-> c.equity, gross |-> c.gross]

CallInv ==
    \/ call = Idle
    \/ /\ \/ call.stage = "equity"
          \/ call.stage \in {"positions"} \cup Checked /\ call = Moved(call, call.stage)
       /\ call.symbol \in Symbols
       /\ call.side \in {1, -1}
       /\ call.qty \in Nat
       /\ held[call.symbol] = 0
       /\ call.stage \in Checked => call.qty <= MaxPerOrder

SymbolInv ==
    /\ held \in [Symbols -> Int]
    /\ CallInv
    /\ WithinSymbolLimit

(* Every step keeps a symbol's position within its limit.                  *)
LEMMA SymbolStep ==
    ASSUME SymbolInv, [Next]_vars
    PROVE  SymbolInv'
<1> USE DEF SymbolInv
<1>1. /\ MaxPerOrder \in Nat /\ MaxPerSymbol \in Nat /\ MaxPerOrder <= MaxPerSymbol
      /\ Sizes \subseteq Nat
  BY RiskAssumption, ContractsAssumption
<1>2. CASE UNCHANGED <<held, call>>
  BY <1>2 DEF CallInv, WithinSymbolLimit
<1>3. ASSUME NEW s \in Symbols, NEW side \in {1, -1}, NEW q \in Sizes, OnSignal(s, side, q)
      PROVE  SymbolInv'
  <2>1. /\ held' = held /\ held[s] = 0
        /\ call' = [stage |-> "equity", symbol |-> s, side |-> side, qty |-> q,
                    equity |-> equity]
    BY <1>3 DEF OnSignal, accountVars
  <2>2. CallInv'
    BY <1>1, <2>1 DEF CallInv, Checked
  <2> QED BY <2>1, <2>2 DEF WithinSymbolLimit
<1>4. CASE ReadPositions
  <2>1. /\ held' = held /\ call.stage = "equity"
        /\ call' = [stage |-> "positions", symbol |-> call.symbol, side |-> call.side,
                    qty |-> call.qty, equity |-> call.equity, gross |-> GrossExposure(held)]
    BY <1>4 DEF ReadPositions, accountVars
  <2>2. CallInv'
    BY <2>1 DEF CallInv, Checked, Idle, Moved
  <2> QED BY <2>1, <2>2 DEF WithinSymbolLimit
<1>5. CASE held' = held /\ call' = Idle
  BY <1>5 DEF CallInv, WithinSymbolLimit
<1>6. ASSUME NEW stage \in Checked, held' = held, call.stage \in {"positions"} \cup Checked,
             call' = [call EXCEPT !.stage = stage], call.qty <= MaxPerOrder
      PROVE  SymbolInv'
  <2>1. call = Moved(call, call.stage)
    BY <1>6 DEF CallInv, Idle, Checked
  <2>2. call' = Moved(call, stage)
    BY <1>6, <2>1 DEF Moved
  <2>3. CallInv'
    BY <1>6, <2>2 DEF CallInv, Idle, Checked, Moved
  <2> QED BY <1>6, <2>3 DEF WithinSymbolLimit
<1>7. CASE CheckOrder
  <2>1. call.stage = "positions" /\ held' = held
    BY <1>7 DEF CheckOrder, accountVars
  <2>2. CASE call' = [call EXCEPT !.stage = "approved"] /\ FatFingerOK(call)
    BY <2>1, <2>2, <1>6 DEF FatFingerOK, Checked
  <2>3. CASE call' = Idle
    BY <2>1, <2>3, <1>5
  <2> QED BY <1>7, <2>2, <2>3 DEF CheckOrder
<1>8. ASSUME call.stage \in Checked, held' = held,
             \E stage \in Checked : call' = [call EXCEPT !.stage = stage]
      PROVE  SymbolInv'
  <2>1. call.qty <= MaxPerOrder
    BY <1>8 DEF CallInv, Idle, Checked
  <2> QED BY <1>6, <1>8, <2>1
<1>9. CASE AlreadyConfigured \/ ChangeMarginType \/ ChangeLeverage \/ ChangeLeverageFails
           \/ UseLeverageCap
  BY <1>8, <1>9 DEF AlreadyConfigured, ChangeMarginType, ChangeLeverage, ChangeLeverageFails,
                    UseLeverageCap, SetLeverage, Checked, accountVars
<1>10. CASE PlaceOrder
  <2>1. /\ call.stage = "placing" /\ call' = Idle
        /\ held' \in {held, [held EXCEPT ![call.symbol] = @ + Signed(call)]}
    BY <1>10 DEF PlaceOrder
  <2>2. /\ call.symbol \in Symbols /\ call.side \in {1, -1} /\ call.qty \in Nat
        /\ call.qty <= MaxPerOrder /\ held[call.symbol] = 0
    BY <2>1 DEF CallInv, Idle, Checked
  <2>3. Signed(call) \in Int /\ Abs(Signed(call)) = call.qty
    BY <2>2 DEF Signed, Abs
  <2>4. CASE held' = [held EXCEPT ![call.symbol] = @ + Signed(call)]
    <3>1. held' \in [Symbols -> Int]
      BY <2>2, <2>3, <2>4
    <3>2. held'[call.symbol] = Signed(call)
      BY <2>2, <2>3, <2>4
    <3>3. \A s \in Symbols : s # call.symbol => held'[s] = held[s]
      BY <2>4
    <3>4. WithinSymbolLimit'
      BY <1>1, <2>2, <2>3, <3>2, <3>3 DEF WithinSymbolLimit
    <3> QED BY <2>1, <3>1, <3>4 DEF CallInv
  <2> QED BY <1>5, <2>1, <2>4
<1>11. ASSUME NEW s \in Symbols, Close(s)
       PROVE  SymbolInv'
  <2>1. held' = [held EXCEPT ![s] = 0] /\ call' = call
    BY <1>11 DEF Close
  <2>2. CallInv'
    BY <2>1 DEF CallInv
  <2>3. WithinSymbolLimit'
    BY <1>1, <2>1 DEF WithinSymbolLimit, Abs
  <2> QED BY <2>1, <2>2, <2>3
<1>12. CASE SetupFails
  BY <1>5, <1>12 DEF SetupFails, accountVars
<1> QED
  BY <1>2, <1>3, <1>4, <1>7, <1>9, <1>10, <1>11, <1>12
     DEF Next, OnTick, EquityMoves, MonitorReads, MonitorApplies, Breaker, TimePasses,
         accountVars, vars

(* Provided max_contracts_per_order does not exceed it, no position ever   *)
(* exceeds max_contracts_per_symbol, although check_order adds to a        *)
(* quantity that may be long out of date (run_live_binance_scanner.py:425). *)
THEOREM SymbolLimitHolds == Spec => []WithinSymbolLimit
<1>1. Init => SymbolInv
  BY RiskAssumption, ContractsAssumption DEF Init, SymbolInv, CallInv, WithinSymbolLimit, Abs
<1>2. SymbolInv /\ [Next]_vars => SymbolInv'
  BY SymbolStep
<1>3. SymbolInv => WithinSymbolLimit
  BY DEF SymbolInv
<1> QED BY <1>1, <1>2, <1>3, PTL DEF Spec

-----------------------------------------------------------------------------
(* While its leverage is being set a symbol is not yet remembered, and its *)
(* margin type is set.                                                     *)
SetupInv ==
    /\ exLeverage \in [Symbols -> Nat] /\ configured \in [Symbols -> Nat]
    /\ call.stage = "idle" \/ call.symbol \in Symbols
    /\ call.stage \in {"leverage", "bracket"} =>
           configured[call.symbol] = 0 /\ call.symbol \in exMargin
    /\ SetUpAsRemembered

(* Every step of an exchange whose margin-type request does not fail for   *)
(* another reason keeps the record of what is set up true.                 *)
LEMMA SetupStep ==
    ASSUME MarginTypeFails = FALSE, SymbolInv, SetupInv, [Next]_vars
    PROVE  SetupInv'
<1> USE DEF SetupInv
<1>1. Leverage \in Nat \ {0} /\ \A s \in Symbols : MaxLeverageOf[s] \in Nat \ {0}
  BY RiskAssumption, ContractsAssumption
<1>2. CASE UNCHANGED <<setupVars, call>>
  BY <1>2 DEF setupVars, SetUpAsRemembered
<1>3. CASE UNCHANGED setupVars /\ call' = Idle
  BY <1>3 DEF setupVars, SetUpAsRemembered, Idle
<1>4. ASSUME UNCHANGED setupVars, NEW stage \in {"equity", "positions"}, call'.stage = stage,
             call'.symbol \in Symbols
      PROVE  SetupInv'
  BY <1>4 DEF setupVars, SetUpAsRemembered
<1>5. ASSUME call.stage \in {"positions"} \cup Checked, NEW stage \in Checked,
             call' = [call EXCEPT !.stage = stage]
      PROVE  call'.stage = stage /\ call'.symbol = call.symbol /\ call.symbol \in Symbols
  BY <1>5 DEF SymbolInv, CallInv, Idle, Checked, Moved
<1>6. CASE CheckOrder
  <2>1. UNCHANGED setupVars /\ call.stage = "positions"
    BY <1>6 DEF CheckOrder
  <2>2. CASE call' = [call EXCEPT !.stage = "approved"]
    <3>1. call'.stage = "approved" /\ call'.symbol \in Symbols
      BY <1>5, <2>1, <2>2 DEF Checked
    <3> QED BY <2>1, <3>1 DEF setupVars, SetUpAsRemembered
  <2> QED BY <1>3, <1>6, <2>1, <2>2 DEF CheckOrder
<1>7. CASE AlreadyConfigured
  <2>1. call'.stage = "placing" /\ call'.symbol = call.symbol /\ call.symbol \in Symbols
    BY <1>5, <1>7 DEF AlreadyConfigured, Checked
  <2> QED BY <1>7, <2>1 DEF AlreadyConfigured, setupVars, SetUpAsRemembered
<1>8. CASE ChangeMarginType
  <2>1. call'.stage = "leverage" /\ call'.symbol = call.symbol /\ call.symbol \in Symbols
    BY <1>5, <1>8 DEF ChangeMarginType, Checked
  <2>2. exMargin' = exMargin \cup {call.symbol}
    BY <1>8 DEF ChangeMarginType
  <2> QED BY <1>8, <2>1, <2>2 DEF ChangeMarginType, SetUpAsRemembered
<1>9. ASSUME NEW l \in Nat \ {0}, SetLeverage(l), call.stage \in {"leverage", "bracket"}
      PROVE  SetupInv'
  <2>1. call'.stage = "placing" /\ call'.symbol = call.symbol /\ call.symbol \in Symbols
    BY <1>5, <1>9 DEF SetLeverage, Checked
  <2>2. /\ exLeverage' = [exLeverage EXCEPT ![call.symbol] = l]
        /\ configured' = [configured EXCEPT ![call.symbol] = l]
        /\ exMargin' = exMargin /\ call.symbol \in exMargin
    BY <1>9 DEF SetLeverage
  <2>3. SetUpAsRemembered'
    BY <2>1, <2>2 DEF SetUpAsRemembered
  <2> QED BY <2>1, <2>2, <2>3
<1>10. CASE ChangeLeverage
  BY <1>1, <1>9, <1>10 DEF ChangeLeverage
<1>11. CASE UseLeverageCap
  <2>1. call.symbol \in Symbols /\ call.stage = "bracket"
    BY <1>11 DEF UseLeverageCap
  <2> QED BY <1>1, <1>9, <1>11, <2>1 DEF UseLeverageCap
<1>12. CASE ChangeLeverageFails
  <2>1. /\ call'.stage = "bracket" /\ call'.symbol = call.symbol /\ call.symbol \in Symbols
        /\ call.stage = "leverage" /\ configured' = configured /\ exMargin' = exMargin
    BY <1>5, <1>12 DEF ChangeLeverageFails, Checked
  <2>2. /\ exLeverage' \in [Symbols -> Nat]
        /\ \A s \in Symbols : s # call.symbol => exLeverage'[s] = exLeverage[s]
    BY <1>1, <1>12, <2>1 DEF ChangeLeverageFails
  <2>3. configured[call.symbol] = 0 /\ call.symbol \in exMargin
    BY <2>1
  <2>4. SetUpAsRemembered'
    BY <2>1, <2>2, <2>3 DEF SetUpAsRemembered
  <2> QED BY <2>1, <2>2, <2>3, <2>4
<1>13. CASE SetupFails
  BY <1>3, <1>13 DEF SetupFails
<1>14. CASE PlaceOrder
  BY <1>3, <1>14 DEF PlaceOrder
<1>15. CASE ReadPositions
  BY <1>4, <1>15 DEF ReadPositions
<1>16. ASSUME NEW s \in Symbols, NEW side \in {1, -1}, NEW q \in Sizes, OnSignal(s, side, q)
       PROVE  SetupInv'
  BY <1>4, <1>16 DEF OnSignal
<1> QED
  BY <1>2, <1>6, <1>7, <1>8, <1>10, <1>11, <1>12, <1>13, <1>14, <1>15, <1>16
     DEF Next, OnTick, Close, EquityMoves, MonitorReads, MonitorApplies, Breaker, TimePasses, vars

(* For every leverage and every table of caps, on an exchange that refuses *)
(* a margin type only because it is set already: what                      *)
(* _configured_leverage_margin remembers is what the exchange has, and no  *)
(* order goes out for a symbol that is not set up (binance_broker.py:254). *)
THEOREM SetUpHolds == MarginTypeFails = FALSE => (Spec => []SetUpAsRemembered)
<1> SUFFICES ASSUME MarginTypeFails = FALSE PROVE Spec => []SetUpAsRemembered
  OBVIOUS
<1>1. Init => SymbolInv /\ SetupInv
  BY RiskAssumption, ContractsAssumption DEF Init, SymbolInv, CallInv, WithinSymbolLimit, Abs, SetupInv,
                        SetUpAsRemembered, Idle
<1>2. SymbolInv /\ SetupInv /\ [Next]_vars => (SymbolInv /\ SetupInv)'
  BY SymbolStep, SetupStep
<1>3. SetupInv => SetUpAsRemembered
  BY DEF SetupInv
<1> QED BY <1>1, <1>2, <1>3, PTL DEF Spec

-----------------------------------------------------------------------------
(* The leverage of the whole book.                                         *)

ExposureOf(h, p) == [s \in Symbols |-> Abs(h[s]) * p[s] * Mult[s]]

(* What one position contributes to the gross exposure.                    *)
LEMMA ExposureChangesAt ==
    ASSUME NEW p \in [Symbols -> Nat], NEW h \in [Symbols -> Int], NEW e \in [Symbols -> Int],
           NEW s \in Symbols, \A x \in Symbols \ {s} : e[x] = h[x]
    PROVE  /\ SumOver(ExposureOf(h, p)) \in Int
           /\ SumOver(ExposureOf(e, p)) \in Int
           /\ Abs(h[s]) * p[s] * Mult[s] \in Nat
           /\ SumOver(ExposureOf(e, p)) = SumOver(ExposureOf(h, p))
                  + Abs(e[s]) * p[s] * Mult[s] - Abs(h[s]) * p[s] * Mult[s]
<1>1. \A n \in Int : Abs(n) \in Nat
  BY DEF Abs
<1>2. \A m, n \in Nat : m * n \in Nat
  OBVIOUS
<1>3. \A x \in Symbols : Mult[x] \in Nat /\ p[x] \in Nat /\ h[x] \in Int /\ e[x] \in Int
  BY ContractsAssumption
<1>4. \A x \in Symbols : /\ Abs(h[x]) * p[x] * Mult[x] \in Nat
                         /\ Abs(e[x]) * p[x] * Mult[x] \in Nat
  BY <1>1, <1>2, <1>3
<1> DEFINE F == ExposureOf(h, p)
           G == ExposureOf(e, p)
<1>5. /\ \A x \in Symbols : F[x] = Abs(h[x]) * p[x] * Mult[x]
      /\ \A x \in Symbols : G[x] = Abs(e[x]) * p[x] * Mult[x]
  BY DEF ExposureOf
<1>6. F \in [Symbols -> Int] /\ G \in [Symbols -> Int]
  BY <1>4 DEF ExposureOf
<1>7. \A x \in Symbols \ {s} : G[x] = F[x]
  BY <1>5
<1> HIDE DEF F, G
<1>8. /\ SumOver(F) \in Int /\ SumOver(G) \in Int
      /\ SumOver(G) = SumOver(F) + G[s] - F[s]
  BY <1>6, <1>7, SumChangesAt
<1>9. /\ F[s] = Abs(h[s]) * p[s] * Mult[s]
      /\ G[s] = Abs(e[s]) * p[s] * Mult[s]
  BY <1>5
<1>10. /\ SumOver(F) \in Int /\ SumOver(G) \in Int
       /\ SumOver(G) = SumOver(F) + Abs(e[s]) * p[s] * Mult[s] - Abs(h[s]) * p[s] * Mult[s]
  BY <1>8, <1>9
<1> QED BY <1>4, <1>10 DEF F, G

(* While on_signal is suspended the book is worth no more than what it     *)
(* read, and an order past its checks fits on top of that.                 *)
LeverageInv ==
    /\ price \in [Symbols -> Nat]
    /\ equity \in Int
    /\ call.stage # "idle" => call.equity \in Int
    /\ call.stage \in {"positions"} \cup Checked =>
           /\ call.gross \in Int
           /\ GrossExposure(held) <= call.gross
    /\ call.stage \in Checked => call.gross + Notional(call) <= MaxGross * call.equity

(* Every step keeps it: only closes change the book meanwhile, and prices  *)
(* stand still.                                                            *)
LEMMA LeverageStep ==
    ASSUME SymbolInv, LeverageInv, [Next]_vars
    PROVE  LeverageInv'
<1>1. /\ Prices \subseteq Nat /\ Equities \subseteq Int /\ MaxGross \in Nat
      /\ \A s \in Symbols : Mult[s] \in Nat
  BY RiskAssumption, ContractsAssumption
<1>2. price \in [Symbols -> Nat] /\ held \in [Symbols -> Int]
  BY DEF LeverageInv, SymbolInv
<1>3. /\ GrossExposure(held) = SumOver(ExposureOf(held, price))
      /\ GrossExposure(held)' = SumOver(ExposureOf(held', price'))
  BY DEF GrossExposure, ExposureOf
<1>4. CASE UNCHANGED <<held, price, call>> /\ equity' \in Int
  BY <1>3, <1>4 DEF LeverageInv, Notional
<1>5. CASE UNCHANGED price /\ equity' = equity /\ call' = Idle
  BY <1>5 DEF LeverageInv, Idle, Checked
<1>6. ASSUME NEW s \in Symbols, NEW side \in {1, -1}, NEW q \in Sizes, OnSignal(s, side, q)
      PROVE  LeverageInv'
  BY <1>6 DEF OnSignal, LeverageInv, accountVars, Checked
<1>7. CASE ReadPositions
  <2>1. /\ held' = held /\ price' = price /\ equity' = equity /\ call.stage = "equity"
        /\ call' = [stage |-> "positions", symbol |-> call.symbol, side |-> call.side,
                    qty |-> call.qty, equity |-> call.equity, gross |-> GrossExposure(held)]
    BY <1>7 DEF ReadPositions, accountVars
  <2>2. call.symbol \in Symbols /\ call.equity \in Int
    BY <2>1 DEF SymbolInv, CallInv, Idle, LeverageInv
  <2>3. SumOver(ExposureOf(held, price)) \in Int
    BY <1>2, <2>2, ExposureChangesAt
  <2>4. GrossExposure(held)' = GrossExposure(held) /\ GrossExposure(held) \in Int
    BY <1>3, <2>1, <2>3
  <2>5. /\ call'.stage = "positions" /\ call'.equity = call.equity
        /\ call'.gross = GrossExposure(held)
    BY <2>1
  <2> QED BY <2>1, <2>2, <2>4, <2>5 DEF LeverageInv, Checked
<1>8. ASSUME call.stage \in {"positions"} \cup Checked, NEW stage \in Checked,
             call' = [call EXCEPT !.stage = stage]
      PROVE  /\ call' = Moved(call, stage)
             /\ call.symbol \in Symbols /\ call.qty \in Nat
  <2>1. /\ call = Moved(call, call.stage)
        /\ call.symbol \in Symbols /\ call.qty \in Nat
    BY <1>8 DEF SymbolInv, CallInv, Idle, Checked
  <2> QED BY <1>8, <2>1 DEF Moved
<1>9. ASSUME NEW stage \in Checked, UNCHANGED <<held, price, equity>>,
             call.stage \in {"positions"} \cup Checked,
             call' = [call EXCEPT !.stage = stage],
             call.gross + Notional(call) <= MaxGross * call.equity
      PROVE  LeverageInv'
  <2>1. call' = Moved(call, stage)
    BY <1>8, <1>9
  <2>2. /\ call'.stage = stage /\ call'.equity = call.equity /\ call'.gross = call.gross
        /\ call'.symbol = call.symbol /\ call'.qty = call.qty
    BY <2>1 DEF Moved
  <2>3. GrossExposure(held)' = GrossExposure(held) /\ Notional(call)' = Notional(call)
    BY <1>3, <1>9, <2>2 DEF Notional
  <2>4. call.stage # "idle" /\ "idle" \notin Checked
    BY <1>9 DEF Checked
  <2> QED BY <1>9, <2>2, <2>3, <2>4 DEF LeverageInv
<1>10. CASE CheckOrder
  <2>1. call.stage = "positions" /\ UNCHANGED <<held, price, equity>>
    BY <1>10 DEF CheckOrder, accountVars
  <2>2. CASE call' = [call EXCEPT !.stage = "approved"] /\ WithinLimits(call)
    <3>1. call.gross + Notional(call) <= MaxGross * call.equity
      BY <2>2 DEF WithinLimits, LeverageOK
    <3> QED BY <1>9, <2>1, <2>2, <3>1 DEF Checked
  <2>3. CASE call' = Idle
    BY <1>5, <2>1, <2>3
  <2> QED BY <1>10, <2>2, <2>3 DEF CheckOrder
<1>11. CASE AlreadyConfigured \/ ChangeMarginType \/ ChangeLeverage \/ ChangeLeverageFails
            \/ UseLeverageCap
  <2>1. /\ call.stage \in Checked /\ UNCHANGED <<held, price, equity>>
        /\ \E stage \in Checked : call' = [call EXCEPT !.stage = stage]
    BY <1>11 DEF AlreadyConfigured, ChangeMarginType, ChangeLeverage, ChangeLeverageFails,
                 UseLeverageCap, SetLeverage, Checked, accountVars
  <2>2. call.gross + Notional(call) <= MaxGross * call.equity
    BY <2>1 DEF LeverageInv
  <2> QED BY <1>9, <2>1, <2>2
<1>12. CASE SetupFails \/ PlaceOrder
  BY <1>5, <1>12 DEF SetupFails, PlaceOrder, accountVars
<1>13. ASSUME NEW s \in Symbols, NEW p \in Prices, OnTick(s, p)
       PROVE  LeverageInv'
  <2>1. /\ call.stage = "idle" /\ call' = call /\ equity' = equity
        /\ price' = [price EXCEPT ![s] = p]
    BY <1>13 DEF OnTick, accountVars
  <2>2. price' \in [Symbols -> Nat]
    BY <1>1, <1>2, <2>1
  <2> QED BY <2>1, <2>2 DEF LeverageInv, Checked
<1>14. ASSUME NEW s \in Symbols, Close(s)
       PROVE  LeverageInv'
  <2>1. /\ held' = [held EXCEPT ![s] = 0] /\ UNCHANGED <<price, equity, call>>
    BY <1>14 DEF Close
  <2>2. /\ held' \in [Symbols -> Int] /\ held'[s] = 0
        /\ \A x \in Symbols \ {s} : held'[x] = held[x]
    BY <1>2, <2>1
  <2> DEFINE before == SumOver(ExposureOf(held, price))
             after == SumOver(ExposureOf(held', price))
             was == Abs(held[s]) * price[s] * Mult[s]
             is == Abs(held'[s]) * price[s] * Mult[s]
  <2>3. before \in Int /\ after \in Int /\ was \in Nat /\ after = before + is - was
    BY <1>2, <2>2, ExposureChangesAt
  <2>4. is = 0
    BY <1>1, <1>2, <2>2 DEF Abs
  <2> HIDE DEF before, after, was, is
  <2>5. after <= before
    BY <2>3, <2>4
  <2>6. GrossExposure(held)' <= GrossExposure(held) /\ GrossExposure(held)' \in Int
        /\ GrossExposure(held) \in Int
    BY <1>3, <2>1, <2>3, <2>5 DEF before, after
  <2>7. Notional(call)' = Notional(call)
    BY <2>1 DEF Notional
  <2> QED BY <2>1, <2>6, <2>7 DEF LeverageInv
<1>15. CASE \E e \in Equities : EquityMoves(e)
  BY <1>1, <1>4, <1>15 DEF EquityMoves
<1>16. CASE \/ MonitorReads \/ \E p \in polled : MonitorApplies(p)
            \/ \E b \in BOOLEAN : Breaker(b)
            \/ TimePasses
  BY <1>4, <1>16 DEF MonitorReads, MonitorApplies, Breaker, TimePasses, accountVars, LeverageInv
<1>17. CASE UNCHANGED vars
  BY <1>4, <1>17 DEF vars, accountVars, LeverageInv
<1> QED
  BY <1>6, <1>7, <1>10, <1>11, <1>12, <1>13, <1>14, <1>15, <1>16, <1>17 DEF Next

(* An entry is the order of the call in progress, and the book with it is  *)
(* what the check allowed at most.                                         *)
LEMMA EntryWithinLeverage ==
    ASSUME SymbolInv, LeverageInv, Next, NEW s \in Symbols, held[s] = 0, held'[s] # 0
    PROVE  GrossExposure(held') <= MaxGross * call.equity
<1>1. \A x \in Symbols : Mult[x] \in Nat
  BY ContractsAssumption
<1>2. price \in [Symbols -> Nat] /\ held \in [Symbols -> Int]
  BY DEF LeverageInv, SymbolInv
<1>3. PlaceOrder
  BY DEF Next, OnSignal, ReadPositions, CheckOrder, AlreadyConfigured, ChangeMarginType,
         ChangeLeverage, ChangeLeverageFails, UseLeverageCap, SetLeverage, SetupFails, OnTick,
         Close, EquityMoves, MonitorReads, MonitorApplies, Breaker, TimePasses, accountVars,
         SymbolInv
<1>4. /\ call.stage = "placing"
      /\ held' = [held EXCEPT ![call.symbol] = @ + Signed(call)]
  BY <1>3 DEF PlaceOrder
<1>5. /\ call.symbol \in Symbols /\ call.side \in {1, -1} /\ call.qty \in Nat
      /\ held[call.symbol] = 0
  BY <1>4 DEF SymbolInv, CallInv, Idle, Checked
<1>6. Signed(call) \in Int /\ Abs(Signed(call)) = call.qty
  BY <1>5 DEF Signed, Abs
<1> DEFINE x == call.symbol
<1>7. /\ held' \in [Symbols -> Int] /\ held'[x] = Signed(call)
      /\ \A y \in Symbols \ {x} : held'[y] = held[y]
  BY <1>2, <1>4, <1>5, <1>6
<1> DEFINE old == SumOver(ExposureOf(held, price))
           new == SumOver(ExposureOf(held', price))
           was == Abs(held[x]) * price[x] * Mult[x]
           is == Abs(held'[x]) * price[x] * Mult[x]
<1>8. old \in Int /\ new \in Int /\ new = old + is - was
  BY <1>2, <1>5, <1>7, ExposureChangesAt
<1>9. was = 0
  BY <1>1, <1>2, <1>5 DEF Abs
<1>10. is = Notional(call) /\ is \in Int
  BY <1>1, <1>2, <1>5, <1>6, <1>7 DEF Notional
<1>11. old = GrossExposure(held) /\ new = GrossExposure(held')
  BY DEF GrossExposure, ExposureOf
<1>12. /\ call.gross \in Int /\ GrossExposure(held) <= call.gross
       /\ call.gross + Notional(call) <= MaxGross * call.equity
       /\ MaxGross * call.equity \in Int
  BY <1>4, RiskAssumption DEF LeverageInv, Checked
<1> HIDE DEF old, new, was, is
<1>13. new = old + Notional(call) /\ Notional(call) \in Int
  BY <1>8, <1>9, <1>10
<1> QED BY <1>8, <1>11, <1>12, <1>13

(* For every universe, price and limit: whenever an entry is executed, the *)
(* whole book at the gate's prices is within max_gross_leverage times the  *)
(* equity on_signal read, although positions close and equity moves        *)
(* between its awaits (risk_engine.py:192-204).                            *)
THEOREM LeverageHolds == Spec => WithinLeverage
<1>1. Init => SymbolInv /\ LeverageInv
  <2>1. Init => SymbolInv
    BY RiskAssumption, ContractsAssumption DEF Init, SymbolInv, CallInv, WithinSymbolLimit, Abs
  <2>2. Init => LeverageInv
    BY RiskAssumption DEF Init, LeverageInv, Idle, Checked
  <2> QED BY <2>1, <2>2
<1>2. SymbolInv /\ LeverageInv /\ [Next]_vars => (SymbolInv /\ LeverageInv)'
  BY SymbolStep, LeverageStep
<1>3. SymbolInv /\ LeverageInv /\ [Next]_vars =>
          [\A s \in Symbols :
              held[s] = 0 /\ held'[s] # 0 => GrossExposure(held') <= MaxGross * call.equity]_vars
  BY EntryWithinLeverage
<1> QED BY <1>1, <1>2, <1>3, PTL DEF Spec, WithinLeverage

-----------------------------------------------------------------------------
(* The gate: types.                                                        *)

(* TypeOK but for the limiter's part.                                      *)
GateTypeInv ==
    /\ known \in [Symbols -> Int]
    /\ \A p \in polled : p \in [Symbols -> Int]
    /\ Cardinality(polled) <= 1
    /\ equity \in Equities
    /\ exLeverage \in [Symbols -> Nat] /\ configured \in [Symbols -> Nat]
    /\ exMargin \subseteq Symbols
    /\ price \in [Symbols -> Prices \cup {0}]
    /\ halted \in BOOLEAN
    /\ call.stage # "idle" => call.qty \in Sizes /\ call.equity \in Equities

(* Every step of the gate keeps the types.                                 *)
LEMMA GateTypeStep ==
    ASSUME SymbolInv, GateTypeInv, [Next]_vars
    PROVE  GateTypeInv'
<1>1. /\ Leverage \in Nat /\ MaxLeverageOf \in [Symbols -> Nat] /\ held \in [Symbols -> Int]
      /\ CallInv
  BY RiskAssumption DEF SymbolInv
<1>2. call.stage # "idle" => call.symbol \in Symbols
  BY <1>1 DEF CallInv, Idle
<1>3. known' \in [Symbols -> Int]
  <2>1. ASSUME NEW p \in polled, MonitorApplies(p) PROVE known' \in [Symbols -> Int]
    <3>1. p \in [Symbols -> Int] /\ known \in [Symbols -> Int]
      BY DEF GateTypeInv
    <3>2. known' = [s \in Symbols |-> IF p[s] # 0 THEN p[s] ELSE known[s]]
      BY <2>1 DEF MonitorApplies
    <3> QED BY <3>1, <3>2
  <2>2. UNCHANGED known \/ \E p \in polled : MonitorApplies(p)
    BY DEF Next, vars, OnSignal, ReadPositions, CheckOrder, AlreadyConfigured, ChangeMarginType,
           ChangeLeverage, ChangeLeverageFails, UseLeverageCap, SetLeverage, SetupFails,
           PlaceOrder, OnTick, Close, EquityMoves, MonitorReads, Breaker, TimePasses
  <2> QED BY <2>1, <2>2 DEF GateTypeInv
<1>4. (\A p \in polled' : p \in [Symbols -> Int]) /\ Cardinality(polled') <= 1
  <2>1. polled' \in {polled, {held}, {}}
    BY DEF Next, vars, OnSignal, ReadPositions, CheckOrder, AlreadyConfigured, ChangeMarginType,
           ChangeLeverage, ChangeLeverageFails, UseLeverageCap, SetLeverage, SetupFails,
           PlaceOrder, OnTick, Close, EquityMoves, MonitorReads, MonitorApplies, Breaker,
           TimePasses
  <2>2. Cardinality({held}) = 1 /\ Cardinality({}) = 0
    BY FS_Singleton, FS_EmptySet
  <2>3. CASE polled' = polled
    BY <2>3 DEF GateTypeInv
  <2>4. CASE polled' = {held}
    <3>1. Cardinality(polled') = 1
      BY <2>2, <2>4, Zenon
    <3> QED BY <1>1, <2>4, <3>1
  <2>5. CASE polled' = {}
    <3>1. Cardinality(polled') = 0
      BY <2>2, <2>5, Zenon
    <3> QED BY <2>5, <3>1
  <2> QED BY <2>1, <2>3, <2>4, <2>5
<1>5. equity' \in Equities
  BY DEF GateTypeInv, Next, vars, accountVars, OnSignal, ReadPositions, CheckOrder,
         AlreadyConfigured, ChangeMarginType, ChangeLeverage, ChangeLeverageFails,
         UseLeverageCap, SetLeverage, SetupFails, PlaceOrder, OnTick, Close, EquityMoves,
         MonitorReads, MonitorApplies, Breaker, TimePasses
<1>6. exLeverage' \in [Symbols -> Nat] /\ configured' \in [Symbols -> Nat] /\ exMargin' \subseteq Symbols
  <2>1. ASSUME NEW l \in Nat, call.stage # "idle", SetLeverage(l)
        PROVE  /\ exLeverage' \in [Symbols -> Nat] /\ configured' \in [Symbols -> Nat]
               /\ exMargin' \subseteq Symbols
    BY <1>2, <2>1 DEF SetLeverage, GateTypeInv
  <2>2. CASE ChangeLeverage \/ UseLeverageCap
    BY <1>1, <1>2, <2>1, <2>2 DEF ChangeLeverage, UseLeverageCap
  <2>3. CASE ChangeLeverageFails
    <3>1. /\ call.symbol \in Symbols /\ UNCHANGED <<exMargin, configured>>
          /\ exLeverage' = exLeverage \/ exLeverage' = [exLeverage EXCEPT ![call.symbol] = Leverage]
      BY <1>2, <2>3 DEF ChangeLeverageFails
    <3> QED BY <1>1, <3>1 DEF GateTypeInv
  <2>4. CASE ChangeMarginType
    <3>1. /\ call.symbol \in Symbols /\ UNCHANGED <<exLeverage, configured>>
          /\ exMargin' = exMargin \cup {call.symbol} \/ exMargin' = exMargin
      BY <1>2, <2>4 DEF ChangeMarginType
    <3> QED BY <3>1 DEF GateTypeInv
  <2>5. CASE UNCHANGED <<exLeverage, exMargin, configured>>
    BY <2>5 DEF GateTypeInv
  <2>6. \/ ChangeLeverage \/ UseLeverageCap \/ ChangeLeverageFails \/ ChangeMarginType
        \/ UNCHANGED <<exLeverage, exMargin, configured>>
    BY DEF Next, vars, setupVars, OnSignal, ReadPositions, CheckOrder, AlreadyConfigured,
           SetupFails, PlaceOrder, OnTick, Close, EquityMoves, MonitorReads, MonitorApplies,
           Breaker, TimePasses
  <2> QED BY <2>2, <2>3, <2>4, <2>5, <2>6
<1>7. price' \in [Symbols -> Prices \cup {0}]
  <2>1. ASSUME NEW s \in Symbols, NEW p \in Prices, OnTick(s, p)
        PROVE  price' \in [Symbols -> Prices \cup {0}]
    BY <2>1 DEF OnTick, GateTypeInv
  <2>2. UNCHANGED price \/ \E s \in Symbols, p \in Prices : OnTick(s, p)
    BY DEF Next, vars, OnSignal, ReadPositions, CheckOrder, AlreadyConfigured, ChangeMarginType,
           ChangeLeverage, ChangeLeverageFails, UseLeverageCap, SetLeverage, SetupFails,
           PlaceOrder, Close, EquityMoves, MonitorReads, MonitorApplies, Breaker, TimePasses
  <2> QED BY <2>1, <2>2 DEF GateTypeInv
<1>8. halted' \in BOOLEAN
  <2>1. UNCHANGED halted \/ \E b \in BOOLEAN : halted' = b
    BY DEF Next, vars, OnSignal, ReadPositions, CheckOrder, AlreadyConfigured, ChangeMarginType,
           ChangeLeverage, ChangeLeverageFails, UseLeverageCap, SetLeverage, SetupFails,
           PlaceOrder, OnTick, Close, EquityMoves, MonitorReads, MonitorApplies, Breaker,
           TimePasses
  <2> QED BY <2>1 DEF GateTypeInv
<1>9. call'.stage # "idle" => call'.qty \in Sizes /\ call'.equity \in Equities
  <2>1. CASE call' = call
    BY <2>1 DEF GateTypeInv
  <2>2. CASE call' = Idle
    BY <2>2 DEF Idle
  <2>3. ASSUME NEW s \in Symbols, NEW side \in {1, -1}, NEW q \in Sizes, OnSignal(s, side, q)
        PROVE  call'.qty \in Sizes /\ call'.equity \in Equities
    BY <2>3 DEF OnSignal, GateTypeInv
  <2>4. CASE ReadPositions
    BY <2>4 DEF ReadPositions, GateTypeInv
  <2>5. ASSUME NEW stage \in Checked, call.stage \in {"positions"} \cup Checked,
               call' = [call EXCEPT !.stage = stage]
        PROVE  call'.qty \in Sizes /\ call'.equity \in Equities
    <3>1. call.qty \in Sizes /\ call.equity \in Equities
      BY <2>5 DEF GateTypeInv, Checked
    <3>2. call'.qty = call.qty /\ call'.equity = call.equity
      BY <2>5
    <3> QED BY <3>1, <3>2
  <2>6. CASE CheckOrder
    <3>1. call' = Idle \/ call' = [call EXCEPT !.stage = "approved"]
      BY <2>6 DEF CheckOrder
    <3>2. call.stage = "positions"
      BY <2>6 DEF CheckOrder
    <3> QED BY <2>2, <2>5, <3>1, <3>2 DEF Checked
  <2>7. CASE AlreadyConfigured \/ ChangeMarginType \/ ChangeLeverage \/ ChangeLeverageFails
             \/ UseLeverageCap
    BY <2>5, <2>7 DEF AlreadyConfigured, ChangeMarginType, ChangeLeverage, ChangeLeverageFails,
                      UseLeverageCap, SetLeverage, Checked
  <2> QED BY <2>1, <2>2, <2>3, <2>4, <2>6, <2>7
          DEF Next, vars, SetupFails, PlaceOrder, OnTick, Close, EquityMoves, MonitorReads,
              MonitorApplies, Breaker, TimePasses
<1> QED BY <1>3, <1>4, <1>5, <1>6, <1>7, <1>8, <1>9 DEF GateTypeInv

(* For every universe, price, size and limit the gate's state has its      *)
(* type, the limiter's windows included (risk_engine.py).                  *)
THEOREM GateTypes == Spec => []TypeOK
<1>1. Init => SymbolInv /\ GateTypeInv
  <2>1. Init => SymbolInv
    BY RiskAssumption, ContractsAssumption DEF Init, SymbolInv, CallInv, WithinSymbolLimit, Abs
  <2>2. Cardinality({}) = 0
    BY FS_EmptySet
  <2>3. Init => GateTypeInv
    <3> SUFFICES ASSUME Init PROVE GateTypeInv
      OBVIOUS
    <3>1. /\ polled = {} /\ call.stage = "idle" /\ halted = FALSE /\ exMargin = {}
          /\ equity \in Equities
      BY DEF Init, Idle
    <3>2. /\ known \in [Symbols -> Int] /\ price \in [Symbols -> Prices \cup {0}]
          /\ exLeverage \in [Symbols -> Nat] /\ configured \in [Symbols -> Nat]
      BY DEF Init
    <3>3. Cardinality(polled) <= 1 /\ \A p \in polled : p \in [Symbols -> Int]
      BY <2>2, <3>1
    <3>4. halted \in BOOLEAN
      BY <3>1, Zenon
    <3>5. call.stage # "idle" => call.qty \in Sizes /\ call.equity \in Equities
      BY <3>1
    <3> QED BY <3>1, <3>2, <3>3, <3>4, <3>5, Zenon DEF GateTypeInv
  <2> QED BY <2>1, <2>3
<1>2. SymbolInv /\ GateTypeInv /\ [Next]_vars => (SymbolInv /\ GateTypeInv)'
  BY SymbolStep, GateTypeStep
<1>3. LimiterInit => LimiterInv
  BY LimiterStart
<1>4. LimiterInv /\ [LimiterNext]_limiterVars => LimiterInv'
  BY LimiterStep
<1>5. LimiterInv /\ SymbolInv /\ GateTypeInv => TypeOK
  <2> SUFFICES ASSUME LimiterInv, SymbolInv, GateTypeInv PROVE TypeOK
    OBVIOUS
  <2>1. LimiterTypeOK
    BY DEF LimiterInv
  <2>2. call.stage \in Stages /\ (call.stage # "idle" => call.symbol \in Symbols /\ call.side \in {1, -1})
    BY DEF SymbolInv, CallInv, Idle, Checked, Stages
  <2> QED BY <2>1, <2>2 DEF TypeOK, SymbolInv, GateTypeInv
<1> QED BY <1>1, <1>2, <1>3, <1>4, <1>5, GateImplementsLimiter, PTL DEF Spec, LimiterSpec

-----------------------------------------------------------------------------
(* The sizes of signals.                                                   *)

(* Products of naturals are naturals, and keep and reflect their order.    *)
LEMMA NatProducts ==
    /\ \A m, n \in Nat : m * n \in Nat
    /\ \A m, n, c \in Nat : m <= n => m * c <= n * c
    /\ \A m, n \in Nat : \A c \in Nat \ {0} : m * c <= n * c => m <= n
<1>1. \A m, n \in Nat : m * n \in Nat
  OBVIOUS
<1>2. \A m, n, c \in Nat : m <= n => m * c <= n * c
  <2> SUFFICES ASSUME NEW m \in Nat, NEW n \in Nat, NEW c \in Nat, m <= n PROVE m * c <= n * c
    OBVIOUS
  <2>1. (n - m) * c >= 0
    OBVIOUS
  <2>2. (n - m) * c = n * c - m * c
    OBVIOUS
  <2> QED BY <2>1, <2>2
<1>3. \A m, n \in Nat : \A c \in Nat \ {0} : m * c <= n * c => m <= n
  <2> SUFFICES ASSUME NEW m \in Nat, NEW n \in Nat, NEW c \in Nat \ {0}, m > n
               PROVE m * c > n * c
    OBVIOUS
  <2>1. (m - n) * c > 0
    OBVIOUS
  <2>2. (m - n) * c = m * c - n * c
    OBVIOUS
  <2> QED BY <2>1, <2>2
<1> QED BY <1>1, <1>2, <1>3

(* A floor of a quotient is the largest number whose multiple fits.        *)
LEMMA Floor ==
    ASSUME NEW a \in Nat, NEW d \in Nat \ {0}
    PROVE  /\ a \div d \in Nat
           /\ \A k \in Nat : k <= a \div d <=> k * d <= a
<1> DEFINE n == a \div d
           r == a % d
<1>1. n \in Nat /\ r \in 0 .. d - 1
  OBVIOUS
<1>2. a = d * n + r
  OBVIOUS
<1> HIDE DEF n, r
<1>3. ASSUME NEW k \in Nat PROVE k <= n <=> k * d <= a
  <2>1. ASSUME k <= n PROVE k * d <= a
    <3>1. k * d <= n * d /\ k * d \in Nat /\ n * d \in Nat
      BY <1>1, <2>1, NatProducts
    <3> QED BY <1>1, <1>2, <3>1
  <2>2. ASSUME n < k PROVE k * d > a
    <3>1. (n + 1) * d <= k * d /\ (n + 1) * d = n * d + d /\ k * d \in Nat /\ n * d \in Nat
      BY <1>1, <2>2, NatProducts
    <3> QED BY <1>1, <1>2, <3>1
  <2> QED BY <1>1, <2>1, <2>2, NatProducts
<1> QED BY <1>1, <1>3 DEF n

(* Sizing for a target volatility gives the largest count that exceeds     *)
(* neither the volatility nor the leverage.                                *)
LEMMA VolatilitySizes ==
    ASSUME NEW e \in Nat \ {0}, NEW u \in Nat \ {0}, NEW t \in Nat \ {0},
           NEW vol \in Nat \ {0}, NEW lev \in Nat \ {0}
    PROVE  /\ TargetVolatilitySize(e, t, vol, u, lev) \in Nat
           /\ \A k \in Nat : k <= TargetVolatilitySize(e, t, vol, u, lev)
                             <=> VolatilityAllows(k, e, t, vol, u, lev)
<1> DEFINE a == (e * t) \div (u * vol)
           c == (e * lev) \div (100 * u)
           n == TargetVolatilitySize(e, t, vol, u, lev)
<1>1. /\ e * t \in Nat /\ u * vol \in Nat \ {0} /\ e * lev \in Nat /\ 100 * u \in Nat \ {0}
  OBVIOUS
<1>2. a \in Nat /\ \A k \in Nat : k <= a <=> k * (u * vol) <= e * t
  BY <1>1, Floor
<1>3. c \in Nat /\ \A k \in Nat : k <= c <=> k * (100 * u) <= e * lev
  BY <1>1, Floor
<1>4. n = IF a <= c THEN a ELSE c
  BY DEF TargetVolatilitySize, Lesser
<1> HIDE DEF a, c, n
<1>5. ASSUME NEW k \in Nat
      PROVE  k <= n <=> VolatilityAllows(k, e, t, vol, u, lev)
  <2>1. k <= n <=> k * (u * vol) <= e * t /\ k * (100 * u) <= e * lev
    BY <1>2, <1>3, <1>4
  <2>2. /\ k * (u * vol) = k * u * vol /\ k * (100 * u) = k * u * 100 /\ e * lev = lev * e
    OBVIOUS
  <2> QED BY <2>1, <2>2 DEF VolatilityAllows, WithinLeverageOf
<1> QED BY <1>2, <1>3, <1>4, <1>5 DEF n

(* The Kelly sizing gives the largest count that exceeds neither the       *)
(* capped edge nor the leverage, whichever of the two binds.               *)
LEMMA KellySizes ==
    ASSUME NEW p \in Nat \ {0}, p < 100, NEW b \in Nat \ {0}, NEW e \in Nat \ {0},
           NEW u \in Nat \ {0}, NEW cap \in Nat \ {0}, NEW lev \in Nat \ {0}
    PROVE  /\ KellyPositionSize(p, b, e, u, cap, lev) \in Nat
           /\ \A k \in Nat : k <= KellyPositionSize(p, b, e, u, cap, lev)
                             <=> KellyAllows(k, p, b, e, u, cap, lev)
<1> DEFINE raw == p * b - 100 * (100 - p)
           g == Edge(p, b)
           n == KellyPositionSize(p, b, e, u, cap, lev)
<1>1. raw \in Int /\ g \in Nat /\ g = IF raw >= 0 THEN raw ELSE 0
  BY DEF Edge, Greater
<1>2. n = IF g * cap <= lev * 100 * b
          THEN (g * cap * e) \div (10000 * b * u)
          ELSE (lev * e) \div (100 * u)
  <2>1. CASE g * cap <= lev * 100 * b
    <3>1. KellyFraction(p, b, cap, lev) = <<g * cap, 10000 * b>>
      BY <2>1 DEF KellyFraction
    <3> QED BY <2>1, <3>1 DEF KellyPositionSize
  <2>2. CASE ~(g * cap <= lev * 100 * b)
    <3>1. KellyFraction(p, b, cap, lev) = <<lev, 100>>
      BY <2>2 DEF KellyFraction
    <3> QED BY <2>2, <3>1 DEF KellyPositionSize
  <2> QED BY <2>1, <2>2
<1>3. ASSUME NEW k \in Nat
      PROVE  KellyAllows(k, p, b, e, u, cap, lev) <=>
                 /\ k * u * 100 <= lev * e
                 /\ k = 0 \/ k * u * 10000 * b <= raw * cap * e
  BY DEF KellyAllows, WithinLeverageOf
<1> HIDE DEF raw, g, n
<1> DEFINE x == g * cap * e
           y == lev * e
           h == 100 * b
<1>4. x \in Nat /\ y \in Nat /\ h \in Nat \ {0} /\ g * cap \in Nat /\ lev * h \in Nat
  BY <1>1, NatProducts
<1>5. 10000 * b * u \in Nat \ {0} /\ 100 * u \in Nat \ {0}
  OBVIOUS
<1>6. ASSUME NEW k \in Nat
      PROVE  (k = 0 \/ k * u * 10000 * b <= raw * cap * e) <=> k * u * 100 * h <= x
  <2>1. k * u * 10000 * b = k * u * 100 * h
    OBVIOUS
  <2>2. CASE raw >= 0
    <3>1. raw * cap * e = x
      BY <1>1, <2>2
    <3>2. k = 0 => k * u * 100 * h = 0
      OBVIOUS
    <3> HIDE DEF x, h
    <3> QED BY <1>4, <2>1, <3>1, <3>2
  <2>3. CASE raw < 0
    <3>1. x = 0
      BY <1>1, <2>3
    <3>2. raw * cap < 0
      BY <1>1, <2>3
    <3>3. raw * cap * e < 0
      BY <1>1, <3>2
    <3>4. k # 0 => k * u * 100 * h > 0
      <4> SUFFICES ASSUME k \in Nat \ {0} PROVE k * u * 100 * h > 0
        OBVIOUS
      <4>1. k * u \in Nat \ {0}
        OBVIOUS
      <4>2. k * u * 100 \in Nat \ {0}
        BY <4>1
      <4> HIDE DEF h
      <4> QED BY <1>4, <4>2
    <3>5. k = 0 => k * u * 100 * h = 0
      OBVIOUS
    <3>6. k * u * 100 * h \in Int /\ raw * cap * e \in Int
      BY <1>1
    <3> HIDE DEF x, h
    <3> QED BY <2>1, <3>1, <3>3, <3>4, <3>5, <3>6
  <2> QED BY <1>1, <2>2, <2>3
<1>7. CASE g * cap <= lev * 100 * b
  <2>1. n \in Nat /\ \A k \in Nat : k <= n <=> k * (10000 * b * u) <= x
    BY <1>2, <1>4, <1>5, <1>7, Floor
  <2>2. x <= y * h
    <3>1. g * cap * e <= lev * 100 * b * e
      BY <1>4, <1>7, NatProducts
    <3>2. lev * 100 * b * e = y * h
      OBVIOUS
    <3> QED BY <3>1, <3>2
  <2>3. ASSUME NEW k \in Nat PROVE k <= n <=> KellyAllows(k, p, b, e, u, cap, lev)
    <3>1. k * (10000 * b * u) = k * u * 100 * h
      OBVIOUS
    <3>2. k <= n <=> k * u * 100 * h <= x
      BY <2>1, <3>1
    <3>3. k * u * 100 \in Nat
      OBVIOUS
    <3>4. k * u * 100 * h <= x => k * u * 100 <= y
      <4> HIDE DEF x, y, h
      <4>1. k * u * 100 * h \in Nat /\ y * h \in Nat
        BY <1>4, <3>3, NatProducts
      <4>2. k * u * 100 * h <= x => k * u * 100 * h <= y * h
        BY <1>4, <2>2, <4>1
      <4> QED BY <1>4, <3>3, <4>2, NatProducts
    <3> HIDE DEF x, h
    <3> QED BY <1>3, <1>6, <3>2, <3>4
  <2> QED BY <2>1, <2>3 DEF n
<1>8. CASE ~(g * cap <= lev * 100 * b)
  <2>1. n \in Nat /\ \A k \in Nat : k <= n <=> k * (100 * u) <= y
    BY <1>2, <1>4, <1>5, <1>8, Floor
  <2>2. y * h <= x
    <3>1. lev * 100 * b \in Nat /\ lev * 100 * b <= g * cap
      BY <1>4, <1>8
    <3>2. lev * 100 * b * e <= g * cap * e
      BY <1>4, <3>1, NatProducts
    <3>3. lev * 100 * b * e = y * h
      OBVIOUS
    <3> QED BY <3>2, <3>3
  <2>3. ASSUME NEW k \in Nat PROVE k <= n <=> KellyAllows(k, p, b, e, u, cap, lev)
    <3>1. k * (100 * u) = k * u * 100 /\ k * u * 100 \in Nat
      OBVIOUS
    <3>2. k <= n <=> k * u * 100 <= y
      BY <2>1, <3>1
    <3>3. k * u * 100 <= y => k * u * 100 * h <= x
      <4> HIDE DEF x, y, h
      <4>1. k * u * 100 * h \in Nat /\ y * h \in Nat
        BY <1>4, <3>1, NatProducts
      <4>2. k * u * 100 <= y => k * u * 100 * h <= y * h
        BY <1>4, <3>1, NatProducts
      <4> QED BY <1>4, <2>2, <4>1, <4>2
    <3> HIDE DEF x, h
    <3> QED BY <1>3, <1>6, <3>2, <3>3
  <2> QED BY <2>1, <2>3 DEF n
<1> QED BY <1>7, <1>8

(* The three sizing functions, for all their inputs.                       *)
LEMMA SizesHold == SizesAreLargest
<1>1. Percents \subseteq Nat \ {0} /\ Budgets \subseteq Nat \ {0} /\ Notionals \subseteq Nat \ {0}
  BY SizingAssumption
<1> SUFFICES ASSUME NEW e \in Budgets, NEW u \in Notionals
             PROVE  /\ LET n == ComputeLots(e, u) IN n >= 0 /\ n * u <= e /\ (n + 1) * u > e
                    /\ \A p \in Percents, b \in Percents, cap \in Percents, lev \in Percents :
                         /\ p < 100 =>
                              LET n == KellyPositionSize(p, b, e, u, cap, lev)
                              IN  /\ n >= 0 /\ KellyAllows(n, p, b, e, u, cap, lev)
                                  /\ ~KellyAllows(n + 1, p, b, e, u, cap, lev)
                         /\ LET n == TargetVolatilitySize(e, p, b, u, lev)
                            IN  /\ n >= 0 /\ VolatilityAllows(n, e, p, b, u, lev)
                                /\ ~VolatilityAllows(n + 1, e, p, b, u, lev)
  BY DEF SizesAreLargest
<1>2. e \in Nat \ {0} /\ u \in Nat \ {0}
  BY <1>1
<1>3. LET n == ComputeLots(e, u) IN n >= 0 /\ n * u <= e /\ (n + 1) * u > e
  <2> DEFINE n == e \div u
  <2>1. n \in Nat /\ \A k \in Nat : k <= n <=> k * u <= e
    BY <1>2, Floor
  <2>2. ComputeLots(e, u) = n
    BY DEF ComputeLots
  <2> HIDE DEF n
  <2>3. n >= 0 /\ n * u <= e /\ ~((n + 1) * u <= e) /\ (n + 1) * u \in Nat
    BY <1>2, <2>1, NatProducts
  <2> QED BY <1>2, <2>2, <2>3
<1>4. ASSUME NEW p \in Percents, NEW b \in Percents, NEW cap \in Percents, NEW lev \in Percents
      PROVE  /\ p < 100 =>
                    LET n == KellyPositionSize(p, b, e, u, cap, lev)
                    IN  /\ n >= 0 /\ KellyAllows(n, p, b, e, u, cap, lev)
                        /\ ~KellyAllows(n + 1, p, b, e, u, cap, lev)
             /\ LET n == TargetVolatilitySize(e, p, b, u, lev)
                IN  /\ n >= 0 /\ VolatilityAllows(n, e, p, b, u, lev)
                    /\ ~VolatilityAllows(n + 1, e, p, b, u, lev)
  <2>1. p \in Nat \ {0} /\ b \in Nat \ {0} /\ cap \in Nat \ {0} /\ lev \in Nat \ {0}
    BY <1>1
  <2>2. ASSUME p < 100
        PROVE  LET n == KellyPositionSize(p, b, e, u, cap, lev)
               IN  /\ n >= 0 /\ KellyAllows(n, p, b, e, u, cap, lev)
                   /\ ~KellyAllows(n + 1, p, b, e, u, cap, lev)
    <3> DEFINE n == KellyPositionSize(p, b, e, u, cap, lev)
    <3>1. n \in Nat /\ \A k \in Nat : k <= n <=> KellyAllows(k, p, b, e, u, cap, lev)
      BY <1>2, <2>1, <2>2, KellySizes
    <3> HIDE DEF n
    <3>2. n >= 0 /\ KellyAllows(n, p, b, e, u, cap, lev) /\ ~KellyAllows(n + 1, p, b, e, u, cap, lev)
      BY <3>1
    <3> QED BY <3>2 DEF n
  <2>3. LET n == TargetVolatilitySize(e, p, b, u, lev)
        IN  /\ n >= 0 /\ VolatilityAllows(n, e, p, b, u, lev)
            /\ ~VolatilityAllows(n + 1, e, p, b, u, lev)
    <3> DEFINE n == TargetVolatilitySize(e, p, b, u, lev)
    <3>1. n \in Nat /\ \A k \in Nat : k <= n <=> VolatilityAllows(k, e, p, b, u, lev)
      BY <1>2, <2>1, VolatilitySizes
    <3> HIDE DEF n
    <3>2. n >= 0 /\ VolatilityAllows(n, e, p, b, u, lev) /\ ~VolatilityAllows(n + 1, e, p, b, u, lev)
      BY <3>1
    <3> QED BY <3>2 DEF n
  <2> QED BY <2>2, <2>3
<1> QED BY <1>3, <1>4

(* For every probability, cap, volatility, leverage, equity and price: a   *)
(* signal's size is the largest whole number of contracts that exceeds     *)
(* none of its limits, never one rounded up (position_sizing.py:3).        *)
THEOREM SizesNeverRoundUp == Spec => SizesWithinIntent
<1>1. SizesAreLargest
  BY SizesHold
<1> QED BY <1>1, PTL DEF SizesWithinIntent

-----------------------------------------------------------------------------
(* The replay: what one order and one fill do.                             *)

IsBook(b) ==
    /\ b.pos \in [Symbols -> Int] /\ b.avg \in [Symbols -> Int]
    /\ b.trade \in [Symbols -> Trades]
    /\ b.closed \in Int /\ b.equity \in Int

Matches == [order : PendingOrders, qty : Nat, price : Int]

(* The constants of the replay, as far as types go.                        *)
LEMMA ReplayConstants ==
    /\ Cost \in Nat /\ Commission \in Nat /\ StartEquity \in Nat /\ MaxOrders \in Nat
    /\ Available \in Nat /\ Available > 0 /\ MaxPerOrder \in Nat /\ MaxPerSymbol \in Nat
    /\ Levels \subseteq Nat
    /\ \A b \in Bars : b.ts \in Nat /\ b.day \in Nat /\ b.symbol \in Symbols
    /\ \A s \in Symbols : s \in Nat /\ Mult[s] \in Nat
BY BacktestAssumption, ContractsAssumption

(* A bar gives an order no more than is left of it, and a market order all *)
(* of it.                                                                  *)
LEMMA MatchFacts ==
    ASSUME NEW o \in PendingOrders, NEW open \in Nat, NEW lo \in Nat, NEW hi \in Nat
    PROVE  /\ FillQuantity(o, lo, hi) \in Nat
           /\ FillQuantity(o, lo, hi) <= o.left
           /\ o.type \notin Limits => FillQuantity(o, lo, hi) = o.left
           /\ FillPrice(o, open) \in Int
<1>1. o.left \in Nat /\ o.side \in {1, -1} /\ o.limit \in Nat
  BY ReplayConstants DEF PendingOrders
<1>2. /\ FillQuantity(o, lo, hi) \in Nat
      /\ FillQuantity(o, lo, hi) <= o.left
      /\ o.type \notin Limits => FillQuantity(o, lo, hi) = o.left
  BY <1>1, ReplayConstants DEF FillQuantity
<1>3. FillPrice(o, open) \in Int
  BY <1>1, ReplayConstants DEF FillPrice
<1> QED BY <1>2, <1>3

(* What is carried to the next bar is the order but for its quantity.      *)
LEMMA CarriedFacts ==
    ASSUME NEW o \in PendingOrders, NEW qty \in Nat
    PROVE  /\ Carried(o, qty) \in Seq(PendingOrders)
           /\ \A i \in 1 .. Len(Carried(o, qty)) :
                  /\ Carried(o, qty)[i].decided = o.decided
                  /\ Carried(o, qty)[i].type = o.type
           /\ qty >= o.left => Carried(o, qty) = <<>>
<1>1. o.left \in Nat
  BY ReplayConstants DEF PendingOrders
<1> DEFINE r == [o EXCEPT !.left = @ - qty]
<1>2. CASE o.left > qty /\ o.tif \notin {"IOC", "FOK"}
  <2>1. r \in PendingOrders /\ r.decided = o.decided /\ r.type = o.type
    BY <1>1, <1>2, ReplayConstants DEF PendingOrders
  <2>2. Carried(o, qty) = <<r>>
    BY <1>2 DEF Carried
  <2> HIDE DEF r
  <2> QED BY <1>1, <1>2, <2>1, <2>2
<1>3. CASE ~(o.left > qty /\ o.tif \notin {"IOC", "FOK"})
  <2>1. Carried(o, qty) = <<>>
    BY <1>3 DEF Carried
  <2> QED BY <2>1
<1> QED BY <1>2, <1>3

(* Products stay integers.                                                 *)
LEMMA IntProducts == \A m, n \in Int : m * n \in Int
OBVIOUS

(* The types of what a fill computes.                                      *)
LEMMA FillTypes ==
    ASSUME NEW b, IsBook(b), NEW s \in Symbols, NEW q \in Int, q # 0, NEW paid \in Int
    PROVE  /\ AverageEntry(b, s, q, paid) \in Int
           /\ ClosingPnl(b, s, q, paid) \in Int
           /\ Commission * Abs(q) \in Int
<1>1. b.pos[s] \in Int /\ b.avg[s] \in Int /\ Mult[s] \in Int
  BY ReplayConstants DEF IsBook
<1>2. /\ Abs(q) \in Nat /\ Abs(q) > 0 /\ Abs(b.pos[s]) \in Nat /\ Sign(b.pos[s]) \in Int
  BY <1>1 DEF Abs, Sign
<1>3. AverageEntry(b, s, q, paid) \in Int
  <2>1. b.avg[s] * Abs(b.pos[s]) + paid * Abs(q) \in Int
    BY <1>1, <1>2, IntProducts
  <2>2. Abs(b.pos[s]) + Abs(q) \in Nat \ {0}
    BY <1>2
  <2>3. (b.avg[s] * Abs(b.pos[s]) + paid * Abs(q)) \div (Abs(b.pos[s]) + Abs(q)) \in Int
    BY <2>1, <2>2
  <2> QED BY <1>1, <2>3 DEF AverageEntry
<1>4. ClosingPnl(b, s, q, paid) \in Int
  <2> DEFINE m == IF Abs(q) <= Abs(b.pos[s]) THEN Abs(q) ELSE Abs(b.pos[s])
             d == paid - b.avg[s]
  <2>1. m \in Int /\ d \in Int
    BY <1>1, <1>2
  <2>2. ClosingPnl(b, s, q, paid) =
            IF Reduces(b.pos[s], q) THEN Sign(b.pos[s]) * d * Mult[s] * m ELSE 0
    BY DEF ClosingPnl
  <2> HIDE DEF m, d
  <2>3. Sign(b.pos[s]) * d \in Int
    BY <1>2, <2>1, IntProducts
  <2>4. Sign(b.pos[s]) * d * Mult[s] \in Int
    BY <1>1, <2>3, IntProducts
  <2>5. Sign(b.pos[s]) * d * Mult[s] * m \in Int
    BY <2>1, <2>4, IntProducts
  <2> QED BY <2>2, <2>5
<1> QED BY <1>2, <1>3, <1>4, ReplayConstants, IntProducts

(* The trade that a fill leaves open and the profit it has by then: a fill *)
(* that closes or flips ends the record that was open on the other side.   *)
LEMMA TradeFacts ==
    ASSUME NEW b, IsBook(b), NEW s \in Symbols, NEW q \in Int, q # 0, NEW gain \in Int
    PROVE  LET t == CurrentTrade(b, s, q, gain)
               after == TradeAfter(b, s, q, t)
               new == b.pos[s] + q
           IN  /\ t \in Trades /\ after \in Trades
               /\ t.pnl = (IF b.pos[s] = 0 THEN 0 ELSE b.trade[s].pnl) + gain
               /\ new = 0 => after = Flat
               /\ (b.trade[s].side = Sign(b.pos[s])) =>
                      /\ after.side = Sign(new) /\ after.peak >= Abs(new)
                      /\ \/ after = t
                         \/ after # t /\ after.pnl = 0
<1> DEFINE p == b.pos[s]
           u == b.trade[s]
           new == p + q
           t0 == IF p = 0 THEN [Flat EXCEPT !.side = Sign(new)] ELSE u
           t == CurrentTrade(b, s, q, gain)
           after == TradeAfter(b, s, q, t)
<1>1. /\ p \in Int /\ new \in Int /\ Abs(new) \in Nat /\ Sign(new) \in {-1, 0, 1}
      /\ u.side \in {-1, 0, 1} /\ u.peak \in Nat /\ u.pnl \in Int
      /\ u = [side |-> u.side, peak |-> u.peak, pnl |-> u.pnl]
  BY DEF IsBook, Abs, Sign, Trades
<1>2. t0 = [side |-> IF p = 0 THEN Sign(new) ELSE u.side,
            peak |-> IF p = 0 THEN 0 ELSE u.peak, pnl |-> IF p = 0 THEN 0 ELSE u.pnl]
  BY <1>1 DEF Flat
<1> DEFINE k == IF p = 0 THEN 0 ELSE u.peak
<1>3. t = [side |-> IF p = 0 THEN Sign(new) ELSE u.side,
           peak |-> IF Abs(new) >= k THEN Abs(new) ELSE k,
           pnl |-> (IF p = 0 THEN 0 ELSE u.pnl) + gain]
  <2>1. t = [t0 EXCEPT !.peak = IF Abs(new) >= @ THEN Abs(new) ELSE @, !.pnl = @ + gain]
    BY DEF CurrentTrade
  <2> HIDE DEF t, new
  <2> QED BY <1>2, <2>1
<1>4. after = IF new = 0 THEN Flat
              ELSE IF Flips(p, q) THEN [side |-> Sign(new), peak |-> Abs(new), pnl |-> 0]
              ELSE t
  BY DEF TradeAfter
<1> HIDE DEF t, after, t0
<1>5. t.side \in {-1, 0, 1} /\ t.peak \in Nat /\ t.pnl \in Int /\ t.peak >= Abs(new)
  BY <1>1, <1>3
<1>6. t \in Trades
  BY <1>1, <1>3, <1>5 DEF Trades
<1>7. after \in Trades
  BY <1>1, <1>4, <1>6 DEF Trades, Flat
<1>8. ASSUME u.side = Sign(p)
      PROVE  /\ after.side = Sign(new) /\ after.peak >= Abs(new)
             /\ after = t \/ (after # t /\ after.pnl = 0)
  <2>1. p # 0 => t.side = Sign(p) /\ t.side # 0
    BY <1>1, <1>3, <1>8 DEF Sign
  <2>2. CASE new = 0
    <3>1. p # 0 /\ after = Flat
      BY <1>1, <1>4, <2>2
    <3> QED BY <2>1, <2>2, <3>1 DEF Flat, Sign, Abs
  <2>3. CASE new # 0 /\ Flips(p, q)
    <3>1. after = [side |-> Sign(new), peak |-> Abs(new), pnl |-> 0] /\ p # 0
      BY <1>4, <2>3 DEF Flips
    <3>2. Sign(new) # Sign(p)
      BY <1>1, <2>3 DEF Flips, Sign
    <3> QED BY <1>1, <2>1, <3>1, <3>2
  <2>4. CASE new # 0 /\ ~Flips(p, q)
    <3>1. after = t
      BY <1>4, <2>4
    <3>2. t.side = Sign(new)
      BY <1>1, <1>3, <2>1, <2>4 DEF Flips, Sign
    <3> QED BY <1>5, <3>1, <3>2
  <2> QED BY <2>2, <2>3, <2>4
<1>9. t.pnl = (IF p = 0 THEN 0 ELSE u.pnl) + gain
  BY <1>3
<1>10. new = 0 => after = Flat
  BY <1>4
<1> QED BY <1>6, <1>7, <1>8, <1>9, <1>10 DEF t, after

(* The book after a fill, field by field.                                  *)
LEMMA ApplyFacts ==
    ASSUME NEW b, IsBook(b), NEW s \in Symbols, NEW q \in Int, q # 0, NEW paid \in Int
    PROVE  LET n == ApplyFill(b, s, q, paid)
               gain == ClosingPnl(b, s, q, paid) - Commission * Abs(q)
               t == CurrentTrade(b, s, q, gain)
               after == TradeAfter(b, s, q, t)
           IN  /\ IsBook(n)
               /\ n.pos = [b.pos EXCEPT ![s] = @ + q]
               /\ n.avg = [b.avg EXCEPT ![s] = AverageEntry(b, s, q, paid)]
               /\ n.trade = [b.trade EXCEPT ![s] = after]
               /\ n.closed = (IF after = t THEN b.closed ELSE b.closed + t.pnl)
               /\ n.equity = b.equity + gain
               /\ gain \in Int
<1> DEFINE n == ApplyFill(b, s, q, paid)
           gain == ClosingPnl(b, s, q, paid) - Commission * Abs(q)
           t == CurrentTrade(b, s, q, gain)
           after == TradeAfter(b, s, q, t)
<1>1. gain \in Int
  BY FillTypes
<1>2. AverageEntry(b, s, q, paid) \in Int
  BY FillTypes
<1>3. n = [pos    |-> [b.pos EXCEPT ![s] = @ + q],
           avg    |-> [b.avg EXCEPT ![s] = AverageEntry(b, s, q, paid)],
           trade  |-> [b.trade EXCEPT ![s] = after],
           closed |-> IF after = t THEN b.closed ELSE b.closed + t.pnl,
           equity |-> b.equity + gain]
  BY DEF ApplyFill
<1> HIDE DEF n, gain
<1>4. t \in Trades /\ after \in Trades
  BY <1>1, TradeFacts
<1> HIDE DEF t, after
<1>5. /\ n.pos = [b.pos EXCEPT ![s] = @ + q]
      /\ n.avg = [b.avg EXCEPT ![s] = AverageEntry(b, s, q, paid)]
      /\ n.trade = [b.trade EXCEPT ![s] = after]
      /\ n.closed = IF after = t THEN b.closed ELSE b.closed + t.pnl
      /\ n.equity = b.equity + gain
  BY <1>3
<1>6. t.pnl \in Int
  BY <1>4 DEF Trades
<1>7. n.pos \in [Symbols -> Int]
  BY <1>5 DEF IsBook
<1>8. n.avg \in [Symbols -> Int]
  BY <1>2, <1>5 DEF IsBook
<1>9. n.trade \in [Symbols -> Trades]
  BY <1>4, <1>5 DEF IsBook
<1>10. n.closed \in Int /\ n.equity \in Int
  BY <1>1, <1>5, <1>6 DEF IsBook
<1>11. IsBook(n)
  BY <1>7, <1>8, <1>9, <1>10 DEF IsBook
<1> QED BY <1>1, <1>5, <1>11 DEF n, gain, t, after

-----------------------------------------------------------------------------
(* The replay: types.                                                      *)

(* The head of the orders still to be looked at, and the ones after it.    *)
LEMMA TodoFacts ==
    ASSUME NEW w \in Seq(Matches), w # <<>>
    PROVE  /\ Head(w) = w[1] /\ Head(w) \in Matches
           /\ Head(w).order \in PendingOrders /\ Head(w).qty \in Nat /\ Head(w).price \in Int
           /\ Tail(w) \in Seq(Matches) /\ Len(Tail(w)) = Len(w) - 1 /\ Len(w) \in Nat
           /\ \A i \in 1 .. Len(Tail(w)) : Tail(w)[i] = w[i + 1] /\ i + 1 \in 1 .. Len(w)
<1>1. /\ Head(w) = w[1] /\ Head(w) \in Matches
      /\ Tail(w) \in Seq(Matches) /\ Len(Tail(w)) = Len(w) - 1 /\ Len(w) \in Nat
      /\ \A i \in 1 .. Len(Tail(w)) : Tail(w)[i] = w[i + 1]
  OBVIOUS
<1>2. Head(w).order \in PendingOrders /\ Head(w).qty \in Nat /\ Head(w).price \in Int
  BY <1>1 DEF Matches
<1> QED BY <1>1, <1>2

(* What ProcessBar makes of the pending orders of its symbol.              *)
LEMMA MatchedFacts ==
    ASSUME NEW w \in Seq(PendingOrders), NEW open \in Nat, NEW lo \in Nat, NEW hi \in Nat,
           NEW m, m = Matched(w, open, lo, hi)
    PROVE  /\ m \in Seq(Matches) /\ Len(m) = Len(w) /\ Len(w) \in Nat
           /\ \A i \in 1 .. Len(w) :
                  /\ w[i] \in PendingOrders /\ m[i].order = w[i]
                  /\ m[i].qty = FillQuantity(w[i], lo, hi)
<1>1. Len(w) \in Nat /\ \A i \in 1 .. Len(w) : w[i] \in PendingOrders
  OBVIOUS
<1>2. ASSUME NEW i \in 1 .. Len(w)
      PROVE  /\ m[i] \in Matches /\ m[i].order = w[i]
             /\ m[i].qty = FillQuantity(w[i], lo, hi)
  <2> DEFINE o == w[i]
             qty == FillQuantity(o, lo, hi)
             paid == FillPrice(o, open)
  <2>1. o \in PendingOrders
    BY <1>1
  <2>2. qty \in Nat /\ paid \in Int
    BY <2>1, MatchFacts
  <2>3. m[i] = [order |-> o, qty |-> qty, price |-> paid]
    BY DEF Matched
  <2> HIDE DEF o, qty, paid
  <2>4. m[i] \in Matches /\ m[i].order = o /\ m[i].qty = qty
    BY <2>1, <2>2, <2>3 DEF Matches
  <2> QED BY <2>4 DEF o, qty
<1>3. \A i \in 1 .. Len(w) : m[i] \in Matches
  BY <1>2
<1>4. m \in Seq(Matches) /\ Len(m) = Len(w)
  <2>1. DOMAIN m = 1 .. Len(w)
    BY DEF Matched
  <2>2. m = [i \in 1 .. Len(w) |-> m[i]]
    BY DEF Matched
  <2>3. m \in [1 .. Len(w) -> Matches]
    BY <1>3, <2>1, <2>2
  <2>4. m \in Seq(Matches)
    BY <1>1, <2>3
  <2> QED BY <1>1, <2>1, <2>4
<1> QED BY <1>1, <1>2, <1>4

(* Every step of the replay keeps the types.                               *)
LEMMA ReplayTypeStep ==
    ASSUME ReplayTypeOK, [ReplayNext]_replayVars
    PROVE  ReplayTypeOK'
<1>1. /\ bar \in Bars /\ ahead \subseteq Bars
      /\ phase \in {"bar", "decide", "settle", "done"}
      /\ todo \in Seq(Matches)
      /\ IsBook(book)
      /\ pending \in [Symbols -> Seq(PendingOrders)]
      /\ refreshed \in [Symbols -> Int]
      /\ session \in [day : Nat, start : Int, peak : Int, halted : BOOLEAN]
      /\ sent \in 0 .. MaxOrders
      /\ lags \subseteq Int /\ cash \in Int
      /\ passive \in [Symbols -> Nat]
  BY DEF ReplayTypeOK, Matches, IsBook
<1> DEFINE s == bar.symbol
<1>2. bar.ts \in Nat /\ bar.day \in Nat /\ s \in Symbols /\ Mult[s] \in Nat
  BY <1>1, ReplayConstants
<1>3. ASSUME NEW open \in Levels, NEW lo \in Levels, NEW hi \in Levels, ProcessBar(open, lo, hi)
      PROVE  ReplayTypeOK'
  <2>1. todo' \in Seq(Matches)
    <3>1. pending[s] \in Seq(PendingOrders) /\ open \in Nat /\ lo \in Nat /\ hi \in Nat
      BY <1>1, <1>2, ReplayConstants
    <3>2. todo' = Matched(pending[s], open, lo, hi)
      BY <1>3 DEF ProcessBar
    <3> QED BY <3>1, <3>2, MatchedFacts
  <2>2. pending' \in [Symbols -> Seq(PendingOrders)]
    BY <1>1, <1>2, <1>3 DEF ProcessBar
  <2>3. session' \in [day : Nat, start : Int, peak : Int, halted : BOOLEAN]
    BY <1>1, <1>2, <1>3 DEF ProcessBar, NewSession, IsBook
  <2> QED BY <1>1, <1>3, <2>1, <2>2, <2>3 DEF ProcessBar, ReplayTypeOK, Matches, IsBook
<1>4. CASE ResolveOrder
  <2> DEFINE o == Head(todo).order
             qty == Head(todo).qty
             paid == Head(todo).price
  <2>1. todo # <<>> /\ Resolve(o, qty, paid) /\ todo' = Tail(todo)
        /\ UNCHANGED <<bar, ahead, phase, refreshed, session, sent>>
    BY <1>4 DEF ResolveOrder
  <2>2. o \in PendingOrders /\ qty \in Nat /\ paid \in Int /\ todo' \in Seq(Matches)
    BY <1>1, <2>1, TodoFacts
  <2> HIDE DEF o, qty, paid
  <2>3. o.side \in {1, -1} /\ o.decided \in Nat
    BY <2>2 DEF PendingOrders
  <2>4. IsBook(book')
    <3>1. CASE qty > 0
      <4>1. o.side * qty \in Int /\ o.side * qty # 0
        BY <2>2, <2>3, <3>1
      <4>2. book' = ApplyFill(book, s, o.side * qty, paid)
        BY <2>1, <3>1 DEF Resolve
      <4> QED BY <1>1, <1>2, <2>2, <4>1, <4>2, ApplyFacts
    <3>2. CASE ~(qty > 0)
      BY <1>1, <2>1, <3>2 DEF Resolve
    <3> QED BY <3>1, <3>2
  <2>5. pending' \in [Symbols -> Seq(PendingOrders)]
    <3>1. Carried(o, qty) \in Seq(PendingOrders) /\ pending[s] \in Seq(PendingOrders)
      BY <1>1, <1>2, <2>2, CarriedFacts
    <3>2. pending[s] \o Carried(o, qty) \in Seq(PendingOrders)
      BY <3>1
    <3> QED BY <1>1, <2>1, <3>2 DEF Resolve
  <2>6. lags' \subseteq Int
    <3>1. bar.ts - o.decided \in Int
      BY <1>2, <2>3
    <3>2. lags' = lags \cup {bar.ts - o.decided} \/ lags' = lags
      BY <2>1 DEF Resolve
    <3> QED BY <1>1, <3>1, <3>2
  <2>7. cash' \in Int
    <3>1. o.side * qty \in Int /\ Commission * qty \in Int
      BY <2>2, <2>3, ReplayConstants
    <3>2. o.side * qty * paid \in Int
      BY <2>2, <3>1, IntProducts
    <3>3. o.side * qty * paid * Mult[s] \in Int
      BY <1>2, <3>2, IntProducts
    <3>4. cash' = cash - o.side * qty * paid * Mult[s] - Commission * qty
      BY <2>1 DEF Resolve
    <3> QED BY <1>1, <3>1, <3>3, <3>4
  <2>8. passive' \in [Symbols -> Nat]
    <3>1. passive' = [passive EXCEPT ![s] = @ + qty] \/ passive' = passive
      BY <2>1 DEF Resolve
    <3>2. passive[s] + qty \in Nat
      BY <1>1, <1>2, <2>2
    <3> QED BY <1>1, <3>1, <3>2
  <2> QED BY <1>1, <2>1, <2>2, <2>4, <2>5, <2>6, <2>7, <2>8 DEF ReplayTypeOK, Matches, IsBook
<1>5. ASSUME NEW x \in Symbols, NEW side \in {1, -1}, NEW q \in 1 .. MaxPerOrder,
             NEW kind \in Kinds, NEW l \in IF kind.type \in Limits THEN Levels ELSE {0},
             Decide(x, side, q, kind, l)
      PROVE  ReplayTypeOK'
  <2> DEFINE o == [side |-> side, left |-> q, type |-> kind.type, tif |-> kind.tif,
                   limit |-> l, decided |-> bar.ts]
  <2>1. l \in Nat
    BY ReplayConstants
  <2>2. o \in PendingOrders
    BY <1>2, <2>1, BacktestAssumption DEF PendingOrders
  <2>3. pending' = [pending EXCEPT ![x] = Append(@, o)]
    BY <1>5 DEF Decide
  <2> HIDE DEF o
  <2>4. pending' \in [Symbols -> Seq(PendingOrders)]
    BY <1>1, <2>2, <2>3
  <2>5. sent' \in 0 .. MaxOrders
    BY <1>1, <1>5, ReplayConstants DEF Decide
  <2> QED BY <1>1, <1>5, <2>4, <2>5 DEF Decide, ReplayTypeOK, Matches, IsBook
<1>6. CASE NoOrder
  BY <1>1, <1>6 DEF NoOrder, ReplayTypeOK, Matches, IsBook
<1>7. CASE Settle
  <2> DEFINE c == [session EXCEPT !.peak = IF book.equity >= @ THEN book.equity ELSE @]
             halt == Breached(c, book.equity)
  <2>1. /\ session' = [c EXCEPT !.halted = halt]
        /\ \/ phase' = "done" /\ UNCHANGED <<bar, ahead>>
           \/ phase' = "bar" /\ bar' \in First(ahead) /\ ahead' = ahead \ {bar'}
        /\ refreshed' = book.pos
        /\ UNCHANGED <<todo, book, pending, sent, lags, cash, passive>>
    BY <1>7 DEF Settle
  <2>2. c \in [day : Nat, start : Int, peak : Int, halted : BOOLEAN]
    BY <1>1 DEF IsBook
  <2>3. halt \in BOOLEAN
    BY DEF Breached
  <2> HIDE DEF c, halt
  <2>4. session' \in [day : Nat, start : Int, peak : Int, halted : BOOLEAN]
    BY <2>1, <2>2, <2>3
  <2>5. bar' \in Bars /\ ahead' \subseteq Bars /\ phase' \in {"bar", "done"}
    BY <1>1, <2>1 DEF First
  <2> QED BY <1>1, <2>1, <2>4, <2>5 DEF ReplayTypeOK, Matches, IsBook
<1>8. CASE UNCHANGED replayVars
  BY <1>1, <1>8 DEF replayVars, ReplayTypeOK, Matches, IsBook
<1> QED BY <1>3, <1>4, <1>5, <1>6, <1>7, <1>8 DEF ReplayNext

(* The initial state of the replay is well typed.                          *)
LEMMA ReplayTypeInit == ReplayInit => ReplayTypeOK
<1> SUFFICES ASSUME ReplayInit PROVE ReplayTypeOK
  OBVIOUS
<1>1. bar \in Bars /\ ahead \subseteq Bars /\ bar.day \in Nat
  BY ReplayConstants DEF ReplayInit, First
<1>2. IsBook(book)
  BY ReplayConstants DEF ReplayInit, IsBook, Flat, Trades
<1>3. session \in [day : Nat, start : Int, peak : Int, halted : BOOLEAN]
  BY <1>1, ReplayConstants DEF ReplayInit, NewSession
<1>4. /\ pending \in [Symbols -> Seq(PendingOrders)]
      /\ refreshed \in [Symbols -> Int] /\ passive \in [Symbols -> Nat]
      /\ todo \in Seq(Matches)
  BY DEF ReplayInit
<1> QED BY <1>1, <1>2, <1>3, <1>4, ReplayConstants DEF ReplayInit, ReplayTypeOK, Matches, IsBook

(* For any bars, prices, symbols and limits, the replay's state has its    *)
(* type: positions and money are whole, a resting order keeps at least one *)
(* contract and at most what an order may ask for                          *)
(* (market_simulator.py:163-190).                                          *)
THEOREM ReplayTypes == ReplaySpec => []ReplayTypeOK
BY ReplayTypeInit, ReplayTypeStep, PTL DEF ReplaySpec

-----------------------------------------------------------------------------
(* The replay: no look-ahead, when strategies trade the symbol whose bar   *)
(* they are shown.                                                         *)

(* The bars still to be matched with pending orders.                       *)
Due(b) == b \in ahead \/ (b = bar /\ phase = "bar")

(* An order waits only for bars later than its decision.                   *)
WaitsForLater ==
    \A s \in Symbols : \A i \in 1 .. Len(pending[s]) :
        \A b \in Bars : Due(b) /\ b.symbol = s => pending[s][i].decided < b.ts

FreshInv ==
    /\ \A b \in ahead : Before(bar, b)
    /\ todo # <<>> => phase = "decide"
    /\ WaitsForLater
    /\ \A i \in 1 .. Len(todo) : todo[i].order.decided < bar.ts
    /\ NoLookahead

(* The entries of a sequence with something behind it.                     *)
LEMMA JoinedFacts ==
    ASSUME NEW S, NEW v \in Seq(S), NEW w \in Seq(S)
    PROVE  /\ Len(v) \in Nat /\ Len(w) \in Nat /\ Len(v \o w) = Len(v) + Len(w)
           /\ \A i \in 1 .. Len(v \o w) :
                  \/ i \in 1 .. Len(v) /\ (v \o w)[i] = v[i]
                  \/ i - Len(v) \in 1 .. Len(w) /\ (v \o w)[i] = w[i - Len(v)]
<1>1. /\ Len(v) \in Nat /\ Len(w) \in Nat /\ Len(v \o w) = Len(v) + Len(w)
      /\ \A i \in 1 .. Len(v) + Len(w) :
             (v \o w)[i] = IF i <= Len(v) THEN v[i] ELSE w[i - Len(v)]
  OBVIOUS
<1> QED BY <1>1

(* Every step of the replay keeps orders older than the bars they wait for. *)
LEMMA FreshStep ==
    ASSUME CrossSymbol = FALSE, ReplayTypeOK, FreshInv, [ReplayNext]_replayVars
    PROVE  FreshInv'
<1> DEFINE s == bar.symbol
<1>1. /\ bar \in Bars /\ ahead \subseteq Bars /\ todo \in Seq(Matches)
      /\ pending \in [Symbols -> Seq(PendingOrders)]
  BY DEF ReplayTypeOK, Matches
<1>2. bar.ts \in Nat /\ s \in Symbols /\ \A b \in Bars : b.ts \in Nat /\ b.symbol \in Symbols
  BY <1>1, ReplayConstants
<1>3. \A x \in Symbols : x \in Nat
  BY ReplayConstants
<1>4. /\ \A b \in ahead : Before(bar, b)
      /\ todo # <<>> => phase = "decide"
      /\ WaitsForLater
      /\ \A i \in 1 .. Len(todo) : todo[i].order.decided < bar.ts
      /\ NoLookahead
  BY DEF FreshInv
<1>5. ASSUME \A b \in Bars : Due(b)' => Due(b), NEW x \in Symbols, pending'[x] = pending[x]
      PROVE  \A i \in 1 .. Len(pending'[x]) :
                 \A b \in Bars : Due(b)' /\ b.symbol = x => pending'[x][i].decided < b.ts
  BY <1>4, <1>5 DEF WaitsForLater
<1>6. ASSUME NEW open \in Levels, NEW lo \in Levels, NEW hi \in Levels, ProcessBar(open, lo, hi)
      PROVE  FreshInv'
  <2>1. /\ phase = "bar" /\ phase' = "decide" /\ UNCHANGED <<bar, ahead, lags>>
        /\ todo' = Matched(pending[s], open, lo, hi)
        /\ pending' = [pending EXCEPT ![s] = <<>>]
    BY <1>6 DEF ProcessBar
  <2>2. \A b \in Bars : Due(b)' => Due(b)
    BY <2>1 DEF Due
  <2>3. WaitsForLater'
    <3>1. ASSUME NEW x \in Symbols, NEW i \in 1 .. Len(pending'[x]), NEW b \in Bars,
                 Due(b)', b.symbol = x
          PROVE  pending'[x][i].decided < b.ts
      <4>1. CASE x = s
        <5>1. pending'[x] = <<>>
          BY <1>1, <2>1, <4>1
        <5> QED BY <3>1, <5>1
      <4>2. CASE x # s
        <5>1. pending'[x] = pending[x]
          BY <1>1, <2>1, <4>2
        <5> QED BY <1>5, <2>2, <3>1, <5>1
      <4> QED BY <4>1, <4>2
    <3> QED BY <3>1 DEF WaitsForLater
  <2>4. \A i \in 1 .. Len(todo') : todo'[i].order.decided < bar.ts
    <3>1. pending[s] \in Seq(PendingOrders) /\ open \in Nat /\ lo \in Nat /\ hi \in Nat
      BY <1>1, <1>2, ReplayConstants
    <3>2. /\ Len(todo') = Len(pending[s])
          /\ \A i \in 1 .. Len(pending[s]) : todo'[i].order = pending[s][i]
      BY <2>1, <3>1, MatchedFacts
    <3>3. \A i \in 1 .. Len(pending[s]) : pending[s][i].decided < bar.ts
      BY <1>1, <1>2, <1>4, <2>1 DEF WaitsForLater, Due
    <3> QED BY <3>2, <3>3
  <2>5. (\A b \in ahead : Before(bar, b))'
    BY <1>4, <2>1 DEF Before
  <2> QED BY <1>4, <2>1, <2>3, <2>4, <2>5 DEF FreshInv, NoLookahead
<1>7. CASE ResolveOrder
  <2> DEFINE o == Head(todo).order
             qty == Head(todo).qty
  <2>1. /\ phase = "decide" /\ todo # <<>> /\ todo' = Tail(todo)
        /\ pending' = [pending EXCEPT ![s] = @ \o Carried(o, qty)]
        /\ lags' = (IF qty > 0 THEN lags \cup {bar.ts - o.decided} ELSE lags)
        /\ UNCHANGED <<bar, ahead, phase>>
    BY <1>7 DEF ResolveOrder, Resolve
  <2>2. /\ Head(todo) = todo[1] /\ o \in PendingOrders /\ qty \in Nat /\ Len(todo) \in Nat
        /\ Len(Tail(todo)) = Len(todo) - 1
        /\ \A i \in 1 .. Len(Tail(todo)) : Tail(todo)[i] = todo[i + 1] /\ i + 1 \in 1 .. Len(todo)
    BY <1>1, <2>1, TodoFacts
  <2>3. 1 \in 1 .. Len(todo)
    BY <1>1, <2>1, <2>2
  <2>4. o.decided < bar.ts /\ o.decided \in Nat
    BY <1>4, <2>2, <2>3 DEF PendingOrders
  <2> HIDE DEF o, qty
  <2>5. \A b \in Bars : Due(b)' => Due(b) /\ b \in ahead
    BY <2>1 DEF Due
  <2>6. \A b \in ahead : bar.ts <= b.ts
    BY <1>1, <1>2, <1>4 DEF Before
  <2>7. WaitsForLater'
    <3>1. ASSUME NEW x \in Symbols, NEW i \in 1 .. Len(pending'[x]), NEW b \in Bars,
                 Due(b)', b.symbol = x
          PROVE  pending'[x][i].decided < b.ts
      <4>1. CASE x = s
        <5> DEFINE v == pending[s]
                   c == Carried(o, qty)
        <5>1. pending'[x] = v \o c
          BY <1>1, <1>2, <2>1, <4>1
        <5>2. /\ v \in Seq(PendingOrders) /\ c \in Seq(PendingOrders)
              /\ \A j \in 1 .. Len(c) : c[j].decided = o.decided
          BY <1>1, <1>2, <2>2, CarriedFacts
        <5>3. \A j \in 1 .. Len(v) : v[j].decided < b.ts
          BY <1>2, <1>4, <2>5, <3>1, <4>1 DEF WaitsForLater
        <5>4. o.decided < b.ts
          BY <1>2, <2>4, <2>5, <2>6, <3>1
        <5> HIDE DEF v, c
        <5>5. \A j \in 1 .. Len(v \o c) :
                  \/ j \in 1 .. Len(v) /\ (v \o c)[j] = v[j]
                  \/ j - Len(v) \in 1 .. Len(c) /\ (v \o c)[j] = c[j - Len(v)]
          BY <5>2, JoinedFacts
        <5> QED BY <3>1, <5>1, <5>2, <5>3, <5>4, <5>5
      <4>2. CASE x # s
        <5>1. pending'[x] = pending[x]
          BY <1>1, <2>1, <4>2
        <5> QED BY <1>5, <2>5, <3>1, <5>1
      <4> QED BY <4>1, <4>2
    <3> QED BY <3>1 DEF WaitsForLater
  <2>8. \A i \in 1 .. Len(todo') : todo'[i].order.decided < bar.ts
    BY <1>4, <2>1, <2>2
  <2>9. NoLookahead'
    <3>1. bar.ts - o.decided > 0
      BY <1>2, <2>4
    <3> QED BY <1>4, <2>1, <3>1 DEF NoLookahead
  <2>10. (\A b \in ahead : Before(bar, b))'
    BY <1>4, <2>1 DEF Before
  <2> QED BY <2>1, <2>7, <2>8, <2>9, <2>10 DEF FreshInv
<1>8. ASSUME NEW x \in Symbols, NEW side \in {1, -1}, NEW q \in 1 .. MaxPerOrder,
             NEW kind \in Kinds, NEW l \in IF kind.type \in Limits THEN Levels ELSE {0},
             Decide(x, side, q, kind, l)
      PROVE  FreshInv'
  <2> DEFINE o == [side |-> side, left |-> q, type |-> kind.type, tif |-> kind.tif,
                   limit |-> l, decided |-> bar.ts]
  <2>1. /\ x = s /\ phase' = "settle" /\ todo = <<>> /\ UNCHANGED <<bar, ahead, todo, lags>>
        /\ pending' = [pending EXCEPT ![s] = Append(@, o)]
    BY <1>8 DEF Decide
  <2>2. o.decided = bar.ts
    OBVIOUS
  <2> HIDE DEF o
  <2>3. \A b \in Bars : Due(b)' => Due(b) /\ b \in ahead
    BY <2>1 DEF Due
  <2>4. \A b \in ahead : b.symbol = s => bar.ts < b.ts
    BY <1>1, <1>2, <1>3, <1>4 DEF Before
  <2>5. WaitsForLater'
    <3>1. ASSUME NEW y \in Symbols, NEW i \in 1 .. Len(pending'[y]), NEW b \in Bars,
                 Due(b)', b.symbol = y
          PROVE  pending'[y][i].decided < b.ts
      <4>1. CASE y = s
        <5> DEFINE v == pending[s]
        <5>1. pending'[y] = Append(v, o) /\ v \in Seq(PendingOrders)
          BY <1>1, <1>2, <2>1, <4>1
        <5>2. \A j \in 1 .. Len(v) : v[j].decided < b.ts
          BY <1>2, <1>4, <2>3, <3>1, <4>1 DEF WaitsForLater
        <5>3. o.decided < b.ts
          BY <2>2, <2>3, <2>4, <3>1, <4>1
        <5> HIDE DEF v
        <5>4. (i \in 1 .. Len(v) /\ Append(v, o)[i] = v[i]) \/ Append(v, o)[i] = o
          BY <3>1, <5>1
        <5> QED BY <5>1, <5>2, <5>3, <5>4
      <4>2. CASE y # s
        <5>1. pending'[y] = pending[y]
          BY <1>1, <2>1, <4>2
        <5> QED BY <1>5, <2>3, <3>1, <5>1
      <4> QED BY <4>1, <4>2
    <3> QED BY <3>1 DEF WaitsForLater
  <2>6. (\A b \in ahead : Before(bar, b))'
    BY <1>4, <2>1 DEF Before
  <2>7. (\A i \in 1 .. Len(todo) : todo[i].order.decided < bar.ts)'
    BY <1>4, <2>1
  <2> QED BY <1>4, <2>1, <2>5, <2>6, <2>7 DEF FreshInv, NoLookahead
<1>9. ASSUME UNCHANGED <<todo, pending, lags>>, todo = <<>> \/ UNCHANGED <<bar, phase>>,
             \A b \in Bars : Due(b)' => Due(b), \A b \in ahead' : Before(bar', b)
      PROVE  FreshInv'
  <2>1. WaitsForLater'
    BY <1>5, <1>9 DEF WaitsForLater
  <2>2. (\A b \in ahead : Before(bar, b))'
    BY <1>9 DEF Before
  <2>3. (\A i \in 1 .. Len(todo) : todo[i].order.decided < bar.ts)'
    BY <1>4, <1>9
  <2> QED BY <1>4, <1>9, <2>1, <2>2, <2>3 DEF FreshInv, NoLookahead
<1>10. CASE NoOrder
  BY <1>4, <1>9, <1>10 DEF NoOrder, Due
<1>11. CASE Settle
  <2>1. /\ phase = "settle" /\ UNCHANGED <<todo, pending, lags>>
        /\ \/ phase' = "done" /\ UNCHANGED <<bar, ahead>>
           \/ phase' = "bar" /\ bar' \in First(ahead) /\ ahead' = ahead \ {bar'}
    BY <1>11 DEF Settle
  <2>2. todo = <<>>
    BY <1>4, <2>1
  <2>3. \A b \in Bars : Due(b)' => Due(b)
    BY <2>1 DEF Due, First
  <2>4. \A b \in ahead' : Before(bar', b)
    BY <1>4, <2>1 DEF First
  <2> QED BY <1>9, <2>1, <2>2, <2>3, <2>4
<1>12. CASE UNCHANGED replayVars
  BY <1>4, <1>9, <1>12 DEF replayVars, Due
<1> QED BY <1>6, <1>7, <1>8, <1>10, <1>11, <1>12 DEF ReplayNext

(* For any bars of any symbols and any orders: a fill is always on a bar   *)
(* later than the one its order was decided on (engine.py:7-13,            *)
(* market_simulator.py:14-17), provided a strategy trades the symbol whose *)
(* bar it is shown.                                                        *)
THEOREM NeverLooksAhead == CrossSymbol = FALSE => (ReplaySpec => []NoLookahead)
<1> SUFFICES ASSUME CrossSymbol = FALSE PROVE ReplaySpec => []NoLookahead
  OBVIOUS
<1>1. ReplayInit => ReplayTypeOK /\ FreshInv
  <2> SUFFICES ASSUME ReplayInit PROVE FreshInv
    BY ReplayTypeInit
  <2>1. \A b \in ahead : Before(bar, b)
    BY DEF ReplayInit, First
  <2>2. todo = <<>> /\ lags = {} /\ \A s \in Symbols : pending[s] = <<>>
    BY DEF ReplayInit
  <2>3. WaitsForLater
    BY <2>2 DEF WaitsForLater
  <2> QED BY <2>1, <2>2, <2>3 DEF FreshInv, NoLookahead
<1>2. ReplayTypeOK /\ FreshInv /\ [ReplayNext]_replayVars => (ReplayTypeOK /\ FreshInv)'
  BY ReplayTypeStep, FreshStep
<1>3. FreshInv => NoLookahead
  BY DEF FreshInv
<1> QED BY <1>1, <1>2, <1>3, PTL DEF ReplaySpec

-----------------------------------------------------------------------------
(* The replay: the trade records and the ledger.                           *)

Results(b) == [s \in Symbols |-> b.trade[s].pnl]
EntryValues(b) == [s \in Symbols |-> b.pos[s] * b.avg[s] * Mult[s]]

(* TradesAddUp of a book, and that nothing is open of a flat symbol, which *)
(* is why a new record starts from zero.                                   *)
TradesOf(b) ==
    /\ b.equity = StartEquity + b.closed + SumOver(Results(b))
    /\ \A s \in Symbols : /\ b.trade[s].side = Sign(b.pos[s])
                          /\ b.trade[s].peak >= Abs(b.pos[s])
                          /\ b.pos[s] = 0 => b.trade[s] = Flat

(* CashIdentity of a book.                                                 *)
CashOf(b, c) == b.equity = StartEquity + c + SumOver(EntryValues(b))

(* The average that a fill computes is exact: it adds to a position and    *)
(* its price divides, or it needs no division.                             *)
WholeAverage(b, s, q, paid) ==
    LET n == Abs(b.pos[s]) + Abs(q)
        x == b.avg[s] * Abs(b.pos[s]) + paid * Abs(q)
    IN  ~Reduces(b.pos[s], q) => (x \div n) * n = x

(* The next fill's average is exact.  In the code it is a float.           *)
WholeAverages ==
    todo # <<>> /\ Head(todo).qty > 0 =>
        WholeAverage(book, bar.symbol, Head(todo).order.side * Head(todo).qty, Head(todo).price)

(* A fill keeps the records adding up: what it gains is in the record that *)
(* stays open or in the one it ends.                                       *)
LEMMA FillKeepsTrades ==
    ASSUME NEW b, IsBook(b), TradesOf(b),
           NEW s \in Symbols, NEW q \in Int, q # 0, NEW paid \in Int
    PROVE  TradesOf(ApplyFill(b, s, q, paid))
<1> DEFINE n == ApplyFill(b, s, q, paid)
           gain == ClosingPnl(b, s, q, paid) - Commission * Abs(q)
           t == CurrentTrade(b, s, q, gain)
           after == TradeAfter(b, s, q, t)
           new == b.pos[s] + q
           f == Results(b)
           g == Results(n)
<1>1. /\ IsBook(n)
      /\ n.pos = [b.pos EXCEPT ![s] = @ + q]
      /\ n.avg = [b.avg EXCEPT ![s] = AverageEntry(b, s, q, paid)]
      /\ n.trade = [b.trade EXCEPT ![s] = after]
      /\ n.closed = (IF after = t THEN b.closed ELSE b.closed + t.pnl)
      /\ n.equity = b.equity + gain
      /\ gain \in Int
  BY ApplyFacts, Zenon
<1> HIDE DEF n, gain
<1>2. b.trade[s].side = Sign(b.pos[s])
  BY DEF TradesOf
<1>3. /\ t \in Trades /\ after \in Trades
      /\ t.pnl = (IF b.pos[s] = 0 THEN 0 ELSE b.trade[s].pnl) + gain
      /\ new = 0 => after = Flat
      /\ after.side = Sign(new) /\ after.peak >= Abs(new)
      /\ after = t \/ (after # t /\ after.pnl = 0)
  BY <1>1, <1>2, TradeFacts
<1> HIDE DEF t, after
<1>4. b.pos[s] = 0 => b.trade[s].pnl = 0
  BY DEF TradesOf, Flat
<1>5. t.pnl = b.trade[s].pnl + gain
  BY <1>3, <1>4
<1>6. /\ \A x \in Symbols : b.trade[x] \in Trades /\ n.trade[x] \in Trades
      /\ b.closed \in Int /\ b.equity \in Int /\ n.closed \in Int /\ n.equity \in Int
  BY <1>1 DEF IsBook
<1>7. /\ n.trade[s] = after /\ n.pos[s] = new
      /\ \A x \in Symbols \ {s} : n.trade[x] = b.trade[x] /\ n.pos[x] = b.pos[x]
  BY <1>1 DEF IsBook
<1>8. /\ f \in [Symbols -> Int] /\ g \in [Symbols -> Int]
      /\ f[s] = b.trade[s].pnl /\ g[s] = after.pnl
      /\ \A x \in Symbols \ {s} : g[x] = f[x]
  <2>1. \A x \in Symbols : b.trade[x].pnl \in Int /\ n.trade[x].pnl \in Int
    BY <1>6 DEF Trades
  <2> QED BY <1>7, <2>1 DEF Results
<1> HIDE DEF f, g
<1>9. SumOver(f) \in Int /\ SumOver(g) \in Int /\ SumOver(g) = SumOver(f) + g[s] - f[s]
  BY <1>8, SumChangesAt
<1>10. b.equity = StartEquity + b.closed + SumOver(f)
  BY DEF TradesOf, f
<1>11. n.equity = StartEquity + n.closed + SumOver(g)
  <2>1. /\ StartEquity \in Int /\ t.pnl \in Int /\ after.pnl \in Int /\ b.trade[s].pnl \in Int
    BY <1>3, <1>6, ReplayConstants DEF Trades
  <2>2. CASE after = t
    <3>1. n.closed = b.closed /\ after.pnl = b.trade[s].pnl + gain
      BY <1>1, <1>5, <2>2
    <3> QED BY <1>1, <1>6, <1>8, <1>9, <1>10, <2>1, <3>1
  <2>3. CASE after # t /\ after.pnl = 0
    <3>1. n.closed = b.closed + (b.trade[s].pnl + gain) /\ after.pnl = 0
      BY <1>1, <1>5, <2>3
    <3> QED BY <1>1, <1>6, <1>8, <1>9, <1>10, <2>1, <3>1
  <2> QED BY <1>3, <2>2, <2>3
<1>12. ASSUME NEW x \in Symbols
       PROVE  /\ n.trade[x].side = Sign(n.pos[x]) /\ n.trade[x].peak >= Abs(n.pos[x])
              /\ n.pos[x] = 0 => n.trade[x] = Flat
  <2>1. CASE x = s
    BY <1>3, <1>7, <2>1
  <2>2. CASE x # s
    BY <1>7, <2>2 DEF TradesOf
  <2> QED BY <2>1, <2>2
<1> QED BY <1>11, <1>12 DEF TradesOf, n, g

(* What a fill realizes is what it is paid for, less what the position was *)
(* worth at its average entry, plus what it is worth at its next one: the  *)
(* four cases of adding, reducing, closing and flipping.                   *)
LEMMA FillBalances ==
    ASSUME NEW b, IsBook(b), NEW s \in Symbols, NEW q \in Int, q # 0, NEW paid \in Int,
           WholeAverage(b, s, q, paid)
    PROVE  ClosingPnl(b, s, q, paid) =
               (b.pos[s] + q) * AverageEntry(b, s, q, paid) * Mult[s]
               - b.pos[s] * b.avg[s] * Mult[s] - q * paid * Mult[s]
<1> DEFINE p == b.pos[s]
           a == b.avg[s]
           m == Mult[s]
           e == AverageEntry(b, s, q, paid)
           gain == ClosingPnl(b, s, q, paid)
<1>1. p \in Int /\ a \in Int /\ m \in Int /\ e \in Int
  BY FillTypes, ReplayConstants DEF IsBook
<1>2. e = IF p + q = 0 THEN 0
          ELSE IF Flips(p, q) THEN paid
          ELSE IF Reduces(p, q) THEN a
          ELSE (a * Abs(p) + paid * Abs(q)) \div (Abs(p) + Abs(q))
  BY DEF AverageEntry
<1>3. gain = IF Reduces(p, q)
             THEN Sign(p) * (paid - a) * m * (IF Abs(q) <= Abs(p) THEN Abs(q) ELSE Abs(p))
             ELSE 0
  BY DEF ClosingPnl
<1>4. LET k == Abs(p) + Abs(q)
          x == a * Abs(p) + paid * Abs(q)
      IN  ~Reduces(p, q) => (x \div k) * k = x
  BY DEF WholeAverage
<1> HIDE DEF p, a, m, e, gain
<1>5. SUFFICES gain = (p + q) * e * m - p * a * m - q * paid * m
  BY DEF p, a, m, e, gain
<1>6. CASE ~Reduces(p, q)
  <2>1. gain = 0 /\ p + q # 0 /\ ~Flips(p, q)
    BY <1>1, <1>3, <1>6 DEF Reduces, Flips
  <2> DEFINE k == Abs(p) + Abs(q)
             x == a * Abs(p) + paid * Abs(q)
  <2>2. e = x \div k
    BY <1>2, <1>6, <2>1
  <2>3. e * k = x
    BY <1>4, <1>6, <2>2
  <2>4. (p + q) * e = p * a + q * paid
    <3>1. CASE p >= 0 /\ q > 0
      <4>1. k = p + q /\ x = a * p + paid * q
        BY <1>1, <3>1 DEF Abs
      <4> QED BY <1>1, <2>3, <4>1
    <3>2. CASE p <= 0 /\ q < 0
      <4>1. k = -(p + q) /\ x = a * (-p) + paid * (-q)
        BY <1>1, <3>2 DEF Abs
      <4> HIDE DEF k, x
      <4>2. e * (-(p + q)) = a * (-p) + paid * (-q)
        BY <2>3, <4>1
      <4> QED BY <1>1, <4>2
    <3> QED BY <1>1, <1>6, <3>1, <3>2 DEF Reduces
  <2> HIDE DEF k, x
  <2>5. (p + q) * e * m = (p * a + q * paid) * m
    BY <2>4
  <2>6. (p * a + q * paid) * m = p * a * m + q * paid * m
    BY <1>1
  <2>7. p * a * m \in Int /\ q * paid * m \in Int
    BY <1>1, IntProducts
  <2> QED BY <2>1, <2>5, <2>6, <2>7
<1>7. CASE Reduces(p, q)
  <2>1. (p > 0 /\ q < 0) \/ (p < 0 /\ q > 0)
    BY <1>1, <1>7 DEF Reduces
  <2>2. CASE p + q = 0
    <3>1. e = 0 /\ q = -p
      BY <1>1, <1>2, <2>2
    <3>2. gain = p * (paid - a) * m
      <4>1. CASE p > 0
        <5>1. gain = 1 * (paid - a) * m * p
          BY <1>1, <1>3, <1>7, <3>1, <4>1 DEF Sign, Abs
        <5> QED BY <1>1, <5>1
      <4>2. CASE p < 0
        <5>1. gain = (-1) * (paid - a) * m * (-p)
          BY <1>1, <1>3, <1>7, <3>1, <4>2 DEF Sign, Abs
        <5> QED BY <1>1, <5>1
      <4> QED BY <1>1, <2>1, <4>1, <4>2
    <3> QED BY <1>1, <3>1, <3>2
  <2>3. CASE p + q # 0 /\ Flips(p, q)
    <3>1. e = paid
      BY <1>2, <2>3
    <3>2. gain = p * (paid - a) * m
      <4>1. CASE p > 0
        <5>1. gain = 1 * (paid - a) * m * p
          BY <1>1, <1>3, <1>7, <2>1, <2>3, <4>1 DEF Sign, Abs, Flips
        <5> QED BY <1>1, <5>1
      <4>2. CASE p < 0
        <5>1. gain = (-1) * (paid - a) * m * (-p)
          BY <1>1, <1>3, <1>7, <2>1, <2>3, <4>2 DEF Sign, Abs, Flips
        <5> QED BY <1>1, <5>1
      <4> QED BY <1>1, <2>1, <4>1, <4>2
    <3> QED BY <1>1, <3>1, <3>2
  <2>4. CASE p + q # 0 /\ ~Flips(p, q)
    <3>1. e = a
      BY <1>2, <1>7, <2>4
    <3>2. gain = -q * (paid - a) * m
      <4>1. CASE p > 0
        <5>1. gain = 1 * (paid - a) * m * (-q)
          BY <1>1, <1>3, <1>7, <2>1, <2>4, <4>1 DEF Sign, Abs, Flips
        <5> QED BY <1>1, <5>1
      <4>2. CASE p < 0
        <5>1. gain = (-1) * (paid - a) * m * q
          BY <1>1, <1>3, <1>7, <2>1, <2>4, <4>2 DEF Sign, Abs, Flips
        <5> QED BY <1>1, <5>1
      <4> QED BY <1>1, <2>1, <4>1, <4>2
    <3> QED BY <1>1, <3>1, <3>2
  <2> QED BY <2>2, <2>3, <2>4
<1> QED BY <1>6, <1>7

(* A fill keeps the ledger agreeing with the money of the fills.           *)
LEMMA FillKeepsCash ==
    ASSUME NEW b, IsBook(b), NEW c \in Int, CashOf(b, c),
           NEW s \in Symbols, NEW q \in Int, q # 0, NEW paid \in Int,
           WholeAverage(b, s, q, paid)
    PROVE  CashOf(ApplyFill(b, s, q, paid), c - q * paid * Mult[s] - Commission * Abs(q))
<1> DEFINE n == ApplyFill(b, s, q, paid)
           gain == ClosingPnl(b, s, q, paid)
           fee == Commission * Abs(q)
           e == AverageEntry(b, s, q, paid)
           was == b.pos[s] * b.avg[s] * Mult[s]
           is == (b.pos[s] + q) * e * Mult[s]
           spent == q * paid * Mult[s]
           f == EntryValues(b)
           g == EntryValues(n)
<1>1. /\ IsBook(n)
      /\ n.pos = [b.pos EXCEPT ![s] = @ + q]
      /\ n.avg = [b.avg EXCEPT ![s] = e]
      /\ n.equity = b.equity + (gain - fee)
  <2>1. LET r == ClosingPnl(b, s, q, paid) - Commission * Abs(q)
            t == CurrentTrade(b, s, q, r)
            after == TradeAfter(b, s, q, t)
        IN  /\ IsBook(n)
            /\ n.pos = [b.pos EXCEPT ![s] = @ + q]
            /\ n.avg = [b.avg EXCEPT ![s] = AverageEntry(b, s, q, paid)]
            /\ n.trade = [b.trade EXCEPT ![s] = after]
            /\ n.closed = (IF after = t THEN b.closed ELSE b.closed + t.pnl)
            /\ n.equity = b.equity + r
            /\ r \in Int
    BY ApplyFacts, Zenon
  <2> QED BY <2>1, Zenon
<1>2. gain = is - was - spent
  BY FillBalances
<1>3. gain \in Int /\ fee \in Int /\ e \in Int
  BY FillTypes
<1> HIDE DEF n, gain, fee, e
<1>4. b.pos[s] \in Int /\ b.avg[s] \in Int /\ Mult[s] \in Int /\ b.pos[s] + q \in Int
  BY ReplayConstants DEF IsBook
<1>5. was \in Int /\ is \in Int /\ spent \in Int
  BY <1>3, <1>4, IntProducts
<1>6. /\ f[s] = was /\ g[s] = is
      /\ \A x \in Symbols \ {s} : g[x] = f[x]
  BY <1>1, <1>4 DEF IsBook, EntryValues
<1>7. f \in [Symbols -> Int] /\ g \in [Symbols -> Int]
  <2>1. ASSUME NEW d, IsBook(d) PROVE EntryValues(d) \in [Symbols -> Int]
    <3>1. ASSUME NEW x \in Symbols PROVE d.pos[x] * d.avg[x] * Mult[x] \in Int
      <4>1. d.pos[x] \in Int /\ d.avg[x] \in Int /\ Mult[x] \in Int
        BY <2>1, ReplayConstants DEF IsBook
      <4> QED BY <4>1, IntProducts
    <3> QED BY <3>1 DEF EntryValues
  <2> QED BY <1>1, <2>1
<1> HIDE DEF f, g, was, is, spent
<1>8. SumOver(f) \in Int /\ SumOver(g) \in Int /\ SumOver(g) = SumOver(f) + g[s] - f[s]
  BY <1>6, <1>7, SumChangesAt
<1>9. b.equity = StartEquity + c + SumOver(f) /\ b.equity \in Int /\ StartEquity \in Int
  BY ReplayConstants DEF CashOf, f, IsBook
<1>10. n.equity = StartEquity + (c - spent - fee) + SumOver(g)
  BY <1>1, <1>2, <1>3, <1>5, <1>6, <1>8, <1>9
<1> QED BY <1>10 DEF CashOf, n, g, spent, fee

(* The book and the cash change together, by one fill of one order.        *)
LEMMA BookChanges ==
    ASSUME ReplayTypeOK, [ReplayNext]_replayVars
    PROVE  \/ UNCHANGED <<book, cash>>
           \/ \E q, paid \in Int :
                  /\ q # 0 /\ book' = ApplyFill(book, bar.symbol, q, paid)
                  /\ cash' = cash - q * paid * Mult[bar.symbol] - Commission * Abs(q)
                  /\ WholeAverages => WholeAverage(book, bar.symbol, q, paid)
<1>1. CASE ResolveOrder
  <2> DEFINE o == Head(todo).order
             qty == Head(todo).qty
             paid == Head(todo).price
             q == o.side * qty
             m == Mult[bar.symbol]
  <2>1. /\ todo # <<>>
        /\ book' = (IF qty > 0 THEN ApplyFill(book, bar.symbol, q, paid) ELSE book)
        /\ cash' = cash - q * paid * m - Commission * qty
    BY <1>1 DEF ResolveOrder, Resolve
  <2>2. todo \in Seq(Matches) /\ bar \in Bars /\ cash \in Int
    BY DEF ReplayTypeOK, Matches
  <2>3. o \in PendingOrders /\ qty \in Nat /\ paid \in Int
    BY <2>1, <2>2, TodoFacts
  <2>4. WholeAverages /\ qty > 0 => WholeAverage(book, bar.symbol, q, paid)
    BY <2>1 DEF WholeAverages
  <2>5. m \in Nat /\ Commission \in Nat
    BY <2>2, ReplayConstants
  <2>6. o.side \in {1, -1}
    BY <2>3 DEF PendingOrders
  <2> HIDE DEF o, qty, paid, m
  <2>7. CASE qty > 0
    <3>1. q \in Int /\ q # 0 /\ Abs(q) = qty
      BY <2>3, <2>6, <2>7 DEF Abs
    <3> HIDE DEF q
    <3> QED BY <2>1, <2>3, <2>4, <2>7, <3>1 DEF m
  <2>8. CASE qty = 0
    <3>1. q = 0
      BY <2>6, <2>8
    <3>2. q * paid * m = 0 /\ Commission * qty = 0
      BY <2>3, <2>5, <2>8, <3>1
    <3> HIDE DEF q
    <3> QED BY <2>1, <2>2, <2>3, <2>8, <3>2
  <2> QED BY <2>3, <2>7, <2>8
<1>2. CASE UNCHANGED <<book, cash>>
  BY <1>2
<1>3. ResolveOrder \/ UNCHANGED <<book, cash>>
  BY DEF ReplayNext, replayVars, ProcessBar, Decide, NoOrder, Settle
<1> QED BY <1>1, <1>2, <1>3

(* At the start there is no position, no record and no cash.               *)
LEMMA BookInit == ReplayInit => TradesOf(book) /\ CashOf(book, cash)
<1> SUFFICES ASSUME ReplayInit PROVE TradesOf(book) /\ CashOf(book, cash)
  OBVIOUS
<1>1. /\ \A s \in Symbols : book.pos[s] = 0 /\ book.avg[s] = 0 /\ book.trade[s] = Flat
      /\ book.closed = 0 /\ book.equity = StartEquity /\ cash = 0
  BY DEF ReplayInit
<1>2. Results(book) = [s \in Symbols |-> 0]
  BY <1>1 DEF Results, Flat
<1>3. EntryValues(book) = [s \in Symbols |-> 0]
  BY <1>1, ReplayConstants DEF EntryValues
<1>4. SumOver(Results(book)) = 0 /\ SumOver(EntryValues(book)) = 0
  BY <1>2, <1>3, SumOfZeroes
<1>5. \A s \in Symbols : /\ book.trade[s].side = Sign(book.pos[s])
                         /\ book.trade[s].peak >= Abs(book.pos[s])
  BY <1>1 DEF Flat, Sign, Abs
<1> QED BY <1>1, <1>4, <1>5, ReplayConstants DEF TradesOf, CashOf

(* Over any replay: the trade records account for every change of equity,  *)
(* and a record is open exactly while its symbol has a position, on its    *)
(* side, whatever fills add, reduce, close or flip                         *)
(* (market_simulator.py:244-345).                                          *)
THEOREM RecordsAddUp == ReplaySpec => []TradesAddUp
<1>1. ReplayInit => ReplayTypeOK /\ TradesOf(book)
  BY ReplayTypeInit, BookInit
<1>2. ASSUME ReplayTypeOK, TradesOf(book), [ReplayNext]_replayVars
      PROVE  ReplayTypeOK' /\ TradesOf(book)'
  <2>1. ReplayTypeOK'
    BY <1>2, ReplayTypeStep
  <2>2. IsBook(book) /\ bar.symbol \in Symbols
    BY <1>2, ReplayConstants DEF ReplayTypeOK, IsBook
  <2>3. TradesOf(book')
    <3>1. CASE UNCHANGED <<book, cash>>
      BY <1>2, <3>1
    <3>2. CASE \E q, paid \in Int : q # 0 /\ book' = ApplyFill(book, bar.symbol, q, paid)
      BY <1>2, <2>2, <3>2, FillKeepsTrades
    <3> QED BY <1>2, <3>1, <3>2, BookChanges
  <2>4. TradesOf(book)' <=> TradesOf(book')
    BY DEF TradesOf, Results, SumOver, MapThenSumSet, MapThenFoldSet, Sign, Abs
  <2> QED BY <2>1, <2>3, <2>4
<1>3. TradesOf(book) => TradesAddUp
  BY DEF TradesOf, TradesAddUp, Results
<1> QED BY <1>1, <1>2, <1>3, PTL DEF ReplaySpec

(* Over any replay whose average entry prices come out whole, the equity   *)
(* is the starting equity plus the money of all fills plus the open        *)
(* positions at their average entries: no fill of any symbol, size or      *)
(* direction makes or loses money in the ledger                            *)
(* (market_simulator.py:244-305).                                          *)
THEOREM LedgerAgrees == ReplaySpec /\ []WholeAverages => []CashIdentity
<1>1. ReplayInit => ReplayTypeOK /\ CashOf(book, cash)
  BY ReplayTypeInit, BookInit
<1>2. ASSUME ReplayTypeOK, WholeAverages, CashOf(book, cash), [ReplayNext]_replayVars
      PROVE  ReplayTypeOK' /\ CashOf(book, cash)'
  <2>1. ReplayTypeOK'
    BY <1>2, ReplayTypeStep
  <2>2. IsBook(book) /\ bar.symbol \in Symbols /\ cash \in Int
    BY <1>2, ReplayConstants DEF ReplayTypeOK, IsBook
  <2>3. CashOf(book', cash')
    <3>1. CASE UNCHANGED <<book, cash>>
      BY <1>2, <3>1
    <3>2. ASSUME NEW q \in Int, NEW paid \in Int,
                 q # 0, book' = ApplyFill(book, bar.symbol, q, paid),
                 cash' = cash - q * paid * Mult[bar.symbol] - Commission * Abs(q),
                 WholeAverage(book, bar.symbol, q, paid)
          PROVE  CashOf(book', cash')
      BY <1>2, <2>2, <3>2, FillKeepsCash
    <3> QED BY <1>2, <3>1, <3>2, BookChanges
  <2>4. CashOf(book, cash)' <=> CashOf(book', cash')
    BY DEF CashOf, EntryValues, SumOver, MapThenSumSet, MapThenFoldSet
  <2> QED BY <2>1, <2>3, <2>4
<1>3. CashOf(book, cash) => CashIdentity
  BY DEF CashOf, CashIdentity, EntryValues
<1> QED BY <1>1, <1>2, <1>3, PTL DEF ReplaySpec

-----------------------------------------------------------------------------
(* The replay: how far the position limit is overshot.                     *)

IsMarket(o) == o.type \notin Limits
Bound(s) == MaxPerSymbol + MaxPerOrder + passive[s]
Reaches(s, o) == Abs(book.pos[s] + o.side * o.left) <= Bound(s)

(* Where the gate's positions are the simulator's.                         *)
Current ==
    \A s \in Symbols : phase \in {"bar", "done"} \/ s # bar.symbol => refreshed[s] = book.pos[s]

(* On this bar's symbol they are behind by its fills: those of limit       *)
(* orders, and the one market order if it has been executed.               *)
Behind ==
    LET s == bar.symbol
    IN  Abs(book.pos[s] - refreshed[s]) <=
            passive[s] + (IF \E i \in 1 .. Len(todo) : IsMarket(todo[i].order)
                          THEN 0 ELSE MaxPerOrder)

(* At most one market order of the symbol is under way; it fills whole and *)
(* ends within the bound.                                                  *)
UnderWay ==
    /\ todo # <<>> => phase = "decide"
    /\ \A i, j \in 1 .. Len(todo) :
           IsMarket(todo[i].order) /\ IsMarket(todo[j].order) => i = j
    /\ \A i \in 1 .. Len(todo) : IsMarket(todo[i].order) =>
           todo[i].qty = todo[i].order.left /\ Reaches(bar.symbol, todo[i].order)

(* The same of a market order that waits, and when the strategy is shown a *)
(* bar none waits for its symbol.                                          *)
Waiting ==
    /\ phase = "decide" =>
           \A i \in 1 .. Len(pending[bar.symbol]) : ~IsMarket(pending[bar.symbol][i])
    /\ \A s \in Symbols : \A i, j \in 1 .. Len(pending[s]) :
           IsMarket(pending[s][i]) /\ IsMarket(pending[s][j]) => i = j
    /\ \A s \in Symbols : \A i \in 1 .. Len(pending[s]) :
           IsMarket(pending[s][i]) => Reaches(s, pending[s][i])

LimitInv == Current /\ Behind /\ UnderWay /\ Waiting /\ OvershootBounded

(* Where a position ends, from how far it is behind and where the other   *)
(* ends.                                                                   *)
LEMMA AbsDetour ==
    \A m, n, e \in Int : /\ Abs(m + e) <= Abs(m - n) + Abs(n + e)
                         /\ Abs(m + e) \in Nat /\ Abs(m - n) \in Nat /\ Abs(n + e) \in Nat
BY DEF Abs

(* The types that the step lemmas of this section use.                     *)
LEMMA LimitTypes ==
    ASSUME ReplayTypeOK
    PROVE  /\ bar \in Bars /\ bar.symbol \in Symbols
           /\ todo \in Seq(Matches) /\ pending \in [Symbols -> Seq(PendingOrders)]
           /\ IsBook(book) /\ book.pos \in [Symbols -> Int]
           /\ refreshed \in [Symbols -> Int] /\ passive \in [Symbols -> Nat]
BY ReplayConstants DEF ReplayTypeOK, Matches, IsBook

(* The bar is matched: the orders that waited for it are under way.        *)
LEMMA LimitProcessBar ==
    ASSUME ReplayTypeOK, LimitInv,
           NEW open \in Levels, NEW lo \in Levels, NEW hi \in Levels, ProcessBar(open, lo, hi)
    PROVE  LimitInv'
<1> DEFINE s == bar.symbol
           w == pending[s]
<1>1. /\ phase = "bar" /\ phase' = "decide" /\ todo' = Matched(w, open, lo, hi)
      /\ pending' = [pending EXCEPT ![s] = <<>>]
      /\ bar' = bar /\ book' = book /\ refreshed' = refreshed /\ passive' = passive
  BY DEF ProcessBar
<1>2. /\ s \in Symbols /\ w \in Seq(PendingOrders) /\ open \in Nat /\ lo \in Nat /\ hi \in Nat
      /\ pending \in [Symbols -> Seq(PendingOrders)]
      /\ book.pos[s] \in Int /\ passive[s] \in Nat /\ MaxPerOrder \in Nat
  BY LimitTypes, ReplayConstants
<1>3. /\ Len(todo') = Len(w)
      /\ \A i \in 1 .. Len(w) : /\ w[i] \in PendingOrders /\ todo'[i].order = w[i]
                                /\ todo'[i].qty = FillQuantity(w[i], lo, hi)
  BY <1>1, <1>2, MatchedFacts
<1>4. Current'
  BY <1>1 DEF Current, LimitInv
<1>5. Behind'
  <2>1. refreshed[s] = book.pos[s]
    BY <1>1, <1>2 DEF Current, LimitInv
  <2> DEFINE x == IF \E i \in 1 .. Len(todo') : IsMarket(todo'[i].order) THEN 0 ELSE MaxPerOrder
  <2>2. x \in Nat
    BY <1>2
  <2> HIDE DEF x
  <2>3. Abs(book.pos[s] - refreshed[s]) <= passive[s] + x
    BY <1>2, <2>1, <2>2 DEF Abs
  <2> QED BY <1>1, <2>3 DEF Behind, x, IsMarket
<1>6. UnderWay'
  <2>1. \A i \in 1 .. Len(w) : IsMarket(w[i]) =>
            FillQuantity(w[i], lo, hi) = w[i].left /\ Reaches(s, w[i])
    <3>1. \A i \in 1 .. Len(w) : IsMarket(w[i]) => FillQuantity(w[i], lo, hi) = w[i].left
      <4>1. \A u \in PendingOrders : u.type \notin Limits => FillQuantity(u, lo, hi) = u.left
        BY <1>2, MatchFacts
      <4> QED BY <1>3, <4>1 DEF IsMarket
    <3>2. \A i \in 1 .. Len(w) : IsMarket(w[i]) => Reaches(s, w[i])
      BY <1>2 DEF Waiting, LimitInv
    <3> QED BY <3>1, <3>2
  <2>2. \A i, j \in 1 .. Len(w) : IsMarket(w[i]) /\ IsMarket(w[j]) => i = j
    BY <1>2 DEF Waiting, LimitInv
  <2>3. \A i, j \in 1 .. Len(todo') : IsMarket(todo'[i].order) /\ IsMarket(todo'[j].order) => i = j
    BY <1>3, <2>2
  <2>4. \A i \in 1 .. Len(todo') : IsMarket(todo'[i].order) =>
            todo'[i].qty = todo'[i].order.left /\ Reaches(s, todo'[i].order)
    BY <1>3, <2>1
  <2> QED BY <1>1, <2>3, <2>4 DEF UnderWay, Reaches, Bound, IsMarket
<1>7. Waiting'
  <2>1. pending'[s] = <<>> /\ \A x \in Symbols \ {s} : pending'[x] = pending[x]
    BY <1>1, <1>2
  <2>2. ASSUME NEW x \in Symbols
        PROVE  /\ \A i, j \in 1 .. Len(pending'[x]) :
                      IsMarket(pending'[x][i]) /\ IsMarket(pending'[x][j]) => i = j
               /\ \A i \in 1 .. Len(pending'[x]) :
                      IsMarket(pending'[x][i]) => Reaches(x, pending'[x][i])
    <3>1. CASE x = s
      BY <2>1, <3>1
    <3>2. CASE x # s
      BY <2>1, <3>2 DEF Waiting, LimitInv
    <3> QED BY <3>1, <3>2
  <2>3. \A i \in 1 .. Len(pending'[s]) : ~IsMarket(pending'[s][i])
    BY <2>1
  <2> QED BY <1>1, <2>2, <2>3 DEF Waiting, Reaches, Bound, IsMarket
<1>8. OvershootBounded'
  BY <1>1 DEF OvershootBounded, LimitInv, Abs
<1> QED BY <1>4, <1>5, <1>6, <1>7, <1>8 DEF LimitInv

(* One order of the bar: a limit order moves the position and the bound    *)
(* alike, a market order ends where Reaches says.                          *)
LEMMA LimitResolve ==
    ASSUME ReplayTypeOK, LimitInv, ResolveOrder
    PROVE  LimitInv'
<1> DEFINE s == bar.symbol
           o == Head(todo).order
           qty == Head(todo).qty
           d == o.side * qty
           k == IF IsMarket(o) THEN 0 ELSE qty
<1>1. /\ phase = "decide" /\ todo # <<>> /\ Resolve(o, qty, Head(todo).price)
      /\ todo' = Tail(todo) /\ bar' = bar /\ phase' = phase /\ refreshed' = refreshed
  BY DEF ResolveOrder
<1>2. /\ s \in Symbols /\ todo \in Seq(Matches) /\ IsBook(book)
      /\ pending \in [Symbols -> Seq(PendingOrders)] /\ book.pos \in [Symbols -> Int]
      /\ refreshed \in [Symbols -> Int] /\ passive \in [Symbols -> Nat]
      /\ MaxPerOrder \in Nat /\ MaxPerSymbol \in Nat
  BY LimitTypes, ReplayConstants
<1>3. /\ Head(todo) = todo[1] /\ o \in PendingOrders /\ qty \in Nat /\ Head(todo).price \in Int
      /\ Len(todo') = Len(todo) - 1 /\ Len(todo) \in Nat
      /\ \A i \in 1 .. Len(todo') : todo'[i] = todo[i + 1] /\ i + 1 \in 1 .. Len(todo)
  BY <1>1, <1>2, TodoFacts
<1>4. o.side \in {1, -1} /\ o.left \in 1 .. MaxPerOrder
  BY <1>3 DEF PendingOrders
<1>5. 1 \in 1 .. Len(todo)
  BY <1>1, <1>2, <1>3
<1>6. IsMarket(o) => /\ qty = o.left /\ Reaches(s, o)
                     /\ \A i \in 1 .. Len(todo') : ~IsMarket(todo'[i].order)
  BY <1>3, <1>5 DEF UnderWay, LimitInv
<1> HIDE DEF o, qty
<1>7. d \in Int /\ Abs(d) = qty /\ k \in Nat
  BY <1>3, <1>4 DEF Abs
<1>8. /\ book'.pos[s] = book.pos[s] + d
      /\ \A x \in Symbols \ {s} : book'.pos[x] = book.pos[x]
  <2>1. CASE qty > 0
    <3>1. d # 0
      BY <1>3, <1>4, <2>1
    <3>2. book' = ApplyFill(book, s, d, Head(todo).price)
      BY <1>1, <2>1 DEF Resolve
    <3>3. book'.pos = [book.pos EXCEPT ![s] = @ + d]
      BY <3>2 DEF ApplyFill
    <3> QED BY <1>2, <3>3
  <2>2. CASE qty = 0
    <3>1. d = 0 /\ book' = book
      BY <1>1, <1>4, <2>2 DEF Resolve
    <3> QED BY <1>2, <3>1
  <2> QED BY <1>3, <2>1, <2>2
<1>9. /\ passive'[s] = passive[s] + k
      /\ \A x \in Symbols \ {s} : passive'[x] = passive[x]
  <2>1. passive' = (IF o.type \in Limits THEN [passive EXCEPT ![s] = @ + qty] ELSE passive)
    BY <1>1 DEF Resolve
  <2> QED BY <1>2, <2>1 DEF IsMarket
<1>10. /\ pending'[s] = pending[s] \o Carried(o, qty)
       /\ \A x \in Symbols \ {s} : pending'[x] = pending[x]
  BY <1>1, <1>2 DEF Resolve
<1> DEFINE p == book.pos[s]
           r == refreshed[s]
           v == passive[s]
           np == book'.pos[s]
           nv == passive'[s]
<1>11. p \in Int /\ r \in Int /\ v \in Nat /\ np = p + d /\ nv = v + k
  BY <1>2, <1>8, <1>9
<1> HIDE DEF d, k, p, r, v, np, nv
<1>12. Current'
  BY <1>1, <1>8 DEF Current, LimitInv
<1>13. Behind'
  <2> DEFINE busy == \E i \in 1 .. Len(todo) : IsMarket(todo[i].order)
             left == \E i \in 1 .. Len(todo') : IsMarket(todo'[i].order)
  <2>1. Abs(p - r) <= v + (IF busy THEN 0 ELSE MaxPerOrder)
    BY DEF Behind, LimitInv, p, r, v
  <2>2. CASE IsMarket(o)
    <3>1. busy /\ ~left
      BY <1>3, <1>5, <1>6, <2>2 DEF o
    <3>2. k = 0 /\ Abs(d) <= MaxPerOrder
      BY <1>2, <1>4, <1>6, <1>7, <2>2 DEF k
    <3> HIDE DEF busy, left
    <3>3. Abs(np - r) <= nv + MaxPerOrder
      BY <1>2, <1>7, <1>11, <2>1, <3>1, <3>2 DEF Abs
    <3> QED BY <1>1, <3>1, <3>3 DEF Behind, np, nv, r, left, IsMarket
  <2>3. CASE ~IsMarket(o)
    <3>1. busy => left
      <4> SUFFICES ASSUME NEW i \in 1 .. Len(todo), IsMarket(todo[i].order)
                   PROVE  left
        OBVIOUS
      <4>1. i # 1
        BY <1>3, <2>3 DEF o
      <4>2. i - 1 \in 1 .. Len(todo') /\ (i - 1) + 1 = i
        BY <1>3, <4>1
      <4>3. todo'[i - 1] = todo[i]
        BY <1>3, <4>2
      <4> QED BY <4>2, <4>3
    <3>2. left => busy
      BY <1>3
    <3>3. k = qty
      BY <2>3 DEF k
    <3> DEFINE x == IF left THEN 0 ELSE MaxPerOrder
    <3>4. x \in Nat /\ Abs(p - r) <= v + x
      BY <1>2, <2>1, <3>1, <3>2
    <3> HIDE DEF x, left, busy
    <3>5. Abs(np - r) <= nv + x
      BY <1>3, <1>7, <1>11, <3>3, <3>4 DEF Abs
    <3> QED BY <1>1, <3>5 DEF Behind, np, nv, r, x, left, IsMarket
  <2> QED BY <2>2, <2>3
<1>14. ASSUME ~IsMarket(o), NEW u \in PendingOrders, Reaches(s, u)
       PROVE  Abs(np + u.side * u.left) <= MaxPerSymbol + MaxPerOrder + nv
  <2>1. u.side * u.left \in Int
    BY <1>2 DEF PendingOrders
  <2>2. Abs(p + u.side * u.left) <= MaxPerSymbol + MaxPerOrder + v
    BY <1>14 DEF Reaches, Bound, p, v
  <2>3. k = qty
    BY <1>14 DEF k
  <2> QED BY <1>2, <1>3, <1>7, <1>11, <2>1, <2>2, <2>3 DEF Abs
<1>15. UnderWay'
  <2>1. \A i, j \in 1 .. Len(todo') :
            IsMarket(todo'[i].order) /\ IsMarket(todo'[j].order) => i = j
    <3> SUFFICES ASSUME NEW i \in 1 .. Len(todo'), NEW j \in 1 .. Len(todo'),
                        IsMarket(todo'[i].order), IsMarket(todo'[j].order)
                 PROVE  i = j
      OBVIOUS
    <3>1. i + 1 = j + 1
      BY <1>3 DEF UnderWay, LimitInv
    <3> QED BY <3>1
  <2>2. ASSUME NEW i \in 1 .. Len(todo'), IsMarket(todo'[i].order)
        PROVE  /\ todo'[i].qty = todo'[i].order.left
               /\ Abs(np + todo'[i].order.side * todo'[i].order.left)
                      <= MaxPerSymbol + MaxPerOrder + nv
    <3>1. ~IsMarket(o)
      BY <1>6, <2>2
    <3>2. todo'[i] = todo[i + 1] /\ i + 1 \in 1 .. Len(todo)
      BY <1>3
    <3>3. todo'[i].order \in PendingOrders
      <4>1. todo[i + 1] \in Matches
        BY <1>2, <3>2
      <4> QED BY <3>2, <4>1 DEF Matches
    <3>4. todo'[i].qty = todo'[i].order.left /\ Reaches(s, todo'[i].order)
      BY <2>2, <3>2 DEF UnderWay, LimitInv
    <3> QED BY <1>14, <3>1, <3>3, <3>4
  <2> QED BY <1>1, <2>1, <2>2 DEF UnderWay, Reaches, Bound, IsMarket, np, nv
<1>16. Waiting'
  <2>1. pending[s] \in Seq(PendingOrders) /\ Carried(o, qty) \in Seq(PendingOrders)
    BY <1>2, <1>3, CarriedFacts
  <2>2. \A i \in 1 .. Len(Carried(o, qty)) : ~IsMarket(Carried(o, qty)[i])
    <3>1. CASE IsMarket(o)
      <4>1. Carried(o, qty) = <<>>
        BY <1>3, <1>4, <1>6, <3>1, CarriedFacts
      <4> QED BY <4>1
    <3>2. CASE ~IsMarket(o)
      BY <1>3, <3>2, CarriedFacts DEF IsMarket
    <3> QED BY <3>1, <3>2
  <2>3. \A i \in 1 .. Len(pending[s]) : ~IsMarket(pending[s][i])
    BY <1>1 DEF Waiting, LimitInv
  <2>4. \A i \in 1 .. Len(pending'[s]) : ~IsMarket(pending'[s][i])
    <3> DEFINE a == pending[s]
               c == Carried(o, qty)
    <3> HIDE DEF a, c
    <3>1. \A i \in 1 .. Len(a \o c) :
              \/ i \in 1 .. Len(a) /\ (a \o c)[i] = a[i]
              \/ i - Len(a) \in 1 .. Len(c) /\ (a \o c)[i] = c[i - Len(a)]
      BY <2>1, JoinedFacts DEF a, c
    <3>2. \A i \in 1 .. Len(a \o c) : ~IsMarket((a \o c)[i])
      BY <2>2, <2>3, <3>1 DEF a, c
    <3> QED BY <1>10, <3>2 DEF a, c
  <2>5. ASSUME NEW x \in Symbols
        PROVE  /\ \A i, j \in 1 .. Len(pending'[x]) :
                      IsMarket(pending'[x][i]) /\ IsMarket(pending'[x][j]) => i = j
               /\ \A i \in 1 .. Len(pending'[x]) : IsMarket(pending'[x][i]) =>
                      Abs(book'.pos[x] + pending'[x][i].side * pending'[x][i].left)
                          <= MaxPerSymbol + MaxPerOrder + passive'[x]
    <3>1. CASE x = s
      BY <2>4, <3>1
    <3>2. CASE x # s
      <4>1. pending'[x] = pending[x] /\ book'.pos[x] = book.pos[x] /\ passive'[x] = passive[x]
        BY <1>8, <1>9, <1>10, <3>2
      <4> QED BY <4>1 DEF Waiting, LimitInv, Reaches, Bound
    <3> QED BY <3>1, <3>2
  <2> QED BY <1>1, <2>4, <2>5 DEF Waiting, Reaches, Bound, IsMarket
<1>17. OvershootBounded'
  <2>1. Abs(np) <= MaxPerSymbol + MaxPerOrder + nv
    <3>1. CASE IsMarket(o)
      <4>1. d = o.side * o.left /\ k = 0
        BY <1>6, <3>1 DEF d, k
      <4>2. Abs(p + o.side * o.left) <= MaxPerSymbol + MaxPerOrder + v
        BY <1>6, <3>1 DEF Reaches, Bound, p, v
      <4> QED BY <1>11, <4>1, <4>2
    <3>2. CASE ~IsMarket(o)
      <4>1. k = qty
        BY <3>2 DEF k
      <4>2. Abs(p) <= MaxPerSymbol + MaxPerOrder + v
        BY <1>2 DEF OvershootBounded, LimitInv, p, v
      <4> QED BY <1>2, <1>3, <1>7, <1>11, <4>1, <4>2 DEF Abs
    <3> QED BY <3>1, <3>2
  <2>2. ASSUME NEW x \in Symbols
        PROVE  Abs(book'.pos[x]) <= MaxPerSymbol + MaxPerOrder + passive'[x]
    <3>1. CASE x = s
      BY <2>1, <3>1 DEF np, nv
    <3>2. CASE x # s
      BY <1>8, <1>9, <3>2 DEF OvershootBounded, LimitInv
    <3> QED BY <3>1, <3>2
  <2> QED BY <2>2 DEF OvershootBounded, Abs
<1> QED BY <1>12, <1>13, <1>15, <1>16, <1>17 DEF LimitInv

(* A new order passed the gate on positions that are behind by what Behind *)
(* says, and is the only market order that waits for its symbol.           *)
LEMMA LimitDecide ==
    ASSUME CrossSymbol = FALSE, ReplayTypeOK, LimitInv,
           NEW x \in Symbols, NEW side \in {1, -1}, NEW q \in 1 .. MaxPerOrder,
           NEW kind \in Kinds, NEW l \in IF kind.type \in Limits THEN Levels ELSE {0},
           Decide(x, side, q, kind, l)
    PROVE  LimitInv'
<1> DEFINE s == bar.symbol
           w == pending[s]
           o == [side |-> side, left |-> q, type |-> kind.type, tif |-> kind.tif,
                 limit |-> l, decided |-> bar.ts]
<1>1. /\ phase = "decide" /\ phase' = "settle" /\ x = s /\ todo' = todo /\ todo = <<>>
      /\ Abs(refreshed[s] + side * q) <= MaxPerSymbol
      /\ pending' = [pending EXCEPT ![s] = Append(@, o)]
      /\ bar' = bar /\ book' = book /\ refreshed' = refreshed /\ passive' = passive
  BY DEF Decide, WithinPositionLimit
<1>2. o.side = side /\ o.left = q
  OBVIOUS
<1> HIDE DEF o
<1>3. /\ s \in Symbols /\ w \in Seq(PendingOrders)
      /\ pending \in [Symbols -> Seq(PendingOrders)]
      /\ book.pos[s] \in Int /\ refreshed[s] \in Int /\ passive[s] \in Nat
      /\ MaxPerOrder \in Nat /\ MaxPerSymbol \in Nat
  BY LimitTypes, ReplayConstants
<1>4. Current'
  BY <1>1 DEF Current, LimitInv
<1>5. Behind'
  BY <1>1 DEF Behind, LimitInv, IsMarket, Abs
<1>6. UnderWay'
  BY <1>1 DEF UnderWay
<1>7. Reaches(s, o)
  <2>1. Abs(book.pos[s] - refreshed[s]) <= passive[s] + MaxPerOrder
    BY <1>1 DEF Behind, LimitInv
  <2>2. Abs(book.pos[s] + side * q) <= MaxPerSymbol + MaxPerOrder + passive[s]
    <3>1. side * q \in Int
      BY <1>3
    <3> DEFINE e == side * q
               m == book.pos[s]
               n == refreshed[s]
               v == passive[s]
    <3>2. /\ e \in Int /\ m \in Int /\ n \in Int /\ v \in Nat
          /\ Abs(n + e) <= MaxPerSymbol /\ Abs(m - n) <= v + MaxPerOrder
      BY <1>1, <1>3, <2>1, <3>1
    <3> HIDE DEF e, m, n, v
    <3>3. Abs(m + e) <= MaxPerSymbol + MaxPerOrder + v
      <4>1. /\ Abs(m + e) <= Abs(m - n) + Abs(n + e)
            /\ Abs(m + e) \in Nat /\ Abs(m - n) \in Nat /\ Abs(n + e) \in Nat
        BY <3>2, AbsDetour
      <4> QED BY <1>3, <3>2, <4>1
    <3> QED BY <3>3 DEF e, m, v
  <2> QED BY <1>2, <2>2 DEF Reaches, Bound
<1>8. Waiting'
  <2>1. pending'[s] = Append(w, o) /\ \A y \in Symbols \ {s} : pending'[y] = pending[y]
    BY <1>1, <1>3
  <2>2. /\ Len(w) \in Nat /\ Len(Append(w, o)) = Len(w) + 1 /\ Append(w, o)[Len(w) + 1] = o
        /\ \A i \in 1 .. Len(w) : Append(w, o)[i] = w[i]
    BY <1>3
  <2>3. \A i \in 1 .. Len(w) : ~IsMarket(w[i])
    BY <1>1 DEF Waiting, LimitInv
  <2>4. ASSUME NEW y \in Symbols
        PROVE  /\ \A i, j \in 1 .. Len(pending'[y]) :
                      IsMarket(pending'[y][i]) /\ IsMarket(pending'[y][j]) => i = j
               /\ \A i \in 1 .. Len(pending'[y]) :
                      IsMarket(pending'[y][i]) => Reaches(y, pending'[y][i])
    <3>1. CASE y = s
      <4>1. \A i \in 1 .. Len(pending'[y]) :
                IsMarket(pending'[y][i]) => i = Len(w) + 1 /\ pending'[y][i] = o
        <5> SUFFICES ASSUME NEW i \in 1 .. Len(w) + 1, IsMarket(Append(w, o)[i])
                     PROVE  i = Len(w) + 1
          BY <2>1, <2>2, <3>1
        <5>1. i \notin 1 .. Len(w)
          BY <2>2, <2>3
        <5> QED BY <2>2, <5>1
      <4> QED BY <1>7, <3>1, <4>1
    <3>2. CASE y # s
      BY <2>1, <3>2 DEF Waiting, LimitInv
    <3> QED BY <3>1, <3>2
  <2> QED BY <1>1, <2>4 DEF Waiting, Reaches, Bound, IsMarket
<1>9. OvershootBounded'
  BY <1>1 DEF OvershootBounded, LimitInv, Abs
<1> QED BY <1>4, <1>5, <1>6, <1>8, <1>9 DEF LimitInv

(* Every step of the replay keeps the overshoot bounded.                   *)
LEMMA LimitStep ==
    ASSUME CrossSymbol = FALSE, ReplayTypeOK, LimitInv, [ReplayNext]_replayVars
    PROVE  LimitInv'
<1>1. CASE Settle
  <2>1. /\ phase = "settle" /\ phase' \in {"bar", "done"} /\ refreshed' = book.pos
        /\ todo' = todo /\ book' = book /\ pending' = pending /\ passive' = passive
        /\ bar' = bar \/ bar' \in First(ahead)
    BY <1>1 DEF Settle
  <2>2. todo = <<>>
    BY <2>1 DEF UnderWay, LimitInv
  <2>3. bar' \in Bars /\ bar'.symbol \in Symbols
    BY <2>1, ReplayConstants DEF ReplayTypeOK, First
  <2>4. book.pos[bar'.symbol] \in Int /\ passive[bar'.symbol] \in Nat /\ MaxPerOrder \in Nat
    BY <2>3, LimitTypes, ReplayConstants
  <2>5. Current'
    BY <2>1 DEF Current
  <2>6. Behind'
    <3>1. Abs(book.pos[bar'.symbol] - refreshed'[bar'.symbol]) <= passive[bar'.symbol] + MaxPerOrder
      BY <2>1, <2>4 DEF Abs
    <3> QED BY <2>1, <2>2, <3>1 DEF Behind
  <2>7. UnderWay'
    BY <2>1, <2>2 DEF UnderWay
  <2>8. Waiting'
    BY <2>1 DEF Waiting, LimitInv, Reaches, Bound, IsMarket, Abs
  <2>9. OvershootBounded'
    BY <2>1 DEF OvershootBounded, LimitInv, Abs
  <2> QED BY <2>5, <2>6, <2>7, <2>8, <2>9 DEF LimitInv
<1>2. CASE /\ UNCHANGED <<bar, todo, book, pending, refreshed, passive>>
           /\ phase' = phase \/ (todo = <<>> /\ phase = "decide" /\ phase' = "settle")
  <2>1. Current' /\ OvershootBounded'
    BY <1>2 DEF Current, OvershootBounded, LimitInv, Abs
  <2>2. Behind'
    BY <1>2 DEF Behind, LimitInv, Abs, IsMarket
  <2>3. UnderWay'
    BY <1>2 DEF UnderWay, LimitInv, Reaches, Bound, IsMarket, Abs
  <2>4. Waiting'
    BY <1>2 DEF Waiting, LimitInv, Reaches, Bound, IsMarket, Abs
  <2> QED BY <2>1, <2>2, <2>3, <2>4 DEF LimitInv
<1>3. NoOrder \/ UNCHANGED replayVars =>
          /\ UNCHANGED <<bar, todo, book, pending, refreshed, passive>>
          /\ phase' = phase \/ (todo = <<>> /\ phase = "decide" /\ phase' = "settle")
  BY DEF NoOrder, replayVars
<1> QED BY <1>1, <1>2, <1>3, LimitProcessBar, LimitResolve, LimitDecide DEF ReplayNext

(* For any bars, limits and orders: the gate's positions lag one bar and   *)
(* leave out pending orders (engine.py:110), yet a position never exceeds  *)
(* the symbol's limit by more than one order and what limit orders         *)
(* executed, provided a strategy trades the symbol whose bar it is shown.  *)
THEOREM OvershootIsBounded == CrossSymbol = FALSE => (ReplaySpec => []OvershootBounded)
<1> SUFFICES ASSUME CrossSymbol = FALSE PROVE ReplaySpec => []OvershootBounded
  OBVIOUS
<1>1. ReplayInit => ReplayTypeOK /\ LimitInv
  <2> SUFFICES ASSUME ReplayInit PROVE LimitInv
    BY ReplayTypeInit
  <2>1. /\ todo = <<>> /\ phase = "bar"
        /\ \A s \in Symbols : /\ pending[s] = <<>> /\ book.pos[s] = 0
                              /\ refreshed[s] = 0 /\ passive[s] = 0
    BY DEF ReplayInit
  <2>2. bar.symbol \in Symbols
    BY ReplayTypeInit, LimitTypes
  <2>3. MaxPerOrder \in Nat /\ MaxPerSymbol \in Nat
    BY ReplayConstants
  <2>4. Current /\ UnderWay
    BY <2>1 DEF Current, UnderWay
  <2>5. Behind
    BY <2>1, <2>2, <2>3 DEF Behind, Abs
  <2>6. Waiting
    BY <2>1 DEF Waiting
  <2>7. OvershootBounded
    BY <2>1, <2>3 DEF OvershootBounded, Abs
  <2> QED BY <2>4, <2>5, <2>6, <2>7 DEF LimitInv
<1>2. ReplayTypeOK /\ LimitInv /\ [ReplayNext]_replayVars => (ReplayTypeOK /\ LimitInv)'
  BY ReplayTypeStep, LimitStep
<1>3. LimitInv => OvershootBounded
  BY DEF LimitInv
<1> QED BY <1>1, <1>2, <1>3, PTL DEF ReplaySpec
=============================================================================
