------------------------------ MODULE DataLemmas ------------------------------
(* Least and greatest numbers, induction over sets of numbers, finite sets in a row, what the
   folds of the community modules add up, and what any fold keeps, for every finite set. The library's induction theorems take
   an operator as a parameter, so induction is done here on the least counterexample. *)
EXTENDS Integers, Functions, FiniteSetsExt, FiniteSetTheorems, WellFoundedInduction, TLAPS

\* Some numbers have a least one.
LEMMA LeastNumber ==
  ASSUME NEW T, T \subseteq Nat, T # {}
  PROVE  \E x \in T : \A y \in T : x <= y
<1> DEFINE R == OpToRel(<, Nat)
<1>1. IsWellFoundedOn(R, Nat)
  BY NatLessThanWellFounded
<1>2. \A i, j \in Nat : i < j => <<i, j>> \in R
  BY DEF OpToRel
<1> HIDE DEF R
<1>3. PICK x \in T : \A y \in T : ~(<<y, x>> \in R)
  BY <1>1, WFMin
<1>4. ASSUME NEW y \in T PROVE x <= y
  <2>1. x \in Nat /\ y \in Nat /\ ~(<<y, x>> \in R)
    BY <1>3
  <2>2. ~(y < x)
    BY <1>2, <2>1
  <2> QED
    BY <2>1, <2>2
<1> QED
  BY <1>4

\* Numbers that contain 0 and with each its successor are all numbers.
LEMMA AllNumbers ==
  ASSUME NEW P \in SUBSET Nat, 0 \in P, \A n \in P : n + 1 \in P
  PROVE  P = Nat
<1> DEFINE T == Nat \ P
<1>1. SUFFICES ASSUME T # {} PROVE FALSE
  OBVIOUS
<1>2. PICK m \in T : \A k \in T : m <= k
  BY <1>1, LeastNumber
<1>3. m \in Nat /\ m # 0
  OBVIOUS
<1>4. m - 1 \in Nat /\ m - 1 \notin T
  <2>1. m - 1 \in Nat /\ ~(m <= m - 1)
    BY <1>3
  <2> QED
    BY <1>2, <2>1
<1>5. (m - 1) + 1 \in P
  BY <1>4
<1> QED
  BY <1>3, <1>5

\* A finite set of numbers has a greatest one: that with the fewest above it.
LEMMA GreatestExists ==
    ASSUME NEW S \in SUBSET Nat, S # {}, IsFiniteSet(S)
    PROVE  \E m \in S : \A j \in S : j <= m
<1>. DEFINE Above(i) == {j \in S : j > i}
            Sizes == {Cardinality(Above(i)) : i \in S}
<1>1. \A i \in S : IsFiniteSet(Above(i)) /\ Cardinality(Above(i)) \in Nat
  BY FS_Subset, FS_CardinalityType
<1>2. Sizes \in SUBSET Nat /\ Sizes # {}
  BY <1>1
<1>3. PICK n \in Sizes : \A k \in Sizes : n <= k
  <2>. HIDE DEF Sizes
  <2>. QED  BY <1>2, LeastNumber
<1>4. PICK m \in S : n = Cardinality(Above(m))
  BY <1>3
<1>5. ASSUME NEW j \in S, ~(j <= m) PROVE FALSE
  <2>0. m \in Nat /\ j \in Nat /\ m < j
    BY <1>5
  <2>1. j \in Above(m) /\ j \notin Above(j) /\ Above(j) \in SUBSET Above(m)
    <3>1. \A k \in S : k > j => k > m
      BY <2>0
    <3>2. j \in Above(m)
      BY <2>0
    <3>3. j \notin Above(j)
      BY <2>0
    <3>. QED  BY <3>1, <3>2, <3>3
  <2>2. Cardinality(Above(j)) <= Cardinality(Above(m)) /\ Above(j) # Above(m)
        /\ (Cardinality(Above(m)) = Cardinality(Above(j)) => Above(m) = Above(j))
    <3>. HIDE DEF Above
    <3>. QED  BY <2>1, <1>1, FS_Subset
  <2>3. Cardinality(Above(m)) <= Cardinality(Above(j))
    BY <1>3, <1>4
  <2>4. Cardinality(Above(j)) = Cardinality(Above(m))
    <3>1. Cardinality(Above(j)) \in Nat /\ Cardinality(Above(m)) \in Nat
      <4>. HIDE DEF Above, Sizes
      <4>. QED  BY <1>1
    <3>2. ASSUME NEW x \in Nat, NEW y \in Nat, x <= y, y <= x PROVE x = y
      BY <3>2
    <3>. HIDE DEF Above, Sizes
    <3>. QED  BY <2>2, <2>3, <3>1, <3>2, Zenon
  <2>. QED
    <3>. HIDE DEF Above
    <3>. QED  BY <2>2, <2>4
<1>. QED  BY <1>5

\* What a function makes of a finite set is finite, and as large if nothing coincides.
LEMMA ImageFinite ==
  ASSUME NEW S, IsFiniteSet(S), NEW f
  PROVE  /\ IsFiniteSet({f[x] : x \in S})
         /\ (\A x, y \in S : f[x] = f[y] => x = y) => Cardinality({f[x] : x \in S}) = Cardinality(S)
<1> DEFINE g == [x \in S |-> f[x]]
           T == {f[x] : x \in S}
<1>1. g \in Surjection(S, T)
  BY DEF Surjection
<1>2. (\A x, y \in S : f[x] = f[y] => x = y) => g \in Injection(S, T)
  BY DEF Injection, IsInjective
<1> HIDE DEF g
<1> QED
  BY <1>1, <1>2, FS_Surjection

\* Finite sets have a size, and fewer elements without one of theirs.
LEMMA OneLess ==
  ASSUME NEW S, IsFiniteSet(S), NEW s \in SUBSET S
  PROVE  /\ IsFiniteSet(s) /\ Cardinality(s) \in Nat
         /\ Cardinality(s) = 0 <=> s = {}
         /\ \A x \in s : s \ {x} \in SUBSET S /\ Cardinality(s \ {x}) = Cardinality(s) - 1
<1>1. IsFiniteSet(s)
  BY FS_Subset
<1>2. Cardinality(s) \in Nat /\ (Cardinality(s) = 0 <=> s = {})
  BY <1>1, FS_CardinalityType, FS_EmptySet
<1>3. \A x \in s : Cardinality(s \ {x}) = Cardinality(s) - 1
  BY <1>1, FS_RemoveElement
<1> QED
  BY <1>1, <1>2, <1>3

--------------------------------------------------------------------------
(* The fold *)

\* The element that the fold takes first.
Any(s) == CHOOSE x \in s : TRUE

Others(s) == s \ {Any(s)}

\* h adds up w over the subsets of S in that order.
AddsUp(h, w, S) ==
    h = [s \in SUBSET S |-> IF s = {} THEN 0 ELSE w[Any(s)] + h[Others(s)]]

Adding(w, S) == CHOOSE h : AddsUp(h, w, S)

\* Both folds of the models are this one.
LEMMA FoldIs ==
  ASSUME NEW w
  PROVE  /\ SumFunction(w) = Adding(w, DOMAIN w)[DOMAIN w]
         /\ MapThenSumSet(LAMBDA i : w[i], DOMAIN w) = Adding(w, DOMAIN w)[DOMAIN w]
<1>1. SumFunction(w) = Adding(w, DOMAIN w)[DOMAIN w]
  BY DEF SumFunction, SumFunctionOnSet, FoldFunctionOnSet, MapThenFoldSet, Adding, AddsUp, Any, Others
<1>2. MapThenSumSet(LAMBDA i : w[i], DOMAIN w) = Adding(w, DOMAIN w)[DOMAIN w]
  BY DEF MapThenSumSet, MapThenFoldSet, Adding, AddsUp, Any, Others
<1> QED
  BY <1>1, <1>2

LEMMA RestIs ==
  ASSUME NEW S, IsFiniteSet(S), NEW s \in SUBSET S, s # {}
  PROVE  /\ Any(s) \in s /\ Others(s) \in SUBSET S
         /\ Cardinality(s) \in Nat \ {0} /\ Cardinality(Others(s)) = Cardinality(s) - 1
<1>1. Any(s) \in s
  BY DEF Any
<1> QED
  BY <1>1, OneLess DEF Others

\* There is a function that adds up.
LEMMA AddingExists ==
  ASSUME NEW S, IsFiniteSet(S), NEW w
  PROVE  AddsUp(Adding(w, S), w, S)
<1> DEFINE Upto(n) == {s \in SUBSET S : Cardinality(s) <= n}
           Partly(h, n) == /\ DOMAIN h = Upto(n)
                           /\ \A s \in Upto(n) : h[s] = IF s = {} THEN 0 ELSE w[Any(s)] + h[Others(s)]
           P == {n \in Nat : \E h : Partly(h, n)}
<1>1. 0 \in P
  <2> DEFINE h == [s \in Upto(0) |-> 0]
  <2>1. \A s \in Upto(0) : s = {}
    <3>1. SUFFICES ASSUME NEW s \in SUBSET S, Cardinality(s) <= 0 PROVE s = {}
      OBVIOUS
    <3>2. Cardinality(s) = 0
      BY <3>1, OneLess
    <3> QED
      BY <3>2, OneLess
  <2>2. Partly(h, 0)
    <3> HIDE DEF Upto
    <3> QED
      BY <2>1
  <2> QED
    BY <2>2
<1>2. ASSUME NEW n \in P PROVE n + 1 \in P
  <2>1. PICK h : Partly(h, n)
    OBVIOUS
  <2> DEFINE g == [s \in Upto(n + 1) |-> IF s = {} THEN 0 ELSE w[Any(s)] + h[Others(s)]]
  <2>2. Upto(n) \subseteq Upto(n + 1)
    <3>1. SUFFICES ASSUME NEW s \in SUBSET S, Cardinality(s) <= n PROVE Cardinality(s) <= n + 1
      OBVIOUS
    <3>2. Cardinality(s) \in Nat /\ n \in Nat
      BY OneLess
    <3> QED
      BY <3>1, <3>2
  <2>3. \A s \in Upto(n + 1) : s # {} => Others(s) \in Upto(n)
    <3>1. SUFFICES ASSUME NEW s \in SUBSET S, Cardinality(s) <= n + 1, s # {}
                   PROVE  Others(s) \in SUBSET S /\ Cardinality(Others(s)) <= n
      OBVIOUS
    <3>2. Others(s) \in SUBSET S /\ Cardinality(s) \in Nat /\ Cardinality(Others(s)) = Cardinality(s) - 1 /\ n \in Nat
      BY <3>1, RestIs
    <3> QED
      BY <3>1, <3>2
  <2> HIDE DEF Upto
  <2>4. \A s \in Upto(n) : g[s] = h[s]
    BY <2>1, <2>2
  <2>5. Partly(g, n + 1)
    BY <2>3, <2>4
  <2>6. n + 1 \in Nat /\ \E h_1 : Partly(h_1, n + 1)
    <3> HIDE DEF Partly
    <3> QED
      BY <2>5
  <2> QED
    BY <2>6
<1>3. P = Nat
  <2> HIDE DEF P
  <2>1. P \in SUBSET Nat
    BY DEF P
  <2> QED
    BY <1>1, <1>2, <2>1, AllNumbers
<1>4. Cardinality(S) \in Nat /\ Upto(Cardinality(S)) = SUBSET S
  <2>1. \A s \in SUBSET S : Cardinality(s) <= Cardinality(S)
    BY FS_Subset
  <2> QED
    BY <2>1, FS_CardinalityType
<1>5. PICK h : Partly(h, Cardinality(S))
  BY <1>3, <1>4
<1> DEFINE g == [s \in SUBSET S |-> IF s = {} THEN 0 ELSE w[Any(s)] + h[Others(s)]]
<1>6. \A s \in SUBSET S : g[s] = h[s]
  BY <1>4, <1>5
<1>7. \A s \in SUBSET S : s # {} => Others(s) \in SUBSET S
  BY RestIs
<1>8. AddsUp(g, w, S)
  BY <1>6, <1>7 DEF AddsUp
<1> HIDE DEF g
<1> QED
  BY <1>8 DEF Adding

LEMMA AddingIs ==
  ASSUME NEW S, IsFiniteSet(S), NEW w
  PROVE  \A s \in SUBSET S :
           Adding(w, S)[s] = IF s = {} THEN 0 ELSE w[Any(s)] + Adding(w, S)[Others(s)]
<1>1. AddsUp(Adding(w, S), w, S)
  BY AddingExists
<1> DEFINE h == Adding(w, S)
<1> HIDE DEF h
<1>2. h = [s \in SUBSET S |-> IF s = {} THEN 0 ELSE w[Any(s)] + h[Others(s)]]
  BY <1>1 DEF AddsUp, h
<1>3. \A s \in SUBSET S : h[s] = IF s = {} THEN 0 ELSE w[Any(s)] + h[Others(s)]
  BY <1>2
<1> QED
  BY <1>3 DEF h

\* What holds of a set whenever it holds of the smaller ones holds of all.
LEMMA BySize ==
  ASSUME NEW S, IsFiniteSet(S), NEW Q \in SUBSET (SUBSET S),
         \A s \in SUBSET S :
           (\A t \in SUBSET S : Cardinality(t) < Cardinality(s) => t \in Q) => s \in Q
  PROVE  Q = SUBSET S
<1> DEFINE T == {Cardinality(s) : s \in (SUBSET S) \ Q}
<1>1. SUFFICES ASSUME T # {} PROVE FALSE
  OBVIOUS
<1>2. \A s \in SUBSET S : Cardinality(s) \in Nat
  BY OneLess
<1>3. PICK n \in T : \A k \in T : n <= k
  <2>1. T \subseteq Nat
    BY <1>2
  <2> HIDE DEF T
  <2> QED
    BY <1>1, <2>1, LeastNumber
<1>4. PICK s \in (SUBSET S) \ Q : n = Cardinality(s)
  BY <1>3
<1>5. ASSUME NEW t \in SUBSET S, Cardinality(t) < Cardinality(s), t \notin Q PROVE FALSE
  <2>1. Cardinality(t) \in T
    BY <1>5
  <2>2. n <= Cardinality(t)
    BY <1>3, <2>1
  <2> QED
    BY <1>2, <1>4, <1>5, <2>2
<1> QED
  BY <1>4, <1>5

\* In a finite set of numbers there is one of every rank.
LEMMA RankExists ==
  ASSUME NEW S, IsFiniteSet(S), S \subseteq Nat
  PROVE  \A s \in SUBSET S : \A i \in 1 .. Cardinality(s) :
           \E c \in s : Cardinality({d \in s : d <= c}) = i
<1> DEFINE Q == {s \in SUBSET S : \A i \in 1 .. Cardinality(s) :
                                   \E c \in s : Cardinality({d \in s : d <= c}) = i}
<1>1. ASSUME NEW s \in SUBSET S, \A t \in SUBSET S : Cardinality(t) < Cardinality(s) => t \in Q
      PROVE  s \in Q
  <2>1. SUFFICES ASSUME NEW i \in 1 .. Cardinality(s)
                 PROVE  \E c \in s : Cardinality({d \in s : d <= c}) = i
    OBVIOUS
  <2>2. IsFiniteSet(s) /\ Cardinality(s) \in Nat /\ s # {} /\ s \subseteq Nat
    <3>1. IsFiniteSet(s) /\ Cardinality(s) \in Nat /\ (Cardinality(s) = 0 <=> s = {})
      BY OneLess
    <3> QED
      BY <3>1
  <2>3. PICK x \in s : \A y \in s : x <= y
    BY <2>2, LeastNumber
  <2> DEFINE t == s \ {x}
  <2>4. t \in SUBSET S /\ Cardinality(t) = Cardinality(s) - 1
    <3>1. \A y \in s : s \ {y} \in SUBSET S /\ Cardinality(s \ {y}) = Cardinality(s) - 1
      BY OneLess
    <3> QED
      BY <2>3, <3>1
  <2>5. CASE i = 1
    <3>1. ASSUME NEW d \in s, d <= x PROVE d = x
      <4>1. d \in Nat /\ x \in Nat /\ x <= d
        BY <2>2, <2>3
      <4> QED
        BY <3>1, <4>1
    <3>2. x <= x
      BY <2>3
    <3>3. {d \in s : d <= x} = {x}
      BY <3>1, <3>2
    <3>4. Cardinality({d \in s : d <= x}) = 1
      BY <3>3, FS_Singleton
    <3> QED
      BY <2>5, <3>4
  <2>6. CASE i # 1
    <3>1. i - 1 \in 1 .. Cardinality(t)
      BY <2>2, <2>4, <2>6
    <3>2. t \in Q
      BY <1>1, <2>2, <2>4
    <3>3. PICK c \in t : Cardinality({d \in t : d <= c}) = i - 1
      BY <3>1, <3>2
    <3> DEFINE low == {d \in t : d <= c}
    <3>4. IsFiniteSet(low)
      BY <2>2, FS_Subset
    <3>5. x \notin low /\ {d \in s : d <= c} = low \cup {x}
      BY <2>3
    <3>6. Cardinality(low \cup {x}) = Cardinality(low) + 1
      BY <3>4, <3>5, FS_AddElement
    <3>7. Cardinality({d \in s : d <= c}) = i
      BY <3>3, <3>5, <3>6
    <3> QED
      BY <3>7
  <2> QED
    BY <2>5, <2>6
<1>2. Q \in SUBSET (SUBSET S)
  OBVIOUS
<1>3. Q = SUBSET S
  <2> HIDE DEF Q
  <2> QED
    BY <1>1, <1>2, BySize
<1> QED
  BY <1>3

LEMMA AddingInt ==
  ASSUME NEW S, IsFiniteSet(S), NEW w, \A x \in S : w[x] \in Int
  PROVE  \A s \in SUBSET S : Adding(w, S)[s] \in Int
<1> DEFINE Q == {s \in SUBSET S : Adding(w, S)[s] \in Int}
<1>1. ASSUME NEW s \in SUBSET S, \A t \in SUBSET S : Cardinality(t) < Cardinality(s) => t \in Q
      PROVE  s \in Q
  <2>1. CASE s = {}
    BY <2>1, AddingIs
  <2>2. CASE s # {}
    <3>1. /\ Any(s) \in s /\ Others(s) \in SUBSET S
          /\ Cardinality(s) \in Nat \ {0} /\ Cardinality(Others(s)) = Cardinality(s) - 1
      BY <2>2, RestIs
    <3>2. Others(s) \in Q
      BY <1>1, <3>1
    <3>3. Adding(w, S)[s] = w[Any(s)] + Adding(w, S)[Others(s)]
      BY <2>2, AddingIs
    <3> QED
      BY <3>1, <3>2, <3>3
  <2> QED
    BY <2>1, <2>2
<1>2. Q \in SUBSET (SUBSET S)
  OBVIOUS
<1>3. Q = SUBSET S
  <2> HIDE DEF Q
  <2> QED
    BY <1>1, <1>2, BySize
<1> QED
  BY <1>3

\* Functions that agree on a set add up to the same there.
LEMMA AddingSame ==
  ASSUME NEW S, IsFiniteSet(S), NEW v, NEW w
  PROVE  \A s \in SUBSET S : (\A x \in s : v[x] = w[x]) => Adding(v, S)[s] = Adding(w, S)[s]
<1> DEFINE Q == {s \in SUBSET S : (\A x \in s : v[x] = w[x]) => Adding(v, S)[s] = Adding(w, S)[s]}
<1>1. ASSUME NEW s \in SUBSET S, \A t \in SUBSET S : Cardinality(t) < Cardinality(s) => t \in Q
      PROVE  s \in Q
  <2>1. CASE s = {}
    BY <2>1, AddingIs
  <2>2. CASE s # {}
    <3>1. /\ Any(s) \in s /\ Others(s) \in SUBSET S
          /\ Cardinality(s) \in Nat \ {0} /\ Cardinality(Others(s)) = Cardinality(s) - 1
      BY <2>2, RestIs
    <3>2. Others(s) \in Q
      BY <1>1, <3>1
    <3>3. /\ Adding(w, S)[s] = w[Any(s)] + Adding(w, S)[Others(s)]
          /\ Adding(v, S)[s] = v[Any(s)] + Adding(v, S)[Others(s)]
      BY <2>2, AddingIs
    <3>4. Others(s) \subseteq s
      BY DEF Others
    <3> QED
      BY <3>1, <3>2, <3>3, <3>4
  <2> QED
    BY <2>1, <2>2
<1>2. Q \in SUBSET (SUBSET S)
  OBVIOUS
<1>3. Q = SUBSET S
  <2> HIDE DEF Q
  <2> QED
    BY <1>1, <1>2, BySize
<1> QED
  BY <1>3

\* Whichever element is taken first.
LEMMA AddingTakes ==
  ASSUME NEW S, IsFiniteSet(S), NEW w, \A x \in S : w[x] \in Int
  PROVE  \A s \in SUBSET S : \A x \in s : Adding(w, S)[s] = w[x] + Adding(w, S)[s \ {x}]
<1> DEFINE h == Adding(w, S)
           Q == {s \in SUBSET S : \A x \in s : h[s] = w[x] + h[s \ {x}]}
<1>0. /\ \A s \in SUBSET S : h[s] \in Int
      /\ \A s \in SUBSET S : h[s] = IF s = {} THEN 0 ELSE w[Any(s)] + h[Others(s)]
  BY AddingInt, AddingIs
<1> HIDE DEF h
<1>1. ASSUME NEW s \in SUBSET S, \A t \in SUBSET S : Cardinality(t) < Cardinality(s) => t \in Q
      PROVE  s \in Q
  <2>1. SUFFICES ASSUME NEW x \in s PROVE h[s] = w[x] + h[s \ {x}]
    OBVIOUS
  <2> DEFINE c == Any(s)
  <2>2. /\ c \in s /\ Cardinality(s) \in Nat \ {0}
        /\ h[s] = w[c] + h[s \ {c}]
    BY <1>0, RestIs DEF Others
  <2> HIDE DEF c
  <2>3. CASE x = c
    BY <2>2, <2>3
  <2>4. CASE x # c
    <3>1. /\ s \ {c} \in SUBSET S /\ Cardinality(s \ {c}) = Cardinality(s) - 1
          /\ s \ {x} \in SUBSET S /\ Cardinality(s \ {x}) = Cardinality(s) - 1
      BY <2>2, OneLess
    <3>2. s \ {c} \in Q /\ s \ {x} \in Q
      BY <1>1, <2>2, <3>1
    <3>3. h[s \ {c}] = w[x] + h[(s \ {c}) \ {x}]
      BY <2>4, <3>2
    <3>4. h[s \ {x}] = w[c] + h[(s \ {x}) \ {c}]
      BY <2>2, <2>4, <3>2
    <3>5. (s \ {c}) \ {x} = (s \ {x}) \ {c} /\ (s \ {x}) \ {c} \in SUBSET S
      OBVIOUS
    <3>6. PICK a \in Int, b \in Int, d \in Int :
            a = h[(s \ {x}) \ {c}] /\ b = w[x] /\ d = w[c]
      BY <1>0, <2>2, <3>5
    <3>7. h[s] = d + (b + a) /\ h[s \ {x}] = d + a
      BY <2>2, <3>3, <3>4, <3>5, <3>6
    <3>8. d + (b + a) = b + (d + a)
      OBVIOUS
    <3> QED
      BY <3>6, <3>7, <3>8
  <2> QED
    BY <2>3, <2>4
<1>2. Q \in SUBSET (SUBSET S)
  OBVIOUS
<1>3. Q = SUBSET S
  <2> HIDE DEF Q
  <2> QED
    BY <1>1, <1>2, BySize
<1> QED
  BY <1>3 DEF h

\* Sums of two functions are sums of the sums.
LEMMA AddingPairs ==
  ASSUME NEW S, IsFiniteSet(S), NEW u, NEW v, NEW w,
         \A x \in S : v[x] \in Int /\ w[x] \in Int /\ u[x] = v[x] + w[x]
  PROVE  \A s \in SUBSET S : Adding(u, S)[s] = Adding(v, S)[s] + Adding(w, S)[s]
<1> DEFINE Q == {s \in SUBSET S : Adding(u, S)[s] = Adding(v, S)[s] + Adding(w, S)[s]}
<1>1. ASSUME NEW s \in SUBSET S, \A t \in SUBSET S : Cardinality(t) < Cardinality(s) => t \in Q
      PROVE  s \in Q
  <2>1. CASE s = {}
    <3>1. Adding(u, S)[s] = 0 /\ Adding(v, S)[s] = 0 /\ Adding(w, S)[s] = 0
      BY <2>1, AddingIs
    <3> QED
      BY <3>1
  <2>2. CASE s # {}
    <3>1. /\ Any(s) \in s /\ Others(s) \in SUBSET S
          /\ Cardinality(s) \in Nat \ {0} /\ Cardinality(Others(s)) = Cardinality(s) - 1
      BY <2>2, RestIs
    <3>2. Others(s) \in Q
      BY <1>1, <3>1
    <3>3. /\ Adding(u, S)[s] = u[Any(s)] + Adding(u, S)[Others(s)]
          /\ Adding(v, S)[s] = v[Any(s)] + Adding(v, S)[Others(s)]
          /\ Adding(w, S)[s] = w[Any(s)] + Adding(w, S)[Others(s)]
      BY <2>2, AddingIs
    <3>4. Adding(v, S)[Others(s)] \in Int /\ Adding(w, S)[Others(s)] \in Int
      BY <3>1, AddingInt
    <3>5. u[Any(s)] = v[Any(s)] + w[Any(s)] /\ v[Any(s)] \in Int /\ w[Any(s)] \in Int
      BY <3>1
    <3> QED
      BY <3>2, <3>3, <3>4, <3>5
  <2> QED
    BY <2>1, <2>2
<1>2. Q \in SUBSET (SUBSET S)
  OBVIOUS
<1>3. Q = SUBSET S
  <2> HIDE DEF Q
  <2> QED
    BY <1>1, <1>2, BySize
<1> QED
  BY <1>3

--------------------------------------------------------------------------
(* What the models need of a sum *)

Sum(w) == Adding(w, DOMAIN w)[DOMAIN w]

LEMMA SumInt ==
  ASSUME NEW S, IsFiniteSet(S), NEW w \in [S -> Int]
  PROVE  Sum(w) \in Int
  BY AddingInt DEF Sum

LEMMA SumNothing ==
  ASSUME NEW w, DOMAIN w = {}
  PROVE  Sum(w) = 0
  BY AddingIs, FS_EmptySet DEF Sum

\* With nothing but zeros it is zero.
LEMMA SumZeros ==
  ASSUME NEW S, IsFiniteSet(S), NEW w \in [S -> {0}]
  PROVE  Sum(w) = 0
<1>1. \A x \in S : w[x] \in Int /\ w[x] = w[x] + w[x]
  OBVIOUS
<1>2. Sum(w) = Sum(w) + Sum(w)
  BY <1>1, AddingPairs DEF Sum
<1>3. w \in [S -> Int]
  OBVIOUS
<1>4. PICK n \in Int : n = Sum(w)
  BY <1>3, SumInt
<1>5. n = n + n
  BY <1>2, <1>4
<1>6. n = 0
  BY <1>5
<1> QED
  BY <1>4, <1>6

\* One value is replaced.
LEMMA SumChanged ==
  ASSUME NEW S, IsFiniteSet(S), NEW w \in [S -> Int], NEW x \in S, NEW n \in Int
  PROVE  Sum([w EXCEPT ![x] = n]) = Sum(w) - w[x] + n
<1> DEFINE v == [w EXCEPT ![x] = n]
<1>1. v \in [S -> Int] /\ v[x] = n /\ \A y \in S \ {x} : v[y] = w[y]
  OBVIOUS
<1> HIDE DEF v
<1>2. Adding(v, S)[S] = n + Adding(v, S)[S \ {x}]
  BY <1>1, AddingTakes
<1>3. Adding(w, S)[S] = w[x] + Adding(w, S)[S \ {x}]
  BY AddingTakes
<1>4. Adding(v, S)[S \ {x}] = Adding(w, S)[S \ {x}]
  BY <1>1, AddingSame
<1>5. Adding(w, S)[S \ {x}] \in Int /\ w[x] \in Int
  BY AddingInt
<1>6. Sum(v) = Sum(w) - w[x] + n
  BY <1>1, <1>2, <1>3, <1>4, <1>5 DEF Sum
<1> QED
  BY <1>6 DEF v

LEMMA SumAdded ==
  ASSUME NEW S, IsFiniteSet(S), NEW v \in [S -> Int], NEW w \in [S -> Int],
         NEW u \in [S -> Int], \A x \in S : u[x] = v[x] + w[x]
  PROVE  Sum(u) = Sum(v) + Sum(w)
  BY AddingPairs DEF Sum

\* A round of smooth weighted round robin: all are raised by their weights, and one pays
\* what all were given.
LEMMA RoundCancels ==
  ASSUME NEW S, IsFiniteSet(S), NEW v \in [S -> Int], NEW w \in [S -> Int], NEW u,
         u = [x \in S |-> v[x] + w[x]], NEW best \in S, NEW total, total = Sum(w)
  PROVE  /\ [u EXCEPT ![best] = @ - total] \in [S -> Int]
         /\ Sum([u EXCEPT ![best] = @ - total]) = Sum(v)
<1>1. u \in [S -> Int] /\ \A x \in S : u[x] = v[x] + w[x]
  <2>1. \A x \in S : v[x] \in Int /\ w[x] \in Int
    OBVIOUS
  <2>2. \A x \in S : v[x] + w[x] \in Int
    BY <2>1
  <2> QED
    BY <2>2
<1>2. Sum(u) = Sum(v) + Sum(w)
  BY <1>1, SumAdded
<1>3. PICK k \in Int, n \in Int : k = Sum(w) /\ n = Sum(v)
  BY SumInt
<1>4. PICK d \in Int, e \in Int : d = u[best] /\ e = d - k
  <2>1. u[best] \in Int
    BY <1>1
  <2> QED
    BY <2>1
<1> DEFINE r == [u EXCEPT ![best] = e]
<1>5. Sum(r) = Sum(u) - u[best] + e
  BY <1>1, <1>4, SumChanged
<1>6. r \in [S -> Int] /\ [u EXCEPT ![best] = @ - total] = r
  BY <1>1, <1>3, <1>4
<1> HIDE DEF r
<1>7. Sum(r) = n + k - d + (d - k)
  BY <1>2, <1>3, <1>4, <1>5
<1>8. n + k - d + (d - k) = n
  OBVIOUS
<1> QED
  BY <1>3, <1>6, <1>7, <1>8

LEMMA SumsAre ==
  ASSUME NEW w
  PROVE  SumFunction(w) = Sum(w) /\ MapThenSumSet(LAMBDA i : w[i], DOMAIN w) = Sum(w)
  BY FoldIs DEF Sum

--------------------------------------------------------------------------
(* Folds that carry any kind of value *)

\* h folds F over the subsets of S, from st on; c says which element comes last.
FoldsOver(h, F, c, st, S) ==
    h = [s \in SUBSET S |-> IF s = {} THEN st ELSE F[<<h[s \ {c[s]}], c[s]>>]]

\* There is a function that folds.
LEMMA FoldExists ==
  ASSUME NEW S, IsFiniteSet(S), NEW F, NEW st, NEW c, \A s \in SUBSET S : s # {} => c[s] \in s
  PROVE  \E h : FoldsOver(h, F, c, st, S)
<1> DEFINE Upto(n) == {s \in SUBSET S : Cardinality(s) <= n}
           Less(s) == s \ {c[s]}
           Partly(h, n) == /\ DOMAIN h = Upto(n)
                           /\ \A s \in Upto(n) : h[s] = IF s = {} THEN st ELSE F[<<h[Less(s)], c[s]>>]
           P == {n \in Nat : \E h : Partly(h, n)}
<1>0. \A s \in SUBSET S : s # {} => /\ Less(s) \in SUBSET S
                                    /\ Cardinality(s) \in Nat
                                    /\ Cardinality(Less(s)) = Cardinality(s) - 1
  BY OneLess
<1>1. 0 \in P
  <2> DEFINE h == [s \in Upto(0) |-> st]
  <2>1. \A s \in Upto(0) : s = {}
    <3>1. SUFFICES ASSUME NEW s \in SUBSET S, Cardinality(s) <= 0 PROVE s = {}
      OBVIOUS
    <3>2. Cardinality(s) = 0
      BY <3>1, OneLess
    <3> QED
      BY <3>2, OneLess
  <2>2. Partly(h, 0)
    <3> HIDE DEF Upto
    <3> QED
      BY <2>1
  <2> QED
    BY <2>2
<1>2. ASSUME NEW n \in P PROVE n + 1 \in P
  <2>1. PICK h : Partly(h, n)
    OBVIOUS
  <2> DEFINE g == [s \in Upto(n + 1) |-> IF s = {} THEN st ELSE F[<<h[Less(s)], c[s]>>]]
  <2>2. Upto(n) \subseteq Upto(n + 1)
    <3>1. SUFFICES ASSUME NEW s \in SUBSET S, Cardinality(s) <= n PROVE Cardinality(s) <= n + 1
      OBVIOUS
    <3>2. Cardinality(s) \in Nat /\ n \in Nat
      BY OneLess
    <3> QED
      BY <3>1, <3>2
  <2>3. \A s \in Upto(n + 1) : s # {} => Less(s) \in Upto(n)
    <3> HIDE DEF Less
    <3>1. SUFFICES ASSUME NEW s \in SUBSET S, Cardinality(s) <= n + 1, s # {}
                   PROVE  Less(s) \in SUBSET S /\ Cardinality(Less(s)) <= n
      OBVIOUS
    <3>2. Less(s) \in SUBSET S /\ Cardinality(s) \in Nat /\ Cardinality(Less(s)) = Cardinality(s) - 1 /\ n \in Nat
      BY <3>1, <1>0
    <3> QED
      BY <3>1, <3>2
  <2> HIDE DEF Upto, Less
  <2>4. \A s \in Upto(n) : g[s] = h[s]
    BY <2>1, <2>2
  <2>5. Partly(g, n + 1)
    BY <2>3, <2>4
  <2>6. n + 1 \in Nat /\ \E h_1 : Partly(h_1, n + 1)
    <3> HIDE DEF Partly
    <3> QED
      BY <2>5
  <2> QED
    BY <2>6
<1>3. P = Nat
  <2> HIDE DEF P
  <2>1. P \in SUBSET Nat
    BY DEF P
  <2> QED
    BY <1>1, <1>2, <2>1, AllNumbers
<1>4. Cardinality(S) \in Nat /\ Upto(Cardinality(S)) = SUBSET S
  <2>1. \A s \in SUBSET S : Cardinality(s) <= Cardinality(S)
    BY FS_Subset
  <2> QED
    BY <2>1, FS_CardinalityType
<1>5. PICK h : Partly(h, Cardinality(S))
  <2> HIDE DEF Partly
  <2>1. \A n \in P : \E h : Partly(h, n)
    OBVIOUS
  <2> HIDE DEF P
  <2> QED
    BY <1>3, <1>4, <2>1
<1> HIDE DEF Less, Upto
<1> DEFINE g == [s \in SUBSET S |-> IF s = {} THEN st ELSE F[<<h[Less(s)], c[s]>>]]
<1>6. \A s \in SUBSET S : g[s] = h[s]
  BY <1>4, <1>5
<1>7. g = [s \in SUBSET S |-> IF s = {} THEN st ELSE F[<<g[Less(s)], c[s]>>]]
  BY <1>6, <1>0
<1> HIDE DEF g
<1>8. FoldsOver(g, F, c, st, S)
  BY <1>7 DEF FoldsOver, Less
<1> QED
  BY <1>8

\* What each step of a fold keeps, the fold keeps.
LEMMA FoldStays ==
  ASSUME NEW S, IsFiniteSet(S), NEW c, \A s \in SUBSET S : s # {} => c[s] \in s,
         NEW A, NEW h, h[{}] \in A,
         \A s \in SUBSET S : s # {} /\ h[s \ {c[s]}] \in A => h[s] \in A
  PROVE  \A s \in SUBSET S : h[s] \in A
<1> DEFINE Q == {s \in SUBSET S : h[s] \in A}
<1>1. ASSUME NEW s \in SUBSET S, \A t \in SUBSET S : Cardinality(t) < Cardinality(s) => t \in Q
      PROVE  s \in Q
  <2>1. CASE s = {}
    BY <2>1
  <2>2. CASE s # {}
    <3>1. /\ c[s] \in s /\ s \ {c[s]} \in SUBSET S
          /\ Cardinality(s) \in Nat /\ Cardinality(s \ {c[s]}) = Cardinality(s) - 1
      BY <2>2, OneLess
    <3>2. s \ {c[s]} \in Q
      <4>1. Cardinality(s \ {c[s]}) < Cardinality(s)
        BY <3>1
      <4> HIDE DEF Q
      <4> QED
        BY <1>1, <3>1, <4>1
    <3> QED
      BY <2>2, <3>2
  <2> QED
    BY <2>1, <2>2
<1>2. Q = SUBSET S
  <2>1. Q \in SUBSET (SUBSET S)
    OBVIOUS
  <2> HIDE DEF Q
  <2> QED
    BY <1>1, <2>1, BySize
<1> QED
  BY <1>2
=============================================================================
