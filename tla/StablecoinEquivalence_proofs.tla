-------------------- MODULE StablecoinEquivalence_proofs --------------------
(***************************************************************************)
(* Proofs about StablecoinEquivalence, for any assets, decimals, balances, *)
(* amounts and number of requests; and, as they need the same sums, about  *)
(* LiquidityPool, for any providers, precision, ratio, fee, amounts and    *)
(* number of calls.                                                        *)
(***************************************************************************)
EXTENDS StablecoinEquivalence, LiquidityPool, FiniteSetTheorems, WellFoundedInduction, TLAPS

-----------------------------------------------------------------------------
(* Sums over finite sets.  What holds of all subsets of a finite set is     *)
(* proved through a smallest one for which it would not hold.               *)

\* A set of subsets of a finite set has one from which nothing can be taken away.
LEMMA SmallestSet ==
  ASSUME NEW S, IsFiniteSet(S), NEW B, B \subseteq SUBSET S, B # {}
  PROVE  \E s \in B : \A x \in s : s \ {x} \notin B
<1> DEFINE R == StrictSubsetOrdering(S)
<1>1. IsWellFoundedOn(R, SUBSET S)
  BY FS_StrictSubsetOrderingWellFounded, FS_FiniteSubsetsOfFinite
<1> HIDE DEF R
<1>2. PICK s \in B : \A t \in B : <<t, s>> \notin R
  BY <1>1, WFMin
<1>3. ASSUME NEW x \in s, s \ {x} \in B PROVE FALSE
  <2>1. <<s \ {x}, s>> \in R
    BY <1>3 DEF R, StrictSubsetOrdering
  <2> QED
    BY <1>2, <1>3, <2>1
<1> QED
  BY <1>2, <1>3

\* A set of natural numbers has a least element.
LEMMA Least ==
  ASSUME NEW S, S \subseteq Nat, S # {}
  PROVE  \E x \in S : \A y \in S : x <= y
<1>1. PICK x \in S : \A y \in S : ~ (<<y, x>> \in OpToRel(<, Nat))
  BY NatLessThanWellFounded, WFMin
<1>2. ASSUME NEW y \in S PROVE x <= y
  <2>1. x \in Nat /\ y \in Nat
    OBVIOUS
  <2>2. ~ (y < x)
    <3>1. <<y, x>> \in Nat \X Nat /\ <<y, x>>[1] = y /\ <<y, x>>[2] = x
      BY <2>1
    <3> QED
      BY <1>1, <3>1 DEF OpToRel
  <2> QED
    BY <2>1, <2>2
<1> QED
  BY <1>2

\* A set of bounded natural numbers has a greatest element.
LEMMA Greatest ==
  ASSUME NEW S, NEW n \in Nat, S \subseteq 0 .. n, S # {}
  PROVE  \E x \in S : \A y \in S : y <= x
<1> DEFINE T == {n - x : x \in S}
<1>1. PICK t \in T : \A u \in T : t <= u
  <2>1. \A x \in S : n - x \in Nat
    OBVIOUS
  <2>2. T \subseteq Nat /\ T # {}
    BY <2>1
  <2> HIDE DEF T
  <2> QED
    BY <2>2, Least
<1>2. PICK x \in S : t = n - x
  OBVIOUS
<1>3. ASSUME NEW y \in S PROVE y <= x
  <2>1. n - x <= n - y
    BY <1>1, <1>2
  <2>2. x \in Int /\ y \in Int
    OBVIOUS
  <2> QED
    BY <2>1, <2>2
<1> QED
  BY <1>3

\* The element that SumFunctionOnSet takes from a set.
Pick(s) == CHOOSE x \in s : TRUE

\* It is one of them.
LEMMA PickFacts == \A s : s # {} => Pick(s) \in s
BY DEF Pick

\* f sums the numbers v[x] over the subsets of S, as SumFunctionOnSet does.
IsSum(f, v, S) ==
  f = [s \in SUBSET S |-> IF s = {} THEN 0 ELSE v[Pick(s)] + f[s \ {Pick(s)}]]

\* The sum over no element.
LEMMA SumEmpty ==
  ASSUME NEW S, NEW v, NEW f, IsSum(f, v, S)
  PROVE  f[{}] = 0
BY DEF IsSum

\* The sum over some elements.
LEMMA SumStep ==
  ASSUME NEW S, NEW v, NEW f, IsSum(f, v, S), NEW s, s \subseteq S, s # {}
  PROVE  f[s] = v[Pick(s)] + f[s \ {Pick(s)}]
BY DEF IsSum

\* Sums are numbers.
LEMMA SumType ==
  ASSUME NEW S, IsFiniteSet(S), NEW v, \A x \in S : v[x] \in Int, NEW f, IsSum(f, v, S)
  PROVE  \A s \in SUBSET S : f[s] \in Int
<1> DEFINE B == {s \in SUBSET S : f[s] \notin Int}
<1>1. ASSUME B # {} PROVE FALSE
  <2>1. PICK s \in B : \A x \in s : s \ {x} \notin B
    BY <1>1, SmallestSet
  <2>2. s # {}
    <3>1. f[{}] \in Int
      BY SumEmpty
    <3> QED
      BY <2>1, <3>1
  <2>3. f[s] = v[Pick(s)] + f[s \ {Pick(s)}] /\ Pick(s) \in s /\ s \ {Pick(s)} \in SUBSET S
    BY <2>2, PickFacts, SumStep
  <2>4. f[s \ {Pick(s)}] \in Int /\ v[Pick(s)] \in Int
    BY <2>1, <2>3
  <2> QED
    BY <2>1, <2>3, <2>4
<1> QED
  BY <1>1

\* Where two sums are of the same numbers they are the same.
LEMMA SumUnique ==
  ASSUME NEW S, NEW T, NEW v, NEW w, NEW f, NEW g, IsSum(f, v, S), IsSum(g, w, T),
         NEW r, IsFiniteSet(r), r \subseteq S, r \subseteq T, \A x \in r : v[x] = w[x]
  PROVE  f[r] = g[r]
<1> DEFINE B == {s \in SUBSET r : f[s] # g[s]}
<1>1. ASSUME B # {} PROVE FALSE
  <2>1. PICK s \in B : \A x \in s : s \ {x} \notin B
    BY <1>1, SmallestSet
  <2>2. s \in SUBSET S /\ s \in SUBSET T
    BY <2>1
  <2>3. s # {}
    <3>1. f[{}] = g[{}]
      BY SumEmpty
    <3> QED
      BY <2>1, <3>1
  <2>4. /\ f[s] = v[Pick(s)] + f[s \ {Pick(s)}] /\ Pick(s) \in s
        /\ g[s] = w[Pick(s)] + g[s \ {Pick(s)}]
    BY <2>2, <2>3, PickFacts, SumStep
  <2>5. f[s \ {Pick(s)}] = g[s \ {Pick(s)}] /\ v[Pick(s)] = w[Pick(s)]
    BY <2>1, <2>4
  <2> QED
    BY <2>1, <2>4, <2>5
<1> QED
  BY <1>1

\* There is such a sum.
LEMMA SumExists ==
  ASSUME NEW S, IsFiniteSet(S), NEW v, \A x \in S : v[x] \in Int
  PROVE  \E f : IsSum(f, v, S)
<1> DEFINE B == {s \in SUBSET S : ~ \E f : IsSum(f, v, s)}
<1>1. ASSUME B # {} PROVE FALSE
  <2>1. PICK s \in B : \A x \in s : s \ {x} \notin B
    BY <1>1, SmallestSet
  <2> DEFINE F(x) == CHOOSE f : IsSum(f, v, s \ {x})
             g == [t \in SUBSET s |-> IF t = {} THEN 0 ELSE v[Pick(t)] + F(Pick(t))[t \ {Pick(t)}]]
  <2>2. \A x \in s : IsSum(F(x), v, s \ {x})
    <3> SUFFICES ASSUME NEW x \in s PROVE \E f : IsSum(f, v, s \ {x})
      OBVIOUS
    <3> QED
      BY <2>1
  <2> HIDE DEF F
  <2>3. \A t \in SUBSET s : g[t] = IF t = {} THEN 0 ELSE v[Pick(t)] + F(Pick(t))[t \ {Pick(t)}]
    OBVIOUS
  <2> HIDE DEF g
  <2>4. ASSUME NEW x \in s, NEW u \in SUBSET (s \ {x})
        PROVE  F(x)[u] = g[u]
    <3>1. PICK f : f = F(x) /\ IsSum(f, v, s \ {x})
      BY <2>2
    <3>2. CASE u = {}
      BY <2>3, <3>1, <3>2, SumEmpty
    <3>3. CASE u # {}
      <4>1. PICK y \in u : y = Pick(u)
        BY <3>3, PickFacts
      <4>2. PICK h : h = F(y) /\ IsSum(h, v, s \ {y})
        BY <2>2, <4>1
      <4>3. f[u] = v[y] + f[u \ {y}]
        <5>1. f[u] = v[Pick(u)] + f[u \ {Pick(u)}]
          BY <3>1, <3>3, SumStep
        <5> QED
          BY <4>1, <5>1
      <4>4. g[u] = v[y] + h[u \ {y}]
        BY <2>3, <3>3, <4>1, <4>2
      <4>5. IsFiniteSet(u \ {y})
        <5>1. u \ {y} \in SUBSET S
          BY <2>1
        <5> QED
          BY <5>1, FS_Subset
      <4>6. f[u \ {y}] = h[u \ {y}]
        BY <3>1, <4>2, <4>5, SumUnique
      <4> QED
        BY <3>1, <4>3, <4>4, <4>6
    <3> QED
      BY <3>2, <3>3
  <2>5. \A t \in SUBSET s : g[t] = IF t = {} THEN 0 ELSE v[Pick(t)] + g[t \ {Pick(t)}]
    <3> SUFFICES ASSUME NEW t \in SUBSET s, t # {}
                 PROVE  g[t] = v[Pick(t)] + g[t \ {Pick(t)}]
      BY <2>3
    <3>1. Pick(t) \in s /\ t \ {Pick(t)} \in SUBSET (s \ {Pick(t)})
      BY PickFacts
    <3> QED
      BY <2>3, <2>4, <3>1
  <2>6. IsSum(g, v, s)
    BY <2>5 DEF IsSum, g
  <2> QED
    BY <2>1, <2>6
<1> QED
  BY <1>1

\* Any element may be taken first.
LEMMA SumAnyOrder ==
  ASSUME NEW S, IsFiniteSet(S), NEW v, \A x \in S : v[x] \in Int, NEW f, IsSum(f, v, S),
         NEW a \in S
  PROVE  f[S] = v[a] + f[S \ {a}]
<1> DEFINE B == {s \in SUBSET S : \E b \in s : f[s] # v[b] + f[s \ {b}]}
<1>1. ASSUME B # {} PROVE FALSE
  <2>1. PICK s \in B : \A x \in s : s \ {x} \notin B
    BY <1>1, SmallestSet
  <2>2. PICK b \in s : f[s] # v[b] + f[s \ {b}]
    BY <2>1
  <2>3. PICK x \in s : x = Pick(s)
    BY <2>2, PickFacts
  <2>4. f[s] = v[x] + f[s \ {x}]
    <3>1. s \subseteq S /\ s # {}
      BY <2>2
    <3>2. f[s] = v[Pick(s)] + f[s \ {Pick(s)}]
      BY <3>1, SumStep
    <3> QED
      BY <2>3, <3>2
  <2>5. x # b
    BY <2>2, <2>4
  <2>6. f[s \ {x}] = v[b] + f[(s \ {x}) \ {b}]
    BY <2>1, <2>3, <2>5
  <2>7. f[s \ {b}] = v[x] + f[(s \ {b}) \ {x}]
    BY <2>1, <2>3, <2>5
  <2>8. (s \ {b}) \ {x} = (s \ {x}) \ {b}
    OBVIOUS
  <2>9. v[x] \in Int /\ v[b] \in Int /\ f[(s \ {x}) \ {b}] \in Int
    BY <2>1, SumType
  <2>10. PICK n \in Int : n = f[(s \ {x}) \ {b}]
    BY <2>9
  <2>11. f[s] = v[x] + (v[b] + n) /\ f[s \ {b}] = v[x] + n
    BY <2>4, <2>6, <2>7, <2>8, <2>10
  <2>12. v[x] + (v[b] + n) = v[b] + (v[x] + n)
    BY <2>9
  <2> QED
    BY <2>2, <2>11, <2>12
<1> QED
  BY <1>1

\* The sum of the numbers v[x], x \in S.
Total(v, S) == SumFunctionOnSet(v, S)

\* SumFunctionOnSet computes such a sum.
LEMMA TotalIsSum ==
  ASSUME NEW S, IsFiniteSet(S), NEW v, \A x \in S : v[x] \in Int
  PROVE  \E f : IsSum(f, v, S) /\ Total(v, S) = f[S]
<1>1. \E f : IsSum(f, v, S)
  BY SumExists
<1> QED
  BY <1>1 DEF Total, SumFunctionOnSet, FoldFunctionOnSet, MapThenFoldSet, IsSum, Pick

\* It is a number.
LEMMA TotalType ==
  ASSUME NEW S, IsFiniteSet(S), NEW v, \A x \in S : v[x] \in Int
  PROVE  Total(v, S) \in Int
<1>1. PICK f : IsSum(f, v, S) /\ Total(v, S) = f[S]
  BY TotalIsSum
<1> QED
  BY <1>1, SumType

\* Equal numbers have equal sums.
LEMMA TotalAgree ==
  ASSUME NEW S, IsFiniteSet(S), NEW v, NEW w, \A x \in S : v[x] \in Int /\ v[x] = w[x]
  PROVE  Total(v, S) = Total(w, S)
<1>1. PICK f : IsSum(f, v, S) /\ Total(v, S) = f[S]
  BY TotalIsSum
<1>2. PICK g : IsSum(g, w, S) /\ Total(w, S) = g[S]
  <2>1. \A x \in S : w[x] \in Int
    OBVIOUS
  <2> QED
    BY <2>1, TotalIsSum
<1> QED
  BY <1>1, <1>2, SumUnique

\* A sum is one of its numbers and the sum of the others.
LEMMA TotalStep ==
  ASSUME NEW S, IsFiniteSet(S), NEW v, \A x \in S : v[x] \in Int, NEW a \in S
  PROVE  Total(v, S) = v[a] + Total(v, S \ {a})
<1> DEFINE R == S \ {a}
<1>1. IsFiniteSet(R) /\ R \subseteq S
  BY FS_Subset
<1>2. PICK f : IsSum(f, v, S) /\ Total(v, S) = f[S]
  BY TotalIsSum
<1> HIDE DEF R
<1>3. PICK g : IsSum(g, v, R) /\ Total(v, R) = g[R]
  BY <1>1, TotalIsSum
<1>4. f[R] = g[R]
  BY <1>1, <1>2, <1>3, SumUnique
<1>5. f[S] = v[a] + f[R]
  BY <1>2, SumAnyOrder DEF R
<1> QED
  BY <1>2, <1>3, <1>4, <1>5 DEF R

\* Zeros sum to zero.
LEMMA Zeros ==
  ASSUME NEW S, IsFiniteSet(S), NEW v, \A x \in S : v[x] = 0
  PROVE  Total(v, S) = 0
<1>1. PICK f : IsSum(f, v, S) /\ Total(v, S) = f[S]
  BY TotalIsSum
<1> DEFINE B == {s \in SUBSET S : f[s] # 0}
<1>2. ASSUME B # {} PROVE FALSE
  <2>1. PICK s \in B : \A x \in s : s \ {x} \notin B
    BY <1>2, SmallestSet
  <2>2. s # {}
    <3>1. f[{}] = 0
      BY <1>1, SumEmpty
    <3> QED
      BY <2>1, <3>1
  <2>3. Pick(s) \in s /\ s \subseteq S
    BY <2>1, <2>2, PickFacts
  <2>4. f[s] = v[Pick(s)] + f[s \ {Pick(s)}]
    BY <1>1, <2>2, <2>3, SumStep
  <2>5. f[s \ {Pick(s)}] = 0
    BY <2>1, <2>3
  <2>6. v[Pick(s)] = 0
    BY <2>3
  <2> QED
    BY <2>1, <2>4, <2>5, <2>6
<1> QED
  BY <1>1, <1>2

\* What is not negative has a sum that is not.
LEMMA TotalNat ==
  ASSUME NEW S, IsFiniteSet(S), NEW v, \A x \in S : v[x] \in Nat
  PROVE  Total(v, S) \in Nat
<1> DEFINE B == {s \in SUBSET S : Total(v, s) \notin Nat}
<1>1. ASSUME B # {} PROVE FALSE
  <2>1. PICK s \in B : \A x \in s : s \ {x} \notin B
    BY <1>1, SmallestSet
  <2>2. IsFiniteSet(s) /\ \A x \in s : v[x] \in Int /\ v[x] >= 0
    BY <2>1, FS_Subset
  <2>3. CASE s = {}
    <3>1. Total(v, s) = 0
      BY <2>2, <2>3, Zeros
    <3> QED
      BY <2>1, <3>1
  <2>4. CASE s # {}
    <3>1. PICK a \in s : TRUE
      BY <2>4
    <3>2. Total(v, s) = v[a] + Total(v, s \ {a})
      BY <2>2, TotalStep
    <3>3. s \ {a} \in SUBSET S /\ s \ {a} \notin B
      BY <2>1
    <3>4. Total(v, s \ {a}) \in Nat
      BY <3>3
    <3> QED
      BY <2>1, <2>2, <3>2, <3>4
  <2> QED
    BY <2>3, <2>4
<1> QED
  BY <1>1

\* The part of the sum that is a's.
Part(v, S, a) == IF a \in S THEN v[a] ELSE 0

\* The parts of a and b, and the rest.
LEMMA TotalParts ==
  ASSUME NEW S, IsFiniteSet(S), NEW v, \A x \in S : v[x] \in Int, NEW a, NEW b, a # b
  PROVE  /\ Total(v, S) = Part(v, S, a) + Part(v, S, b) + Total(v, S \ {a, b})
         /\ Total(v, S \ {a, b}) \in Int /\ Part(v, S, a) \in Int /\ Part(v, S, b) \in Int
<1>1. ASSUME NEW T, T \subseteq S, NEW c
      PROVE  /\ Total(v, T) = Part(v, T, c) + Total(v, T \ {c})
             /\ Total(v, T \ {c}) \in Int /\ Part(v, T, c) \in Int
  <2>1. IsFiniteSet(T) /\ IsFiniteSet(T \ {c})
    BY <1>1, FS_Subset
  <2>2. Total(v, T \ {c}) \in Int /\ Part(v, T, c) \in Int
    BY <1>1, <2>1, TotalType DEF Part
  <2>3. CASE c \in T
    BY <1>1, <2>1, <2>2, <2>3, TotalStep DEF Part
  <2>4. CASE c \notin T
    <3>1. PICK n \in Int : n = Total(v, T \ {c})
      BY <2>2
    <3>2. T \ {c} = T
      BY <2>4
    <3>3. Total(v, T) = n
      BY <3>1, <3>2
    <3>4. Part(v, T, c) = 0
      BY <2>4 DEF Part
    <3> QED
      BY <3>1, <3>3, <3>4
  <2> QED
    BY <2>2, <2>3, <2>4
<1>2. /\ Total(v, S) = Part(v, S, a) + Total(v, S \ {a})
      /\ Total(v, S \ {a}) \in Int /\ Part(v, S, a) \in Int
  BY <1>1
<1>3. /\ Total(v, S \ {a}) = Part(v, S \ {a}, b) + Total(v, (S \ {a}) \ {b})
      /\ Total(v, (S \ {a}) \ {b}) \in Int /\ Part(v, S \ {a}, b) \in Int
  BY <1>1
<1>4. (S \ {a}) \ {b} = S \ {a, b}
  OBVIOUS
<1>5. Part(v, S \ {a}, b) = Part(v, S, b)
  BY DEF Part
<1>6. PICK m \in Int, n \in Int, p \in Int :
        m = Part(v, S, a) /\ n = Part(v, S, b) /\ p = Total(v, S \ {a, b})
  BY <1>2, <1>3, <1>4, <1>5
<1>7. Total(v, S) = m + (n + p)
  BY <1>2, <1>3, <1>4, <1>5, <1>6
<1> QED
  BY <1>6, <1>7

-----------------------------------------------------------------------------
(* Decimals                                                                *)

LEMMA ExpType == \A a \in Assets : exp10(Decimals[a]) \in Nat \ {0}
BY RegistryAssumption, EquivalenceAssumption DEF exp10

\* Division rounds towards zero.
LEMMA QuotientType ==
  ASSUME NEW n \in Int, NEW m \in Nat \ {0}
  PROVE  /\ Quotient(n, m) \in Int
         /\ n >= 0 => /\ Quotient(n, m) >= 0 /\ Quotient(n, m) * m <= n
                      /\ n < (Quotient(n, m) + 1) * m
         /\ n < 0 => Quotient(n, m) <= 0
<1>1. ASSUME NEW k \in Nat
      PROVE  k \div m \in Nat /\ (k \div m) * m <= k /\ k < ((k \div m) + 1) * m
  OBVIOUS
<1>2. CASE n >= 0
  BY <1>1, <1>2 DEF Quotient
<1>3. CASE n < 0
  <2>1. -n \in Nat
    BY <1>3
  <2>2. (-n) \div m \in Nat
    BY <1>1, <2>1
  <2>3. Quotient(n, m) = -((-n) \div m)
    BY <1>3 DEF Quotient
  <2> QED
    BY <1>3, <2>2, <2>3
<1> QED
  BY <1>2, <1>3

\* n units of an asset with x decimals, in whole dollars.
LEMMA RoundedDown ==
  ASSUME NEW n \in Int, NEW x \in Int, NEW e \in Nat \ {0}, e = exp10(x)
  PROVE  /\ applyDecimalsThenRound(n, x, FALSE) \in Int
         /\ n >= 0 => /\ applyDecimalsThenRound(n, x, FALSE) >= 0
                      /\ applyDecimalsThenRound(n, x, FALSE) * e <= n
                      /\ n < (applyDecimalsThenRound(n, x, FALSE) + 1) * e
         /\ n < 0 => applyDecimalsThenRound(n, x, FALSE) <= 0
<1>1. applyDecimalsThenRound(n, x, FALSE) = Quotient(n, e)
  BY DEF applyDecimalsThenRound
<1> QED
  BY <1>1, QuotientType

\* Rounding up covers the amount, by less than one too much.
LEMMA RoundedUp ==
  ASSUME NEW n \in Nat \ {0}, NEW x \in Int, NEW e \in Nat \ {0}, e = exp10(x)
  PROVE  \E r \in Nat : /\ r = applyDecimalsThenRound(n, x, TRUE)
                        /\ n <= r * e /\ (r - 1) * e < n
<1>1. PICK q : q = Quotient(n, e)
  OBVIOUS
<1>2. q \in Nat /\ q * e <= n /\ n < (q + 1) * e
  <2>1. n \in Int /\ n >= 0
    OBVIOUS
  <2>2. q \in Int /\ q >= 0 /\ q * e <= n /\ n < (q + 1) * e
    BY <1>1, <2>1, QuotientType
  <2> QED
    BY <2>2
<1>3. q * e \in Nat
  BY <1>2
<1>4. CASE q * e < n
  <2>1. PICK r \in Nat : r = q + 1
    BY <1>2
  <2>2. applyDecimalsThenRound(n, x, TRUE) = r
    BY <1>1, <1>4, <2>1 DEF applyDecimalsThenRound
  <2>3. r - 1 = q
    BY <1>2, <2>1
  <2>4. n <= r * e
    BY <1>2, <1>3, <2>1
  <2>5. (r - 1) * e < n
    BY <1>4, <2>3
  <2> QED
    BY <2>2, <2>4, <2>5
<1>5. CASE q * e = n
  <2>1. applyDecimalsThenRound(n, x, TRUE) = q
    BY <1>1, <1>5 DEF applyDecimalsThenRound
  <2>2. (q - 1) * e = q * e - e
    BY <1>2
  <2>3. (q - 1) * e < n /\ n <= q * e
    BY <1>2, <1>3, <1>5, <2>2
  <2> QED
    BY <1>2, <2>1, <2>3
<1>6. q * e < n \/ q * e = n
  BY <1>2, <1>3
<1> QED
  BY <1>4, <1>5, <1>6

LEMMA MinOfTwo ==
  ASSUME NEW x \in Int, NEW y \in Int
  PROVE  Min({x, y}) \in {x, y} /\ Min({x, y}) <= x /\ Min({x, y}) <= y
<1>1. \E z \in {x, y} : \A w \in {x, y} : z <= w
  <2>1. CASE x <= y
    BY <2>1
  <2>2. CASE y <= x
    BY <2>2
  <2> QED
    BY <2>1, <2>2
<1> QED
  BY <1>1 DEF Min

LEMMA MinOfThree ==
  ASSUME NEW x \in Int, NEW y \in Int, NEW z \in Int
  PROVE  Min({x, y, z}) \in Int
<1>1. \E v \in {x, y, z} : \A w \in {x, y, z} : v <= w
  <2>1. CASE x <= y /\ x <= z
    BY <2>1
  <2>2. CASE y <= x /\ y <= z
    BY <2>2
  <2>3. CASE z <= x /\ z <= y
    BY <2>3
  <2> QED
    BY <2>1, <2>2, <2>3
<1> QED
  BY <1>1 DEF Min

-----------------------------------------------------------------------------
(* One dollar of any currency                                              *)

\* Units of the asset with the most decimals that make one unit of a.
Scale(a) == exp10(Precision - Decimals[a])

\* One cancels out.
LEMMA Cancel == \A x, y \in Nat \ {0} : x = x * y => y = 1
<1> SUFFICES ASSUME NEW x \in Nat \ {0}, NEW y \in Nat \ {0}, x = x * y, y # 1 PROVE FALSE
  OBVIOUS
<1>1. y >= 2
  OBVIOUS
<1>2. x * y >= x * 2
  BY <1>1
<1> QED
  BY <1>2

\* exp10 is the power of ten, for what lies between two assets' decimals.
LEMMA ExpIsPower ==
  ASSUME NEW a \in Assets, NEW b \in Assets, Decimals[a] >= Decimals[b]
  PROVE  /\ exp10(Decimals[a] - Decimals[b]) = 10 ^ (Decimals[a] - Decimals[b])
         /\ exp10(Decimals[a] - Decimals[b]) \in Nat \ {0}
         /\ exp10(Decimals[a]) = 10 ^ Decimals[a]
         /\ exp10(Decimals[a]) = exp10(Decimals[b]) * exp10(Decimals[a] - Decimals[b])
<1>1. 10 ^ 0 = 1
  <2>1. PICK x : x = 10 ^ Decimals[a]
    OBVIOUS
  <2>2. PICK y : y = 10 ^ 0
    OBVIOUS
  <2>3. Decimals[a] \in Nat /\ Decimals[a] - Decimals[a] = 0 /\ Decimals[a] >= Decimals[a]
    BY RegistryAssumption
  <2>4. x \in Nat \ {0} /\ y \in Nat \ {0} /\ x = x * y
    BY <2>1, <2>2, <2>3, EquivalenceAssumption
  <2> QED
    BY <2>2, <2>4, Cancel
<1>2. ASSUME NEW n \in Nat PROVE exp10(n) = 10 ^ n
  <2>1. CASE n = 0
    BY <1>1, <2>1 DEF exp10
  <2>2. CASE n > 0
    BY <2>2 DEF exp10
  <2> QED
    BY <2>1, <2>2
<1>3. PICK k \in Nat : k = Decimals[a] - Decimals[b]
  BY RegistryAssumption
<1>4. exp10(k) = 10 ^ k /\ exp10(Decimals[a]) = 10 ^ Decimals[a] /\ exp10(Decimals[b]) = 10 ^ Decimals[b]
  BY <1>2, RegistryAssumption
<1>5. 10 ^ k \in Nat \ {0} /\ 10 ^ Decimals[a] = 10 ^ Decimals[b] * 10 ^ k
  BY <1>3, EquivalenceAssumption
<1> QED
  BY <1>3, <1>4, <1>5

\* Some asset has the most decimals.
LEMMA MostDecimals ==
  \E c \in Assets : Precision = Decimals[c] /\ \A a \in Assets : Decimals[a] <= Decimals[c]
<1> DEFINE Most(s, c) == c \in s /\ \A a \in s : Decimals[a] <= Decimals[c]
           B == {s \in SUBSET Assets : s # {} /\ ~ \E c \in s : Most(s, c)}
<1>1. ASSUME B # {} PROVE FALSE
  <2>1. PICK s \in B : \A x \in s : s \ {x} \notin B
    BY <1>1, SmallestSet, RegistryAssumption
  <2>2. PICK x \in s : s \ {x} \notin B
    BY <2>1
  <2>3. \A a \in s : Decimals[a] \in Nat
    BY RegistryAssumption
  <2>4. CASE s \ {x} = {}
    <3>1. Most(s, x)
      BY <2>3, <2>4
    <3> QED
      BY <2>1, <3>1
  <2>5. CASE s \ {x} # {}
    <3>1. PICK c \in s : \A a \in s \ {x} : Decimals[a] <= Decimals[c]
      BY <2>1, <2>2, <2>5
    <3>2. Most(s, c) \/ Most(s, x)
      BY <2>3, <3>1
    <3> QED
      BY <2>1, <3>1, <3>2
  <2> QED
    BY <2>4, <2>5
<1>2. PICK c \in Assets : \A a \in Assets : Decimals[a] <= Decimals[c]
  BY <1>1, RegistryAssumption
<1>3. Precision = Decimals[c]
  <2> DEFINE N == {Decimals[a] : a \in Assets}
  <2>1. N \subseteq Nat /\ Decimals[c] \in N /\ \A y \in N : Decimals[c] >= y
    BY <1>2, RegistryAssumption
  <2> HIDE DEF N
  <2>2. PICK m : m = CHOOSE x \in N : \A y \in N : x >= y
    OBVIOUS
  <2>3. m \in N /\ \A y \in N : m >= y
    BY <2>1, <2>2
  <2>4. m >= Decimals[c] /\ Decimals[c] >= m /\ m \in Nat /\ Decimals[c] \in Nat
    BY <2>1, <2>3
  <2>5. Precision = m
    BY <2>2 DEF Precision, Max, N
  <2> QED
    BY <2>4, <2>5
<1> QED
  BY <1>2, <1>3

\* One dollar is worth the same in every asset that costs one.
LEMMA ScaleFacts ==
  \E e \in Nat \ {0} :
    \A a \in Assets : /\ Scale(a) \in Nat \ {0} /\ Scale(a) = 10 ^ (Precision - Decimals[a])
                      /\ exp10(Decimals[a]) * Scale(a) = e
<1>1. PICK c \in Assets : Precision = Decimals[c] /\ \A a \in Assets : Decimals[a] <= Decimals[c]
  BY MostDecimals
<1>2. exp10(Decimals[c]) \in Nat \ {0}
  BY ExpType
<1>3. ASSUME NEW a \in Assets
      PROVE  /\ Scale(a) \in Nat \ {0} /\ Scale(a) = 10 ^ (Precision - Decimals[a])
             /\ exp10(Decimals[a]) * Scale(a) = exp10(Decimals[c])
  <2>1. Decimals[c] >= Decimals[a]
    BY <1>1, RegistryAssumption
  <2> QED
    BY <1>1, <2>1, ExpIsPower DEF Scale
<1> QED
  BY <1>2, <1>3

\* And so is what is left of a dollar at the precision of another asset.
LEMMA ScaleDown ==
  ASSUME NEW a \in Assets, NEW b \in Assets, Decimals[a] >= Decimals[b]
  PROVE  exp10(Decimals[a] - Decimals[b]) * Scale(a) = Scale(b)
<1>1. PICK k \in Nat \ {0}, x \in Nat \ {0}, y \in Nat \ {0} :
        k = exp10(Decimals[a] - Decimals[b]) /\ x = exp10(Decimals[a]) /\ y = exp10(Decimals[b])
  BY ExpIsPower, ExpType
<1>2. x = y * k
  BY <1>1, ExpIsPower
<1>3. PICK p \in Nat \ {0}, q \in Nat \ {0} : p = Scale(a) /\ q = Scale(b)
  BY ScaleFacts
<1>4. x * p = y * q
  BY <1>1, <1>3, ScaleFacts
<1>5. y * (k * p) = y * q
  <2>1. (y * k) * p = y * (k * p)
    OBVIOUS
  <2> QED
    BY <1>2, <1>4, <2>1
<1>6. k * p = q
  <2>1. \A m, n \in Nat : y * m = y * n => m = n
    OBVIOUS
  <2>2. k * p \in Nat /\ q \in Nat
    OBVIOUS
  <2> QED
    BY <1>5, <2>1, <2>2
<1> QED
  BY <1>1, <1>3, <1>6

-----------------------------------------------------------------------------
(* Balances                                                                *)

LEMMA AddType ==
  ASSUME NEW bals \in Balances, NEW a \in Assets, NEW n \in Int
  PROVE  /\ AddAmount(bals, a, n) \in Balances /\ AddAmount(bals, a, n)[a] = bals[a] + n
         /\ SubAmount(bals, a, n) \in Balances /\ SubAmount(bals, a, n)[a] = bals[a] - n
         /\ \A c \in Assets \ {a} : /\ AddAmount(bals, a, n)[c] = bals[c]
                                   /\ SubAmount(bals, a, n)[c] = bals[c]
BY DEF AddAmount, SubAmount, Balances

\* An amount is moved from b to a.
Moved(bals, b, loss, a, gain) == AddAmount(SubAmount(bals, b, loss), a, gain)

LEMMA MovedType ==
  ASSUME NEW bals \in Balances, NEW a \in Assets, NEW b \in Assets, a # b,
         NEW loss \in Int, NEW gain \in Int
  PROVE  /\ Moved(bals, b, loss, a, gain) \in Balances
         /\ Moved(bals, b, loss, a, gain)[a] = bals[a] + gain
         /\ Moved(bals, b, loss, a, gain)[b] = bals[b] - loss
         /\ \A c \in Assets \ {a, b} : Moved(bals, b, loss, a, gain)[c] = bals[c]
<1>1. PICK less \in Balances :
        /\ less = SubAmount(bals, b, loss) /\ less[b] = bals[b] - loss
        /\ \A c \in Assets \ {b} : less[c] = bals[c]
  BY AddType
<1>2. /\ AddAmount(less, a, gain) \in Balances /\ AddAmount(less, a, gain)[a] = less[a] + gain
      /\ \A c \in Assets \ {a} : AddAmount(less, a, gain)[c] = less[c]
  BY AddType
<1> QED
  BY <1>1, <1>2 DEF Moved

\* Moving the same in Owned and in SSEQ keeps them explained.
LEMMA MovedExplains ==
  ASSUME TypeOK, SseqExplainsOwned, NEW a \in Assets, NEW b \in Assets, a # b,
         NEW loss \in Int, NEW gain \in Int,
         owned' = Moved(owned, b, loss, a, gain), sseq' = Moved(sseq, b, loss, a, gain),
         net' = net
  PROVE  owned' \in Balances /\ sseq' \in Balances /\ SseqExplainsOwned'
<1>1. owned \in Balances /\ sseq \in Balances /\ net \in Balances
  BY DEF TypeOK
<1>2. /\ owned' \in Balances /\ sseq' \in Balances
      /\ owned'[a] = owned[a] + gain /\ owned'[b] = owned[b] - loss
      /\ sseq'[a] = sseq[a] + gain /\ sseq'[b] = sseq[b] - loss
      /\ \A c \in Assets \ {a, b} : owned'[c] = owned[c] /\ sseq'[c] = sseq[c]
  BY <1>1, MovedType
<1>3. ASSUME NEW c \in Assets PROVE owned'[c] = net'[c] + sseq'[c]
  <2>1. owned[c] = net[c] + sseq[c] /\ owned[c] \in Int /\ net[c] \in Int /\ sseq[c] \in Int
    BY <1>1 DEF SseqExplainsOwned, Balances
  <2> QED
    BY <1>2, <2>1
<1> QED
  BY <1>2, <1>3 DEF SseqExplainsOwned

-----------------------------------------------------------------------------
(* The inductive invariant                                                 *)

\* Within the loop: what is missing is covered by the dollars still to convert,
\* by less than one too much, and assets that were looked at have no dollar left.
Filling ==
  LET e == exp10(Decimals[target])
      missing == required - owned[target]
      left == toConvert - converted
  IN  /\ missing <= left * e
      /\ (left - 1) * e < missing
      /\ converted < toConvert =>
           \A b \in Currencies \ {target} : b \notin todo => owned[b] < exp10(Decimals[b])

Inv == TypeOK /\ SseqExplainsOwned /\ (pc = "activate" => Filling)

-----------------------------------------------------------------------------
(* The steps                                                               *)

LEMMA InitInv == Init => Inv
<1> SUFFICES ASSUME Init PROVE Inv
  OBVIOUS
<1>1. owned \in Balances /\ net \in Balances /\ sseq = Zero /\ sseq \in Balances
  BY EquivalenceAssumption DEF Init, Zero, Balances
<1>2. TypeOK
  BY <1>1, EquivalenceAssumption DEF Init, TypeOK, Zero
<1>3. SseqExplainsOwned
  BY <1>1 DEF Init, SseqExplainsOwned, Zero, Balances
<1> QED
  BY <1>2, <1>3 DEF Init, Inv

\* The services credit and debit what is owned and what would be owned alike.
LEMMA RequestSteps ==
  ASSUME Inv, NEW a \in Assets, NEW n \in Amounts,
         Credit(a, n) \/ Debit(a, n) \/ Lock(a, n) \/ Unlock(a, n)
  PROVE  Inv'
<1>1. /\ n \in Nat /\ owned \in Balances /\ net \in Balances /\ sseq \in Balances
      /\ locked \in [Assets -> Nat] /\ locked \in Balances
  BY EquivalenceAssumption DEF Inv, TypeOK, Balances
<1>2. /\ pc' = pc /\ pc = "idle" /\ requests' \in 0 .. MaxRequests
      /\ UNCHANGED <<sseq, target, required, toConvert, converted, todo>>
  BY EquivalenceAssumption DEF Credit, Debit, Lock, Unlock, Request, request, Inv, TypeOK
<1>3. locked' \in [Assets -> Nat]
  <2>1. CASE Credit(a, n) \/ Debit(a, n)
    BY <1>1, <2>1 DEF Credit, Debit
  <2>2. CASE Lock(a, n)
    BY <1>1, <2>2 DEF Lock, AddAmount
  <2>3. CASE Unlock(a, n)
    <3>1. locked[a] \in Nat /\ locked[a] - n >= 0 /\ locked' = SubAmount(locked, a, n)
      BY <1>1, <2>3 DEF Unlock, CanSub, HasAtLeast
    <3>2. locked' = [locked EXCEPT ![a] = locked[a] + (-n)]
      BY <3>1 DEF SubAmount, AddAmount
    <3>3. locked[a] + (-n) \in Nat
      BY <1>1, <3>1
    <3> QED
      BY <1>1, <3>2, <3>3
  <2> QED
    BY <2>1, <2>2, <2>3
<1>4. PICK m \in Int : owned' = AddAmount(owned, a, m) /\ net' = AddAmount(net, a, m)
  <2>1. CASE Credit(a, n)
    BY <1>1, <2>1 DEF Credit
  <2>2. CASE Debit(a, n)
    BY <1>1, <2>2 DEF Debit, SubAmount
  <2>3. CASE Lock(a, n) \/ Unlock(a, n)
    <3>1. AddAmount(owned, a, 0) = owned /\ AddAmount(net, a, 0) = net
      BY <1>1 DEF AddAmount, Balances
    <3> QED
      BY <2>3, <3>1 DEF Lock, Unlock
  <2> QED
    BY <2>1, <2>2, <2>3
<1>5. /\ owned' \in Balances /\ net' \in Balances
      /\ owned'[a] = owned[a] + m /\ net'[a] = net[a] + m
      /\ \A c \in Assets \ {a} : owned'[c] = owned[c] /\ net'[c] = net[c]
  <2>1. ASSUME NEW bals \in Balances, NEW new, new = AddAmount(bals, a, m)
        PROVE  /\ new \in Balances /\ new[a] = bals[a] + m
               /\ \A c \in Assets \ {a} : new[c] = bals[c]
    BY <2>1, AddType
  <2> QED
    BY <1>1, <1>4, <2>1
<1>6. TypeOK'
  <2>1. TypeOK
    BY DEF Inv
  <2>2. sseq' \in Balances /\ pc' \in {"idle", "activate"} /\ required' \in Nat
    BY <1>2, <2>1 DEF TypeOK
  <2>3. /\ target' \in Assets /\ todo' \subseteq Assets
        /\ toConvert' \in Nat /\ converted' \in 0 .. toConvert'
    BY <1>2, <2>1 DEF TypeOK
  <2> QED
    BY <1>2, <1>3, <1>5, <2>2, <2>3 DEF TypeOK
<1>7. ASSUME NEW c \in Assets PROVE owned'[c] = net'[c] + sseq'[c]
  <2>1. owned[c] = net[c] + sseq[c] /\ owned[c] \in Int /\ net[c] \in Int /\ sseq[c] \in Int
    BY <1>1 DEF Inv, SseqExplainsOwned, Balances
  <2> QED
    BY <1>2, <1>5, <2>1
<1> QED
  BY <1>2, <1>6, <1>7 DEF Inv, SseqExplainsOwned

LEMMA ActivateStep ==
  ASSUME Inv, NEW a \in Assets, NEW n \in Amounts, Activate(a, n)
  PROVE  Inv'
<1>1. /\ a \in Currencies /\ pc' = "activate" /\ target' = a /\ required' = n
      /\ toConvert' = applyDecimalsThenRound(n - owned[a], Decimals[a], TRUE)
      /\ converted' = 0 /\ todo' = {b \in Assets : owned[b] > 0}
      /\ UNCHANGED <<owned, locked, sseq, requests, net>>
  BY DEF Activate
<1>2. n \in Nat /\ \A b \in Assets : owned[b] \in Int
  BY EquivalenceAssumption DEF Inv, TypeOK, Balances
<1>3. n - owned[a] \in Nat \ {0}
  BY <1>2 DEF Activate, HasAtLeast
<1>4. PICK e \in Nat \ {0} : e = exp10(Decimals[a])
  BY ExpType
<1>5. /\ toConvert' \in Nat /\ n - owned[a] <= toConvert' * e
      /\ (toConvert' - 1) * e < n - owned[a]
  <2>1. Decimals[a] \in Int
    BY RegistryAssumption
  <2>2. PICK m \in Nat \ {0} : m = n - owned[a]
    BY <1>3
  <2>3. PICK r \in Nat : r = toConvert' /\ m <= r * e /\ (r - 1) * e < m
    BY <1>1, <1>4, <2>1, <2>2, RoundedUp
  <2> QED
    BY <2>2, <2>3
<1>6. toConvert' \in Nat /\ toConvert' - converted' = toConvert' /\ converted' \in 0 .. toConvert'
  <2>1. toConvert' \in Nat
    BY <1>5
  <2>2. converted' = 0
    BY <1>1
  <2>3. \A k \in Nat : k - 0 = k /\ 0 \in 0 .. k
    OBVIOUS
  <2>4. toConvert' - 0 = toConvert' /\ 0 \in 0 .. toConvert'
    BY <2>1, <2>3
  <2> QED
    BY <2>1, <2>2, <2>4
<1>7. TypeOK'
  <2>1. todo' \subseteq Assets /\ target' \in Assets
    BY <1>1
  <2> QED
    BY <1>1, <1>2, <1>6, <2>1 DEF Inv, TypeOK
<1>8. Filling'
  <2>1. ASSUME NEW b \in Currencies, b \notin todo' PROVE owned'[b] < exp10(Decimals[b])
    <3>1. b \in Assets /\ owned[b] <= 0 /\ owned[b] \in Int
      BY <1>1, <1>2, <2>1, RegistryAssumption
    <3> QED
      BY <1>1, <3>1, ExpType
  <2> QED
    BY <1>1, <1>4, <1>5, <1>6, <2>1 DEF Filling
<1>9. SseqExplainsOwned'
  BY <1>1 DEF Inv, SseqExplainsOwned
<1> QED
  BY <1>7, <1>8, <1>9 DEF Inv

\* The dollars of b: as many as there are, or as many as are still to convert.
LEMMA DollarsType ==
  ASSUME Inv, pc = "activate", NEW b \in Assets, converted < toConvert
  PROVE  /\ Dollars(b) \in Int /\ Dollars(b) <= toConvert - converted
         /\ Dollars(b) < toConvert - converted \/ Dollars(b) <= 0 =>
              owned[b] < (Dollars(b) + 1) * exp10(Decimals[b]) \/ owned[b] < exp10(Decimals[b])
         /\ Dollars(b) > 0 => Dollars(b) * exp10(Decimals[b]) \in Nat
                              /\ Dollars(b) * exp10(Decimals[b]) <= owned[b]
<1>1. PICK e \in Nat \ {0} : e = exp10(Decimals[b])
  BY ExpType
<1>2. PICK q : q = applyDecimalsThenRound(owned[b], Decimals[b], FALSE)
  OBVIOUS
<1>3. owned[b] \in Int /\ toConvert \in Nat /\ converted \in Nat
  BY DEF Inv, TypeOK, Balances
<1>4. /\ q \in Int
      /\ owned[b] < 0 => q <= 0
      /\ owned[b] >= 0 => q >= 0 /\ q * e <= owned[b] /\ owned[b] < (q + 1) * e
  <2>1. Decimals[b] \in Int
    BY RegistryAssumption
  <2> QED
    BY <1>1, <1>2, <1>3, <2>1, RoundedDown
<1>5. PICK left \in Nat \ {0} : left = toConvert - converted
  BY <1>3
<1>6. PICK d \in Int : d = Dollars(b) /\ d \in {q, left} /\ d <= q /\ d <= left
  <2>1. Dollars(b) = Min({q, left})
    BY <1>2, <1>5 DEF Dollars
  <2>2. q \in Int /\ left \in Int
    BY <1>4
  <2> QED
    BY <2>1, <2>2, MinOfTwo
<1>7. d < left \/ d <= 0 => owned[b] < (d + 1) * e \/ owned[b] < e
  <2>1. CASE owned[b] < 0
    BY <1>3, <2>1
  <2>2. CASE owned[b] >= 0
    <3>1. d < left \/ d <= 0 => d = q
      BY <1>5, <1>6
    <3> QED
      BY <1>4, <2>2, <3>1
  <2> QED
    BY <1>3, <2>1, <2>2
<1>8. d > 0 => d * e \in Nat /\ d * e <= owned[b]
  <2> SUFFICES ASSUME d > 0 PROVE d * e \in Nat /\ d * e <= owned[b]
    OBVIOUS
  <2>1. q > 0 /\ owned[b] >= 0 /\ q * e <= owned[b] /\ q \in Nat /\ d \in Nat
    BY <1>3, <1>4, <1>6
  <2>2. d * e <= q * e /\ d * e \in Nat /\ q * e \in Nat
    BY <1>6, <2>1
  <2> QED
    BY <1>3, <2>1, <2>2
<1> QED
  BY <1>1, <1>5, <1>6, <1>7, <1>8

LEMMA SkipStep ==
  ASSUME Inv, NEW b \in Assets, SkipAsset(b)
  PROVE  Inv'
<1>1. /\ pc = "activate" /\ converted < toConvert /\ todo' = todo \ {b}
      /\ Skipped(b) \/ ~CanSub(owned, b, Dollars(b) * exp10(Decimals[b]))
      /\ UNCHANGED <<owned, locked, sseq, pc, target, required, toConvert, converted, requests, net>>
  BY DEF SkipAsset
<1>2. TypeOK' /\ SseqExplainsOwned'
  BY <1>1 DEF Inv, TypeOK, SseqExplainsOwned
<1>3. b \in Currencies \ {target} => owned[b] < exp10(Decimals[b])
  <2>1. PICK e \in Nat \ {0} : e = exp10(Decimals[b])
    BY ExpType
  <2>2. PICK d \in Int : d = Dollars(b)
    BY <1>1, DollarsType
  <2>3. owned[b] \in Int
    BY DEF Inv, TypeOK, Balances
  <2>4. CASE d <= 0
    <3>1. owned[b] < (d + 1) * e \/ owned[b] < e
      BY <1>1, <2>1, <2>2, <2>4, DollarsType
    <3>2. (d + 1) * e <= e
      BY <2>4
    <3> QED
      BY <2>1, <2>3, <3>1, <3>2
  <2>5. CASE d > 0
    <3>1. d * e \in Nat /\ d * e <= owned[b]
      BY <1>1, <2>1, <2>2, <2>5, DollarsType
    <3>2. CanSub(owned, b, d * e)
      BY <2>3, <3>1 DEF CanSub, HasAtLeast
    <3> QED
      BY <1>1, <2>1, <2>2, <2>5, <3>2 DEF Skipped
  <2> QED
    BY <2>4, <2>5
<1>4. Filling'
  BY <1>1, <1>3 DEF Inv, Filling
<1> QED
  BY <1>2, <1>4 DEF Inv

LEMMA ConvertStep ==
  ASSUME Inv, NEW b \in Assets, ConvertAsset(b)
  PROVE  Inv'
<1>1. PICK d : d = Dollars(b)
  OBVIOUS
<1>2. PICK e \in Nat \ {0}, f \in Nat \ {0} : e = exp10(Decimals[target]) /\ f = exp10(Decimals[b])
  BY ExpType DEF Inv, TypeOK
<1>3. /\ pc = "activate" /\ converted < toConvert /\ b \in Currencies /\ b # target /\ d > 0
      /\ owned' = Moved(owned, b, d * f, target, d * e)
      /\ sseq' = Moved(sseq, b, d * f, target, d * e)
      /\ converted' = converted + d /\ todo' = todo \ {b}
      /\ UNCHANGED <<locked, pc, target, required, toConvert, requests, net>>
  <2>1. d \in Int
    BY <1>1, DollarsType DEF ConvertAsset
  <2> QED
    BY <1>1, <1>2, <2>1 DEF ConvertAsset, Skipped, Gain, Loss, Moved
<1>4. /\ d \in Nat \ {0} /\ d <= toConvert - converted
      /\ d < toConvert - converted => owned[b] < (d + 1) * f \/ owned[b] < f
      /\ d * f \in Nat /\ d * f <= owned[b] /\ d * e \in Nat
  <2>1. /\ d \in Int /\ d <= toConvert - converted
        /\ d < toConvert - converted => owned[b] < (d + 1) * f \/ owned[b] < f
        /\ d * f \in Nat /\ d * f <= owned[b]
    BY <1>1, <1>2, <1>3, DollarsType
  <2> QED
    BY <1>3, <2>1
<1>5. /\ owned' \in Balances /\ sseq' \in Balances /\ SseqExplainsOwned'
  BY <1>3, <1>4, MovedExplains DEF Inv, TypeOK
<1>6. toConvert \in Nat /\ converted \in Nat /\ required \in Nat /\ target \in Assets /\ owned \in Balances
  BY DEF Inv, TypeOK
<1>7. TypeOK'
  BY <1>3, <1>4, <1>5, <1>6 DEF Inv, TypeOK
<1>8. /\ owned'[target] = owned[target] + d * e /\ owned'[b] = owned[b] - d * f
      /\ \A c \in Assets \ {target, b} : owned'[c] = owned[c]
      /\ \A c \in Assets : owned[c] \in Int
  BY <1>3, <1>4, <1>6, MovedType DEF Balances
<1>9. PICK left \in Nat : left = toConvert - converted
  BY <1>3, <1>6
<1>10. PICK missing \in Int : missing = required - owned[target]
  BY <1>6, <1>8
<1>11. missing <= left * e /\ (left - 1) * e < missing
  <2>1. Filling
    BY <1>3 DEF Inv
  <2> QED
    BY <1>2, <1>9, <1>10, <2>1 DEF Filling
<1>12. /\ toConvert' - converted' = left - d /\ required' - owned'[target'] = missing - d * e
  <2>1. PICK g \in Int : g = d * e
    BY <1>4
  <2>2. d \in Int
    BY <1>4
  <2>3. owned'[target'] = owned[target] + g /\ owned[target] \in Int
    BY <1>3, <1>6, <1>8, <2>1
  <2>4. toConvert' - converted' = left - d
    BY <1>3, <1>6, <1>9, <2>2
  <2>5. required' - owned'[target'] = missing - g
    BY <1>3, <1>6, <1>10, <2>3
  <2> QED
    BY <2>1, <2>4, <2>5
<1>13. missing - d * e <= (left - d) * e /\ (left - d - 1) * e < missing - d * e
  <2>1. (left - d) * e = left * e - d * e /\ (left - d - 1) * e = (left - 1) * e - d * e
    BY <1>4
  <2>2. left * e \in Int /\ d * e \in Int /\ (left - 1) * e \in Int
    BY <1>4
  <2> QED
    BY <1>11, <2>1, <2>2
<1>14. ASSUME converted' < toConvert', NEW c \in Currencies \ {target}, c \notin todo'
       PROVE  owned'[c] < exp10(Decimals[c])
  <2>1. CASE c = b
    <3>1. d < toConvert - converted
      BY <1>3, <1>4, <1>6, <1>14
    <3>2. owned[b] < (d + 1) * f \/ owned[b] < f
      BY <1>4, <3>1
    <3>3. (d + 1) * f = d * f + f
      BY <1>4
    <3>4. owned[b] - d * f < f
      BY <1>4, <1>8, <3>2, <3>3
    <3> QED
      BY <1>2, <1>8, <2>1, <3>4
  <2>2. CASE c # b
    <3>1. c \in Assets \ {target, b} /\ c \notin todo
      BY <1>3, <1>14, <2>2, RegistryAssumption
    <3> QED
      BY <1>3, <1>8, <1>14, <3>1 DEF Inv, Filling
  <2> QED
    BY <2>1, <2>2
<1>15. Filling'
  BY <1>2, <1>3, <1>12, <1>13, <1>14 DEF Filling
<1> QED
  BY <1>5, <1>7, <1>15 DEF Inv

LEMMA ReturnStep ==
  ASSUME Inv, ActivateReturns
  PROVE  Inv'
BY DEF Inv, TypeOK, SseqExplainsOwned, ActivateReturns

LEMMA BackType ==
  ASSUME TypeOK, NEW a \in Assets, NEW b \in Assets
  PROVE  ToConvertBack(a, b) \in Int /\ LossBack(a, b) \in Int /\ GainBack(a, b) \in Int
<1>1. PICK x \in Nat, y \in Nat : x = Decimals[a] /\ y = Decimals[b]
  BY RegistryAssumption
<1>2. PICK least \in {x, y} : least = Min({x, y}) /\ least <= x /\ least <= y
  BY MinOfTwo
<1>3. exp10(x - least) \in Nat \ {0} /\ exp10(y - least) \in Nat \ {0}
  <2>1. CASE least = x
    BY <1>1, <1>2, <2>1, EquivalenceAssumption DEF exp10
  <2>2. CASE least = y
    BY <1>1, <1>2, <2>2, EquivalenceAssumption DEF exp10
  <2> QED
    BY <2>1, <2>2
<1>4. owned[a] \in Int /\ sseq[a] \in Int /\ -sseq[b] \in Int
  BY DEF TypeOK, Balances
<1>5. /\ applyDecimalsThenRound(owned[a], x - least, FALSE) \in Int
      /\ applyDecimalsThenRound(sseq[a], x - least, FALSE) \in Int
      /\ applyDecimalsThenRound(-sseq[b], y - least, FALSE) \in Int
  <2>1. x - least \in Int /\ y - least \in Int
    BY <1>2
  <2> QED
    BY <1>3, <1>4, <2>1, RoundedDown
<1>6. ToConvertBack(a, b) \in Int
  BY <1>1, <1>2, <1>5, MinOfThree DEF ToConvertBack
<1> QED
  BY <1>1, <1>2, <1>3, <1>6 DEF LossBack, GainBack

LEMMA CleanupStep ==
  ASSUME Inv, NEW a \in Assets, NEW b \in Assets, Cleanup(a, b)
  PROVE  Inv'
<1>1. /\ pc = "idle" /\ sseq[a] > 0 /\ sseq[b] < 0
      /\ owned' = Moved(owned, a, LossBack(a, b), b, GainBack(a, b))
      /\ sseq' = Moved(sseq, a, LossBack(a, b), b, GainBack(a, b))
      /\ UNCHANGED <<locked, pc, target, required, toConvert, converted, todo, requests, net>>
  BY DEF Cleanup, Moved, request
<1>2. a # b
  BY <1>1 DEF Inv, TypeOK, Balances
<1>3. LossBack(a, b) \in Int /\ GainBack(a, b) \in Int
  BY BackType DEF Inv
<1>4. owned' \in Balances /\ sseq' \in Balances /\ SseqExplainsOwned'
  BY <1>1, <1>2, <1>3, MovedExplains DEF Inv
<1>5. TypeOK'
  BY <1>1, <1>4 DEF Inv, TypeOK
<1> QED
  BY <1>1, <1>4, <1>5 DEF Inv

-----------------------------------------------------------------------------
(* The theorem                                                             *)

LEMMA NextInv == Inv /\ [Next]_vars => Inv'
<1> SUFFICES ASSUME Inv, [Next]_vars PROVE Inv'
  OBVIOUS
<1>1. CASE UNCHANGED vars
  <2>1. UNCHANGED <<owned, locked, sseq, pc, target, required, toConvert, converted, todo,
                    requests, net>>
    BY <1>1 DEF vars, request
  <2> QED
    BY <2>1 DEF Inv, TypeOK, SseqExplainsOwned, Filling
<1>2. CASE ActivateReturns
  BY <1>2, ReturnStep
<1>3. ASSUME NEW a \in Assets, SkipAsset(a) \/ ConvertAsset(a) PROVE Inv'
  BY <1>3, SkipStep, ConvertStep
<1>4. ASSUME NEW a \in Assets, NEW n \in Amounts,
             Credit(a, n) \/ Debit(a, n) \/ Lock(a, n) \/ Unlock(a, n) \/ Activate(a, n)
      PROVE  Inv'
  BY <1>4, RequestSteps, ActivateStep
<1>5. ASSUME NEW a \in Assets, NEW b \in Assets, Cleanup(a, b) PROVE Inv'
  BY <1>5, CleanupStep
<1> QED
  BY <1>1, <1>2, <1>3, <1>4, <1>5 DEF Next

\* When the loop ends, the balance is filled or no dollar is left, and it is
\* never overfilled by a dollar.
LEMMA InvFills == Inv => ActivateFills
<1> SUFFICES ASSUME Inv, pc = "activate", Finished PROVE ActivateFills
  BY DEF ActivateFills
<1>1. PICK e \in Nat \ {0} : e = exp10(Decimals[target])
  BY ExpType DEF Inv, TypeOK
<1>2. /\ toConvert \in Nat /\ converted \in Nat /\ converted <= toConvert
      /\ required \in Nat /\ owned[target] \in Int
  BY DEF Inv, TypeOK, Balances
<1>3. PICK left \in Nat : left = toConvert - converted
  BY <1>2
<1>4. /\ required - owned[target] <= left * e /\ (left - 1) * e < required - owned[target]
      /\ converted < toConvert =>
           \A b \in Currencies \ {target} : b \notin todo => owned[b] < exp10(Decimals[b])
  BY <1>1, <1>3 DEF Inv, Filling
<1>5. owned[target] < required + e
  <2>1. (left - 1) * e >= -e
    BY <1>3
  <2>2. (left - 1) * e \in Int
    BY <1>3
  <2> QED
    BY <1>2, <1>4, <2>1, <2>2
<1>6. CASE left = 0
  <2>1. owned[target] >= required
    BY <1>2, <1>4, <1>6
  <2> QED
    BY <1>1, <1>5, <2>1 DEF ActivateFills
<1>7. CASE left # 0
  <2>1. converted < toConvert /\ todo = {}
    BY <1>2, <1>3, <1>7 DEF Finished
  <2>2. \A b \in Currencies \ {target} : owned[b] < exp10(Decimals[b])
    BY <1>4, <2>1
  <2> QED
    BY <1>1, <1>5, <2>2 DEF ActivateFills
<1> QED
  BY <1>6, <1>7

\* For any assets and decimals: SSEQ explains the difference between what is
\* owned and what was credited and debited, and activation fills the balance as
\* far as the other stablecoins reach and no further.
THEOREM ActivationFillsAndIsExplained ==
  Spec => [](TypeOK /\ SseqExplainsOwned /\ ActivateFills)
<1>1. Init => Inv
  BY InitInv
<1>2. Inv /\ [Next]_vars => Inv'
  BY NextInv
<1>3. Inv => TypeOK /\ SseqExplainsOwned /\ ActivateFills
  BY InvFills DEF Inv
<1> QED
  BY <1>1, <1>2, <1>3, PTL DEF Spec

\* SSEQ is the exact account of what conversions moved (src/helpers/users.go:7-134).
THEOREM SseqIsExact == Spec => []SseqExplainsOwned
BY ActivationFillsAndIsExplained, PTL

\* In whatever order the map's assets come, activation takes neither too little
\* nor too much.
THEOREM ActivationFills == Spec => []ActivateFills
BY ActivationFillsAndIsExplained, PTL
-----------------------------------------------------------------------------
(* SSEQ sums to zero                                                       *)

Values(bals) == [c \in Currencies |-> bals[c] * Scale(c)]

LEMMA ValuesType ==
  ASSUME NEW bals \in Balances
  PROVE  \A c \in Currencies : Values(bals)[c] = bals[c] * Scale(c) /\ Values(bals)[c] \in Int
<1> SUFFICES ASSUME NEW c \in Currencies
             PROVE  Values(bals)[c] = bals[c] * Scale(c) /\ Values(bals)[c] \in Int
  OBVIOUS
<1>1. c \in Assets /\ bals[c] \in Int
  BY RegistryAssumption DEF Balances
<1>2. Scale(c) \in Int
  BY <1>1, ScaleFacts
<1>3. bals[c] * Scale(c) \in Int
  BY <1>1, <1>2
<1> QED
  BY <1>3 DEF Values

LEMMA CurrenciesFinite == IsFiniteSet(Currencies)
BY RegistryAssumption, FS_Subset

LEMMA ValueIsTotal == \A bals : Value(bals) = Total(Values(bals), Currencies)
BY DEF Value, SumFunction, Total, Values, Scale

\* What is moved from b to a at the same worth leaves the sum as it is.
LEMMA ValueMoved ==
  ASSUME NEW bals \in Balances, NEW a \in Currencies, NEW b \in Currencies, a # b,
         NEW loss \in Int, NEW gain \in Int, loss * Scale(b) = gain * Scale(a)
  PROVE  Value(Moved(bals, b, loss, a, gain)) = Value(bals)
<1> DEFINE C == Currencies
           R == Currencies \ {a, b}
<1>1. PICK new \in Balances :
        /\ new = Moved(bals, b, loss, a, gain)
        /\ new[a] = bals[a] + gain /\ new[b] = bals[b] - loss
        /\ \A c \in Assets \ {a, b} : new[c] = bals[c]
  BY MovedType, RegistryAssumption
<1>2. PICK v : v = Values(bals) /\ \A c \in C : v[c] = bals[c] * Scale(c) /\ v[c] \in Int
  BY ValuesType
<1>3. PICK w : w = Values(new) /\ \A c \in C : w[c] = new[c] * Scale(c) /\ w[c] \in Int
  BY ValuesType
<1>4. /\ Total(v, C) = v[a] + v[b] + Total(v, R)
      /\ Total(w, C) = w[a] + w[b] + Total(w, R)
  BY <1>2, <1>3, CurrenciesFinite, TotalParts DEF Part
<1>5. Total(v, R) = Total(w, R)
  <2>1. IsFiniteSet(R)
    BY CurrenciesFinite, FS_Subset
  <2>2. \A c \in R : v[c] \in Int /\ v[c] = w[c]
    BY <1>1, <1>2, <1>3, RegistryAssumption
  <2> HIDE DEF R
  <2> QED
    BY <2>1, <2>2, TotalAgree
<1>6. v[a] + v[b] = w[a] + w[b]
  <2>1. PICK x \in Int, y \in Int, p \in Int, q \in Int :
          x = bals[a] /\ y = bals[b] /\ p = Scale(a) /\ q = Scale(b)
    BY ScaleFacts, RegistryAssumption DEF Balances
  <2>2. v[a] = x * p /\ v[b] = y * q /\ w[a] = (x + gain) * p /\ w[b] = (y - loss) * q
    BY <1>1, <1>2, <1>3, <2>1
  <2>3. (x + gain) * p = x * p + gain * p /\ (y - loss) * q = y * q - loss * q
    OBVIOUS
  <2>4. loss * q = gain * p
    BY <2>1
  <2> QED
    BY <2>2, <2>3, <2>4
<1>7. Value(bals) = Total(v, C) /\ Value(new) = Total(w, C)
  BY <1>2, <1>3, ValueIsTotal
<1> QED
  BY <1>1, <1>4, <1>5, <1>6, <1>7

\* SSEQ sums to zero, and what is filled is a currency.
ZeroSum == SseqSumsToZero /\ (pc = "activate" => target \in Currencies)

\* What a conversion loses and gains is worth the same.
LEMMA ConvertedIsWorthTheSame ==
  ASSUME Inv, ZeroSum, NEW b \in Assets, ConvertAsset(b)
  PROVE  \E loss \in Nat \ {0}, gain \in Nat \ {0} :
           /\ b \in Currencies /\ target \in Currencies /\ b # target
           /\ loss * Scale(b) = gain * Scale(target) /\ loss <= owned[b]
           /\ owned' = Moved(owned, b, loss, target, gain)
           /\ sseq' = Moved(sseq, b, loss, target, gain)
<1>1. target \in Currencies /\ target \in Assets /\ pc = "activate" /\ converted < toConvert
  BY DEF ZeroSum, ConvertAsset, Inv, TypeOK
<1>2. PICK d : d = Dollars(b)
  OBVIOUS
<1>3. PICK e \in Nat \ {0}, f \in Nat \ {0}, p \in Nat \ {0}, q \in Nat \ {0} :
        /\ e = exp10(Decimals[target]) /\ f = exp10(Decimals[b])
        /\ p = Scale(target) /\ q = Scale(b) /\ e * p = f * q
  BY <1>1, ExpType, ScaleFacts
<1>4. d \in Int /\ (d > 0 => d * f <= owned[b])
  BY <1>1, <1>2, <1>3, DollarsType
<1>5. /\ b \in Currencies /\ b # target /\ d > 0
      /\ owned' = Moved(owned, b, d * f, target, d * e)
      /\ sseq' = Moved(sseq, b, d * f, target, d * e)
  BY <1>2, <1>3, <1>4 DEF ConvertAsset, Skipped, Gain, Loss, Moved
<1>6. d * f \in Nat \ {0} /\ d * e \in Nat \ {0}
  BY <1>4, <1>5
<1>7. (d * f) * q = (d * e) * p
  <2>1. (d * f) * q = d * (f * q) /\ (d * e) * p = d * (e * p)
    BY <1>4
  <2> QED
    BY <1>3, <2>1
<1> QED
  BY <1>1, <1>3, <1>4, <1>5, <1>6, <1>7

LEMMA CleanedIsWorthTheSame ==
  ASSUME Inv, NEW a \in Assets, NEW b \in Assets, Cleanup(a, b)
  PROVE  \E loss \in Nat \ {0}, gain \in Nat \ {0} :
           /\ a \in Currencies /\ b \in Currencies /\ a # b
           /\ loss * Scale(a) = gain * Scale(b) /\ loss <= owned[a]
           /\ owned' = Moved(owned, a, loss, b, gain)
           /\ sseq' = Moved(sseq, a, loss, b, gain)
<1>1. PICK l \in {a, b} : /\ Decimals[l] = Min({Decimals[a], Decimals[b]})
                          /\ Decimals[a] >= Decimals[l] /\ Decimals[b] >= Decimals[l]
  <2>1. Decimals[a] \in Int /\ Decimals[b] \in Int
    BY RegistryAssumption
  <2> QED
    BY <2>1, MinOfTwo
<1>2. PICK e \in Nat \ {0}, f \in Nat \ {0}, p \in Nat \ {0}, q \in Nat \ {0}, r \in Nat \ {0} :
        /\ e = exp10(Decimals[a] - Decimals[l]) /\ f = exp10(Decimals[b] - Decimals[l])
        /\ p = Scale(a) /\ q = Scale(b) /\ r = Scale(l)
  BY <1>1, ExpIsPower, ScaleFacts
<1>3. e * p = r /\ f * q = r
  BY <1>1, <1>2, ScaleDown
<1>4. PICK t : t = ToConvertBack(a, b)
  OBVIOUS
<1>5. t \in Int
  BY <1>4, BackType DEF Inv
<1>6. LossBack(a, b) = t * e /\ GainBack(a, b) = t * f
  BY <1>1, <1>2, <1>4 DEF LossBack, GainBack
<1>7. /\ {a, b} \subseteq Currencies /\ t > 0 /\ CanSub(owned, a, t * e)
      /\ sseq[a] > 0 /\ sseq[b] < 0
      /\ owned' = Moved(owned, a, t * e, b, t * f) /\ sseq' = Moved(sseq, a, t * e, b, t * f)
  BY <1>4, <1>6 DEF Cleanup, Moved
<1>8. t * e \in Nat \ {0} /\ t * f \in Nat \ {0}
  BY <1>5, <1>7
<1>9. t * e <= owned[a]
  BY <1>7, <1>8 DEF CanSub, HasAtLeast, Inv, TypeOK, Balances
<1>10. (t * e) * p = (t * f) * q
  <2>1. (t * e) * p = t * (e * p) /\ (t * f) * q = t * (f * q)
    BY <1>5
  <2> QED
    BY <1>3, <2>1
<1>11. a # b
  BY <1>7 DEF Inv, TypeOK, Balances
<1> QED
  BY <1>2, <1>7, <1>8, <1>9, <1>10, <1>11

LEMMA ZeroSumMoved ==
  ASSUME Inv, SseqSumsToZero, NEW a \in Currencies, NEW b \in Currencies, a # b,
         NEW loss \in Int, NEW gain \in Int, loss * Scale(b) = gain * Scale(a),
         sseq' = Moved(sseq, b, loss, a, gain)
  PROVE  SseqSumsToZero'
<1>1. sseq \in Balances
  BY DEF Inv, TypeOK
<1>2. Value(sseq') = Value(sseq)
  BY <1>1, ValueMoved
<1>3. \A c \in Assets \ {a, b} : sseq'[c] = sseq[c]
  BY <1>1, MovedType, RegistryAssumption
<1> QED
  BY <1>2, <1>3 DEF SseqSumsToZero

LEMMA InitZeroSum == Init => ZeroSum
<1> SUFFICES ASSUME Init PROVE ZeroSum
  OBVIOUS
<1>1. sseq = Zero /\ pc = "idle"
  BY DEF Init
<1>2. Zero \in Balances /\ \A a \in Assets : Zero[a] = 0
  BY DEF Zero, Balances
<1>3. PICK v : v = Values(Zero) /\ \A c \in Currencies : v[c] = Zero[c] * Scale(c)
  BY <1>2, ValuesType
<1>4. \A c \in Currencies : v[c] = 0
  <2>1. \A c \in Currencies : Scale(c) \in Int /\ Zero[c] = 0
    BY <1>2, ScaleFacts, RegistryAssumption
  <2> QED
    BY <1>3, <2>1
<1>5. Value(Zero) = 0
  BY <1>2, <1>3, <1>4, ValueIsTotal, CurrenciesFinite, Zeros
<1> QED
  BY <1>1, <1>2, <1>5 DEF ZeroSum, SseqSumsToZero

LEMMA NextZeroSum == Inv /\ ZeroSum /\ [Next]_vars => ZeroSum'
<1> SUFFICES ASSUME Inv, ZeroSum, [Next]_vars PROVE ZeroSum'
  OBVIOUS
<1>1. ASSUME sseq' = sseq, pc' = "activate" => target' \in Currencies PROVE ZeroSum'
  BY <1>1 DEF ZeroSum, SseqSumsToZero
<1>2. CASE UNCHANGED vars
  BY <1>1, <1>2 DEF vars, request, ZeroSum
<1>3. CASE ActivateReturns
  BY <1>1, <1>3 DEF ActivateReturns
<1>4. ASSUME NEW b \in Assets, SkipAsset(b) PROVE ZeroSum'
  BY <1>1, <1>4 DEF SkipAsset, ZeroSum
<1>5. ASSUME NEW b \in Assets, ConvertAsset(b) PROVE ZeroSum'
  <2>1. target' = target /\ pc' = pc
    BY <1>5 DEF ConvertAsset
  <2>2. SseqSumsToZero'
    BY <1>5, ConvertedIsWorthTheSame, ZeroSumMoved DEF ZeroSum
  <2> QED
    BY <2>1, <2>2 DEF ZeroSum
<1>6. ASSUME NEW a \in Assets, NEW n \in Amounts,
             Credit(a, n) \/ Debit(a, n) \/ Lock(a, n) \/ Unlock(a, n)
      PROVE  ZeroSum'
  BY <1>1, <1>6 DEF Credit, Debit, Lock, Unlock, Request, request, ZeroSum
<1>7. ASSUME NEW a \in Assets, NEW n \in Amounts, Activate(a, n) PROVE ZeroSum'
  BY <1>1, <1>7 DEF Activate
<1>8. ASSUME NEW a \in Assets, NEW b \in Assets, Cleanup(a, b) PROVE ZeroSum'
  <2>1. target' = target /\ pc' = pc
    BY <1>8 DEF Cleanup, request
  <2>2. SseqSumsToZero'
    BY <1>8, CleanedIsWorthTheSame, ZeroSumMoved DEF ZeroSum
  <2> QED
    BY <2>1, <2>2 DEF ZeroSum
<1> QED
  BY <1>2, <1>3, <1>4, <1>5, <1>6, <1>7, <1>8 DEF Next

\* For any currencies and decimals: what SSEQ says a position gained and lost is
\* worth the same, after every conversion, and also after it is turned back at
\* another precision (src/ledger/types/position.go, comment of SSEQ).
THEOREM SseqIsZeroSum == Spec => []SseqSumsToZero
<1>1. Init => Inv /\ ZeroSum
  BY InitInv, InitZeroSum
<1>2. (Inv /\ ZeroSum) /\ [Next]_vars => (Inv /\ ZeroSum)'
  BY NextInv, NextZeroSum
<1>3. Inv /\ ZeroSum => SseqSumsToZero
  BY DEF ZeroSum
<1> QED
  BY <1>1, <1>2, <1>3, PTL DEF Spec

-----------------------------------------------------------------------------
(* A conversion keeps a position solvent                                   *)

\* Two sums that differ in the parts of a and b only.
LEMMA TotalsApart ==
  ASSUME NEW S, IsFiniteSet(S), NEW T, IsFiniteSet(T), NEW a, NEW b, a # b,
         S \ {a, b} = T \ {a, b},
         NEW v, NEW w, \A x \in S : v[x] \in Int, \A x \in T : w[x] \in Int,
         \A x \in S \ {a, b} : v[x] = w[x]
  PROVE  \E rest \in Int : /\ Total(v, S) = Part(v, S, a) + Part(v, S, b) + rest
                           /\ Total(w, T) = Part(w, T, a) + Part(w, T, b) + rest
<1> DEFINE R == S \ {a, b}
<1>1. ASSUME NEW U, IsFiniteSet(U), NEW u, \A x \in U : u[x] \in Int
      PROVE  /\ Total(u, U) = Part(u, U, a) + Part(u, U, b) + Total(u, U \ {a, b})
             /\ Total(u, U \ {a, b}) \in Int
  BY <1>1, TotalParts
<1>2. /\ Total(v, S) = Part(v, S, a) + Part(v, S, b) + Total(v, R) /\ Total(v, R) \in Int
      /\ Total(w, T) = Part(w, T, a) + Part(w, T, b) + Total(w, R)
  BY <1>1
<1>3. Total(v, R) = Total(w, R)
  <2>1. IsFiniteSet(R) /\ \A x \in R : v[x] \in Int /\ v[x] = w[x]
    BY FS_Subset
  <2> HIDE DEF R
  <2> QED
    BY <2>1, TotalAgree
<1> QED
  BY <1>2, <1>3

\* An amount of an asset is worth a number, the same for all that cost one.
LEMMA ValueInUSD ==
  ASSUME NEW c \in Assets, NEW n \in Int, NEW m \in Nat
  PROVE  /\ GetAssetValueInUSD(n, c, m) \in Int
         /\ Prices[c] = 1 => GetAssetValueInUSD(n, c, m) = (n * Scale(c)) * m
<1>1. PICK k \in Nat, p \in Nat : k = Scale(c) /\ k = 10 ^ (Precision - Decimals[c]) /\ p = Prices[c]
  BY ScaleFacts, RegistryAssumption
<1>2. GetAssetValueInUSD(n, c, m) = ((p * n) * m) * k
  BY <1>1 DEF GetAssetValueInUSD
<1>3. ((p * n) * m) * k \in Int
  OBVIOUS
<1>4. p = 1 => ((p * n) * m) * k = (n * k) * m
  <2>1. (n * m) * k = (n * k) * m
    OBVIOUS
  <2>2. 1 * n = n
    OBVIOUS
  <2> QED
    BY <2>1, <2>2
<1> QED
  BY <1>1, <1>2, <1>3, <1>4

\* What is owned of the assets of K, at the given weights, and what is owed.
Owned(bals, K) == {c \in Positive(bals) : c \in K}
Worth(bals, K, weights) ==
  [c \in Owned(bals, K) |-> GetAssetValueInUSD(bals[c], c, weights[c])]
Debt(bals) == [c \in Negative(bals) |-> GetAssetValueInUSD(-bals[c], c, One)]

LEMMA MeasuresAreTotals ==
  ASSUME NEW bals
  PROVE  /\ ExactBorrowLimit(bals)
              = Total(Worth(bals, Assets, CollateralWeights), Owned(bals, Assets))
         /\ ExactLiquidationThreshold(bals)
              = Total(Worth(bals, Assets, LiquidationThresholds), Owned(bals, Assets))
         /\ ExactBorrowedValue(bals) = Total(Debt(bals), Negative(bals))
<1>1. Owned(bals, Assets) = Positive(bals)
  BY DEF Owned, Positive
<1>2. /\ Worth(bals, Assets, CollateralWeights)
           = [c \in Positive(bals) |-> GetAssetValueInUSD(bals[c], c, CollateralWeights[c])]
      /\ Worth(bals, Assets, LiquidationThresholds)
           = [c \in Positive(bals) |-> GetAssetValueInUSD(bals[c], c, LiquidationThresholds[c])]
  BY <1>1 DEF Worth
<1>3. ExactBorrowLimit(bals) = Total(Worth(bals, Assets, CollateralWeights), Owned(bals, Assets))
  BY <1>1, <1>2 DEF ExactBorrowLimit, SumFunction, Total
<1>4. ExactLiquidationThreshold(bals)
        = Total(Worth(bals, Assets, LiquidationThresholds), Owned(bals, Assets))
  BY <1>1, <1>2 DEF ExactLiquidationThreshold, SumFunction, Total
<1>5. ExactBorrowedValue(bals) = Total(Debt(bals), Negative(bals))
  BY DEF ExactBorrowedValue, SumFunction, Total, Debt
<1> QED
  BY <1>3, <1>4, <1>5

\* The assets meant for collateral, at full value.
Meant == {c \in Assets : CollateralWeights[c] # 0}
Full == [c \in Assets |-> One]

LEMMA CollateralIsTotal ==
  ASSUME NEW bals
  PROVE  ExactCollateralValue(bals) = Total(Worth(bals, Meant, Full), Owned(bals, Meant))
<1>1. Owned(bals, Meant) = {c \in Positive(bals) : CollateralWeights[c] # 0}
  BY DEF Owned, Meant, Positive
<1>2. Worth(bals, Meant, Full)
        = [c \in {x \in Positive(bals) : CollateralWeights[x] # 0} |->
             GetAssetValueInUSD(bals[c], c, One)]
  BY <1>1 DEF Worth, Full, Positive
<1> QED
  BY <1>1, <1>2 DEF ExactCollateralValue, SumFunction, Total

\* n if there is that much, else nothing.
AtLeastZero(n) == IF n > 0 THEN n ELSE 0

\* A currency's part of what is owned, and of what is owed.
LEMMA CurrencyParts ==
  ASSUME NEW bals \in Balances, NEW c \in Assets, Prices[c] = 1,
         NEW K, c \in K, NEW weights, weights[c] \in Nat
  PROVE  /\ Part(Worth(bals, K, weights), Owned(bals, K), c)
              = (AtLeastZero(bals[c]) * Scale(c)) * weights[c]
         /\ Part(Debt(bals), Negative(bals), c) = (AtLeastZero(-bals[c]) * Scale(c)) * One
<1>1. PICK n \in Int, k \in Nat, m \in Nat : n = bals[c] /\ k = Scale(c) /\ m = weights[c]
  BY ScaleFacts DEF Balances
<1>2. -n \in Int /\ One \in Nat /\ (0 * k) * m = 0 /\ (0 * k) * One = 0
  BY DEF One
<1>3. /\ GetAssetValueInUSD(n, c, m) = (n * k) * m
      /\ GetAssetValueInUSD(-n, c, One) = ((-n) * k) * One
  BY <1>1, <1>2, ValueInUSD
<1>4. Part(Worth(bals, K, weights), Owned(bals, K), c) = (AtLeastZero(n) * k) * m
  <2>1. CASE n > 0
    BY <1>1, <1>3, <2>1 DEF Part, Worth, Owned, Positive, AtLeastZero
  <2>2. CASE ~(n > 0)
    BY <1>1, <1>2, <2>2 DEF Part, Owned, Positive, AtLeastZero
  <2> QED
    BY <2>1, <2>2
<1>5. Part(Debt(bals), Negative(bals), c) = (AtLeastZero(-n) * k) * One
  <2>1. CASE n < 0
    BY <1>1, <1>3, <2>1 DEF Part, Debt, Negative, AtLeastZero
  <2>2. CASE ~(n < 0)
    BY <1>1, <1>2, <2>2 DEF Part, Negative, AtLeastZero
  <2> QED
    BY <2>1, <2>2
<1> QED
  BY <1>1, <1>4, <1>5

\* What is gained pays a debt first.
LEMMA PaysDebtFirst ==
  ASSUME NEW x \in Int, NEW gain \in Nat \ {0}
  PROVE  \E p \in Nat, q \in Nat : /\ AtLeastZero(x + gain) = AtLeastZero(x) + p
                                   /\ AtLeastZero(-x) = AtLeastZero(-(x + gain)) + q
                                   /\ p + q = gain
                                   /\ AtLeastZero(x) \in Nat /\ AtLeastZero(-(x + gain)) \in Nat
<1>1. CASE x >= 0
  <2>1. /\ AtLeastZero(x + gain) = AtLeastZero(x) + gain /\ AtLeastZero(x) \in Nat
        /\ AtLeastZero(-x) = 0 /\ AtLeastZero(-(x + gain)) = 0 /\ gain + 0 = gain
    BY <1>1 DEF AtLeastZero
  <2> QED
    BY <2>1
<1>2. CASE x < 0 /\ x + gain >= 0
  <2>1. /\ AtLeastZero(x + gain) = x + gain /\ AtLeastZero(x) = 0
        /\ AtLeastZero(-x) = -x /\ AtLeastZero(-(x + gain)) = 0
        /\ (x + gain) + (-x) = gain /\ x + gain \in Nat /\ -x \in Nat
    BY <1>2 DEF AtLeastZero
  <2> QED
    BY <2>1
<1>3. CASE x + gain < 0
  <2>1. /\ AtLeastZero(x + gain) = 0 /\ AtLeastZero(x) = 0 /\ -(x + gain) \in Nat
        /\ AtLeastZero(-x) = AtLeastZero(-(x + gain)) + gain /\ AtLeastZero(-(x + gain)) \in Nat
    BY <1>3 DEF AtLeastZero
  <2> QED
    BY <2>1
<1> QED
  BY <1>1, <1>2, <1>3

\* Moving an owned amount from b to a at the same worth: what of it pays a debt
\* is counted in full, the rest as before.
LEMMA MarginMoved ==
  ASSUME NEW bals \in Balances, NEW a \in Assets, NEW b \in Assets, a # b,
         Prices[a] = 1, Prices[b] = 1,
         NEW loss \in Nat \ {0}, NEW gain \in Nat \ {0}, loss <= bals[b],
         loss * Scale(b) = gain * Scale(a),
         NEW K, a \in K, b \in K, NEW weights \in [Assets -> Nat],
         NEW new, new = Moved(bals, b, loss, a, gain),
         NEW m \in Nat, weights[a] = m, weights[b] = m
  PROVE  \E paid \in Nat :
           /\ Total(Worth(bals, K, weights), Owned(bals, K)) \in Int
           /\ Total(Debt(bals), Negative(bals)) \in Int
           /\ Total(Worth(new, K, weights), Owned(new, K))
                = Total(Worth(bals, K, weights), Owned(bals, K)) - paid * m
           /\ Total(Debt(new), Negative(new)) = Total(Debt(bals), Negative(bals)) - paid * One
<1> DEFINE S == Owned(bals, K)
           T == Owned(new, K)
           v == Worth(bals, K, weights)
           w == Worth(new, K, weights)
           M == Negative(bals)
           N == Negative(new)
           f == Debt(bals)
           g == Debt(new)
<1>1. /\ new \in Balances /\ new[a] = bals[a] + gain /\ new[b] = bals[b] - loss
      /\ \A c \in Assets \ {a, b} : new[c] = bals[c]
  BY MovedType
<1>2. One \in Nat
  BY DEF One
<1>3. ASSUME NEW z \in Balances
      PROVE  /\ IsFiniteSet(Owned(z, K)) /\ Owned(z, K) \subseteq Assets
             /\ IsFiniteSet(Negative(z)) /\ Negative(z) \subseteq Assets
             /\ \A c \in Owned(z, K) : Worth(z, K, weights)[c] \in Int
             /\ \A c \in Negative(z) : Debt(z)[c] \in Int
  <2>1. Owned(z, K) \subseteq Assets /\ Negative(z) \subseteq Assets
    BY DEF Owned, Positive, Negative
  <2>2. IsFiniteSet(Owned(z, K)) /\ IsFiniteSet(Negative(z))
    BY <2>1, RegistryAssumption, FS_Subset
  <2>3. ASSUME NEW c \in Owned(z, K) PROVE Worth(z, K, weights)[c] \in Int
    <3>1. c \in Assets /\ z[c] \in Int /\ weights[c] \in Nat
      BY <2>1 DEF Balances
    <3> QED
      BY <3>1, ValueInUSD DEF Worth
  <2>4. ASSUME NEW c \in Negative(z) PROVE Debt(z)[c] \in Int
    <3>1. c \in Assets /\ -z[c] \in Int
      BY <2>1 DEF Balances
    <3> QED
      BY <1>2, <3>1, ValueInUSD DEF Debt
  <2> QED
    BY <2>1, <2>2, <2>3, <2>4
<1>4. /\ S \ {a, b} = T \ {a, b} /\ \A c \in S \ {a, b} : v[c] = w[c]
      /\ M \ {a, b} = N \ {a, b} /\ \A c \in M \ {a, b} : f[c] = g[c]
  <2>1. ASSUME NEW c, c \notin {a, b}
        PROVE  (c \in S <=> c \in T) /\ (c \in M <=> c \in N)
    BY <1>1, <2>1 DEF Owned, Positive, Negative
  <2>2. ASSUME NEW c \in S \ {a, b} PROVE v[c] = w[c]
    <3>1. new[c] = bals[c] /\ c \in T
      BY <1>1, <2>1 DEF Owned, Positive
    <3> QED
      BY <3>1 DEF Worth
  <2>3. ASSUME NEW c \in M \ {a, b} PROVE f[c] = g[c]
    <3>1. new[c] = bals[c] /\ c \in N
      BY <1>1, <2>1 DEF Negative
    <3> QED
      BY <3>1 DEF Debt
  <2> QED
    BY <2>1, <2>2, <2>3
<1>5. PICK rest \in Int, owed \in Int :
        /\ Total(v, S) = Part(v, S, a) + Part(v, S, b) + rest
        /\ Total(w, T) = Part(w, T, a) + Part(w, T, b) + rest
        /\ Total(f, M) = Part(f, M, a) + Part(f, M, b) + owed
        /\ Total(g, N) = Part(g, N, a) + Part(g, N, b) + owed
  <2>1. /\ IsFiniteSet(S) /\ IsFiniteSet(T) /\ IsFiniteSet(M) /\ IsFiniteSet(N)
        /\ \A c \in S : v[c] \in Int
        /\ \A c \in T : w[c] \in Int
        /\ \A c \in M : f[c] \in Int
        /\ \A c \in N : g[c] \in Int
    BY <1>1, <1>3
  <2> HIDE DEF S, T, v, w, M, N, f, g
  <2>2. \E rest \in Int : /\ Total(v, S) = Part(v, S, a) + Part(v, S, b) + rest
                          /\ Total(w, T) = Part(w, T, a) + Part(w, T, b) + rest
    BY <1>4, <2>1, TotalsApart
  <2>3. \E owed \in Int : /\ Total(f, M) = Part(f, M, a) + Part(f, M, b) + owed
                          /\ Total(g, N) = Part(g, N, a) + Part(g, N, b) + owed
    BY <1>4, <2>1, TotalsApart
  <2> QED
    BY <2>2, <2>3
<1>6. PICK x \in Int, y \in Nat, j \in Nat, k \in Nat :
        x = bals[a] /\ y = bals[b] - loss /\ j = Scale(a) /\ k = Scale(b)
  <2>1. bals[a] \in Int /\ bals[b] \in Int /\ bals[b] - loss \in Nat
    BY DEF Balances
  <2> QED
    BY <2>1, ScaleFacts
<1>7. PICK p \in Nat, q \in Nat, r \in Nat, t \in Nat :
        /\ r = AtLeastZero(x) /\ t = AtLeastZero(-(x + gain))
        /\ AtLeastZero(x + gain) = r + p /\ AtLeastZero(-x) = t + q /\ p + q = gain
  <2>1. PICK p \in Nat, q \in Nat :
          /\ AtLeastZero(x + gain) = AtLeastZero(x) + p
          /\ AtLeastZero(-x) = AtLeastZero(-(x + gain)) + q
          /\ p + q = gain
          /\ AtLeastZero(x) \in Nat /\ AtLeastZero(-(x + gain)) \in Nat
    BY PaysDebtFirst
  <2> QED
    BY <2>1
<1>8. /\ bals[b] = y + loss /\ new[b] = y /\ new[a] = x + gain
      /\ AtLeastZero(y + loss) = y + loss /\ AtLeastZero(y) = y
      /\ AtLeastZero(-(y + loss)) = 0 /\ AtLeastZero(-y) = 0
  BY <1>1, <1>6 DEF AtLeastZero, Balances
<1>9. /\ Part(v, S, a) = (r * j) * m /\ Part(f, M, a) = ((t + q) * j) * One
      /\ Part(v, S, b) = ((y + loss) * k) * m /\ Part(f, M, b) = (0 * k) * One
      /\ Part(w, T, a) = ((r + p) * j) * m /\ Part(g, N, a) = (t * j) * One
      /\ Part(w, T, b) = (y * k) * m /\ Part(g, N, b) = (0 * k) * One
  <2>1. weights[a] \in Nat /\ weights[b] \in Nat
    OBVIOUS
  <2>2. ASSUME NEW z \in Balances, NEW c \in {a, b}
        PROVE  /\ Part(Worth(z, K, weights), Owned(z, K), c)
                    = (AtLeastZero(z[c]) * Scale(c)) * m
               /\ Part(Debt(z), Negative(z), c) = (AtLeastZero(-z[c]) * Scale(c)) * One
    <3>1. c \in Assets /\ Prices[c] = 1 /\ c \in K /\ weights[c] = m
      OBVIOUS
    <3> QED
      BY <3>1, CurrencyParts
  <2>3. /\ Part(v, S, a) = (AtLeastZero(bals[a]) * Scale(a)) * m
        /\ Part(v, S, b) = (AtLeastZero(bals[b]) * Scale(b)) * m
        /\ Part(f, M, a) = (AtLeastZero(-bals[a]) * Scale(a)) * One
        /\ Part(f, M, b) = (AtLeastZero(-bals[b]) * Scale(b)) * One
    BY <2>2
  <2>4. /\ Part(w, T, a) = (AtLeastZero(new[a]) * Scale(a)) * m
        /\ Part(w, T, b) = (AtLeastZero(new[b]) * Scale(b)) * m
        /\ Part(g, N, a) = (AtLeastZero(-new[a]) * Scale(a)) * One
        /\ Part(g, N, b) = (AtLeastZero(-new[b]) * Scale(b)) * One
    BY <1>1, <2>2
  <2> HIDE DEF S, T, v, w, M, N, f, g
  <2>5. /\ AtLeastZero(bals[a]) = r /\ AtLeastZero(bals[b]) = y + loss
        /\ AtLeastZero(-bals[a]) = t + q /\ AtLeastZero(-bals[b]) = 0
        /\ AtLeastZero(new[a]) = r + p /\ AtLeastZero(new[b]) = y
        /\ AtLeastZero(-new[a]) = t /\ AtLeastZero(-new[b]) = 0
        /\ Scale(a) = j /\ Scale(b) = k
    BY <1>6, <1>7, <1>8
  <2> QED
    BY <2>3, <2>4, <2>5
<1> HIDE DEF S, T, v, w, M, N, f, g
<1>10. loss * k = p * j + q * j
  <2>1. (p + q) * j = p * j + q * j
    OBVIOUS
  <2> QED
    BY <1>6, <1>7, <2>1
<1>11. PICK paid \in Nat : paid = q * j
  OBVIOUS
<1>12. /\ ((t + q) * j) * One = (t * j) * One + paid * One
       /\ ((y + loss) * k) * m = (y * k) * m + (p * j) * m + paid * m
       /\ ((r + p) * j) * m = (r * j) * m + (p * j) * m
  <2>1. (t + q) * j = t * j + paid /\ (r + p) * j = r * j + p * j
    BY <1>11
  <2>2. (y + loss) * k = y * k + p * j + paid
    <3>1. (y + loss) * k = y * k + loss * k
      OBVIOUS
    <3> QED
      BY <1>10, <1>11, <3>1
  <2>3. \A h, i \in Nat : (h + i) * m = h * m + i * m /\ (h + i) * One = h * One + i * One
    BY <1>2
  <2>4. PICK tj \in Nat, rj \in Nat, pj \in Nat, yk \in Nat :
          tj = t * j /\ rj = r * j /\ pj = p * j /\ yk = y * k
    <3>1. \A h, i \in Nat : h * i \in Nat
      OBVIOUS
    <3>2. t * j \in Nat /\ r * j \in Nat
      BY <3>1
    <3>3. p * j \in Nat /\ y * k \in Nat
      BY <3>1
    <3> QED
      BY <3>2, <3>3
  <2>5. (tj + paid) * One = tj * One + paid * One
    BY <2>3
  <2>6. (rj + pj) * m = rj * m + pj * m
    BY <2>3
  <2>7. ((yk + pj) + paid) * m = (yk * m + pj * m) + paid * m
    <3>1. yk + pj \in Nat
      OBVIOUS
    <3>2. ((yk + pj) + paid) * m = (yk + pj) * m + paid * m
      BY <2>3, <3>1
    <3>3. (yk + pj) * m = yk * m + pj * m
      BY <2>3
    <3> QED
      BY <3>2, <3>3
  <2> QED
    BY <2>1, <2>2, <2>4, <2>5, <2>6, <2>7
<1>13. PICK A \in Int, B \in Int, C \in Int, D \in Int, E \in Int, F \in Int :
         /\ A = (r * j) * m /\ B = (y * k) * m /\ C = (p * j) * m /\ D = paid * m
         /\ E = (t * j) * One /\ F = paid * One
  BY <1>2
<1>14. (0 * k) * One = 0
  BY <1>2
<1>15. /\ Total(v, S) = A + (B + C + D) + rest /\ Total(w, T) = (A + C) + B + rest
       /\ Total(f, M) = (E + F) + 0 + owed /\ Total(g, N) = E + 0 + owed
  BY <1>5, <1>9, <1>12, <1>13, <1>14
<1>16. /\ Total(v, S) \in Int /\ Total(f, M) \in Int
       /\ Total(w, T) = Total(v, S) - D /\ Total(g, N) = Total(f, M) - F
  BY <1>15
<1> QED
  BY <1>13, <1>16 DEF S, T, v, w, M, N, f, g

\* Such a move keeps what a position is worth, and within its limits.
LEMMA SolventMoved ==
  ASSUME Interchangeable, NEW bals \in Balances, NEW a \in Currencies, NEW b \in Currencies,
         a # b, NEW loss \in Nat \ {0}, NEW gain \in Nat \ {0}, loss <= bals[b],
         loss * Scale(b) = gain * Scale(a), NEW new, new = Moved(bals, b, loss, a, gain)
  PROVE  /\ Equity(new) = Equity(bals)
         /\ WithinLimit(bals) => WithinLimit(new)
         /\ NotLiquidated(bals) => NotLiquidated(new)
<1>1. /\ a \in Assets /\ b \in Assets /\ Prices[a] = 1 /\ Prices[b] = 1
      /\ CollateralWeights[a] = CollateralWeights[b]
      /\ LiquidationThresholds[a] = LiquidationThresholds[b]
      /\ CollateralWeights[a] \in Nat /\ CollateralWeights[b] \in Nat
      /\ CollateralWeights[a] # 0 /\ CollateralWeights[b] # 0
      /\ CollateralWeights[a] <= One
      /\ LiquidationThresholds[a] \in Nat /\ LiquidationThresholds[a] <= One
  BY RegistryAssumption DEF Interchangeable, One
<1>2. /\ CollateralWeights \in [Assets -> Nat] /\ LiquidationThresholds \in [Assets -> Nat]
      /\ Full \in [Assets -> Nat] /\ One \in Nat /\ Full[a] = One /\ Full[b] = One
  BY <1>1, RegistryAssumption DEF Full, One
<1>3. a \in Meant /\ b \in Meant
  BY <1>1 DEF Meant
<1>4. ASSUME NEW m \in Nat, m <= One, NEW paid \in Nat, NEW x \in Int, NEW d \in Int
      PROVE  d <= x => d - paid * One <= x - paid * m
  <2>1. paid * m <= paid * One
    BY <1>2, <1>4
  <2>2. paid * m \in Int /\ paid * One \in Int
    BY <1>2
  <2> QED
    BY <2>1, <2>2
<1>5. ASSUME NEW K, a \in K, b \in K, NEW weights \in [Assets -> Nat], NEW m \in Nat,
             weights[a] = m, weights[b] = m
      PROVE  \E paid \in Nat :
               LET x == Total(Worth(bals, K, weights), Owned(bals, K))
                   d == Total(Debt(bals), Negative(bals))
               IN  /\ x \in Int /\ d \in Int
                   /\ Total(Worth(new, K, weights), Owned(new, K)) = x - paid * m
                   /\ Total(Debt(new), Negative(new)) = d - paid * One
  BY <1>1, <1>5, MarginMoved
<1>6. Equity(new) = Equity(bals)
  <2>1. PICK paid \in Nat :
          LET x == Total(Worth(bals, Meant, Full), Owned(bals, Meant))
              d == Total(Debt(bals), Negative(bals))
          IN  /\ x \in Int /\ d \in Int
              /\ Total(Worth(new, Meant, Full), Owned(new, Meant)) = x - paid * One
              /\ Total(Debt(new), Negative(new)) = d - paid * One
    <3>1. a \in Meant /\ b \in Meant /\ Full \in [Assets -> Nat] /\ One \in Nat
          /\ Full[a] = One /\ Full[b] = One
      BY <1>1, <1>2, <1>3
    <3> QED
      BY <1>5, <3>1
  <2>2. PICK x \in Int, d \in Int :
          /\ x = ExactCollateralValue(bals) /\ d = ExactBorrowedValue(bals)
          /\ ExactCollateralValue(new) = x - paid * One
          /\ ExactBorrowedValue(new) = d - paid * One
    BY <2>1, MeasuresAreTotals, CollateralIsTotal
  <2>3. PICK n \in Int : n = paid * One
    BY <1>2
  <2> QED
    BY <2>2, <2>3 DEF Equity
<1>7. WithinLimit(bals) => WithinLimit(new)
  <2>1. PICK paid \in Nat :
          LET x == Total(Worth(bals, Assets, CollateralWeights), Owned(bals, Assets))
              d == Total(Debt(bals), Negative(bals))
          IN  /\ x \in Int /\ d \in Int
              /\ Total(Worth(new, Assets, CollateralWeights), Owned(new, Assets)) = x - paid * CollateralWeights[a]
              /\ Total(Debt(new), Negative(new)) = d - paid * One
    <3>1. a \in Assets /\ b \in Assets /\ CollateralWeights \in [Assets -> Nat] /\ CollateralWeights[a] \in Nat
          /\ CollateralWeights[a] = CollateralWeights[a] /\ CollateralWeights[b] = CollateralWeights[a]
      BY <1>1, <1>2, <1>3
    <3> QED
      BY <1>5, <3>1
  <2>2. PICK x \in Int, d \in Int :
          /\ x = ExactBorrowLimit(bals) /\ d = ExactBorrowedValue(bals)
          /\ ExactBorrowLimit(new) = x - paid * CollateralWeights[a]
          /\ ExactBorrowedValue(new) = d - paid * One
    BY <2>1, MeasuresAreTotals, CollateralIsTotal
  <2> QED
    BY <1>1, <1>4, <2>2 DEF WithinLimit
<1>8. NotLiquidated(bals) => NotLiquidated(new)
  <2>1. PICK paid \in Nat :
          LET x == Total(Worth(bals, Assets, LiquidationThresholds), Owned(bals, Assets))
              d == Total(Debt(bals), Negative(bals))
          IN  /\ x \in Int /\ d \in Int
              /\ Total(Worth(new, Assets, LiquidationThresholds), Owned(new, Assets)) = x - paid * LiquidationThresholds[a]
              /\ Total(Debt(new), Negative(new)) = d - paid * One
    <3>1. a \in Assets /\ b \in Assets /\ LiquidationThresholds \in [Assets -> Nat] /\ LiquidationThresholds[a] \in Nat
          /\ LiquidationThresholds[a] = LiquidationThresholds[a] /\ LiquidationThresholds[b] = LiquidationThresholds[a]
      BY <1>1, <1>2, <1>3
    <3> QED
      BY <1>5, <3>1
  <2>2. PICK x \in Int, d \in Int :
          /\ x = ExactLiquidationThreshold(bals) /\ d = ExactBorrowedValue(bals)
          /\ ExactLiquidationThreshold(new) = x - paid * LiquidationThresholds[a]
          /\ ExactBorrowedValue(new) = d - paid * One
    BY <2>1, MeasuresAreTotals, CollateralIsTotal
  <2> QED
    BY <1>1, <1>4, <2>2 DEF NotLiquidated
<1> QED
  BY <1>6, <1>7, <1>8

\* For any currencies of one price, weight and threshold, and any balances, also
\* when the needed stablecoin is owed: turning stablecoins into it, and back,
\* changes nothing in what the position is worth and never makes it exceed its
\* borrow limit or its liquidation threshold (src/helpers/users.go:7-134, by the
\* measures of src/helpers/asset.go:323-425).
THEOREM ConversionKeepsSolventTheorem == Spec => ConversionKeepsSolvent
<1> DEFINE Solvent == /\ Equity(owned') = Equity(owned)
                      /\ WithinLimit(owned) => WithinLimit(owned')
                      /\ NotLiquidated(owned) => NotLiquidated(owned')
           Step == Interchangeable /\ requests' = requests => Solvent
<1>1. ASSUME Inv, ZeroSum, Next, Interchangeable, requests' = requests PROVE Solvent
  <2>1. CASE owned' = owned
    BY <2>1
  <2>2. ASSUME NEW b \in Assets, ConvertAsset(b) PROVE Solvent
    BY <1>1, <2>2, ConvertedIsWorthTheSame, SolventMoved DEF Inv, TypeOK
  <2>3. ASSUME NEW a \in Assets, NEW b \in Assets, Cleanup(a, b) PROVE Solvent
    BY <1>1, <2>3, CleanedIsWorthTheSame, SolventMoved DEF Inv, TypeOK
  <2>4. CASE ActivateReturns
    BY <2>1, <2>4 DEF ActivateReturns
  <2>5. ASSUME NEW a \in Assets, SkipAsset(a) PROVE Solvent
    BY <2>1, <2>5 DEF SkipAsset
  <2>6. ASSUME NEW a \in Assets, NEW n \in Amounts, Activate(a, n) PROVE Solvent
    BY <2>1, <2>6 DEF Activate
  <2>7. ASSUME NEW a \in Assets, NEW n \in Amounts,
               Credit(a, n) \/ Debit(a, n) \/ Lock(a, n) \/ Unlock(a, n)
        PROVE  FALSE
    <3>1. requests' = requests + 1 /\ requests \in Nat
      BY <1>1, <2>7, EquivalenceAssumption
         DEF Credit, Debit, Lock, Unlock, Request, Inv, TypeOK
    <3> QED
      BY <1>1, <3>1
  <2> HIDE DEF Solvent
  <2> QED
    BY <1>1, <2>2, <2>3, <2>4, <2>5, <2>6, <2>7 DEF Next
<1>2. (Inv /\ ZeroSum) /\ [Next]_vars => [Step]_vars
  BY <1>1
<1>3. Init => Inv /\ ZeroSum
  BY InitInv, InitZeroSum
<1>4. (Inv /\ ZeroSum) /\ [Next]_vars => (Inv /\ ZeroSum)'
  BY NextInv, NextZeroSum
<1>5. Spec => [][Step]_vars
  BY <1>2, <1>3, <1>4, PTL DEF Spec
<1> QED
  BY <1>5 DEF ConversionKeepsSolvent

-----------------------------------------------------------------------------
(* Amounts of a liquidity pool                                             *)

\* Products are numbers, and keep signs and order.
LEMMA Products ==
  /\ \A a, b \in Int : a * b \in Int
  /\ \A a, b \in Int : a >= 0 /\ b >= 0 => a * b >= 0
  /\ \A a, b \in Int : a > 0 /\ b > 0 => a * b > 0
  /\ \A a, b, c \in Int : a <= b /\ c >= 0 => a * c <= b * c
  /\ \A a, b, c \in Int : a < b /\ c > 0 => a * c < b * c
OBVIOUS

\* A positive factor cancels out.
LEMMA SameFactor ==
  ASSUME NEW a \in Int, NEW b \in Int, NEW c \in Int, c > 0
  PROVE  /\ a * c <= b * c => a <= b
         /\ a * c < b * c => a < b
<1>1. a > b => a * c > b * c
  BY Products
<1>2. a >= b => a * c >= b * c
  BY Products
<1>3. a * c \in Int /\ b * c \in Int
  BY Products
<1> QED
  BY <1>1, <1>2, <1>3

\* Division of natural numbers rounds down.
LEMMA DivFacts ==
  ASSUME NEW x \in Nat, NEW z \in Nat \ {0}
  PROVE  /\ x \div z \in Nat
         /\ (x \div z) * z <= x
         /\ x < ((x \div z) + 1) * z
OBVIOUS

\* The next power of two.
LEMMA DoublePower ==
  ASSUME NEW e \in Nat, e <= 2 * Width
  PROVE  \E a \in Nat \ {0} : a = 2 ^ e /\ 2 ^ (e + 1) = 2 * a
<1>1. PICK n \in Nat : n = 2 * Width
  BY PoolAssumption
<1>2. e \in 0 .. n + 1 /\ 1 \in 0 .. n + 1 /\ e + 1 <= n + 1
  BY <1>1
<1>3. PICK a \in Nat \ {0} : a = 2 ^ e
  BY <1>1, <1>2, PoolAssumption
<1>4. 2 ^ (e + 1) = 2 ^ e * 2 ^ 1
  BY <1>1, <1>2, PoolAssumption
<1>5. 2 ^ (e + 1) = a * 2
  BY <1>3, <1>4, PoolAssumption
<1> QED
  BY <1>3, <1>5

\* Powers of two, and amounts below the limit, which are read as they are.
LEMMA Powers ==
  /\ \A d, e \in 0 .. 2 * Width + 1 : d <= e => 2 ^ d <= 2 ^ e
  /\ Limit \in Nat /\ 2 <= Limit /\ Limit <= 2 ^ (Width - 1)
  /\ 2 ^ (Width - 1) \in Nat \ {0} /\ 2 ^ Width \in Nat \ {0} /\ 2 ^ Width = 2 * 2 ^ (Width - 1)
<1>1. Bits \in Nat \ {0} /\ Width \in Nat /\ Bits <= Width - 1
  BY PoolAssumption
<1>2. ASSUME NEW d \in 0 .. 2 * Width + 1, NEW e \in 0 .. 2 * Width + 1, d <= e
      PROVE  2 ^ d <= 2 ^ e
  <2>1. e - d \in 0 .. 2 * Width + 1 /\ d + (e - d) = e /\ e <= 2 * Width + 1
    BY <1>1, <1>2
  <2>2. PICK a \in Nat \ {0}, b \in Nat \ {0} : a = 2 ^ d /\ b = 2 ^ (e - d)
    BY <2>1, PoolAssumption
  <2>3. 2 ^ e = a * b
    BY <2>1, <2>2, PoolAssumption
  <2>4. a * b >= a
    <3>1. a * b = b * a
      OBVIOUS
    <3>2. 1 * a <= b * a
      BY Products
    <3> QED
      BY <3>1, <3>2
  <2> QED
    BY <2>2, <2>3, <2>4
<1>3. /\ 1 \in 0 .. 2 * Width + 1 /\ Bits \in 0 .. 2 * Width + 1
      /\ Width - 1 \in 0 .. 2 * Width + 1 /\ Width \in 0 .. 2 * Width + 1
      /\ (Width - 1) + 1 = Width /\ Width <= 2 * Width + 1
  BY <1>1
<1>4. 2 ^ Bits \in Nat /\ 2 <= 2 ^ Bits /\ 2 ^ Bits <= 2 ^ (Width - 1)
  <2>1. \A d, e \in 0 .. 2 * Width + 1 : d <= e => 2 ^ d <= 2 ^ e
    BY <1>2
  <2>2. 2 ^ Bits <= 2 ^ (Width - 1)
    BY <1>1, <1>3, <2>1
  <2>3. PICK d \in 0 .. 2 * Width + 1 : d = 1 /\ 2 ^ d = 2
    BY <1>3, PoolAssumption
  <2>4. 2 ^ d <= 2 ^ Bits
    <3>1. d <= Bits /\ Bits \in 0 .. 2 * Width + 1
      BY <1>1, <1>3, <2>3
    <3> QED
      BY <2>1, <3>1
  <2>5. 2 <= 2 ^ Bits
    BY <2>3, <2>4
  <2>6. 2 ^ Bits \in Nat
    BY <1>3, PoolAssumption
  <2> QED
    BY <2>2, <2>5, <2>6
<1>5. 2 ^ (Width - 1) \in Nat \ {0} /\ 2 ^ Width \in Nat \ {0}
  BY <1>3, PoolAssumption
<1>6. 2 ^ Width = 2 ^ (Width - 1) * 2
  <2>1. PICK e \in Nat : e = Width - 1 /\ e + 1 = Width /\ e <= 2 * Width
    BY <1>1
  <2>2. PICK a \in Nat : a = 2 ^ e /\ 2 ^ (e + 1) = 2 * a
    BY <2>1, DoublePower
  <2> QED
    BY <2>1, <2>2
<1> QED
  BY <1>2, <1>4, <1>5, <1>6 DEF Limit

\* A quotient lies between two powers of two.
LEMMA ExponentFacts ==
  ASSUME NEW x \in Nat, NEW z \in Nat \ {0}, z <= x, x < z * 2 ^ (2 * Width + 1)
  PROVE  /\ Exponent(x, z) \in 0 .. 2 * Width
         /\ z * 2 ^ Exponent(x, z) <= x
         /\ x < z * 2 ^ (Exponent(x, z) + 1)
<1> DEFINE Fits == {e \in 0 .. 2 * Width : z * 2 ^ e <= x}
<1>1. 0 \in Fits
  BY PoolAssumption
<1>2. PICK e \in Fits : \A d \in Fits : d <= e
  <2>1. Fits \in SUBSET (0 .. 2 * Width) /\ Fits # {} /\ 2 * Width \in Nat
    BY <1>1, PoolAssumption
  <2> QED
    BY <2>1, Greatest
<1>3. x < z * 2 ^ (e + 1)
  <2>1. CASE e = 2 * Width
    BY <2>1
  <2>2. CASE e # 2 * Width
    <3>1. e + 1 \in 0 .. 2 * Width
      BY <1>2, <2>2, PoolAssumption
    <3>2. e + 1 \notin Fits
      BY <1>2
    <3>3. 2 ^ (e + 1) \in Nat
      BY <3>1, PoolAssumption
    <3>4. ~ (z * 2 ^ (e + 1) <= x)
      BY <3>1, <3>2
    <3> QED
      BY <3>3, <3>4, Products
  <2> QED
    BY <2>1, <2>2
<1> DEFINE P(d) == z * 2 ^ d <= x /\ x < z * 2 ^ (d + 1)
<1>4. P(Exponent(x, z)) /\ Exponent(x, z) \in 0 .. 2 * Width
  <2>1. e \in 0 .. 2 * Width /\ P(e)
    BY <1>2, <1>3
  <2> QED
    BY <2>1 DEF Exponent
<1> QED
  BY <1>4

\* The quotient and the rest of a division.
LEMMA DivMod ==
  ASSUME NEW x \in Nat, NEW z \in Nat \ {0}
  PROVE  /\ x \div z \in Nat /\ x % z \in Nat /\ x % z < z
         /\ x = (x \div z) * z + (x % z)
OBVIOUS

\* The nearest integer is at most a half away.
LEMMA NearestFacts ==
  ASSUME NEW x \in Nat, NEW z \in Nat \ {0}
  PROVE  /\ Nearest(x, z) \in Nat
         /\ 2 * (Nearest(x, z) * z - x) <= z
         /\ 2 * (x - Nearest(x, z) * z) <= z
<1>1. PICK q \in Nat, r \in Nat : q = x \div z /\ r = x % z /\ r < z /\ x = q * z + r
  BY DivMod
<1>2. Nearest(x, z) = IF 2 * r > z \/ (2 * r = z /\ q % 2 = 1) THEN q + 1 ELSE q
  BY <1>1 DEF Nearest
<1>3. q * z \in Nat /\ (q + 1) * z = q * z + z
  BY <1>1, Products
<1>4. CASE Nearest(x, z) = q + 1
  <2>1. 2 * r >= z
    BY <1>1, <1>2, <1>4
  <2> QED
    BY <1>1, <1>3, <1>4, <2>1
<1>5. CASE Nearest(x, z) = q
  <2>1. 2 * r <= z
    BY <1>1, <1>2, <1>5
  <2> QED
    BY <1>1, <1>3, <1>5, <2>1
<1> QED
  BY <1>2, <1>4, <1>5

\* It grows with what is divided.
LEMMA NearestGrows ==
  ASSUME NEW x \in Nat, NEW w \in Nat, x <= w, NEW z \in Nat \ {0}
  PROVE  Nearest(x, z) <= Nearest(w, z)
<1>1. PICK q \in Nat, r \in Nat : q = x \div z /\ r = x % z /\ r < z /\ x = q * z + r
  BY DivMod
<1>2. PICK p \in Nat, s \in Nat : p = w \div z /\ s = w % z /\ s < z /\ w = p * z + s
  BY DivMod
<1>3. /\ Nearest(x, z) = IF 2 * r > z \/ (2 * r = z /\ q % 2 = 1) THEN q + 1 ELSE q
      /\ Nearest(w, z) = IF 2 * s > z \/ (2 * s = z /\ p % 2 = 1) THEN p + 1 ELSE p
  BY <1>1, <1>2 DEF Nearest
<1>4. q <= p
  <2>1. q * z < (p + 1) * z
    <3>1. q * z \in Nat /\ p * z \in Nat /\ (p + 1) * z = p * z + z
      BY <1>1, <1>2, Products
    <3> QED
      BY <1>1, <1>2, <3>1
  <2>2. q < p + 1
    BY <1>1, <1>2, <2>1, SameFactor
  <2> QED
    BY <1>1, <1>2, <2>2
<1>5. CASE q < p
  BY <1>1, <1>2, <1>3, <1>5
<1>6. CASE q = p
  <2>1. r <= s
    BY <1>1, <1>2, <1>6, Products
  <2> QED
    BY <1>1, <1>2, <1>3, <1>6, <2>1
<1> QED
  BY <1>1, <1>2, <1>4, <1>5, <1>6

\* Powers that add up to others.
LEMMA PowerOfSum ==
  ASSUME NEW d \in Nat, NEW e \in Nat, d + e <= 2 * Width + 1
  PROVE  \E a, b \in Nat \ {0} : a = 2 ^ d /\ b = 2 ^ e /\ 2 ^ (d + e) = a * b
<1>1. Width \in Nat
  BY PoolAssumption
<1>2. d \in 0 .. 2 * Width + 1 /\ e \in 0 .. 2 * Width + 1
  BY <1>1
<1>3. PICK a \in Nat \ {0}, b \in Nat \ {0} : a = 2 ^ d /\ b = 2 ^ e
  BY <1>2, PoolAssumption
<1>4. 2 ^ (d + e) = a * b
  BY <1>2, <1>3, PoolAssumption
<1> QED
  BY <1>3, <1>4

\* A float of less than one is one or nothing, ...
LEMMA FloatOfLess ==
  ASSUME NEW x \in Nat, NEW z \in Nat \ {0}, x < z,
         NEW f, f = Float(x, z)
  PROVE  /\ f \in Nat /\ f <= 1 /\ f * z <= 2 * x
         /\ f * z < x + z /\ (f + 1) * z > x
         /\ f * z > x => (f * z - x) * Limit <= x
         /\ f = 1 <=> (z - x) * (2 * Limit) <= z
<1>1. PICK a \in Nat \ {0}, b \in Nat \ {0} :
        a = 2 ^ Bits /\ b = 2 ^ 1 /\ 2 ^ (Bits + 1) = a * b
  <2>1. Bits \in Nat /\ 1 \in Nat /\ Bits + 1 <= 2 * Width + 1
    BY PoolAssumption
  <2> QED
    BY <2>1, PowerOfSum
<1>2. b = 2 /\ a = Limit /\ 2 ^ (Bits + 1) = 2 * Limit
  BY <1>1, PoolAssumption DEF Limit
<1>3. f = IF (z - x) * (2 * Limit) <= z THEN 1 ELSE 0
  <2>1. PICK c : c = 2 ^ (Bits + 1) /\ c = 2 * Limit
    BY <1>2
  <2>2. f = IF (z - x) * c <= z THEN 1 ELSE 0
    BY <2>1 DEF Float
  <2> QED
    BY <2>1, <2>2
<1>4. CASE (z - x) * (2 * Limit) <= z
  <2>1. f = 1
    BY <1>3, <1>4
  <2>2. PICK m \in Nat : m = (z - x) * Limit
    BY Powers, Products
  <2>3. (z - x) * (2 * Limit) = 2 * m
    BY <2>2, Powers
  <2>4. m >= z - x /\ m >= 2 * (z - x)
    <3>1. 2 * (z - x) <= Limit * (z - x) /\ Limit * (z - x) = m
      BY <2>2, Powers, Products
    <3> QED
      BY <3>1
  <2>5. m <= x
    BY <1>4, <2>2, <2>3, <2>4
  <2>6. z <= 2 * x /\ x > 0
    BY <1>4, <2>2, <2>3, <2>4
  <2>7. f * z = z /\ (f + 1) * z = 2 * z
    BY <2>1
  <2> QED
    BY <1>4, <2>1, <2>2, <2>5, <2>6, <2>7
<1>5. CASE ~ ((z - x) * (2 * Limit) <= z)
  <2>1. f = 0
    BY <1>3, <1>5
  <2> QED
    BY <1>5, <2>1
<1> QED
  BY <1>4, <1>5

\* ... one of at most Bits bits is the nearest integer of a multiple, divided again, ...
LEMMA FloatOfFew ==
  ASSUME NEW x \in Nat, NEW z \in Nat \ {0}, z <= x,
         NEW e \in Nat, e < Bits, e = Exponent(x, z), z * 2 ^ e <= x,
         NEW f, f = Float(x, z)
  PROVE  /\ f \in Nat /\ f * z <= 2 * x
         /\ f * z < x + z /\ (f + 1) * z > x
         /\ f * z > x => (f * z - x) * Limit <= x
<1>1. PICK k \in Nat : k = Bits - 1 - e /\ k + e = Bits - 1
  BY PoolAssumption
<1>2. PICK s \in Nat \ {0}, t \in Nat \ {0} : s = 2 ^ k /\ t = 2 ^ e /\ 2 ^ (Bits - 1) = s * t
  <2>1. k + e <= 2 * Width + 1
    BY <1>1, PoolAssumption
  <2>2. \E a, b \in Nat \ {0} : a = 2 ^ k /\ b = 2 ^ e /\ 2 ^ (k + e) = a * b
    BY <2>1, PowerOfSum
  <2> QED
    BY <1>1, <2>2
<1>3. Limit = 2 * (s * t)
  <2>1. PICK d \in Nat : d = Bits - 1 /\ d + 1 = Bits /\ d <= 2 * Width
    BY PoolAssumption
  <2>2. PICK a \in Nat : a = 2 ^ d /\ 2 ^ (d + 1) = 2 * a
    BY <2>1, DoublePower
  <2> QED
    BY <1>2, <2>1, <2>2 DEF Limit
<1>4. PICK xs \in Nat : xs = x * s
  BY Products
<1>5. PICK n \in Nat : /\ n = Nearest(xs, z)
                       /\ 2 * (n * z - xs) <= z /\ 2 * (xs - n * z) <= z
  BY <1>4, NearestFacts
<1>6. f = n \div s
  BY <1>1, <1>2, <1>4, <1>5 DEF Float
<1>7. f \in Nat /\ f * s <= n /\ n < (f + 1) * s
  BY <1>6, DivFacts
<1>8. /\ n * z \in Nat /\ f * z \in Nat /\ f * s \in Nat /\ (f * z) * s = (f * s) * z
      /\ (f * s) * z \in Nat
  BY <1>7, Products
<1>9. (f * z) * s <= n * z
  <2>1. (f * s) * z <= n * z
    BY <1>7, <1>8, Products
  <2> QED
    BY <1>8, <2>1
<1>10. PICK d \in Int : d = f * z - x
  BY <1>8
<1>11. d * s = (f * z) * s - xs /\ d * s \in Int
  BY <1>4, <1>8, <1>10, Products
<1>12. 2 * (d * s) <= z
  BY <1>5, <1>8, <1>9, <1>11
<1>13. d > 0 => d * Limit <= x
  <2> SUFFICES ASSUME d > 0 PROVE d * Limit <= x
    OBVIOUS
  <2>1. d * Limit = (2 * (d * s)) * t
    BY <1>3
  <2>2. (2 * (d * s)) * t <= z * t
    BY <1>11, <1>12, Products
  <2>3. z * t \in Nat /\ (2 * (d * s)) * t \in Int /\ z * t <= x
    BY <1>2, <1>11, Products
  <2> QED
    BY <2>1, <2>2, <2>3
<1>14. 2 * d <= z
  <2>1. CASE d <= 0
    BY <2>1
  <2>2. CASE d > 0
    <3>1. 1 * d <= s * d /\ s * d = d * s
      BY <2>2, Products
    <3> QED
      BY <1>11, <1>12, <3>1
  <2> QED
    BY <2>1, <2>2
<1>15. f * z < x + z /\ f * z <= 2 * x
  BY <1>8, <1>10, <1>14
<1>16. (f + 1) * z > x
  <2>1. PICK g \in Nat : g = f + 1
    BY <1>7
  <2>2. (n + 1) * z <= (g * s) * z
    <3>1. g * s \in Nat
      BY <2>1, Products
    <3> QED
      BY <1>7, <2>1, <3>1, Products
  <2>3. (n + 1) * z = n * z + z /\ (g * s) * z = (g * z) * s /\ (g * z) * s \in Nat /\ g * z \in Nat
    BY <2>1, Products
  <2>4. x * s < (g * z) * s
    BY <1>4, <1>5, <1>8, <2>2, <2>3
  <2>5. x < g * z
    BY <2>3, <2>4, SameFactor
  <2> QED
    BY <2>1, <2>5
<1> QED
  BY <1>7, <1>8, <1>10, <1>13, <1>15, <1>16

\* ... and one of more bits is not below the limit.
LEMMA FloatOfMany ==
  ASSUME NEW x \in Nat, NEW z \in Nat \ {0}, z <= x,
         NEW e \in 0 .. 2 * Width, e >= Bits, e = Exponent(x, z), z * 2 ^ e <= x,
         NEW f, f = Float(x, z)
  PROVE  f \in Nat /\ f * z <= 2 * x /\ f >= Limit
<1>1. /\ Bits - 1 \in Nat /\ e + 1 - Bits \in Nat /\ (Bits - 1) + (e + 1 - Bits) = e
      /\ e <= 2 * Width + 1
  BY PoolAssumption
<1>2. PICK s \in Nat \ {0}, t \in Nat \ {0} :
        s = 2 ^ (Bits - 1) /\ t = 2 ^ (e + 1 - Bits) /\ 2 ^ e = s * t
  <2>1. \E a, b \in Nat \ {0} :
          a = 2 ^ (Bits - 1) /\ b = 2 ^ (e + 1 - Bits) /\ 2 ^ ((Bits - 1) + (e + 1 - Bits)) = a * b
    BY <1>1, PowerOfSum
  <2> QED
    BY <1>1, <2>1
<1>3. PICK zt \in Nat \ {0} : zt = z * t
  BY Products
<1>4. PICK n \in Nat : /\ n = Nearest(x, zt)
                       /\ 2 * (n * zt - x) <= zt /\ 2 * (x - n * zt) <= zt
  BY <1>3, NearestFacts
<1>5. f = n * t
  <2>1. ~ (x < z) /\ ~ (e < Bits)
    BY PoolAssumption
  <2> QED
    BY <1>2, <1>3, <1>4, <2>1 DEF Float
<1>6. s * zt <= x /\ s * zt \in Nat /\ n * zt \in Nat
  <2>1. s * zt = z * (s * t)
    BY <1>3
  <2> QED
    BY <1>2, <1>3, <1>4, <2>1, Products
<1>7. f \in Nat /\ f * z = n * zt
  BY <1>3, <1>5, Products
<1>8. zt <= x
  <2>1. 1 * zt <= s * zt
    BY Products
  <2> QED
    BY <1>6, <2>1
<1>9. n >= s
  <2> SUFFICES ASSUME n + 1 <= s PROVE FALSE
    OBVIOUS
  <2>1. (n + 1) * zt <= s * zt /\ (n + 1) * zt = n * zt + zt
    BY Products
  <2> QED
    BY <1>4, <1>6, <2>1
<1>10. f >= Limit
  <2>1. s * t <= n * t /\ s * t \in Nat
    BY <1>9, Products
  <2>2. Limit <= 2 ^ e
    <3>1. Bits \in 0 .. 2 * Width + 1 /\ e \in 0 .. 2 * Width + 1
      BY PoolAssumption
    <3> QED
      BY <3>1, Powers DEF Limit
  <2> QED
    BY <1>2, <1>5, <2>1, <2>2, Powers
<1> QED
  BY <1>4, <1>6, <1>7, <1>8, <1>10

\* A float is a number, at most twice what it stands for.
LEMMA FloatType ==
  ASSUME NEW x \in Nat, NEW z \in Nat \ {0}, x < z * 2 ^ (2 * Width + 1)
  PROVE  Float(x, z) \in Nat /\ Float(x, z) * z <= 2 * x
<1>1. CASE x < z
  BY <1>1, FloatOfLess
<1>2. CASE z <= x
  <2>1. PICK e \in 0 .. 2 * Width : e = Exponent(x, z) /\ z * 2 ^ e <= x
    BY <1>2, ExponentFacts
  <2>2. CASE e < Bits
    BY <1>2, <2>1, <2>2, FloatOfFew
  <2>3. CASE e >= Bits
    BY <1>2, <2>1, <2>3, FloatOfMany
  <2> QED
    BY <2>1, <2>2, <2>3, PoolAssumption
<1> QED
  BY <1>1, <1>2

\* Below the limit it is less than one away, and never above by as much as a part in Limit.
LEMMA FloatFacts ==
  ASSUME NEW x \in Nat, NEW z \in Nat \ {0}, x < z * 2 ^ (2 * Width + 1),
         NEW f, f = Float(x, z), f < Limit \/ x < z * Limit
  PROVE  /\ f \in Nat
         /\ f * z < x + z /\ (f + 1) * z > x
         /\ f * z > x => (f * z - x) * Limit <= x
<1>1. CASE x < z
  BY <1>1, FloatOfLess
<1>2. CASE z <= x
  <2>1. PICK e \in 0 .. 2 * Width : e = Exponent(x, z) /\ z * 2 ^ e <= x
    BY <1>2, ExponentFacts
  <2>2. e < Bits
    <3> SUFFICES ASSUME e >= Bits PROVE FALSE
      BY <2>1, PoolAssumption
    <3>1. f >= Limit /\ f \in Nat
      BY <1>2, <2>1, FloatOfMany
    <3>2. Bits \in 0 .. 2 * Width + 1 /\ e \in 0 .. 2 * Width + 1
      BY PoolAssumption
    <3>3. PICK b \in Nat : b = 2 ^ e /\ Limit <= b
      BY <3>2, Powers, PoolAssumption DEF Limit
    <3>4. z * Limit <= z * b /\ z * b \in Nat /\ z * Limit \in Nat
      BY <3>3, Powers, Products
    <3> QED
      BY <2>1, <3>1, <3>3, <3>4, Powers
  <2> QED
    BY <1>2, <2>1, <2>2, FloatOfFew
<1> QED
  BY <1>1, <1>2

\* The greater of two quotients is not taken for less.
LEMMA FloatGrows ==
  ASSUME NEW x \in Nat, NEW w \in Nat, x <= w, NEW z \in Nat \ {0}, w < z * 2 ^ (2 * Width + 1),
         NEW f, f = Float(x, z), NEW g, g = Float(w, z), f < Limit, g < Limit
  PROVE  f <= g
<1>1. PICK b \in Nat : b = z * 2 ^ (2 * Width + 1)
  <2>1. 2 * Width + 1 \in 0 .. 2 * Width + 1
    BY PoolAssumption
  <2>2. PICK c \in Nat : c = 2 ^ (2 * Width + 1)
    BY <2>1, PoolAssumption
  <2> QED
    BY <2>2, Products
<1>2. x < b /\ w < b
  BY <1>1
<1>3. f \in Nat /\ f * z < x + z
  BY <1>1, <1>2, FloatFacts
<1>4. g \in Nat /\ (g + 1) * z > w
  BY <1>1, <1>2, FloatFacts
<1>5. PICK n \in Nat : n = x \div z /\ n * z <= x /\ x < (n + 1) * z
  BY DivFacts
<1>6. PICK m \in Nat : m = w \div z /\ m * z <= w /\ w < (m + 1) * z
  BY DivFacts
<1>7. f <= n + 1
  <2>1. (n + 1) * z + z = (n + 2) * z /\ f * z \in Nat /\ (n + 2) * z \in Nat /\ (n + 1) * z \in Nat
    BY <1>3, Products
  <2>2. f * z < (n + 2) * z
    BY <1>3, <1>5, <2>1
  <2> QED
    BY <1>3, <2>2, SameFactor
<1>8. m <= g
  <2>1. m * z < (g + 1) * z
    BY <1>4, <1>6, Products
  <2> QED
    BY <1>4, <2>1, SameFactor
<1>9. n <= m
  <2>1. n * z < (m + 1) * z
    BY <1>5, <1>6, Products
  <2> QED
    BY <2>1, SameFactor
<1>10. CASE n < m
  BY <1>3, <1>4, <1>7, <1>8, <1>10
<1>11. CASE n = m /\ w < z
  <2>1. x < z
    BY <1>11
  <2>2. f <= 1 /\ (f = 1 <=> (z - x) * (2 * Limit) <= z)
    BY <2>1, FloatOfLess
  <2>3. g <= 1 /\ (g = 1 <=> (z - w) * (2 * Limit) <= z)
    BY <1>11, FloatOfLess
  <2>4. (z - w) * (2 * Limit) <= (z - x) * (2 * Limit)
    BY Powers, Products
  <2>5. (z - w) * (2 * Limit) \in Int /\ (z - x) * (2 * Limit) \in Int
    BY Powers, Products
  <2>6. f = 1 => g = 1
    BY <2>2, <2>3, <2>4, <2>5
  <2> QED
    BY <1>3, <1>4, <2>2, <2>6
<1>12. CASE n = m /\ ~ (w < z)
  <2>1. z <= w /\ z <= x
    <3>1. n >= 1
      <4>1. 1 * z < (n + 1) * z
        BY <1>6, <1>12, Products
      <4> QED
        BY <4>1, SameFactor
    <3>2. 1 * z <= n * z
      BY <3>1, Products
    <3> QED
      BY <1>5, <1>12, <3>2, Products
  <2>2. PICK d \in 0 .. 2 * Width : d = Exponent(x, z) /\ z * 2 ^ d <= x /\ x < z * 2 ^ (d + 1)
    BY <1>1, <1>2, <2>1, ExponentFacts
  <2>3. PICK e \in 0 .. 2 * Width : e = Exponent(w, z) /\ z * 2 ^ e <= w /\ w < z * 2 ^ (e + 1)
    BY <2>1, ExponentFacts
  <2>4. /\ d \in 0 .. 2 * Width + 1 /\ e \in 0 .. 2 * Width + 1
        /\ d + 1 \in 0 .. 2 * Width + 1 /\ e + 1 \in 0 .. 2 * Width + 1
    BY PoolAssumption
  <2>5. PICK pd \in Nat, pe \in Nat, qd \in Nat, qe \in Nat :
          pd = 2 ^ d /\ pe = 2 ^ e /\ qd = 2 ^ (d + 1) /\ qe = 2 ^ (e + 1)
    BY <2>4, PoolAssumption
  <2>6. z * pd <= x /\ x < z * qd /\ z * pe <= w /\ w < z * qe
    BY <2>2, <2>3, <2>5
  <2>7. pd < qe
    <3>1. pd * z < qe * z
      <4>1. pd * z = z * pd /\ qe * z = z * qe /\ z * pd \in Nat /\ z * qe \in Nat
        BY Products
      <4> QED
        BY <2>6, <4>1
    <3> QED
      BY <3>1, SameFactor
  <2>8. pe < qd
    <3>1. pe * z <= w /\ w < (n + 1) * z
      BY <1>6, <1>12, <2>6
    <3>2. pe < n + 1
      <4>1. pe * z < (n + 1) * z
        BY <3>1, Products
      <4> QED
        BY <4>1, SameFactor
    <3>3. n < qd
      <4>1. n * z < qd * z
        <5>1. qd * z = z * qd /\ z * qd \in Nat /\ n * z \in Nat
          BY Products
        <5> QED
          BY <1>5, <2>6, <5>1
      <4> QED
        BY <4>1, SameFactor
    <3> QED
      BY <3>2, <3>3
  <2>9. d = e
    <3>1. ~ (e + 1 <= d)
      BY <2>4, <2>5, <2>7, Powers
    <3>2. ~ (d + 1 <= e)
      BY <2>4, <2>5, <2>8, Powers
    <3> QED
      BY <3>1, <3>2
  <2>10. CASE d < Bits
    <3>1. Bits - 1 - d \in 0 .. 2 * Width + 1
      BY <2>10, PoolAssumption
    <3>2. PICK s \in Nat \ {0} : s = 2 ^ (Bits - 1 - d)
      BY <3>1, PoolAssumption
    <3>3. f = Nearest(x * s, z) \div s /\ g = Nearest(w * s, z) \div s
      BY <2>1, <2>2, <2>3, <2>9, <2>10, <3>2 DEF Float
    <3>4. x * s \in Nat /\ w * s \in Nat /\ x * s <= w * s
      BY <3>2, Products
    <3>5. PICK p \in Nat, q \in Nat : p = Nearest(x * s, z) /\ q = Nearest(w * s, z) /\ p <= q
      <4>1. Nearest(x * s, z) \in Nat /\ Nearest(w * s, z) \in Nat
        BY <3>4, NearestFacts
      <4>2. Nearest(x * s, z) <= Nearest(w * s, z)
        BY <3>4, NearestGrows
      <4> QED
        BY <4>1, <4>2
    <3>6. f * s <= p /\ q < (g + 1) * s
      BY <3>2, <3>3, <3>5, DivFacts
    <3>7. f * s < (g + 1) * s
      BY <1>3, <1>4, <3>2, <3>5, <3>6, Products
    <3>8. f < g + 1
      BY <1>3, <1>4, <3>2, <3>7, SameFactor
    <3> QED
      BY <1>3, <1>4, <3>8
  <2>11. CASE d >= Bits
    <3>1. f >= Limit
      BY <2>1, <2>2, <2>11, FloatOfMany
    <3> QED
      BY <1>3, <3>1, Powers
  <2> QED
    BY <2>10, <2>11, PoolAssumption
<1> QED
  BY <1>9, <1>10, <1>11, <1>12

\* The parts of amounts are in the domain of Float.
LEMMA Domain ==
  ASSUME NEW a \in Nat, NEW b \in Nat, NEW z \in Nat \ {0}, a <= 2 ^ Width, b <= 2 ^ Width
  PROVE  a * b \in Nat /\ a * b < z * 2 ^ (2 * Width + 1)
<1>1. Width \in Nat /\ Width + 1 \in Nat /\ Width + (Width + 1) = 2 * Width + 1
  BY PoolAssumption
<1>2. PICK w \in Nat \ {0}, v \in Nat \ {0} :
        w = 2 ^ Width /\ v = 2 ^ (Width + 1) /\ 2 ^ (2 * Width + 1) = w * v
  <2>1. \E c, d \in Nat \ {0} :
          c = 2 ^ Width /\ d = 2 ^ (Width + 1) /\ 2 ^ (Width + (Width + 1)) = c * d
    BY <1>1, PowerOfSum
  <2> QED
    BY <1>1, <2>1
<1>3. v = w * 2
  <2>1. Width <= 2 * Width
    BY <1>1
  <2>2. PICK c \in Nat : c = 2 ^ Width /\ 2 ^ (Width + 1) = 2 * c
    BY <1>1, <2>1, DoublePower
  <2> QED
    BY <1>2, <2>2
<1>4. a <= w /\ b <= w
  BY <1>2
<1>5. a * b <= w * b /\ w * b <= w * w /\ a * b \in Nat /\ w * b \in Nat /\ w * w \in Nat
  <2>1. b * w <= w * w /\ b * w = w * b
    BY <1>4, Products
  <2> QED
    BY <1>4, <2>1, Products
<1>6. w * v = (w * w) * 2 /\ w * w > 0
  BY <1>3, Products
<1>7. a * b < w * v /\ w * v \in Nat
  BY <1>5, <1>6
<1>8. w * v <= z * (w * v)
  <2>1. 1 * (w * v) <= z * (w * v)
    BY <1>7, Products
  <2> QED
    BY <1>7, <2>1
<1> QED
  BY <1>2, <1>5, <1>7, <1>8, Products

\* An amount read as a number with a sign, without the sign.
LEMMA SignedFacts ==
  ASSUME NEW n \in Amount
  PROVE  /\ n \in Nat /\ Signed(n) \in Nat /\ 2 * Signed(n) <= 2 ^ Width
         /\ n > 0 => Signed(n) > 0
         /\ n < Limit => Signed(n) = n /\ IsInt64(n)
<1>1. PICK h \in Nat \ {0}, w \in Nat : h = 2 ^ (Width - 1) /\ w = 2 ^ Width /\ w = 2 * h /\ Limit <= h
  BY Powers
<1>2. n \in Nat /\ n < w
  BY <1>1 DEF Amount
<1>3. Signed(n) = IF n < h THEN n ELSE w - n
  BY <1>1 DEF Signed, IsInt64
<1>4. n < Limit => n < h
  BY <1>1, <1>2, Powers
<1> QED
  BY <1>1, <1>2, <1>3, <1>4 DEF IsInt64

\* A portion is a number.
LEMMA PortionType ==
  ASSUME NEW x \in Amount, NEW y \in Amount, NEW z \in Amount, z > 0
  PROVE  Portion(x, y, z) \in Nat
<1>1. PICK a \in Nat, b \in Nat, c \in Nat \ {0} :
        /\ a = Signed(x) /\ b = Signed(y) /\ c = Signed(z)
        /\ 2 * a <= 2 ^ Width /\ 2 * b <= 2 ^ Width
  BY SignedFacts
<1>2. PICK f \in Nat : f = Float(a, 1) /\ f <= 2 * a
  <2>1. a * 1 < 1 * 2 ^ (2 * Width + 1)
    <3>1. a <= 2 ^ Width /\ 1 <= 2 ^ Width
      BY <1>1, Powers
    <3> QED
      BY <3>1, Domain
  <2>2. a < 1 * 2 ^ (2 * Width + 1)
    BY <2>1
  <2>3. Float(a, 1) \in Nat /\ Float(a, 1) * 1 <= 2 * a
    BY <2>2, FloatType
  <2> QED
    BY <2>3
<1>3. f * b \in Nat /\ f * b < c * 2 ^ (2 * Width + 1)
  <2>1. f <= 2 ^ Width /\ b <= 2 ^ Width
    BY <1>1, <1>2, Powers
  <2> QED
    BY <2>1, Domain
<1>4. Float(f * b, c) \in Nat
  BY <1>3, FloatType
<1> QED
  BY <1>1, <1>2, <1>4 DEF Portion

\* Numbers below the limit are exact.
LEMMA FloatOfExact ==
  ASSUME NEW x \in Nat, x < 2 ^ (2 * Width + 1), NEW f, f = Float(x, 1), x < Limit \/ f < Limit
  PROVE  f = x
<1>1. PICK b \in Nat : b = 2 ^ (2 * Width + 1)
  <2>1. 2 * Width + 1 \in 0 .. 2 * Width + 1
    BY PoolAssumption
  <2> QED
    BY <2>1, PoolAssumption
<1>2. x < 1 * 2 ^ (2 * Width + 1) /\ (f < Limit \/ x < 1 * Limit)
  BY <1>1, Powers
<1>3. f \in Nat /\ f * 1 < x + 1 /\ (f + 1) * 1 > x
  BY <1>2, FloatFacts
<1> QED
  BY <1>3

\* What x * y / z may be taken for, below the limit.
LEMMA PortionFacts ==
  ASSUME NEW x \in Nat, NEW y \in Nat, NEW z \in Nat \ {0}, x < Limit, y < Limit, z < Limit,
         NEW q, q = Portion(x, y, z), q < Limit \/ x * y < z * Limit
  PROVE  /\ q \in Nat /\ q = Float(x * y, z)
         /\ x * y \in Nat /\ x * y < z * 2 ^ (2 * Width + 1)
         /\ x * y - z < q * z /\ q * z < x * y + z
         /\ q * z > x * y => (q * z - x * y) * Limit <= x * y
<1>1. x <= 2 ^ Width /\ y <= 2 ^ Width /\ 1 <= 2 ^ Width
  BY Powers
<1>2. x \in Amount /\ y \in Amount /\ z \in Amount
  BY Powers DEF Amount
<1>3. Signed(x) = x /\ Signed(y) = y /\ Signed(z) = z
  BY <1>2, SignedFacts
<1>4. Float(x, 1) = x
  <2>1. x * 1 < 1 * 2 ^ (2 * Width + 1)
    BY <1>1, Domain
  <2>2. PICK b \in Nat : b = 2 ^ (2 * Width + 1)
    <3>1. 2 * Width + 1 \in 0 .. 2 * Width + 1
      BY PoolAssumption
    <3> QED
      BY <3>1, PoolAssumption
  <2>3. x < 2 ^ (2 * Width + 1)
    BY <2>1, <2>2
  <2> QED
    BY <2>3, FloatOfExact
<1>5. q = Float(x * y, z)
  BY <1>3, <1>4 DEF Portion
<1>6. PICK xy \in Nat : xy = x * y /\ xy < z * 2 ^ (2 * Width + 1)
  BY <1>1, Domain
<1>7. q = Float(xy, z) /\ (q < Limit \/ xy < z * Limit)
  BY <1>5, <1>6
<1>8. /\ q \in Nat /\ q * z < xy + z /\ (q + 1) * z > xy
      /\ q * z > xy => (q * z - xy) * Limit <= xy
  BY <1>6, <1>7, FloatFacts
<1>9. (q + 1) * z = q * z + z /\ q * z \in Nat
  BY <1>8, Products
<1>10. xy - z < q * z
  BY <1>8, <1>9
<1> QED
  BY <1>5, <1>6, <1>8, <1>10

\* The whole is its own portion.
LEMMA PortionOfAll ==
  ASSUME NEW x \in Nat, NEW z \in Nat \ {0}, x < Limit, z < Limit
  PROVE  Portion(x, z, z) = x
<1>1. x * z < z * Limit
  BY Powers, Products
<1>2. PICK q \in Nat : q = Portion(x, z, z) /\ x * z - z < q * z /\ q * z < x * z + z
  BY <1>1, PortionFacts
<1>3. (x - 1) * z < q * z /\ q * z < (x + 1) * z
  BY <1>2
<1>4. x - 1 < q /\ q < x + 1
  BY <1>3, SameFactor
<1> QED
  BY <1>2, <1>4

\* No part of an amount is more than the amount.
LEMMA PortionWithin ==
  ASSUME NEW x \in Nat, NEW s \in Nat, NEW z \in Nat \ {0}, x < Limit, s <= z, z < Limit
  PROVE  x * s < z * Limit /\ Portion(x, s, z) \in Nat /\ Portion(x, s, z) <= x
<1>1. x * s <= x * z /\ x * z < Limit * z /\ Limit * z = z * Limit
  <2>1. s * x <= z * x /\ s * x = x * s /\ z * x = x * z
    BY Products
  <2> QED
    BY <2>1, Powers, Products
<1>2. x * s \in Nat /\ x * z \in Nat /\ z * Limit \in Nat
  BY Powers, Products
<1>3. x * s < z * Limit
  BY <1>1, <1>2
<1>4. PICK q \in Nat : q = Portion(x, s, z) /\ q * z < x * s + z
  <2>1. s < Limit
    BY Powers
  <2> QED
    BY <1>3, <2>1, PortionFacts
<1>5. q * z < (x + 1) * z
  <2>1. (x + 1) * z = x * z + z /\ q * z \in Nat
    BY <1>4, Products
  <2> QED
    BY <1>1, <1>2, <1>4, <2>1
<1>6. q < x + 1
  BY <1>5, SameFactor
<1> QED
  BY <1>3, <1>4, <1>6

\* A part of an amount that is not all of it leaves something.
LEMMA PortionOfPart ==
  ASSUME NEW x \in Nat \ {0}, NEW s \in Nat, NEW z \in Nat \ {0},
         s < z, x < Limit, z < Limit
  PROVE  Portion(x, s, z) < x
<1>1. PICK q \in Nat : q = Portion(x, s, z) /\ (q * z > x * s => (q * z - x * s) * Limit <= x * s)
  <2>1. x \in Nat /\ s <= z /\ s < Limit
    BY Powers
  <2>2. x * s < z * Limit
    BY <2>1, PortionWithin
  <2> QED
    BY <2>1, <2>2, PortionFacts
<1> SUFFICES ASSUME q >= x PROVE FALSE
  BY <1>1
<1>2. Limit \in Nat /\ s < Limit
  BY Powers
<1>3. q * z >= x * z /\ x * z >= x * (s + 1) /\ x * (s + 1) = x * s + x
  BY Products
<1>4. x * s \in Nat /\ x * z \in Nat /\ q * z \in Nat
  BY Products
<1>5. q * z - x * s >= x
  BY <1>3, <1>4
<1>6. (q * z - x * s) * Limit >= x * Limit
  BY <1>2, <1>4, <1>5, Products
<1>7. x * Limit <= x * s
  <2>1. (q * z - x * s) * Limit <= x * s
    BY <1>1, <1>4, <1>5
  <2>2. (q * z - x * s) * Limit \in Int /\ x * Limit \in Int
    BY <1>2, <1>4, Products
  <2> QED
    BY <1>4, <1>6, <2>1, <2>2
<1>8. x * s < x * Limit
  BY <1>2, Products
<1> QED
  BY <1>2, <1>4, <1>7, <1>8, Products

\* A part of a larger amount is not smaller.
LEMMA PortionGrows ==
  ASSUME NEW x \in Nat, NEW w \in Nat, x <= w, NEW y \in Nat, NEW z \in Nat \ {0},
         w < Limit, y < Limit, z < Limit,
         Portion(x, y, z) < Limit, Portion(w, y, z) < Limit
  PROVE  Portion(x, y, z) <= Portion(w, y, z)
<1>1. PICK xy \in Nat : xy = x * y /\ Portion(x, y, z) = Float(xy, z)
  <2>1. x < Limit
    BY Powers
  <2> QED
    BY <2>1, PortionFacts
<1>2. PICK wy \in Nat : /\ wy = w * y /\ Portion(w, y, z) = Float(wy, z)
                        /\ wy < z * 2 ^ (2 * Width + 1)
  BY PortionFacts
<1>3. xy <= wy
  BY <1>1, <1>2, Products
<1> QED
  BY <1>1, <1>2, <1>3, FloatGrows

-----------------------------------------------------------------------------
(* What rounding costs a provider: h of the S shares stand for h * R / S of *)
(* a reserve R, and T is what the provider may still take of it, ...       *)

\* ... who returns k of them takes out.
LEMMA OwnRemoval ==
  ASSUME NEW h \in Nat, NEW R \in Nat, NEW T \in Nat, NEW S \in Nat, NEW k \in Nat, NEW out \in Nat,
         k <= h, h <= S, k < S, out <= R, h * R <= T * S,
         R * k - S < out * S, out * S < R * k + S
  PROVE  /\ (h - k) * (R - out) <= (T - out + 1) * (S - k)
         /\ T - out + 1 >= 0
<1> DEFINE d == out * S - R * k
           A == (h - k) * (R - out)
           B == (T - out + 1) * (S - k)
<1>1. /\ d \in Int /\ A \in Int /\ B \in Int /\ T * S - h * R \in Nat
      /\ S - k \in Nat /\ S - h \in Nat /\ h - k \in Nat
  BY Products
<1>2. B * S - A * S = (S - k) * (T * S - h * R) + ((S - k) * (S - d) + (h - k) * d)
  OBVIOUS
<1>3. (S - k) * (S - d) + (h - k) * d = (S - k) * S + (S - h) * (-d)
  OBVIOUS
<1>4. S - d \in Nat
  BY Products
<1>5. (S - k) * (T * S - h * R) >= 0
  BY <1>1, Products
<1>6. A >= 0
  BY Products
<1> HIDE DEF d, A, B
<1>7. (S - k) * (S - d) + (h - k) * d >= 0
  <2>1. CASE d >= 0
    <3>1. (S - k) * (S - d) >= 0 /\ (h - k) * d >= 0
      BY <1>1, <1>4, <2>1, Products
    <3> QED
      BY <1>1, <1>4, <3>1, Products
  <2>2. CASE d < 0
    <3>1. (S - k) * S >= 0 /\ (S - h) * (-d) >= 0
      BY <1>1, <2>2, Products
    <3> QED
      BY <1>1, <1>3, <3>1, Products
  <2> QED
    BY <1>1, <2>1, <2>2
<1>8. A * S <= B * S
  <2>1. B * S \in Int /\ A * S \in Int
    BY <1>1, Products
  <2>2. (S - k) * (S - d) + (h - k) * d \in Int /\ (S - k) * (T * S - h * R) \in Int
    BY <1>1, <1>4, Products
  <2> QED
    BY <1>2, <1>5, <1>7, <2>1, <2>2
<1>9. A <= B
  BY <1>1, <1>8, SameFactor
<1>10. T - out + 1 >= 0
  <2>1. 0 * (S - k) <= (T - out + 1) * (S - k)
    BY <1>1, <1>6, <1>9 DEF B
  <2> QED
    BY <1>1, <2>1, SameFactor
<1> QED
  BY <1>9, <1>10 DEF A, B

\* ... the others when k of their shares are returned.
LEMMA OthersRemoval ==
  ASSUME NEW h \in Nat, NEW R \in Nat, NEW T \in Nat, NEW S \in Nat, NEW k \in Nat, NEW out \in Nat,
         S > 0, h + k <= S, out <= R, h * R <= T * S, R * k - S < out * S
  PROVE  h * (R - out) <= (T + 1) * (S - k)
<1> DEFINE d == out * S - R * k
           A == h * (R - out)
           B == (T + 1) * (S - k)
<1>1. /\ d \in Int /\ A \in Int /\ B \in Int /\ T * S - h * R \in Nat
      /\ S - k \in Nat /\ S - k - h \in Nat /\ S + d >= 0
  BY Products
<1>2. B * S - A * S = (S - k) * (T * S - h * R) + ((S - k - h) * S + h * (S + d))
  OBVIOUS
<1> HIDE DEF d, A, B
<1>3. (S - k) * (T * S - h * R) >= 0 /\ (S - k - h) * S >= 0 /\ h * (S + d) >= 0
  BY <1>1, Products
<1>4. A * S <= B * S
  <2>1. B * S \in Int /\ A * S \in Int /\ (S - k) * (T * S - h * R) \in Int
        /\ (S - k - h) * S \in Int /\ h * (S + d) \in Int
    BY <1>1, Products
  <2> QED
    BY <1>2, <1>3, <2>1
<1>5. A <= B
  BY <1>1, <1>4, SameFactor
<1> QED
  BY <1>5 DEF A, B

\* ... who adds i to the reserve for o new shares.
LEMMA OwnDeposit ==
  ASSUME NEW h \in Nat, NEW R \in Nat, NEW T \in Nat, NEW S \in Nat, NEW i \in Nat, NEW o \in Nat,
         S > 0, h <= S, h * R <= T * S, o * R - i * S <= S + o
  PROVE  (h + o) * (R + i) <= (T + i + 1) * (S + o)
<1> DEFINE d == S + o - (o * R - i * S)
           A == (h + o) * (R + i)
           B == (T + i + 1) * (S + o)
<1>1. d \in Nat /\ A \in Int /\ B \in Int /\ T * S - h * R \in Nat /\ S - h \in Nat
  BY Products
<1>2. B * S - A * S = (S + o) * (T * S - h * R) + ((S - h) * d + h * (S + o))
  OBVIOUS
<1> HIDE DEF d, A, B
<1>3. (S + o) * (T * S - h * R) >= 0 /\ (S - h) * d >= 0 /\ h * (S + o) >= 0
  BY <1>1, Products
<1>4. A * S <= B * S
  <2>1. B * S \in Int /\ A * S \in Int /\ (S + o) * (T * S - h * R) \in Int
        /\ (S - h) * d \in Int /\ h * (S + o) \in Int
    BY <1>1, Products
  <2> QED
    BY <1>2, <1>3, <2>1
<1>5. A <= B
  BY <1>1, <1>4, SameFactor
<1> QED
  BY <1>5 DEF A, B

\* ... the others when i is added for o new shares.
LEMMA OthersDeposit ==
  ASSUME NEW h \in Nat, NEW R \in Nat, NEW T \in Nat, NEW S \in Nat, NEW i \in Nat, NEW o \in Nat,
         S > 0, h <= S, h * R <= T * S, i * S - o * R <= S + o
  PROVE  h * (R + i) <= (T + 1) * (S + o)
<1> DEFINE d == S + o - (i * S - o * R)
           A == h * (R + i)
           B == (T + 1) * (S + o)
<1>1. d \in Nat /\ A \in Int /\ B \in Int /\ T * S - h * R \in Nat /\ S - h \in Nat
  BY Products
<1>2. B * S - A * S = (S + o) * (T * S - h * R) + ((S - h) * (S + o) + h * d)
  OBVIOUS
<1> HIDE DEF d, A, B
<1>3. (S + o) * (T * S - h * R) >= 0 /\ (S - h) * (S + o) >= 0 /\ h * d >= 0
  BY <1>1, Products
<1>4. A * S <= B * S
  <2>1. B * S \in Int /\ A * S \in Int /\ (S + o) * (T * S - h * R) \in Int
        /\ (S - h) * (S + o) \in Int /\ h * d \in Int
    BY <1>1, Products
  <2> QED
    BY <1>2, <1>3, <2>1
<1>5. A <= B
  BY <1>1, <1>4, SameFactor
<1> QED
  BY <1>5 DEF A, B

\* The portions of two amounts.
LEMMA PortionsAgree ==
  ASSUME NEW B \in Nat \ {0}, NEW Q \in Nat, NEW S \in Nat, NEW x \in Nat,
         Q <= S, S < Limit, B < Limit, x < Limit,
         NEW i, i = Portion(Q, x, B), NEW o, o = Portion(S, x, B), i < Limit, o < Limit
  PROVE  /\ i \in Nat /\ o \in Nat /\ i <= o
         /\ o * Q - i * S <= S + o
         /\ i * S - o * Q <= S + o
<1>1. /\ i \in Nat /\ Q * x - B < i * B /\ i * B < Q * x + B
      /\ i * B > Q * x => (i * B - Q * x) * Limit <= Q * x
  <2>1. Q < Limit
    BY Powers
  <2> QED
    BY <2>1, PortionFacts
<1>2. /\ o \in Nat /\ S * x - B < o * B /\ o * B < S * x + B
      /\ o * B > S * x => (o * B - S * x) * Limit <= S * x
  BY PortionFacts
<1>3. i <= o
  BY PortionGrows
<1>4. Limit \in Nat
  BY Powers
<1> DEFINE d == o * B - S * x
           e == i * B - Q * x
           m == o * Q - i * S
<1>5. /\ Q * x \in Nat /\ S * x \in Nat /\ o * B \in Nat /\ i * B \in Nat /\ S * B \in Nat
      /\ o * Q \in Int /\ i * S \in Int
  BY <1>1, <1>2, Products
<1>6. /\ d \in Int /\ e \in Int /\ m \in Int /\ B + d \in Nat /\ B + e \in Nat
      /\ d > 0 => d * Limit <= S * x
      /\ e > 0 => e * Limit <= Q * x
      /\ o * B = S * x + d /\ i * B = Q * x + e
  BY <1>1, <1>2, <1>5
<1>7. m * B = Q * d - S * e
  BY <1>1, <1>2
<1> HIDE DEF d, e, m
<1>8. /\ Q * d \in Int /\ S * e \in Int /\ m * B \in Int /\ Q * B \in Nat
      /\ (S + o) * B = S * B + o * B
      /\ S * (B + e) = S * B + S * e /\ Q * (B + d) = Q * B + Q * d
  BY <1>2, <1>6, Products
<1>9. m * B <= (S + o) * B
  <2>1. S * (B + e) >= 0
    BY <1>6, Products
  <2>2. Q * d <= o * B
    <3>1. CASE d <= 0
      <4>1. Q * d <= 0
        <5>1. Q * (-d) >= 0
          BY <1>6, <3>1, Products
        <5> QED
          BY <1>6, <5>1
      <4> QED
        BY <1>5, <1>8, <4>1
    <3>2. CASE d > 0
      <4>1. Q * d <= Limit * d
        BY <1>4, <1>6, <3>2, Products
      <4>2. Limit * d \in Int /\ Limit * d = d * Limit
        BY <1>4, <1>6, Products
      <4> QED
        BY <1>5, <1>6, <1>8, <3>2, <4>1, <4>2
    <3> QED
      BY <1>6, <3>1, <3>2
  <2> QED
    BY <1>5, <1>7, <1>8, <2>1, <2>2
<1>10. (-m) * B <= (S + o) * B
  <2>1. Q * (B + d) >= 0
    BY <1>6, Products
  <2>2. (-m) * B = S * e - Q * d
    BY <1>6, <1>7, <1>8
  <2>3. CASE e <= 0
    <3>1. S * e <= 0
      <4>1. S * (-e) >= 0
        BY <1>6, <2>3, Products
      <4> QED
        BY <1>6, <4>1
    <3>2. Q * B <= S * B
      BY Products
    <3> QED
      BY <1>5, <1>8, <2>1, <2>2, <3>1, <3>2
  <2>4. CASE e > 0
    <3>1. S * e <= Limit * e
      BY <1>4, <1>6, <2>4, Products
    <3>2. Limit * e \in Int /\ Limit * e = e * Limit
      BY <1>4, <1>6, Products
    <3>3. S * e <= Q * x
      BY <1>5, <1>6, <1>8, <2>4, <3>1, <3>2
    <3>4. (Q + i) * B <= (S + o) * B
      BY <1>1, <1>2, <1>3, Products
    <3>5. (Q + i) * B = Q * B + (Q * x + e)
      <4>1. (Q + i) * B = Q * B + i * B
        BY <1>1
      <4> QED
        BY <1>6, <4>1
    <3> QED
      BY <1>5, <1>6, <1>8, <2>1, <2>2, <2>4, <3>3, <3>4, <3>5
  <2> QED
    BY <1>6, <2>3, <2>4
<1>11. m <= S + o /\ -m <= S + o
  BY <1>2, <1>6, <1>9, <1>10, SameFactor
<1> QED
  BY <1>1, <1>2, <1>3, <1>5, <1>11 DEF m

-----------------------------------------------------------------------------
(* The inductive invariant                                                 *)

Reserve(a) == IF a = "base" THEN base ELSE quote

\* What p may take of asset a before it has gained more than it may by rounding.
Due(p, a) == put[p][a] + calls - taken[p][a]

\* Amounts that are exact so far have at most Bits bits.
BelowLimit == exact => base < Limit /\ quote < Limit /\ shares < Limit

\* Without swaps no share is worth more than one unit, and the shares of a provider stand
\* for no more than is due to it.
FairShare ==
  exact /\ swaps = 0 =>
    /\ base <= shares /\ quote <= shares
    /\ \A p \in Providers, a \in Sides :
         Due(p, a) >= 0 /\ held[p] * Reserve(a) <= Due(p, a) * shares

PoolInv == PoolTypeOK /\ SharesAreHeld /\ BelowLimit /\ EmptiesCompletely /\ FairShare

\* One or two providers hold no more than all.
LEMMA HeldBounds ==
  ASSUME PoolTypeOK, SharesAreHeld, NEW p \in Providers
  PROVE  /\ held[p] \in Nat /\ held[p] <= shares
         /\ \A q \in Providers \ {p} : held[q] + held[p] <= shares
<1>1. IsFiniteSet(Providers) /\ \A r \in Providers : held[r] \in Nat
  BY PoolAssumption DEF PoolTypeOK, Amount
<1>2. IsFiniteSet(Providers \ {p})
  BY <1>1, FS_Subset
<1>3. PICK m \in Nat : m = Total(held, Providers \ {p})
  BY <1>1, <1>2, TotalNat
<1>4. shares = held[p] + m
  <2>1. Total(held, Providers) = held[p] + Total(held, Providers \ {p})
    BY <1>1, TotalStep
  <2> QED
    BY <1>3, <2>1 DEF SharesAreHeld, Total
<1>5. ASSUME NEW q \in Providers \ {p}
      PROVE  held[q] + held[p] <= shares
  <2>1. PICK n \in Nat : n = Total(held, (Providers \ {p}) \ {q})
    <3>1. IsFiniteSet((Providers \ {p}) \ {q})
      BY <1>2, FS_Subset
    <3> QED
      BY <1>1, <3>1, TotalNat
  <2>2. Total(held, Providers \ {p}) = held[q] + Total(held, (Providers \ {p}) \ {q})
    BY <1>1, <1>2, TotalStep
  <2>3. m = held[q] + n
    BY <1>3, <2>1, <2>2
  <2> QED
    BY <1>1, <1>4, <2>1, <2>3
<1>6. held[p] \in Nat
  BY <1>1
<1>7. held[p] <= shares
  BY <1>4, <1>6
<1> QED
  BY <1>5, <1>6, <1>7

\* One provider's shares change, and all of them with it.
LEMMA HeldChanges ==
  ASSUME PoolTypeOK, SharesAreHeld, NEW p \in Providers, NEW n \in Nat,
         held' = [held EXCEPT ![p] = n]
  PROVE  Total(held', Providers) = shares - held[p] + n
<1>1. IsFiniteSet(Providers) /\ \A r \in Providers : held[r] \in Nat
  BY PoolAssumption DEF PoolTypeOK, Amount
<1>2. PICK g : /\ g = held' /\ g[p] = n
               /\ \A r \in Providers : g[r] \in Int
               /\ \A r \in Providers \ {p} : g[r] = held[r]
  <2>1. held \in [Providers -> Amount]
    BY DEF PoolTypeOK
  <2>2. held'[p] = n /\ \A r \in Providers \ {p} : held'[r] = held[r]
    BY <2>1
  <2>3. \A r \in Providers : held'[r] \in Int
    BY <1>1, <2>2
  <2> QED
    BY <2>2, <2>3
<1>3. IsFiniteSet(Providers \ {p})
  BY <1>1, FS_Subset
<1>4. PICK m \in Nat : m = Total(held, Providers \ {p})
  BY <1>1, <1>3, TotalNat
<1>5. shares = held[p] + m
  <2>1. Total(held, Providers) = held[p] + Total(held, Providers \ {p})
    BY <1>1, TotalStep
  <2> QED
    BY <1>4, <2>1 DEF SharesAreHeld, Total
<1>6. Total(g, Providers \ {p}) = m
  <2>1. \A r \in Providers \ {p} : held[r] \in Int /\ held[r] = g[r]
    BY <1>1, <1>2
  <2> QED
    BY <1>3, <1>4, <2>1, TotalAgree
<1>7. Total(g, Providers) = g[p] + Total(g, Providers \ {p})
  <2>1. IsFiniteSet(Providers)
    BY <1>1
  <2>2. \A r \in Providers : g[r] \in Int
    BY <1>2
  <2> QED
    BY <2>1, <2>2, TotalStep
<1>8. Total(g, Providers) = shares - held[p] + n
  BY <1>1, <1>2, <1>4, <1>5, <1>6, <1>7
<1> QED
  BY <1>2, <1>8

\* A decimal fraction of an amount, and what a float of it adds up to.
LEMMA FractionFacts ==
  ASSUME NEW x \in Amount, NEW num \in Nat, NEW den \in Nat \ {0}, num < 2 ^ Width,
         NEW f \in Fraction(x, num, den)
  PROVE  f \in Nat /\ f <= 2 * (2 ^ (Width - 1) * 2 ^ Width) + 1
<1>1. PICK h \in Nat \ {0}, w \in Nat \ {0} : h = 2 ^ (Width - 1) /\ w = 2 ^ Width /\ w = 2 * h
  BY Powers
<1>2. PICK s \in Nat : s = Signed(x) /\ s <= h
  BY <1>1, SignedFacts
<1>3. PICK m \in Nat : m = s * num /\ m <= h * w
  <2>1. s * num <= h * num /\ num * h <= w * h /\ num * h = h * num /\ w * h = h * w
    BY <1>1, <1>2, Products
  <2>2. s * num \in Nat /\ h * num \in Nat /\ h * w \in Nat
    BY <1>1, <1>2, Products
  <2> QED
    BY <2>1, <2>2
<1>4. PICK n \in Nat : n = m \div den /\ n <= m
  <2>1. m \div den \in Nat /\ (m \div den) * den <= m
    BY <1>3, DivFacts
  <2>2. (m \div den) * 1 <= (m \div den) * den
    BY <2>1, Products
  <2> QED
    BY <1>3, <2>1, <2>2
<1>5. PICK b \in Nat \ {0} : b = 2 ^ (Bits - 1)
  <2>1. Bits - 1 \in 0 .. 2 * Width + 1
    BY PoolAssumption
  <2> QED
    BY <2>1, PoolAssumption
<1>6. PICK u \in Nat : u = n \div b /\ u <= n
  <2>1. n \div b \in Nat /\ (n \div b) * b <= n
    BY <1>4, <1>5, DivFacts
  <2>2. (n \div b) * 1 <= (n \div b) * b
    BY <1>5, <2>1, Products
  <2> QED
    BY <1>4, <2>1, <2>2
<1>7. f \in (n - (1 + u) .. n + (1 + u)) \cap Nat
  BY <1>2, <1>3, <1>4, <1>5, <1>6 DEF Fraction
<1>8. f \in Nat /\ f <= 2 * (h * w) + 1
  <2>1. h * w \in Nat
    BY <1>1, Products
  <2> QED
    BY <1>3, <1>4, <1>6, <1>7, <2>1
<1> QED
  BY <1>1, <1>8

\* What the shares of a first deposit are computed from.
LEMMA FirstShares ==
  ASSUME NEW baseIn \in Amount, NEW f \in Nat, NEW cut \in 0 .. 1,
         f <= 2 * (2 ^ (Width - 1) * 2 ^ Width) + 1
  PROVE  /\ Float(Float(Signed(baseIn), 1) + f + cut, 1) \in Nat
         /\ baseIn < Limit /\ Float(Float(Signed(baseIn), 1) + f + cut, 1) < Limit
              => Float(Float(Signed(baseIn), 1) + f + cut, 1) = baseIn + f + cut
<1>1. PICK h \in Nat \ {0}, w \in Nat \ {0} :
        h = 2 ^ (Width - 1) /\ w = 2 ^ Width /\ w = 2 * h /\ 2 <= h
  BY Powers
<1>2. PICK c \in Nat : c = 2 ^ (2 * Width + 1) /\ c = 2 * (w * w)
  <2>1. Width \in Nat /\ Width + Width = 2 * Width /\ Width + Width <= 2 * Width + 1
    BY PoolAssumption
  <2>2. 2 ^ (2 * Width) = w * w
    <3>1. \E a, b \in Nat \ {0} : a = 2 ^ Width /\ b = 2 ^ Width /\ 2 ^ (Width + Width) = a * b
      BY <2>1, PowerOfSum
    <3> QED
      BY <1>1, <2>1, <3>1
  <2>3. PICK d \in Nat : d = 2 * Width /\ d <= 2 * Width
    BY <2>1
  <2>4. PICK a \in Nat : a = 2 ^ d /\ 2 ^ (d + 1) = 2 * a
    BY <2>3, DoublePower
  <2>5. 2 ^ (2 * Width + 1) = 2 * a /\ a = w * w
    BY <2>2, <2>3, <2>4
  <2> QED
    BY <2>4, <2>5
<1>3. PICK s \in Nat : s = Signed(baseIn) /\ s <= h
  BY <1>1, SignedFacts
<1>4. w * w = 2 * (h * w) /\ h * w \in Nat /\ h * w >= 2 * w
  <2>1. 2 * w <= h * w /\ h * w \in Nat
    BY <1>1, Products
  <2> QED
    BY <1>1, <2>1
<1>5. s < c
  BY <1>1, <1>2, <1>3, <1>4
<1>6. PICK g \in Nat : g = Float(s, 1) /\ g <= 2 * s
  <2>1. s < 1 * 2 ^ (2 * Width + 1)
    BY <1>2, <1>5
  <2>2. Float(s, 1) \in Nat /\ Float(s, 1) * 1 <= 2 * s
    BY <2>1, FloatType
  <2> QED
    BY <2>2
<1>7. PICK x \in Nat : x = g + f + cut /\ x < c
  <2>1. g + f + cut \in Nat /\ f <= 2 * (h * w) + 1
    BY <1>1
  <2> QED
    BY <1>1, <1>2, <1>3, <1>4, <1>6, <2>1
<1>8. PICK r \in Nat : r = Float(x, 1)
  <2>1. x < 1 * 2 ^ (2 * Width + 1)
    BY <1>2, <1>7
  <2> QED
    BY <2>1, FloatType
<1>9. baseIn < Limit /\ r < Limit => r = baseIn + f + cut
  <2> SUFFICES ASSUME baseIn < Limit, r < Limit PROVE r = baseIn + f + cut
    OBVIOUS
  <2>1. s = baseIn
    BY <1>3, SignedFacts
  <2>2. g = s
    <3>1. s < 2 ^ (2 * Width + 1) /\ s < Limit
      BY <1>2, <1>5, <2>1
    <3> QED
      BY <1>6, <3>1, FloatOfExact
  <2>3. r = x
    BY <1>2, <1>7, <1>8, FloatOfExact
  <2> QED
    BY <1>7, <2>1, <2>2, <2>3
<1> QED
  BY <1>3, <1>6, <1>7, <1>8, <1>9

\* An empty pool.
LEMMA InitPool == PoolInit => PoolInv
<1> SUFFICES ASSUME PoolInit PROVE PoolInv
  OBVIOUS
<1> USE DEF PoolInit, None
<1>1. 2 ^ Width \in Nat \ {0} /\ Limit \in Nat /\ 0 < Limit
  BY Powers
<1>2. 0 \in Amount
  BY <1>1 DEF Amount
<1>3. PoolTypeOK
  BY <1>2, PoolAssumption DEF PoolTypeOK
<1>4. SharesAreHeld
  BY Zeros, PoolAssumption DEF SharesAreHeld, Total
<1>5. EmptiesCompletely /\ FairShare /\ BelowLimit
  BY <1>1 DEF EmptiesCompletely, FairShare, Due, Reserve, BelowLimit
<1> QED
  BY <1>3, <1>4, <1>5 DEF PoolInv

-----------------------------------------------------------------------------
(* Calls that fail                                                         *)

\* The numbers of the pool and the accounts.
LEMMA AccountTypes ==
  ASSUME PoolTypeOK
  PROVE  /\ base \in Nat /\ quote \in Nat /\ shares \in Nat /\ Limit \in Nat
         /\ swaps \in Nat /\ calls \in Nat
         /\ \A a \in Sides : Reserve(a) \in Nat
         /\ \A r \in Providers, a \in Sides :
              put[r][a] \in Nat /\ taken[r][a] \in Nat /\ Due(r, a) \in Int
<1>1. 2 ^ Width \in Nat /\ Limit \in Nat
  BY Powers
<1>2. base \in Nat /\ quote \in Nat /\ shares \in Nat /\ calls \in Nat /\ swaps \in Nat
  BY <1>1, PoolAssumption DEF PoolTypeOK, Amount
<1>3. \A r \in Providers, a \in Sides : put[r][a] \in Nat /\ taken[r][a] \in Nat
  BY DEF PoolTypeOK
<1>4. \A r \in Providers, a \in Sides : Due(r, a) \in Int
  BY <1>2, <1>3 DEF Due
<1> QED
  BY <1>1, <1>2, <1>3, <1>4 DEF Reserve

\* A pool in the hands of a caller, or none.
Left == {<<>>} \cup (Amount \X Amount \X Amount)

\* A longer range.
LEMMA RangeGrows ==
  ASSUME NEW c \in Nat, NEW d \in Nat, c <= d
  PROVE  0 .. 3 * c \subseteq 0 .. 3 * d
OBVIOUS

\* The saved pool and the accounts are left alone.
Kept == UNCHANGED <<pool, accounts, swaps, exact>>

\* A step that leaves them alone, of a call or not.
LEMMA PoolKept ==
  ASSUME PoolInv, Kept,
         calls' \in 0 .. MaxCalls, calls <= calls',
         failed' \in Left
  PROVE  PoolInv'
<1>1. /\ base' = base /\ quote' = quote /\ shares' = shares /\ fees' = fees
      /\ sequence' = sequence /\ held' = held /\ put' = put /\ taken' = taken
      /\ swaps' = swaps /\ exact' = exact
  BY DEF Kept, pool, accounts
<1>2. PoolTypeOK'
  <2>1. PoolTypeOK /\ calls \in Nat /\ calls' \in Nat /\ MaxCalls \in Nat
    BY AccountTypes, PoolAssumption DEF PoolInv
  <2>2. sequence' \in 0 .. 3 * calls' /\ swaps' \in 0 .. calls'
    <3>1. sequence' \in 0 .. 3 * calls /\ swaps' \in 0 .. calls
      BY <1>1, <2>1 DEF PoolTypeOK
    <3>2. 0 .. 3 * calls \subseteq 0 .. 3 * calls'
      BY <2>1, RangeGrows
    <3>3. swaps' \in 0 .. calls'
      BY <2>1, <3>1
    <3> QED
      BY <3>1, <3>2, <3>3
  <2> QED
    BY <1>1, <2>1, <2>2 DEF PoolTypeOK, Amount, Left
<1>3. SharesAreHeld' /\ BelowLimit' /\ EmptiesCompletely'
  BY <1>1 DEF PoolInv, SharesAreHeld, BelowLimit, EmptiesCompletely, Limit
<1>4. FairShare'
  <2> SUFFICES ASSUME exact, swaps = 0 PROVE FairShare'
    BY <1>1 DEF FairShare
  <2>1. base' <= shares' /\ quote' <= shares'
    BY <1>1 DEF PoolInv, FairShare
  <2>2. ASSUME NEW r \in Providers, NEW a \in Sides
        PROVE  Due(r, a)' >= 0 /\ held'[r] * Reserve(a)' <= Due(r, a)' * shares'
    <3>1. PICK T \in Nat, R \in Nat, h \in Nat, S \in Nat :
            /\ T = Due(r, a) /\ R = Reserve(a) /\ h = held[r] /\ S = shares
            /\ h * R <= T * S
      <4>1. Due(r, a) \in Int /\ Due(r, a) >= 0 /\ held[r] * Reserve(a) <= Due(r, a) * shares
        BY <2>2, AccountTypes DEF PoolInv, FairShare
      <4>2. Reserve(a) \in Nat /\ held[r] \in Nat /\ shares \in Nat
        BY <2>2, AccountTypes, HeldBounds DEF PoolInv
      <4> QED
        BY <4>1, <4>2
    <3>2. PICK n \in Nat : Due(r, a)' = n /\ T <= n
      <4>1. put[r][a] \in Nat /\ taken[r][a] \in Nat /\ calls \in Nat /\ calls' \in Nat
        BY AccountTypes, PoolAssumption DEF PoolInv
      <4>2. Due(r, a)' = put[r][a] + calls' - taken[r][a]
        <5>1. Due(r, a)' = put'[r][a] + calls' - taken'[r][a]
          BY DEF Due
        <5> QED
          BY <1>1, <5>1
      <4>3. T = put[r][a] + calls - taken[r][a]
        BY <3>1 DEF Due
      <4>4. Due(r, a)' - T = calls' - calls /\ Due(r, a)' \in Int
        BY <4>1, <4>2, <4>3
      <4> QED
        BY <4>1, <4>4
    <3>3. Reserve(a)' = R /\ held'[r] = h /\ shares' = S
      BY <1>1, <3>1 DEF Reserve
    <3>4. h * R <= n * S
      <4>1. T * S <= n * S /\ h * R \in Nat /\ T * S \in Nat /\ n * S \in Nat
        BY <3>2, Products
      <4> QED
        BY <3>1, <4>1
    <3> QED
      BY <3>2, <3>3, <3>4
  <2> QED
    BY <2>1, <2>2 DEF FairShare
<1> QED
  BY <1>2, <1>3, <1>4 DEF PoolInv

\* A call that ends with an error.
LEMMA FailStep ==
  ASSUME PoolInv, Call, NEW s, NEW b, NEW q, Fail(s, b, q)
  PROVE  PoolInv'
<1>1. UNCHANGED <<pool, accounts, swaps, exact>>
  BY DEF Fail
<1>2. calls' \in 0 .. MaxCalls /\ calls <= calls'
  <2>1. calls \in Nat /\ calls' = calls + 1 /\ calls < MaxCalls
    BY AccountTypes DEF PoolInv, Call
  <2> QED
    BY <2>1, PoolAssumption
<1>3. failed' \in Amount \X Amount \X Amount
  <2>1. 0 \in Amount
    BY Powers DEF Amount
  <2>2. base \in Amount /\ quote \in Amount
    BY DEF PoolInv, PoolTypeOK
  <2>3. CASE s \notin Amount
    BY <2>1, <2>2, <2>3 DEF Fail
  <2>4. CASE s \in Amount /\ b \notin Amount
    BY <2>1, <2>2, <2>4 DEF Fail
  <2>5. CASE s \in Amount /\ b \in Amount
    BY <2>1, <2>5 DEF Fail
  <2> QED
    BY <2>3, <2>4, <2>5
<1> QED
  BY <1>1, <1>2, <1>3, PoolKept DEF Left, Kept

\* The caller drops a pool.
LEMMA DropStep ==
  ASSUME PoolInv, Drop
  PROVE  PoolInv'
<1>1. UNCHANGED <<pool, accounts, swaps, exact>> /\ failed' = <<>> /\ calls' = calls
  BY DEF Drop
<1>2. calls' \in 0 .. MaxCalls /\ calls <= calls'
  BY <1>1, AccountTypes DEF PoolInv, PoolTypeOK
<1> QED
  BY <1>1, <1>2, PoolKept DEF Left, Kept

-----------------------------------------------------------------------------
(* AddLiquidity                                                            *)

\* A deposit that succeeds.
Deposited(p, baseIn, quoteIn, sharesOut) ==
  LET s == shares + Uint64(sharesOut)
      b == base + baseIn
      q == quote + Uint64(quoteIn)
  IN  /\ Assign(s, b, q)
      /\ held' = [held EXCEPT ![p] = @ + Uint64(sharesOut)]
      /\ put' = [put EXCEPT ![p]["base"] = @ + baseIn,
                            ![p]["quote"] = @ + Uint64(quoteIn)]
      /\ UNCHANGED taken
      /\ StaysExact({quoteIn, sharesOut, s, b, q})

\* What remains of a number in a uint64.
LEMMA Uint64Facts ==
  ASSUME NEW n \in Nat
  PROVE  /\ Uint64(n) \in Nat /\ Uint64(n) \in Amount
         /\ n < Limit => Uint64(n) = n
<1>1. PICK h \in Nat \ {0}, w \in Nat \ {0} : h = 2 ^ (Width - 1) /\ w = 2 ^ Width /\ w = 2 * h /\ Limit <= h
  BY Powers
<1>2. n % w \in Nat /\ n % w < w /\ (n < w => n % w = n)
  OBVIOUS
<1>3. Uint64(n) = n % w
  BY <1>1 DEF Uint64
<1> QED
  BY <1>1, <1>2, <1>3, Powers DEF Amount

\* The types and the shares held, whatever the amounts.
LEMMA DepositKeepsTypes ==
  ASSUME PoolInv, NEW p \in Providers,
         NEW baseIn \in Nat, NEW quoteIn \in Nat, NEW sharesOut \in Nat,
         Call, Deposited(p, baseIn, quoteIn, sharesOut)
  PROVE  PoolTypeOK' /\ SharesAreHeld'
<1>1. PICK i \in Nat, o \in Nat : i = Uint64(quoteIn) /\ o = Uint64(sharesOut)
  BY Uint64Facts
<1>2. /\ base' \in Amount /\ quote' \in Amount /\ shares' \in Amount
      /\ base' = base + baseIn /\ quote' = quote + i /\ shares' = shares + o
      /\ sequence' = sequence + 1 /\ calls' = calls + 1 /\ calls < MaxCalls
      /\ held' = [held EXCEPT ![p] = @ + o]
      /\ put' = [put EXCEPT ![p]["base"] = @ + baseIn, ![p]["quote"] = @ + i]
      /\ failed' = failed /\ fees' = fees /\ taken' = taken /\ swaps' = swaps
  BY <1>1 DEF Call, Deposited, Assign, Succeeds
<1>3. PoolTypeOK /\ base \in Nat /\ quote \in Nat /\ shares \in Nat /\ calls \in Nat
  BY AccountTypes DEF PoolInv
<1>4. held[p] \in Nat /\ held[p] <= shares
  BY <1>3, HeldBounds DEF PoolInv
<1>5. SharesAreHeld'
  <2>1. Total(held', Providers) = shares - held[p] + (held[p] + o)
    <3>1. held' = [held EXCEPT ![p] = held[p] + o] /\ held[p] + o \in Nat
      BY <1>2, <1>4
    <3> QED
      BY <3>1, HeldChanges DEF PoolInv
  <2>2. shares - held[p] + (held[p] + o) = shares'
    BY <1>2, <1>3, <1>4
  <2> QED
    BY <2>1, <2>2 DEF SharesAreHeld, Total
<1>6. PoolTypeOK'
  <2>1. sequence' \in 0 .. 3 * calls' /\ calls' \in 0 .. MaxCalls /\ swaps' \in 0 .. calls'
    BY <1>2, <1>3, PoolAssumption DEF PoolTypeOK
  <2>2. held' \in [Providers -> Amount]
    <3>1. held[p] + o \in Amount
      BY <1>2, <1>3, <1>4, Powers DEF Amount
    <3>2. held' = [held EXCEPT ![p] = held[p] + o]
      BY <1>2
    <3> QED
      BY <1>3, <3>1, <3>2 DEF PoolTypeOK
  <2>3. put' \in [Providers -> [Sides -> Nat]]
    BY <1>2, <1>3 DEF PoolTypeOK, Sides
  <2>4. fees' \in [Sides -> Amount] /\ taken' \in [Providers -> [Sides -> Nat]]
        /\ failed' \in {<<>>} \cup (Amount \X Amount \X Amount)
    BY <1>2, <1>3 DEF PoolTypeOK
  <2>5. exact' \in BOOLEAN
    BY DEF Deposited, StaysExact
  <2> QED
    BY <1>2, <2>1, <2>2, <2>3, <2>4, <2>5 DEF PoolTypeOK, Amount
<1> QED
  BY <1>5, <1>6

\* Of two amounts, the one of an asset.
Of(a, b, q) == IF a = "base" THEN b ELSE q

\* What an exact deposit does to the accounts.
LEMMA DepositAccounts ==
  ASSUME PoolInv, NEW p \in Providers,
         NEW baseIn \in Nat, NEW quoteIn \in Nat, NEW sharesOut \in Nat,
         Call, Deposited(p, baseIn, quoteIn, sharesOut), exact'
  PROVE  /\ exact /\ quoteIn < Limit /\ sharesOut < Limit
         /\ base' < Limit /\ quote' < Limit /\ shares' < Limit
         /\ base' = base + baseIn /\ quote' = quote + quoteIn /\ shares' = shares + sharesOut
         /\ swaps' = swaps
         /\ held'[p] = held[p] + sharesOut /\ \A r \in Providers \ {p} : held'[r] = held[r]
         /\ \A a \in Sides :
              /\ Reserve(a)' = Reserve(a) + Of(a, baseIn, quoteIn)
              /\ Due(p, a)' = Due(p, a) + Of(a, baseIn, quoteIn) + 1
              /\ \A r \in Providers \ {p} : Due(r, a)' = Due(r, a) + 1
<1>0. /\ exact /\ quoteIn < Limit /\ sharesOut < Limit
      /\ base' < Limit /\ quote' < Limit /\ shares' < Limit
  <2>1. \A n \in {quoteIn, sharesOut, shares', base', quote'} : exact /\ n < Limit
    BY DEF Deposited, StaysExact, Assign
  <2> QED
    BY <2>1
<1>1. /\ base' = base + baseIn /\ quote' = quote + quoteIn /\ shares' = shares + sharesOut
      /\ held' = [held EXCEPT ![p] = @ + sharesOut]
      /\ put' = [put EXCEPT ![p]["base"] = @ + baseIn, ![p]["quote"] = @ + quoteIn]
      /\ swaps' = swaps /\ taken' = taken /\ calls' = calls + 1
  <2>1. Uint64(quoteIn) = quoteIn /\ Uint64(sharesOut) = sharesOut
    BY <1>0, Uint64Facts
  <2> QED
    BY <2>1 DEF Deposited, Assign, Call
<1>2. /\ held \in [Providers -> Amount]
      /\ put \in [Providers -> [Sides -> Nat]] /\ taken \in [Providers -> [Sides -> Nat]]
      /\ calls \in Nat
  BY PoolAssumption DEF PoolInv, PoolTypeOK
<1>3. \A a \in Sides : /\ put'[p][a] = put[p][a] + Of(a, baseIn, quoteIn)
                       /\ \A r \in Providers \ {p} : put'[r][a] = put[r][a]
  BY <1>1, <1>2 DEF Sides, Of
<1>4. \A a \in Sides : /\ Due(p, a)' = Due(p, a) + Of(a, baseIn, quoteIn) + 1
                       /\ \A r \in Providers \ {p} : Due(r, a)' = Due(r, a) + 1
  <2> SUFFICES ASSUME NEW a \in Sides
               PROVE  /\ Due(p, a)' = Due(p, a) + Of(a, baseIn, quoteIn) + 1
                      /\ \A r \in Providers \ {p} : Due(r, a)' = Due(r, a) + 1
    OBVIOUS
  <2>1. \A r \in Providers : put[r][a] \in Nat /\ taken[r][a] \in Nat /\ taken'[r][a] = taken[r][a]
    BY <1>1, <1>2
  <2>2. Of(a, baseIn, quoteIn) \in Nat
    BY DEF Of
  <2>3. Due(p, a)' = Due(p, a) + Of(a, baseIn, quoteIn) + 1
    <3>1. /\ put[p][a] \in Nat /\ taken[p][a] \in Nat /\ taken'[p][a] = taken[p][a]
          /\ put'[p][a] = put[p][a] + Of(a, baseIn, quoteIn)
      BY <1>3, <2>1
    <3>2. Due(p, a)' = put'[p][a] + calls' - taken'[p][a]
      BY DEF Due
    <3> QED
      BY <1>1, <1>2, <2>2, <3>1, <3>2 DEF Due
  <2>4. ASSUME NEW r \in Providers \ {p}
        PROVE  Due(r, a)' = Due(r, a) + 1
    <3>1. /\ put[r][a] \in Nat /\ taken[r][a] \in Nat /\ taken'[r][a] = taken[r][a]
          /\ put'[r][a] = put[r][a]
      BY <1>3, <2>1
    <3>2. Due(r, a)' = put'[r][a] + calls' - taken'[r][a]
      BY DEF Due
    <3>3. calls' = calls + 1 /\ calls \in Nat
      BY <1>1, <1>2
    <3> QED
      BY <3>1, <3>2, <3>3 DEF Due
  <2> QED
    BY <2>3, <2>4
<1>5. \A a \in Sides : Reserve(a)' = Reserve(a) + Of(a, baseIn, quoteIn)
  BY <1>1 DEF Reserve, Of
<1> QED
  BY <1>0, <1>1, <1>2, <1>4, <1>5

\* An exact first deposit.
LEMMA FirstDeposit ==
  ASSUME PoolInv, NEW p \in Providers, Call, base = 0,
         NEW baseIn \in Nat, baseIn > 0, NEW quoteIn \in Nat, NEW out \in Nat, NEW cut \in 0 .. 1,
         baseIn < Limit /\ out < Limit => out = baseIn + quoteIn + cut,
         Deposited(p, baseIn, quoteIn, out), exact'
  PROVE  BelowLimit' /\ EmptiesCompletely' /\ FairShare'
<1>1. /\ exact /\ quoteIn < Limit /\ out < Limit
      /\ base' < Limit /\ quote' < Limit /\ shares' < Limit /\ base' = base + baseIn
  BY DepositAccounts
<1>2. PoolTypeOK
  BY DEF PoolInv
<1>4. out > 0 /\ out = baseIn + quoteIn + cut
  BY <1>1
<1>5. /\ base' = base + baseIn /\ quote' = quote + quoteIn /\ shares' = shares + out
      /\ swaps' = swaps
      /\ held'[p] = held[p] + out /\ \A r \in Providers \ {p} : held'[r] = held[r]
      /\ \A a \in Sides :
           /\ Reserve(a)' = Reserve(a) + Of(a, baseIn, quoteIn)
           /\ Due(p, a)' = Due(p, a) + Of(a, baseIn, quoteIn) + 1
           /\ \A r \in Providers \ {p} : Due(r, a)' = Due(r, a) + 1
  BY DepositAccounts
<1>6. shares = 0 /\ quote = 0
  BY <1>1 DEF PoolInv, EmptiesCompletely
<1>7. \A r \in Providers : held[r] = 0
  <2>1. \A r \in Providers : held[r] \in Nat /\ held[r] <= shares
    BY HeldBounds DEF PoolInv
  <2> QED
    BY <1>6, <2>1
<1>8. BelowLimit'
  BY <1>1 DEF BelowLimit, Limit
<1>9. EmptiesCompletely'
  BY <1>1, <1>4, <1>5, <1>6 DEF EmptiesCompletely
<1>10. FairShare'
  <2> SUFFICES ASSUME swaps = 0 PROVE FairShare'
    BY <1>5 DEF FairShare
  <2>1. base' <= shares' /\ quote' <= shares'
    BY <1>1, <1>5, <1>6
  <2>2. ASSUME NEW r \in Providers, NEW a \in Sides
        PROVE  Due(r, a)' >= 0 /\ held'[r] * Reserve(a)' <= Due(r, a)' * shares'
    <3>1. Due(r, a) \in Int /\ Due(r, a) >= 0
      BY <2>2, <1>1, AccountTypes DEF PoolInv, FairShare
    <3>2. PICK i \in Nat : i = Of(a, baseIn, quoteIn)
      BY <1>1 DEF Of
    <3>3. Reserve(a)' = i
      BY <1>1, <1>5, <1>6, <3>2 DEF Reserve
    <3>4. shares' = out
      BY <1>4, <1>5, <1>6
    <3>5. CASE r = p
      <4>1. held'[r] = out /\ Due(r, a)' = Due(r, a) + i + 1
        BY <1>4, <1>5, <1>7, <3>2, <3>5
      <4>2. i <= Due(r, a)' /\ Due(r, a)' \in Int /\ Due(r, a)' >= 0
        BY <3>1, <4>1
      <4>3. i * out <= Due(r, a)' * out
        BY <1>4, <4>2, Products
      <4>4. out * i = i * out
        BY <1>4
      <4> QED
        BY <3>3, <3>4, <4>1, <4>2, <4>3, <4>4
    <3>6. CASE r # p
      <4>1. held'[r] = 0 /\ Due(r, a)' = Due(r, a) + 1
        BY <1>5, <1>7, <3>6
      <4>2. Due(r, a)' \in Int /\ Due(r, a)' >= 0
        BY <3>1, <4>1
      <4>3. Due(r, a)' * out >= 0
        BY <1>4, <4>2, Products
      <4> QED
        BY <3>3, <3>4, <4>1, <4>2, <4>3
    <3> QED
      BY <3>5, <3>6
  <2> QED
    BY <2>1, <2>2 DEF FairShare
<1> QED
  BY <1>8, <1>9, <1>10

\* The first deposit, to an empty pool.
LEMMA AddFirstStep ==
  ASSUME PoolInv, NEW p \in Providers, NEW baseIn \in Inputs,
         AddFirstLiquidity(p, baseIn)
  PROVE  PoolInv'
<1>1. /\ Call /\ baseIn \in Amount /\ baseIn \in Nat /\ baseIn > 0 /\ base = 0
  BY PoolAssumption, Powers DEF AddFirstLiquidity, Amount
<1>2. PICK quoteIn \in Fraction(baseIn, RatioNum, RatioDen), cut \in 0 .. 1 :
        Deposit(p, baseIn, quoteIn, Float(Float(Signed(baseIn), 1) + quoteIn + cut, 1))
  BY DEF AddFirstLiquidity
<1>3. quoteIn \in Nat /\ quoteIn <= 2 * (2 ^ (Width - 1) * 2 ^ Width) + 1
  BY <1>1, <1>2, FractionFacts, PoolAssumption
<1>4. PICK out \in Nat :
        /\ out = Float(Float(Signed(baseIn), 1) + quoteIn + cut, 1)
        /\ baseIn < Limit /\ out < Limit => out = baseIn + quoteIn + cut
  BY <1>1, <1>3, FirstShares
<1>5. CASE \E s, b, q : Fail(s, b, q)
  BY <1>1, <1>5, FailStep
<1>6. CASE Deposited(p, baseIn, quoteIn, out)
  <2>1. PoolTypeOK' /\ SharesAreHeld'
    BY <1>1, <1>3, <1>6, DepositKeepsTypes
  <2>2. CASE ~ exact'
    BY <2>1, <2>2 DEF PoolInv, BelowLimit, EmptiesCompletely, FairShare
  <2>3. CASE exact'
    BY <2>1, <1>1, <1>3, <1>4, <1>6, <2>3, FirstDeposit DEF PoolInv
  <2> QED
    BY <2>2, <2>3
<1> QED
  BY <1>2, <1>4, <1>5, <1>6 DEF Deposit, Deposited

\* An exact deposit at the pool's own ratio.
LEMMA NextDeposit ==
  ASSUME PoolInv, NEW p \in Providers, Call, base > 0,
         NEW baseIn \in Nat, baseIn > 0, NEW quoteIn \in Nat, NEW out \in Nat,
         quoteIn = Portion(quote, baseIn, base), out = Portion(shares, baseIn, base),
         Deposited(p, baseIn, quoteIn, out), exact'
  PROVE  BelowLimit' /\ EmptiesCompletely' /\ FairShare'
<1>1. /\ exact /\ quoteIn < Limit /\ out < Limit
      /\ base' < Limit /\ quote' < Limit /\ shares' < Limit /\ base' = base + baseIn
  BY DepositAccounts
<1>2. /\ base \in Nat \ {0} /\ quote \in Nat /\ shares \in Nat /\ Limit \in Nat
      /\ base < Limit /\ quote < Limit /\ shares < Limit /\ baseIn < Limit
  <2>1. base \in Nat /\ quote \in Nat /\ shares \in Nat /\ Limit \in Nat
    BY AccountTypes DEF PoolInv
  <2>2. base < Limit /\ quote < Limit /\ shares < Limit
    BY <1>1 DEF PoolInv, BelowLimit
  <2> QED
    BY <1>1, <2>1, <2>2
<1>3. shares * baseIn - base < out * base /\ out * base < shares * baseIn + base
  BY <1>1, <1>2, PortionFacts
<1>5. /\ base' = base + baseIn /\ quote' = quote + quoteIn /\ shares' = shares + out
      /\ swaps' = swaps
      /\ held'[p] = held[p] + out /\ \A r \in Providers \ {p} : held'[r] = held[r]
      /\ \A a \in Sides :
           /\ Reserve(a)' = Reserve(a) + Of(a, baseIn, quoteIn)
           /\ Due(p, a)' = Due(p, a) + Of(a, baseIn, quoteIn) + 1
           /\ \A r \in Providers \ {p} : Due(r, a)' = Due(r, a) + 1
  BY DepositAccounts
<1>6. shares > 0
  BY <1>1, <1>2 DEF PoolInv, EmptiesCompletely
<1>7. BelowLimit'
  BY <1>1 DEF BelowLimit, Limit
<1>8. EmptiesCompletely'
  BY <1>1, <1>2, <1>5, <1>6 DEF EmptiesCompletely
<1>9. FairShare'
  <2> SUFFICES ASSUME swaps = 0 PROVE FairShare'
    BY <1>5 DEF FairShare
  <2>1. base <= shares /\ quote <= shares
    BY <1>1 DEF PoolInv, FairShare
  <2>2. /\ quoteIn <= out
        /\ out * quote - quoteIn * shares <= shares + out
        /\ quoteIn * shares - out * quote <= shares + out
    BY <1>1, <1>2, <1>3, <2>1, PortionsAgree
  <2>3. /\ out * base - baseIn * shares <= shares + out
        /\ baseIn * shares - out * base <= shares + out
    <3>1. shares * baseIn \in Nat /\ out * base \in Nat /\ baseIn * shares = shares * baseIn
      BY <1>1, <1>2, <1>3, Products
    <3> QED
      BY <1>2, <1>3, <2>1, <3>1
  <2>4. baseIn <= out
    <3>1. base * baseIn <= shares * baseIn /\ base * baseIn \in Nat /\ shares * baseIn \in Nat
      BY <1>1, <1>2, <2>1, Products
    <3>2. (baseIn - 1) * base = base * baseIn - base
      BY <1>1, <1>2
    <3>3. out * base \in Nat
      BY <1>2, <1>3, Products
    <3>4. (baseIn - 1) * base < out * base
      BY <1>2, <1>3, <3>1, <3>2, <3>3
    <3>5. baseIn - 1 < out
      BY <1>1, <1>2, <3>4, SameFactor
    <3> QED
      BY <1>1, <3>5
  <2>5. base' <= shares' /\ quote' <= shares'
    BY <1>1, <1>2, <1>3, <1>5, <2>1, <2>2, <2>4
  <2>6. ASSUME NEW r \in Providers, NEW a \in Sides
        PROVE  Due(r, a)' >= 0 /\ held'[r] * Reserve(a)' <= Due(r, a)' * shares'
    <3>1. PICK T \in Nat, h \in Nat, R \in Nat :
            /\ T = Due(r, a) /\ h = held[r] /\ R = Reserve(a)
            /\ h * R <= T * shares /\ h <= shares
      <4>1. Due(r, a) \in Int /\ Due(r, a) >= 0 /\ held[r] * Reserve(a) <= Due(r, a) * shares
        BY <2>6, <1>1, AccountTypes DEF PoolInv, FairShare
      <4>2. Reserve(a) \in Nat /\ held[r] \in Nat /\ held[r] <= shares
        BY <2>6, AccountTypes, HeldBounds DEF PoolInv
      <4> QED
        BY <4>1, <4>2
    <3>2. PICK i \in Nat : i = Of(a, baseIn, quoteIn)
      BY <1>1, <1>3 DEF Of
    <3>3. out * R - i * shares <= shares + out /\ i * shares - out * R <= shares + out
      BY <2>2, <2>3, <3>1, <3>2 DEF Reserve, Of
    <3>4. Reserve(a)' = R + i /\ shares' = shares + out
      BY <1>5, <3>1, <3>2
    <3>5. CASE r = p
      <4>1. held'[r] = h + out /\ Due(r, a)' = T + i + 1
        BY <1>5, <3>1, <3>2, <3>5
      <4>2. (h + out) * (R + i) <= (T + i + 1) * (shares + out)
        BY <1>2, <1>6, <3>1, <3>3, OwnDeposit
      <4> QED
        BY <3>4, <4>1, <4>2
    <3>6. CASE r # p
      <4>1. held'[r] = h /\ Due(r, a)' = T + 1
        BY <1>5, <3>1, <3>6
      <4>2. h * (R + i) <= (T + 1) * (shares + out)
        BY <1>2, <1>6, <3>1, <3>3, OthersDeposit
      <4> QED
        BY <3>4, <4>1, <4>2
    <3> QED
      BY <3>5, <3>6
  <2> QED
    BY <2>5, <2>6 DEF FairShare
<1> QED
  BY <1>7, <1>8, <1>9

\* A deposit at the pool's own ratio.
LEMMA AddStep ==
  ASSUME PoolInv, NEW p \in Providers, NEW baseIn \in Inputs,
         AddLiquidity(p, baseIn)
  PROVE  PoolInv'
<1>1. /\ Call /\ baseIn \in Amount /\ baseIn \in Nat /\ baseIn > 0 /\ base > 0
  BY PoolAssumption, Powers DEF AddLiquidity, Amount
<1>2. PICK quoteIn \in Nat, out \in Nat :
        quoteIn = Portion(quote, baseIn, base) /\ out = Portion(shares, baseIn, base)
  <2>1. base \in Amount /\ quote \in Amount /\ shares \in Amount
    BY DEF PoolInv, PoolTypeOK
  <2>2. Portion(quote, baseIn, base) \in Nat /\ Portion(shares, baseIn, base) \in Nat
    BY <1>1, <2>1, PortionType
  <2> QED
    BY <2>2
<1>3. Deposit(p, baseIn, quoteIn, out)
  BY <1>2 DEF AddLiquidity
<1>4. CASE \E s, b, q : Fail(s, b, q)
  BY <1>1, <1>4, FailStep
<1>5. CASE Deposited(p, baseIn, quoteIn, out)
  <2>1. PoolTypeOK' /\ SharesAreHeld'
    BY <1>1, <1>5, DepositKeepsTypes
  <2>2. CASE ~ exact'
    BY <2>1, <2>2 DEF PoolInv, BelowLimit, EmptiesCompletely, FairShare
  <2>3. CASE exact'
    BY <2>1, <1>1, <1>2, <1>5, <2>3, NextDeposit DEF PoolInv
  <2> QED
    BY <2>2, <2>3
<1> QED
  BY <1>3, <1>4, <1>5 DEF Deposit, Deposited

-----------------------------------------------------------------------------
(* RemoveLiquidity                                                         *)

\* A withdrawal that succeeds.
Withdrawn(p, sharesIn, baseOut, quoteOut) ==
  LET s == shares - sharesIn
      b == base - Uint64(baseOut)
      q == quote - Uint64(quoteOut)
  IN  /\ Assign(s, b, q)
      /\ held' = [held EXCEPT ![p] = @ - sharesIn]
      /\ taken' = [taken EXCEPT ![p]["base"] = @ + Uint64(baseOut),
                                ![p]["quote"] = @ + Uint64(quoteOut)]
      /\ UNCHANGED <<put, exact>>

\* The types and the shares held, whatever the amounts.
LEMMA WithdrawKeepsTypes ==
  ASSUME PoolInv, NEW p \in Providers,
         NEW k \in Nat, k <= held[p], NEW baseOut \in Nat, NEW quoteOut \in Nat,
         Call, Withdrawn(p, k, baseOut, quoteOut)
  PROVE  PoolTypeOK' /\ SharesAreHeld'
<1>1. PICK b \in Nat, q \in Nat : b = Uint64(baseOut) /\ q = Uint64(quoteOut)
  BY Uint64Facts
<1>2. /\ base' \in Amount /\ quote' \in Amount /\ shares' \in Amount
      /\ shares' = shares - k
      /\ sequence' = sequence + 1 /\ calls' = calls + 1 /\ calls < MaxCalls
      /\ held' = [held EXCEPT ![p] = @ - k]
      /\ taken' = [taken EXCEPT ![p]["base"] = @ + b, ![p]["quote"] = @ + q]
      /\ failed' = failed /\ fees' = fees /\ put' = put /\ swaps' = swaps /\ exact' = exact
  BY <1>1 DEF Call, Withdrawn, Assign, Succeeds
<1>3. PoolTypeOK /\ shares \in Nat /\ calls \in Nat
  BY AccountTypes DEF PoolInv
<1>4. held[p] \in Nat /\ held[p] <= shares
  BY <1>3, HeldBounds DEF PoolInv
<1>5. SharesAreHeld'
  <2>1. Total(held', Providers) = shares - held[p] + (held[p] - k)
    <3>1. held' = [held EXCEPT ![p] = held[p] - k] /\ held[p] - k \in Nat
      BY <1>2, <1>4
    <3> QED
      BY <3>1, HeldChanges DEF PoolInv
  <2>2. shares - held[p] + (held[p] - k) = shares'
    BY <1>2, <1>3, <1>4
  <2> QED
    BY <2>1, <2>2 DEF SharesAreHeld, Total
<1>6. PoolTypeOK'
  <2>1. sequence' \in 0 .. 3 * calls' /\ calls' \in 0 .. MaxCalls /\ swaps' \in 0 .. calls'
    BY <1>2, <1>3, PoolAssumption DEF PoolTypeOK
  <2>2. held' \in [Providers -> Amount]
    <3>1. held[p] - k \in Amount
      <4>1. held[p] \in Amount
        BY <1>3 DEF PoolTypeOK
      <4> QED
        BY <1>4, <4>1, Powers DEF Amount
    <3>2. held' = [held EXCEPT ![p] = held[p] - k]
      BY <1>2
    <3> QED
      BY <1>3, <3>1, <3>2 DEF PoolTypeOK
  <2>3. taken' \in [Providers -> [Sides -> Nat]]
    <3>1. taken \in [Providers -> [Sides -> Nat]]
      BY <1>3 DEF PoolTypeOK
    <3> QED
      BY <1>2, <3>1 DEF Sides
  <2>4. fees' \in [Sides -> Amount] /\ put' \in [Providers -> [Sides -> Nat]]
        /\ failed' \in {<<>>} \cup (Amount \X Amount \X Amount) /\ exact' \in BOOLEAN
    BY <1>2, <1>3 DEF PoolTypeOK
  <2> QED
    BY <1>2, <2>1, <2>2, <2>3, <2>4 DEF PoolTypeOK, Amount
<1> QED
  BY <1>5, <1>6

\* Shares of an exact pool are returned.
LEMMA ExactRemoval ==
  ASSUME PoolInv, NEW p \in Providers, NEW k \in Nat, k > 0, k <= held[p], k <= shares,
         NEW b \in Nat, NEW q \in Nat, b = Portion(base, k, shares), q = Portion(quote, k, shares),
         Call, Withdrawn(p, k, b, q), exact
  PROVE  BelowLimit' /\ EmptiesCompletely' /\ FairShare'
<1>1. k \in Nat /\ k > 0 /\ k <= held[p] /\ k <= shares
  OBVIOUS
<1>2. /\ base \in Nat /\ quote \in Nat /\ shares \in Nat \ {0} /\ Limit \in Nat
      /\ base < Limit /\ quote < Limit /\ shares < Limit /\ k < Limit
      /\ swaps \in Nat /\ calls \in Nat
  <2>1. /\ base \in Nat /\ quote \in Nat /\ shares \in Nat /\ Limit \in Nat
        /\ swaps \in Nat /\ calls \in Nat
    BY AccountTypes DEF PoolInv
  <2>2. base < Limit /\ quote < Limit /\ shares < Limit
    BY DEF PoolInv, BelowLimit
  <2> QED
    BY <2>1, <2>2
<1>3. b <= base /\ q <= quote /\ base * k < shares * Limit /\ quote * k < shares * Limit
  BY <1>2, PortionWithin
<1>4. b < Limit /\ q < Limit
  BY <1>2, <1>3
<1>5. /\ base * k - shares < b * shares /\ b * shares < base * k + shares
      /\ quote * k - shares < q * shares /\ q * shares < quote * k + shares
  BY <1>2, <1>4, PortionFacts
<1>6. /\ calls' = calls + 1 /\ b <= base /\ q <= quote
      /\ base' = base - b /\ quote' = quote - q /\ shares' = shares - k
      /\ taken' = [taken EXCEPT ![p]["base"] = @ + b, ![p]["quote"] = @ + q]
      /\ held' = [held EXCEPT ![p] = @ - k]
      /\ put' = put /\ swaps' = swaps /\ exact' = exact
  <2>1. Uint64(b) = b /\ Uint64(q) = q
    BY <1>4, Uint64Facts
  <2> QED
    BY <1>3, <2>1 DEF Withdrawn, Assign, Call
<1>7. held[p] \in Nat /\ held[p] <= shares /\ \A r \in Providers \ {p} : held[r] + held[p] <= shares
  BY HeldBounds DEF PoolInv
<1>8. /\ held \in [Providers -> Amount]
      /\ put \in [Providers -> [Sides -> Nat]] /\ taken \in [Providers -> [Sides -> Nat]]
  BY DEF PoolInv, PoolTypeOK
<1>9. BelowLimit'
  <2>1. base' < Limit /\ quote' < Limit /\ shares' < Limit
    BY <1>1, <1>2, <1>6
  <2> QED
    BY <2>1 DEF BelowLimit, Limit
<1>11. k = shares => b = base /\ q = quote
  BY <1>2, PortionOfAll
<1>12. EmptiesCompletely'
  <2>1. CASE k = shares
    BY <1>2, <1>6, <1>11, <2>1 DEF EmptiesCompletely
  <2>2. CASE k # shares
    <3>1. base > 0
      BY <1>2 DEF PoolInv, EmptiesCompletely
    <3>2. base \in Nat \ {0} /\ k < shares
      BY <1>1, <1>2, <2>2, <3>1
    <3>3. b < base
      BY <1>1, <1>2, <3>2, PortionOfPart
    <3>4. base' > 0 /\ shares' > 0
      BY <1>1, <1>2, <1>6, <3>2, <3>3
    <3> QED
      BY <3>4 DEF EmptiesCompletely
  <2> QED
    BY <2>1, <2>2
<1>13. FairShare'
  <2> SUFFICES ASSUME swaps = 0 PROVE FairShare'
    BY <1>6 DEF FairShare
  <2>1. base <= shares /\ quote <= shares
    BY DEF PoolInv, FairShare
  <2>2. ASSUME NEW x \in Nat, NEW y \in Nat, x <= shares, x * k - shares < y * shares
        PROVE  x - y <= shares - k
    <3>1. x * (shares - k) <= shares * (shares - k)
      BY <1>1, <1>2, <2>2, Products
    <3>2. /\ x * (shares - k) = x * shares - x * k
          /\ (x - y) * shares = x * shares - y * shares
          /\ (shares - k + 1) * shares = shares * (shares - k) + shares
      BY <1>1, <1>2
    <3>3. x * k \in Nat /\ x * shares \in Nat /\ y * shares \in Nat /\ shares * (shares - k) \in Int
      BY <1>1, <1>2, Products
    <3>4. (x - y) * shares < (shares - k + 1) * shares
      BY <1>2, <2>2, <3>1, <3>2, <3>3
    <3>5. x - y < shares - k + 1
      BY <1>1, <1>2, <3>4, SameFactor
    <3> QED
      BY <1>1, <1>2, <3>5
  <2>3. base' <= shares' /\ quote' <= shares'
    BY <1>2, <1>5, <1>6, <2>1, <2>2
  <2>4. ASSUME NEW r \in Providers, NEW a \in Sides
        PROVE  Due(r, a)' >= 0 /\ held'[r] * Reserve(a)' <= Due(r, a)' * shares'
    <3>1. PICK T \in Nat, h \in Nat, R \in Nat :
            /\ T = Due(r, a) /\ h = held[r] /\ R = Reserve(a)
            /\ h * R <= T * shares /\ h <= shares
      <4>1. Due(r, a) \in Int /\ Due(r, a) >= 0 /\ held[r] * Reserve(a) <= Due(r, a) * shares
        BY <2>4, AccountTypes DEF PoolInv, FairShare
      <4>2. Reserve(a) \in Nat /\ held[r] \in Nat /\ held[r] <= shares
        BY <2>4, AccountTypes, HeldBounds DEF PoolInv
      <4> QED
        BY <4>1, <4>2
    <3>2. PICK out \in Nat :
            /\ out = Of(a, b, q) /\ out <= R
            /\ R * k - shares < out * shares /\ out * shares < R * k + shares
            /\ k = shares => out = R
      BY <1>5, <1>6, <1>11, <3>1 DEF Of, Reserve
    <3>3. Reserve(a)' = R - out /\ shares' = shares - k
      BY <1>6, <3>1, <3>2 DEF Of, Reserve
    <3>4. put[r][a] \in Nat /\ taken[r][a] \in Nat /\ T = put[r][a] + calls - taken[r][a]
      BY <1>8, <3>1 DEF Due
    <3>5. CASE r = p
      <4>1. held'[r] = h - k /\ k <= h
        BY <1>1, <1>6, <1>8, <3>1, <3>5
      <4>2. taken'[r][a] = taken[r][a] + out
        BY <1>6, <1>8, <3>2, <3>5 DEF Sides, Of
      <4>3. Due(r, a)' = T - out + 1
        <5>1. Due(r, a)' = put'[r][a] + calls' - taken'[r][a]
          BY DEF Due
        <5>2. put' = put /\ calls' = calls + 1 /\ calls \in Nat
          BY <1>2, <1>6
        <5> QED
          BY <3>4, <4>2, <5>1, <5>2
      <4>4. CASE k < shares
        <5>1. /\ (h - k) * (R - out) <= (T - out + 1) * (shares - k)
              /\ T - out + 1 >= 0
          <6>1. PICK S \in Nat : S = shares /\ k < S /\ h <= S /\ k <= h
            BY <1>2, <3>1, <4>1, <4>4
          <6>2. R * k - S < out * S /\ out * S < R * k + S /\ h * R <= T * S /\ out <= R
            BY <3>1, <3>2, <6>1
          <6>3. /\ (h - k) * (R - out) <= (T - out + 1) * (S - k)
                /\ T - out + 1 >= 0
            BY <6>1, <6>2, OwnRemoval
          <6> QED
            BY <6>1, <6>3
        <5> QED
          BY <3>3, <4>1, <4>3, <5>1
      <4>5. CASE k = shares
        <5>1. h = shares /\ out = R
          <6>1. k <= h /\ h <= shares /\ shares \in Nat
            BY <1>2, <3>1, <4>1
          <6>2. h = shares
            BY <4>5, <6>1
          <6> QED
            BY <3>2, <4>5, <6>2
        <5>2. R * shares <= T * shares
          BY <1>2, <3>1, <5>1
        <5>3. R <= T
          BY <1>2, <5>2, SameFactor
        <5>4. Due(r, a)' >= 0 /\ Due(r, a)' \in Int
          BY <4>3, <5>1, <5>3
        <5>5. held'[r] = 0 /\ shares' = 0 /\ Reserve(a)' = 0
          BY <1>2, <3>3, <4>1, <4>5, <5>1
        <5> QED
          BY <5>4, <5>5
      <4> QED
        BY <1>1, <1>2, <4>4, <4>5
    <3>6. CASE r # p
      <4>1. held'[r] = h /\ h + k <= shares
        <5>1. held'[r] = held[r] /\ held[r] + held[p] <= shares
          BY <1>6, <1>7, <1>8, <3>6
        <5> QED
          BY <1>1, <1>2, <1>7, <3>1, <5>1
      <4>2. taken'[r][a] = taken[r][a]
        BY <1>6, <1>8, <3>6
      <4>3. Due(r, a)' = T + 1
        <5>1. Due(r, a)' = put'[r][a] + calls' - taken'[r][a]
          BY DEF Due
        <5>2. put' = put /\ calls' = calls + 1 /\ calls \in Nat
          BY <1>2, <1>6
        <5> QED
          BY <3>4, <4>2, <5>1, <5>2
      <4>4. h * (R - out) <= (T + 1) * (shares - k)
        BY <1>1, <1>2, <3>1, <3>2, <4>1, OthersRemoval
      <4> QED
        BY <3>3, <4>1, <4>3, <4>4
    <3> QED
      BY <3>5, <3>6
  <2> QED
    BY <2>3, <2>4 DEF FairShare
<1> QED
  BY <1>9, <1>12, <1>13

\* Shares are returned.
LEMMA RemoveStep ==
  ASSUME PoolInv, NEW p \in Providers, NEW k \in Inputs,
         RemoveLiquidity(p, k)
  PROVE  PoolInv'
<1>1. /\ Call /\ k \in Nat /\ k > 0 /\ k <= held[p] /\ k <= shares /\ k \in Amount
  BY PoolAssumption, Powers DEF RemoveLiquidity, Amount
<1>2. PICK b \in Nat, q \in Nat : b = Portion(base, k, shares) /\ q = Portion(quote, k, shares)
  <2>1. base \in Amount /\ quote \in Amount /\ shares \in Amount
    BY DEF PoolInv, PoolTypeOK
  <2>2. shares > 0
    BY <1>1, AccountTypes DEF PoolInv
  <2>3. Portion(base, k, shares) \in Nat /\ Portion(quote, k, shares) \in Nat
    BY <1>1, <2>1, <2>2, PortionType
  <2> QED
    BY <2>3
<1>3. Withdraw(p, k, b, q)
  BY <1>2 DEF RemoveLiquidity
<1>4. CASE \E s, c, d : Fail(s, c, d)
  BY <1>1, <1>4, FailStep
<1>5. CASE Withdrawn(p, k, b, q)
  <2>1. PoolTypeOK' /\ SharesAreHeld'
    BY <1>1, <1>5, WithdrawKeepsTypes
  <2>2. exact' = exact
    BY <1>5 DEF Withdrawn
  <2>3. CASE ~ exact
    BY <2>1, <2>2, <2>3 DEF PoolInv, BelowLimit, EmptiesCompletely, FairShare
  <2>4. CASE exact
    BY <2>1, <1>1, <1>2, <1>5, <2>4, ExactRemoval DEF PoolInv
  <2> QED
    BY <2>3, <2>4
<1> QED
  BY <1>3, <1>4, <1>5 DEF Withdraw, Withdrawn

-----------------------------------------------------------------------------
(* Swaps                                                                   *)

\* What a swap leaves of the two reserves.
LEMMA SwapReserves ==
  ASSUME NEW x \in Nat \ {0}, NEW y \in Nat \ {0}, NEW d \in Nat \ {0},
         NEW out, out = (y * d) \div (x + d)
  PROVE  /\ out \in Nat /\ out < y
         /\ (x + d) * (y - out) >= x * y
<1>1. y * d \in Nat /\ x + d \in Nat \ {0}
  BY Products
<1>2. out \in Nat /\ out * (x + d) <= y * d
  BY <1>1, DivFacts
<1>3. out * (x + d) < y * (x + d)
  <2>1. y * (x + d) = y * x + y * d /\ y * x > 0
    BY Products
  <2>2. out * (x + d) \in Nat /\ y * x \in Nat
    BY <1>2, Products
  <2> QED
    BY <1>1, <1>2, <2>1, <2>2
<1>4. out < y
  BY <1>1, <1>2, <1>3, SameFactor
<1>5. (x + d) * (y - out) = x * y + y * d - out * (x + d)
  <2>1. \A o \in Nat : (x + d) * (y - o) = x * y + y * d - o * (x + d)
    BY Products
  <2> QED
    BY <1>2, <2>1
<1>6. x * y \in Nat /\ out * (x + d) \in Nat
  BY <1>2, Products
<1> QED
  BY <1>1, <1>2, <1>4, <1>5, <1>6

\* What a swap does to the pool, between reserves that are int64s.
LEMMA SwapEffect ==
  ASSUME PoolInv, NEW asset \in Sides, NEW amtIn \in Inputs,
         Swap(asset, amtIn), IsInt64(base), IsInt64(quote)
  PROVE  base' > 0 /\ quote' > 0 /\ base' * quote' >= base * quote
<1>1. base \in Nat \ {0} /\ quote \in Nat \ {0}
  <2>1. base \in Nat /\ quote \in Nat
    BY AccountTypes DEF PoolInv
  <2> QED
    BY <2>1 DEF Swap
<1>2. PICK fee \in Nat :
        /\ amtIn - fee > 0
        /\ Exchange(asset, amtIn - fee,
                    IF asset = "base" THEN AmountOut(base, quote, amtIn, fee)
                                      ELSE AmountOut(quote, base, amtIn, fee))
  BY DEF Swap, Fraction
<1>3. amtIn \in Nat
  BY PoolAssumption
<1>4. PICK d \in Nat \ {0} : d = amtIn - fee
  BY <1>2, <1>3
<1>5. Balance(base) = base /\ Balance(quote) = quote
  BY DEF Balance
<1>6. CASE asset = "base"
  <2>1. PICK out : out = (quote * d) \div (base + d)
    OBVIOUS
  <2>2. base' = base + d /\ quote' = quote - out
    BY <1>2, <1>4, <1>5, <1>6, <2>1 DEF Exchange, AmountOut
  <2>3. out \in Nat /\ out < quote /\ (base + d) * (quote - out) >= base * quote
    BY <1>1, <2>1, SwapReserves
  <2> QED
    BY <1>1, <2>2, <2>3
<1>7. CASE asset # "base"
  <2>1. PICK out : out = (base * d) \div (quote + d)
    OBVIOUS
  <2>2. quote' = quote + d /\ base' = base - out
    BY <1>2, <1>4, <1>5, <1>7, <2>1 DEF Exchange, AmountOut
  <2>3. out \in Nat /\ out < base /\ (quote + d) * (base - out) >= quote * base
    BY <1>1, <2>1, SwapReserves
  <2>4. (quote + d) * (base - out) = (base - out) * (quote + d) /\ quote * base = base * quote
    BY <1>1, <2>3
  <2> QED
    BY <1>1, <2>2, <2>3, <2>4
<1> QED
  BY <1>6, <1>7

\* A swap changes no shares, and FairShare says nothing after one.
LEMMA SwapStep ==
  ASSUME PoolInv, NEW asset \in Sides, NEW amtIn \in Inputs,
         Swap(asset, amtIn)
  PROVE  PoolInv'
<1>1. /\ calls' = calls + 1 /\ calls < MaxCalls /\ swaps' = swaps + 1 /\ sequence' = sequence + 3
      /\ base > 0 /\ shares' = shares /\ failed' = failed
      /\ held' = held /\ put' = put /\ taken' = taken
  BY DEF Swap, Call, accounts
<1>2. PICK fee, d, out :
        fee \in Nat /\ AddAccumulatedFees(asset, fee) /\ Exchange(asset, d, out)
  BY DEF Swap, Fraction
<1>3. base' \in Amount /\ quote' \in Amount
  BY <1>2 DEF Exchange
<1>4. exact' => exact /\ base' < Limit /\ quote' < Limit
  <2>1. exact' => \A n \in {base', quote'} : exact /\ n < Limit
    BY DEF Swap, StaysExact
  <2> QED
    BY <2>1
<1>5. PoolTypeOK /\ calls \in Nat /\ swaps \in Nat /\ shares \in Nat
  BY AccountTypes DEF PoolInv
<1>6. PoolTypeOK'
  <2>1. sequence' \in 0 .. 3 * calls' /\ calls' \in 0 .. MaxCalls /\ swaps' \in 0 .. calls'
    BY <1>1, <1>5, PoolAssumption DEF PoolTypeOK
  <2>2. fees' \in [Sides -> Amount]
    <3>1. fees \in [Sides -> Amount] /\ fees[asset] \in Amount /\ fees[asset] \in Nat
      BY <1>5, SignedFacts DEF PoolTypeOK
    <3>2. Uint64(fees[asset] + fee) \in Amount
      BY <1>2, <3>1, Uint64Facts
    <3>3. fees' = [fees EXCEPT ![asset] = Uint64(fees[asset] + fee)]
      BY <1>2 DEF AddAccumulatedFees
    <3> QED
      BY <3>1, <3>2, <3>3
  <2>3. exact' \in BOOLEAN
    BY DEF Swap, StaysExact
  <2>4. /\ shares' \in Amount /\ failed' \in {<<>>} \cup (Amount \X Amount \X Amount)
        /\ held' \in [Providers -> Amount]
        /\ put' \in [Providers -> [Sides -> Nat]] /\ taken' \in [Providers -> [Sides -> Nat]]
    BY <1>1, <1>5 DEF PoolTypeOK
  <2> QED
    BY <1>3, <2>1, <2>2, <2>3, <2>4 DEF PoolTypeOK, Amount
<1>7. SharesAreHeld'
  BY <1>1 DEF PoolInv, SharesAreHeld
<1>8. BelowLimit'
  <2>1. exact => shares < Limit
    BY DEF PoolInv, BelowLimit
  <2> QED
    BY <1>1, <1>4, <2>1 DEF BelowLimit, Limit
<1>9. EmptiesCompletely'
  <2> SUFFICES ASSUME exact' PROVE EmptiesCompletely'
    BY DEF EmptiesCompletely
  <2>1. exact
    BY <1>4
  <2>2. shares # 0
    BY <1>1, <2>1 DEF PoolInv, EmptiesCompletely
  <2>3. IsInt64(base) /\ IsInt64(quote)
    <3>1. base < Limit /\ quote < Limit /\ base \in Amount /\ quote \in Amount
      BY <2>1 DEF PoolInv, BelowLimit, PoolTypeOK
    <3> QED
      BY <3>1, SignedFacts
  <2>4. base' # 0
    BY <2>3, SwapEffect
  <2> QED
    BY <1>1, <2>2, <2>4 DEF EmptiesCompletely
<1>10. FairShare'
  <2>1. swaps' # 0
    BY <1>1, <1>5
  <2> QED
    BY <2>1 DEF FairShare
<1> QED
  BY <1>6, <1>7, <1>8, <1>9, <1>10 DEF PoolInv

-----------------------------------------------------------------------------
(* The theorems about pools                                                *)

\* Every step of the pool.
LEMMA NextPool == PoolInv /\ [PoolNext]_poolVars => PoolInv'
<1> SUFFICES ASSUME PoolInv, [PoolNext]_poolVars PROVE PoolInv'
  OBVIOUS
<1>1. CASE UNCHANGED poolVars
  <2>1. UNCHANGED <<pool, accounts, swaps, exact>> /\ calls' = calls /\ failed' = failed
    BY <1>1 DEF poolVars
  <2>2. calls' \in 0 .. MaxCalls /\ calls <= calls'
    BY <2>1, AccountTypes DEF PoolInv, PoolTypeOK
  <2>3. failed' \in Left
    BY <2>1 DEF PoolInv, PoolTypeOK, Left
  <2> QED
    BY <2>1, <2>2, <2>3, PoolKept DEF Kept
<1>2. ASSUME NEW n \in Inputs, NEW p \in Providers, AddFirstLiquidity(p, n) PROVE PoolInv'
  BY <1>2, AddFirstStep
<1>3. ASSUME NEW n \in Inputs, NEW p \in Providers, AddLiquidity(p, n) PROVE PoolInv'
  BY <1>3, AddStep
<1>4. ASSUME NEW n \in Inputs, NEW p \in Providers, RemoveLiquidity(p, n) PROVE PoolInv'
  BY <1>4, RemoveStep
<1>5. ASSUME NEW n \in Inputs, NEW asset \in Sides, Swap(asset, n) PROVE PoolInv'
  BY <1>5, SwapStep
<1>6. CASE Drop
  BY <1>6, DropStep
<1> QED
  BY <1>1, <1>2, <1>3, <1>4, <1>5, <1>6 DEF PoolNext

\* The providers hold the shares of the pool, all of them, for amounts of any size, whatever is
\* rounded, read with a sign or cut to a uint64, and also when calls end with an error: Deposit
\* and Withdraw give and take the shares that they add and subtract.
THEOREM SharesAreHeldTheorem == PoolSpec => [](SharesAreHeld /\ PoolTypeOK)
<1>1. PoolInv => SharesAreHeld /\ PoolTypeOK
  BY DEF PoolInv
<1> QED
  BY <1>1, InitPool, NextPool, PTL DEF PoolSpec

\* As long as amounts are below 2^Bits, however their parts are rounded, the last provider takes
\* everything out, and a pool with shares has base assets: Portion is never wrong by enough to
\* pay out a reserve too early, or to keep back some of it.
THEOREM EmptiesCompletelyTheorem == PoolSpec => []EmptiesCompletely
<1>1. PoolInv => EmptiesCompletely
  BY DEF PoolInv
<1> QED
  BY <1>1, InitPool, NextPool, PTL DEF PoolSpec

\* Without swaps, as long as amounts are below 2^Bits, no provider gets more out of AddLiquidity
\* and RemoveLiquidity than a unit of rounding per call, whoever else adds and removes.
THEOREM OnlyRoundingGainedTheorem == PoolSpec => []OnlyRoundingGained
<1>1. PoolInv => OnlyRoundingGained
  <2> SUFFICES ASSUME PoolInv, exact, swaps = 0, NEW p \in Providers, NEW a \in Sides
               PROVE  taken[p][a] <= put[p][a] + calls
    BY DEF OnlyRoundingGained
  <2>1. put[p][a] \in Nat /\ taken[p][a] \in Nat /\ calls \in Nat
    BY AccountTypes DEF PoolInv
  <2>2. put[p][a] + calls - taken[p][a] >= 0
    BY DEF PoolInv, FairShare, Due
  <2> QED
    BY <2>1, <2>2
<1> QED
  BY <1>1, InitPool, NextPool, PTL DEF PoolSpec

\* A simulated swap that is applied never lowers the product of reserves that are int64s nor
\* empties one, whatever the fee is.
THEOREM ProductNeverFallsTheorem == PoolSpec => ProductNeverFalls
<1>1. ASSUME PoolInv, [PoolNext]_poolVars, swaps' # swaps, IsInt64(base), IsInt64(quote)
      PROVE  base' * quote' >= base * quote /\ base' > 0 /\ quote' > 0
  <2>1. PICK asset \in Sides, n \in Inputs : Swap(asset, n)
    <3>1. PoolNext
      BY <1>1 DEF poolVars
    <3>2. ASSUME NEW s, NEW b, NEW q, Fail(s, b, q) \/ Assign(s, b, q)
          PROVE  FALSE
      BY <1>1, <3>2 DEF Fail, Assign
    <3>3. ASSUME NEW p \in Providers, NEW n \in Inputs
          PROVE  ~ AddFirstLiquidity(p, n) /\ ~ AddLiquidity(p, n) /\ ~ RemoveLiquidity(p, n)
      <4>1. ~ AddFirstLiquidity(p, n)
        BY <3>2 DEF AddFirstLiquidity, Deposit
      <4>2. ~ AddLiquidity(p, n)
        BY <3>2 DEF AddLiquidity, Deposit
      <4>3. ~ RemoveLiquidity(p, n)
        BY <3>2 DEF RemoveLiquidity, Withdraw
      <4> QED
        BY <4>1, <4>2, <4>3
    <3>4. ~ Drop
      BY <1>1 DEF Drop
    <3> QED
      BY <3>1, <3>3, <3>4 DEF PoolNext
  <2> QED
    BY <1>1, <2>1, SwapEffect
<1>2. PoolInv /\ [PoolNext]_poolVars =>
        [swaps' # swaps /\ IsInt64(base) /\ IsInt64(quote) =>
           base' * quote' >= base * quote /\ base' > 0 /\ quote' > 0]_poolVars
  BY <1>1
<1> QED
  BY <1>2, InitPool, NextPool, PTL DEF PoolSpec, ProductNeverFalls
=============================================================================
