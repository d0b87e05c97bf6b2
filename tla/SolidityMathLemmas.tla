------------------------- MODULE SolidityMathLemmas -------------------------
(* Facts about products, integer division and sums that the proofs about   *)
(* the contracts' arithmetic cite.  Each keeps one product or quotient,     *)
(* since the provers do not reason about several at once.                   *)
EXTENDS SolidityMath, FiniteSets, Functions, FiniteSetTheorems, TLAPS

\* A product with a natural number is a natural number.
LEMMA ProductType ==
  ASSUME NEW a \in Nat, NEW b \in Nat
  PROVE  a * b \in Nat
  BY SMT

\* Multiplication by a natural number preserves <=.
LEMMA ProductMonotone ==
  ASSUME NEW a \in Int, NEW b \in Int, NEW k \in Nat, a <= b
  PROVE  a * k <= b * k
  BY SMT

\* Multiplication by a positive number preserves <.
LEMMA ProductStrict ==
  ASSUME NEW a \in Int, NEW b \in Int, NEW k \in Nat \ {0}, a < b
  PROVE  a * k < b * k
  BY SMT

\* A positive factor cancels from <.
LEMMA CancelStrict ==
  ASSUME NEW a \in Int, NEW b \in Int, NEW k \in Nat \ {0}, a * k < b * k
  PROVE  a < b
  BY SMT

\* A positive factor cancels from <=.
LEMMA Cancel ==
  ASSUME NEW a \in Int, NEW b \in Int, NEW k \in Nat \ {0}, a * k <= b * k
  PROVE  a <= b
  BY SMT

\* \div rounds down: the quotient is the greatest number whose product with
\* the divisor does not exceed the dividend.
LEMMA DivBounds ==
  ASSUME NEW a \in Nat, NEW b \in Nat \ {0}
  PROVE  /\ a \div b \in Nat
         /\ (a \div b) * b <= a
         /\ a < ((a \div b) + 1) * b
  BY SMT

\* Division without and with a remainder.
LEMMA Multiple ==
  ASSUME NEW a \in Nat, NEW b \in Nat \ {0}, a % b = 0
  PROVE  a = (a \div b) * b
  BY SMT
LEMMA MultipleOf ==
  ASSUME NEW k \in Nat, NEW b \in Nat \ {0}
  PROVE  (k * b) % b = 0
  BY SMT

\* A positive truncated quotient is bounded like an unsigned one.
LEMMA TruncDivPositive ==
  ASSUME NEW a \in Int, NEW b \in Nat \ {0}, TruncDiv(a, b) > 0
  PROVE  /\ a \in Nat
         /\ TruncDiv(a, b) \in Nat
         /\ TruncDiv(a, b) * b <= a
  BY DivBounds, SMT DEF TruncDiv

\* A negative truncated quotient is one whose magnitude is bounded.
LEMMA TruncDivNegative ==
  ASSUME NEW a \in Int, NEW b \in Nat \ {0}, TruncDiv(a, b) < 0
  PROVE  /\ -a \in Nat
         /\ -TruncDiv(a, b) \in Nat
         /\ (-TruncDiv(a, b)) * b <= -a
  BY DivBounds, SMT DEF TruncDiv

\* A truncated quotient is an integer.
LEMMA TruncDivType ==
  ASSUME NEW a \in Int, NEW b \in Nat \ {0}
  PROVE  TruncDiv(a, b) \in Int
  BY DivBounds, SMT DEF TruncDiv

\* A truncated quotient's magnitude is rounded down.
LEMMA TruncDivBounds ==
  ASSUME NEW a \in Int, NEW b \in Nat \ {0}
  PROVE  /\ TruncDiv(a, b) > 0 => a < (TruncDiv(a, b) + 1) * b
         /\ TruncDiv(a, b) < 0 => -a < (-TruncDiv(a, b) + 1) * b
  BY DivBounds, SMT DEF TruncDiv

\* Rounding two quotients down loses at most one against rounding their sum.
LEMMA DivOfSum ==
  ASSUME NEW a \in Nat, NEW b \in Nat, NEW c \in Nat \ {0}
  PROVE  /\ (a \div c) + (b \div c) <= (a + b) \div c
         /\ (a + b) \div c <= (a \div c) + (b \div c) + 1
<1> DEFINE q == a \div c
           r == b \div c
           t == (a + b) \div c
<1>1. /\ q \in Nat /\ q * c <= a /\ a < (q + 1) * c
      /\ r \in Nat /\ r * c <= b /\ b < (r + 1) * c
      /\ t \in Nat /\ t * c <= a + b /\ a + b < (t + 1) * c
  BY DivBounds, SMT
<1> HIDE DEF q, r, t
<1>2. (q + r) * c < (t + 1) * c
  BY <1>1, SMT
<1>3. t * c < (q + r + 2) * c
  BY <1>1, SMT
<1>4. q + r < t + 1 /\ t < q + r + 2
  BY <1>1, <1>2, <1>3, CancelStrict, SMT
<1> QED BY <1>1, <1>4, SMT DEF q, r, t

-----------------------------------------------------------------------------
(* Sums: SumFunctionOnSet is a fold, and a fold a recursive function over   *)
(* the subsets of its set.                                                  *)

\* Induction over finite sets: a set G of sets stands for the property, since
\* a lemma with an operator for a parameter cannot be used.  It rests on the
\* strict subsets of a finite set being well founded.
LEMMA FiniteSetInduction ==
  ASSUME NEW S, IsFiniteSet(S), NEW G,
         \A T \in SUBSET S : (\A U \in SUBSET T : U # T => U \in G) => T \in G
  PROVE  S \in G
<1> DEFINE Bad == {T \in SUBSET S : T \notin G}
<1> SUFFICES ASSUME S \notin G PROVE FALSE
  OBVIOUS
<1>1. Bad # {} /\ Bad \subseteq FiniteSubsetsOf(S)
  BY FS_FiniteSubsetsOfFinite
<1>2. PICK T \in Bad : \A U \in Bad : ~(<<U, T>> \in StrictSubsetOrdering(S))
  <2> HIDE DEF Bad
  <2> QED BY <1>1, WFMin, FS_StrictSubsetOrderingWellFounded
<1>3. \A U \in SUBSET T : U # T => U \in G
  BY <1>2 DEF StrictSubsetOrdering
<1> QED BY <1>2, <1>3

\* The element a fold takes first.
Chosen(s) == CHOOSE x \in s : TRUE

\* h gives the sum of f over each subset of S.
SumsOf(h, f, S) ==
  h = [s \in SUBSET S |-> IF s = {} THEN 0 ELSE f[Chosen(s)] + h[s \ {Chosen(s)}]]

\* Two such functions agree on every finite set both are defined on.
LEMMA SumsAreUnique ==
  ASSUME NEW f, NEW S, NEW T, NEW g, NEW h, SumsOf(g, f, S), SumsOf(h, f, T),
         NEW s \in SUBSET S, s \in SUBSET T, IsFiniteSet(s)
  PROVE  g[s] = h[s]
<1> DEFINE G == {U \in SUBSET s : g[U] = h[U]}
<1>1. ASSUME NEW U \in SUBSET s, \A V \in SUBSET U : V # U => V \in G
      PROVE  U \in G
  <2>1. CASE U = {}
    BY <2>1 DEF SumsOf
  <2>2. CASE U # {}
    <3>1. Chosen(U) \in U
      BY <2>2 DEF Chosen
    <3>2. g[U \ {Chosen(U)}] = h[U \ {Chosen(U)}]
      BY <1>1, <3>1
    <3>3. /\ g[U] = f[Chosen(U)] + g[U \ {Chosen(U)}]
          /\ h[U] = f[Chosen(U)] + h[U \ {Chosen(U)}]
      BY <2>2 DEF SumsOf
    <3> QED BY <3>2, <3>3
  <2> QED BY <2>1, <2>2
<1>2. s \in G
  <2> HIDE DEF G
  <2> QED BY <1>1, FiniteSetInduction
<1> QED BY <1>2

\* Such a function, as the library's fold chooses it.
SumsOver(f, S) == CHOOSE h : SumsOf(h, f, S)

\* There is one over every finite set.
LEMMA SumsExist ==
  ASSUME NEW f, NEW S, IsFiniteSet(S)
  PROVE  SumsOf(SumsOver(f, S), f, S)
<1> DEFINE G == {T \in SUBSET S : SumsOf(SumsOver(f, T), f, T)}
<1>1. ASSUME NEW T \in SUBSET S, \A U \in SUBSET T : U # T => U \in G
      PROVE  T \in G
  <2> DEFINE Rest(s) == s \ {Chosen(s)}
             g == [s \in SUBSET T |-> IF s = {} THEN 0
                                      ELSE f[Chosen(s)] + SumsOver(f, Rest(s))[Rest(s)]]
  <2>1. ASSUME NEW s \in SUBSET T, s # T PROVE g[s] = SumsOver(f, s)[s]
    <3>1. SumsOf(SumsOver(f, s), f, s)
      BY <1>1, <2>1
    <3>2. CASE s = {}
      BY <3>1, <3>2 DEF SumsOf
    <3>3. CASE s # {}
      <4>1. Chosen(s) \in s
        BY <3>3 DEF Chosen
      <4>2. SumsOf(SumsOver(f, Rest(s)), f, Rest(s))
        BY <1>1, <4>1
      <4>3. IsFiniteSet(Rest(s))
        BY FS_Subset
      <4>4. SumsOver(f, s)[Rest(s)] = SumsOver(f, Rest(s))[Rest(s)]
        BY <3>1, <4>2, <4>3, SumsAreUnique
      <4>5. SumsOver(f, s)[s] = f[Chosen(s)] + SumsOver(f, s)[Rest(s)]
        BY <3>1, <3>3 DEF SumsOf
      <4> QED BY <3>3, <4>4, <4>5
    <3> QED BY <3>2, <3>3
  <2>2. SumsOf(g, f, T)
    <3>1. ASSUME NEW s \in SUBSET T, s # {} PROVE g[Rest(s)] = SumsOver(f, Rest(s))[Rest(s)]
      <4>1. Chosen(s) \in s
        BY <3>1 DEF Chosen
      <4>2. Rest(s) \in SUBSET T /\ Rest(s) # T
        BY <4>1
      <4> HIDE DEF g, Rest
      <4> QED BY <2>1, <4>2
    <3> QED BY <3>1 DEF SumsOf
  <2>3. SumsOf(SumsOver(f, T), f, T)
    <3> HIDE DEF g
    <3> QED BY <2>2 DEF SumsOver
  <2> QED BY <2>3
<1>2. S \in G
  <2> HIDE DEF G
  <2> QED BY <1>1, FiniteSetInduction
<1> QED BY <1>2

\* The library's sum is its value at the whole set.
LEMMA SumIsSumsOver ==
  ASSUME NEW f, NEW S
  PROVE  SumFunctionOnSet(f, S) = SumsOver(f, S)[S]
  BY DEF SumFunctionOnSet, FoldFunctionOnSet, MapThenFoldSet, SumsOver, SumsOf, Chosen

\* A sum is what one of the elements, and the others, add up to.
LEMMA SumEquation ==
  ASSUME NEW f, NEW S, IsFiniteSet(S)
  PROVE  /\ S = {} => SumFunctionOnSet(f, S) = 0
         /\ S # {} => /\ Chosen(S) \in S
                      /\ SumFunctionOnSet(f, S) =
                            f[Chosen(S)] + SumFunctionOnSet(f, S \ {Chosen(S)})
<1>1. SumsOf(SumsOver(f, S), f, S)
  BY SumsExist
<1>2. CASE S = {}
  BY <1>1, <1>2, SumIsSumsOver DEF SumsOf
<1>3. CASE S # {}
  <2> DEFINE R == S \ {Chosen(S)}
  <2>1. Chosen(S) \in S
    BY <1>3 DEF Chosen
  <2>2. IsFiniteSet(R) /\ R \in SUBSET S
    BY FS_Subset
  <2>3. SumsOf(SumsOver(f, R), f, R)
    BY <2>2, SumsExist
  <2>4. SumsOver(f, S)[R] = SumsOver(f, R)[R]
    <3> HIDE DEF R
    <3> QED BY <1>1, <2>2, <2>3, SumsAreUnique
  <2>5. SumsOver(f, S)[S] = f[Chosen(S)] + SumsOver(f, S)[R]
    BY <1>1, <1>3 DEF SumsOf
  <2> QED BY <1>3, <2>1, <2>4, <2>5, SumIsSumsOver
<1> QED BY <1>2, <1>3

\* A sum of integers is an integer, and any element may be taken out first.
LEMMA SumRemove ==
  ASSUME NEW S, IsFiniteSet(S), NEW f, \A x \in S : f[x] \in Int
  PROVE  /\ SumFunctionOnSet(f, S) \in Int
         /\ \A x \in S : SumFunctionOnSet(f, S) = f[x] + SumFunctionOnSet(f, S \ {x})
<1> DEFINE Sum(T) == SumFunctionOnSet(f, T)
           Adds(T) == Sum(T) \in Int /\ \A x \in T : Sum(T) = f[x] + Sum(T \ {x})
           G == {T \in SUBSET S : Adds(T)}
<1>1. ASSUME NEW T \in SUBSET S, \A U \in SUBSET T : U # T => U \in G
      PROVE  T \in G
  <2>1. IsFiniteSet(T)
    BY FS_Subset
  <2>2. CASE T = {}
    <3>1. Sum(T) = 0
      BY <2>1, <2>2, SumEquation
    <3> HIDE DEF Sum
    <3> QED BY <2>2, <3>1
  <2>3. CASE T # {}
    <3> DEFINE c == Chosen(T)
    <3>1. c \in T /\ Sum(T) = f[c] + Sum(T \ {c})
      BY <2>1, <2>3, SumEquation
    <3>2. \A x \in T : Adds(T \ {x}) /\ f[x] \in Int
      BY <1>1
    <3> HIDE DEF Sum, c
    <3>3. Sum(T) \in Int
      BY <3>1, <3>2
    <3>4. ASSUME NEW x \in T, x # c PROVE Sum(T) = f[x] + Sum(T \ {x})
      <4>1. (T \ {c}) \ {x} = (T \ {x}) \ {c} /\ x \in T \ {c} /\ c \in T \ {x}
        BY <3>1, <3>4
      <4>2. Sum(T \ {c}) = f[x] + Sum((T \ {c}) \ {x})
        BY <3>1, <3>2, <4>1
      <4>3. Sum(T \ {x}) = f[c] + Sum((T \ {c}) \ {x})
        BY <3>2, <4>1
      <4>4. Sum((T \ {c}) \ {x}) \in Int
        <5>1. (T \ {c}) \ {x} \in SUBSET T /\ (T \ {c}) \ {x} # T
          BY <4>1
        <5> QED BY <5>1, <1>1
      <4> QED BY <3>1, <3>2, <4>2, <4>3, <4>4
    <3> QED BY <3>1, <3>3, <3>4
  <2> QED BY <2>2, <2>3
<1>2. S \in G
  <2> HIDE DEF G
  <2> QED BY <1>1, FiniteSetInduction
<1> QED BY <1>2

\* The sum of lesser terms is no greater.
LEMMA SumMonotone ==
  ASSUME NEW S, IsFiniteSet(S), NEW f, NEW g,
         \A x \in S : f[x] \in Int /\ g[x] \in Int /\ f[x] <= g[x]
  PROVE  SumFunctionOnSet(f, S) <= SumFunctionOnSet(g, S)
<1> DEFINE Sum(e, T) == SumFunctionOnSet(e, T)
           G == {T \in SUBSET S : Sum(f, T) <= Sum(g, T)}
<1>0. \A x \in S : f[x] \in Int /\ g[x] \in Int
  OBVIOUS
<1>1. ASSUME NEW T \in SUBSET S, \A U \in SUBSET T : U # T => U \in G
      PROVE  T \in G
  <2>1. IsFiniteSet(T)
    BY FS_Subset
  <2>2. CASE T = {}
    <3>1. Sum(f, T) = 0 /\ Sum(g, T) = 0
      BY <2>1, <2>2, SumEquation
    <3> HIDE DEF Sum
    <3> QED BY <3>1
  <2>3. CASE T # {}
    <3>1. PICK c \in T : TRUE
      BY <2>3
    <3> DEFINE R == T \ {c}
    <3>2. IsFiniteSet(R) /\ R \in SUBSET T /\ R # T
      BY <2>1, <3>1, FS_Subset
    <3>3. Sum(f, R) <= Sum(g, R)
      BY <1>1, <3>2
    <3>4. /\ Sum(f, T) = f[c] + Sum(f, R)
          /\ Sum(g, T) = g[c] + Sum(g, R)
      BY <1>0, <2>1, SumRemove
    <3>5. Sum(f, R) \in Int /\ Sum(g, R) \in Int
      BY <1>0, <3>2, SumRemove
    <3> HIDE DEF Sum, R
    <3> QED BY <1>0, <3>3, <3>4, <3>5
  <2> QED BY <2>2, <2>3
<1>2. S \in G
  <2> HIDE DEF G
  <2> QED BY <1>1, FiniteSetInduction
<1> QED BY <1>2

\* Equal terms add up to equal sums.
LEMMA SumEqual ==
  ASSUME NEW S, IsFiniteSet(S), NEW f, NEW g,
         \A x \in S : f[x] \in Int /\ g[x] = f[x]
  PROVE  SumFunctionOnSet(f, S) = SumFunctionOnSet(g, S)
<1>1. \A x \in S : f[x] \in Int /\ g[x] \in Int /\ f[x] <= g[x] /\ g[x] <= f[x]
  OBVIOUS
<1>2. SumFunctionOnSet(f, S) <= SumFunctionOnSet(g, S)
  BY <1>1, SumMonotone
<1>3. SumFunctionOnSet(g, S) <= SumFunctionOnSet(f, S)
  BY <1>1, SumMonotone
<1>4. SumFunctionOnSet(f, S) \in Int /\ SumFunctionOnSet(g, S) \in Int
  BY <1>1, SumRemove
<1> QED BY <1>2, <1>3, <1>4

\* The sum of two sums.
LEMMA SumAdd ==
  ASSUME NEW S, IsFiniteSet(S), NEW f, NEW g, NEW h,
         \A x \in S : f[x] \in Int /\ g[x] \in Int /\ h[x] = f[x] + g[x]
  PROVE  SumFunctionOnSet(h, S) = SumFunctionOnSet(f, S) + SumFunctionOnSet(g, S)
<1> DEFINE Sum(e, T) == SumFunctionOnSet(e, T)
           G == {T \in SUBSET S : Sum(h, T) = Sum(f, T) + Sum(g, T)}
<1>0. \A x \in S : f[x] \in Int /\ g[x] \in Int /\ h[x] \in Int
  OBVIOUS
<1>1. ASSUME NEW T \in SUBSET S, \A U \in SUBSET T : U # T => U \in G
      PROVE  T \in G
  <2>1. IsFiniteSet(T)
    BY FS_Subset
  <2>2. CASE T = {}
    <3>1. Sum(f, T) = 0 /\ Sum(g, T) = 0 /\ Sum(h, T) = 0
      BY <2>1, <2>2, SumEquation
    <3> HIDE DEF Sum
    <3> QED BY <3>1
  <2>3. CASE T # {}
    <3>1. PICK c \in T : TRUE
      BY <2>3
    <3> DEFINE R == T \ {c}
    <3>2. IsFiniteSet(R) /\ R \in SUBSET T /\ R # T
      BY <2>1, <3>1, FS_Subset
    <3>3. Sum(h, R) = Sum(f, R) + Sum(g, R)
      BY <1>1, <3>2
    <3>4. /\ Sum(f, T) = f[c] + Sum(f, R)
          /\ Sum(g, T) = g[c] + Sum(g, R)
          /\ Sum(h, T) = h[c] + Sum(h, R)
      BY <1>0, <2>1, SumRemove
    <3>5. Sum(f, R) \in Int /\ Sum(g, R) \in Int /\ Sum(h, R) \in Int
      BY <1>0, <3>2, SumRemove
    <3> HIDE DEF Sum, R
    <3> QED BY <1>0, <3>3, <3>4, <3>5
  <2> QED BY <2>2, <2>3
<1>2. S \in G
  <2> HIDE DEF G
  <2> QED BY <1>1, FiniteSetInduction
<1> QED BY <1>2

\* A common factor may be taken out.
LEMMA SumScale ==
  ASSUME NEW S, IsFiniteSet(S), NEW f, NEW h, NEW k \in Int,
         \A x \in S : f[x] \in Int /\ h[x] = k * f[x]
  PROVE  SumFunctionOnSet(h, S) = k * SumFunctionOnSet(f, S)
<1> DEFINE Sum(e, T) == SumFunctionOnSet(e, T)
           G == {T \in SUBSET S : Sum(h, T) = k * Sum(f, T)}
<1>0. \A x \in S : f[x] \in Int /\ h[x] \in Int
  OBVIOUS
<1>1. ASSUME NEW T \in SUBSET S, \A U \in SUBSET T : U # T => U \in G
      PROVE  T \in G
  <2>1. IsFiniteSet(T)
    BY FS_Subset
  <2>2. CASE T = {}
    <3>1. Sum(f, T) = 0 /\ Sum(h, T) = 0
      BY <2>1, <2>2, SumEquation
    <3> HIDE DEF Sum
    <3> QED BY <3>1
  <2>3. CASE T # {}
    <3>1. PICK c \in T : TRUE
      BY <2>3
    <3> DEFINE R == T \ {c}
    <3>2. IsFiniteSet(R) /\ R \in SUBSET T /\ R # T
      BY <2>1, <3>1, FS_Subset
    <3>3. Sum(h, R) = k * Sum(f, R)
      BY <1>1, <3>2
    <3>4. /\ Sum(f, T) = f[c] + Sum(f, R)
          /\ Sum(h, T) = h[c] + Sum(h, R)
      BY <1>0, <2>1, SumRemove
    <3>5. Sum(f, R) \in Int /\ Sum(h, R) \in Int
      BY <1>0, <3>2, SumRemove
    <3> HIDE DEF Sum, R
    <3>6. k * (f[c] + Sum(f, R)) = k * f[c] + k * Sum(f, R)
      BY <1>0, <3>5
    <3> QED BY <1>0, <3>3, <3>4, <3>5, <3>6
  <2> QED BY <2>2, <2>3
<1>2. S \in G
  <2> HIDE DEF G
  <2> QED BY <1>1, FiniteSetInduction
<1> QED BY <1>2

\* Elements of value 0 may be left out.
LEMMA SumSupport ==
  ASSUME NEW S, IsFiniteSet(S), NEW f, \A x \in S : f[x] \in Int,
         NEW M \in SUBSET S, \A x \in S \ M : f[x] = 0
  PROVE  SumFunctionOnSet(f, S) = SumFunctionOnSet(f, M)
<1> DEFINE Sum(T) == SumFunctionOnSet(f, T)
           G == {T \in SUBSET S : Sum(T) = Sum(T \cap M)}
<1>1. ASSUME NEW T \in SUBSET S, \A U \in SUBSET T : U # T => U \in G
      PROVE  T \in G
  <2>1. IsFiniteSet(T)
    BY FS_Subset
  <2>2. CASE T \subseteq M
    <3>1. T \cap M = T
      BY <2>2
    <3> QED BY <3>1
  <2>3. CASE ~(T \subseteq M)
    <3>1. PICK c \in T : c \notin M
      BY <2>3
    <3>2. Sum(T \ {c}) = Sum(T \cap M)
      <4>1. T \ {c} \in G /\ (T \ {c}) \cap M = T \cap M
        BY <1>1, <3>1
      <4> HIDE DEF Sum
      <4> QED BY <4>1
    <3>3. Sum(T) = f[c] + Sum(T \ {c}) /\ Sum(T) \in Int /\ f[c] = 0
      BY <2>1, <3>1, SumRemove
    <3>4. IsFiniteSet(T \ {c})
      BY <2>1, FS_Subset
    <3>5. Sum(T \ {c}) \in Int
      BY <3>4, SumRemove
    <3> HIDE DEF Sum
    <3> QED BY <3>2, <3>3, <3>5
  <2> QED BY <2>2, <2>3
<1>2. S \in G
  <2> HIDE DEF G
  <2> QED BY <1>1, FiniteSetInduction
<1>3. S \cap M = M
  OBVIOUS
<1> QED BY <1>2, <1>3

\* Changing one element changes the sum by as much.
LEMMA SumChange ==
  ASSUME NEW S, IsFiniteSet(S), NEW f, NEW g, NEW c \in S,
         \A x \in S : f[x] \in Int /\ g[x] \in Int,
         \A x \in S : x # c => g[x] = f[x]
  PROVE  SumFunctionOnSet(g, S) = SumFunctionOnSet(f, S) + g[c] - f[c]
<1> DEFINE R == S \ {c}
<1>1. /\ SumFunctionOnSet(f, S) = f[c] + SumFunctionOnSet(f, R)
      /\ SumFunctionOnSet(g, S) = g[c] + SumFunctionOnSet(g, R)
  BY SumRemove
<1>2. IsFiniteSet(R) /\ \A x \in R : f[x] \in Int /\ g[x] \in Int /\ f[x] = g[x]
  BY FS_Subset
<1> HIDE DEF R
<1>3. SumFunctionOnSet(f, R) = SumFunctionOnSet(g, R) /\ SumFunctionOnSet(f, R) \in Int
  BY <1>2, SumEqual, SumRemove
<1> QED BY <1>1, <1>3

\* The same for an update.
LEMMA SumUpdate ==
  ASSUME NEW S, IsFiniteSet(S), NEW f \in [S -> Int], NEW c \in S, NEW d \in Int
  PROVE  SumFunctionOnSet([f EXCEPT ![c] = @ + d], S) = SumFunctionOnSet(f, S) + d
<1> DEFINE g == [f EXCEPT ![c] = @ + d]
<1>1. \A x \in S : f[x] \in Int /\ g[x] \in Int
  OBVIOUS
<1>2. \A x \in S : x # c => g[x] = f[x]
  OBVIOUS
<1>3. g[c] = f[c] + d /\ f[c] \in Int
  OBVIOUS
<1> HIDE DEF g
<1>4. SumFunctionOnSet(g, S) = SumFunctionOnSet(f, S) + g[c] - f[c]
  BY <1>1, <1>2, SumChange
<1>5. SumFunctionOnSet(f, S) \in Int
  BY <1>1, SumRemove
<1>6. SumFunctionOnSet(g, S) = SumFunctionOnSet(f, S) + d
  BY <1>3, <1>4, <1>5
<1> QED BY <1>6 DEF g

\* Changing the elements of a subset by e changes the sum by e's sum.
LEMMA SumBatch ==
  ASSUME NEW S, IsFiniteSet(S), NEW M \in SUBSET S, NEW f, NEW g, NEW e,
         \A x \in S : f[x] \in Int,
         \A x \in M : e[x] \in Int /\ g[x] = f[x] + e[x],
         \A x \in S \ M : g[x] = f[x]
  PROVE  SumFunctionOnSet(g, S) = SumFunctionOnSet(f, S) + SumFunctionOnSet(e, M)
<1> DEFINE d == [x \in S |-> IF x \in M THEN e[x] ELSE 0]
<1>1. \A x \in S : f[x] \in Int /\ d[x] \in Int /\ g[x] = f[x] + d[x]
  OBVIOUS
<1>2. /\ \A x \in S : d[x] \in Int
      /\ \A x \in S \ M : d[x] = 0
      /\ \A x \in M : d[x] \in Int /\ e[x] = d[x]
  OBVIOUS
<1>3. IsFiniteSet(M)
  BY FS_Subset
<1> HIDE DEF d
<1>4. SumFunctionOnSet(g, S) = SumFunctionOnSet(f, S) + SumFunctionOnSet(d, S)
  BY <1>1, SumAdd
<1>5. SumFunctionOnSet(d, S) = SumFunctionOnSet(d, M)
  BY <1>2, SumSupport
<1>6. SumFunctionOnSet(d, M) = SumFunctionOnSet(e, M)
  BY <1>2, <1>3, SumEqual
<1> QED BY <1>4, <1>5, <1>6

\* A sum of natural numbers is one, and no less than any of them.
LEMMA SumOfNaturals ==
  ASSUME NEW S, IsFiniteSet(S), NEW f, \A x \in S : f[x] \in Nat
  PROVE  /\ SumFunctionOnSet(f, S) \in Nat
         /\ \A x \in S : f[x] <= SumFunctionOnSet(f, S)
<1>1. ASSUME NEW T \in SUBSET S PROVE SumFunctionOnSet(f, T) \in Nat
  <2> DEFINE zero == [x \in S |-> 0]
  <2>1. IsFiniteSet(T) /\ \A x \in T : zero[x] \in Int /\ f[x] \in Int /\ zero[x] <= f[x]
    BY FS_Subset
  <2>2. SumFunctionOnSet(zero, T) <= SumFunctionOnSet(f, T) /\ SumFunctionOnSet(f, T) \in Int
    <3> HIDE DEF zero
    <3> QED BY <2>1, SumMonotone, SumRemove
  <2>3. SumFunctionOnSet(zero, T) = 0
    <3>1. SumFunctionOnSet(zero, T) = SumFunctionOnSet(zero, {})
      <4>1. {} \in SUBSET T /\ \A x \in T \ {} : zero[x] = 0
        OBVIOUS
      <4> HIDE DEF zero
      <4> QED BY <2>1, <4>1, SumSupport
    <3> QED BY <3>1, FS_EmptySet, SumEquation
  <2> QED BY <2>2, <2>3
<1>2. ASSUME NEW x \in S PROVE f[x] <= SumFunctionOnSet(f, S)
  <2>1. SumFunctionOnSet(f, S) = f[x] + SumFunctionOnSet(f, S \ {x})
    BY SumRemove
  <2>2. SumFunctionOnSet(f, S \ {x}) \in Nat
    BY <1>1
  <2> QED BY <2>1, <2>2
<1> QED BY <1>1, <1>2

\* The size of a set is a sum of ones.
LEMMA SumOfOnes ==
  ASSUME NEW S, IsFiniteSet(S), NEW f, NEW M \in SUBSET S,
         \A x \in S : f[x] = IF x \in M THEN 1 ELSE 0
  PROVE  SumFunctionOnSet(f, S) = Cardinality(M)
<1> DEFINE Sum(T) == SumFunctionOnSet(f, T)
           G == {T \in SUBSET M : Sum(T) = Cardinality(T)}
<1>0. IsFiniteSet(M) /\ \A x \in M : f[x] = 1
  BY FS_Subset
<1>1. ASSUME NEW T \in SUBSET M, \A U \in SUBSET T : U # T => U \in G
      PROVE  T \in G
  <2>1. IsFiniteSet(T)
    BY <1>0, FS_Subset
  <2>2. CASE T = {}
    <3>1. Sum(T) = 0
      BY <2>1, <2>2, SumEquation
    <3> HIDE DEF Sum
    <3> QED BY <2>2, <3>1, FS_EmptySet
  <2>3. CASE T # {}
    <3>1. PICK c \in T : TRUE
      BY <2>3
    <3>2. Sum(T \ {c}) = Cardinality(T \ {c})
      <4>1. T \ {c} \in G
        BY <1>1, <3>1
      <4> HIDE DEF Sum
      <4> QED BY <4>1
    <3>3. Sum(T) = f[c] + Sum(T \ {c}) /\ f[c] = 1
      BY <1>0, <2>1, <3>1, SumRemove
    <3>4. Cardinality(T \ {c}) = Cardinality(T) - 1 /\ Cardinality(T) \in Nat
      BY <2>1, <3>1, FS_RemoveElement, FS_CardinalityType
    <3> HIDE DEF Sum
    <3> QED BY <3>2, <3>3, <3>4
  <2> QED BY <2>2, <2>3
<1>2. M \in G
  <2> HIDE DEF G
  <2> QED BY <1>0, <1>1, FiniteSetInduction
<1>3. Sum(S) = Sum(M)
  <2>1. \A x \in S : f[x] \in Int
    OBVIOUS
  <2>2. \A x \in S \ M : f[x] = 0
    OBVIOUS
  <2> QED BY <2>1, <2>2, SumSupport
<1> QED BY <1>2, <1>3

\* Induction over the natural numbers, again with a set for the property.
LEMMA NumberInduction ==
  ASSUME NEW G, 0 \in G, \A k \in Nat : k \in G => k + 1 \in G
  PROVE  \A n \in Nat : n \in G
<1> TAKE n \in Nat
<1> DEFINE S == 0 .. n
           H == {T \in SUBSET S : \A k \in S : T = 0 .. k => k \in G}
<1>1. IsFiniteSet(S)
  BY FS_Interval
<1>2. ASSUME NEW T \in SUBSET S, \A U \in SUBSET T : U # T => U \in H
      PROVE  T \in H
  <2> SUFFICES ASSUME NEW k \in S, T = 0 .. k PROVE k \in G
    OBVIOUS
  <2>1. CASE k = 0
    BY <2>1
  <2>2. CASE k # 0
    <3>1. k - 1 \in Nat /\ k - 1 \in S /\ (k - 1) + 1 = k
      BY <2>2
    <3>2. 0 .. (k - 1) \in SUBSET T /\ k \in T /\ k \notin 0 .. (k - 1)
      BY <2>2
    <3>3. 0 .. (k - 1) \in H
      BY <1>2, <3>2
    <3> QED BY <3>1, <3>3
  <2> QED BY <2>1, <2>2
<1>3. S \in H
  <2> HIDE DEF H, S
  <2> QED BY <1>1, <1>2, FiniteSetInduction
<1> QED BY <1>3

\* Zeros add up to zero.
LEMMA SumOfZeros ==
  ASSUME NEW S, IsFiniteSet(S), NEW f, \A x \in S : f[x] = 0
  PROVE  SumFunctionOnSet(f, S) = 0
<1>1. \A x \in S : f[x] \in Int
  OBVIOUS
<1>2. {} \in SUBSET S /\ \A x \in S \ {} : f[x] = 0
  OBVIOUS
<1>3. SumFunctionOnSet(f, S) = SumFunctionOnSet(f, {})
  BY <1>1, <1>2, SumSupport
<1> QED BY <1>3, FS_EmptySet, SumEquation

\* Of bounded numbers some are the greatest and some the least.
LEMMA GreatestExists ==
  ASSUME NEW S, NEW f, NEW n \in Nat, NEW s \in S, \A x \in S : f[x] \in 0 .. n
  PROVE  \E x \in S : \A y \in S : f[y] <= f[x]
<1> DEFINE Found == \E x \in S : \A y \in S : f[y] <= f[x]
           G == {k \in Nat : (\E x \in S : f[x] >= n - k) => Found}
<1>0. \A x \in S : f[x] \in Nat /\ f[x] <= n
  OBVIOUS
<1>1. 0 \in G
  BY <1>0
<1>2. ASSUME NEW k \in Nat, k \in G PROVE k + 1 \in G
  <2> SUFFICES ASSUME NEW x \in S, f[x] >= n - (k + 1) PROVE Found
    OBVIOUS
  <2>1. CASE \E y \in S : f[y] >= n - k
    BY <1>2, <2>1
  <2>2. CASE \A y \in S : ~(f[y] >= n - k)
    <3>1. \A y \in S : f[y] <= f[x]
      BY <1>0, <2>2
    <3> QED BY <3>1
  <2> QED BY <2>1, <2>2
<1>3. n \in G
  <2> HIDE DEF G
  <2> QED BY <1>1, <1>2, NumberInduction
<1>4. f[s] >= n - n
  BY <1>0
<1> QED BY <1>3, <1>4

LEMMA LeastExists ==
  ASSUME NEW S, NEW f, NEW n \in Nat, NEW s \in S, \A x \in S : f[x] \in 0 .. n
  PROVE  \E x \in S : \A y \in S : f[x] <= f[y]
<1> DEFINE g == [x \in S |-> n - f[x]]
<1>1. \A x \in S : f[x] \in Nat /\ g[x] = n - f[x] /\ g[x] \in 0 .. n
  OBVIOUS
<1> HIDE DEF g
<1>2. PICK x \in S : \A y \in S : g[y] <= g[x]
  BY <1>1, GreatestExists
<1> QED BY <1>1, <1>2
=============================================================================
