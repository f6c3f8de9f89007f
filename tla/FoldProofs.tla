---------------------------- MODULE FoldProofs ----------------------------
(***************************************************************************)
(* Induction over finite sets, and what the folds of the community modules *)
(* compute.  The induction theorems of the library take the predicate as a *)
(* parameter, which the provers cannot instantiate; here a set stands for  *)
(* it: the subsets that have the property.                                 *)
(***************************************************************************)
EXTENDS Integers, Functions, FiniteSetsExt, FiniteSetTheorems, WellFoundedInduction, TLAPS

LEMMA FiniteInduction ==
    ASSUME NEW S, IsFiniteSet(S), NEW G,
           \A T \in SUBSET S : (\A x \in T : T \ {x} \in G) => T \in G
    PROVE  SUBSET S \subseteq G
  <1> DEFINE Bad == {T \in SUBSET S : T \notin G}
  <1>1. SUFFICES ASSUME Bad # {} PROVE FALSE
    OBVIOUS
  <1>2. IsWellFoundedOn(StrictSubsetOrdering(S), SUBSET S)
    BY FS_StrictSubsetOrderingWellFounded, FS_FiniteSubsetsOfFinite
  <1>3. Bad \subseteq SUBSET S
    OBVIOUS
  <1>4. \E x \in Bad : \A y \in Bad : ~ (<<y, x>> \in StrictSubsetOrdering(S))
    <2> HIDE DEF Bad
    <2> QED BY <1>1, <1>2, <1>3, WFMin
  <1>5. PICK T \in Bad : \A y \in Bad : ~ (<<y, T>> \in StrictSubsetOrdering(S))
    BY <1>4
  <1>6. ASSUME NEW x \in T PROVE T \ {x} \in G
    <2>1. <<T \ {x}, T>> \in StrictSubsetOrdering(S)
      BY DEF StrictSubsetOrdering
    <2> QED BY <1>5, <2>1
  <1> QED BY <1>6

-----------------------------------------------------------------------------
(* A recursion over the subsets of a finite set *)

\* h is base for the empty set, and for another set what step makes, with the
\* element pick takes out of it, of h of the rest.
Solves(h, S, V, base, step, pick) ==
    /\ h \in [SUBSET S -> V]
    /\ \A s \in SUBSET S :
          h[s] = IF s = {} THEN base ELSE step[pick[s]][h[s \ {pick[s]}]]

LEMMA SolutionsAgree ==
    ASSUME NEW S, NEW T, IsFiniteSet(S), NEW V, NEW base, NEW step, NEW pick,
           \A s \in SUBSET S : s # {} => pick[s] \in s,
           NEW g, NEW h, Solves(g, S, V, base, step, pick), Solves(h, T, V, base, step, pick),
           NEW U, U \subseteq S, U \subseteq T
    PROVE  g[U] = h[U]
  <1> DEFINE G == {t \in SUBSET U : g[t] = h[t]}
  <1>1. IsFiniteSet(U)
    BY FS_Subset
  <1>2. ASSUME NEW t \in SUBSET U, \A x \in t : t \ {x} \in G
        PROVE  t \in G
    <2>1. CASE t = {}
      BY <2>1 DEF Solves
    <2>2. CASE t # {}
      <3>1. pick[t] \in t /\ t \in SUBSET S /\ t \in SUBSET T
        BY <2>2
      <3>2. g[t \ {pick[t]}] = h[t \ {pick[t]}]
        BY <1>2, <3>1
      <3> QED BY <2>2, <3>1, <3>2 DEF Solves
    <2> QED BY <2>1, <2>2
  <1>3. SUBSET U \subseteq G
    <2>1. \A t \in SUBSET U : (\A x \in t : t \ {x} \in G) => t \in G
      BY <1>2
    <2> HIDE DEF G
    <2> QED BY <1>1, <2>1, FiniteInduction
  <1> QED BY <1>3

LEMMA SolutionExists ==
    ASSUME NEW S, IsFiniteSet(S), NEW V, NEW base \in V, NEW step \in [S -> [V -> V]], NEW pick,
           \A s \in SUBSET S : s # {} => pick[s] \in s
    PROVE  \E h : Solves(h, S, V, base, step, pick)
  <1>0. ASSUME NEW A, NEW B, NEW a, NEW b, NEW s, s \subseteq A, s \subseteq B, IsFiniteSet(A),
               \A t \in SUBSET A : t # {} => pick[t] \in t,
               Solves(a, A, V, base, step, pick), Solves(b, B, V, base, step, pick)
        PROVE  a[s] = b[s]
    BY <1>0, SolutionsAgree
  <1> DEFINE Good(h, T) == Solves(h, T, V, base, step, pick)
             G == {T \in SUBSET S : \E h : Good(h, T)}
  <1>1. ASSUME NEW T \in SUBSET S, \A x \in T : T \ {x} \in G
        PROVE  T \in G
    <2>1. CASE T = {}
      <3>1. Good([s \in SUBSET T |-> base], T)
        BY <2>1 DEF Solves
      <3> QED BY <3>1
    <2>2. CASE T # {}
      <3> DEFINE H == [x \in T |-> CHOOSE h : Good(h, T \ {x})]
                 out == [s \in SUBSET T |-> CHOOSE x \in T : x \notin s]
                 g == [s \in SUBSET T |-> IF s = T THEN step[pick[T]][H[pick[T]][T \ {pick[T]}]]
                                                   ELSE H[out[s]][s]]
      <3>1. ASSUME NEW x \in T PROVE Good(H[x], T \ {x})
        <4>1. \E h : Good(h, T \ {x})
          BY <1>1
        <4> HIDE DEF Good
        <4> QED BY <4>1
      <3>2. ASSUME NEW s \in SUBSET T, s # T
            PROVE  out[s] \in T /\ out[s] \notin s
        <4>1. \E x \in T : x \notin s
          BY <3>2
        <4>2. out[s] = CHOOSE x \in T : x \notin s
          OBVIOUS
        <4> QED BY <4>1, <4>2
      <3>3. ASSUME NEW x \in T, NEW y \in T, NEW s \in SUBSET T, x \notin s, y \notin s
            PROVE  H[x][s] = H[y][s]
        <4> DEFINE A == T \ {x}
                   B == T \ {y}
                   a == H[x]
                   b == H[y]
        <4>2. IsFiniteSet(A) /\ \A t \in SUBSET A : t # {} => pick[t] \in t
          BY FS_Subset
        <4>3. s \subseteq A /\ s \subseteq B
          BY <3>3
        <4>4. /\ Solves(a, A, V, base, step, pick)
              /\ Solves(b, B, V, base, step, pick)
          BY <3>1, <3>3
        <4> HIDE DEF A, B, a, b, H, g, out, G, Good
        <4>5. a[s] = b[s]
          BY <1>0, <4>2, <4>3, <4>4
        <4> QED BY <4>5 DEF a, b
      <3>4. pick[T] \in T
        BY <2>2
      <3> DEFINE p == pick[T]
      <3>5. g[T] = step[p][H[p][T \ {p}]]
        OBVIOUS
      <3>6. \A s \in SUBSET T : s # T => g[s] = H[out[s]][s]
        OBVIOUS
      <3>7. \A x \in T : \A s \in SUBSET T : x \notin s => g[s] = H[x][s]
        <4> HIDE DEF g, H, out
        <4> QED BY <3>2, <3>3, <3>6
      <3>8. ASSUME NEW s \in SUBSET T
            PROVE  /\ g[s] \in V
                   /\ g[s] = IF s = {} THEN base ELSE step[pick[s]][g[s \ {pick[s]}]]
        <4>1. CASE s = T
          <5>1. H[p] \in [SUBSET (T \ {p}) -> V] /\ H[p][T \ {p}] \in V
            <6>1. Good(H[p], T \ {p})
              BY <3>1, <3>4
            <6> HIDE DEF H
            <6> QED BY <6>1 DEF Solves
          <5>2. g[T \ {p}] = H[p][T \ {p}]
            <6> HIDE DEF g, H
            <6> QED BY <3>4, <3>7
          <5> HIDE DEF g, H
          <5> QED BY <2>2, <3>4, <3>5, <4>1, <5>1, <5>2
        <4>2. CASE s # T
          <5>1. PICK x \in T : x \notin s
            BY <4>2
          <5>2. g[s] = H[x][s]
            <6> HIDE DEF g, H
            <6> QED BY <3>7, <5>1
          <5>3. s # {} => pick[s] \in s /\ g[s \ {pick[s]}] = H[x][s \ {pick[s]}]
            <6> HIDE DEF g, H
            <6> QED BY <3>7, <5>1
          <5>4. /\ H[x][s] \in V
                /\ H[x][s] = IF s = {} THEN base ELSE step[pick[s]][H[x][s \ {pick[s]}]]
            <6>1. Good(H[x], T \ {x}) /\ s \in SUBSET (T \ {x})
              BY <3>1, <5>1
            <6> HIDE DEF H
            <6> QED BY <6>1 DEF Solves
          <5> HIDE DEF g, H
          <5> QED BY <5>2, <5>3, <5>4
        <4> QED BY <4>1, <4>2
      <3>9. g = [s \in SUBSET T |-> g[s]]
        OBVIOUS
      <3>10. Good(g, T)
        <4> HIDE DEF g
        <4> QED BY <3>8, <3>9 DEF Solves
      <3> QED BY <3>10
    <2> QED BY <2>1, <2>2
  <1>2. SUBSET S \subseteq G
    <2> HIDE DEF G
    <2> QED BY <1>1, FiniteInduction
  <1> QED BY <1>2

-----------------------------------------------------------------------------
(* Folds over the domain of a sequence, which go from its first to its last *)

LEMMA UpTo ==
    ASSUME NEW n \in Nat, NEW G, 0 \in G, \A i \in 1..n : i - 1 \in G => i \in G
    PROVE  0..n \subseteq G
  <1> DEFINE Bad == {i \in Nat : i \in 0..n /\ i \notin G}
  <1>1. SUFFICES ASSUME Bad # {} PROVE FALSE
    OBVIOUS
  <1>2. \E i \in Bad : \A j \in Bad : <<j, i>> \notin OpToRel(<, Nat)
    <2>1. Bad \subseteq Nat
      OBVIOUS
    <2> HIDE DEF Bad
    <2> QED BY <1>1, <2>1, NatLessThanWellFounded, WFMin
  <1>3. PICK i \in Bad : \A j \in Bad : <<j, i>> \notin OpToRel(<, Nat)
    BY <1>2
  <1>4. i \in 1..n /\ i - 1 \in Nat /\ i - 1 \in 0..n /\ i - 1 < i
    <2>1. i \in 0..n /\ i \notin G
      BY <1>3
    <2>2. i # 0
      BY <2>1
    <2> QED BY <2>1, <2>2
  <1>5. i - 1 \notin Bad
    <2>1. <<i - 1, i>> \in OpToRel(<, Nat)
      <3>1. <<i - 1, i>> \in Nat \X Nat
        BY <1>4
      <3> QED BY <1>4, <3>1, Zenon DEF OpToRel
    <2> QED BY <1>3, <2>1
  <1> QED BY <1>3, <1>4, <1>5

LEMMA LeastPicks ==
    ASSUME NEW T \in SUBSET Nat, T # {}
    PROVE  Min(T) \in T /\ \A y \in T : Min(T) <= y
  <1>1. \E x \in T : \A y \in T : x <= y
    <2>1. \E x \in T : \A y \in T : <<y, x>> \notin OpToRel(<, Nat)
      BY NatLessThanWellFounded, WFMin
    <2>2. PICK x \in T : \A y \in T : <<y, x>> \notin OpToRel(<, Nat)
      BY <2>1
    <2>3. ASSUME NEW y \in T PROVE x <= y
      <3>1. <<y, x>> \in Nat \X Nat
        OBVIOUS
      <3>2. y < x => <<y, x>> \in OpToRel(<, Nat)
        BY <3>1, Zenon DEF OpToRel
      <3>3. ~(y < x)
        BY <2>2, <3>2
      <3>4. x \in Nat /\ y \in Nat
        OBVIOUS
      <3> QED BY <3>3, <3>4
    <2> QED BY <2>3
  <1>2. Min(T) = CHOOSE x \in T : \A y \in T : x <= y
    BY DEF Min
  <1> QED BY <1>1, <1>2

Largest(n) == [s \in SUBSET (1..n) |-> CHOOSE x \in s : \A y \in s : x >= y]

LEMMA LargestPicks ==
    ASSUME NEW n \in Nat
    PROVE  /\ \A s \in SUBSET (1..n) : s # {} => Largest(n)[s] \in s
           /\ \A i \in 1..n : Largest(n)[1..i] = i
  <1> DEFINE Greatest(x, s) == x \in s /\ \A y \in s : x >= y
             G == {i \in 0..n : \A s \in SUBSET (1..i) : s # {} => \E x : Greatest(x, s)}
  <1>1. 0 \in G
    OBVIOUS
  <1>2. ASSUME NEW i \in 1..n, i - 1 \in G PROVE i \in G
    <2>1. ASSUME NEW s \in SUBSET (1..i), s # {} PROVE \E x : Greatest(x, s)
      <3>1. CASE i \in s
        BY <3>1
      <3>2. CASE i \notin s
        <4>1. s \in SUBSET (1..(i - 1))
          BY <3>2
        <4> QED BY <1>2, <2>1, <4>1
      <3> QED BY <3>1, <3>2
    <2> QED BY <2>1
  <1>3. n \in G
    <2>1. n \in 0..n
      OBVIOUS
    <2> HIDE DEF G
    <2> QED BY <1>1, <1>2, <2>1, UpTo
  <1>4. ASSUME NEW s \in SUBSET (1..n), s # {} PROVE Greatest(Largest(n)[s], s)
    BY <1>3, <1>4 DEF Largest
  <1>5. ASSUME NEW i \in 1..n PROVE Largest(n)[1..i] = i
    <2>1. 1..i \in SUBSET (1..n) /\ i \in 1..i
      OBVIOUS
    <2>2. Greatest(Largest(n)[1..i], 1..i)
      BY <1>4, <2>1
    <2> QED BY <2>1, <2>2
  <1> QED BY <1>4, <1>5

LEMMA InitialPart ==
    ASSUME NEW n \in Nat, NEW i \in 1..n
    PROVE  1..i \in SUBSET (1..n) /\ 1..i # {} /\ (1..i) \ {i} = 1..(i - 1)
  <1>1. 1..i \in SUBSET (1..n) /\ i \in 1..i
    OBVIOUS
  <1>2. (1..i) \ {i} = 1..(i - 1)
    OBVIOUS
  <1> QED BY <1>1, <1>2

-----------------------------------------------------------------------------
(* Sums *)

Picker(D) == [s \in SUBSET D |-> CHOOSE x \in s : TRUE]
Add(f) == [x \in DOMAIN f |-> [v \in Int |-> f[x] + v]]

LEMMA PickerPicks ==
    ASSUME NEW D
    PROVE  \A s \in SUBSET D : s # {} => Picker(D)[s] \in s
  <1>1. ASSUME NEW s \in SUBSET D, s # {} PROVE Picker(D)[s] \in s
    <2>1. \E x \in s : TRUE
      BY <1>1
    <2>2. Picker(D)[s] = CHOOSE x \in s : TRUE
      BY DEF Picker
    <2> QED BY <2>1, <2>2
  <1> QED BY <1>1

\* The sum of a function is what this recursion over its domain computes.
LEMMA SumSolves ==
    ASSUME NEW D, IsFiniteSet(D), NEW f \in [D -> Int]
    PROVE  \E h : /\ Solves(h, D, Int, 0, Add(f), Picker(D))
                  /\ SumFunction(f) = h[D]
  <1> DEFINE Is(h) == h = [s \in SUBSET D |-> IF s = {} THEN 0
                              ELSE LET x == CHOOSE x \in s : TRUE IN f[x] + h[s \ {x}]]
             g == CHOOSE h : Is(h)
  <1>1. SumFunction(f) = g[D]
    <2>1. DOMAIN f = D
      OBVIOUS
    <2> QED BY <2>1, Zenon DEF SumFunction, SumFunctionOnSet, FoldFunctionOnSet, MapThenFoldSet
  <1>2. Add(f) \in [D -> [Int -> Int]]
    BY DEF Add
  <1>3. PICK h : Solves(h, D, Int, 0, Add(f), Picker(D))
    <2>1. 0 \in Int /\ \A s \in SUBSET D : s # {} => Picker(D)[s] \in s
      BY PickerPicks
    <2> QED BY <1>2, <2>1, SolutionExists
  <1>4. ASSUME NEW s \in SUBSET D, s # {}, NEW k
        PROVE  Picker(D)[s] = (CHOOSE x \in s : TRUE) /\ Picker(D)[s] \in D
    BY <1>4, PickerPicks DEF Picker
  <1>5. h = [s \in SUBSET D |-> h[s]] /\ \A s \in SUBSET D : h[s] \in Int
    BY <1>3 DEF Solves
  <1>6. ASSUME NEW s \in SUBSET D
        PROVE  h[s] = IF s = {} THEN 0
                      ELSE LET x == CHOOSE x \in s : TRUE IN f[x] + h[s \ {x}]
    <2>1. CASE s = {}
      BY <1>3, <2>1 DEF Solves
    <2>2. CASE s # {}
      <3> DEFINE x == CHOOSE x \in s : TRUE
      <3>1. x = Picker(D)[s] /\ x \in D
        BY <1>4, <2>2
      <3>2. h[s] = Add(f)[x][h[s \ {x}]]
        BY <1>3, <2>2, <3>1 DEF Solves
      <3>3. h[s \ {x}] \in Int
        BY <1>5
      <3> HIDE DEF x
      <3>4. h[s] = f[x] + h[s \ {x}]
        BY <3>1, <3>2, <3>3 DEF Add
      <3> QED BY <2>2, <3>4 DEF x
    <2> QED BY <2>1, <2>2
  <1>7. Is(h)
    BY <1>5, <1>6, Zenon
  <1>8. Is(g)
    <2> HIDE DEF Is
    <2> QED BY <1>7, Zenon
  <1>9. \A s \in SUBSET D : g[s] = h[s]
    <2> DEFINE G == {s \in SUBSET D : g[s] = h[s]}
    <2>0. \A s \in SUBSET D : g[s] = IF s = {} THEN 0
                      ELSE LET x == CHOOSE x \in s : TRUE IN f[x] + g[s \ {x}]
      <3> HIDE DEF g
      <3> QED BY <1>8
    <2> HIDE DEF g
    <2>1. ASSUME NEW s \in SUBSET D, \A x \in s : s \ {x} \in G
          PROVE  s \in G
      <3>1. CASE s = {}
        BY <1>6, <2>0, <3>1
      <3>2. CASE s # {}
        <4> DEFINE x == CHOOSE x \in s : TRUE
        <4>1. x \in s
          <5>1. \E y \in s : TRUE
            BY <3>2
          <5> QED BY <5>1
        <4>2. g[s \ {x}] = h[s \ {x}]
          BY <2>1, <4>1
        <4>3. g[s] = f[x] + g[s \ {x}]
          BY <2>0, <3>2
        <4>4. h[s] = f[x] + h[s \ {x}]
          BY <1>6, <3>2
        <4> QED BY <4>2, <4>3, <4>4
      <3> QED BY <3>1, <3>2
    <2>2. SUBSET D \subseteq G
      <3> HIDE DEF G
      <3> QED BY <2>1, FiniteInduction
    <2> QED BY <2>2
  <1>10. g[D] = h[D]
    BY <1>9
  <1> QED BY <1>1, <1>3, <1>10

\* h[s] is the sum of f over the subset s of D.
Sums(h, f, D) ==
    /\ h \in [SUBSET D -> Int] /\ h[{}] = 0
    /\ \A s \in SUBSET D : s # {} =>
          /\ Picker(D)[s] \in s
          /\ h[s] = f[Picker(D)[s]] + h[s \ {Picker(D)[s]}]

LEMMA SumOverSubsets ==
    ASSUME NEW D, IsFiniteSet(D), NEW f \in [D -> Int]
    PROVE  \E h : Sums(h, f, D) /\ SumFunction(f) = h[D]
  <1>1. PICK h : /\ Solves(h, D, Int, 0, Add(f), Picker(D))
                 /\ SumFunction(f) = h[D]
    BY SumSolves
  <1>2. h \in [SUBSET D -> Int] /\ h[{}] = 0
    BY <1>1 DEF Solves
  <1>3. ASSUME NEW s \in SUBSET D, s # {}
        PROVE  /\ Picker(D)[s] \in s
               /\ h[s] = f[Picker(D)[s]] + h[s \ {Picker(D)[s]}]
    <2>1. Picker(D)[s] \in s
      BY <1>3, PickerPicks
    <2>2. h[s] = Add(f)[Picker(D)[s]][h[s \ {Picker(D)[s]}]]
      BY <1>1, <1>3 DEF Solves
    <2>3. h[s \ {Picker(D)[s]}] \in Int /\ Picker(D)[s] \in D
      BY <1>2, <2>1
    <2> QED BY <2>1, <2>2, <2>3 DEF Add
  <1> QED BY <1>1, <1>2, <1>3 DEF Sums

LEMMA SumType ==
    ASSUME NEW D, IsFiniteSet(D), NEW f \in [D -> Int]
    PROVE  SumFunction(f) \in Int
  <1>1. PICK h : Sums(h, f, D) /\ SumFunction(f) = h[D]
    BY SumOverSubsets
  <1> QED BY <1>1 DEF Sums

\* A sum grows by what one of its terms grows by.
LEMMA SumChange ==
    ASSUME NEW D, IsFiniteSet(D), NEW f \in [D -> Int], NEW y \in D, NEW n \in Int,
           NEW g \in [D -> Int], g[y] = f[y] + n, \A x \in D : x # y => g[x] = f[x]
    PROVE  SumFunction(g) = SumFunction(f) + n
  <1>1. PICK h : Sums(h, f, D) /\ SumFunction(f) = h[D]
    BY SumOverSubsets
  <1>2. PICK k : Sums(k, g, D) /\ SumFunction(g) = k[D]
    BY SumOverSubsets
  <1> DEFINE G == {s \in SUBSET D : /\ y \in s => k[s] = h[s] + n
                                    /\ y \notin s => k[s] = h[s]}
  <1>3. ASSUME NEW s \in SUBSET D, \A x \in s : s \ {x} \in G
        PROVE  s \in G
    <2>1. CASE s = {}
      BY <1>1, <1>2, <2>1 DEF Sums
    <2>2. CASE s # {}
      <3> DEFINE x == Picker(D)[s]
                 r == s \ {x}
      <3>1. x \in s /\ h[s] = f[x] + h[r] /\ k[s] = g[x] + k[r]
        BY <1>1, <1>2, <2>2 DEF Sums
      <3>2. r \in G /\ r \in SUBSET D /\ h[r] \in Int /\ k[r] \in Int
        BY <1>1, <1>2, <1>3, <3>1 DEF Sums
      <3>3. f[x] \in Int /\ g[x] \in Int /\ (y \in r <=> y \in s /\ x # y)
        BY <3>1
      <3> HIDE DEF x, r
      <3>4. CASE x = y
        BY <3>1, <3>2, <3>3, <3>4
      <3>5. CASE x # y
        BY <3>1, <3>2, <3>3, <3>5
      <3> QED BY <3>4, <3>5
    <2> QED BY <2>1, <2>2
  <1>4. SUBSET D \subseteq G
    <2> HIDE DEF G
    <2> QED BY <1>3, FiniteInduction
  <1> QED BY <1>1, <1>2, <1>4

\* A sum of naturals is one, and no less than any of its terms.
LEMMA SumOfNaturals ==
    ASSUME NEW D, IsFiniteSet(D), NEW f \in [D -> Nat]
    PROVE  /\ SumFunction(f) \in Nat
           /\ \A x \in D : f[x] <= SumFunction(f)
           /\ (\A x \in D : f[x] = 0) => SumFunction(f) = 0
  <1>1. PICK h : Sums(h, f, D) /\ SumFunction(f) = h[D]
    <2>1. f \in [D -> Int]
      OBVIOUS
    <2> QED BY <2>1, SumOverSubsets
  <1> DEFINE G == {s \in SUBSET D : /\ h[s] \in Nat
                                    /\ \A x \in s : f[x] <= h[s]
                                    /\ (\A x \in s : f[x] = 0) => h[s] = 0}
  <1>2. ASSUME NEW s \in SUBSET D, \A x \in s : s \ {x} \in G
        PROVE  s \in G
    <2>1. CASE s = {}
      BY <1>1, <2>1 DEF Sums
    <2>2. CASE s # {}
      <3> DEFINE x == Picker(D)[s]
                 r == s \ {x}
      <3>1. x \in s /\ h[s] = f[x] + h[r]
        BY <1>1, <2>2 DEF Sums
      <3>2. r \in G /\ f[x] \in Nat /\ \A z \in s : z = x \/ z \in r
        BY <1>2, <3>1
      <3>3. \A z \in s : f[z] \in Nat
        OBVIOUS
      <3> HIDE DEF x
      <3> QED BY <3>1, <3>2, <3>3
    <2> QED BY <2>1, <2>2
  <1>3. SUBSET D \subseteq G
    <2> HIDE DEF G
    <2> QED BY <1>2, FiniteInduction
  <1> QED BY <1>1, <1>3
=============================================================================
