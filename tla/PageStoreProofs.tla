-------------------------- MODULE PageStoreProofs --------------------------
(***************************************************************************)
(* The lemmas the other proofs share.  First what recursion and folds      *)
(* compute, without induction as a rule of the prover: the least number,   *)
(* or a set of the least size, for which a property fails.  A fold has an  *)
(* operator as its parameter; the lemmas have a function in its place.     *)
(*                                                                         *)
(* Then what pager_alloc, pager_free and a write to a page do to a page    *)
(* store and to its free list, whatever is in the pages.                   *)
(***************************************************************************)
EXTENDS PageStore, SequencesExt, FiniteSetsExt, TLAPS, WellFoundedInduction, FiniteSetTheorems, SequenceTheorems

----------------------------------------------------------------------------
(* Numbers. *)

LEMMA LeastNat ==
  ASSUME NEW T, T \subseteq Nat, T # {}
  PROVE  \E x \in T : \A y \in T : x <= y
<1>1. IsWellFoundedOn(OpToRel(<, Nat), Nat)
  BY NatLessThanWellFounded
<1>2. PICK x \in T : \A y \in T : ~(<<y, x>> \in OpToRel(<, Nat))
  BY <1>1, WFMin
<1>3. ASSUME NEW y \in T, y < x PROVE FALSE
  <2>1. <<y, x>> \in OpToRel(<, Nat)
    BY <1>3 DEF OpToRel
  <2>2. QED
    BY <1>2, <2>1
<1>4. \A y \in T : x <= y
  BY <1>3
<1>5. QED
  BY <1>4

\* Induction over 0 .. N: T is the set of the numbers that have the property.
LEMMA Upwards ==
  ASSUME NEW N \in Nat, NEW T, 0 \in T, \A i \in 1 .. N : i - 1 \in T => i \in T
  PROVE  \A i \in 0 .. N : i \in T
<1> DEFINE wrong == {i \in 0 .. N : i \notin T}
<1>1. SUFFICES ASSUME wrong # {} PROVE FALSE
  OBVIOUS
<1>2. wrong \subseteq Nat
  OBVIOUS
<1>3. PICK i \in wrong : \A j \in wrong : i <= j
  <2> HIDE DEF wrong
  <2>1. QED
    BY <1>1, <1>2, LeastNat
<1>4. i \in 0 .. N /\ i \notin T /\ i # 0
  BY <1>3
<1>5. i \in 1 .. N /\ i - 1 \in 0 .. N /\ ~(i <= i - 1)
  BY <1>4
<1>6. i - 1 \in T
  <2>1. i - 1 \notin wrong
    <3> HIDE DEF wrong
    <3>1. QED
      BY <1>3, <1>5
  <2>2. QED
    BY <2>1, <1>5
<1>7. QED
  BY <1>4, <1>5, <1>6

\* A function defined on 0 .. N by recursion exists.
Recursive(V, b, N, step) ==
    \E f \in [0 .. N -> V] : f[0] = b /\ \A i \in 1 .. N : f[i] = step[i][f[i - 1]]

LEMMA Iterates ==
  ASSUME NEW V, NEW b \in V, NEW N \in Nat, NEW step \in [1 .. N -> [V -> V]]
  PROVE  Recursive(V, b, N, step)
<1> DEFINE Upto(n, f) == /\ f \in [0 .. n -> V] /\ f[0] = b
                         /\ \A i \in 1 .. n : f[i] = step[i][f[i - 1]]
           none == {n \in 0 .. N : ~\E f : Upto(n, f)}
<1>1. SUFFICES ASSUME none # {} PROVE FALSE
  <2>1. N \in 0 .. N
    OBVIOUS
  <2>2. none = {} => \E f : Upto(N, f)
    BY <2>1
  <2>3. QED
    BY <2>2 DEF Recursive
<1>2. none \subseteq Nat
  OBVIOUS
<1>3. PICK n \in none : \A m \in none : n <= m
  <2> HIDE DEF none
  <2>1. QED
    BY <1>1, <1>2, LeastNat
<1>4. n \in 0 .. N /\ ~\E f : Upto(n, f)
  BY <1>3
<1>5. CASE n = 0
  <2> DEFINE f == [i \in 0 .. 0 |-> b]
  <2>1. Upto(0, f)
    OBVIOUS
  <2>2. QED
    BY <2>1, <1>4, <1>5
<1>6. CASE n # 0
  <2>1. n - 1 \in 0 .. N /\ n - 1 < n /\ n \in 1 .. N
    BY <1>4, <1>6
  <2>2. n - 1 \notin none
    <3>1. \A m \in none : n <= m
      BY <1>3
    <3> HIDE DEF none
    <3>2. QED
      BY <3>1, <2>1
  <2>3. PICK f : Upto(n - 1, f)
    BY <2>1, <2>2
  <2> DEFINE g == [i \in 0 .. n |-> IF i = n THEN step[n][f[n - 1]] ELSE f[i]]
  <2>4. f[n - 1] \in V /\ step[n] \in [V -> V]
    BY <2>1, <2>3
  <2>5. g \in [0 .. n -> V] /\ g[0] = b
    BY <2>1, <2>3, <2>4
  <2>6. ASSUME NEW i \in 1 .. n PROVE g[i] = step[i][g[i - 1]]
    <3>1. CASE i = n
      <4>1. g[n] = step[n][f[n - 1]] /\ g[n - 1] = f[n - 1]
        BY <2>1
      <4>2. QED
        BY <3>1, <4>1
    <3>2. CASE i # n
      <4>1. i \in 1 .. n - 1 /\ g[i] = f[i] /\ g[i - 1] = f[i - 1]
        BY <3>2, <2>1
      <4>2. f[i] = step[i][f[i - 1]]
        BY <4>1, <2>3
      <4>3. QED
        BY <4>1, <4>2
    <3>3. QED
      BY <3>1, <3>2
  <2> HIDE DEF g
  <2>7. Upto(n, g)
    BY <2>5, <2>6
  <2>8. QED
    BY <2>7, <1>4
<1>7. QED
  BY <1>5, <1>6

LEMMA Repeats ==
  ASSUME NEW V, NEW b \in V, NEW N \in Nat, NEW walk \in [V -> V]
  PROVE  \E f \in [0 .. N -> V] : f[0] = b /\ \A i \in 1 .. N : f[i] = walk[f[i - 1]]
<1> DEFINE step == [i \in 1 .. N |-> walk]
<1>1. step \in [1 .. N -> [V -> V]] /\ \A i \in 1 .. N : step[i] = walk
  OBVIOUS
<1> HIDE DEF step
<1>2. PICK f \in [0 .. N -> V] : f[0] = b /\ \A i \in 1 .. N : f[i] = step[i][f[i - 1]]
  BY <1>1, Iterates DEF Recursive
<1>3. QED
  BY <1>1, <1>2

----------------------------------------------------------------------------
(* Finite sets. *)

\* Induction over the subsets of D by their size: T is the set of those that
\* have the property.
LEMMA BySize ==
  ASSUME NEW D, IsFiniteSet(D), NEW T, {} \in T,
         \A s \in SUBSET D : s # {} => ((\A x \in s : s \ {x} \in T) => s \in T)
  PROVE  \A s \in SUBSET D : s \in T
<1> DEFINE sizes == {n \in Nat : \A s \in SUBSET D : Cardinality(s) = n => s \in T}
<1>1. Cardinality(D) \in Nat
  BY FS_CardinalityType
<1>2. 0 \in sizes
  <2>1. \A s \in SUBSET D : Cardinality(s) = 0 => s = {}
    BY FS_Subset, FS_EmptySet
  <2>2. QED
    BY <2>1
<1>3. \A n \in 1 .. Cardinality(D) : n - 1 \in sizes => n \in sizes
  <2>1. SUFFICES ASSUME NEW n \in 1 .. Cardinality(D), n - 1 \in sizes,
                        NEW s \in SUBSET D, Cardinality(s) = n
                 PROVE  s \in T
    BY <1>1
  <2>2. IsFiniteSet(s) /\ s # {}
    BY <2>1, <1>1, FS_Subset, FS_EmptySet
  <2>3. ASSUME NEW x \in s PROVE s \ {x} \in T
    <3>1. Cardinality(s \ {x}) = n - 1
      BY <2>1, <2>2, FS_RemoveElement
    <3>2. QED
      BY <2>1, <3>1
  <2>4. QED
    BY <2>2, <2>3
<1>4. \A n \in 0 .. Cardinality(D) : n \in sizes
  <2> HIDE DEF sizes
  <2>1. QED
    BY <1>1, <1>2, <1>3, Upwards
<1>5. SUFFICES ASSUME NEW s \in SUBSET D PROVE s \in T
  OBVIOUS
<1>6. Cardinality(s) \in 0 .. Cardinality(D)
  BY <1>1, FS_Subset, FS_CardinalityType
<1>7. Cardinality(s) \in sizes
  BY <1>4, <1>6
<1>8. QED
  BY <1>7

\* A function of the subsets of D that takes one element away at a time exists.
SetStep(f, D, b, pick, step) ==
    [s \in SUBSET D |-> IF s = {} THEN b ELSE step[pick[s]][f[s \ {pick[s]}]]]

SetRecursive(D, V, b, pick, step) ==
    \E f : f \in [SUBSET D -> V] /\ f = SetStep(f, D, b, pick, step)

LEMMA OverSubsets ==
  ASSUME NEW D, IsFiniteSet(D), NEW V, NEW b \in V,
         NEW pick, \A s \in SUBSET D : s # {} => pick[s] \in s,
         NEW step, \A x \in D : \A v \in V : step[x][v] \in V
  PROVE  SetRecursive(D, V, b, pick, step)
<1> DEFINE Agrees(f, s) == f[s] = IF s = {} THEN b ELSE step[pick[s]][f[s \ {pick[s]}]]
           Upto(n, f) == /\ f \in [SUBSET D -> V]
                         /\ \A s \in SUBSET D : Cardinality(s) <= n => Agrees(f, s)
           good == {n \in Nat : \E f : Upto(n, f)}
<1>1. Cardinality(D) \in Nat /\ \A s \in SUBSET D : IsFiniteSet(s) /\ Cardinality(s) \in 0 .. Cardinality(D)
  BY FS_CardinalityType, FS_Subset
<1>2. 0 \in good
  <2>1. \A s \in SUBSET D : Cardinality(s) <= 0 => s = {}
    BY <1>1, FS_EmptySet
  <2>2. Upto(0, [s \in SUBSET D |-> b])
    BY <2>1
  <2>3. QED
    BY <2>2
<1>3. ASSUME NEW n \in 1 .. Cardinality(D), NEW f, Upto(n - 1, f)
      PROVE  \E g : Upto(n, g)
  <2>1. n \in Nat /\ n - 1 \in Nat
    BY <1>1
  <2> DEFINE g == [s \in SUBSET D |-> IF s = {} THEN b ELSE step[pick[s]][f[s \ {pick[s]}]]]
  <2>2. g \in [SUBSET D -> V]
    <3>1. ASSUME NEW s \in SUBSET D, s # {} PROVE step[pick[s]][f[s \ {pick[s]}]] \in V
      <4>1. pick[s] \in D /\ s \ {pick[s]} \in SUBSET D
        BY <3>1
      <4>2. f[s \ {pick[s]}] \in V
        BY <4>1, <1>3
      <4>3. QED
        BY <4>1, <4>2
    <3>2. QED
      BY <3>1
  <2>3. ASSUME NEW s \in SUBSET D, Cardinality(s) <= n PROVE Agrees(g, s)
    <3>1. CASE s = {}
      BY <3>1
    <3>2. CASE s # {}
      <4> DEFINE t == s \ {pick[s]}
      <4>1. pick[s] \in s /\ t \in SUBSET D
        BY <3>2
      <4>2. Cardinality(t) = Cardinality(s) - 1
        BY <4>1, <1>1, FS_RemoveElement
      <4>3. Cardinality(t) <= n - 1
        BY <4>2, <2>1, <2>3, <1>1
      <4>4. f[t] = IF t = {} THEN b ELSE step[pick[t]][f[t \ {pick[t]}]]
        BY <4>1, <4>3, <1>3
      <4>5. g[t] = f[t]
        BY <4>1, <4>4
      <4>6. g[s] = step[pick[s]][f[t]]
        BY <3>2
      <4>7. QED
        BY <4>5, <4>6, <3>2
    <3>3. QED
      BY <3>1, <3>2
  <2> HIDE DEF g
  <2>4. Upto(n, g)
    BY <2>2, <2>3
  <2>5. QED
    BY <2>4
<1>4. Cardinality(D) \in good
  <2>1. Cardinality(D) \in 0 .. Cardinality(D)
    BY <1>1
  <2>2. ASSUME NEW n \in 1 .. Cardinality(D), n - 1 \in good PROVE n \in good
    <3>1. n \in Nat
      BY <1>1
    <3> HIDE DEF Upto
    <3>2. \E f : Upto(n - 1, f)
      BY <2>2
    <3>3. \E g : Upto(n, g)
      BY <3>2, <1>3
    <3>4. QED
      BY <3>1, <3>3
  <2> HIDE DEF good
  <2>3. QED
    BY <2>1, <2>2, <1>1, <1>2, Upwards
<1>5. PICK f : Upto(Cardinality(D), f)
  BY <1>4
<1>6. ASSUME NEW s \in SUBSET D PROVE Agrees(f, s)
  <2>1. Cardinality(s) <= Cardinality(D)
    BY <1>1
  <2>2. QED
    BY <1>5, <2>1
<1>7. f = SetStep(f, D, b, pick, step)
  BY <1>5, <1>6 DEF SetStep
<1>8. QED
  BY <1>5, <1>7 DEF SetRecursive

----------------------------------------------------------------------------
(* Folds over sequences: FoldLeft takes the largest position away first.   *)

LEMMA MaxUpto ==
  ASSUME NEW m \in Nat \ {0}
  PROVE  Max(1 .. m) = m /\ (1 .. m) \ {m} = 1 .. m - 1
<1>1. m \in 1 .. m /\ \A y \in 1 .. m : m >= y
  OBVIOUS
<1>2. \A x \in 1 .. m : (\A y \in 1 .. m : x >= y) => x = m
  OBVIOUS
<1>3. Max(1 .. m) \in 1 .. m /\ \A y \in 1 .. m : Max(1 .. m) >= y
  BY <1>1 DEF Max
<1>4. QED
  BY <1>2, <1>3

LEMMA MaxIn ==
  ASSUME NEW n \in Nat, NEW s \in SUBSET (1 .. n), s # {}
  PROVE  Max(s) \in s
<1> DEFINE under == {n - x : x \in s}
<1>1. under # {} /\ under \subseteq Nat
  <2>1. \A x \in s : x \in 1 .. n /\ n - x \in Nat
    OBVIOUS
  <2>2. QED
    BY <2>1
<1>2. PICK z \in under : \A y \in under : z <= y
  <2> HIDE DEF under
  <2>1. QED
    BY <1>1, LeastNat
<1>3. PICK x \in s : z = n - x
  OBVIOUS
<1>4. \A y \in s : n - x <= n - y
  BY <1>2, <1>3
<1>5. \A y \in s : x >= y
  BY <1>4
<1>6. QED
  BY <1>5 DEF Max

SeqRecursive(n, V, b, step) ==
    \E f : /\ f \in [SUBSET (1 .. n) -> V]
           /\ f = [s \in SUBSET (1 .. n) |-> IF s = {} THEN b ELSE step[Max(s)][f[s \ {Max(s)}]]]

LEMMA OverSequence ==
  ASSUME NEW n \in Nat, NEW V, NEW b \in V,
         NEW step, \A i \in 1 .. n : \A v \in V : step[i][v] \in V
  PROVE  SeqRecursive(n, V, b, step)
<1> DEFINE pick == [s \in SUBSET (1 .. n) |-> Max(s)]
<1>1. IsFiniteSet(1 .. n)
  BY FS_Interval
<1>2. \A s \in SUBSET (1 .. n) : pick[s] = Max(s)
  OBVIOUS
<1>3. \A s \in SUBSET (1 .. n) : s # {} => pick[s] \in s
  BY <1>2, MaxIn
<1> HIDE DEF pick
<1>4. PICK f : f \in [SUBSET (1 .. n) -> V] /\ f = SetStep(f, 1 .. n, b, pick, step)
  <2> DEFINE D == 1 .. n
  <2>1. IsFiniteSet(D) /\ (\A s \in SUBSET D : s # {} => pick[s] \in s)
        /\ \A x \in D : \A v \in V : step[x][v] \in V
    BY <1>1, <1>3
  <2> HIDE DEF D
  <2>2. SetRecursive(D, V, b, pick, step)
    BY <2>1, OverSubsets
  <2>3. QED
    BY <2>2 DEF D, SetRecursive
<1>5. f = [s \in SUBSET (1 .. n) |-> IF s = {} THEN b ELSE step[Max(s)][f[s \ {Max(s)}]]]
  BY <1>2, <1>4 DEF SetStep
<1>6. QED
  BY <1>4, <1>5 DEF SeqRecursive

----------------------------------------------------------------------------
(* Counting and adding. *)

\* A set whose elements have places of their own in another is not larger, and
\* if it is as large they take every place.
LEMMA Places ==
  ASSUME NEW A, NEW B, IsFiniteSet(B), NEW f, \A x \in A : f[x] \in B,
         \A x, y \in A : f[x] = f[y] => x = y
  PROVE  /\ IsFiniteSet(A) /\ Cardinality(A) \in Nat /\ Cardinality(B) \in Nat
         /\ Cardinality(A) <= Cardinality(B)
         /\ Cardinality(A) = Cardinality(B) <=> \A z \in B : \E x \in A : f[x] = z
<1> DEFINE g == [x \in A |-> f[x]]
<1>1. g \in Injection(A, B)
  BY DEF Injection, IsInjective
<1>2. IsFiniteSet(A) /\ Cardinality(A) <= Cardinality(B)
      /\ (Cardinality(A) = Cardinality(B) <=> g \in Surjection(A, B))
  BY <1>1, FS_Injection
<1>3. g \in Surjection(A, B) <=> \A z \in B : \E x \in A : f[x] = z
  BY DEF Surjection
<1>4. QED
  BY <1>2, <1>3, FS_CardinalityType

\* e lists the elements of S, each once.
Enumerates(e, n, S) ==
    /\ n \in Nat /\ \A a \in 1 .. n : e[a] \in S
    /\ \A a, b \in 1 .. n : e[a] = e[b] => a = b
    /\ \A x \in S : \E a \in 1 .. n : e[a] = x

LEMMA ListedSize ==
  ASSUME NEW e, NEW n, NEW S, Enumerates(e, n, S)
  PROVE  IsFiniteSet(S) /\ Cardinality(S) = n
<1> DEFINE g == [a \in 1 .. n |-> e[a]]
<1>1. g \in Bijection(1 .. n, S)
  <2>1. g \in [1 .. n -> S] /\ \A a \in 1 .. n : g[a] = e[a]
    BY DEF Enumerates
  <2> HIDE DEF g
  <2>2. g \in Injection(1 .. n, S)
    BY <2>1 DEF Enumerates, Injection, IsInjective
  <2>3. g \in Surjection(1 .. n, S)
    BY <2>1 DEF Enumerates, Surjection
  <2>4. QED
    BY <2>2, <2>3 DEF Bijection
<1>2. ExistsBijection(1 .. n, S) /\ IsFiniteSet(1 .. n) /\ Cardinality(1 .. n) = n
  BY <1>1, FS_Interval DEF ExistsBijection, Enumerates
<1>3. QED
  BY <1>2, FS_Bijection

\* g adds up the weights of the elements of a set, in any order.
Sums(g, D, w) == \A s \in SUBSET D : /\ g[s] \in Int
                                      /\ \A y \in s : g[s] = w[y] + g[s \ {y}]

LEMMA AddsUp ==
  ASSUME NEW D, IsFiniteSet(D), NEW w, \A x \in D : w[x] \in Int, NEW g, g[{}] = 0,
         \A s \in SUBSET D : s # {} => \E x \in s : g[s] = w[x] + g[s \ {x}]
  PROVE  Sums(g, D, w)
<1> DEFINE ints == {s \in SUBSET D : g[s] \in Int}
           T == {s \in SUBSET D : \A y \in s : g[s] = w[y] + g[s \ {y}]}
<1>1. \A s \in SUBSET D : s \in ints
  <2>1. {} \in ints
    OBVIOUS
  <2>2. ASSUME NEW s \in SUBSET D, s # {}, \A x \in s : s \ {x} \in ints PROVE s \in ints
    <3>1. PICK x \in s : g[s] = w[x] + g[s \ {x}]
      BY <2>2
    <3>2. w[x] \in Int /\ g[s \ {x}] \in Int
      BY <2>2
    <3>3. QED
      BY <3>1, <3>2
  <2> HIDE DEF ints
  <2>3. QED
    BY <2>1, <2>2, BySize
<1>2. {} \in T
  OBVIOUS
<1>3. ASSUME NEW s \in SUBSET D, s # {}, \A x \in s : s \ {x} \in T PROVE s \in T
  <2>1. PICK x \in s : g[s] = w[x] + g[s \ {x}]
    BY <1>3
  <2>2. ASSUME NEW y \in s, y # x PROVE g[s] = w[y] + g[s \ {y}]
    <3> DEFINE r == s \ {x, y}
    <3>1. (s \ {x}) \ {y} = r /\ (s \ {y}) \ {x} = r
      OBVIOUS
    <3>2. s \ {x} \in T /\ s \ {y} \in T /\ y \in s \ {x} /\ x \in s \ {y}
      BY <1>3, <2>2
    <3>3. g[s \ {x}] = w[y] + g[r] /\ g[s \ {y}] = w[x] + g[r]
      BY <3>1, <3>2
    <3>4. w[x] \in Int /\ w[y] \in Int /\ g[r] \in Int
      BY <1>1
    <3>5. QED
      BY <2>1, <3>3, <3>4
  <2>3. QED
    BY <2>1, <2>2
<1> HIDE DEF T
<1>4. \A s \in SUBSET D : s \in T
  BY <1>2, <1>3, BySize
<1>5. \A s \in SUBSET D : g[s] \in Int
  BY <1>1
<1>6. QED
  BY <1>4, <1>5 DEF Sums, T

\* So does a running sum over a list of them.
LEMMA RunningSum ==
  ASSUME NEW D, NEW w, NEW g, g[{}] = 0, Sums(g, D, w),
         NEW e, NEW n, Enumerates(e, n, D),
         \A x \in D : w[x] \in Int,
         NEW t, t[0] = 0, \A m \in 1 .. n : t[m] = t[m - 1] + w[e[m]]
  PROVE  t[n] = g[D] /\ \A m \in 0 .. n : t[m] \in Int
<1> DEFINE some(m) == {e[a] : a \in 1 .. m}
           T == {m \in 0 .. n : t[m] = g[some(m)]}
<1>1. n \in Nat /\ \A m \in 0 .. n : some(m) \in SUBSET D
  BY DEF Enumerates
<1>2. 0 \in T
  <2>1. some(0) = {}
    OBVIOUS
  <2>2. 0 \in 0 .. n
    BY <1>1
  <2> HIDE DEF some
  <2>3. t[0] = g[some(0)]
    BY <2>1
  <2>4. QED
    BY <2>2, <2>3
<1>3. ASSUME NEW m \in 1 .. n, m - 1 \in T PROVE m \in T
  <2>1. m \in 0 .. n /\ m - 1 \in 0 .. n /\ m \in 1 .. m
    BY <1>1
  <2>2. e[m] \in some(m) /\ some(m) \ {e[m]} = some(m - 1)
    <3>1. \A a \in 1 .. m - 1 : e[a] # e[m] /\ a \in 1 .. m
      BY <1>1 DEF Enumerates
    <3>2. \A a \in 1 .. m : a \in 1 .. m - 1 \/ a = m
      BY <1>1
    <3>3. QED
      BY <2>1, <3>1, <3>2
  <2>3. g[some(m)] = w[e[m]] + g[some(m - 1)] /\ g[some(m)] \in Int /\ g[some(m - 1)] \in Int
    <3>1. some(m) \in SUBSET D /\ some(m - 1) \in SUBSET D
      BY <1>1, <2>1
    <3> HIDE DEF some
    <3>2. QED
      BY <3>1, <2>2 DEF Sums
  <2>4. t[m - 1] = g[some(m - 1)] /\ t[m] = t[m - 1] + w[e[m]]
    BY <1>3
  <2>5. w[e[m]] \in Int
    BY DEF Enumerates
  <2>6. t[m] = g[some(m)]
    BY <2>3, <2>4, <2>5
  <2>7. QED
    BY <2>1, <2>6
<1>4. \A m \in 0 .. n : m \in T
  <2> HIDE DEF T
  <2>1. QED
    BY <1>1, <1>2, <1>3, Upwards
<1>5. some(n) = D /\ n \in 0 .. n
  BY <1>1 DEF Enumerates
<1>6. \A m \in 0 .. n : t[m] \in Int
  <2> HIDE DEF some
  <2>1. QED
    BY <1>1, <1>4 DEF Sums
<1>7. QED
  BY <1>4, <1>5, <1>6

----------------------------------------------------------------------------
(* Page stores and their free lists. *)

\* P has the zeroed page, and with a page the one with a link written into it.
IsPageSet(P) ==
    /\ ZeroPage \in P
    /\ \A page \in P : /\ page.word \in Int
                       /\ \A w \in Nat : /\ [page EXCEPT !.word = w] \in P
                                         /\ [page EXCEPT !.word = w].word = w

StoresOf(P) == [head : 0 .. MaxPages - 1, pages : Seq(P)]

\* F is the set of the pages on the free list.
FreePages(st, F) ==
    \E s \in Seq(PageNos(st)) : IsFreeList(st, s) /\ F = {s[a] : a \in DOMAIN s}

\* A store of pages of P within the limit, with the pages F on its free list.
Listed(P, st, F) == st \in StoresOf(P) /\ Len(st.pages) < MaxPages /\ FreePages(st, F)

----------------------------------------------------------------------------
(* Free lists. *)

LEMMA StoreTypes ==
  ASSUME NEW P, NEW st \in StoresOf(P)
  PROVE  /\ st.pages \in Seq(P) /\ Len(st.pages) \in Nat
         /\ DOMAIN st.pages = 1 .. Len(st.pages) /\ PageNos(st) = 1 .. Len(st.pages)
         /\ st.head \in 0 .. MaxPages - 1 /\ st.head \in Nat
         /\ \A pn \in PageNos(st) : st.pages[pn] \in P
         /\ st = [head |-> st.head, pages |-> st.pages]
  BY LenProperties, ElementOfSeq DEF StoresOf, PageNos

\* Every page of a free list holds a link, and the head is one of them or 0.
LEMMA ListLinks ==
  ASSUME NEW P, NEW st \in StoresOf(P), NEW s \in Seq(PageNos(st)), IsFreeList(st, s)
  PROVE  /\ Len(s) \in Nat /\ DOMAIN s = 1 .. Len(s)
         /\ \A a \in 1 .. Len(s) : s[a] \in PageNos(st) /\ st.pages[s[a]].word \in 0 .. Len(st.pages)
         /\ st.head \in 0 .. Len(st.pages)
         /\ st.head # 0 => Len(s) >= 1 /\ st.head = s[Len(s)]
         /\ st.head = 0 => s = <<>>
<1>1. /\ Len(s) \in Nat /\ DOMAIN s = 1 .. Len(s)
      /\ \A a \in 1 .. Len(s) : s[a] \in 1 .. Len(st.pages)
      /\ Len(st.pages) \in Nat
  BY LenProperties, ElementOfSeq DEF PageNos, StoresOf
<1>2. ASSUME NEW a \in 1 .. Len(s) PROVE st.pages[s[a]].word \in 0 .. Len(st.pages)
  <2>1. st.pages[s[a]].word = IF a = 1 THEN 0 ELSE s[a - 1]
    BY <1>1 DEF IsFreeList
  <2>2. a # 1 => a - 1 \in 1 .. Len(s)
    BY <1>1
  <2>3. QED
    BY <1>1, <2>1, <2>2
<1>3. s # <<>> => Len(s) >= 1
  BY <1>1, EmptySeq
<1>4. QED
  BY <1>1, <1>2, <1>3 DEF IsFreeList, PageNos

\* A free list has no more pages than the store.
LEMMA ListLength ==
  ASSUME NEW P, NEW st \in StoresOf(P), NEW s \in Seq(PageNos(st)), IsFreeList(st, s)
  PROVE  Len(s) <= Len(st.pages)
<1>1. /\ Len(s) \in Nat /\ DOMAIN s = 1 .. Len(s)
      /\ \A a \in 1 .. Len(s) : s[a] \in PageNos(st)
      /\ \A a, b \in 1 .. Len(s) : s[a] = s[b] => a = b
      /\ PageNos(st) = 1 .. Len(st.pages) /\ Len(st.pages) \in Nat
  BY ListLinks, StoreTypes DEF IsFreeList
<1>2. s \in Injection(1 .. Len(s), PageNos(st))
  BY <1>1 DEF Injection, IsInjective
<1>3. \A m \in Nat : IsFiniteSet(1 .. m) /\ Cardinality(1 .. m) = m
  <2>1. TAKE m \in Nat
  <2>2. IsFiniteSet(1 .. m) /\ Cardinality(1 .. m) = IF 1 > m THEN 0 ELSE m - 1 + 1
    BY FS_Interval
  <2>3. QED
    BY <2>2
<1>4. /\ IsFiniteSet(PageNos(st)) /\ Cardinality(PageNos(st)) = Len(st.pages)
      /\ Cardinality(1 .. Len(s)) = Len(s)
  BY <1>1, <1>3
<1>5. QED
  BY <1>2, <1>4, FS_Injection

LEMMA FreePagesFacts ==
  ASSUME NEW P, NEW st \in StoresOf(P), NEW F, FreePages(st, F)
  PROVE  /\ F \subseteq PageNos(st) /\ \A pn \in F : st.pages[pn].word \in Nat
         /\ st.head # 0 => st.head \in F
         /\ st.head = 0 => F = {}
<1>1. PICK s \in Seq(PageNos(st)) : IsFreeList(st, s) /\ F = {s[a] : a \in DOMAIN s}
  BY DEF FreePages
<1>2. /\ Len(s) \in Nat /\ DOMAIN s = 1 .. Len(s)
      /\ \A a \in 1 .. Len(s) : s[a] \in PageNos(st) /\ st.pages[s[a]].word \in 0 .. Len(st.pages)
      /\ st.head # 0 => Len(s) >= 1 /\ st.head = s[Len(s)]
      /\ st.head = 0 => s = <<>>
  BY <1>1, ListLinks
<1>3. st.head # 0 => Len(s) \in DOMAIN s
  BY <1>2
<1>4. st.head = 0 => DOMAIN s = {}
  BY <1>2
<1>5. QED
  BY <1>1, <1>2, <1>3, <1>4, StoreTypes

\* The walk from the head of a free list passes its pages, the last one first,
\* and then stays at 0; there are fewer of them than MaxPages.
LEMMA WalkFacts ==
  ASSUME NEW P, NEW st \in StoresOf(P), Len(st.pages) < MaxPages,
         NEW s \in Seq(PageNos(st)), IsFreeList(st, s)
  PROVE  /\ Len(s) \in Nat /\ Len(s) < MaxPages
         /\ DOMAIN FreeWalk(st) = 1 .. MaxPages
         /\ \A i \in 1 .. MaxPages :
               FreeWalk(st)[i] = IF i <= Len(s) THEN s[Len(s) - i + 1] ELSE 0
<1> DEFINE list == FreeWalk(st)
           g == [i \in 1 .. MaxPages |-> IF i <= Len(s) THEN s[Len(s) - i + 1] ELSE 0]
           next(f) == [i \in 1 .. MaxPages |->
                         IF i = 1 THEN st.head
                         ELSE IF f[i - 1] \in PageNos(st) THEN st.pages[f[i - 1]].word ELSE 0]
<1>1. /\ Len(s) \in Nat /\ DOMAIN s = 1 .. Len(s) /\ MaxPages \in Nat
      /\ \A a \in 1 .. Len(s) : s[a] \in PageNos(st)
      /\ \A a, b \in 1 .. Len(s) : s[a] = s[b] => a = b
      /\ st.head = IF s = <<>> THEN 0 ELSE s[Len(s)]
      /\ \A a \in 1 .. Len(s) : st.pages[s[a]].word = IF a = 1 THEN 0 ELSE s[a - 1]
      /\ PageNos(st) = 1 .. Len(st.pages) /\ Len(st.pages) \in Nat
  BY ListLinks, StoreTypes, MaxPagesAssumption DEF IsFreeList
<1>2. Len(s) < MaxPages
  <2>1. Len(s) <= Len(st.pages)
    BY ListLength
  <2>2. QED
    BY <1>1, <2>1
<1>3. g = next(g)
  <2>1. ASSUME NEW i \in 1 .. MaxPages PROVE g[i] = next(g)[i]
    <3>1. CASE i = 1
      BY <3>1, <1>1
    <3>2. CASE i # 1 /\ i <= Len(s)
      <4> DEFINE a == Len(s) - i + 2
      <4>1. a \in 1 .. Len(s) /\ a # 1 /\ a - 1 = Len(s) - i + 1 /\ a = Len(s) - (i - 1) + 1
        BY <3>2, <1>1
      <4>2. g[i - 1] = s[a] /\ g[i] = s[a - 1]
        BY <3>2, <4>1, <1>1
      <4> HIDE DEF a, g
      <4>3. QED
        BY <3>2, <4>1, <4>2, <1>1
    <3>3. CASE i # 1 /\ i > Len(s)
      <4>1. g[i] = 0
        BY <3>3, <1>1
      <4>2. g[i - 1] \in PageNos(st) => st.pages[g[i - 1]].word = 0
        <5>1. CASE i - 1 <= Len(s)
          <6>1. i - 1 = Len(s) /\ Len(s) >= 1 /\ i - 1 \in 1 .. MaxPages
            BY <5>1, <3>3, <1>1
          <6>2. g[i - 1] = s[Len(s) - (i - 1) + 1] /\ Len(s) - (i - 1) + 1 = 1
            BY <6>1, <1>1
          <6>3. g[i - 1] = s[1]
            BY <6>2
          <6>4. QED
            BY <6>1, <6>3, <1>1
        <5>2. CASE i - 1 > Len(s)
          <6>1. g[i - 1] = 0
            BY <5>2, <3>3, <1>1
          <6>2. QED
            BY <6>1, <1>1
        <5>3. QED
          BY <5>1, <5>2, <1>1
      <4> HIDE DEF g
      <4>3. QED
        BY <3>3, <4>1, <4>2
    <3>4. QED
      BY <3>1, <3>2, <3>3, <1>1
  <2>2. QED
    BY <2>1
<1>4. list = next(list)
  <2>1. list = CHOOSE f : f = next(f)
    BY DEF FreeWalk
  <2> HIDE DEF next, list, g
  <2>2. QED
    BY <2>1, <1>3
<1>5. \A i \in 1 .. MaxPages : list[i] = g[i]
  <2> DEFINE wrong == {i \in 1 .. MaxPages : list[i] # g[i]}
  <2>1. SUFFICES ASSUME wrong # {} PROVE FALSE
    OBVIOUS
  <2>2. wrong \subseteq Nat
    OBVIOUS
  <2> HIDE DEF list, g
  <2>3. PICK i \in wrong : \A j \in wrong : i <= j
    <3> HIDE DEF wrong
    <3>1. QED
      BY <2>1, <2>2, LeastNat
  <2>4. i \in 1 .. MaxPages /\ list[i] # g[i]
    BY <2>3
  <2>5. i # 1 => i - 1 \in 1 .. MaxPages /\ list[i - 1] = g[i - 1]
    <3>1. i # 1 => i - 1 \in 1 .. MaxPages /\ i - 1 < i
      BY <2>4, <1>1
    <3>2. QED
      BY <3>1, <2>3, <1>1
  <2>6. list[i] = next(list)[i] /\ g[i] = next(g)[i]
    BY <1>3, <1>4
  <2>7. QED
    BY <2>4, <2>5, <2>6
<1>6. DOMAIN list = 1 .. MaxPages
  <2>1. DOMAIN next(list) = 1 .. MaxPages
    OBVIOUS
  <2> HIDE DEF next, list
  <2>2. QED
    BY <2>1, <1>4
<1>7. QED
  BY <1>1, <1>2, <1>5, <1>6

\* A free list is left alone by what writes no page of it.
LEMMA SameList ==
  ASSUME NEW P, NEW st \in StoresOf(P), NEW st2 \in StoresOf(P),
         NEW s \in Seq(PageNos(st)), IsFreeList(st, s),
         st2.head = st.head, Len(st.pages) <= Len(st2.pages),
         \A a \in DOMAIN s : st2.pages[s[a]].word = st.pages[s[a]].word
  PROVE  s \in Seq(PageNos(st2)) /\ IsFreeList(st2, s)
<1>1. Len(st.pages) \in Nat /\ Len(st2.pages) \in Nat
  BY StoreTypes
<1>2. PageNos(st) \subseteq PageNos(st2)
  BY <1>1 DEF PageNos
<1>3. s \in Seq(PageNos(st2))
  BY <1>2, SeqMonotonic
<1>4. QED
  BY <1>3 DEF IsFreeList

----------------------------------------------------------------------------
(* The operations. *)

\* A write to a page that is not free.
LEMMA PageSet ==
  ASSUME NEW P, NEW st, NEW F, Listed(P, st, F), NEW pn \in PageNos(st) \ F, NEW page \in P
  PROVE  LET st2 == SetPage(st, pn, page)
         IN  /\ Listed(P, st2, F) /\ PageNos(st2) = PageNos(st)
             /\ Len(st2.pages) = Len(st.pages) /\ st2.head = st.head
             /\ st2.pages[pn] = page
             /\ \A o \in PageNos(st) \ {pn} : st2.pages[o] = st.pages[o]
<1> DEFINE st2 == SetPage(st, pn, page)
<1>1. /\ st \in StoresOf(P) /\ Len(st.pages) < MaxPages /\ FreePages(st, F)
      /\ Len(st.pages) \in Nat /\ st.pages \in Seq(P)
      /\ st \in [head : 0 .. MaxPages - 1, pages : Seq(P)]
      /\ DOMAIN st.pages = 1 .. Len(st.pages) /\ pn \in 1 .. Len(st.pages)
      /\ PageNos(st) = 1 .. Len(st.pages)
  BY StoreTypes DEF Listed, StoresOf
<1>2. /\ st2.head = st.head /\ st2.pages = [st.pages EXCEPT ![pn] = page]
      /\ st2 = [head |-> st2.head, pages |-> st2.pages]
  BY <1>1 DEF SetPage
<1> HIDE DEF st2
<1>3. st2.pages \in Seq(P) /\ Len(st2.pages) = Len(st.pages)
  BY <1>1, <1>2, ExceptSeq
<1>4. st2.pages[pn] = page /\ \A o \in PageNos(st) \ {pn} : st2.pages[o] = st.pages[o]
  BY <1>1, <1>2
<1>5. st2 \in StoresOf(P) /\ PageNos(st2) = PageNos(st)
  BY <1>1, <1>2, <1>3 DEF StoresOf, PageNos
<1>6. FreePages(st2, F)
  <2>1. PICK s \in Seq(PageNos(st)) : IsFreeList(st, s) /\ F = {s[a] : a \in DOMAIN s}
    BY <1>1 DEF FreePages
  <2>2. DOMAIN s = 1 .. Len(s) /\ \A a \in 1 .. Len(s) : s[a] \in PageNos(st)
    BY <1>1, <2>1, ListLinks
  <2>3. \A a \in DOMAIN s : st2.pages[s[a]].word = st.pages[s[a]].word
    BY <1>4, <2>1, <2>2
  <2>4. Len(st.pages) <= Len(st2.pages)
    BY <1>1, <1>3
  <2>5. s \in Seq(PageNos(st2)) /\ IsFreeList(st2, s)
    BY <1>1, <1>2, <1>5, <2>1, <2>3, <2>4, SameList
  <2>6. QED
    BY <2>1, <2>5 DEF FreePages
<1>7. QED
  BY <1>1, <1>2, <1>3, <1>4, <1>5, <1>6 DEF Listed, st2

LEMMA PagePopped ==
  ASSUME NEW P, IsPageSet(P), NEW st, NEW F, Listed(P, st, F), st.head # 0
  PROVE  LET a == Popped(st)
         IN  /\ a.pn \in F /\ a.pn \in PageNos(st)
             /\ Listed(P, a.st, F \ {a.pn}) /\ Len(a.st.pages) = Len(st.pages)
             /\ a.st.pages[a.pn] = ZeroPage
             /\ \A pn \in PageNos(st) \ {a.pn} : a.st.pages[pn] = st.pages[pn]
<1> DEFINE h == st.head
           st2 == Popped(st).st
<1>1. PICK s \in Seq(PageNos(st)) : IsFreeList(st, s) /\ F = {s[a] : a \in DOMAIN s}
  BY DEF Listed, FreePages
<1>2. /\ st \in StoresOf(P) /\ Len(st.pages) < MaxPages
      /\ Len(st.pages) \in Nat /\ st.pages \in Seq(P) /\ st \in [head : 0 .. MaxPages - 1, pages : Seq(P)]
      /\ DOMAIN st.pages = PageNos(st) /\ PageNos(st) = 1 .. Len(st.pages)
  BY StoreTypes DEF Listed, StoresOf
<1>3. /\ Len(s) \in Nat /\ Len(s) >= 1 /\ DOMAIN s = 1 .. Len(s) /\ h = s[Len(s)]
      /\ \A a \in 1 .. Len(s) : s[a] \in PageNos(st) /\ st.pages[s[a]].word \in 0 .. Len(st.pages)
  BY <1>1, <1>2, ListLinks
<1>4. h \in PageNos(st) /\ st.pages[h].word \in 0 .. Len(st.pages) /\ h \in F
  BY <1>1, <1>2, <1>3
<1>5. Popped(st).pn = h /\ st2.head = st.pages[h].word /\ st2.pages = [st.pages EXCEPT ![h] = ZeroPage]
      /\ st2 = [head |-> st2.head, pages |-> st2.pages]
  BY DEF Popped
<1> HIDE DEF st2
<1>6. /\ st2.pages \in Seq(P) /\ Len(st2.pages) = Len(st.pages)
      /\ st2.pages[h] = ZeroPage
      /\ \A pn \in PageNos(st) \ {h} : st2.pages[pn] = st.pages[pn]
  <2>1. h \in 1 .. Len(st.pages) /\ ZeroPage \in P
    BY <1>2, <1>4 DEF IsPageSet
  <2>2. /\ [st.pages EXCEPT ![h] = ZeroPage] \in Seq(P)
        /\ Len([st.pages EXCEPT ![h] = ZeroPage]) = Len(st.pages)
    BY <2>1, <1>2, ExceptSeq
  <2>3. QED
    BY <1>2, <1>4, <1>5, <2>2
<1>7. st2 \in StoresOf(P) /\ PageNos(st2) = PageNos(st)
  <2>1. st2.head \in 0 .. MaxPages - 1
    BY <1>2, <1>4, <1>5, MaxPagesAssumption
  <2>2. QED
    BY <1>5, <1>6, <2>1 DEF StoresOf, PageNos
<1>8. st2.head = IF Len(s) = 1 THEN 0 ELSE s[Len(s) - 1]
  BY <1>1, <1>3, <1>5 DEF IsFreeList
<1> DEFINE t == [a \in 1 .. Len(s) - 1 |-> s[a]]
<1>9. \A a \in 1 .. Len(s) - 1 : a \in DOMAIN s /\ s[a] # h
  BY <1>1, <1>3 DEF IsFreeList
<1>10. /\ t \in Seq(PageNos(st2)) /\ Len(t) = Len(s) - 1 /\ DOMAIN t = 1 .. Len(s) - 1
       /\ \A a \in 1 .. Len(s) - 1 : t[a] = s[a]
  <2>1. Len(s) - 1 \in Nat
    BY <1>3
  <2>2. t \in [1 .. Len(s) - 1 -> PageNos(st2)]
    BY <1>3, <1>7, <1>9
  <2>3. QED
    BY <2>1, <2>2
<1> HIDE DEF t
<1>11. IsFreeList(st2, t)
  <2>1. \A a, b \in DOMAIN t : t[a] = t[b] => a = b
    BY <1>1, <1>9, <1>10 DEF IsFreeList
  <2>2. st2.head = IF t = <<>> THEN 0 ELSE t[Len(t)]
    <3>1. t = <<>> <=> Len(s) = 1
      BY <1>3, <1>10, EmptySeq
    <3>2. QED
      BY <3>1, <1>3, <1>8, <1>10
  <2>3. ASSUME NEW a \in DOMAIN t
        PROVE  st2.pages[t[a]].word = IF a = 1 THEN 0 ELSE t[a - 1]
    <3>1. a \in DOMAIN s /\ s[a] \in PageNos(st) \ {h} /\ t[a] = s[a]
      BY <1>3, <1>9, <1>10
    <3>2. st2.pages[t[a]].word = IF a = 1 THEN 0 ELSE s[a - 1]
      BY <1>1, <1>6, <3>1 DEF IsFreeList
    <3>3. a # 1 => a - 1 \in 1 .. Len(s) - 1
      BY <1>3, <1>10
    <3>4. QED
      BY <3>2, <3>3, <1>10
  <2>4. QED
    BY <2>1, <2>2, <2>3 DEF IsFreeList
<1>12. F \ {h} = {t[a] : a \in DOMAIN t}
  <2>1. ASSUME NEW pn \in F \ {h} PROVE \E a \in DOMAIN t : pn = t[a]
    <3>1. PICK a \in DOMAIN s : pn = s[a]
      BY <2>1, <1>1
    <3>2. a \in 1 .. Len(s) - 1
      BY <2>1, <3>1, <1>3
    <3>3. QED
      BY <3>1, <3>2, <1>10
  <2>2. \A a \in DOMAIN t : t[a] \in F \ {h}
    BY <1>1, <1>9, <1>10
  <2>3. QED
    BY <2>1, <2>2
<1>13. FreePages(st2, F \ {h})
  BY <1>10, <1>11, <1>12 DEF FreePages
<1>14. QED
  BY <1>2, <1>4, <1>5, <1>6, <1>7, <1>13 DEF st2, Listed

LEMMA PageGrown ==
  ASSUME NEW P, IsPageSet(P), NEW st, NEW F, Listed(P, st, F), st.head = 0, CanGrow(st)
  PROVE  LET a == Grown(st)
         IN  /\ a.pn = Len(st.pages) + 1 /\ F = {}
             /\ Listed(P, a.st, {}) /\ Len(a.st.pages) = Len(st.pages) + 1
             /\ a.st.pages[a.pn] = ZeroPage
             /\ \A pn \in PageNos(st) : a.st.pages[pn] = st.pages[pn]
<1> DEFINE st2 == Grown(st).st
<1>1. /\ Len(st.pages) \in Nat /\ st.pages \in Seq(P)
      /\ st \in [head : 0 .. MaxPages - 1, pages : Seq(P)] /\ st \in StoresOf(P)
  BY StoreTypes DEF Listed, StoresOf
<1>2. /\ Grown(st).pn = Len(st.pages) + 1 /\ st2.head = 0
      /\ st2.pages = Append(st.pages, ZeroPage)
      /\ st2 = [head |-> st2.head, pages |-> st2.pages]
  BY <1>1 DEF Grown
<1> HIDE DEF st2
<1>3. /\ st2.pages \in Seq(P) /\ Len(st2.pages) = Len(st.pages) + 1
      /\ st2.pages[Len(st.pages) + 1] = ZeroPage
      /\ \A pn \in 1 .. Len(st.pages) : st2.pages[pn] = st.pages[pn]
  <2>1. ZeroPage \in P
    BY DEF IsPageSet
  <2>2. QED
    BY <1>1, <1>2, <2>1, AppendProperties
<1>4. st2 \in StoresOf(P)
  BY <1>1, <1>2, <1>3 DEF StoresOf
<1>5. FreePages(st2, {})
  <2>1. IsFreeList(st2, <<>>)
    BY <1>2 DEF IsFreeList
  <2>2. <<>> \in Seq(PageNos(st2)) /\ DOMAIN <<>> = {}
    BY EmptySeq
  <2>3. QED
    BY <2>1, <2>2 DEF FreePages
<1>6. F = {}
  BY <1>1, FreePagesFacts DEF Listed
<1>7. QED
  BY <1>1, <1>2, <1>3, <1>4, <1>5, <1>6 DEF st2, CanGrow, PageNos, Listed

\* pager_alloc: a page from the free list, or else one more; it is zero, and the
\* other pages stay.  It fails when there is neither.
LEMMA PageTaken ==
  ASSUME NEW P, IsPageSet(P), NEW st, NEW F, Listed(P, st, F)
  PROVE  LET a == PagerAlloc(st)
         IN  /\ a.pn \in 0 .. MaxPages - 1
             /\ a.pn = 0 => a.st = st /\ F = {} /\ Len(st.pages) = MaxPages - 1
             /\ a.pn # 0 =>
                   /\ Listed(P, a.st, F \ {a.pn})
                   /\ a.pn \in PageNos(a.st) /\ PageNos(a.st) = PageNos(st) \cup {a.pn}
                   /\ \/ a.pn \in F /\ Len(a.st.pages) = Len(st.pages)
                      \/ a.pn \notin PageNos(st) /\ F = {} /\ Len(a.st.pages) = Len(st.pages) + 1
                   /\ a.st.pages[a.pn] = ZeroPage
                   /\ \A pn \in PageNos(st) \ {a.pn} : a.st.pages[pn] = st.pages[pn]
<1> DEFINE a == PagerAlloc(st)
<1>1. /\ Len(st.pages) \in Nat /\ PageNos(st) = 1 .. Len(st.pages) /\ MaxPages \in Nat
      /\ Len(st.pages) < MaxPages /\ st \in StoresOf(P)
  BY StoreTypes, MaxPagesAssumption DEF Listed
<1>2. CASE st.head # 0
  <2>1. a = Popped(st)
    BY <1>2 DEF PagerAlloc
  <2> HIDE DEF a
  <2>2. /\ a.pn \in F /\ a.pn \in PageNos(st)
        /\ Listed(P, a.st, F \ {a.pn}) /\ Len(a.st.pages) = Len(st.pages)
        /\ a.st.pages[a.pn] = ZeroPage
        /\ \A pn \in PageNos(st) \ {a.pn} : a.st.pages[pn] = st.pages[pn]
    <3> DEFINE b == Popped(st)
    <3>1. /\ b.pn \in F /\ b.pn \in PageNos(st)
          /\ Listed(P, b.st, F \ {b.pn}) /\ Len(b.st.pages) = Len(st.pages)
          /\ b.st.pages[b.pn] = ZeroPage
          /\ \A pn \in PageNos(st) \ {b.pn} : b.st.pages[pn] = st.pages[pn]
      BY <1>2, PagePopped
    <3>2. a = b
      BY <2>1
    <3> HIDE DEF b
    <3>3. QED
      BY <3>1, <3>2
  <2>3. PageNos(a.st) = PageNos(st) /\ a.pn \in 0 .. MaxPages - 1 /\ a.pn # 0
    BY <1>1, <2>2 DEF PageNos
  <2>4. QED
    BY <2>2, <2>3 DEF a
<1>3. CASE st.head = 0 /\ CanGrow(st)
  <2>1. a = Grown(st)
    BY <1>3 DEF PagerAlloc
  <2> HIDE DEF a
  <2>2. /\ a.pn = Len(st.pages) + 1 /\ F = {}
        /\ Listed(P, a.st, {}) /\ Len(a.st.pages) = Len(st.pages) + 1
        /\ a.st.pages[a.pn] = ZeroPage
        /\ \A pn \in PageNos(st) : a.st.pages[pn] = st.pages[pn]
    BY <1>3, <2>1, PageGrown
  <2>3. PageNos(a.st) = PageNos(st) \cup {a.pn} /\ a.pn \notin PageNos(st)
    BY <1>1, <2>2 DEF PageNos
  <2>4. a.pn \in 0 .. MaxPages - 1 /\ a.pn # 0
    <3>1. Len(a.st.pages) < MaxPages
      BY <2>2 DEF Listed
    <3>2. QED
      BY <1>1, <2>2, <3>1
  <2>5. F \ {a.pn} = {}
    BY <2>2
  <2>6. QED
    BY <2>2, <2>3, <2>4, <2>5 DEF a
<1>4. CASE st.head = 0 /\ ~CanGrow(st)
  <2>1. a = NoPage(st)
    BY <1>4 DEF PagerAlloc
  <2>2. F = {}
    BY <1>1, <1>4, FreePagesFacts DEF Listed
  <2>3. Len(st.pages) = MaxPages - 1
    BY <1>1, <1>4 DEF CanGrow
  <2>4. QED
    BY <1>1, <2>1, <2>2, <2>3 DEF NoPage
<1>5. QED
  BY <1>2, <1>3, <1>4

\* pager_free, whether the page was in use or not.
LEMMA LinkWritten ==
  ASSUME NEW P, IsPageSet(P), NEW st \in StoresOf(P), Len(st.pages) < MaxPages, NEW pn \in PageNos(st)
  PROVE  LET st2 == PagerFree(st, pn)
         IN  /\ st2 \in StoresOf(P) /\ PageNos(st2) = PageNos(st)
             /\ Len(st2.pages) = Len(st.pages) /\ st2.head = pn
             /\ st2.pages[pn].word = st.head
             /\ \A o \in PageNos(st) \ {pn} : st2.pages[o] = st.pages[o]
<1> DEFINE st2  == PagerFree(st, pn)
           page == [st.pages[pn] EXCEPT !.word = st.head]
<1>1. /\ Len(st.pages) \in Nat /\ st.pages \in Seq(P) /\ st.head \in 0 .. MaxPages - 1
      /\ DOMAIN st.pages = 1 .. Len(st.pages) /\ pn \in 1 .. Len(st.pages) /\ pn # 0
      /\ PageNos(st) = 1 .. Len(st.pages) /\ st \in StoresOf(P)
      /\ MaxPages \in Nat /\ st.head \in Nat /\ st.pages[pn] \in P
      /\ pn \in 0 .. MaxPages - 1
  BY StoreTypes, MaxPagesAssumption
<1>2. /\ st2.head = pn /\ st2.pages = [st.pages EXCEPT ![pn] = page]
      /\ st2 = [head |-> st2.head, pages |-> st2.pages]
  BY <1>1 DEF PagerFree
<1>3. page \in P /\ page.word = st.head
  BY <1>1 DEF IsPageSet
<1> HIDE DEF st2, page
<1>4. st2.pages \in Seq(P) /\ Len(st2.pages) = Len(st.pages)
  BY <1>1, <1>2, <1>3, ExceptSeq
<1>5. st2.pages[pn] = page /\ \A o \in PageNos(st) \ {pn} : st2.pages[o] = st.pages[o]
  BY <1>1, <1>2
<1>6. st2 \in StoresOf(P) /\ PageNos(st2) = PageNos(st)
  BY <1>1, <1>2, <1>4 DEF StoresOf, PageNos
<1>7. QED
  BY <1>2, <1>3, <1>4, <1>5, <1>6 DEF st2

\* pager_free of a page that is not free: it is on the list, and the other
\* pages stay.
LEMMA PageFreed ==
  ASSUME NEW P, IsPageSet(P), NEW st, NEW F, Listed(P, st, F), NEW pn \in PageNos(st) \ F
  PROVE  LET st2 == PagerFree(st, pn)
         IN  /\ Listed(P, st2, F \cup {pn}) /\ PageNos(st2) = PageNos(st)
             /\ Len(st2.pages) = Len(st.pages) /\ st2.head = pn
             /\ st2.pages[pn].word = st.head
             /\ \A o \in PageNos(st) \ {pn} : st2.pages[o] = st.pages[o]
<1> DEFINE st2 == PagerFree(st, pn)
<1>1. /\ st \in StoresOf(P) /\ Len(st.pages) < MaxPages
      /\ Len(st.pages) \in Nat /\ PageNos(st) = 1 .. Len(st.pages)
  BY StoreTypes DEF Listed
<1>2. /\ st2 \in StoresOf(P) /\ PageNos(st2) = PageNos(st)
      /\ Len(st2.pages) = Len(st.pages) /\ st2.head = pn
      /\ st2.pages[pn].word = st.head
      /\ \A o \in PageNos(st) \ {pn} : st2.pages[o] = st.pages[o]
  BY <1>1, LinkWritten
<1> HIDE DEF st2
<1>3. PICK s \in Seq(PageNos(st)) : IsFreeList(st, s) /\ F = {s[a] : a \in DOMAIN s}
  BY DEF Listed, FreePages
<1>4. /\ Len(s) \in Nat /\ DOMAIN s = 1 .. Len(s)
      /\ \A a \in 1 .. Len(s) : s[a] \in PageNos(st)
      /\ st.head # 0 => Len(s) >= 1 /\ st.head = s[Len(s)]
      /\ st.head = 0 => s = <<>>
  BY <1>1, <1>3, ListLinks
<1>5. \A a \in 1 .. Len(s) : s[a] # pn
  BY <1>3, <1>4
<1> DEFINE t == Append(s, pn)
<1>6. /\ t \in Seq(PageNos(st2)) /\ t # <<>> /\ Len(t) = Len(s) + 1
      /\ \A a \in 1 .. Len(s) : t[a] = s[a]
      /\ t[Len(s) + 1] = pn
  BY <1>2, AppendProperties
<1> HIDE DEF t
<1>7. DOMAIN t = 1 .. Len(s) + 1
  BY <1>6, LenProperties
<1>8. \A a, b \in DOMAIN t : t[a] = t[b] => a = b
  BY <1>3, <1>4, <1>5, <1>6, <1>7 DEF IsFreeList
<1>9. ASSUME NEW a \in DOMAIN t
      PROVE  st2.pages[t[a]].word = IF a = 1 THEN 0 ELSE t[a - 1]
  <2>1. CASE a = Len(s) + 1
    <3>1. st2.pages[t[a]].word = st.head
      BY <2>1, <1>6, <1>2
    <3>2. CASE st.head = 0
      <4>1. Len(s) = 0
        BY <3>2, <1>4, EmptySeq
      <4>2. QED
        BY <3>1, <3>2, <2>1, <4>1
    <3>3. CASE st.head # 0
      <4>1. Len(s) \in 1 .. Len(s) /\ a - 1 = Len(s) /\ a # 1 /\ st.head = s[Len(s)]
        BY <3>3, <2>1, <1>4
      <4>2. t[a - 1] = s[Len(s)]
        BY <4>1, <1>6
      <4>3. QED
        BY <3>1, <4>1, <4>2
    <3>4. QED
      BY <3>2, <3>3
  <2>2. CASE a \in 1 .. Len(s)
    <3>1. t[a] = s[a] /\ s[a] \in PageNos(st) \ {pn}
      BY <2>2, <1>4, <1>5, <1>6
    <3>2. st2.pages[t[a]].word = IF a = 1 THEN 0 ELSE s[a - 1]
      BY <3>1, <2>2, <1>3, <1>4, <1>2 DEF IsFreeList
    <3>3. a # 1 => a - 1 \in 1 .. Len(s)
      BY <2>2, <1>4
    <3>4. QED
      BY <3>2, <3>3, <1>6
  <2>3. QED
    BY <2>1, <2>2, <1>4, <1>7
<1>10. IsFreeList(st2, t)
  <2>1. st2.head = t[Len(t)]
    BY <1>2, <1>6
  <2>2. QED
    BY <2>1, <1>6, <1>8, <1>9 DEF IsFreeList
<1>11. F \cup {pn} = {t[a] : a \in DOMAIN t}
  <2>1. \A o \in F \cup {pn} : \E a \in DOMAIN t : o = t[a]
    <3>1. Len(s) + 1 \in DOMAIN t /\ DOMAIN s \subseteq DOMAIN t
      BY <1>4, <1>7
    <3>2. QED
      BY <3>1, <1>3, <1>4, <1>6
  <2>2. \A a \in DOMAIN t : t[a] \in F \cup {pn}
    <3>1. \A a \in DOMAIN t : a \in 1 .. Len(s) \/ a = Len(s) + 1
      BY <1>4, <1>7
    <3>2. QED
      BY <3>1, <1>3, <1>4, <1>6
  <2>3. QED
    BY <2>1, <2>2
<1>12. FreePages(st2, F \cup {pn})
  BY <1>6, <1>10, <1>11 DEF FreePages
<1>13. QED
  BY <1>1, <1>2, <1>12 DEF st2, Listed

=============================================================================
