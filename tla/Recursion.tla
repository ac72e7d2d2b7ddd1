------------------------------- MODULE Recursion -------------------------------
(***************************************************************************)
(* Induction and recursion over data, for proofs about functions that are  *)
(* defined recursively. The theorems of the library about them take an     *)
(* operator as a parameter; these have sets and functions instead, so that *)
(* a leaf of a proof can cite them.                                        *)
(***************************************************************************)
EXTENDS Integers, FiniteSets, FiniteSetTheorems, WellFoundedInduction, TLAPS

\* A set of numbers has a least one. The intervals below its numbers are finite
\* sets, and one of them is the smallest.
LEMMA LeastNumber ==
  ASSUME NEW T, T \subseteq Nat, T # {}
  PROVE  \E n \in T : \A k \in T : n <= k
<1> DEFINE below == {0..n : n \in T}
           R == StrictSubsetOrdering(Nat)
<1>1. below \subseteq FiniteSubsetsOf(Nat)
  <2>1. \A n \in Nat : IsFiniteSet(0..n) /\ 0..n \subseteq Nat
    BY FS_Interval
  <2>2. QED
    BY <2>1 DEF FiniteSubsetsOf
<1>2. IsWellFoundedOn(R, FiniteSubsetsOf(Nat))
  BY FS_StrictSubsetOrderingWellFounded
<1>3. below # {}
  OBVIOUS
<1>4. \E x \in below : \A y \in below : <<y, x>> \notin R
  <2> HIDE DEF below, R
  <2>1. QED
    BY <1>1, <1>2, <1>3, WFMin
<1>5. PICK n \in T : \A k \in T : <<0..k, 0..n>> \notin R
  BY <1>4
<1>6. ASSUME NEW k \in T, k < n PROVE FALSE
  <2>1. 0..k \subseteq 0..n /\ n \in 0..n /\ n \notin 0..k
    BY <1>6
  <2>2. <<0..k, 0..n>> \in R
    <3>1. 0..k \in SUBSET Nat /\ 0..n \in SUBSET Nat /\ 0..k # 0..n
      BY <2>1
    <3>2. QED
      BY <2>1, <3>1 DEF StrictSubsetOrdering
  <2>3. QED
    BY <1>5, <2>2
<1>7. QED
  BY <1>6

\* The shape of the recursive functions of the modules: where x is not done, the
\* value is made from the value at next[x], which is nearer to the end.
Follows(f, x, done, end, next, step) ==
  f[x] = IF x \in done THEN end[x] ELSE step[<<x, f[next[x]]>>]

UpTo(n, f, X, done, end, next, step, m) ==
  \A x \in X : m[x] < n => Follows(f, x, done, end, next, step)
Nearer(X, done, next, m) == \A x \in X \ done : next[x] \in X /\ m[next[x]] < m[x]

\* Two functions that follow the recursion up to n steps agree there.
LEMMA RecursionUnique ==
  ASSUME NEW X, NEW done, NEW end, NEW next, NEW step, NEW m \in [X -> Nat],
         Nearer(X, done, next, m),
         NEW n \in Nat, NEW f, NEW g,
         UpTo(n, f, X, done, end, next, step, m), UpTo(n, g, X, done, end, next, step, m)
  PROVE  \A x \in X : m[x] < n => f[x] = g[x]
<1> DEFINE T == {m[x] : x \in {y \in X : m[y] < n /\ f[y] # g[y]}}
<1> SUFFICES ASSUME T # {} PROVE FALSE
  OBVIOUS
<1>1. T \subseteq Nat
  OBVIOUS
<1>2. PICK k \in T : \A j \in T : k <= j
  BY <1>1, LeastNumber
<1>3. PICK x \in X : m[x] = k /\ m[x] < n /\ f[x] # g[x]
  OBVIOUS
<1>4. CASE x \in done
  BY <1>3, <1>4 DEF UpTo, Follows
<1>5. CASE x \notin done
  <2>1. next[x] \in X /\ m[next[x]] < k /\ m[next[x]] \in Nat /\ k \in Nat
    BY <1>3, <1>5 DEF Nearer
  <2>2. m[next[x]] < n
    BY <1>3, <2>1
  <2>3. m[next[x]] \notin T
    BY <1>2, <2>1
  <2>4. f[next[x]] = g[next[x]]
    BY <2>1, <2>2, <2>3
  <2>5. QED
    BY <1>3, <1>5, <2>4 DEF UpTo, Follows
<1>6. QED
  BY <1>4, <1>5

\* There is a function that follows the recursion as far as one likes.
LEMMA RecursionUpTo ==
  ASSUME NEW X, NEW V, NEW done, NEW end \in [X -> V], NEW next,
         NEW step \in [X \X V -> V], NEW m \in [X -> Nat],
         Nearer(X, done, next, m)
  PROVE  \A n \in Nat : \E f \in [X -> V] :
           UpTo(n, f, X, done, end, next, step, m)
<1> DEFINE Good(n, f) == UpTo(n, f, X, done, end, next, step, m)
           T == {n \in Nat : ~\E f \in [X -> V] : Good(n, f)}
<1> SUFFICES ASSUME T # {} PROVE FALSE
  OBVIOUS
<1>1. PICK n \in T : \A k \in T : n <= k
  <2>1. T \subseteq Nat
    OBVIOUS
  <2> HIDE DEF T
  <2>2. QED
    BY <2>1, LeastNumber
<1>2. n # 0
  <2>1. Good(0, end)
    BY DEF UpTo
  <2>2. QED
    BY <2>1
<1>3. n - 1 \in Nat /\ n \in Nat
  BY <1>2
<1>4. PICK f \in [X -> V] : Good(n - 1, f)
  BY <1>1, <1>3
<1> DEFINE g == [x \in X |-> IF m[x] < n - 1 THEN f[x]
                             ELSE IF x \in done THEN end[x] ELSE step[<<x, f[next[x]]>>]]
<1>5. g \in [X -> V]
  <2>1. \A x \in X \ done : <<x, f[next[x]]>> \in X \X V
    BY DEF Nearer
  <2>2. \A x \in X \ done : step[<<x, f[next[x]]>>] \in V
    BY <2>1
  <2>3. QED
    BY <2>2
<1>6. ASSUME NEW x \in X, m[x] < n PROVE Follows(g, x, done, end, next, step)
  <2>1. CASE x \in done
    BY <1>4, <2>1 DEF UpTo, Follows
  <2>2. CASE x \notin done
    <3>1. next[x] \in X /\ m[next[x]] \in Nat /\ m[x] \in Nat /\ m[next[x]] < m[x]
      BY <2>2 DEF Nearer
    <3>2. m[next[x]] < n - 1
      BY <1>3, <1>6, <3>1
    <3>3. g[next[x]] = f[next[x]]
      BY <3>1, <3>2
    <3>4. g[x] = step[<<x, f[next[x]]>>]
      BY <1>4, <2>2 DEF UpTo, Follows
    <3>5. QED
      BY <2>2, <3>3, <3>4 DEF Follows
  <2>3. QED
    BY <2>1, <2>2
<1>7. Good(n, g)
  BY <1>6 DEF UpTo
<1>8. QED
  BY <1>1, <1>5, <1>7

\* f is the function on X that the recursion defines.
Recursive(f, X, done, end, next, step) ==
  f = [x \in X |-> IF x \in done THEN end[x] ELSE step[<<x, f[next[x]]>>]]

\* A recursion that comes nearer to its end defines a function.
THEOREM RecursionExists ==
  ASSUME NEW X, NEW V, NEW done, NEW end \in [X -> V], NEW next,
         NEW step \in [X \X V -> V], NEW m \in [X -> Nat],
         Nearer(X, done, next, m)
  PROVE  \E f \in [X -> V] : Recursive(f, X, done, end, next, step)
<1> DEFINE Good(n, f) == UpTo(n, f, X, done, end, next, step, m)
           part(n) == CHOOSE f \in [X -> V] : Good(n, f)
           f == [x \in X |-> part(m[x] + 1)[x]]
<1>1. ASSUME NEW n \in Nat PROVE part(n) \in [X -> V] /\ Good(n, part(n))
  <2>1. \E h \in [X -> V] : Good(n, h)
    BY RecursionUpTo
  <2> HIDE DEF Good
  <2>2. QED
    BY <2>1
<1> HIDE DEF part
<1>2. f \in [X -> V]
  BY <1>1
<1>3. ASSUME NEW x \in X PROVE Follows(f, x, done, end, next, step)
  <2> DEFINE n == m[x]
             h == part(n + 1)
  <2>1. n \in Nat /\ n + 1 \in Nat /\ n < n + 1
    OBVIOUS
  <2>2. Follows(h, x, done, end, next, step) /\ f[x] = h[x]
    BY <1>1, <2>1 DEF UpTo
  <2>3. CASE x \in done
    BY <2>2, <2>3 DEF Follows
  <2>4. CASE x \notin done
    <3> DEFINE y == next[x]
               l == m[y]
    <3>1. y \in X /\ l \in Nat /\ l < n /\ l + 1 \in Nat
      BY <2>4 DEF Nearer
    <3>2. Good(l + 1, part(l + 1)) /\ Good(l + 1, h)
      <4>1. \A z \in X : m[z] < l + 1 => m[z] < n + 1
        BY <2>1, <3>1
      <4>2. QED
        BY <1>1, <2>1, <3>1, <4>1 DEF UpTo
    <3>3. \A z \in X : m[z] < l + 1 => part(l + 1)[z] = h[z]
      <4> DEFINE k == l + 1
                 g == part(k)
      <4>1. k \in Nat /\ Good(k, g) /\ Good(k, h)
        BY <3>1, <3>2
      <4> HIDE DEF g, h, k
      <4>2. \A z \in X : m[z] < k => g[z] = h[z]
        BY <4>1, RecursionUnique
      <4>3. QED
        BY <4>2 DEF g, k
    <3>4. f[y] = h[y]
      BY <3>1, <3>3
    <3> HIDE DEF f, h
    <3>5. QED
      BY <2>2, <2>4, <3>4 DEF Follows
  <2>5. QED
    BY <2>3, <2>4
<1>4. Recursive(f, X, done, end, next, step)
  <2> DEFINE g == [x \in X |-> IF x \in done THEN end[x] ELSE step[<<x, f[next[x]]>>]]
  <2>1. \A x \in X : f[x] = g[x]
    BY <1>3 DEF Follows
  <2>2. f = [x \in X |-> f[x]]
    BY <1>2
  <2> HIDE DEF f
  <2>3. QED
    BY <2>1, <2>2 DEF Recursive
<1>5. QED
  BY <1>2, <1>4

\* Induction: a set with 0 and the successors of its numbers has every number.
LEMMA NumberInduction ==
  ASSUME NEW P, 0 \in P, \A n \in Nat : n \in P => n + 1 \in P
  PROVE  Nat \subseteq P
<1> DEFINE T == Nat \ P
<1> SUFFICES ASSUME T # {} PROVE FALSE
  OBVIOUS
<1>1. PICK n \in T : \A k \in T : n <= k
  BY LeastNumber
<1>2. n - 1 \in Nat /\ n - 1 < n /\ n = (n - 1) + 1
  OBVIOUS
<1>3. n - 1 \in P
  BY <1>1, <1>2
<1>4. QED
  BY <1>2, <1>3

\* f is the fold from 0 to N.
Fold(f, N, base, step) ==
  f = [k \in 0..N |-> IF k = 0 THEN base ELSE step[<<k, f[k - 1]>>]]

\* A recursion over the numbers up to N.
LEMMA FoldExists ==
  ASSUME NEW V, NEW N \in Nat, NEW base \in V, NEW step \in [(0..N) \X V -> V]
  PROVE  \E f \in [0..N -> V] : Fold(f, N, base, step)
<1> DEFINE X == 0..N
           done == {0}
           end == [k \in X |-> base]
           next == [k \in X |-> k - 1]
           m == [k \in X |-> k]
<1>1. end \in [X -> V] /\ m \in [X -> Nat] /\ step \in [X \X V -> V]
  OBVIOUS
<1>2. Nearer(X, done, next, m)
  BY DEF Nearer
<1>3. PICK f \in [X -> V] : Recursive(f, X, done, end, next, step)
  <2> HIDE DEF X, done, end, next, m
  <2>1. QED
    BY <1>1, <1>2, RecursionExists
<1>4. f = [k \in X |-> IF k = 0 THEN base ELSE step[<<k, f[k - 1]>>]]
  BY <1>3 DEF Recursive
<1>5. QED
  BY <1>4 DEF Fold
=============================================================================
