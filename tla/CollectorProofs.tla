-------------------------- MODULE CollectorProofs --------------------------
(***************************************************************************)
(* Collector implements Tricolour: lgc.c's lists, sweepgc and the loops of *)
(* its atomic step do what Tricolour says in terms of colors and sets.     *)
(* CInv adds to Tricolour's invariant that every allocated object is in    *)
(* one list, once, that what sweeping has passed is white, and what may be *)
(* gray.  Sweeping is followed by the place of sweepgc in its list.  The   *)
(* atomic step works on a record h, and its loops keep Good(h, Q, c); they *)
(* end because every repetition leaves fewer objects to traverse or to     *)
(* mark, and when they end what is marked is what MarkAll defines.         *)
(***************************************************************************)
EXTENDS Collector, SequenceTheorems, FiniteSetTheorems, TLAPS

-----------------------------------------------------------------------------
(* Induction and recursion over the naturals, with sets for predicates and *)
(* functions for steps.                                                    *)

\* Induction: a set with 0 that is closed under + 1 has every natural number.
LEMMA Reaches ==
  ASSUME NEW T, 0 \in T, \A n \in Nat : n \in T => n + 1 \in T
  PROVE  Nat \subseteq T
  <1> DEFINE Out == Nat \ T
  <1> SUFFICES ASSUME Out # {} PROVE FALSE
    OBVIOUS
  <1>1. \E x \in Out : \A y \in Out : ~(<<y, x>> \in OpToRel(<, Nat))
    BY NatLessThanWellFounded, WFMin
  <1>2. PICK x \in Out : \A y \in Out : ~(<<y, x>> \in OpToRel(<, Nat))
    BY <1>1
  <1>3. x \in Nat /\ x # 0 /\ x - 1 \in Nat
    OBVIOUS
  <1>4. CASE x - 1 \in Out
    <2>1. <<x - 1, x>> \in OpToRel(<, Nat)
      BY <1>3 DEF OpToRel
    <2> QED BY <1>2, <1>4, <2>1
  <1>5. CASE x - 1 \in T
    BY <1>3, <1>5
  <1> QED BY <1>3, <1>4, <1>5

Steps(A) == [Nat -> [A -> A]]
Iteration(f, A, a, step) ==
  f \in [Nat -> A] /\ f[0] = a /\ \A n \in Nat : f[n + 1] = step[n + 1][f[n]]

\* A step can be iterated: there is the sequence of what it makes of a.
LEMMA Iterates ==
  ASSUME NEW A, NEW a \in A, NEW step \in Steps(A)
  PROVE  \E f : Iteration(f, A, a, step)
  <1> USE DEF Steps
  <1> DEFINE Upto(n, f) == f[0] = a /\ \A i \in 0..n : i < n => f[i + 1] = step[i + 1][f[i]]
             T == {n \in Nat : \E f \in [0..n -> A] : Upto(n, f)}
  <1>1. 0 \in T
    <2>1. [i \in 0..0 |-> a] \in [0..0 -> A] /\ Upto(0, [i \in 0..0 |-> a])
      OBVIOUS
    <2> QED BY <2>1
  <1>2. ASSUME NEW n \in Nat, n \in T PROVE n + 1 \in T
    <2>1. PICK f \in [0..n -> A] : Upto(n, f)
      BY <1>2
    <2> DEFINE g == [i \in 0..(n + 1) |-> IF i = n + 1 THEN step[n + 1][f[n]] ELSE f[i]]
    <2>2. step[n + 1][f[n]] \in A
      OBVIOUS
    <2>3. g \in [0..(n + 1) -> A]
      BY <2>2
    <2>4. ASSUME NEW i \in 0..(n + 1), i < n + 1 PROVE g[i + 1] = step[i + 1][g[i]]
      BY <2>1, <2>4
    <2>5. g[0] = a
      BY <2>1
    <2> HIDE DEF g
    <2>6. Upto(n + 1, g)
      BY <2>4, <2>5
    <2> QED BY <2>3, <2>6
  <1> HIDE DEF T
  <1>3. Nat \subseteq T
    BY <1>1, <1>2, Reaches
  <1>4. \A n \in Nat : \E f \in [0..n -> A] : Upto(n, f)
    BY <1>3 DEF T
  <1> DEFINE F == [n \in Nat |-> CHOOSE f \in [0..n -> A] : Upto(n, f)]
  <1>5. \A n \in Nat : F[n] \in [0..n -> A] /\ Upto(n, F[n])
    BY <1>4
  <1> HIDE DEF F
  <1>6. ASSUME NEW n \in Nat PROVE F[n + 1][n] = F[n][n]
    <2> DEFINE S == {i \in Nat : i <= n => F[n + 1][i] = F[n][i]}
    <2>1. 0 \in S
      BY <1>5
    <2>2. ASSUME NEW i \in Nat, i \in S PROVE i + 1 \in S
      <3> SUFFICES ASSUME i + 1 <= n PROVE F[n + 1][i + 1] = F[n][i + 1]
        OBVIOUS
      <3>1. F[n + 1][i] = F[n][i]
        BY <2>2
      <3>2. i \in 0..n /\ i < n /\ i \in 0..(n + 1) /\ i < n + 1 /\ n + 1 \in Nat
        OBVIOUS
      <3>3. F[n][i + 1] = step[i + 1][F[n][i]]
        BY <1>5, <3>2
      <3>4. F[n + 1][i + 1] = step[i + 1][F[n + 1][i]]
        BY <1>5, <3>2
      <3> QED BY <3>1, <3>3, <3>4
    <2> HIDE DEF S
    <2>3. Nat \subseteq S
      BY <2>1, <2>2, Reaches
    <2> QED BY <2>3 DEF S
  <1> DEFINE f == [n \in Nat |-> F[n][n]]
  <1>7. f \in [Nat -> A]
    BY <1>5
  <1>8. f[0] = a
    BY <1>5
  <1>9. ASSUME NEW n \in Nat PROVE f[n + 1] = step[n + 1][f[n]]
    <2>1. F[n + 1][n + 1] = step[n + 1][F[n + 1][n]]
      <3>1. n \in 0..(n + 1) /\ n < n + 1 /\ n + 1 \in Nat
        OBVIOUS
      <3>2. Upto(n + 1, F[n + 1])
        BY <1>5, <3>1
      <3> QED BY <3>1, <3>2
    <2> QED BY <1>6, <2>1
  <1> QED BY <1>7, <1>8, <1>9 DEF Iteration

-----------------------------------------------------------------------------
(* Sequences.                                                              *)

\* f says where in q the elements of w are, which are those outside of D, in order.
Kept(w, q, n, D, f) ==
  /\ f \in [1..Len(w) -> 1..n]
  /\ \A i \in 1..Len(w) : w[i] = q[f[i]] /\ q[f[i]] \notin D
  /\ \A i, j \in 1..Len(w) : i < j => f[i] < f[j]
  /\ \A j \in 1..n : q[j] \notin D => \E i \in 1..Len(w) : f[i] = j

LEMMA KeptAppend ==
  ASSUME NEW S, NEW q \in Seq(S), NEW D, NEW n \in Nat, n + 1 \in 1..Len(q),
         NEW w \in Seq(S), NEW f, Kept(w, q, n, D, f), q[n + 1] \notin D
  PROVE  \E g : Kept(Append(w, q[n + 1]), q, n + 1, D, g)
  <1> DEFINE v == Append(w, q[n + 1])
             g == [i \in 1..(Len(w) + 1) |-> IF i = Len(w) + 1 THEN n + 1 ELSE f[i]]
  <1>1. /\ Len(v) = Len(w) + 1 /\ v[Len(w) + 1] = q[n + 1]
        /\ \A i \in 1..Len(w) : v[i] = w[i]
    OBVIOUS
  <1>2. f \in [1..Len(w) -> 1..n]
    BY DEF Kept
  <1>3. g \in [1..(Len(w) + 1) -> 1..(n + 1)]
    BY <1>2
  <1>4. \A i \in 1..(Len(w) + 1) : v[i] = q[g[i]] /\ q[g[i]] \notin D
    BY <1>1 DEF Kept
  <1>5. ASSUME NEW i \in 1..(Len(w) + 1), NEW j \in 1..(Len(w) + 1), i < j PROVE g[i] < g[j]
    <2>1. i \in 1..Len(w) /\ g[i] = f[i] /\ f[i] \in 1..n
      BY <1>2, <1>5
    <2>2. CASE j = Len(w) + 1
      BY <2>1, <2>2
    <2>3. CASE j # Len(w) + 1
      <3>1. j \in 1..Len(w) /\ g[j] = f[j]
        BY <2>3
      <3> QED BY <1>5, <2>1, <3>1 DEF Kept
    <2> QED BY <2>2, <2>3
  <1>6. ASSUME NEW j \in 1..(n + 1), q[j] \notin D PROVE \E i \in 1..(Len(w) + 1) : g[i] = j
    <2>1. CASE j = n + 1
      BY <2>1
    <2>2. CASE j # n + 1
      <3>1. PICK i \in 1..Len(w) : f[i] = j
        BY <1>6, <2>2 DEF Kept
      <3>2. i \in 1..(Len(w) + 1) /\ g[i] = j
        BY <3>1
      <3> QED BY <3>2
    <2> QED BY <2>1, <2>2
  <1> HIDE DEF g, v
  <1> QED BY <1>1, <1>3, <1>4, <1>5, <1>6 DEF Kept, v

LEMMA KeptSkip ==
  ASSUME NEW S, NEW q \in Seq(S), NEW D, NEW n \in Nat, n + 1 \in 1..Len(q),
         NEW w \in Seq(S), NEW f, Kept(w, q, n, D, f), q[n + 1] \in D
  PROVE  Kept(w, q, n + 1, D, f)
  BY DEF Kept

\* Without(q, D) is q with the members of D left out, in their order.
LEMMA WithoutKeeps ==
  ASSUME NEW S, NEW q \in Seq(S), NEW D
  PROVE  Without(q, D) \in Seq(S) /\ \E f : Kept(Without(q, D), q, Len(q), D, f)
  <1> DEFINE N == Len(q)
             Add(n, w) == IF n \in 1..N /\ q[n] \notin D THEN Append(w, q[n]) ELSE w
             step == [n \in Nat |-> [w \in Seq(S) |-> Add(n, w)]]
             Is(g) == g = [n \in 0..N |->
                            IF n = 0 THEN <<>>
                            ELSE IF q[n] \in D THEN g[n - 1] ELSE Append(g[n - 1], q[n])]
  <1>1. \A n \in Nat, w \in Seq(S) : Add(n, w) \in Seq(S)
    OBVIOUS
  <1>2. step \in [Nat -> [Seq(S) -> Seq(S)]]
    BY <1>1
  <1>3. <<>> \in Seq(S) /\ N \in Nat
    OBVIOUS
  <1>4. PICK f : Iteration(f, Seq(S), <<>>, step)
    <2>1. step \in Steps(Seq(S))
      BY <1>2 DEF Steps
    <2> HIDE DEF step
    <2> QED BY <1>3, <2>1, Iterates
  <1>5. ASSUME NEW n \in Nat PROVE f[n + 1] = Add(n + 1, f[n])
    <2>1. f[n + 1] = step[n + 1][f[n]] /\ n + 1 \in Nat /\ f[n] \in Seq(S)
      <3> HIDE DEF step
      <3>1. f \in [Nat -> Seq(S)]
        BY <1>4 DEF Iteration
      <3>2. \A m \in Nat : f[m + 1] = step[m + 1][f[m]]
        BY <1>4 DEF Iteration
      <3>3. f[n] \in Seq(S)
        BY <3>1
      <3>4. n + 1 \in Nat
        OBVIOUS
      <3> QED BY <3>2, <3>3, <3>4, Zenon
    <2>2. \A m \in Nat, w \in Seq(S) : step[m][w] = Add(m, w)
      OBVIOUS
    <2> HIDE DEF Add, step
    <2> QED BY <2>1, <2>2
  <1> DEFINE g == [n \in 0..N |-> f[n]]
  <1>10. f[0] = <<>>
    BY <1>4 DEF Iteration
  <1>6. \A n \in 1..N : f[n] = IF q[n] \in D THEN f[n - 1] ELSE Append(f[n - 1], q[n])
    <2> SUFFICES ASSUME NEW n \in 1..N
                 PROVE  f[n] = IF q[n] \in D THEN f[n - 1] ELSE Append(f[n - 1], q[n])
      OBVIOUS
    <2>1. n - 1 \in Nat /\ (n - 1) + 1 = n
      OBVIOUS
    <2> QED BY <1>5, <2>1
  <1>7. Is(g)
    <2>1. \A n \in 0..N : f[n] = IF n = 0 THEN <<>>
                                 ELSE IF q[n] \in D THEN g[n - 1] ELSE Append(g[n - 1], q[n])
      <3> SUFFICES ASSUME NEW n \in 0..N
                   PROVE  f[n] = IF n = 0 THEN <<>>
                                 ELSE IF q[n] \in D THEN g[n - 1] ELSE Append(g[n - 1], q[n])
        OBVIOUS
      <3>1. CASE n = 0
        BY <1>10, <3>1
      <3>2. CASE n # 0
        <4>1. n \in 1..N /\ n - 1 \in 0..N /\ g[n - 1] = f[n - 1]
          BY <3>2
        <4> QED BY <1>6, <3>2, <4>1
      <3> QED BY <3>1, <3>2
    <2> QED BY <2>1
  <1>8. PICK left : Is(left) /\ Without(q, D) = left[N]
    <2>1. Without(q, D) = (CHOOSE h : Is(h))[N]
      BY DEF Without
    <2> HIDE DEF Is
    <2> QED BY <1>7, <2>1
  <1>9. /\ left[0] = <<>>
        /\ \A n \in Nat : n + 1 \in 1..N =>
             left[n + 1] = IF q[n + 1] \in D THEN left[n] ELSE Append(left[n], q[n + 1])
    <2>1. \A n \in 0..N : left[n] = IF n = 0 THEN <<>>
                                    ELSE IF q[n] \in D THEN left[n - 1] ELSE Append(left[n - 1], q[n])
      BY <1>8
    <2>2. left[0] = <<>>
      BY <1>3, <2>1
    <2>3. ASSUME NEW n \in Nat, n + 1 \in 1..N
          PROVE  left[n + 1] = IF q[n + 1] \in D THEN left[n] ELSE Append(left[n], q[n + 1])
      <3>1. n + 1 \in 0..N /\ n + 1 # 0 /\ (n + 1) - 1 = n
        BY <2>3
      <3> QED BY <2>1, <3>1
    <2> QED BY <2>2, <2>3
  <1> DEFINE T == {n \in Nat : n <= N => left[n] \in Seq(S) /\ \E h : Kept(left[n], q, n, D, h)}
  <1>14. 0 \in T
    <2>1. Kept(<<>>, q, 0, D, <<>>)
      BY DEF Kept
    <2>2. left[0] \in Seq(S) /\ \E h : Kept(left[0], q, 0, D, h)
      BY <1>9, <2>1
    <2> QED BY <2>2
  <1>11. ASSUME NEW n \in Nat, n \in T PROVE n + 1 \in T
    <2> SUFFICES ASSUME n + 1 <= N
                 PROVE  left[n + 1] \in Seq(S) /\ \E h : Kept(left[n + 1], q, n + 1, D, h)
      OBVIOUS
    <2>1. n + 1 \in 1..N /\ n <= N
      OBVIOUS
    <2>2. left[n] \in Seq(S) /\ \E h : Kept(left[n], q, n, D, h)
      BY <1>11, <2>1
    <2>3. PICK h : Kept(left[n], q, n, D, h)
      BY <2>2
    <2>4. CASE q[n + 1] \in D
      <3>1. left[n + 1] = left[n]
        BY <1>9, <2>1, <2>4
      <3>2. Kept(left[n], q, n + 1, D, h)
        BY <2>1, <2>2, <2>3, <2>4, KeptSkip
      <3> QED BY <2>2, <3>1, <3>2
    <2>5. CASE q[n + 1] \notin D
      <3>1. left[n + 1] = Append(left[n], q[n + 1])
        BY <1>9, <2>1, <2>5
      <3>2. \E k : Kept(Append(left[n], q[n + 1]), q, n + 1, D, k)
        BY <2>1, <2>2, <2>3, <2>5, KeptAppend
      <3>3. q[n + 1] \in S
        BY <2>1
      <3> QED BY <2>2, <3>1, <3>2, <3>3
    <2> QED BY <2>4, <2>5
  <1> HIDE DEF T
  <1>12. Nat \subseteq T
    BY <1>14, <1>11, Reaches
  <1>13. N \in T
    BY <1>12
  <1> QED BY <1>8, <1>13 DEF T

\* The objects in a list, and that no object is in it twice.
LEMMA WithoutSet ==
  ASSUME NEW S, NEW q \in Seq(S), NEW D
  PROVE  /\ Without(q, D) \in Seq(S)
         /\ ToSet(Without(q, D)) = ToSet(q) \ D
         /\ IsInjective(q) => IsInjective(Without(q, D))
  <1>1. Without(q, D) \in Seq(S)
    BY WithoutKeeps
  <1>2. PICK f : Kept(Without(q, D), q, Len(q), D, f)
    BY WithoutKeeps
  <1> DEFINE w == Without(q, D)
  <1> HIDE DEF w
  <1>3. w \in Seq(S) /\ DOMAIN w = 1..Len(w) /\ DOMAIN q = 1..Len(q) /\ Len(w) \in Nat /\ Len(q) \in Nat
    BY <1>1 DEF w
  <1>4. Kept(w, q, Len(q), D, f)
    BY <1>2 DEF w
  <1>5. ToSet(w) = ToSet(q) \ D
    <2>1. ToSet(w) = {w[i] : i \in 1..Len(w)} /\ ToSet(q) = {q[i] : i \in 1..Len(q)}
      BY <1>3 DEF ToSet
    <2>2. ASSUME NEW i \in 1..Len(w) PROVE w[i] \in ToSet(q) \ D
      BY <1>4, <2>1 DEF Kept
    <2>3. ASSUME NEW j \in 1..Len(q), q[j] \notin D PROVE q[j] \in ToSet(w)
      <3>1. PICK i \in 1..Len(w) : f[i] = j
        BY <1>4, <2>3 DEF Kept
      <3>2. w[i] = q[j]
        BY <1>4, <3>1 DEF Kept
      <3> QED BY <2>1, <3>2
    <2> QED BY <2>1, <2>2, <2>3
  <1>6. IsInjective(q) => IsInjective(w)
    BY <1>3, <1>4 DEF Kept, IsInjective
  <1> QED BY <1>3, <1>5, <1>6 DEF w

\* The elements of q up to and after place k.
Upto(q, k) == {q[m] : m \in 1..k}
Between(q, i, j) == {q[m] : m \in (i + 1)..j}

\* c is a, n elements of it, and then b.
Joins(c, a, b, n) ==
  /\ Len(c) = n + Len(b)
  /\ \A m \in 1..n : c[m] = a[m]
  /\ \A m \in 1..Len(b) : c[n + m] = b[m]

LEMMA Concat ==
  ASSUME NEW S, NEW a \in Seq(S), NEW b \in Seq(S), NEW n, n = Len(a)
  PROVE  a \o b \in Seq(S) /\ Joins(a \o b, a, b, n)
  <1>1. n \in Nat /\ Len(b) \in Nat
    OBVIOUS
  <1>2. a \o b \in Seq(S) /\ Len(a \o b) = n + Len(b)
    BY ConcatProperties
  <1>3. \A m \in 1..(n + Len(b)) : (a \o b)[m] = IF m <= n THEN a[m] ELSE b[m - n]
    BY ConcatProperties
  <1>4. ASSUME NEW m \in 1..n PROVE (a \o b)[m] = a[m]
    <2>1. m \in 1..(n + Len(b)) /\ m <= n
      BY <1>1
    <2> QED BY <1>3, <2>1
  <1>5. ASSUME NEW m \in 1..Len(b) PROVE (a \o b)[n + m] = b[m]
    <2>1. n + m \in 1..(n + Len(b)) /\ ~(n + m <= n) /\ (n + m) - n = m
      BY <1>1
    <2> QED BY <1>3, <2>1
  <1> QED BY <1>2, <1>4, <1>5 DEF Joins

\* A part of a sequence is replaced.
Replace(q, i, j, w) == SubSeq(q, 1, i) \o w \o SubSeq(q, j + 1, Len(q))
Replaced(r, q, i, j, w) ==
  /\ Len(r) = i + Len(w) + (Len(q) - j)
  /\ \A m \in 1..i : r[m] = q[m]
  /\ \A m \in 1..Len(w) : r[i + m] = w[m]
  /\ \A m \in 1..(Len(q) - j) : r[i + Len(w) + m] = q[j + m]

\* Where the members of a list are after a part of it is replaced.
LEMMA Splice ==
  ASSUME NEW S, NEW q \in Seq(S), NEW w \in Seq(S), NEW i \in Nat, NEW j \in Nat,
         i <= j, j <= Len(q)
  PROVE  Replace(q, i, j, w) \in Seq(S) /\ Replaced(Replace(q, i, j, w), q, i, j, w)
  <1> DEFINE a == SubSeq(q, 1, i)
             b == SubSeq(q, j + 1, Len(q))
             r == a \o w \o b
  <1>1. a \in Seq(S) /\ Len(a) = i /\ \A m \in 1..i : a[m] = q[m]
    OBVIOUS
  <1>2. b \in Seq(S) /\ Len(b) = Len(q) - j /\ \A m \in 1..(Len(q) - j) : b[m] = q[j + m]
    OBVIOUS
  <1> HIDE DEF a, b
  <1> DEFINE c == a \o w
             n == i + Len(w)
  <1>3. c \in Seq(S) /\ Joins(c, a, w, i)
    BY <1>1, Concat
  <1> HIDE DEF c
  <1>10. n = Len(c)
    BY <1>3 DEF Joins
  <1> HIDE DEF n
  <1>4. c \o b \in Seq(S) /\ Joins(c \o b, c, b, n)
    BY <1>2, <1>3, <1>10, Concat
  <1> USE DEF Joins, n
  <1>0. Len(w) \in Nat
    OBVIOUS
  <1>5. ASSUME NEW m \in 1..i PROVE (c \o b)[m] = q[m]
    <2>1. m \in 1..(i + Len(w))
      BY <1>0
    <2> QED BY <1>1, <1>3, <1>4, <2>1
  <1>6. ASSUME NEW m \in 1..Len(w) PROVE (c \o b)[i + m] = w[m]
    <2>1. i + m \in 1..(i + Len(w))
      BY <1>0
    <2> QED BY <1>3, <1>4, <2>1
  <1>7. \A m \in 1..(Len(q) - j) : (c \o b)[i + Len(w) + m] = q[j + m]
    BY <1>2, <1>4
  <1>8. r = c \o b
    BY DEF c
  <1> HIDE DEF r
  <1>9. r \in Seq(S) /\ Len(r) = i + Len(w) + (Len(q) - j)
    BY <1>2, <1>4, <1>8
  <1>11. Replace(q, i, j, w) = r
    BY DEF Replace, r, a, b
  <1> QED BY <1>5, <1>6, <1>7, <1>8, <1>9, <1>11 DEF Replaced

LEMMA ToSetIs ==
  ASSUME NEW S, NEW q \in Seq(S)
  PROVE  /\ ToSet(q) = {q[m] : m \in 1..Len(q)} /\ ToSet(q) \subseteq S
         /\ DOMAIN q = 1..Len(q) /\ Len(q) \in Nat
  BY DEF ToSet

LEMMA InjectiveIs ==
  ASSUME NEW S, NEW q \in Seq(S)
  PROVE  IsInjective(q) <=> \A m, n \in 1..Len(q) : q[m] = q[n] => m = n
  BY ToSetIs DEF IsInjective

\* ... by some of what was there.
Spliced(r, q, i, j, w) ==
  /\ IsInjective(r)
  /\ ToSet(r) = ToSet(q) \ (Between(q, i, j) \ ToSet(w))
  /\ i + Len(w) \in 0..Len(r)
  /\ Upto(r, i + Len(w)) = Upto(q, i) \union ToSet(w)
  /\ \A m \in 1..i : r[m] = q[m]
  /\ w # <<>> => r[i + Len(w)] = w[Len(w)]

\* Replacing a part by some of its members repeats nothing.
LEMMA SpliceKeeps ==
  ASSUME NEW S, NEW q \in Seq(S), NEW w \in Seq(S), NEW i \in Nat, NEW j \in Nat,
         i <= j, j <= Len(q), IsInjective(q), IsInjective(w),
         ToSet(w) \subseteq Between(q, i, j)
  PROVE  Spliced(Replace(q, i, j, w), q, i, j, w)
  <1> DEFINE r == Replace(q, i, j, w)
             k == Len(w)
             n == Len(q)
  <1>1. /\ r \in Seq(S) /\ Len(r) = i + k + (n - j)
        /\ \A m \in 1..i : r[m] = q[m]
        /\ \A m \in 1..k : r[i + m] = w[m]
        /\ \A m \in 1..(n - j) : r[i + k + m] = q[j + m]
    <2>1. Replace(q, i, j, w) \in Seq(S) /\ Replaced(Replace(q, i, j, w), q, i, j, w)
      BY Splice
    <2> QED BY <2>1 DEF Replaced
  <1>2. /\ k \in Nat /\ n \in Nat
        /\ ToSet(q) = {q[m] : m \in 1..n} /\ ToSet(w) = {w[m] : m \in 1..k}
        /\ ToSet(r) = {r[m] : m \in 1..Len(r)}
    <2>1. r \in Seq(S)
      BY <1>1
    <2> HIDE DEF r
    <2> QED BY <2>1, ToSetIs
  <1>3. /\ \A a, b \in 1..n : q[a] = q[b] => a = b
        /\ \A a, b \in 1..k : w[a] = w[b] => a = b
    BY InjectiveIs
  <1>4. w # <<>> => k \in 1..k
    BY <1>2
  <1> HIDE DEF r, k, n
  <1> DEFINE Old(m) == m \in 1..i
             New(m) == m \in (i + 1)..(i + k)
             Rest(m) == m \in (i + k + 1)..(i + k + (n - j))
  <1>5. ASSUME NEW m \in 1..Len(r) PROVE Old(m) \/ New(m) \/ Rest(m)
    BY <1>1, <1>2
  <1>6. \A m : Old(m) => r[m] = q[m] /\ m \in 1..n /\ m <= i
    BY <1>1, <1>2 DEF n
  <1>7. ASSUME NEW m, New(m) PROVE m - i \in 1..k /\ r[m] = w[m - i]
    <2>1. m - i \in 1..k /\ i + (m - i) = m
      BY <1>2, <1>7
    <2> QED BY <1>1, <2>1
  <1>8. ASSUME NEW m, Rest(m)
        PROVE  (m - i - k) + j \in (j + 1)..n /\ r[m] = q[(m - i - k) + j]
    <2> DEFINE d == m - i - k
    <2>1. d \in 1..(n - j) /\ i + k + d = m /\ d + j \in (j + 1)..n /\ d + j = j + d
      BY <1>2, <1>8 DEF n
    <2> HIDE DEF d
    <2>2. r[m] = q[j + d]
      BY <1>1, <2>1
    <2> QED BY <2>1, <2>2 DEF d
  <1>9. ASSUME NEW m, New(m) PROVE \E b \in (i + 1)..j : r[m] = q[b]
    BY <1>2, <1>7, <1>9 DEF Between
  <1>10. ASSUME NEW a \in 1..Len(r), NEW b \in 1..Len(r), r[a] = r[b], a < b PROVE FALSE
    <2>0. i <= j /\ j <= n /\ i \in Nat /\ j \in Nat
      BY DEF n
    <2>1. CASE Old(a) /\ Old(b)
      BY <1>3, <1>6, <1>10, <2>1
    <2>2. CASE Old(a) /\ New(b)
      <3>1. PICK c \in (i + 1)..j : r[b] = q[c]
        BY <1>9, <2>2
      <3>2. c \in 1..n /\ a \in 1..n /\ q[a] = q[c] /\ a # c
        BY <1>2, <1>6, <1>10, <2>0, <2>2, <3>1
      <3> QED BY <1>3, <3>2
    <2>3. CASE Old(a) /\ Rest(b)
      <3>1. r[a] = q[a] /\ a \in 1..n /\ a <= i
        BY <1>6, <2>3
      <3>2. (b - i - k) + j \in (j + 1)..n /\ r[b] = q[(b - i - k) + j]
        BY <1>8, <2>3
      <3> DEFINE c == (b - i - k) + j
      <3> HIDE DEF c
      <3>3. c \in (j + 1)..n /\ r[b] = q[c]
        BY <3>2 DEF c
      <3>4. c \in 1..n /\ a # c
        BY <1>2, <2>0, <3>1, <3>3
      <3>5. q[a] = q[c]
        BY <1>10, <3>1, <3>3
      <3> QED BY <1>3, <3>1, <3>4, <3>5
    <2>4. CASE New(a) /\ New(b)
      <3>1. a - i \in 1..k /\ r[a] = w[a - i] /\ b - i \in 1..k /\ r[b] = w[b - i]
        BY <1>7, <2>4
      <3>2. a - i # b - i
        BY <1>1, <1>2, <1>10, <2>0
      <3> QED BY <1>3, <1>10, <3>1, <3>2
    <2>5. CASE New(a) /\ Rest(b)
      <3>1. PICK e \in (i + 1)..j : r[a] = q[e]
        BY <1>9, <2>5
      <3>2. (b - i - k) + j \in (j + 1)..n /\ r[b] = q[(b - i - k) + j]
        BY <1>8, <2>5
      <3> DEFINE c == (b - i - k) + j
      <3> HIDE DEF c
      <3>3. c \in (j + 1)..n /\ r[b] = q[c]
        BY <3>2 DEF c
      <3>4. e \in 1..n /\ c \in 1..n /\ e # c
        BY <1>2, <2>0, <3>1, <3>3
      <3> QED BY <1>3, <1>10, <3>1, <3>3, <3>4
    <2>6. CASE Rest(a) /\ Rest(b)
      <3> DEFINE c == (a - i - k) + j
                 e == (b - i - k) + j
      <3>1. c \in (j + 1)..n /\ r[a] = q[c] /\ e \in (j + 1)..n /\ r[b] = q[e]
        BY <1>8, <2>6
      <3>2. c # e
        BY <1>1, <1>2, <1>10, <2>0
      <3> HIDE DEF c, e
      <3>3. c \in 1..n /\ e \in 1..n
        BY <1>2, <2>0, <3>1
      <3> QED BY <1>3, <1>10, <3>1, <3>2, <3>3
    <2> QED BY <1>1, <1>2, <1>5, <1>10, <2>0, <2>1, <2>2, <2>3, <2>4, <2>5, <2>6
  <1>11. IsInjective(r)
    <2>1. ASSUME NEW a \in 1..Len(r), NEW b \in 1..Len(r), r[a] = r[b] PROVE a = b
      <3>1. a \in Int /\ b \in Int
        BY <1>1, <1>2
      <3>2. ~(a < b) /\ ~(b < a)
        BY <1>10, <2>1
      <3> QED BY <3>1, <3>2
    <2> QED BY <1>1, <2>1, InjectiveIs
  <1>12. ToSet(r) = ToSet(q) \ (Between(q, i, j) \ ToSet(w))
    <2>0. i <= j /\ j <= n /\ i \in Nat /\ j \in Nat
      BY DEF n
    <2>1. ASSUME NEW a \in 1..Len(r)
          PROVE  r[a] \in ToSet(q) \ (Between(q, i, j) \ ToSet(w))
      <3>1. CASE Old(a)
        <4>1. r[a] = q[a] /\ a \in 1..n /\ a <= i
          BY <1>6, <3>1
        <4>2. q[a] \notin Between(q, i, j)
          BY <1>2, <1>3, <2>0, <4>1 DEF Between
        <4> QED BY <1>2, <4>1, <4>2
      <3>2. CASE New(a)
        <4>1. r[a] \in ToSet(w)
          BY <1>2, <1>7, <3>2
        <4>2. PICK b \in (i + 1)..j : r[a] = q[b]
          BY <1>9, <3>2
        <4>3. b \in 1..n
          BY <1>2, <2>0, <4>2
        <4> QED BY <1>2, <4>1, <4>2, <4>3
      <3>3. CASE Rest(a)
        <4> DEFINE c == (a - i - k) + j
        <4>1. c \in (j + 1)..n /\ r[a] = q[c]
          BY <1>8, <3>3
        <4> HIDE DEF c
        <4>2. c \in 1..n
          BY <1>2, <2>0, <4>1
        <4>3. q[c] \notin Between(q, i, j)
          BY <1>2, <1>3, <2>0, <4>1, <4>2 DEF Between
        <4> QED BY <1>2, <4>1, <4>2, <4>3
      <3> QED BY <1>5, <3>1, <3>2, <3>3
    <2>2. ASSUME NEW a \in 1..n, q[a] \notin Between(q, i, j) \ ToSet(w)
          PROVE  q[a] \in ToSet(r)
      <3>1. CASE a <= i
        <4>1. a \in 1..i /\ a \in 1..Len(r)
          BY <1>1, <1>2, <2>0, <3>1
        <4> QED BY <1>1, <1>2, <4>1
      <3>2. CASE a > j
        <4> DEFINE d == a - j
        <4>1. d \in 1..(n - j) /\ j + d = a /\ i + k + d \in 1..Len(r)
          BY <1>1, <1>2, <2>0, <3>2
        <4> HIDE DEF d
        <4>2. r[i + k + d] = q[a]
          BY <1>1, <4>1
        <4> QED BY <1>2, <4>1, <4>2
      <3>3. CASE i < a /\ a <= j
        <4>1. q[a] \in Between(q, i, j)
          BY <1>2, <2>0, <3>3 DEF Between
        <4>2. PICK m \in 1..k : w[m] = q[a]
          BY <1>2, <2>2, <4>1
        <4>3. i + m \in 1..Len(r) /\ r[i + m] = q[a]
          BY <1>1, <1>2, <2>0, <4>2
        <4> QED BY <1>2, <4>3
      <3> QED BY <1>2, <2>0, <3>1, <3>2, <3>3
    <2> QED BY <1>2, <2>1, <2>2
  <1>13. i + k \in 0..Len(r)
    BY <1>1, <1>2 DEF n
  <1>14. Upto(r, i + k) = Upto(q, i) \union ToSet(w)
    <2>1. ASSUME NEW a \in 1..(i + k) PROVE r[a] \in Upto(q, i) \union ToSet(w)
      <3>1. CASE a <= i
        <4>1. a \in 1..i
          BY <1>2, <3>1
        <4> QED BY <1>1, <4>1 DEF Upto
      <3>2. CASE ~(a <= i)
        <4>1. New(a)
          BY <1>2, <3>2
        <4> QED BY <1>2, <1>7, <4>1
      <3> QED BY <3>1, <3>2
    <2>2. ASSUME NEW a \in 1..i PROVE q[a] \in Upto(r, i + k)
      <3>1. a \in 1..(i + k)
        BY <1>2
      <3> QED BY <1>1, <3>1 DEF Upto
    <2>3. ASSUME NEW m \in 1..k PROVE w[m] \in Upto(r, i + k)
      <3>1. i + m \in 1..(i + k)
        BY <1>2
      <3> QED BY <1>1, <3>1 DEF Upto
    <2> QED BY <1>2, <2>1, <2>2, <2>3 DEF Upto
  <1>15. w # <<>> => r[i + k] = w[k]
    BY <1>1, <1>4
  <1> QED BY <1>1, <1>11, <1>12, <1>13, <1>14, <1>15 DEF r, k, Spliced

-----------------------------------------------------------------------------
(* The lists.                                                              *)

\* No object is in a list twice, or in two.
Apart(L) ==
  /\ L \in [ListNames -> Seq(Objects)]
  /\ \A l \in ListNames : IsInjective(L[l])
  /\ \A l, m \in ListNames : l # m => ToSet(L[l]) \intersect ToSet(L[m]) = {}

\* Place k of list l is p.
IsAt(L, l, p, k) ==
  \/ p = l /\ k = 0
  \/ k \in 1..Len(L[l]) /\ L[l][k] = p

\* What sweeplist does from place k of list l: it goes over the objects in Z.
Sweeps(s, r, l, k, Z) ==
  LET D == {o \in Z : s.color[o] = "dead"}
      L == s.list
      M == r.swept.list
  IN  /\ Z \subseteq ToSet(L[l])
      /\ Apart(M)
      /\ ToSet(M[l]) = ToSet(L[l]) \ D
      /\ \A m \in ListNames : m # l => M[m] = L[m]
      /\ r.swept.color = [o \in Nodes |-> IF o \in D THEN "free"
                                          ELSE IF o \in Z THEN "white" ELSE s.color[o]]
      /\ r.p = "NULL" => ToSet(L[l]) = Upto(L[l], k) \union Z
      /\ r.p # "NULL" => \E j \in Nat : /\ IsAt(M, l, r.p, j)
                                        /\ Upto(M[l], j) \subseteq Upto(L[l], k) \union (Z \ D)

\* The list and the place that a pointer into one of the lists means.
LEMMA PlaceIs ==
  ASSUME NEW s, Apart(s.list), NEW l \in ListNames, NEW p, NEW k, IsAt(s.list, l, p, k)
  PROVE  /\ ListOf(s, p) = l /\ Place(s, p) = k
         /\ k \in 0..Len(s.list[l])
  <1> DEFINE L == s.list
  <1>1. \A m \in ListNames : L[m] \in Seq(Objects)
    BY DEF Apart
  <1>2. CASE p = l /\ k = 0
    <2>1. Len(L[l]) \in Nat
      BY <1>1
    <2> QED BY <1>2, <2>1 DEF ListOf, Place
  <1>3. CASE k \in 1..Len(L[l]) /\ L[l][k] = p
    <2>1. p \in ToSet(L[l]) /\ p \in Objects /\ p \notin ListNames
      BY <1>1, <1>3, ToSetIs, NamesAssumption
    <2>2. ListOf(s, p) = CHOOSE m \in ListNames : p \in ToSet(L[m])
      BY <2>1 DEF ListOf
    <2>3. \A m \in ListNames : p \in ToSet(L[m]) => m = l
      BY <2>1 DEF Apart
    <2>4. ListOf(s, p) = l
      BY <2>1, <2>2, <2>3
    <2> DEFINE q == L[l]
    <2>5. Place(s, p) = CHOOSE i \in DOMAIN q : q[i] = p
      BY <2>1, <2>4 DEF Place
    <2>6. DOMAIN q = 1..Len(q) /\ \A i, j \in 1..Len(q) : q[i] = q[j] => i = j
      <3>1. q \in Seq(Objects) /\ IsInjective(q)
        BY <1>1 DEF Apart
      <3> HIDE DEF q
      <3> QED BY <3>1, InjectiveIs, ToSetIs
    <2>7. q[k] = p /\ k \in DOMAIN q
      BY <1>3, <2>6
    <2> HIDE DEF q
    <2>8. \A i \in DOMAIN q : q[i] = p => i = k
      BY <2>6, <2>7
    <2>9. Place(s, p) = k
      BY <2>5, <2>7, <2>8
    <2> QED BY <1>3, <2>4, <2>9
  <1> QED BY <1>2, <1>3 DEF IsAt

LEMMA SubIs ==
  ASSUME NEW S, NEW q \in Seq(S), NEW i \in Nat, NEW j \in Nat, i <= j, j <= Len(q)
  PROVE  /\ SubSeq(q, i + 1, j) \in Seq(S)
         /\ ToSet(SubSeq(q, i + 1, j)) = Between(q, i, j)
         /\ IsInjective(q) => IsInjective(SubSeq(q, i + 1, j))
  <1> DEFINE r == SubSeq(q, i + 1, j)
  <1>1. r \in Seq(S) /\ Len(r) = j - i /\ \A m \in 1..(j - i) : r[m] = q[i + m]
    OBVIOUS
  <1> HIDE DEF r
  <1>2. ToSet(r) = {r[m] : m \in 1..(j - i)}
    BY <1>1, ToSetIs
  <1>3. ASSUME NEW m \in (i + 1)..j PROVE q[m] \in ToSet(r)
    <2>1. m - i \in 1..(j - i) /\ i + (m - i) = m
      OBVIOUS
    <2>2. r[m - i] = q[m]
      BY <1>1, <2>1
    <2> QED BY <1>2, <2>1, <2>2
  <1>4. ASSUME NEW m \in 1..(j - i) PROVE r[m] \in Between(q, i, j)
    <2>1. i + m \in (i + 1)..j
      OBVIOUS
    <2> QED BY <1>1, <2>1 DEF Between
  <1>5. ToSet(r) = Between(q, i, j)
    BY <1>2, <1>3, <1>4 DEF Between
  <1>6. ASSUME IsInjective(q) PROVE IsInjective(r)
    <2>1. \A a, b \in 1..Len(q) : q[a] = q[b] => a = b
      BY <1>6, InjectiveIs
    <2>2. ASSUME NEW a \in 1..Len(r), NEW b \in 1..Len(r), r[a] = r[b] PROVE a = b
      <3>1. i + a \in 1..Len(q) /\ i + b \in 1..Len(q) /\ a \in 1..(j - i) /\ b \in 1..(j - i)
        BY <1>1
      <3>2. q[i + a] = q[i + b]
        BY <1>1, <2>2, <3>1
      <3>3. i + a = i + b
        BY <2>1, <3>1, <3>2
      <3> QED BY <3>1, <3>3
    <2> QED BY <1>1, <2>2, InjectiveIs
  <1> QED BY <1>1, <1>5, <1>6 DEF r

\* sweeplist leaves all but some dead objects of what it passes, turned white.
LEMMA SweepListIs ==
  ASSUME NEW s, Apart(s.list), NEW l \in ListNames, NEW p, p # "NULL", NEW k,
         IsAt(s.list, l, p, k), NEW n \in Nat
  PROVE  /\ \E Z : /\ Sweeps(s, SweepList(s, p, n), l, k, Z)
                   /\ n = 1 => \E o : Z \subseteq {o}
         /\ n >= Len(s.list[l]) => SweepList(s, p, n).p = "NULL"
  <1> DEFINE q == s.list[l]
             j == Smaller(k + n, Len(q))
             seen == SubSeq(q, k + 1, j)
             dead == {o \in ToSet(seen) : s.color[o] = "dead"}
             kept == Without(seen, dead)
             M == [s.list EXCEPT ![l] = Replace(q, k, j, kept)]
             r == SweepList(s, p, n)
             e == k + Len(kept)
             Z == Between(q, k, j)
             D == {o \in Z : s.color[o] = "dead"}
  <1>1. ListOf(s, p) = l /\ Place(s, p) = k /\ k \in 0..Len(q)
    BY PlaceIs
  <1>2. q \in Seq(Objects) /\ IsInjective(q) /\ Len(q) \in Nat
    BY DEF Apart
  <1>3. k \in Nat /\ j \in Nat /\ k <= j /\ j <= Len(q) /\ (n >= Len(q) => j = Len(q))
        /\ j <= k + n
    BY <1>1, <1>2 DEF Smaller
  <1>4. r = [swept |-> [list |-> M,
                        color |-> [o \in Nodes |-> IF o \in dead THEN "free"
                                     ELSE IF o \in ToSet(seen) THEN "white" ELSE s.color[o]]],
             p |-> IF j = Len(q) THEN "NULL" ELSE IF kept = <<>> THEN p ELSE Last(kept)]
    BY <1>1 DEF SweepList, Replace
  <1>5. seen \in Seq(Objects) /\ ToSet(seen) = Z /\ IsInjective(seen)
    <2> HIDE DEF j, q
    <2> QED BY <1>2, <1>3, SubIs
  <1>6. dead = D
    BY <1>5
  <1>7. kept \in Seq(Objects) /\ ToSet(kept) = Z \ D /\ IsInjective(kept)
    <2> HIDE DEF seen, Z
    <2>1. Without(seen, dead) \in Seq(Objects) /\ ToSet(Without(seen, dead)) = ToSet(seen) \ dead
          /\ IsInjective(Without(seen, dead))
      BY <1>5, WithoutSet
    <2> QED BY <1>5, <2>1
  <1>8. Replace(q, k, j, kept) \in Seq(Objects) /\ Spliced(Replace(q, k, j, kept), q, k, j, kept)
    <2>1. ToSet(kept) \subseteq Between(q, k, j)
      BY <1>7
    <2> HIDE DEF q, j, kept
    <2> QED BY <1>2, <1>3, <1>7, <2>1, Splice, SpliceKeeps
  <1> HIDE DEF kept, j, dead, seen
  <1>9. M[l] = Replace(q, k, j, kept) /\ \A m \in ListNames : m # l => M[m] = s.list[m]
    BY DEF Apart
  <1>10. ToSet(M[l]) = ToSet(q) \ D
    <2>1. Z \ ToSet(kept) = D
      BY <1>7
    <2> QED BY <1>8, <1>9, <2>1 DEF Spliced
  <1>11. Apart(M)
    <2>1. M \in [ListNames -> Seq(Objects)]
      BY <1>8 DEF Apart
    <2>2. \A m \in ListNames : IsInjective(M[m])
      BY <1>8, <1>9 DEF Apart, Spliced
    <2>3. \A m \in ListNames : ToSet(M[m]) \subseteq ToSet(s.list[m])
      BY <1>9, <1>10
    <2> HIDE DEF M
    <2> QED BY <2>1, <2>2, <2>3 DEF Apart
  <1>12. Z \subseteq ToSet(q)
    <2>1. ToSet(q) = {q[m] : m \in 1..Len(q)}
      BY <1>2, ToSetIs
    <2> QED BY <1>2, <1>3, <2>1 DEF Between
  <1>13. ASSUME j = Len(q) PROVE ToSet(q) = Upto(q, k) \union Z
    <2>1. ToSet(q) = {q[m] : m \in 1..Len(q)}
      BY <1>2, ToSetIs
    <2>2. \A m \in 1..Len(q) : m \in 1..k \/ m \in (k + 1)..j
      BY <1>2, <1>3, <1>13
    <2>3. \A m \in 1..k : m \in 1..Len(q)
      BY <1>2, <1>3
    <2> QED BY <1>12, <2>1, <2>2, <2>3 DEF Upto, Between
  <1>14. kept # <<>> => Last(kept) = kept[Len(kept)] /\ Last(kept) \in Objects
    <2>1. kept # <<>> => Len(kept) \in 1..Len(kept)
      BY <1>7
    <2> QED BY <1>7, <2>1 DEF Last
  <1>15. ASSUME j # Len(q)
         PROVE  r.p # "NULL" /\ \E i \in Nat : /\ IsAt(M, l, r.p, i)
                                               /\ Upto(M[l], i) \subseteq Upto(q, k) \union (Z \ D)
    <2>1. e \in 0..Len(M[l]) /\ Upto(M[l], e) = Upto(q, k) \union (Z \ D)
      BY <1>7, <1>8, <1>9 DEF Spliced
    <2>2. r.p = IF kept = <<>> THEN p ELSE Last(kept)
      BY <1>4, <1>15
    <2>3. e \in Nat
      BY <1>3, <1>7
    <2>4. CASE kept = <<>>
      <3>1. e = k
        BY <1>3, <2>4
      <3>2. CASE p = l /\ k = 0
        BY <2>1, <2>2, <2>3, <2>4, <3>1, <3>2 DEF IsAt
      <3>3. CASE k \in 1..Len(q) /\ q[k] = p
        <4>1. M[l][k] = p
          BY <1>8, <1>9, <3>3 DEF Spliced
        <4>2. k \in 1..Len(M[l])
          BY <2>1, <3>1, <3>3
        <4> QED BY <2>1, <2>2, <2>3, <2>4, <3>1, <4>1, <4>2 DEF IsAt
      <3> QED BY <3>2, <3>3 DEF IsAt
    <2>5. CASE kept # <<>>
      <3>1. Len(kept) \in Nat /\ Len(kept) # 0
        BY <1>7, <2>5
      <3>2. e \in 1..Len(M[l])
        BY <1>3, <2>1, <3>1
      <3>3. M[l][e] = r.p
        BY <1>8, <1>9, <1>14, <2>2, <2>5 DEF Spliced
      <3>4. r.p # "NULL"
        BY <1>14, <2>2, <2>5, NamesAssumption
      <3> QED BY <2>1, <2>3, <3>2, <3>3, <3>4 DEF IsAt
    <2> QED BY <2>4, <2>5
  <1>16. j = Len(q) => r.p = "NULL"
    BY <1>4
  <1>17. r.swept.list = M /\ r.swept.color = [o \in Nodes |-> IF o \in D THEN "free"
                                          ELSE IF o \in Z THEN "white" ELSE s.color[o]]
    BY <1>4, <1>5, <1>6
  <1>18. n = 1 => \E o : Z \subseteq {o}
    <2>1. ASSUME n = 1 PROVE Z \subseteq {q[k + 1]}
      <3>1. \A m \in (k + 1)..j : m = k + 1
        BY <1>3, <2>1
      <3> QED BY <3>1 DEF Between
    <2> QED BY <2>1
  <1> HIDE DEF M, r, Z, q
  <1>19. Sweeps(s, r, l, k, Z)
    BY <1>9, <1>10, <1>11, <1>12, <1>13, <1>15, <1>16, <1>17 DEF Sweeps, q
  <1> QED BY <1>3, <1>16, <1>18, <1>19 DEF r, q

LEMMA MinIs ==
  ASSUME NEW S \in SUBSET Nat, S # {}
  PROVE  Min(S) \in S
  <1>1. \E x \in S : \A y \in S : ~(<<y, x>> \in OpToRel(<, Nat))
    BY NatLessThanWellFounded, WFMin
  <1>2. PICK x \in S : \A y \in S : ~(<<y, x>> \in OpToRel(<, Nat))
    BY <1>1
  <1>3. \A y \in S : x <= y
    <2> SUFFICES ASSUME NEW y \in S PROVE x <= y
      OBVIOUS
    <2>1. ~(<<y, x>> \in OpToRel(<, Nat))
      BY <1>2
    <2>2. ~(y < x)
      BY <2>1 DEF OpToRel
    <2> QED BY <2>2
  <1> QED BY <1>3 DEF Min

\* So does sweeptolive.
LEMMA SweepToLiveIs ==
  ASSUME NEW s, Apart(s.list), NEW l \in ListNames, NEW p \in Objects, NEW k,
         IsAt(s.list, l, p, k)
  PROVE  /\ \E Z : Sweeps(s, SweepToLive(s, p), l, k, Z)
         /\ SweepToLive(s, p).p # p
  <1> DEFINE N == Len(s.list[l])
             moves == {n \in 1..N : SweepList(s, p, n).p # p}
  <1>1. ListOf(s, p) = l
    BY PlaceIs
  <1>2. N \in Nat /\ N # 0 /\ p # "NULL"
    <2>1. s.list[l] \in Seq(Objects)
      BY DEF Apart
    <2>2. p # l
      BY NamesAssumption
    <2>3. k \in 1..N
      BY <2>2 DEF IsAt
    <2> QED BY <2>1, <2>3, NamesAssumption
  <1>3. N \in moves
    <2>1. N >= N /\ N \in 1..N
      BY <1>2
    <2>2. SweepList(s, p, N).p = "NULL"
      BY <1>2, <2>1, SweepListIs
    <2> QED BY <1>2, <2>1, <2>2
  <1>4. SweepToLive(s, p) = SweepList(s, p, Min(moves))
    BY <1>1 DEF SweepToLive
  <1>5. moves \in SUBSET Nat /\ \A n \in moves : SweepList(s, p, n).p # p
    BY <1>2
  <1> HIDE DEF moves
  <1>6. Min(moves) \in moves
    BY <1>3, <1>5, MinIs
  <1>7. PICK n \in Nat : n = Min(moves) /\ SweepList(s, p, n).p # p
    BY <1>5, <1>6
  <1>8. \E Z : Sweeps(s, SweepList(s, p, n), l, k, Z)
    BY <1>2, SweepListIs
  <1> QED BY <1>4, <1>7, <1>8

MP == INSTANCE TricolourProofs WITH
  gcstate <- IF Sweeping THEN "sweep" ELSE gcstate,
  finobj  <- ToSet(list["finobj"]),
  tobefnz <- ToSet(list["tobefnz"])

\* TricolourProofs' assumptions hold of Collector's constants.
LEMMA MarksFacts ==
  MP!ObjectsAssumption /\ MP!UpValsAssumption /\ MP!ClosedAssumption /\ MP!KindAssumption
  BY ObjectsAssumption, UpValsAssumption, ClosedAssumption, KindAssumption
     DEF MP!Kind, Marks!Kind, MP!ObjectsAssumption, MP!UpValsAssumption, MP!ClosedAssumption, MP!KindAssumption

\* Collector's Tricolour and that of TricolourProofs are the same, action by action.
LEMMA SameNewObject == \A o : Marks!NewObject(o) <=> MP!NewObject(o)
  BY DEF
     Marks!NewObject, MP!NewObject, Marks!Kind, MP!Kind

LEMMA SameNewClosure == \A o, u : Marks!NewClosure(o, u) <=> MP!NewClosure(o, u)
  BY DEF
     Marks!NewClosure, MP!NewClosure, Marks!Unused, MP!Unused, Marks!Users, MP!Users,
     Marks!Allocated, MP!Allocated, Marks!OpenIn, MP!OpenIn, Marks!OfKind, MP!OfKind

LEMMA SameLoad == \A o, v : Marks!Load(o, v) <=> MP!Load(o, v)
  BY DEF
     Marks!Load, MP!Load, Marks!heap, MP!heap, Marks!Slots, MP!Slots, Marks!Read, MP!Read

LEMMA SameDrop == \A o : Marks!Drop(o) <=> MP!Drop(o)
  BY DEF
     Marks!Drop, MP!Drop, Marks!heap, MP!heap

LEMMA SameFree == \A D : Marks!Free(D) <=> MP!Free(D)
  BY DEF Marks!Free, MP!Free, Marks!Closing, MP!Closing, Marks!Users, MP!Users,
     Marks!Allocated, MP!Allocated, Marks!Emptied, MP!Emptied

LEMMA SameSwept ==
  \A S, c : Marks!Swept(S, c) = MP!Swept(S, c) /\ Marks!Freed(S, c) = MP!Freed(S, c)
  BY DEF Marks!Swept, MP!Swept, Marks!Nodes, MP!Nodes, Marks!Freed, MP!Freed

LEMMA SameSetFinalizer == \A o, S : Marks!SetFinalizer(o, S) <=> MP!SetFinalizer(o, S)
  <1> TAKE o, S
  <1>1. Marks!Swept(S \union {o}, color) = MP!Swept(S \union {o}, color)
    BY SameSwept
  <1>2. Marks!Free(Marks!Freed(S, color)) <=> MP!Free(MP!Freed(S, color))
    BY SameFree, SameSwept
  <1>3. Marks!Weak = MP!Weak
    BY DEF Marks!Weak, MP!Weak
  <1>4. \A T : Marks!Cardinality(T) = MP!Cardinality(T)
    BY DEF Marks!Cardinality, MP!Cardinality
  <1> QED BY <1>1, <1>2, <1>3, <1>4 DEF Marks!SetFinalizer, MP!SetFinalizer

LEMMA SameStoreTable == \A o, k, v : Marks!StoreTable(o, k, v) <=> MP!StoreTable(o, k, v)
  BY DEF
     Marks!StoreTable, MP!StoreTable, Marks!BarrierBack, MP!BarrierBack, Marks!KeepInvariant,
     MP!KeepInvariant, Marks!Whites, MP!Whites, Marks!Weak, MP!Weak

LEMMA SameStoreBox == \A o, v : Marks!StoreBox(o, v) <=> MP!StoreBox(o, v)
  BY DEF
     Marks!StoreBox, MP!StoreBox, Marks!Barrier, MP!Barrier, Marks!Mark, MP!Mark,
     Marks!ToVisit, MP!ToVisit, Marks!Whites, MP!Whites, Marks!Marked, MP!Marked, Marks!Nodes,
     MP!Nodes, Marks!KeepInvariant, MP!KeepInvariant

LEMMA SameStoreThread == \A o, v : Marks!StoreThread(o, v) <=> MP!StoreThread(o, v)
  BY DEF
     Marks!StoreThread, MP!StoreThread

LEMMA SameSetUpval == \A o, v : Marks!SetUpval(o, v) <=> MP!SetUpval(o, v)
  BY DEF
     Marks!SetUpval, MP!SetUpval, Marks!UpvalBarrier, MP!UpvalBarrier, Marks!Mark, MP!Mark,
     Marks!ToVisit, MP!ToVisit, Marks!Whites, MP!Whites, Marks!Marked, MP!Marked, Marks!Nodes,
     MP!Nodes, Marks!KeepInvariant, MP!KeepInvariant

LEMMA SameUpvalueJoin == \A o, p : Marks!UpvalueJoin(o, p) <=> MP!UpvalueJoin(o, p)
  BY DEF
     Marks!UpvalueJoin, MP!UpvalueJoin, Marks!UpvalBarrier, MP!UpvalBarrier, Marks!Mark,
     MP!Mark, Marks!ToVisit, MP!ToVisit, Marks!Whites, MP!Whites, Marks!Marked, MP!Marked,
     Marks!Nodes, MP!Nodes, Marks!KeepInvariant, MP!KeepInvariant, Marks!Users, MP!Users,
     Marks!Allocated, MP!Allocated

LEMMA SameCloseUpval == \A o : Marks!CloseUpval(o) <=> MP!CloseUpval(o)
  BY DEF
     Marks!CloseUpval, MP!CloseUpval, Marks!UpvalBarrier, MP!UpvalBarrier, Marks!Mark,
     MP!Mark, Marks!ToVisit, MP!ToVisit, Marks!Whites, MP!Whites, Marks!Marked, MP!Marked,
     Marks!Nodes, MP!Nodes, Marks!KeepInvariant, MP!KeepInvariant, Marks!Users, MP!Users,
     Marks!Allocated, MP!Allocated, Marks!OpenIn, MP!OpenIn, Marks!Closing, MP!Closing

LEMMA SameRestart == Marks!Restart <=> MP!Restart
  BY DEF
     Marks!Restart, MP!Restart, Marks!heap, MP!heap, Marks!ToVisit, MP!ToVisit, Marks!Whites,
     MP!Whites, Marks!Marked, MP!Marked, Marks!Nodes, MP!Nodes

LEMMA SamePropagate == \A o : Marks!Propagate(o) <=> MP!Propagate(o)
  BY DEF
     Marks!Propagate, MP!Propagate, Marks!heap, MP!heap, Marks!OpenOf, MP!OpenOf,
     Marks!StaysGray, MP!StaysGray, Marks!VisitAgain, MP!VisitAgain, Marks!Weak, MP!Weak,
     Marks!ToVisit, MP!ToVisit,
     Marks!Whites, MP!Whites, Marks!Marked, MP!Marked, Marks!Nodes, MP!Nodes, Marks!NonWhite,
     MP!NonWhite, Marks!Refs, MP!Refs, Marks!Read, MP!Read

LEMMA SameAbandon == Marks!Abandon <=> MP!Abandon
  BY DEF
     Marks!Abandon, MP!Abandon, Marks!heap, MP!heap, Marks!Swept, MP!Swept, Marks!Nodes,
     MP!Nodes, Marks!AtMostOne, MP!AtMostOne, Marks!KeepInvariant, MP!KeepInvariant

LEMMA SameSweep == \A S : Marks!Sweep(S) <=> MP!Sweep(S)
  BY DEF
     Marks!Sweep, MP!Sweep, Marks!Freed, MP!Freed, Marks!Free, MP!Free, Marks!Closing,
     MP!Closing, Marks!Users, MP!Users, Marks!Allocated, MP!Allocated, Marks!Emptied,
     MP!Emptied, Marks!Swept, MP!Swept, Marks!Nodes, MP!Nodes

LEMMA SameSweepEnd == Marks!SweepEnd <=> MP!SweepEnd
  BY DEF
     Marks!SweepEnd, MP!SweepEnd, Marks!heap, MP!heap, Marks!Allocated, MP!Allocated

LEMMA SameCycleEnd == Marks!CycleEnd <=> MP!CycleEnd
  BY DEF
     Marks!CycleEnd, MP!CycleEnd, Marks!heap, MP!heap

LEMMA SameCallFinalizer == \A o : Marks!CallFinalizer(o) <=> MP!CallFinalizer(o)
  BY DEF
     Marks!CallFinalizer, MP!CallFinalizer, Marks!heap, MP!heap

LEMMA SameInit == Marks!Init <=> MP!Init
  BY DEF
     Marks!Init, MP!Init, Marks!Nodes, MP!Nodes

LEMMA SameMarkAll ==
  /\ \A S, T, i : Marks!MarkAll(S, T, i) = MP!MarkAll(S, T, i)
  /\ \A o, S, i : Marks!Refs(o, S, i) = MP!Refs(o, S, i)
  <1>1. \A o, S, i : Marks!Refs(o, S, i) = MP!Refs(o, S, i)
    BY DEF Marks!Refs, MP!Refs, Marks!Read, MP!Read
  <1>2. \A M, S, T, i : Marks!IsClosed(M, S, T, i) <=> MP!IsClosed(M, S, T, i)
    BY <1>1 DEF Marks!IsClosed, MP!IsClosed
  <1>3. \A S, T, i : Marks!MarkAll(S, T, i) = MP!MarkAll(S, T, i)
    BY <1>2 DEF Marks!MarkAll, MP!MarkAll, Marks!Nodes, MP!Nodes
  <1> QED BY <1>1, <1>3

LEMMA SameMarking ==
  /\ Marks!Propagations = MP!Propagations
  /\ \A P : Marks!TouchedBy(P) = MP!TouchedBy(P)
  /\ \A P : Marks!Reached(P) = MP!Reached(P)
  /\ \A R : Marks!ToFinalize(R) = MP!ToFinalize(R)
  /\ \A R, F : Marks!Resurrected(R, F) = MP!Resurrected(R, F)
  <1>1. Marks!NonWhite = MP!NonWhite /\ Marks!Nodes = MP!Nodes
        /\ \A o : Marks!StaysGray(o) <=> MP!StaysGray(o)
    BY DEF Marks!NonWhite, MP!NonWhite, Marks!Nodes, MP!Nodes, Marks!StaysGray, MP!StaysGray,
       Marks!Weak, MP!Weak
  <1>2. \A P : Marks!Traversed(P) = MP!Traversed(P)
    BY <1>1 DEF Marks!Traversed, MP!Traversed
  <1>3. Marks!Propagations = MP!Propagations
    BY <1>1, SameMarkAll DEF Marks!Propagations, MP!Propagations
  <1>4. \A P : Marks!TouchedBy(P) = MP!TouchedBy(P)
    BY <1>2 DEF Marks!TouchedBy, MP!TouchedBy, Marks!OpenOf, MP!OpenOf
  <1>5. \A P : Marks!Remarked(P) = MP!Remarked(P)
    BY <1>4 DEF Marks!Remarked, MP!Remarked
  <1>6. \A P : Marks!Reached(P) = MP!Reached(P)
    <2> TAKE P
    <2>1. {o \in Marks!Traversed(P) : Marks!StaysGray(o)} = {o \in MP!Traversed(P) : MP!StaysGray(o)}
      BY <1>1, <1>2
    <2> QED BY <1>5, <2>1, SameMarkAll DEF Marks!Reached, MP!Reached
  <1>7. \A R, F : Marks!Resurrected(R, F) = MP!Resurrected(R, F)
    BY SameMarkAll DEF Marks!Resurrected, MP!Resurrected
  <1>8. \A R : Marks!ToFinalize(R) = MP!ToFinalize(R)
    BY DEF Marks!ToFinalize, MP!ToFinalize
  <1> QED BY <1>3, <1>4, <1>6, <1>7, <1>8

LEMMA SameEndAtomic ==
  \A P, R, F, M, S : Marks!EndAtomic(P, R, F, M, S) <=> MP!EndAtomic(P, R, F, M, S)
  <1> TAKE P, R, F, M, S
  <1>1. Marks!Flipped(M) = MP!Flipped(M)
    BY DEF Marks!Flipped, MP!Flipped, Marks!StaysGray, MP!StaysGray, Marks!Weak, MP!Weak,
       Marks!Nodes, MP!Nodes
  <1>2. Marks!Cleared(R, M) = MP!Cleared(R, M) /\ Marks!KeptThreads(M) = MP!KeptThreads(M)
    BY DEF Marks!Cleared, MP!Cleared, Marks!KeptThreads, MP!KeptThreads, Marks!OpenIn, MP!OpenIn,
       Marks!Threads, MP!Threads
  <1>3. \A f, D : Marks!Emptied(f, D) = MP!Emptied(f, D)
    BY DEF Marks!Emptied, MP!Emptied
  <1>4. \A D : Marks!Closing(D) <=> MP!Closing(D)
    BY DEF Marks!Closing, MP!Closing, Marks!Users, MP!Users, Marks!Allocated, MP!Allocated
  <1>5. /\ Marks!Freed(S, Marks!Flipped(M)) = MP!Freed(S, MP!Flipped(M))
        /\ Marks!Swept(S, Marks!Flipped(M)) = MP!Swept(S, MP!Flipped(M))
    BY <1>1, SameSwept
  <1>6. Marks!TouchedBy(P) = MP!TouchedBy(P)
    BY SameMarking
  <1> QED BY <1>2, <1>3, <1>4, <1>5, <1>6 DEF Marks!EndAtomic, MP!EndAtomic

LEMMA SameAtomic == Marks!Atomic <=> MP!Atomic
  <1>1. Marks!AtMostOne = MP!AtMostOne
    BY DEF Marks!AtMostOne, MP!AtMostOne
  <1> QED BY <1>1, SameMarking, SameEndAtomic DEF Marks!Atomic, MP!Atomic

LEMMA SameProgram == Marks!Program <=> MP!Program
  <1>1. /\ \A o : Marks!Slots(o) = MP!Slots(o)
        /\ Marks!Unswept = MP!Unswept
        /\ \A K : Marks!OfKind(K) = MP!OfKind(K)
    BY DEF Marks!Slots, MP!Slots, Marks!Read, MP!Read, Marks!Unswept, MP!Unswept,
       Marks!OfKind, MP!OfKind
  <1> QED BY <1>1, SameNewObject, SameNewClosure, SameLoad, SameDrop, SameSetFinalizer,
             SameStoreTable, SameStoreBox, SameStoreThread, SameSetUpval, SameUpvalueJoin,
             SameCloseUpval, Zenon DEF Marks!Program, MP!Program

\* So what TricolourProofs proves is true of Collector's Tricolour.
LEMMA SameNext == Marks!Next <=> MP!Next
  <1>1. Marks!Unswept = MP!Unswept
    BY DEF Marks!Unswept, MP!Unswept
  <1>2. Marks!Collect <=> MP!Collect
    BY <1>1, SameRestart, SamePropagate, SameAtomic, SameAbandon, SameSweep, SameSweepEnd,
       SameCycleEnd, SameCallFinalizer, Zenon DEF Marks!Collect, MP!Collect
  <1> QED BY <1>2, SameProgram DEF Marks!Next, MP!Next

-----------------------------------------------------------------------------
(* How far a list is swept.                                                *)

White(c, V) == \A o \in V : c[o] = "white"
Part(L, c, l, p) ==
  IF p = "NULL" THEN White(c, ToSet(L[l]))
  ELSE \E k \in Nat : IsAt(L, l, p, k) /\ White(c, Upto(L[l], k))
StayWhite(c, d) == \A o \in Objects : c[o] = "white" => d[o] = "white"

\* What is before a place of a list is in the list.
LEMMA UptoIn ==
  ASSUME NEW L, Apart(L), NEW l \in ListNames, NEW p, NEW k, IsAt(L, l, p, k)
  PROVE  /\ L[l] \in Seq(Objects) /\ Len(L[l]) \in Nat /\ k \in 0..Len(L[l])
         /\ Upto(L[l], k) \subseteq ToSet(L[l]) /\ ToSet(L[l]) \subseteq Objects
         /\ ToSet(L[l]) = {L[l][m] : m \in 1..Len(L[l])}
  <1>1. L[l] \in Seq(Objects) /\ Len(L[l]) \in Nat
    BY DEF Apart
  <1>2. ToSet(L[l]) = {L[l][m] : m \in 1..Len(L[l])} /\ ToSet(L[l]) \subseteq Objects
    BY <1>1, ToSetIs
  <1>3. k \in 0..Len(L[l])
    BY <1>1 DEF IsAt
  <1>4. \A m \in 1..k : m \in 1..Len(L[l])
    BY <1>1, <1>3
  <1> QED BY <1>1, <1>2, <1>3, <1>4 DEF Upto

Pushed(r, q, o) ==
  /\ r \in Seq(Objects) /\ Len(r) = Len(q) + 1 /\ r[1] = o
  /\ \A m \in 1..Len(q) : r[m + 1] = q[m]

\* A list with an object in front of it.
LEMMA PushIs ==
  ASSUME NEW q \in Seq(Objects), NEW o \in Objects, o \notin ToSet(q)
  PROVE  /\ Pushed(<<o>> \o q, q, o)
         /\ ToSet(<<o>> \o q) = ToSet(q) \union {o}
         /\ IsInjective(q) => IsInjective(<<o>> \o q)
  <1> DEFINE r == <<o>> \o q
  <1>1. r \in Seq(Objects) /\ Len(r) = Len(q) + 1 /\ r[1] = o /\ Len(q) \in Nat
    OBVIOUS
  <1>2. \A m \in 1..Len(q) : r[m + 1] = q[m]
    OBVIOUS
  <1> HIDE DEF r
  <1>3. ToSet(r) = {r[m] : m \in 1..Len(r)} /\ ToSet(q) = {q[m] : m \in 1..Len(q)}
    BY <1>1, ToSetIs
  <1>4. ASSUME NEW m \in 1..Len(r), m # 1
        PROVE  m - 1 \in 1..Len(q) /\ r[m] = q[m - 1]
    <2>1. m - 1 \in 1..Len(q) /\ (m - 1) + 1 = m
      BY <1>1, <1>4
    <2> QED BY <1>2, <2>1
  <1>5. ToSet(r) \subseteq ToSet(q) \union {o}
    BY <1>1, <1>3, <1>4
  <1>6. \A m \in 1..Len(q) : m + 1 \in 1..Len(r)
    BY <1>1
  <1>7. ToSet(q) \union {o} \subseteq ToSet(r)
    <2>1. 1 \in 1..Len(r)
      BY <1>1
    <2> QED BY <1>1, <1>2, <1>3, <1>6, <2>1
  <1>8. ASSUME IsInjective(q) PROVE IsInjective(r)
    <2>1. \A m, n \in 1..Len(q) : q[m] = q[n] => m = n
      BY <1>8, InjectiveIs
    <2>2. ASSUME NEW m \in 1..Len(r), NEW n \in 1..Len(r), r[m] = r[n] PROVE m = n
      <3>1. CASE m = 1 /\ n = 1
        BY <3>1
      <3>2. CASE m # 1 /\ n = 1
        BY <1>1, <1>3, <1>4, <2>2, <3>2
      <3>3. CASE m = 1 /\ n # 1
        BY <1>1, <1>3, <1>4, <2>2, <3>3
      <3>4. CASE m # 1 /\ n # 1
        <4>1. m - 1 = n - 1
          BY <1>4, <2>1, <2>2, <3>4
        <4> QED BY <4>1
      <3> QED BY <3>1, <3>2, <3>3, <3>4
    <2> QED BY <1>1, <2>2, InjectiveIs
  <1> QED BY <1>1, <1>2, <1>5, <1>7, <1>8 DEF r, Pushed

\* A list without its first object.
LEMMA PopIs ==
  ASSUME NEW q \in Seq(Objects), q # <<>>, IsInjective(q)
  PROVE  /\ Head(q) \in ToSet(q) /\ Head(q) = q[1]
         /\ Tail(q) \in Seq(Objects) /\ Len(Tail(q)) = Len(q) - 1 /\ Len(q) - 1 \in Nat
         /\ \A m \in 1..(Len(q) - 1) : Tail(q)[m] = q[m + 1]
         /\ ToSet(Tail(q)) = ToSet(q) \ {Head(q)}
         /\ IsInjective(Tail(q))
  <1> DEFINE r == Tail(q)
  <1>1. /\ r \in Seq(Objects) /\ Len(r) = Len(q) - 1 /\ Len(q) - 1 \in Nat
        /\ Head(q) = q[1] /\ Len(q) \in Nat
        /\ \A m \in 1..(Len(q) - 1) : r[m] = q[m + 1]
    OBVIOUS
  <1> HIDE DEF r
  <1>2. ToSet(r) = {r[m] : m \in 1..Len(r)} /\ ToSet(q) = {q[m] : m \in 1..Len(q)}
    BY <1>1, ToSetIs
  <1>3. \A m, n \in 1..Len(q) : q[m] = q[n] => m = n
    BY InjectiveIs
  <1>4. 1 \in 1..Len(q) /\ \A m \in 1..(Len(q) - 1) : m + 1 \in 1..Len(q) /\ m + 1 # 1
    BY <1>1
  <1>5. ToSet(r) \subseteq ToSet(q) \ {q[1]}
    BY <1>1, <1>2, <1>3, <1>4
  <1>6. ASSUME NEW m \in 1..Len(q), q[m] # q[1] PROVE q[m] \in ToSet(r)
    <2>1. m - 1 \in 1..(Len(q) - 1) /\ (m - 1) + 1 = m
      BY <1>1, <1>6
    <2>2. r[m - 1] = q[m]
      BY <1>1, <2>1
    <2> QED BY <1>1, <1>2, <2>1, <2>2
  <1>7. IsInjective(r)
    <2>1. ASSUME NEW m \in 1..Len(r), NEW n \in 1..Len(r), r[m] = r[n] PROVE m = n
      <3>1. q[m + 1] = q[n + 1] /\ m + 1 \in 1..Len(q) /\ n + 1 \in 1..Len(q)
        BY <1>1, <1>4, <2>1
      <3>2. m + 1 = n + 1
        BY <1>3, <3>1
      <3> QED BY <3>2
    <2> QED BY <1>1, <2>1, InjectiveIs
  <1> QED BY <1>1, <1>2, <1>4, <1>5, <1>6, <1>7 DEF r

\* What is swept stays swept: of a list that is left alone,
LEMMA PartSame ==
  ASSUME NEW L, Apart(L), NEW M, NEW l \in ListNames, NEW p, NEW c, NEW d,
         Part(L, c, l, p), M[l] = L[l], StayWhite(c, d)
  PROVE  Part(M, d, l, p)
  <1>1. CASE p = "NULL"
    <2>1. ToSet(L[l]) \subseteq Objects
      BY ToSetIs DEF Apart
    <2> QED BY <1>1, <2>1 DEF Part, White, StayWhite
  <1>2. CASE p # "NULL"
    <2>1. PICK k \in Nat : IsAt(L, l, p, k) /\ White(c, Upto(L[l], k))
      BY <1>2 DEF Part
    <2>2. Upto(L[l], k) \subseteq Objects
      BY <2>1, UptoIn
    <2>3. IsAt(M, l, p, k) /\ White(d, Upto(M[l], k))
      BY <2>1, <2>2 DEF IsAt, White, StayWhite
    <2> QED BY <1>2, <2>3 DEF Part
  <1> QED BY <1>1, <1>2

\* of one that a white object is put in front of,
LEMMA PartPush ==
  ASSUME NEW L, Apart(L), NEW M, NEW l \in ListNames, NEW p, NEW c, NEW d,
         Part(L, c, l, p), NEW o \in Objects, o \notin ToSet(L[l]), M[l] = <<o>> \o L[l],
         StayWhite(c, d), d[o] = "white"
  PROVE  Part(M, d, l, p)
  <1> DEFINE q == L[l]
             r == <<o>> \o q
  <1>1. q \in Seq(Objects) /\ Len(q) \in Nat
    BY DEF Apart
  <1>2. /\ Len(r) = Len(q) + 1 /\ r[1] = o /\ \A m \in 1..Len(q) : r[m + 1] = q[m]
        /\ ToSet(r) = ToSet(q) \union {o}
    <2> HIDE DEF q
    <2>1. o \notin ToSet(q)
      BY DEF q
    <2>2. Pushed(r, q, o) /\ ToSet(r) = ToSet(q) \union {o}
      BY <1>1, <2>1, PushIs
    <2> HIDE DEF r
    <2> QED BY <2>2 DEF Pushed
  <1> HIDE DEF r
  <1>3. M[l] = r
    BY DEF r
  <1>4. CASE p = "NULL"
    <2>1. ToSet(q) \subseteq Objects
      BY <1>1, ToSetIs
    <2> QED BY <1>2, <1>3, <1>4, <2>1 DEF Part, White, StayWhite
  <1>5. CASE p # "NULL"
    <2>1. PICK k \in Nat : IsAt(L, l, p, k) /\ White(c, Upto(q, k))
      BY <1>5 DEF Part
    <2>2. Upto(q, k) \subseteq Objects
      BY <2>1, UptoIn
    <2> HIDE DEF q
    <2>3. CASE p = l /\ k = 0
      <3>1. IsAt(M, l, p, 0) /\ White(d, Upto(M[l], 0))
        BY <2>3 DEF IsAt, Upto, White
      <3> QED BY <1>5, <3>1 DEF Part
    <2>4. CASE k \in 1..Len(q) /\ q[k] = p
      <3>1. k + 1 \in 1..Len(r) /\ r[k + 1] = p /\ k + 1 \in Nat
        BY <1>1, <1>2, <2>4
      <3>2. ASSUME NEW m \in 1..(k + 1) PROVE d[r[m]] = "white"
        <4>1. CASE m = 1
          BY <1>2, <4>1
        <4>2. CASE m # 1
          <5>1. m - 1 \in 1..k /\ m - 1 \in 1..Len(q) /\ (m - 1) + 1 = m
            BY <1>1, <2>4, <4>2
          <5>2. r[m] = q[m - 1] /\ q[m - 1] \in Upto(q, k)
            BY <1>2, <5>1 DEF Upto
          <5> QED BY <2>1, <2>2, <5>2 DEF White, StayWhite
        <4> QED BY <4>1, <4>2
      <3>3. IsAt(M, l, p, k + 1) /\ White(d, Upto(M[l], k + 1))
        BY <1>3, <3>1, <3>2 DEF IsAt, White, Upto
      <3> QED BY <1>5, <3>1, <3>3 DEF Part
    <2>5. IsAt(L, l, p, k) => (p = l /\ k = 0) \/ (k \in 1..Len(q) /\ q[k] = p)
      BY DEF IsAt, q
    <2> QED BY <2>1, <2>3, <2>4, <2>5
  <1> QED BY <1>4, <1>5

\* of one that loses its first object, unless sweeping stops there,
LEMMA PartPop ==
  ASSUME NEW L, Apart(L), NEW M, NEW l \in ListNames, NEW p, NEW c, NEW d,
         Part(L, c, l, p), L[l] # <<>>, Head(L[l]) # p, M[l] = Tail(L[l]), StayWhite(c, d)
  PROVE  Part(M, d, l, p)
  <1> DEFINE q == L[l]
             r == Tail(q)
  <1>1. q \in Seq(Objects) /\ Len(q) \in Nat /\ q # <<>> /\ IsInjective(q)
    BY DEF Apart
  <1>2. /\ Head(q) = q[1] /\ Len(r) = Len(q) - 1 /\ \A m \in 1..(Len(q) - 1) : r[m] = q[m + 1]
        /\ ToSet(r) \subseteq ToSet(q)
    <2> HIDE DEF q
    <2>1. /\ Head(q) = q[1] /\ Len(r) = Len(q) - 1 /\ \A m \in 1..(Len(q) - 1) : r[m] = q[m + 1]
          /\ ToSet(r) = ToSet(q) \ {Head(q)}
      BY <1>1, PopIs
    <2> QED BY <2>1
  <1> HIDE DEF r
  <1>3. M[l] = r
    BY DEF r
  <1>4. CASE p = "NULL"
    <2>1. ToSet(q) \subseteq Objects
      BY <1>1, ToSetIs
    <2> QED BY <1>2, <1>3, <1>4, <2>1 DEF Part, White, StayWhite
  <1>5. CASE p # "NULL"
    <2>1. PICK k \in Nat : IsAt(L, l, p, k) /\ White(c, Upto(q, k))
      BY <1>5 DEF Part
    <2>2. Upto(q, k) \subseteq Objects
      BY <2>1, UptoIn
    <2> HIDE DEF q
    <2>3. CASE p = l /\ k = 0
      <3>1. IsAt(M, l, p, 0) /\ White(d, Upto(M[l], 0))
        BY <2>3 DEF IsAt, Upto, White
      <3> QED BY <1>5, <3>1 DEF Part
    <2>4. CASE k \in 1..Len(q) /\ q[k] = p
      <3>0. k # 1
        BY <1>2, <2>4 DEF q
      <3>1. k - 1 \in 1..(Len(q) - 1) /\ k - 1 \in Nat /\ (k - 1) + 1 = k
        BY <1>1, <2>4, <3>0
      <3>4. k - 1 \in 1..Len(r) /\ r[k - 1] = p
        BY <1>2, <2>4, <3>1
      <3>2. ASSUME NEW m \in 1..(k - 1) PROVE d[r[m]] = "white"
        <4>1. m \in 1..(Len(q) - 1) /\ m + 1 \in 1..k
          BY <1>1, <2>4
        <4>2. r[m] = q[m + 1] /\ q[m + 1] \in Upto(q, k)
          BY <1>2, <4>1 DEF Upto
        <4> QED BY <2>1, <2>2, <4>2 DEF White, StayWhite
      <3>3. IsAt(M, l, p, k - 1) /\ White(d, Upto(M[l], k - 1))
        BY <1>3, <3>2, <3>4 DEF IsAt, White, Upto
      <3> QED BY <1>5, <3>1, <3>3 DEF Part
    <2>5. IsAt(L, l, p, k) => (p = l /\ k = 0) \/ (k \in 1..Len(q) /\ q[k] = p)
      BY DEF IsAt, q
    <2> QED BY <2>1, <2>3, <2>4, <2>5
  <1> QED BY <1>4, <1>5

\* and of one that loses an object, unless sweeping stops at that.
LEMMA PartWithout ==
  ASSUME NEW L, Apart(L), NEW M, NEW l \in ListNames, NEW p, NEW c, NEW d,
         Part(L, c, l, p), NEW o, o # p, M[l] = Without(L[l], {o}), StayWhite(c, d)
  PROVE  Part(M, d, l, p)
  <1> DEFINE q == L[l]
             r == Without(q, {o})
  <1>1. q \in Seq(Objects) /\ Len(q) \in Nat
    BY DEF Apart
  <1>2. r \in Seq(Objects) /\ ToSet(r) \subseteq ToSet(q) /\ \E f : Kept(r, q, Len(q), {o}, f)
    <2> HIDE DEF q
    <2>1. ToSet(r) = ToSet(q) \ {o} /\ r \in Seq(Objects)
      BY <1>1, WithoutSet
    <2>2. \E f : Kept(r, q, Len(q), {o}, f)
      BY <1>1, WithoutKeeps
    <2> QED BY <2>1, <2>2
  <1> HIDE DEF r
  <1>3. M[l] = r /\ Len(r) \in Nat
    BY <1>2 DEF r
  <1>4. CASE p = "NULL"
    <2>1. ToSet(q) \subseteq Objects
      BY <1>1, ToSetIs
    <2> QED BY <1>2, <1>3, <1>4, <2>1 DEF Part, White, StayWhite
  <1>5. CASE p # "NULL"
    <2>1. PICK k \in Nat : IsAt(L, l, p, k) /\ White(c, Upto(q, k))
      BY <1>5 DEF Part
    <2>2. Upto(q, k) \subseteq Objects
      BY <2>1, UptoIn
    <2>6. PICK f : Kept(r, q, Len(q), {o}, f)
      BY <1>2
    <2> HIDE DEF q
    <2>3. CASE p = l /\ k = 0
      <3>1. IsAt(M, l, p, 0) /\ White(d, Upto(M[l], 0))
        BY <2>3 DEF IsAt, Upto, White
      <3> QED BY <1>5, <3>1 DEF Part
    <2>4. CASE k \in 1..Len(q) /\ q[k] = p
      <3>1. PICK i \in 1..Len(r) : f[i] = k
        BY <2>4, <2>6 DEF Kept
      <3>2. r[i] = p /\ i \in Nat
        BY <1>3, <2>4, <2>6, <3>1 DEF Kept
      <3>3. ASSUME NEW m \in 1..i PROVE d[r[m]] = "white"
        <4>1. m \in 1..Len(r) /\ (m < i \/ m = i)
          BY <1>3, <3>1
        <4>2. f[m] \in 1..Len(q) /\ r[m] = q[f[m]] /\ (m < i => f[m] < f[i])
          BY <2>6, <3>1, <4>1 DEF Kept
        <4>3. f[m] \in 1..k
          BY <1>1, <3>1, <4>1, <4>2
        <4>4. r[m] \in Upto(q, k)
          BY <4>2, <4>3 DEF Upto
        <4> QED BY <2>1, <2>2, <4>4 DEF White, StayWhite
      <3>4. IsAt(M, l, p, i) /\ White(d, Upto(M[l], i))
        BY <1>3, <3>1, <3>2, <3>3 DEF IsAt, White, Upto
      <3> QED BY <1>5, <3>2, <3>4 DEF Part
    <2>5. IsAt(L, l, p, k) => (p = l /\ k = 0) \/ (k \in 1..Len(q) /\ q[k] = p)
      BY DEF IsAt, q
    <2> QED BY <2>1, <2>3, <2>4, <2>5
  <1> QED BY <1>4, <1>5

-----------------------------------------------------------------------------
(* The invariant.                                                          *)

\* An object is in a list, and in one only once, while it is allocated.
Listed(L, c) ==
  /\ Apart(L)
  /\ \A o \in Objects : (\E l \in ListNames : o \in ToSet(L[l])) <=> c[o] # "free"

\* What sweeping has passed is white.
Progress(g, L, c, p) ==
  /\ g = "swpallgc" => Part(L, c, "allgc", p)
  /\ g = "swpfinobj" => Part(L, c, "allgc", "NULL") /\ Part(L, c, "finobj", p)
  /\ g = "swptobefnz" => /\ Part(L, c, "allgc", "NULL") /\ Part(L, c, "finobj", "NULL")
                         /\ Part(L, c, "tobefnz", p)
  /\ g = "swpend" => p = "NULL" /\ \A l \in ListNames : Part(L, c, l, "NULL")

States == {"propagate", "atomic", "swpallgc", "swpfinobj", "swptobefnz", "swpend",
           "callfin", "pause"}
Marking == gcstate \in {"propagate", "atomic"}

\* An allocated object has a kind.  A userdata is never to be traversed; a table with
\* weak keys and values that is marked is to be, or has been.
Kinded == \A o \in Objects : color[o] # "free" => kind[o] # None
GrayKinds ==
  Marking =>
    /\ \A o \in (gray \union grayagain) \ {Main} : kind[o] # "userdata"
    /\ \A o \in allweak : o \in Objects /\ kind[o] = "allweak" /\ color[o] = "gray"
    /\ \A o \in Objects : kind[o] = "allweak" /\ color[o] \in {"gray", "black"} =>
                            o \in gray \union grayagain \union allweak

ListInv ==
  /\ gcstate \in States
  /\ Listed(list, color)
  /\ Progress(gcstate, list, color, sweepgc)
  /\ Kinded
  /\ GrayKinds
CInv == MP!IInv /\ ListInv

\* Sweeping a part keeps every object in one list, and what it passes is white.
LEMMA SweepsKeeps ==
  ASSUME NEW s, NEW r, NEW l \in ListNames, NEW k \in Nat, NEW Z,
         Listed(s.list, s.color), White(s.color, Upto(s.list[l], k)), Sweeps(s, r, l, k, Z)
  PROVE  /\ Listed(r.swept.list, r.swept.color)
         /\ Part(r.swept.list, r.swept.color, l, r.p)
         /\ StayWhite(s.color, r.swept.color)
         /\ \A m \in ListNames \ {l} : r.swept.list[m] = s.list[m]
         /\ ToSet(r.swept.list[l]) \subseteq ToSet(s.list[l])
  <1> DEFINE L == s.list
             c == s.color
             M == r.swept.list
             d == r.swept.color
             D == {o \in Z : c[o] = "dead"}
  <1>1. /\ Z \subseteq ToSet(L[l]) /\ Apart(M) /\ ToSet(M[l]) = ToSet(L[l]) \ D
        /\ \A m \in ListNames : m # l => M[m] = L[m]
        /\ d = [o \in Nodes |-> IF o \in D THEN "free" ELSE IF o \in Z THEN "white" ELSE c[o]]
        /\ r.p = "NULL" => ToSet(L[l]) = Upto(L[l], k) \union Z
        /\ r.p # "NULL" => \E j \in Nat : /\ IsAt(M, l, r.p, j)
                                          /\ Upto(M[l], j) \subseteq Upto(L[l], k) \union (Z \ D)
    BY DEF Sweeps
  <1>2. L[l] \in Seq(Objects) /\ ToSet(L[l]) \subseteq Objects
    <2>1. L[l] \in Seq(Objects)
      BY DEF Listed, Apart
    <2> QED BY <2>1, ToSetIs
  <1>3. \A o \in Objects : d[o] = IF o \in D THEN "free" ELSE IF o \in Z THEN "white" ELSE c[o]
    BY <1>1 DEF Nodes
  <1> HIDE DEF M, d, L, c
  <1>4. Apart(L) /\ \A o \in Objects : (\E m \in ListNames : o \in ToSet(L[m])) <=> c[o] # "free"
    BY DEF Listed, L, c
  <1>5. \A o \in D : \A m \in ListNames : o \notin ToSet(M[m])
    BY <1>1, <1>4 DEF Apart
  <1>6. Listed(M, d)
    <2>1. ASSUME NEW o \in Objects PROVE (\E m \in ListNames : o \in ToSet(M[m])) <=> d[o] # "free"
      <3>1. CASE o \in D
        BY <1>3, <1>5, <3>1
      <3>2. CASE o \notin D
        <4>1. (\E m \in ListNames : o \in ToSet(M[m])) <=> (\E m \in ListNames : o \in ToSet(L[m]))
          BY <1>1, <3>2
        <4>2. o \in Z => c[o] # "free"
          BY <1>1, <1>4
        <4> QED BY <1>3, <1>4, <3>2, <4>1, <4>2
      <3> QED BY <3>1, <3>2
    <2> QED BY <1>1, <2>1 DEF Listed
  <1>7. StayWhite(c, d)
    BY <1>3 DEF StayWhite
  <1>8. \A o \in ((Upto(L[l], k) \intersect Objects) \union Z) \ D : o \in Objects => d[o] = "white"
    BY <1>3 DEF White, L, c
  <1>9. Part(M, d, l, r.p)
    <2>1. CASE r.p = "NULL"
      BY <1>1, <1>2, <1>8, <2>1 DEF Part, White
    <2>2. CASE r.p # "NULL"
      <3>1. PICK j \in Nat : /\ IsAt(M, l, r.p, j)
                             /\ Upto(M[l], j) \subseteq Upto(L[l], k) \union (Z \ D)
        BY <1>1, <2>2
      <3>2. Upto(M[l], j) \subseteq Objects /\ Upto(M[l], j) \subseteq ToSet(M[l])
        BY <1>1, <3>1, UptoIn
      <3>3. White(d, Upto(M[l], j))
        BY <1>1, <1>8, <3>1, <3>2 DEF White
      <3> QED BY <2>2, <3>1, <3>3 DEF Part
    <2> QED BY <2>1, <2>2
  <1> QED BY <1>1, <1>6, <1>7, <1>9 DEF M, d, L, c

\* All parts of lists are as far swept as they were.
LEMMA ProgressKept ==
  ASSUME NEW g, NEW L, NEW M, NEW c, NEW d, NEW p, Progress(g, L, c, p),
         \A l \in ListNames, q \in {p, "NULL"} : Part(L, c, l, q) => Part(M, d, l, q)
  PROVE  Progress(g, M, d, p)
  BY DEF Progress, ListNames

-----------------------------------------------------------------------------
(* The program.                                                            *)

\* What steps do to colors that leave what is allocated alone.
Paints(o) ==
  \/ color'[o] = color[o]
  \/ Marking /\ color[o] = "white" /\ kind[o] = "userdata" /\ color'[o] = "black"
  \/ Marking /\ color[o] = "white" /\ kind[o] # "userdata" /\ color'[o] = "gray" /\ o \in gray'
  \/ ~Marking /\ color[o] = "black" /\ color'[o] = "white"
  \/ color[o] = "black" /\ color'[o] = "gray" /\ kind[o] \in {"table", "weakv", "ephemeron", "allweak"}
Repaints ==
  /\ kind' = kind
  /\ \A o \in Objects : Paints(o)
  /\ gray \subseteq gray' /\ grayagain \subseteq grayagain'
  /\ \A o \in (gray' \ gray) \union (grayagain' \ grayagain) : kind[o] # "userdata"

\* Marking, and the barriers, change colors as Repaints says.
LEMMA MarkRepaints ==
  ASSUME MP!IInv, gcstate \in States, Marking, NEW V, Marks!Mark(V), kind' = kind, grayagain' = grayagain
  PROVE  Repaints
  <1>1. \A o \in Objects : color[o] # "dead"
    BY DEF MP!IInv, MP!ColorInv, MP!CycleColors, Sweeping, Marking
  <1>2. /\ \A o \in Nodes : color'[o] = IF o \in Marks!Whites(V)
                                        THEN IF kind[o] = "userdata" THEN "black" ELSE "gray"
                                        ELSE color[o]
        /\ gray' = gray \union Marks!ToVisit(V)
    BY DEF Marks!Mark, Marks!Marked, Marks!Nodes, Nodes
  <1>3. \A o \in Marks!Whites(V) : o \in Objects /\ color[o] = "white"
    BY <1>1 DEF Marks!Whites
  <1> QED BY <1>2, <1>3 DEF Repaints, Paints, Marks!ToVisit, Nodes

LEMMA StillRepaints ==
  ASSUME UNCHANGED <<kind, color, gray, grayagain>>
  PROVE  Repaints
  BY DEF Repaints, Paints

LEMMA BarrierRepaints ==
  ASSUME MP!IInv, gcstate \in States, NEW o \in Objects, NEW v, UNCHANGED <<kind, grayagain>>,
         Marks!Barrier(o, v) \/ Marks!UpvalBarrier(v)
  PROVE  Repaints
  <1>0. Marks!KeepInvariant <=> Marking
    BY DEF Marks!KeepInvariant, Marking, Sweeping
  <1>1. CASE Marking /\ Marks!Mark({v})
    BY <1>1, MarkRepaints
  <1>2. CASE UNCHANGED <<color, gray>>
    BY <1>2, StillRepaints
  <1>3. CASE ~Marking /\ color[o] = "black" /\ color' = [color EXCEPT ![o] = "white"] /\ gray' = gray
    <2>1. color \in [Nodes -> MP!Color] /\ o \in Nodes
      BY DEF MP!IInv, MP!TypeOK, MP!Nodes, Nodes
    <2> QED BY <1>3, <2>1 DEF Repaints, Paints, Nodes
  <1> QED BY <1>0, <1>1, <1>2, <1>3 DEF Marks!Barrier, Marks!UpvalBarrier

LEMMA BarrierBackRepaints ==
  ASSUME MP!IInv, NEW o \in Objects, NEW V, UNCHANGED <<kind, gray>>, Marks!BarrierBack(o, V),
         kind[o] \in {"table", "weakv", "ephemeron", "allweak"}
  PROVE  Repaints
  <1>1. CASE UNCHANGED <<color, grayagain>>
    BY <1>1, StillRepaints
  <1>2. CASE /\ color[o] = "black" /\ color' = [color EXCEPT ![o] = "gray"]
             /\ grayagain' \in {grayagain, grayagain \union {o}}
    <2>1. color \in [Nodes -> MP!Color] /\ o \in Nodes
      BY DEF MP!IInv, MP!TypeOK, MP!Nodes, Nodes
    <2> QED BY <1>2, <2>1 DEF Repaints, Paints, Nodes
  <1> QED BY <1>1, <1>2 DEF Marks!BarrierBack

LEMMA AccessRepaints ==
  ASSUME MP!IInv, gcstate \in States, Access
  PROVE  Repaints
  <1> USE StillRepaints, BarrierRepaints, BarrierBackRepaints
  <1>1. stack \subseteq Objects
    BY DEF MP!IInv, MP!TypeOK
  <1>2. PICK o \in stack :
       \/ \E v \in Marks!Slots(o) : Marks!Load(o, v)
       \/ Marks!Drop(o)
       \/ \E k, v \in stack \union {None} : Marks!StoreTable(o, k, v)
       \/ \E v \in stack \union {None} :
            Marks!StoreBox(o, v) \/ Marks!StoreThread(o, v) \/ Marks!SetUpval(o, v)
       \/ \E p \in Marks!OfKind({"closure"}) : Marks!UpvalueJoin(o, p)
       \/ Marks!CloseUpval(o)
    BY DEF Access
  <1>3. ASSUME NEW v, Marks!Load(o, v) PROVE Repaints
    BY <1>3 DEF Marks!Load, Marks!heap
  <1>4. ASSUME Marks!Drop(o) PROVE Repaints
    BY <1>4 DEF Marks!Drop, Marks!heap
  <1>5. ASSUME NEW k, NEW v, Marks!StoreTable(o, k, v) PROVE Repaints
    BY <1>1, <1>5 DEF Marks!StoreTable, Marks!Weak
  <1>6. ASSUME NEW v, Marks!StoreBox(o, v) PROVE Repaints
    BY <1>1, <1>6 DEF Marks!StoreBox
  <1>7. ASSUME NEW v, Marks!StoreThread(o, v) PROVE Repaints
    BY <1>7 DEF Marks!StoreThread
  <1>8. ASSUME NEW v, Marks!SetUpval(o, v) PROVE Repaints
    BY <1>1, <1>8 DEF Marks!SetUpval
  <1>9. ASSUME NEW p, Marks!UpvalueJoin(o, p) PROVE Repaints
    BY <1>1, <1>9 DEF Marks!UpvalueJoin
  <1>10. ASSUME Marks!CloseUpval(o) PROVE Repaints
    BY <1>1, <1>10 DEF Marks!CloseUpval
  <1> QED BY <1>2, <1>3, <1>4, <1>5, <1>6, <1>7, <1>8, <1>9, <1>10

\* What changes colors and grayagain only, as Repaints says, keeps ListInv.
LEMMA RepaintsKeeps ==
  ASSUME CInv, Repaints, UNCHANGED <<gcstate, allweak, list, sweepgc>>
  PROVE  ListInv'
  <1>1. \A o \in Objects : color'[o] = "free" <=> color[o] = "free"
    BY DEF Repaints, Paints
  <1>2. \A o \in Objects : color[o] = "white" /\ ~Marking => color'[o] = "white"
    BY DEF Repaints, Paints
  <1>3. Listed(list', color')
    BY <1>1 DEF CInv, ListInv, Listed
  <1>4. Progress(gcstate', list', color', sweepgc')
    <2>1. CASE Marking
      BY <2>1 DEF Progress, Marking
    <2>2. CASE ~Marking
      <3>1. \A l \in ListNames, q \in {sweepgc, "NULL"} :
              Part(list, color, l, q) => Part(list', color', l, q)
        BY <1>2, <2>2, PartSame DEF CInv, ListInv, Listed, StayWhite
      <3>2. Progress(gcstate, list, color, sweepgc)
        BY DEF CInv, ListInv
      <3>3. Progress(gcstate, list', color', sweepgc)
        BY <3>1, <3>2, ProgressKept
      <3> QED BY <3>3
    <2> QED BY <2>1, <2>2
  <1>5. Kinded'
    BY <1>1 DEF CInv, ListInv, Kinded, Repaints
  <1>6. GrayKinds'
    BY DEF CInv, ListInv, GrayKinds, Marking, Repaints, Paints
  <1> QED BY <1>3, <1>4, <1>5, <1>6 DEF CInv, ListInv

MarksStep == Marks!Next \/ UNCHANGED Marks!vars

LEMMA Lists3 == \A l \in ListNames : l \in {"allgc", "finobj", "tobefnz"}
  BY DEF ListNames

\* Loads, stores, closed and joined upvalues: the same action of Tricolour.
LEMMA AccessKeeps ==
  ASSUME CInv, Access
  PROVE  MarksStep /\ ListInv'
  <1>1. Repaints
    BY AccessRepaints DEF CInv, ListInv
  <1>2. UNCHANGED <<gcstate, allweak, list, sweepgc>>
    BY DEF Access
  <1>3. ListInv'
    BY <1>1, <1>2, RepaintsKeeps
  <1>4. Marks!Program
    BY DEF Access, Marks!Program
  <1> QED BY <1>3, <1>4 DEF MarksStep, Marks!Next

\* An object joins a list at its head, and is white.
Idle == {"propagate", "atomic", "callfin", "pause"}
Pushes(L, M, c, d, l, o) ==
  /\ M = [L EXCEPT ![l] = <<o>> \o @]
  /\ c[o] = "free" /\ d[o] # "free"
  /\ \A x \in Objects \ {o} : d[x] = c[x]

\* A new object in front of a list keeps what is known of the lists.
LEMMA PushKeeps ==
  ASSUME NEW g, NEW L, NEW M, NEW c, NEW d, NEW p, Listed(L, c), Progress(g, L, c, p),
         NEW l \in ListNames, NEW o \in Objects, Pushes(L, M, c, d, l, o),
         g \in Idle \/ d[o] = "white"
  PROVE  Listed(M, d) /\ Progress(g, M, d, p)
  <1> USE DEF Pushes
  <1>1. /\ Apart(L) /\ \A m \in ListNames : L[m] \in Seq(Objects) /\ IsInjective(L[m])
        /\ \A m \in ListNames : o \notin ToSet(L[m])
        /\ \A x \in Objects : (\E m \in ListNames : x \in ToSet(L[m])) <=> c[x] # "free"
    BY DEF Listed, Apart
  <1>2. M[l] = <<o>> \o L[l] /\ (\A m \in ListNames : m # l => M[m] = L[m])
        /\ M \in [ListNames -> Seq(Objects)]
    BY <1>1 DEF Apart
  <1>3. ToSet(M[l]) = ToSet(L[l]) \union {o} /\ IsInjective(M[l])
    <2>1. L[l] \in Seq(Objects) /\ o \notin ToSet(L[l]) /\ IsInjective(L[l])
      BY <1>1
    <2> DEFINE q == L[l]
    <2> HIDE DEF q
    <2>2. ToSet(<<o>> \o q) = ToSet(q) \union {o} /\ IsInjective(<<o>> \o q)
      BY <2>1, PushIs DEF q
    <2> QED BY <1>2, <2>2 DEF q
  <1>4. Apart(M)
    <2>1. \A m \in ListNames : IsInjective(M[m])
      BY <1>1, <1>2, <1>3
    <2>2. \A m, n \in ListNames : m # n => ToSet(M[m]) \intersect ToSet(M[n]) = {}
      BY <1>1, <1>2, <1>3 DEF Apart
    <2> QED BY <1>2, <2>1, <2>2 DEF Apart
  <1>5. Listed(M, d)
    <2>1. ASSUME NEW x \in Objects PROVE (\E m \in ListNames : x \in ToSet(M[m])) <=> d[x] # "free"
      <3>1. CASE x = o
        BY <1>3, <3>1
      <3>2. CASE x # o
        <4>1. (\E m \in ListNames : x \in ToSet(M[m])) <=> (\E m \in ListNames : x \in ToSet(L[m]))
          BY <1>2, <1>3, <3>2
        <4>2. d[x] = c[x]
          BY <3>2
        <4> QED BY <1>1, <4>1, <4>2
      <3> QED BY <3>1, <3>2
    <2> QED BY <1>4, <2>1 DEF Listed
  <1>6. StayWhite(c, d)
    BY DEF StayWhite
  <1>7. Progress(g, M, d, p)
    <2>1. CASE g \in Idle
      BY <2>1 DEF Progress, Idle
    <2>2. CASE d[o] = "white"
      <3>1. ASSUME NEW m \in ListNames, NEW q \in {p, "NULL"}, Part(L, c, m, q) PROVE Part(M, d, m, q)
        <4>1. CASE m = l
          BY <1>1, <1>2, <1>6, <2>2, <3>1, <4>1, PartPush
        <4>2. CASE m # l
          BY <1>1, <1>2, <1>6, <3>1, <4>2, PartSame
        <4> QED BY <4>1, <4>2
      <3> QED BY <3>1, ProgressKept
    <2> QED BY <2>1, <2>2
  <1> QED BY <1>5, <1>7

\* luaC_newobj puts the object in front of allgc: Tricolour's NewObject.
LEMMA NewObjectKeeps ==
  ASSUME CInv, NEW o \in Objects, NewObject(o)
  PROVE  MarksStep /\ ListInv'
  <1>1. Marks!NewObject(o) \/ \E u \in UpVals : Marks!NewClosure(o, u)
    BY DEF NewObject
  <1>2. MarksStep
    BY <1>1 DEF MarksStep, Marks!Next, Marks!Program
  <1>3. /\ UNCHANGED <<gcstate, allweak, sweepgc, kind, gray, grayagain>>
        /\ list' = [list EXCEPT !["allgc"] = <<o>> \o @]
        /\ color[o] = "free" /\ kind[o] \in Marks!Kind /\ color' = [color EXCEPT ![o] = "white"]
    BY <1>1 DEF NewObject, Marks!NewObject, Marks!NewClosure, Marks!Kind
  <1>4. color'[o] = "white" /\ \A x \in Objects \ {o} : color'[x] = color[x]
    <2>1. color \in [Nodes -> MP!Color] /\ o \in Nodes
      BY DEF CInv, MP!IInv, MP!TypeOK, MP!Nodes, Nodes
    <2> QED BY <1>3, <2>1 DEF Nodes
  <1>5. Listed(list', color') /\ Progress(gcstate, list', color', sweepgc)
    <2>1. "allgc" \in ListNames
      BY DEF ListNames
    <2>2. Listed(list, color) /\ Progress(gcstate, list, color, sweepgc)
      BY DEF CInv, ListInv
    <2>3. Pushes(list, list', color, color', "allgc", o)
      BY <1>3, <1>4 DEF Pushes
    <2> QED BY <1>4, <2>1, <2>2, <2>3, PushKeeps
  <1>6. Kinded'
    <2>1. kind'[o] # None
      BY <1>3, ObjectsAssumption
    <2> QED BY <1>3, <1>4, <2>1 DEF CInv, ListInv, Kinded
  <1>7. GrayKinds'
    BY <1>3, <1>4 DEF CInv, ListInv, GrayKinds, Marking
  <1> QED BY <1>2, <1>3, <1>5, <1>6, <1>7 DEF CInv, ListInv

-----------------------------------------------------------------------------
(* The collector's steps outside of its loops.                             *)

LEMMA RestartKeeps ==
  ASSUME CInv, Restart
  PROVE  MarksStep /\ ListInv'
  <1> DEFINE F == ToSet(list["tobefnz"])
  <1>1. MarksStep
    BY DEF Restart, MarksStep, Marks!Next, Marks!Collect
  <1>2. /\ gcstate = "pause" /\ gcstate' = "propagate"
        /\ UNCHANGED <<kind, list, sweepgc>> /\ allweak' = {} /\ grayagain' = {}
        /\ \A o \in Objects : color'[o] = IF o \in Marks!Whites(F)
                                          THEN IF kind[o] = "userdata" THEN "black" ELSE "gray"
                                          ELSE color[o]
        /\ gray' = {o \in Marks!Whites(F) : kind[o] # "userdata"} \union {Main}
    <2>1. Marks!Restart /\ gcstate' = "propagate" /\ allweak' = {} /\ UNCHANGED <<list, sweepgc>>
      BY DEF Restart
    <2>2. gcstate = "pause"
      BY <2>1 DEF Marks!Restart, CInv, ListInv, States, Sweeping
    <2>3. \A o \in Objects : o # Main /\ o \in Nodes
      BY ObjectsAssumption DEF Nodes
    <2>4. color' = [Marks!Marked(F) EXCEPT ![Main] = "gray"]
      BY <2>1 DEF Marks!Restart
    <2>5. \A o \in Objects : color'[o] = Marks!Marked(F)[o]
      BY <2>3, <2>4 DEF Marks!Marked, Marks!Nodes, Nodes
    <2> HIDE DEF F
    <2>6. \A o \in Objects : Marks!Marked(F)[o] = IF o \in Marks!Whites(F)
                                          THEN IF kind[o] = "userdata" THEN "black" ELSE "gray"
                                          ELSE color[o]
      BY <2>3 DEF Marks!Marked, Marks!Nodes, Nodes
    <2> QED BY <2>1, <2>2, <2>5, <2>6 DEF Marks!Restart, Marks!heap, Marks!ToVisit, F
  <1> HIDE DEF F
  <1>3. \A o \in Objects : color[o] \in {"free", "white"}
    <2>1. \A o \in Objects : color[o] # "free" => color[o] = "white"
      BY <1>2 DEF CInv, MP!IInv, MP!ColorInv, MP!CycleColors, MP!Allocated, Sweeping
    <2> QED BY <2>1
  <1>4. \A o \in Marks!Whites(F) : o \in Objects /\ color[o] = "white"
    BY <1>3 DEF Marks!Whites
  <1>5. \A o \in Objects : color'[o] = "free" <=> color[o] = "free"
    BY <1>2, <1>3, <1>4
  <1>6. Listed(list', color') /\ Kinded'
    BY <1>2, <1>5 DEF CInv, ListInv, Listed, Kinded
  <1>7. Progress(gcstate', list', color', sweepgc') /\ gcstate' \in States
    BY <1>2 DEF Progress, States
  <1>8. GrayKinds'
    BY <1>2, <1>3, <1>4 DEF GrayKinds
  <1> QED BY <1>1, <1>6, <1>7, <1>8 DEF ListInv

LEMMA PropagateKeeps ==
  ASSUME CInv, NEW o \in gray, Propagate(o)
  PROVE  MarksStep /\ ListInv'
  <1> DEFINE V == Marks!Refs(o, Marks!NonWhite, FALSE)
             W == Marks!Whites(Marks!Whites(V))
  <1>1. MarksStep
    BY DEF Propagate, MarksStep, Marks!Next, Marks!Collect
  <1>2. /\ o \in Nodes /\ color[o] = "gray" /\ gray \subseteq Nodes /\ color \in [Nodes -> MP!Color]
        /\ \A x \in Objects : color[x] # "dead"
        /\ gcstate = "propagate"
    <2>1. gcstate = "propagate"
      BY DEF Propagate
    <2>2. MP!KeepInvariant /\ ~Sweeping
      BY <2>1 DEF MP!KeepInvariant, Sweeping
    <2> QED BY <2>1, <2>2 DEF CInv, MP!IInv, MP!ColorInv, MP!GrayListed, MP!CycleColors, MP!TypeOK, MP!Nodes,
              Nodes
  <1>3. \A x \in W : x \in Objects /\ color[x] = "white"
    BY <1>2 DEF Marks!Whites
  <1>4. /\ gcstate' \in {"propagate", "atomic"} /\ UNCHANGED <<kind, list, sweepgc>>
        /\ color' = [Marks!Marked(Marks!Whites(V)) EXCEPT ![o] = IF Marks!StaysGray(o) THEN "gray" ELSE "black"]
        /\ gray' = (gray \ {o}) \union {x \in W : kind[x] # "userdata"}
        /\ grayagain' = IF Marks!VisitAgain(o) THEN grayagain \union {o} ELSE grayagain
        /\ allweak' = IF o # Main /\ kind[o] = "allweak" THEN allweak \union {o} ELSE allweak
    <2>1. /\ Marks!Propagate(o)
          /\ gcstate' \in {"propagate", "atomic"} /\ UNCHANGED <<list, sweepgc>>
          /\ allweak' = IF o # Main /\ kind[o] = "allweak" THEN allweak \union {o} ELSE allweak
      BY DEF Propagate
    <2> QED BY <2>1 DEF Marks!Propagate, Marks!heap, Marks!ToVisit
  <1> HIDE DEF V
  <1>5. /\ \A x \in Nodes \ {o} : color'[x] = IF x \in W
                                          THEN IF kind[x] = "userdata" THEN "black" ELSE "gray"
                                          ELSE color[x]
        /\ color'[o] = IF Marks!StaysGray(o) THEN "gray" ELSE "black"
    <2> HIDE DEF W
    <2>1. Marks!Marked(Marks!Whites(V)) = [x \in Nodes |-> IF x \in W
                                          THEN IF kind[x] = "userdata" THEN "black" ELSE "gray"
                                          ELSE color[x]]
      BY DEF Marks!Marked, Marks!Nodes, Nodes, W
    <2> QED BY <1>2, <1>4, <2>1
  <1> HIDE DEF W
  <1>6. \A x \in Objects : (color'[x] = "free" <=> color[x] = "free") /\ x \in Nodes
    BY <1>2, <1>3, <1>5 DEF Nodes
  <1>7. Listed(list', color') /\ Kinded'
    BY <1>4, <1>6 DEF CInv, ListInv, Listed, Kinded
  <1>8. Progress(gcstate', list', color', sweepgc') /\ gcstate' \in States
    BY <1>4 DEF Progress, States
  <1>9. /\ \A x \in (gray \union grayagain) \ {Main} : kind[x] # "userdata"
        /\ \A x \in allweak : x \in Objects /\ kind[x] = "allweak" /\ color[x] = "gray"
        /\ \A x \in Objects : kind[x] = "allweak" /\ color[x] \in {"gray", "black"} =>
                                x \in gray \union grayagain \union allweak
    <2>1. Marking
      BY <1>2 DEF Marking
    <2>2. GrayKinds
      BY DEF CInv, ListInv
    <2> QED BY <2>1, <2>2 DEF GrayKinds
  <1>10. o # Main /\ kind[o] = "allweak" => Marks!StaysGray(o) /\ o \in Objects
    BY <1>2 DEF Marks!StaysGray, Marks!Weak, Nodes
  <1>11. \A x \in (gray' \union grayagain') \ {Main} : kind'[x] # "userdata"
    <2>1. gray' \subseteq gray \union {x \in W : kind[x] # "userdata"}
          /\ grayagain' \subseteq grayagain \union gray /\ kind' = kind
      BY <1>4
    <2> QED BY <1>9, <2>1
  <1>12. \A x \in allweak' : x \in Objects /\ kind'[x] = "allweak" /\ color'[x] = "gray"
    <2>2. \A x \in allweak : x # Main
      BY <1>9, ObjectsAssumption
    <2> QED BY <1>3, <1>4, <1>5, <1>6, <1>9, <1>10, <2>2
  <1>13. ASSUME NEW x \in Objects, kind'[x] = "allweak", color'[x] \in {"gray", "black"}
         PROVE  x \in gray' \union grayagain' \union allweak'
    <2>1. CASE x = o
      BY <1>4, <1>13, <2>1, ObjectsAssumption
    <2>2. CASE x # o /\ x \in W
      BY <1>4, <1>13, <2>2
    <2>3. CASE x # o /\ x \notin W
      <3>1. color[x] \in {"gray", "black"} /\ kind[x] = "allweak"
        BY <1>4, <1>5, <1>6, <1>13, <2>3
      <3>2. x \in gray \union grayagain \union allweak
        BY <1>9, <3>1
      <3> QED BY <1>4, <2>3, <3>2
    <2> QED BY <2>1, <2>2, <2>3
  <1>14. GrayKinds'
    BY <1>11, <1>12, <1>13 DEF GrayKinds
  <1> QED BY <1>1, <1>7, <1>8, <1>14 DEF ListInv

LEMMA CycleEndKeeps ==
  ASSUME CInv, CycleEnd
  PROVE  MarksStep /\ ListInv'
  <1>1. gcstate = "callfin" /\ gcstate' = "pause"
        /\ UNCHANGED <<heap, stack, color, gray, grayagain, touched, twups, allweak, list, sweepgc>>
    BY DEF CycleEnd
  <1>2. Marks!CycleEnd
    BY <1>1 DEF Marks!CycleEnd, Marks!heap, heap, Sweeping
  <1>3. MarksStep
    BY <1>2 DEF MarksStep, Marks!Next, Marks!Collect
  <1>4. ListInv'
    BY <1>1 DEF CInv, ListInv, Progress, States, Kinded, GrayKinds, Marking, heap
  <1> QED BY <1>3, <1>4

LEMMA SweepEndKeeps ==
  ASSUME CInv, SweepEnd
  PROVE  MarksStep /\ ListInv'
  <1>1. gcstate = "swpend" /\ gcstate' = "callfin" /\ color' = [color EXCEPT ![Main] = "white"]
        /\ UNCHANGED <<heap, stack, gray, grayagain, touched, twups, allweak, list, sweepgc>>
    BY DEF SweepEnd
  <1>2. \A o \in Objects : color[o] # "free" => color[o] = "white"
    BY <1>1 DEF CInv, ListInv, Listed, Progress, Part, White
  <1>3. Marks!SweepEnd
    BY <1>1, <1>2 DEF Marks!SweepEnd, Marks!heap, heap, Sweeping, Marks!Allocated
  <1>4. MarksStep
    BY <1>3 DEF MarksStep, Marks!Next, Marks!Collect
  <1>5. \A o \in Objects : color'[o] = color[o]
    <2>1. \A o \in Objects : o # Main
      BY ObjectsAssumption
    <2> QED BY <1>1, <2>1 DEF CInv, MP!IInv, MP!TypeOK, MP!Nodes
  <1>6. ListInv'
    BY <1>1, <1>5 DEF CInv, ListInv, Listed, Progress, States, Kinded, GrayKinds, Marking, heap
  <1> QED BY <1>4, <1>6

-----------------------------------------------------------------------------
(* Sweeping.                                                               *)

\* Nothing happens to the heap when nothing is freed.
LEMMA FreeNone ==
  ASSUME MP!IInv
  PROVE  Marks!Free({}) <=> UNCHANGED <<key, val, up, at, cell, touched>>
  <1>1. /\ key \in [Objects -> MP!Value] /\ val \in [Objects -> MP!Value]
        /\ up \in [Objects -> UpVals \union {None}]
        /\ at \in [UpVals -> Objects \union {Closed}] /\ cell \in [UpVals -> MP!Value]
        /\ touched \subseteq UpVals
    BY DEF MP!IInv, MP!TypeOK
  <1>2. \A u \in UpVals : Marks!Users(u) = {} => cell[u] = None
    BY DEF MP!IInv, MP!HeapInv, MP!UnusedEmpty, MP!Users, Marks!Users, MP!Allocated, Marks!Allocated
  <1>3. \A f \in [Objects -> MP!Value] \union [Objects -> UpVals \union {None}] : Marks!Emptied(f, {}) = f
    BY DEF Marks!Emptied
  <1>4. Marks!Closing({}) <=> UNCHANGED <<at, cell>>
    <2>1. [u \in UpVals |-> IF at[u] \in {} THEN Closed ELSE at[u]] = at
      BY <1>1
    <2>2. [u \in UpVals |-> IF Marks!Users(u) \subseteq {} THEN None
                            ELSE IF at[u] \in {} THEN val[at[u]] ELSE cell[u]] = cell
      <3>1. \A u \in UpVals : (IF Marks!Users(u) \subseteq {} THEN None
                            ELSE IF at[u] \in {} THEN val[at[u]] ELSE cell[u]) = cell[u]
        BY <1>2
      <3> QED BY <1>1, <3>1
    <2> QED BY <2>1, <2>2 DEF Marks!Closing
  <1>5. {u \in touched : at[u] \notin {}} = touched
    OBVIOUS
  <1> QED BY <1>1, <1>3, <1>4, <1>5 DEF Marks!Free

\* The objects in S are swept and those in W turned white before.
SweptAs(r, S, W) ==
  /\ FreedIn(r.swept) = Marks!Freed(S, color)
  /\ r.swept.color = Marks!Swept(S \union W, color)
  /\ \A m \in ListNames : ToSet(r.swept.list[m]) = ToSet(list[m]) \ Marks!Freed(S, color)

\* What sweeplist does to colors is what sweeping does there.
LEMMA SweepsColors ==
  ASSUME CInv, NEW c, c \in [Nodes -> MP!Color], NEW W \in SUBSET Objects,
         \A o \in Nodes : c[o] = IF o \in W THEN "white" ELSE color[o],
         \A o \in W : color[o] \notin {"free", "dead"},
         NEW s, s.list = list, s.color = c,
         NEW r, NEW l \in ListNames, NEW k \in Nat, NEW Z, Sweeps(s, r, l, k, Z)
  PROVE  \E S \in SUBSET Marks!Unswept : S \subseteq Z /\ SweptAs(r, S, W)
  <1> DEFINE S == (Z \ W) \intersect Marks!Unswept
             D == {o \in Z : c[o] = "dead"}
             d == r.swept.color
  <1>1. Z \subseteq ToSet(list[l])
        /\ d = [o \in Nodes |-> IF o \in D THEN "free" ELSE IF o \in Z THEN "white" ELSE c[o]]
    BY DEF Sweeps
  <1> HIDE DEF d
  <1>2. Z \subseteq Objects /\ \A o \in Z : color[o] # "free"
    <2>1. list[l] \in Seq(Objects)
      BY DEF CInv, ListInv, Listed, Apart
    <2> QED BY <1>1, <2>1, ToSetIs DEF CInv, ListInv, Listed
  <1>3. color \in [Nodes -> MP!Color]
    BY DEF CInv, MP!IInv, MP!TypeOK, MP!Nodes, Nodes
  <1>4. D = Marks!Freed(S, color)
    BY <1>2 DEF Marks!Freed, Marks!Unswept, Nodes
  <1>5. FreedIn(r.swept) = D
    <2>1. \A o \in Objects : d[o] = "free" /\ color[o] # "free" <=> o \in D
      BY <1>1, <1>2, <1>3 DEF Nodes
    <2> QED BY <1>2, <2>1 DEF FreedIn, d
  <1>6. d = Marks!Swept(S \union W, color)
    <2>1. ASSUME NEW o \in Nodes
          PROVE  d[o] = IF o \in S \union W /\ color[o] # "free"
                        THEN IF color[o] = "dead" THEN "free" ELSE "white" ELSE color[o]
      <3>1. CASE o \in W
        BY <1>1, <3>1
      <3>2. CASE o \in Z \ W
        <4>1. color[o] \in {"white", "gray", "black", "dead"}
          BY <1>2, <1>3, <3>2 DEF MP!Color
        <4>2. o \in S <=> color[o] # "white"
          BY <1>2, <3>2, <4>1 DEF Marks!Unswept
        <4> HIDE DEF S
        <4> QED BY <1>1, <3>2, <4>1, <4>2
      <3>3. CASE o \notin Z \union W
        BY <1>1, <3>3
      <3> QED BY <3>1, <3>2, <3>3
    <2> QED BY <1>1, <2>1 DEF Marks!Swept, Marks!Nodes, Nodes
  <1>7. \A m \in ListNames : ToSet(r.swept.list[m]) = ToSet(list[m]) \ D
    <2>1. \A m \in ListNames \ {l} : r.swept.list[m] = list[m] /\ ToSet(list[m]) \intersect D = {}
      BY <1>1 DEF Sweeps, CInv, ListInv, Listed, Apart
    <2>2. ToSet(r.swept.list[l]) = ToSet(list[l]) \ D
      BY DEF Sweeps
    <2> QED BY <2>1, <2>2
  <1>8. S \in SUBSET Marks!Unswept /\ S \subseteq Z
    OBVIOUS
  <1> HIDE DEF S, D
  <1> QED BY <1>4, <1>5, <1>6, <1>7, <1>8 DEF d, SweptAs

\* What is to be finalized is not dead.
LEMMA FinLive ==
  ASSUME MP!IInv
  PROVE  /\ \A o \in stack : o \in Objects /\ color[o] \notin {"free", "dead"}
         /\ \A m \in {"finobj", "tobefnz"} : \A o \in ToSet(list[m]) : color[o] # "dead"
  BY DEF MP!IInv, MP!HeapInv, MP!NoDangling, MP!Live

\* The state a list is swept in, and how far that has come.
SweepIn(g, l, next, place) ==
  \/ g = "swpallgc" /\ l = "allgc" /\ next = "swpfinobj" /\ place = "finobj"
  \/ g = "swpfinobj" /\ l = "finobj" /\ next = "swptobefnz" /\ place = "tobefnz"
  \/ g = "swptobefnz" /\ l = "tobefnz" /\ next = "swpend" /\ place = "NULL"

\* What is known in the phase that sweeps list l.
LEMMA ProgressIn ==
  ASSUME NEW L, NEW c, NEW g, NEW l, NEW next, NEW place, SweepIn(g, l, next, place)
  PROVE  /\ l \in ListNames /\ g \in States /\ next \in States
         /\ \A p : Progress(g, L, c, p) => Part(L, c, l, p)
         /\ \A p, M, d, q : /\ Progress(g, L, c, p) /\ Part(M, d, l, q)
                            /\ \A m \in ListNames \ {l} : Part(L, c, m, "NULL") => Part(M, d, m, "NULL")
                            => Progress(g, M, d, q)
         /\ \A p : Progress(g, L, c, p) /\ Part(L, c, l, "NULL") => Progress(next, L, c, place)
  <1>1. l \in ListNames /\ g \in States /\ next \in States
    BY DEF SweepIn, ListNames, States
  <1>2. \A p : Progress(g, L, c, p) => Part(L, c, l, p)
    BY DEF SweepIn, Progress
  <1>3. \A p, M, d, q : /\ Progress(g, L, c, p) /\ Part(M, d, l, q)
                        /\ \A m \in ListNames \ {l} : Part(L, c, m, "NULL") => Part(M, d, m, "NULL")
                        => Progress(g, M, d, q)
    BY DEF SweepIn, Progress, ListNames
  <1>4. Part(L, c, "finobj", "finobj") /\ Part(L, c, "tobefnz", "tobefnz")
    BY DEF Part, IsAt, White, Upto
  <1>5. \A p : Progress(g, L, c, p) /\ Part(L, c, l, "NULL") => Progress(next, L, c, place)
    BY <1>4 DEF SweepIn, Progress, ListNames
  <1> QED BY <1>1, <1>2, <1>3, <1>5

\* sweepstep is Tricolour's Sweep, or enters the next phase.
LEMMA SweepStepKeeps ==
  ASSUME CInv, NEW g, NEW l, NEW next, NEW place, SweepIn(g, l, next, place),
         SweepStep(g, next, place)
  PROVE  MarksStep /\ ListInv'
  <1> DEFINE r == IF sweepgc = "NULL" THEN [swept |-> State, p |-> "NULL"]
                  ELSE SweepList(State, sweepgc, SweepMax)
  <1>1. /\ gcstate = g /\ Become(r.swept) /\ Marks!Free(FreedIn(r.swept))
        /\ IF r.p # "NULL" THEN sweepgc' = r.p /\ UNCHANGED gcstate
           ELSE sweepgc' = place /\ gcstate' = next
        /\ UNCHANGED <<kind, stack, gray, grayagain, twups, allweak, full>>
    BY DEF SweepStep
  <1>2. /\ Listed(list, color) /\ Progress(g, list, color, sweepgc) /\ Part(list, color, l, sweepgc)
        /\ l \in ListNames
    <2>1. Listed(list, color) /\ Progress(g, list, color, sweepgc)
      BY <1>1 DEF CInv, ListInv
    <2> QED BY <2>1, ProgressIn
  <1>3. Sweeping /\ Sweeping' /\ ~Marking /\ ~Marking'
    BY <1>1 DEF SweepIn, Sweeping, Marking
  <1>4. color \in [Nodes -> MP!Color]
    BY DEF CInv, MP!IInv, MP!TypeOK, MP!Nodes, Nodes
  <1>5. \E S \in SUBSET Marks!Unswept :
          /\ SweptAs(r, S, {})
          /\ Listed(r.swept.list, r.swept.color)
          /\ Part(r.swept.list, r.swept.color, l, r.p)
          /\ \A m \in ListNames \ {l} :
               Part(list, color, m, "NULL") => Part(r.swept.list, r.swept.color, m, "NULL")
    <2>1. CASE sweepgc = "NULL"
      <3>1. r.swept.list = list /\ r.swept.color = color /\ r.p = "NULL"
        BY <2>1 DEF State
      <3>2. FreedIn(r.swept) = {} /\ Marks!Freed({}, color) = {}
        BY <3>1 DEF FreedIn, Marks!Freed
      <3>3. Marks!Swept({} \union {}, color) = color
        BY <1>4 DEF Marks!Swept, Marks!Nodes, Nodes
      <3> HIDE DEF r
      <3>4. SweptAs(r, {}, {})
        BY <3>1, <3>2, <3>3 DEF SweptAs
      <3> QED BY <1>2, <2>1, <3>1, <3>4
    <2>2. CASE sweepgc # "NULL"
      <3>1. PICK k \in Nat : IsAt(list, l, sweepgc, k) /\ White(color, Upto(list[l], k))
        BY <1>2, <2>2 DEF Part
      <3>2. r = SweepList(State, sweepgc, SweepMax) /\ SweepMax \in Nat
            /\ State.list = list /\ State.color = color
        BY <2>2, SweepMaxAssumption DEF State
      <3> DEFINE s == State
      <3>3. s.list = list /\ s.color = color
        BY <3>2
      <3> HIDE DEF s, r
      <3>4. \E Z : Sweeps(s, SweepList(s, sweepgc, SweepMax), l, k, Z)
        BY <1>2, <2>2, <3>1, <3>2, <3>3, SweepListIs DEF Listed
      <3>5. PICK Z : Sweeps(s, r, l, k, Z)
        BY <3>2, <3>4 DEF s
      <3>6. /\ Listed(r.swept.list, r.swept.color)
            /\ Part(r.swept.list, r.swept.color, l, r.p)
            /\ StayWhite(s.color, r.swept.color)
            /\ \A m \in ListNames \ {l} : r.swept.list[m] = s.list[m]
        BY <1>2, <3>1, <3>3, <3>5, SweepsKeeps
      <3>7. \A m \in ListNames \ {l} :
               Part(list, color, m, "NULL") => Part(r.swept.list, r.swept.color, m, "NULL")
        BY <1>2, <3>3, <3>6, PartSame DEF Listed
      <3>8. PICK S \in SUBSET Marks!Unswept : SweptAs(r, S, {})
        <4>1. \A o \in Nodes : color[o] = IF o \in {} THEN "white" ELSE color[o]
          OBVIOUS
        <4>2. {} \in SUBSET Objects /\ \A o \in {} : color[o] \notin {"free", "dead"}
          OBVIOUS
        <4>3. \A W \in SUBSET Objects :
                W = {} => \E S \in SUBSET Marks!Unswept : S \subseteq Z /\ SweptAs(r, S, W)
          BY <1>2, <1>4, <3>1, <3>3, <3>5, SweepsColors
        <4> QED BY <4>2, <4>3
      <3> QED BY <3>6, <3>7, <3>8
    <2> QED BY <2>1, <2>2
  <1> HIDE DEF r
  <1>6. PICK S \in SUBSET Marks!Unswept :
          /\ SweptAs(r, S, {})
          /\ Listed(r.swept.list, r.swept.color)
          /\ Part(r.swept.list, r.swept.color, l, r.p)
          /\ \A m \in ListNames \ {l} :
               Part(list, color, m, "NULL") => Part(r.swept.list, r.swept.color, m, "NULL")
    BY <1>5
  <1>7. /\ Listed(list', color') /\ Part(list', color', l, r.p)
        /\ color' = Marks!Swept(S, color) /\ Marks!Free(Marks!Freed(S, color))
        /\ \A m \in ListNames : ToSet(list'[m]) = ToSet(list[m]) \ Marks!Freed(S, color)
        /\ \A m \in ListNames \ {l} : Part(list, color, m, "NULL") => Part(list', color', m, "NULL")
    BY <1>1, <1>6 DEF Become, SweptAs
  <1>8. Progress(gcstate', list', color', sweepgc') /\ gcstate' \in States
    <2>4. \A p, M, d, q : /\ Progress(g, list, color, p) /\ Part(M, d, l, q)
                          /\ \A m \in ListNames \ {l} : Part(list, color, m, "NULL") => Part(M, d, m, "NULL")
                          => Progress(g, M, d, q)
      BY ProgressIn
    <2>1. Progress(g, list', color', r.p)
      BY <1>2, <1>7, <2>4
    <2>2. r.p = "NULL" => Progress(next, list', color', place)
      BY <1>7, <2>1, ProgressIn
    <2>3. g \in States /\ next \in States
      BY ProgressIn
    <2> QED BY <1>1, <2>1, <2>2, <2>3
  <1>9. Kinded' /\ GrayKinds'
    <2>1. \A o \in Objects : color'[o] # "free" => color[o] # "free"
      BY <1>7 DEF Marks!Swept, Marks!Nodes, Nodes
    <2>2. kind' = kind /\ Kinded
      BY <1>1 DEF CInv, ListInv
    <2> QED BY <1>3, <2>1, <2>2 DEF Kinded, GrayKinds
  <1>10. MarksStep
    <2>1. \A m \in {"finobj", "tobefnz"} : ToSet(list'[m]) = ToSet(list[m])
      BY <1>7, FinLive DEF CInv, Marks!Freed, ListNames
    <2>2. CASE S # {}
      <3>1. Marks!Sweep(S)
        BY <1>1, <1>3, <1>7, <2>1 DEF Marks!Sweep
      <3> QED BY <2>2, <3>1 DEF MarksStep, Marks!Next, Marks!Collect
    <2>3. CASE S = {}
      <3>1. Marks!Freed(S, color) = {} /\ color' = color
        BY <1>4, <1>7, <2>3 DEF Marks!Freed, Marks!Swept, Marks!Nodes, Nodes
      <3>2. UNCHANGED <<key, val, up, at, cell, touched>>
        BY <1>7, <3>1, FreeNone DEF CInv
      <3> QED BY <1>1, <1>3, <2>1, <3>1, <3>2 DEF MarksStep, Marks!vars
    <2> QED BY <2>2, <2>3
  <1> QED BY <1>8, <1>7, <1>9, <1>10 DEF ListInv

\* A list without repetitions is as long as its set is large.
LEMMA Count ==
  ASSUME NEW q \in Seq(Objects), IsInjective(q)
  PROVE  IsFiniteSet(ToSet(q)) /\ Cardinality(ToSet(q)) = Len(q)
  <1>1. /\ ToSet(q) = {q[m] : m \in 1..Len(q)} /\ Len(q) \in Nat /\ q \in [1..Len(q) -> Objects]
        /\ \A m, n \in 1..Len(q) : q[m] = q[n] => m = n
    BY ToSetIs, InjectiveIs
  <1>2. q \in Surjection(1..Len(q), ToSet(q)) /\ q \in Injection(1..Len(q), ToSet(q))
    BY <1>1 DEF Surjection, Injection
  <1>3. IsFiniteSet(1..Len(q)) /\ Cardinality(1..Len(q)) = Len(q)
    BY <1>1, FS_Interval
  <1>4. IsFiniteSet(ToSet(q)) /\ Cardinality(ToSet(q)) = Cardinality(1..Len(q))
    BY <1>2, <1>3, FS_Surjection
  <1> QED BY <1>3, <1>4

\* So the bound on objects with finalizers means the same in both modules.
LEMMA Finalizers ==
  ASSUME Apart(list)
  PROVE  LET f == list["finobj"]
             b == list["tobefnz"]
         IN  /\ ToSet(f \o b) = ToSet(f) \union ToSet(b)
             /\ Cardinality(ToSet(f) \union ToSet(b)) = Len(f) + Len(b)
  <1> DEFINE f == list["finobj"]
             b == list["tobefnz"]
  <1>1. /\ f \in Seq(Objects) /\ IsInjective(f) /\ b \in Seq(Objects) /\ IsInjective(b)
        /\ ToSet(f) \intersect ToSet(b) = {}
    BY DEF Apart, ListNames
  <1> HIDE DEF f, b
  <1>2. ToSet(f \o b) = ToSet(f) \union ToSet(b)
    <2>1. f \o b \in Seq(Objects) /\ Joins(f \o b, f, b, Len(f)) /\ Len(f) \in Nat /\ Len(b) \in Nat
      BY <1>1, Concat
    <2>2. /\ ToSet(f) = {f[m] : m \in 1..Len(f)} /\ ToSet(b) = {b[m] : m \in 1..Len(b)}
      BY <1>1, ToSetIs
    <2> DEFINE c == f \o b
    <2>3. c \in Seq(Objects) /\ Joins(c, f, b, Len(f))
      BY <2>1
    <2> HIDE DEF c
    <2>4. ToSet(c) = {c[m] : m \in 1..Len(c)} /\ Len(c) = Len(f) + Len(b)
      BY <2>3, ToSetIs DEF Joins
    <2>5. ASSUME NEW m \in 1..Len(c) PROVE c[m] \in ToSet(f) \union ToSet(b)
      <3>1. CASE m \in 1..Len(f)
        BY <2>2, <2>3, <3>1 DEF Joins
      <3>2. CASE m \notin 1..Len(f)
        <4>1. m - Len(f) \in 1..Len(b) /\ Len(f) + (m - Len(f)) = m
          BY <2>1, <2>4, <3>2
        <4>2. c[m] = b[m - Len(f)]
          BY <2>3, <4>1 DEF Joins
        <4> QED BY <2>2, <4>1, <4>2
      <3> QED BY <3>1, <3>2
    <2>6. ASSUME NEW m \in 1..Len(f) PROVE f[m] \in ToSet(c)
      <3>1. m \in 1..Len(c)
        BY <2>1, <2>4
      <3> QED BY <2>3, <2>4, <3>1 DEF Joins
    <2>7. ASSUME NEW m \in 1..Len(b) PROVE b[m] \in ToSet(c)
      <3>1. Len(f) + m \in 1..Len(c)
        BY <2>1, <2>4
      <3> QED BY <2>3, <2>4, <3>1 DEF Joins
    <2>8. ToSet(c) = ToSet(f) \union ToSet(b)
      BY <2>2, <2>4, <2>5, <2>6, <2>7
    <2> QED BY <2>8 DEF c
  <1>3. Cardinality(ToSet(f) \union ToSet(b)) = Len(f) + Len(b)
    <2>1. /\ IsFiniteSet(ToSet(f)) /\ Cardinality(ToSet(f)) = Len(f)
          /\ IsFiniteSet(ToSet(b)) /\ Cardinality(ToSet(b)) = Len(b)
          /\ Len(f) \in Nat /\ Len(b) \in Nat
      BY <1>1, Count
    <2>2. Cardinality(ToSet(f) \intersect ToSet(b)) = 0
      BY <1>1, FS_EmptySet
    <2>3. Cardinality(ToSet(f) \union ToSet(b)) =
            Cardinality(ToSet(f)) + Cardinality(ToSet(b)) - Cardinality(ToSet(f) \intersect ToSet(b))
      BY <2>1, FS_Union
    <2> QED BY <2>1, <2>2, <2>3
  <1> QED BY <1>2, <1>3 DEF f, b

\* An object moves from one list to the head of another.
Moves(L, M, a, b, o) ==
  /\ M \in [ListNames -> Seq(Objects)]
  /\ IsInjective(M[a]) /\ ToSet(M[a]) = ToSet(L[a]) \ {o}
  /\ M[b] = <<o>> \o L[b]
  /\ \A m \in ListNames \ {a, b} : M[m] = L[m]

\* An object that moves from list to list is still in one.
LEMMA MoveKeeps ==
  ASSUME NEW L, NEW M, NEW c, NEW d, Listed(L, c), NEW a \in ListNames, NEW b \in ListNames, a # b,
         NEW o \in ToSet(L[a]), Moves(L, M, a, b, o),
         \A x \in Objects : d[x] = "free" <=> c[x] = "free"
  PROVE  Listed(M, d) /\ o \in Objects /\ ToSet(M[b]) = ToSet(L[b]) \union {o}
  <1>1. /\ \A m \in ListNames : L[m] \in Seq(Objects) /\ IsInjective(L[m])
        /\ \A m, n \in ListNames : m # n => ToSet(L[m]) \intersect ToSet(L[n]) = {}
        /\ \A x \in Objects : (\E m \in ListNames : x \in ToSet(L[m])) <=> c[x] # "free"
    BY DEF Listed, Apart
  <1>2. o \in Objects /\ \A m \in ListNames \ {a} : o \notin ToSet(L[m])
    <2>1. ToSet(L[a]) \subseteq Objects
      BY <1>1, ToSetIs
    <2> QED BY <1>1, <2>1
  <1>3. ToSet(M[b]) = ToSet(L[b]) \union {o} /\ IsInjective(M[b])
    <2> DEFINE q == L[b]
    <2>1. q \in Seq(Objects) /\ o \notin ToSet(q) /\ IsInjective(q)
      BY <1>1, <1>2
    <2>3. M[b] = <<o>> \o q
      BY DEF Moves
    <2> HIDE DEF q
    <2>2. ToSet(<<o>> \o q) = ToSet(q) \union {o} /\ IsInjective(<<o>> \o q)
      BY <1>2, <2>1, PushIs
    <2> QED BY <2>2, <2>3 DEF q
  <1>4. \A m \in ListNames : IsInjective(M[m])
    BY <1>1, <1>3 DEF Moves
  <1>5. \A m, n \in ListNames : m # n => ToSet(M[m]) \intersect ToSet(M[n]) = {}
    <2>1. ToSet(M[a]) \subseteq ToSet(L[a]) \ {o} /\ ToSet(M[b]) \subseteq ToSet(L[b]) \union {o}
          /\ \A m \in ListNames \ {a, b} : ToSet(M[m]) = ToSet(L[m])
      BY <1>3 DEF Moves
    <2> SUFFICES ASSUME NEW m \in ListNames, NEW n \in ListNames, m # n, NEW x \in ToSet(M[m]),
                        x \in ToSet(M[n])
                 PROVE  FALSE
      OBVIOUS
    <2>2. CASE x = o
      <3>1. \A k \in ListNames : o \in ToSet(M[k]) => k = b
        BY <1>2, <2>1
      <3> QED BY <2>2, <3>1
    <2>3. CASE x # o
      <3>1. \A k \in ListNames : x \in ToSet(M[k]) => x \in ToSet(L[k])
        BY <2>1, <2>3
      <3> QED BY <1>1, <3>1
    <2> QED BY <2>2, <2>3
  <1>6. Apart(M)
    BY <1>4, <1>5 DEF Apart, Moves
  <1>7. ASSUME NEW x \in Objects PROVE (\E m \in ListNames : x \in ToSet(M[m])) <=> d[x] # "free"
    <2>1. (\E m \in ListNames : x \in ToSet(M[m])) <=> (\E m \in ListNames : x \in ToSet(L[m]))
      <3>1. CASE x = o
        BY <1>3, <3>1
      <3>2. CASE x # o
        BY <1>3, <3>2 DEF Moves
      <3> QED BY <3>1, <3>2
    <2> QED BY <1>1, <2>1
  <1>8. Listed(M, d)
    BY <1>6, <1>7 DEF Listed
  <1> QED BY <1>2, <1>3, <1>8 DEF Moves

\* What sweeping is to go on after.
Astray == Sweeping /\ CallFinalizer /\ sweepgc = Head(list["tobefnz"])

\* udata2finalize takes tobefnz's first object, which sweepgc must not point to.
LEMMA CallFinalizerKeeps ==
  ASSUME CInv, CallFinalizer, ~Astray
  PROVE  MarksStep /\ ListInv'
  <1> DEFINE q == list["tobefnz"]
             o == Head(q)
  <1>1. /\ gcstate # "pause" /\ q # <<>>
        /\ list' = [list EXCEPT !["tobefnz"] = Tail(@), !["allgc"] = <<o>> \o @]
        /\ stack' = stack \union {o}
        /\ color' = IF Sweeping THEN [color EXCEPT ![o] = "white"] ELSE color
        /\ UNCHANGED <<heap, gray, grayagain, touched, twups, gcstate, allweak, sweepgc, full>>
    BY DEF CallFinalizer
  <1>2. Sweeping => sweepgc # o
    BY DEF Astray
  <1>3. Listed(list, color) /\ Apart(list) /\ list \in [ListNames -> Seq(Objects)]
        /\ "tobefnz" \in ListNames /\ "allgc" \in ListNames
        /\ q \in Seq(Objects) /\ IsInjective(q)
    BY DEF CInv, ListInv, Listed, Apart, ListNames
  <1>4. /\ o \in ToSet(q) /\ Tail(q) \in Seq(Objects)
        /\ ToSet(Tail(q)) = ToSet(q) \ {o} /\ IsInjective(Tail(q))
    <2> HIDE DEF q
    <2> QED BY <1>1, <1>3, PopIs
  <1>5. o \in Objects
    BY <1>3, <1>4, ToSetIs
  <1>6. list'["tobefnz"] = Tail(q) /\ list'["allgc"] = <<o>> \o list["allgc"]
        /\ list'["finobj"] = list["finobj"] /\ list' \in [ListNames -> Seq(Objects)]
    <2>1. <<o>> \o list["allgc"] \in Seq(Objects)
      BY <1>3, <1>5
    <2> HIDE DEF o, q
    <2> QED BY <1>1, <1>3, <1>4, <2>1 DEF ListNames, q
  <1> HIDE DEF o, q
  <1>7. color' \in [Nodes -> MP!Color]
        /\ \A x \in Objects : color'[x] = IF x = o /\ Sweeping THEN "white" ELSE color[x]
    <2>1. color \in [Nodes -> MP!Color] /\ o \in Nodes
      BY <1>5 DEF CInv, MP!IInv, MP!TypeOK, MP!Nodes, Nodes
    <2> QED BY <1>1, <2>1 DEF Nodes, MP!Color
  <1>8. color[o] # "free"
    BY <1>3, <1>4, <1>5 DEF Listed, q
  <1>9. Listed(list', color') /\ o \notin ToSet(list["allgc"])
    <2>1. Moves(list, list', "tobefnz", "allgc", o)
      BY <1>4, <1>6 DEF Moves, ListNames, q
    <2>2. \A x \in Objects : color'[x] = "free" <=> color[x] = "free"
      BY <1>7, <1>8
    <2>3. o \in ToSet(list["tobefnz"])
      BY <1>4 DEF q
    <2>4. Listed(list', color')
      BY <1>3, <2>1, <2>2, <2>3, MoveKeeps
    <2>5. o \notin ToSet(list["allgc"])
      BY <1>3, <2>3 DEF Apart
    <2> QED BY <2>4, <2>5
  <1>10. Progress(gcstate', list', color', sweepgc') /\ gcstate' \in States
    <2>0. gcstate \in States /\ Progress(gcstate, list, color, sweepgc)
      BY DEF CInv, ListInv
    <2>1. CASE ~Sweeping
      BY <1>1, <2>0, <2>1 DEF Sweeping, Progress
    <2>2. CASE Sweeping
      <3>1. StayWhite(color, color')
        BY <1>7 DEF StayWhite
      <3>2. ASSUME NEW l \in ListNames, NEW p \in {sweepgc, "NULL"}, Part(list, color, l, p)
            PROVE  Part(list', color', l, p)
        <4>1. CASE l = "allgc"
          BY <1>3, <1>5, <1>6, <1>7, <1>9, <2>2, <3>1, <3>2, <4>1, PartPush
        <4>2. CASE l = "tobefnz"
          <5>1. Head(list["tobefnz"]) # p
            BY <1>2, <1>5, <2>2, NamesAssumption DEF o, q
          <5> QED BY <1>1, <1>3, <1>6, <3>1, <3>2, <4>2, <5>1, PartPop DEF q
        <4>3. CASE l = "finobj"
          BY <1>3, <1>6, <3>1, <3>2, <4>3, PartSame
        <4> QED BY <4>1, <4>2, <4>3 DEF ListNames
      <3>3. Progress(gcstate, list', color', sweepgc)
        BY <2>0, <3>2, ProgressKept
      <3> QED BY <1>1, <2>0, <3>3
    <2> QED BY <2>1, <2>2
  <1>11. Kinded' /\ GrayKinds'
    <2>1. kind' = kind
      BY <1>1 DEF heap
    <2>2. Kinded'
      BY <1>7, <1>8, <2>1 DEF CInv, ListInv, Kinded
    <2>3. GrayKinds'
      BY <1>1, <1>7, <2>1 DEF CInv, ListInv, GrayKinds, Marking, Sweeping
    <2> QED BY <2>2, <2>3
  <1>12. Marks!CallFinalizer(o)
    <2>1. o \in ToSet(list["tobefnz"]) /\ ToSet(list'["tobefnz"]) = ToSet(list["tobefnz"]) \ {o}
          /\ list'["finobj"] = list["finobj"]
      BY <1>4, <1>6 DEF q
    <2>2. (IF Sweeping THEN "sweep" ELSE gcstate) # "pause"
      BY <1>1
    <2>3. (IF Sweeping THEN "sweep" ELSE gcstate) = "sweep" <=> Sweeping
      BY DEF CInv, ListInv, States, Sweeping
    <2> QED BY <1>1, <2>1, <2>2, <2>3 DEF Marks!CallFinalizer, Marks!heap, heap, Sweeping
  <1>13. MarksStep
    BY <1>4, <1>12 DEF MarksStep, Marks!Next, Marks!Collect, q
  <1> QED BY <1>9, <1>10, <1>11, <1>13 DEF ListInv

\* luaC_checkfinalizer has swept the objects in S when it links the object.
Rests(r, S, o) ==
  /\ S \in SUBSET Marks!Unswept /\ (~Sweeping => S = {})
  /\ Marks!Free(FreedIn(r.swept)) => Marks!Free(Marks!Freed(S, color))
  /\ r.swept.color = IF Sweeping THEN Marks!Swept(S \union {o}, color) ELSE color
  /\ Listed(r.swept.list, r.swept.color)
  /\ Progress(gcstate, r.swept.list, r.swept.color, r.p)
  /\ o \in ToSet(r.swept.list["allgc"]) /\ (Sweeping => r.p # o)
  /\ \A m \in {"finobj", "tobefnz"} : r.swept.list[m] = list[m]

TurnedWhite(o) == IF Sweeping THEN [State EXCEPT !.color[o] = "white"] ELSE State
Result(o) == IF Sweeping /\ sweepgc = o THEN SweepToLive(TurnedWhite(o), o)
             ELSE [swept |-> TurnedWhite(o), p |-> sweepgc]

\* luaC_checkfinalizer turns the object white and moves sweepgc away from it, if need be.
LEMMA CheckFinalizerRests ==
  ASSUME CInv, NEW o \in stack, MayFinalize(o)
  PROVE  \E S : Rests(Result(o), S, o)
  <1> DEFINE white == TurnedWhite(o)
             r == Result(o)
  <1>0. /\ white = IF Sweeping THEN [State EXCEPT !.color[o] = "white"] ELSE State
        /\ r = IF Sweeping /\ sweepgc = o THEN SweepToLive(white, o)
               ELSE [swept |-> white, p |-> sweepgc]
    BY DEF TurnedWhite, Result
  <1> SUFFICES \E S : Rests(r, S, o)
    OBVIOUS
  <1> HIDE DEF white, r
  <1>1. o \in Objects /\ color[o] \notin {"free", "dead"} /\ color \in [Nodes -> MP!Color] /\ o \in Nodes
    BY FinLive DEF CInv, MP!IInv, MP!TypeOK, MP!Nodes, Nodes
  <1>2. Listed(list, color) /\ Progress(gcstate, list, color, sweepgc) /\ gcstate \in States
    BY DEF CInv, ListInv
  <1>3. o \in ToSet(list["allgc"]) /\ \A m \in {"finobj", "tobefnz"} : o \notin ToSet(list[m])
    <2>1. \A m \in {"finobj", "tobefnz"} : o \notin ToSet(list[m])
      BY <1>2, Finalizers DEF MayFinalize, Listed
    <2> QED BY <1>1, <1>2, <2>1 DEF Listed, ListNames
  <1>4. "allgc" \in ListNames
    BY DEF ListNames
  <1>5. CASE ~Sweeping
    <2>1. r.swept.list = list /\ r.swept.color = color /\ r.p = sweepgc
      BY <1>0, <1>5 DEF State
    <2>2. FreedIn(r.swept) = {} /\ Marks!Freed({}, color) = {}
      BY <2>1 DEF FreedIn, Marks!Freed
    <2>3. Rests(r, {}, o)
      BY <1>2, <1>3, <1>5, <2>1, <2>2 DEF Rests
    <2> QED BY <2>3
  <1>6. ASSUME Sweeping
        PROVE  /\ white.list = list /\ white.color \in [Nodes -> MP!Color]
               /\ \A x \in Nodes : white.color[x] = IF x \in {o} THEN "white" ELSE color[x]
               /\ Listed(list, white.color) /\ StayWhite(color, white.color)
               /\ Progress(gcstate, list, white.color, sweepgc)
    <2>1. white = [State EXCEPT !.color[o] = "white"]
      BY <1>0, <1>6
    <2>2. white.list = list /\ white.color = [color EXCEPT ![o] = "white"]
      BY <2>1 DEF State
    <2>3. /\ white.color \in [Nodes -> MP!Color]
          /\ \A x \in Nodes : white.color[x] = IF x \in {o} THEN "white" ELSE color[x]
      BY <1>1, <2>2 DEF MP!Color
    <2>4. Listed(list, white.color) /\ StayWhite(color, white.color)
      BY <1>1, <1>2, <2>3 DEF Listed, StayWhite, Nodes
    <2>5. Progress(gcstate, list, white.color, sweepgc)
      <3>1. \A l \in ListNames, q \in {sweepgc, "NULL"} :
              Part(list, color, l, q) => Part(list, white.color, l, q)
        BY <1>2, <2>4, PartSame DEF Listed
      <3> QED BY <1>2, <3>1, ProgressKept
    <2> QED BY <2>2, <2>3, <2>4, <2>5
  <1>7. CASE Sweeping /\ sweepgc # o
    <2>1. r.swept = white /\ r.p = sweepgc
      BY <1>0, <1>7
    <2>2. FreedIn(r.swept) = {} /\ Marks!Freed({}, color) = {}
      <3>1. \A x \in Objects : white.color[x] = "free" => color[x] = "free"
        BY <1>6, <1>7 DEF Nodes
      <3> QED BY <2>1, <3>1 DEF FreedIn, Marks!Freed
    <2>3. white.color = Marks!Swept({} \union {o}, color)
      BY <1>1, <1>6, <1>7 DEF Marks!Swept, Marks!Nodes, Nodes
    <2>4. Rests(r, {}, o)
      BY <1>2, <1>3, <1>6, <1>7, <2>1, <2>2, <2>3 DEF Rests
    <2> QED BY <2>4
  <1>8. CASE Sweeping /\ sweepgc = o
    <2>1. r = SweepToLive(white, o)
      BY <1>0, <1>8
    <2>2. gcstate = "swpallgc"
      <3>0. o \notin ListNames /\ o # "NULL"
        BY <1>1, NamesAssumption
      <3>1. ASSUME NEW l \in ListNames, Part(list, color, l, o) PROVE l = "allgc"
        <4>1. PICK k \in Nat : IsAt(list, l, o, k)
          BY <3>0, <3>1 DEF Part
        <4>2. k \in 1..Len(list[l]) /\ list[l][k] = o
          BY <3>0, <4>1 DEF IsAt
        <4>3. o \in ToSet(list[l])
          <5>1. list[l] \in Seq(Objects)
            BY <1>2 DEF Listed, Apart
          <5> QED BY <4>2, <5>1, ToSetIs
        <4> QED BY <1>3, <4>3 DEF ListNames
      <3> QED BY <1>2, <1>8, <3>0, <3>1 DEF Progress, States, Sweeping, ListNames
    <2>3. Part(list, white.color, "allgc", o)
      BY <1>6, <1>8, <2>2 DEF Progress
    <2>4. PICK k \in Nat : IsAt(list, "allgc", o, k) /\ White(white.color, Upto(list["allgc"], k))
      BY <1>1, <2>3, NamesAssumption DEF Part
    <2>5. Apart(white.list) /\ Listed(white.list, white.color) /\ IsAt(white.list, "allgc", o, k)
          /\ White(white.color, Upto(white.list["allgc"], k))
      BY <1>6, <1>8, <2>4 DEF Listed
    <2>6. (\E Z : Sweeps(white, r, "allgc", k, Z)) /\ r.p # o
      BY <1>1, <1>4, <2>1, <2>5, SweepToLiveIs
    <2>7. PICK Z : Sweeps(white, r, "allgc", k, Z)
      BY <2>6
    <2>8. /\ Listed(r.swept.list, r.swept.color)
          /\ Part(r.swept.list, r.swept.color, "allgc", r.p)
          /\ \A m \in ListNames \ {"allgc"} : r.swept.list[m] = white.list[m]
      <3> DEFINE l == "allgc"
      <3>1. /\ l \in ListNames /\ Listed(white.list, white.color) /\ Sweeps(white, r, l, k, Z)
            /\ White(white.color, Upto(white.list[l], k))
        BY <1>4, <2>5, <2>7
      <3> HIDE DEF l
      <3>2. /\ Listed(r.swept.list, r.swept.color)
            /\ Part(r.swept.list, r.swept.color, l, r.p)
            /\ \A m \in ListNames \ {l} : r.swept.list[m] = white.list[m]
        BY <3>1, SweepsKeeps
      <3> QED BY <3>2 DEF l
    <2>9. \E S \in SUBSET Marks!Unswept : S \subseteq Z /\ SweptAs(r, S, {o})
      <3>1. {o} \in SUBSET Objects /\ \A x \in {o} : color[x] \notin {"free", "dead"}
        BY <1>1
      <3> DEFINE c == white.color
                 W == {o}
                 l == "allgc"
      <3>2. c \in [Nodes -> MP!Color] /\ (\A x \in Nodes : c[x] = IF x \in W THEN "white" ELSE color[x])
            /\ white.list = list /\ white.color = c /\ W \in SUBSET Objects
            /\ (\A x \in W : color[x] \notin {"free", "dead"})
            /\ l \in ListNames /\ Sweeps(white, r, l, k, Z)
        BY <1>4, <1>6, <1>8, <2>7, <3>1
      <3> HIDE DEF c, W, l
      <3>3. \E S \in SUBSET Marks!Unswept : S \subseteq Z /\ SweptAs(r, S, W)
        BY <3>2, SweepsColors
      <3> QED BY <3>3 DEF W
    <2>10. PICK S \in SUBSET Marks!Unswept : SweptAs(r, S, {o})
      BY <2>9
    <2>11. o \in ToSet(r.swept.list["allgc"])
      BY <1>1, <1>3, <1>4, <2>10 DEF SweptAs, Marks!Freed
    <2>12. Progress(gcstate, r.swept.list, r.swept.color, r.p)
      BY <2>2, <2>8 DEF Progress
    <2>13. \A m \in {"finobj", "tobefnz"} : r.swept.list[m] = list[m]
      BY <1>6, <1>8, <2>8 DEF ListNames
    <2>14. Rests(r, S, o)
      BY <1>8, <2>6, <2>8, <2>10, <2>11, <2>12, <2>13 DEF Rests, SweptAs
    <2> QED BY <2>14
  <1> QED BY <1>5, <1>7, <1>8

LEMMA SweptRecord ==
  ASSUME NEW s, NEW p, NEW n
  PROVE  LET w == SweepList(s, p, n).swept IN w = [list |-> w.list, color |-> w.color]
  BY DEF SweepList

\* luaC_checkfinalizer is Tricolour's SetFinalizer.
LEMMA CheckFinalizerKeeps ==
  ASSUME CInv, NEW o \in stack, CheckFinalizer(o)
  PROVE  MarksStep /\ ListInv'
  <1> DEFINE white == TurnedWhite(o)
             r == Result(o)
  <1>1. /\ MayFinalize(o)
        /\ list' = ToFinobj(r.swept.list, o) /\ color' = r.swept.color
        /\ sweepgc' = r.p
        /\ Marks!Free(FreedIn(r.swept))
        /\ UNCHANGED <<kind, stack, gray, grayagain, twups, gcstate, allweak, full>>
    <2>1. CheckFinalizer(o) <=>
          /\ MayFinalize(o)
          /\ Become([r.swept EXCEPT !.list = ToFinobj(@, o)])
          /\ sweepgc' = r.p
          /\ Marks!Free(FreedIn(r.swept))
          /\ UNCHANGED <<kind, stack, gray, grayagain, twups, gcstate, allweak, full>>
      BY DEF CheckFinalizer, TurnedWhite, Result
    <2> DEFINE w == r.swept
    <2>2. w = [list |-> w.list, color |-> w.color]
      <3>1. State = [list |-> State.list, color |-> State.color]
        BY DEF State
      <3>2. white = [list |-> white.list, color |-> white.color]
        BY <3>1 DEF TurnedWhite
      <3>3. w = white \/ \E n : w = SweepList(white, o, n).swept
        BY DEF SweepToLive, Result
      <3> HIDE DEF white, w
      <3> QED BY <3>2, <3>3, SweptRecord
    <2> HIDE DEF w
    <2>3. Become([w EXCEPT !.list = ToFinobj(@, o)]) =>
          list' = ToFinobj(w.list, o) /\ color' = w.color
      BY <2>2 DEF Become
    <2> QED BY <2>1, <2>3 DEF w
  <1>2. PICK S : Rests(r, S, o)
    BY <1>1, CheckFinalizerRests
  <1> DEFINE L == r.swept.list
             d == r.swept.color
             p == r.p
  <1>3. /\ S \in SUBSET Marks!Unswept /\ (~Sweeping => S = {})
        /\ Marks!Free(Marks!Freed(S, color))
        /\ d = IF Sweeping THEN Marks!Swept(S \union {o}, color) ELSE color
        /\ Listed(L, d)
        /\ Progress(gcstate, L, d, p)
        /\ o \in ToSet(L["allgc"]) /\ (Sweeping => p # o)
        /\ \A m \in {"finobj", "tobefnz"} : L[m] = list[m]
    BY <1>1, <1>2 DEF Rests
  <1>4. MayFinalize(o) /\ list' = ToFinobj(L, o) /\ color' = d /\ sweepgc' = p
        /\ UNCHANGED <<kind, stack, gray, grayagain, twups, gcstate, allweak, full>>
    BY <1>1
  <1> HIDE DEF L, d, p, r
  <1>5. /\ \A m \in ListNames : L[m] \in Seq(Objects) /\ IsInjective(L[m])
        /\ L \in [ListNames -> Seq(Objects)] /\ Apart(L)
        /\ \A m \in {"finobj", "tobefnz"} : o \notin ToSet(L[m])
        /\ "allgc" \in ListNames /\ "finobj" \in ListNames /\ "tobefnz" \in ListNames
    BY <1>3 DEF Listed, Apart, ListNames
  <1>6. o \in Objects
    BY FinLive DEF CInv
  <1>7. /\ list'["allgc"] = Without(L["allgc"], {o}) /\ list'["finobj"] = <<o>> \o L["finobj"]
        /\ list'["tobefnz"] = L["tobefnz"]
        /\ list' \in [ListNames -> Seq(Objects)]
        /\ IsInjective(list'["allgc"]) /\ ToSet(list'["allgc"]) = ToSet(L["allgc"]) \ {o}
    <2>1. \A q \in Seq(Objects) : <<o>> \o q \in Seq(Objects)
      BY <1>6
    <2> DEFINE q == L["allgc"]
               a == Without(q, {o})
               b == <<o>> \o L["finobj"]
    <2>2. q \in Seq(Objects) /\ IsInjective(q) /\ b \in Seq(Objects)
      BY <1>5, <2>1
    <2>3. a \in Seq(Objects) /\ ToSet(a) = ToSet(q) \ {o} /\ IsInjective(a)
      <3> HIDE DEF q
      <3> QED BY <2>2, WithoutSet
    <2>4. list' = [L EXCEPT !["allgc"] = a, !["finobj"] = b]
      BY <1>4 DEF ToFinobj
    <2> HIDE DEF a, b, q
    <2>5. list'["allgc"] = a /\ list'["finobj"] = b /\ list'["tobefnz"] = L["tobefnz"]
          /\ list' \in [ListNames -> Seq(Objects)]
      BY <1>5, <2>2, <2>3, <2>4 DEF ListNames
    <2> QED BY <2>3, <2>5 DEF a, b, q
  <1>8. Listed(list', color') /\ ToSet(list'["finobj"]) = ToSet(list["finobj"]) \union {o}
    <2>1. Moves(L, list', "allgc", "finobj", o)
      BY <1>7 DEF Moves, ListNames
    <2>3. \A x \in Objects : color'[x] = "free" <=> d[x] = "free"
      BY <1>4
    <2>4. Listed(L, d) /\ o \in ToSet(L["allgc"])
      BY <1>3
    <2>2. Listed(list', color') /\ ToSet(list'["finobj"]) = ToSet(L["finobj"]) \union {o}
      <3> DEFINE a == "allgc"
                 b == "finobj"
      <3>1. a \in ListNames /\ b \in ListNames /\ a # b /\ Moves(L, list', a, b, o) /\ o \in ToSet(L[a])
        BY <1>5, <2>1, <2>4
      <3> HIDE DEF a, b
      <3>2. Listed(list', color') /\ ToSet(list'[b]) = ToSet(L[b]) \union {o}
        BY <2>3, <2>4, <3>1, MoveKeeps
      <3> QED BY <3>2 DEF b
    <2> QED BY <1>3, <2>2
  <1>9. Progress(gcstate', list', color', sweepgc') /\ gcstate' \in States
    <2>0. gcstate \in States
      BY DEF CInv, ListInv
    <2>1. CASE ~Sweeping
      BY <1>4, <2>0, <2>1 DEF Sweeping, Progress
    <2>2. CASE Sweeping
      <3>0. d[o] = "white" /\ p # o /\ "NULL" # o
        <4>1. color[o] \notin {"free", "dead"}
          BY FinLive DEF CInv
        <4> QED BY <1>3, <1>6, <2>2, <4>1, NamesAssumption DEF Marks!Swept, Marks!Nodes
      <3>1. StayWhite(d, d)
        BY DEF StayWhite
      <3>2. ASSUME NEW l \in ListNames, NEW x \in {p, "NULL"}, Part(L, d, l, x)
            PROVE  Part(list', d, l, x)
        <4>1. CASE l = "allgc"
          BY <1>5, <1>7, <3>0, <3>1, <3>2, <4>1, PartWithout
        <4>2. CASE l = "finobj"
          BY <1>5, <1>6, <1>7, <3>0, <3>1, <3>2, <4>2, PartPush
        <4>3. CASE l = "tobefnz"
          BY <1>5, <1>7, <3>1, <3>2, <4>3, PartSame
        <4> QED BY <4>1, <4>2, <4>3 DEF ListNames
      <3>3. Progress(gcstate, list', d, p)
        BY <1>3, <3>2, ProgressKept
      <3> QED BY <1>4, <2>0, <3>3
    <2> QED BY <2>1, <2>2
  <1>10. Kinded' /\ GrayKinds'
    <2>1. \A x \in Objects : color'[x] # "free" => color[x] # "free"
      BY <1>3, <1>4 DEF Marks!Swept, Marks!Nodes, Nodes
    <2>2. Kinded'
      BY <1>4, <2>1 DEF CInv, ListInv, Kinded
    <2>3. GrayKinds'
      BY <1>3, <1>4 DEF CInv, ListInv, GrayKinds, Marking, Sweeping
    <2> QED BY <2>2, <2>3
  <1>11. Marks!SetFinalizer(o, S)
    <2>1. /\ kind[o] \in Marks!Weak \union {"table", "userdata"}
          /\ o \notin ToSet(list["finobj"]) \union ToSet(list["tobefnz"])
          /\ Marks!Cardinality(ToSet(list["finobj"]) \union ToSet(list["tobefnz"])) < MaxFin
      <3>1. Apart(list)
        BY DEF CInv, ListInv, Listed
      <3>2. ToSet(list["finobj"] \o list["tobefnz"]) = ToSet(list["finobj"]) \union ToSet(list["tobefnz"])
            /\ Cardinality(ToSet(list["finobj"]) \union ToSet(list["tobefnz"]))
                 = Len(list["finobj"]) + Len(list["tobefnz"])
        BY <3>1, Finalizers
      <3>3. \A T : Cardinality(T) = Marks!Cardinality(T)
        BY DEF Cardinality, Marks!Cardinality
      <3> QED BY <1>4, <3>2, <3>3 DEF MayFinalize
    <2>2. ToSet(list'["tobefnz"]) = ToSet(list["tobefnz"])
      BY <1>3, <1>7
    <2>3. (IF Sweeping THEN "sweep" ELSE gcstate) = "sweep" <=> Sweeping
      BY DEF CInv, ListInv, States, Sweeping
    <2>4. IF Sweeping THEN color' = Marks!Swept(S \union {o}, color) /\ Marks!Free(Marks!Freed(S, color))
          ELSE UNCHANGED <<color, key, val, up, at, cell, touched>>
      <3>1. CASE ~Sweeping
        <4>1. Marks!Freed(S, color) = {}
          BY <1>3, <3>1 DEF Marks!Freed
        <4> QED BY <1>3, <1>4, <3>1, <4>1, FreeNone DEF CInv
      <3> QED BY <1>3, <1>4, <3>1
    <2>5. (Sweeping' <=> Sweeping) /\ gcstate' = gcstate
      BY <1>4 DEF Sweeping
    <2> QED BY <1>3, <1>4, <1>8, <2>1, <2>2, <2>3, <2>4, <2>5 DEF Marks!SetFinalizer
  <1>12. MarksStep
    BY <1>3, <1>11 DEF MarksStep, Marks!Next, Marks!Program
  <1> QED BY <1>8, <1>9, <1>10, <1>12 DEF ListInv

\* entersweep sweeps an object at most.
Entered(s, r, S) ==
  /\ S \in Marks!AtMostOne
  /\ r.swept.color = Marks!Swept(S, s.color)
  /\ \A o \in Objects : r.swept.color[o] = "free" /\ s.color[o] # "free" <=> o \in Marks!Freed(S, s.color)
  /\ Listed(r.swept.list, r.swept.color)
  /\ Part(r.swept.list, r.swept.color, "allgc", r.p)
  /\ \A m \in ListNames : ToSet(r.swept.list[m]) = ToSet(s.list[m]) \ Marks!Freed(S, s.color)

\* entersweep stops at the first live object; what it passes is white.
LEMMA EnterSweepIs ==
  ASSUME NEW s, Listed(s.list, s.color)
  PROVE  \E S : Entered(s, SweepList(s, "allgc", 1), S)
  <1> DEFINE l == "allgc"
             r == SweepList(s, l, 1)
             c == s.color
  <1>1. l \in ListNames /\ l # "NULL" /\ IsAt(s.list, l, l, 0) /\ White(c, Upto(s.list[l], 0))
        /\ Apart(s.list)
    BY NamesAssumption DEF ListNames, IsAt, White, Upto, Listed
  <1> HIDE DEF l, r, c
  <1>2. PICK Z : Sweeps(s, r, l, 0, Z) /\ \E o : Z \subseteq {o}
    <2>1. \E Z : Sweeps(s, SweepList(s, l, 1), l, 0, Z) /\ (1 = 1 => \E o : Z \subseteq {o})
      BY <1>1, SweepListIs
    <2> QED BY <2>1 DEF r
  <1>3. /\ Listed(r.swept.list, r.swept.color)
        /\ Part(r.swept.list, r.swept.color, l, r.p)
    BY <1>1, <1>2, SweepsKeeps DEF c
  <1>4. /\ Z \subseteq ToSet(s.list[l])
        /\ r.swept.color = [o \in Nodes |-> IF o \in Marks!Freed(Z, c) THEN "free"
                                            ELSE IF o \in Z THEN "white" ELSE c[o]]
        /\ ToSet(r.swept.list[l]) = ToSet(s.list[l]) \ Marks!Freed(Z, c)
        /\ \A m \in ListNames : m # l => r.swept.list[m] = s.list[m]
    BY <1>2 DEF Sweeps, Marks!Freed, c
  <1>5. Z \subseteq Objects /\ \A o \in Z : c[o] # "free"
    <2>1. s.list[l] \in Seq(Objects)
      BY <1>1 DEF Apart
    <2> QED BY <1>1, <1>4, <2>1, ToSetIs DEF Listed, c
  <1>6. Z \in Marks!AtMostOne
    BY <1>2, <1>5 DEF Marks!AtMostOne
  <1>7. r.swept.color = Marks!Swept(Z, c)
    BY <1>4, <1>5 DEF Marks!Swept, Marks!Nodes, Nodes, Marks!Freed
  <1>8. \A o \in Objects : r.swept.color[o] = "free" /\ c[o] # "free" <=> o \in Marks!Freed(Z, c)
    BY <1>4, <1>5 DEF Nodes, Marks!Freed
  <1>9. \A m \in ListNames : ToSet(r.swept.list[m]) = ToSet(s.list[m]) \ Marks!Freed(Z, c)
    <2>1. Marks!Freed(Z, c) \subseteq ToSet(s.list[l])
      BY <1>4 DEF Marks!Freed
    <2>2. \A m \in ListNames : m # l => ToSet(s.list[m]) \intersect ToSet(s.list[l]) = {}
      BY <1>1 DEF Apart
    <2> QED BY <1>4, <2>1, <2>2
  <1>10. Entered(s, r, Z)
    BY <1>3, <1>6, <1>7, <1>8, <1>9 DEF Entered, c, l
  <1> QED BY <1>10 DEF r, l

\* luaC_fullgc's entersweep is Tricolour's Abandon.
LEMMA FullGCKeeps ==
  ASSUME CInv, FullGC
  PROVE  MarksStep /\ ListInv'
  <1>1. CASE ~Marking
    <2>1. UNCHANGED <<color, gray, grayagain, allweak, list, gcstate, sweepgc, heap, stack, touched, twups>>
      BY <1>1 DEF FullGC, Marking
    <2>2. MarksStep
      BY <2>1 DEF MarksStep, Marks!vars, heap, Sweeping
    <2>3. ListInv'
      BY <2>1 DEF CInv, ListInv, Kinded, GrayKinds, Marking, heap
    <2> QED BY <2>2, <2>3
  <1>2. CASE Marking
    <2> DEFINE r == SweepList(State, "allgc", 1)
    <2>1. /\ Become(r.swept) /\ sweepgc' = r.p /\ gcstate' = "swpallgc"
          /\ gray' = {} /\ grayagain' = {} /\ allweak' = {}
          /\ UNCHANGED <<heap, stack, touched, twups>>
      BY <1>2 DEF FullGC, EnterSweep, Marking
    <2>2. State.list = list /\ State.color = color /\ Listed(list, color)
      BY DEF State, CInv, ListInv
    <2>3. PICK S : Entered(State, r, S)
      BY <2>2, EnterSweepIs
    <2> HIDE DEF r
    <2>4. /\ S \in Marks!AtMostOne /\ color' = Marks!Swept(S, color)
          /\ Listed(list', color') /\ Part(list', color', "allgc", sweepgc')
          /\ \A m \in ListNames : ToSet(list'[m]) = ToSet(list[m]) \ Marks!Freed(S, color)
      BY <2>1, <2>2, <2>3 DEF Entered, Become
    <2>5. \A o \in Objects : color[o] # "dead"
      BY <1>2 DEF CInv, MP!IInv, MP!ColorInv, MP!CycleColors, Marking, Sweeping
    <2>6. Marks!Freed(S, color) = {}
      BY <2>4, <2>5 DEF Marks!Freed, Marks!AtMostOne
    <2>7. Marks!Abandon
      <3>1. ToSet(list'["finobj"]) = ToSet(list["finobj"]) /\ ToSet(list'["tobefnz"]) = ToSet(list["tobefnz"])
        BY <2>4, <2>6 DEF ListNames
      <3>2. Marks!KeepInvariant /\ Sweeping'
        BY <1>2, <2>1 DEF Marks!KeepInvariant, Marking, Sweeping
      <3> QED BY <2>1, <2>4, <3>1, <3>2 DEF Marks!Abandon, Marks!heap, heap
    <2>8. MarksStep
      BY <2>7 DEF MarksStep, Marks!Next, Marks!Collect
    <2>9. Progress(gcstate', list', color', sweepgc') /\ gcstate' \in States
      BY <2>1, <2>4 DEF Progress, States
    <2>10. Kinded' /\ GrayKinds'
      <3>1. \A o \in Objects : color'[o] # "free" => color[o] # "free"
        BY <2>4 DEF Marks!Swept, Marks!Nodes, Nodes
      <3>2. Kinded'
        BY <2>1, <3>1 DEF CInv, ListInv, Kinded, heap
      <3>3. GrayKinds'
        BY <2>1 DEF GrayKinds, Marking
      <3> QED BY <3>2, <3>3
    <2> QED BY <2>4, <2>8, <2>9, <2>10 DEF ListInv
  <1> QED BY <1>1, <1>2

-----------------------------------------------------------------------------
(* The records of the atomic step.                                         *)

Value == Objects \union {None}
Work ==
  [color : [Nodes -> MP!Color], key : [Objects -> Value], val : [Objects -> Value],
   gray : SUBSET Nodes, grayagain : SUBSET Nodes, weak : SUBSET Objects,
   ephemeron : SUBSET Objects, allweak : SUBSET Objects, touched : SUBSET UpVals,
   twups : SUBSET Objects, next : SUBSET Objects, changed : BOOLEAN]

NW(h) == {o \in Nodes : h.color[o] \in {"gray", "black"}}
ToMark(h, V) == {v \in V : IsWhite(h, v)}
SameLists(h, m) ==
  /\ m.weak = h.weak /\ m.ephemeron = h.ephemeron /\ m.allweak = h.allweak
SameRest(h, m) ==
  /\ m.key = h.key /\ m.val = h.val /\ m.next = h.next /\ m.changed = h.changed
MarkedIn(h, m, V) ==
  /\ \A x \in Nodes : m.color[x] = IF x \notin ToMark(h, V) THEN h.color[x]
                                   ELSE IF kind[x] = "userdata" THEN "black" ELSE "gray"
  /\ m.gray = h.gray \union {v \in ToMark(h, V) : kind[v] # "userdata"}
  /\ SameLists(h, m) /\ SameRest(h, m)
  /\ m.grayagain = h.grayagain /\ m.touched = h.touched /\ m.twups = h.twups

\* reallymarkobject, in the record that the atomic step works on.
LEMMA MarkInIs ==
  ASSUME NEW h \in Work, NEW V \in SUBSET Value
  PROVE  MarkIn(h, V) \in Work /\ MarkedIn(h, MarkIn(h, V), V)
  <1> DEFINE W == ToMark(h, V)
             c == [o \in Nodes |-> IF o \notin W THEN h.color[o]
                                   ELSE IF kind[o] = "userdata" THEN "black" ELSE "gray"]
             g == h.gray \union {v \in W : kind[v] # "userdata"}
  <1>1. MarkIn(h, V) = [h EXCEPT !.color = c, !.gray = g]
    BY DEF MarkIn, ToMark, Work
  <1>2. W \subseteq Objects
    BY DEF ToMark, IsWhite, Value
  <1> HIDE DEF W
  <1>3. c \in [Nodes -> MP!Color] /\ g \in SUBSET Nodes
    BY <1>2 DEF Work, MP!Color, Nodes
  <1>4. \A x \in Nodes : c[x] = IF x \notin W THEN h.color[x]
                                ELSE IF kind[x] = "userdata" THEN "black" ELSE "gray"
    OBVIOUS
  <1> DEFINE m == [h EXCEPT !.color = c, !.gray = g]
  <1> HIDE DEF c
  <1>5. g = h.gray \union {v \in W : kind[v] # "userdata"}
    OBVIOUS
  <1> HIDE DEF g
  <1>6. m \in Work
    BY <1>3 DEF Work
  <1>7. m.color = c /\ m.gray = g /\ SameLists(h, m) /\ SameRest(h, m)
        /\ m.grayagain = h.grayagain /\ m.touched = h.touched /\ m.twups = h.twups
    BY DEF Work, SameLists, SameRest
  <1> HIDE DEF m
  <1>8. MarkedIn(h, m, V)
    BY <1>4, <1>5, <1>7 DEF MarkedIn, W
  <1> QED BY <1>1, <1>6, <1>8 DEF m

-----------------------------------------------------------------------------
(* Traversing an object.                                                   *)

Alive == {o \in Objects : color[o] # "free"}
IsA(o, k) == o # Main /\ kind[o] = k

\* What the atomic step relies on: what is allocated refers to what is allocated.
Sound ==
  /\ key \in [Objects -> Value] /\ val \in [Objects -> Value]
  /\ up \in [Objects -> UpVals \union {None}] /\ at \in [UpVals -> Objects \union {Closed}]
  /\ cell \in [UpVals -> Value] /\ stack \subseteq Alive
  /\ \A o \in Alive : /\ kind[o] \in Marks!Kind
                      /\ key[o] \in Alive \union {None} /\ val[o] \in Alive \union {None}
                      /\ up[o] # None => Marks!Read(up[o]) \in Alive \union {None}
  /\ \A u \in UpVals : at[u] = Closed \/ (at[u] \in Alive /\ kind[at[u]] = "thread")
  /\ color[Main] = "gray"
  /\ \A o \in Objects : color[o] # "dead"

\* While marking, what a traversal reads is alive.
LEMMA SoundIs ==
  ASSUME CInv, Marking
  PROVE  Sound
  <1>1. \A o \in Objects : color[o] # "dead"
    BY DEF CInv, MP!IInv, MP!ColorInv, MP!CycleColors, Marking, Sweeping
  <1>2. MP!Live = Alive
    BY <1>1 DEF MP!Live, Alive
  <1>3. MP!KeepInvariant
    BY DEF MP!KeepInvariant, Marking, Sweeping
  <1>4. color[Main] = "gray"
    BY <1>3 DEF CInv, MP!IInv, MP!ColorInv, MP!GrayNodes
  <1>5. MP!TypeOK /\ MP!NoDangling /\ MP!OpenAllocated
    BY DEF CInv, MP!IInv, MP!HeapInv
  <1>6. \A o \in Alive : kind[o] \in Marks!Kind
    BY <1>5 DEF CInv, ListInv, Kinded, Alive, MP!TypeOK, MP!Kind, Marks!Kind
  <1>7. stack \subseteq Alive
        /\ \A o \in Alive : /\ key[o] \in Alive \union {None} /\ val[o] \in Alive \union {None}
                            /\ up[o] # None => Marks!Read(up[o]) \in Alive \union {None}
    BY <1>2, <1>5 DEF MP!NoDangling, MP!ReadsLive, MP!Read, Marks!Read
  <1>8. \A u \in UpVals : at[u] = Closed \/ (at[u] \in Alive /\ kind[at[u]] = "thread")
    BY <1>5 DEF MP!TypeOK, MP!OpenAllocated, MP!Allocated, MP!Threads, Alive
  <1> QED BY <1>1, <1>4, <1>5, <1>6, <1>7, <1>8 DEF Sound, MP!TypeOK, MP!Value, Value

\* The colors of a record differ from those of the state in what is marked.
Frame(h) ==
  /\ h \in Work
  /\ \A x \in Nodes : (h.color[x] = "free" <=> color[x] = "free") /\ h.color[x] # "dead"
Known(h, o) ==
  /\ o \in Objects => h.key[o] = key[o] /\ h.val[o] = val[o]
  /\ \A x \in Objects : kind[x] = "thread" => h.val[x] = val[x]

Visit(h, m, o, V) ==
  /\ m \in Work
  /\ \A x \in Nodes : m.color[x] = IF x = o THEN IF Marks!StaysGray(o) THEN "gray" ELSE "black"
                                   ELSE IF x \notin ToMark(h, V) THEN h.color[x]
                                   ELSE IF kind[x] = "userdata" THEN "black" ELSE "gray"
  /\ m.gray = h.gray \union {v \in ToMark(h, V) : kind[v] # "userdata"}
  /\ SameRest(h, m)
VisitRefs(h, o, V, i) ==
  /\ V \in SUBSET Value
  /\ V \ {None} \subseteq Marks!Refs(o, NW(h), i)
  /\ ~IsA(o, "ephemeron") => Marks!Refs(o, NW(h), i) \subseteq V
VisitWeak(h, m, o) ==
  /\ m.weak \in {h.weak, h.weak \union {o}}
  /\ m.weak # h.weak => IsA(o, "weakv")
  /\ IsA(o, "weakv") => o \in m.weak \/ val[o] \in NW(m) \union {None}
VisitEphemeron(h, m, o) ==
  /\ m.ephemeron \in {h.ephemeron, h.ephemeron \union {o}}
  /\ m.ephemeron # h.ephemeron => IsA(o, "ephemeron")
  /\ IsA(o, "ephemeron") => /\ o \in m.ephemeron \/ val[o] \in NW(m) \union {None}
                            /\ o \in m.ephemeron \union m.allweak \/ key[o] \in NW(m) \union {None}
VisitAllweak(h, m, o) ==
  /\ m.allweak \in {h.allweak, h.allweak \union {o}}
  /\ m.allweak # h.allweak => IsA(o, "allweak")
                              \/ (IsA(o, "ephemeron") /\ val[o] \in NW(m) \union {None})
  /\ IsA(o, "allweak") => o \in m.allweak
VisitLists(h, m, o) == VisitWeak(h, m, o) /\ VisitEphemeron(h, m, o) /\ VisitAllweak(h, m, o)
VisitThreads(h, m, o, i) ==
  /\ m.grayagain = IF o = Main \/ IsA(o, "thread") THEN h.grayagain \union {o} ELSE h.grayagain
  /\ m.touched = IF i THEN h.touched ELSE h.touched \union Marks!OpenOf({o})
  /\ m.twups = IF i /\ IsA(o, "thread") /\ Marks!OpenIn(o) # {}
               THEN h.twups \union {o} ELSE h.twups
Visits(h, m, o, i) ==
  \E V : Visit(h, m, o, V) /\ VisitRefs(h, o, V, i) /\ VisitLists(h, m, o) /\ VisitThreads(h, m, o, i)

\* What a record says of a value that is not white.
LEMMA Marked1 ==
  ASSUME Sound, NEW h, Frame(h), NEW v \in Alive \union {None}, ~IsWhite(h, v)
  PROVE  v \in NW(h) \union {None}
  BY DEF Frame, Work, MP!Color, IsWhite, NW, Alive, Nodes

\* A traversal marks objects, and no other nodes.
LEMMA VisitFrame ==
  ASSUME NEW h, NEW m, Frame(h), NEW o \in Nodes, o \in NW(h), NEW V \in SUBSET Value,
         Visit(h, m, o, V)
  PROVE  Frame(m) /\ NW(m) = NW(h) \union ToMark(h, V) /\ ToMark(h, V) \subseteq Objects
         /\ ToMark(h, V) \intersect NW(h) = {}
  <1>1. ToMark(h, V) \subseteq Objects /\ \A v \in ToMark(h, V) : h.color[v] = "white"
    BY DEF ToMark, IsWhite, Value
  <1>2. /\ m \in Work
        /\ \A x \in Nodes : m.color[x] = IF x = o THEN IF Marks!StaysGray(o) THEN "gray" ELSE "black"
                                   ELSE IF x \notin ToMark(h, V) THEN h.color[x]
                                   ELSE IF kind[x] = "userdata" THEN "black" ELSE "gray"
    BY DEF Visit
  <1>3. \A x \in Nodes : h.color[x] # "dead" /\ (h.color[x] = "free" <=> color[x] = "free")
    BY DEF Frame
  <1>4. \A x \in Nodes : x \in NW(h) <=> h.color[x] \in {"gray", "black"}
    BY DEF NW
  <1> DEFINE W == ToMark(h, V)
  <1> HIDE DEF W
  <1>5. W \subseteq Objects /\ W \subseteq Nodes /\ \A v \in W : h.color[v] = "white"
    BY <1>1 DEF W, Nodes
  <1>6. \A x \in Nodes : m.color[x] = IF x = o THEN IF Marks!StaysGray(o) THEN "gray" ELSE "black"
                                   ELSE IF x \notin W THEN h.color[x]
                                   ELSE IF kind[x] = "userdata" THEN "black" ELSE "gray"
    BY <1>2 DEF W
  <1>7. ASSUME NEW x \in Nodes
        PROVE  /\ m.color[x] = "free" <=> color[x] = "free"
               /\ m.color[x] # "dead"
               /\ m.color[x] \in {"gray", "black"} <=> x \in NW(h) \/ x \in W
    BY <1>3, <1>4, <1>5, <1>6
  <1>8. Frame(m)
    BY <1>2, <1>7 DEF Frame
  <1>9. NW(m) = NW(h) \union W
    <2>1. NW(h) \subseteq Nodes
      BY DEF NW
    <2> QED BY <1>5, <1>7, <2>1 DEF NW
  <1>10. W \intersect NW(h) = {}
    BY <1>5 DEF NW
  <1> QED BY <1>5, <1>8, <1>9, <1>10 DEF W

-----------------------------------------------------------------------------
(* The kinds.  o has left the gray list when it is traversed.              *)

Ready(h, o) ==
  /\ Frame(h) /\ Known(h, o)
  /\ o \in NW(h) /\ o \in Nodes /\ h.color[o] = "gray"

LEMMA ReadyIs ==
  ASSUME Sound, NEW h, NEW o, Ready(h, o)
  PROVE  /\ h \in Work /\ o \in Nodes /\ h.color[o] = "gray"
         /\ o # Main => /\ o \in Objects /\ o \in Alive /\ h.key[o] = key[o] /\ h.val[o] = val[o]
                        /\ key[o] \in Alive \union {None} /\ val[o] \in Alive \union {None}
                        /\ key[o] \in Value /\ val[o] \in Value
                        /\ kind[o] \in Marks!Kind
  <1>1. h \in Work /\ o \in Nodes /\ h.color[o] = "gray" /\ Frame(h)
    BY DEF Ready, Frame
  <1> SUFFICES ASSUME o # Main
               PROVE /\ o \in Objects /\ o \in Alive /\ h.key[o] = key[o] /\ h.val[o] = val[o]
                     /\ key[o] \in Alive \union {None} /\ val[o] \in Alive \union {None}
                     /\ key[o] \in Value /\ val[o] \in Value
                     /\ kind[o] \in Marks!Kind
    BY <1>1
  <1>2. o \in Objects
    BY <1>1 DEF Nodes
  <1>3. o \in Alive
    BY <1>1, <1>2 DEF Frame, Alive
  <1>4. h.key[o] = key[o] /\ h.val[o] = val[o]
    BY <1>2 DEF Ready, Known
  <1> QED BY <1>2, <1>3, <1>4 DEF Sound

\* Marking the values in V after o has turned the color it keeps.
LEMMA MarkVisit ==
  ASSUME NEW h \in Work, NEW o \in Nodes, h.color[o] = "gray", NEW V \in SUBSET Value,
         NEW b \in Work, b = [h EXCEPT !.color[o] = IF Marks!StaysGray(o) THEN "gray" ELSE "black"]
  PROVE  /\ Visit(h, MarkIn(b, V), o, V) /\ SameLists(h, MarkIn(b, V))
         /\ LET m == MarkIn(b, V)
            IN  m.grayagain = h.grayagain /\ m.touched = h.touched /\ m.twups = h.twups
  <1> DEFINE m == MarkIn(b, V)
             e == IF Marks!StaysGray(o) THEN "gray" ELSE "black"
  <1>1. m \in Work /\ MarkedIn(b, m, V)
    BY MarkInIs
  <1> HIDE DEF m
  <1>2. /\ b.gray = h.gray /\ SameLists(h, b) /\ SameRest(h, b)
        /\ b.grayagain = h.grayagain /\ b.touched = h.touched /\ b.twups = h.twups
    BY DEF SameLists, SameRest, Work
  <1>3. h.color \in [Nodes -> MP!Color] /\ b.color = [h.color EXCEPT ![o] = e]
    BY DEF Work
  <1>4. \A x \in Nodes : b.color[x] = IF x = o THEN e ELSE h.color[x]
    BY <1>3
  <1>5. ToMark(b, V) = ToMark(h, V) /\ o \notin ToMark(h, V)
    <2>1. \A v \in V : v = None \/ v \in Nodes
      BY DEF Value, Nodes
    <2>2. \A v \in V : IsWhite(b, v) <=> IsWhite(h, v)
      BY <1>4, <2>1 DEF IsWhite
    <2> QED BY <2>2 DEF ToMark, IsWhite
  <1> HIDE DEF e
  <1>6. Visit(h, m, o, V)
    <2>1. \A x \in Nodes : m.color[x] = IF x = o THEN e
                                   ELSE IF x \notin ToMark(h, V) THEN h.color[x]
                                   ELSE IF kind[x] = "userdata" THEN "black" ELSE "gray"
      BY <1>1, <1>4, <1>5 DEF MarkedIn
    <2>2. m.gray = h.gray \union {v \in ToMark(h, V) : kind[v] # "userdata"}
      BY <1>1, <1>2, <1>5 DEF MarkedIn
    <2>3. SameRest(h, m)
      BY <1>1, <1>2 DEF MarkedIn, SameRest
    <2> QED BY <1>1, <2>1, <2>2, <2>3 DEF Visit, e
  <1>7. SameLists(h, m) /\ m.grayagain = h.grayagain /\ m.touched = h.touched /\ m.twups = h.twups
    BY <1>1, <1>2 DEF MarkedIn, SameLists
  <1> QED BY <1>6, <1>7 DEF m

LEMMA StayVisit ==
  ASSUME NEW h \in Work, NEW o \in Nodes, h.color[o] = "gray", NEW V \in SUBSET Value,
         Marks!StaysGray(o)
  PROVE  /\ Visit(h, MarkIn(h, V), o, V) /\ SameLists(h, MarkIn(h, V))
         /\ LET m == MarkIn(h, V)
            IN  m.grayagain = h.grayagain /\ m.touched = h.touched /\ m.twups = h.twups
  <1>1. h = [h EXCEPT !.color[o] = IF Marks!StaysGray(o) THEN "gray" ELSE "black"]
    <2>1. h.color = [h.color EXCEPT ![o] = "gray"]
      BY DEF Work
    <2> QED BY <2>1 DEF Work
  <1> QED BY <1>1, MarkVisit

LEMMA VisitSame ==
  ASSUME NEW h, NEW m, NEW o, NEW V, Visit(h, m, o, V), NEW w \in Work,
         w.color = m.color, w.gray = m.gray, SameRest(m, w)
  PROVE  Visit(h, w, o, V) /\ NW(w) = NW(m)
  BY DEF Visit, SameRest, NW

LEMMA StaysGrayIs ==
  ASSUME NEW o
  PROVE  Marks!StaysGray(o) <=> o = Main \/ IsA(o, "thread") \/ IsA(o, "weakv")
                                \/ IsA(o, "ephemeron") \/ IsA(o, "allweak")
  BY DEF Marks!StaysGray, IsA, Marks!Weak

\* What propagatemark does by the kind of the object: the main thread,
LEMMA MainVisits ==
  ASSUME Sound, NEW h, Ready(h, Main), NEW i \in BOOLEAN
  PROVE  Visits(h, [MarkIn(h, stack) EXCEPT !.grayagain = @ \union {Main}], Main, i)
  <1> DEFINE m == MarkIn(h, stack)
             w == [m EXCEPT !.grayagain = @ \union {Main}]
  <1>1. h \in Work /\ Main \in Nodes /\ h.color[Main] = "gray" /\ stack \in SUBSET Value
    BY ReadyIs DEF Sound, Alive, Value, Nodes, Ready
  <1>2. Visit(h, m, Main, stack) /\ SameLists(h, m)
        /\ m.grayagain = h.grayagain /\ m.touched = h.touched /\ m.twups = h.twups
    BY <1>1, StayVisit, StaysGrayIs
  <1> HIDE DEF m
  <1>3. m \in Work
    BY <1>2 DEF Visit
  <1>4. w \in Work /\ w.color = m.color /\ w.gray = m.gray /\ SameRest(m, w) /\ SameLists(m, w)
        /\ w.touched = m.touched /\ w.twups = m.twups /\ w.grayagain = m.grayagain \union {Main}
    BY <1>1, <1>3 DEF Work, SameRest, SameLists
  <1> HIDE DEF w
  <1>5. Visit(h, w, Main, stack)
    BY <1>2, <1>4, VisitSame
  <1>6. VisitRefs(h, Main, stack, i)
    BY <1>1 DEF VisitRefs, Marks!Refs, IsA, Sound, Alive
  <1>7. VisitLists(h, w, Main)
    BY <1>2, <1>4 DEF VisitLists, VisitWeak, VisitEphemeron, VisitAllweak, SameLists, IsA
  <1>8. VisitThreads(h, w, Main, i)
    BY <1>2, <1>4 DEF VisitThreads, IsA, Marks!OpenOf
  <1>9. Visits(h, w, Main, i)
    BY <1>5, <1>6, <1>7, <1>8 DEF Visits
  <1> QED BY <1>9 DEF w, m

LEMMA BlackIs ==
  ASSUME NEW h \in Work, NEW o \in Nodes
  PROVE  [h EXCEPT !.color[o] = "black"] \in Work
  BY DEF Work, MP!Color

\* a strong table or a box,
LEMMA TableVisits ==
  ASSUME Sound, NEW h, NEW o, o # Main, Ready(h, o), NEW i \in BOOLEAN, kind[o] \in {"table", "box"}
  PROVE  Visits(h, MarkIn([h EXCEPT !.color[o] = "black"], {val[o]}), o, i)
  <1> DEFINE b == [h EXCEPT !.color[o] = "black"]
             V == {val[o]}
             m == MarkIn(b, V)
  <1>1. /\ h \in Work /\ o \in Nodes /\ h.color[o] = "gray" /\ o \in Objects
        /\ V \in SUBSET Value
    BY ReadyIs
  <1>2. ~Marks!StaysGray(o)
    BY StaysGrayIs DEF IsA
  <1>3. b \in Work
    BY <1>1, BlackIs
  <1> HIDE DEF V
  <1>4. Visit(h, m, o, V) /\ SameLists(h, m)
        /\ m.grayagain = h.grayagain /\ m.touched = h.touched /\ m.twups = h.twups
    BY <1>1, <1>2, <1>3, MarkVisit
  <1> HIDE DEF m
  <1>5. VisitRefs(h, o, V, i)
    BY <1>1 DEF VisitRefs, Marks!Refs, IsA, V, Value
  <1>6. VisitLists(h, m, o)
    BY <1>4 DEF VisitLists, VisitWeak, VisitEphemeron, VisitAllweak, SameLists, IsA
  <1>7. VisitThreads(h, m, o, i)
    BY <1>4 DEF VisitThreads, IsA, Marks!OpenOf
  <1>8. Visits(h, m, o, i)
    BY <1>4, <1>5, <1>6, <1>7 DEF Visits
  <1> QED BY <1>8 DEF m, V

\* a closure, whose open upvalues are only marked in the atomic step,
LEMMA ClosureVisits ==
  ASSUME Sound, NEW h, NEW o, o # Main, Ready(h, o), NEW i \in BOOLEAN, kind[o] = "closure"
  PROVE  Visits(h, TraverseClosure([h EXCEPT !.color[o] = "black"], o, i), o, i)
  <1> DEFINE b == [h EXCEPT !.color[o] = "black"]
             m == TraverseClosure(b, o, i)
  <1>1. h \in Work /\ o \in Nodes /\ h.color[o] = "gray" /\ o \in Objects /\ o \in Alive
    BY ReadyIs
  <1>2. ~Marks!StaysGray(o)
    BY StaysGrayIs DEF IsA
  <1>3. b \in Work /\ \A V \in SUBSET Value :
          /\ Visit(h, MarkIn(b, V), o, V) /\ SameLists(h, MarkIn(b, V))
          /\ LET n == MarkIn(b, V)
             IN  n.grayagain = h.grayagain /\ n.touched = h.touched /\ n.twups = h.twups
    BY <1>1, <1>2, BlackIs, MarkVisit
  <1>4. /\ b.val = h.val /\ b.touched = h.touched /\ b.gray = h.gray /\ SameRest(h, b)
        /\ SameLists(h, b) /\ b.grayagain = h.grayagain /\ b.twups = h.twups
        /\ \A x \in Nodes : b.color[x] = IF x = o THEN "black" ELSE h.color[x]
    BY <1>1 DEF Work, SameRest, SameLists
  <1> HIDE DEF b
  <1>5. \A n : SameLists(h, n) => VisitLists(h, n, o)
    BY DEF VisitLists, VisitWeak, VisitEphemeron, VisitAllweak, SameLists, IsA
  <1>6. up[o] \in UpVals \union {None} /\ None \notin UpVals
    BY <1>1, UpValsAssumption DEF Sound
  <1>7. CASE up[o] = None \/ (at[up[o]] # Closed /\ ~i)
    <2> DEFINE W == IF up[o] = None THEN {} ELSE {up[o]}
               w == [b EXCEPT !.touched = @ \union W]
    <2>1. m = w
      <3>1. CASE up[o] = None
        <4>1. w = b
          BY <1>3, <3>1 DEF Work
        <4> QED BY <3>1, <4>1 DEF TraverseClosure
      <3>2. CASE up[o] # None
        BY <1>7, <3>2 DEF TraverseClosure
      <3> QED BY <3>1, <3>2
    <2>2. W \subseteq UpVals
      BY <1>6
    <2> HIDE DEF W, m
    <2>3. w \in Work /\ w.touched = b.touched \union W /\ w.color = b.color /\ w.gray = b.gray
          /\ SameRest(b, w) /\ SameLists(b, w) /\ w.grayagain = b.grayagain /\ w.twups = b.twups
      BY <1>3, <2>2 DEF Work, SameRest, SameLists
    <2> HIDE DEF w
    <2>4. Visit(h, w, o, {})
      <3>1. ToMark(h, {}) = {}
        BY DEF ToMark
      <3>2. SameRest(h, w)
        BY <1>4, <2>3 DEF SameRest
      <3> QED BY <1>2, <1>4, <2>3, <3>1, <3>2 DEF Visit
    <2>5. VisitRefs(h, o, {}, i)
      BY <1>7 DEF VisitRefs, Marks!Refs, IsA
    <2>6. VisitLists(h, w, o)
      BY <1>4, <1>5, <2>3 DEF SameLists
    <2>7. ~i => Marks!OpenOf({o}) = W
      BY <1>6, <1>7 DEF Marks!OpenOf, W
    <2>8. i => W = {}
      BY <1>7 DEF W
    <2>9. VisitThreads(h, w, o, i)
      BY <1>4, <2>3, <2>7, <2>8 DEF VisitThreads, IsA
    <2>10. Visits(h, w, o, i)
      BY <2>4, <2>5, <2>6, <2>9 DEF Visits
    <2> QED BY <2>1, <2>10 DEF m, b
  <1>8. CASE up[o] # None /\ (at[up[o]] = Closed \/ i)
    <2> DEFINE v == Marks!Read(up[o])
    <2>1. v \in Value
      BY <1>1, <1>8 DEF Sound, Alive, Value
    <2>2. m = MarkIn(b, {v})
      <3>1. at[up[o]] # Closed => h.val[at[up[o]]] = val[at[up[o]]]
        BY <1>6, <1>8 DEF Sound, Ready, Known, Alive
      <3> QED BY <1>4, <1>8, <3>1 DEF TraverseClosure, Marks!Read
    <2> HIDE DEF v, m
    <2>3. Visit(h, m, o, {v}) /\ SameLists(h, m)
          /\ m.grayagain = h.grayagain /\ m.touched = h.touched /\ m.twups = h.twups
      BY <1>3, <2>1, <2>2
    <2>4. VisitRefs(h, o, {v}, i)
      <3>1. \A x \in Objects : x \in Marks!Refs(o, NW(h), i) <=> x = v
        BY <1>8 DEF Marks!Refs, v
      <3>2. Marks!Refs(o, NW(h), i) \subseteq Objects
        BY DEF Marks!Refs
      <3> QED BY <2>1, <3>1, <3>2 DEF VisitRefs, Value
    <2>5. ~i => Marks!OpenOf({o}) = {}
      BY <1>8 DEF Marks!OpenOf
    <2>6. VisitThreads(h, m, o, i)
      BY <2>3, <2>5 DEF VisitThreads, IsA
    <2>7. Visits(h, m, o, i)
      BY <1>5, <2>3, <2>4, <2>6 DEF Visits
    <2> QED BY <2>7 DEF m, b
  <1> QED BY <1>7, <1>8 DEF b

\* a thread, which is listed in twups then,
LEMMA ThreadVisits ==
  ASSUME Sound, NEW h, NEW o, o # Main, Ready(h, o), NEW i \in BOOLEAN, kind[o] = "thread"
  PROVE  Visits(h, TraverseThread(h, o, i), o, i)
  <1> DEFINE V == {val[o]}
             n == MarkIn(h, V)
             m == [n EXCEPT !.grayagain = @ \union {o}]
             w == IF i /\ \E u \in UpVals : at[u] = o THEN [m EXCEPT !.twups = @ \union {o}] ELSE m
  <1>1. /\ h \in Work /\ o \in Nodes /\ h.color[o] = "gray" /\ o \in Objects
        /\ V \in SUBSET Value /\ h.val[o] = val[o]
    BY ReadyIs
  <1>2. Marks!StaysGray(o)
    BY StaysGrayIs DEF IsA
  <1>3. TraverseThread(h, o, i) = w
    BY <1>1 DEF TraverseThread
  <1> HIDE DEF V
  <1>4. Visit(h, n, o, V) /\ SameLists(h, n)
        /\ n.grayagain = h.grayagain /\ n.touched = h.touched /\ n.twups = h.twups
    BY <1>1, <1>2, StayVisit
  <1> HIDE DEF n
  <1>5. n \in Work
    BY <1>4 DEF Visit
  <1>6. m \in Work /\ m.color = n.color /\ m.gray = n.gray /\ SameRest(n, m) /\ SameLists(n, m)
        /\ m.touched = n.touched /\ m.twups = n.twups /\ m.grayagain = n.grayagain \union {o}
    BY <1>1, <1>5 DEF Work, SameRest, SameLists
  <1> HIDE DEF m
  <1>7. /\ w \in Work /\ w.color = m.color /\ w.gray = m.gray /\ SameRest(m, w) /\ SameLists(m, w)
        /\ w.touched = m.touched /\ w.grayagain = m.grayagain
        /\ w.twups = IF i /\ \E u \in UpVals : at[u] = o THEN m.twups \union {o} ELSE m.twups
    BY <1>1, <1>6 DEF Work, SameRest, SameLists
  <1> HIDE DEF w
  <1>8. Visit(h, w, o, V)
    <2>1. SameRest(n, w)
      BY <1>6, <1>7 DEF SameRest
    <2> QED BY <1>4, <1>6, <1>7, <2>1, VisitSame
  <1>9. VisitRefs(h, o, V, i)
    BY <1>1 DEF VisitRefs, Marks!Refs, IsA, V, Value
  <1>10. VisitLists(h, w, o)
    BY <1>4, <1>6, <1>7 DEF VisitLists, VisitWeak, VisitEphemeron, VisitAllweak, SameLists, IsA
  <1>11. VisitThreads(h, w, o, i)
    <2>1. Marks!OpenOf({o}) = {}
      BY DEF Marks!OpenOf
    <2>2. Marks!OpenIn(o) # {} <=> \E u \in UpVals : at[u] = o
      BY DEF Marks!OpenIn
    <2> QED BY <1>4, <1>6, <1>7, <2>1, <2>2 DEF VisitThreads, IsA
  <1>12. Visits(h, w, o, i)
    BY <1>8, <1>9, <1>10, <1>11 DEF Visits
  <1> QED BY <1>3, <1>12

\* a table with weak values,
LEMMA WeakValueVisits ==
  ASSUME Sound, NEW h, NEW o, o # Main, Ready(h, o), NEW i \in BOOLEAN, kind[o] = "weakv"
  PROVE  Visits(h, TraverseWeakValue(h, o), o, i)
  <1> DEFINE V == {key[o]}
             m == MarkIn(h, V)
             w == IF IsWhite(m, val[o]) THEN [m EXCEPT !.weak = @ \union {o}] ELSE m
  <1>1. /\ h \in Work /\ o \in Nodes /\ h.color[o] = "gray" /\ o \in Objects
        /\ V \in SUBSET Value /\ h.val[o] = val[o] /\ h.key[o] = key[o]
        /\ val[o] \in Alive \union {None} /\ o \in NW(h) /\ Frame(h)
    BY ReadyIs DEF Ready
  <1>2. Marks!StaysGray(o)
    BY StaysGrayIs DEF IsA
  <1> HIDE DEF V
  <1>4. Visit(h, m, o, V) /\ SameLists(h, m) /\ SameRest(h, m)
        /\ m.grayagain = h.grayagain /\ m.touched = h.touched /\ m.twups = h.twups
    BY <1>1, <1>2, StayVisit DEF Visit
  <1>3. TraverseWeakValue(h, o) = w
    BY <1>1, <1>4 DEF TraverseWeakValue, SameRest, V
  <1> HIDE DEF m
  <1>5. m \in Work
    BY <1>4 DEF Visit
  <1>6. /\ w \in Work /\ w.color = m.color /\ w.gray = m.gray /\ SameRest(m, w)
        /\ w.ephemeron = m.ephemeron /\ w.allweak = m.allweak
        /\ w.weak = IF IsWhite(m, val[o]) THEN m.weak \union {o} ELSE m.weak
        /\ w.touched = m.touched /\ w.twups = m.twups /\ w.grayagain = m.grayagain
    BY <1>1, <1>5 DEF Work, SameRest
  <1> HIDE DEF w
  <1>7. Visit(h, w, o, V) /\ NW(w) = NW(m)
    BY <1>4, <1>6, VisitSame
  <1>8. VisitRefs(h, o, V, i)
    BY <1>1 DEF VisitRefs, Marks!Refs, IsA, V, Value
  <1>9. ~IsWhite(m, val[o]) => val[o] \in NW(m) \union {None}
    BY <1>1, <1>4, VisitFrame, Marked1
  <1>10. VisitLists(h, w, o)
    BY <1>4, <1>6, <1>7, <1>9 DEF VisitLists, VisitWeak, VisitEphemeron, VisitAllweak, SameLists, IsA
  <1>11. VisitThreads(h, w, o, i)
    BY <1>4, <1>6 DEF VisitThreads, IsA, Marks!OpenOf
  <1>12. Visits(h, w, o, i)
    BY <1>7, <1>8, <1>10, <1>11 DEF Visits
  <1> QED BY <1>3, <1>12

\* a table with weak keys,
LEMMA EphemeronVisits ==
  ASSUME Sound, NEW h, NEW o, o # Main, Ready(h, o), NEW i \in BOOLEAN, kind[o] = "ephemeron"
  PROVE  Visits(h, TraverseEphemeron(h, o), o, i)
  <1> DEFINE w == TraverseEphemeron(h, o)
  <1>1. /\ h \in Work /\ o \in Nodes /\ h.color[o] = "gray" /\ o \in Objects
        /\ h.val[o] = val[o] /\ h.key[o] = key[o] /\ key[o] \in Value /\ val[o] \in Value
        /\ val[o] \in Alive \union {None} /\ key[o] \in Alive \union {None}
        /\ o \in NW(h) /\ Frame(h)
    BY ReadyIs DEF Ready
  <1>2. Marks!StaysGray(o)
    BY StaysGrayIs DEF IsA
  <1>3. \A n : n.touched = h.touched /\ n.twups = h.twups /\ n.grayagain = h.grayagain
               => VisitThreads(h, n, o, i)
    BY DEF VisitThreads, IsA, Marks!OpenOf
  <1>4. CASE ~IsWhite(h, key[o])
    <2> DEFINE V == {val[o]}
               m == MarkIn(h, V)
    <2>1. w = m
      BY <1>1, <1>4 DEF TraverseEphemeron
    <2>2. V \in SUBSET Value
      BY <1>1
    <2> HIDE DEF V, w
    <2>3. Visit(h, m, o, V) /\ SameLists(h, m) /\ SameRest(h, m)
          /\ m.grayagain = h.grayagain /\ m.touched = h.touched /\ m.twups = h.twups
      BY <1>1, <1>2, <2>2, StayVisit DEF Visit
    <2> HIDE DEF m
    <2>4. key[o] \in NW(h) \union {None}
      BY <1>1, <1>4, Marked1
    <2>5. VisitRefs(h, o, V, i)
      BY <1>1, <2>2, <2>4 DEF VisitRefs, Marks!Refs, IsA, V, Value
    <2>6. NW(m) = NW(h) \union ToMark(h, V) /\ Frame(m)
      BY <1>1, <2>2, <2>3, VisitFrame
    <2>7. val[o] \in NW(m) \union {None}
      <3>1. CASE IsWhite(h, val[o])
        BY <2>6, <3>1 DEF ToMark, V
      <3>2. CASE ~IsWhite(h, val[o])
        BY <1>1, <2>6, <3>2, Marked1
      <3> QED BY <3>1, <3>2
    <2>8. VisitLists(h, m, o)
      BY <2>3, <2>4, <2>6, <2>7 DEF VisitLists, VisitWeak, VisitEphemeron, VisitAllweak, SameLists, IsA
    <2>9. Visits(h, m, o, i)
      BY <1>3, <2>3, <2>5, <2>8 DEF Visits
    <2> QED BY <2>1, <2>9 DEF w
  <1>5. ASSUME NEW m \in Work, m.color = h.color, m.gray = h.gray, SameRest(h, m)
        PROVE  Visit(h, m, o, {}) /\ VisitRefs(h, o, {}, i) /\ NW(m) = NW(h)
    <2>1. ToMark(h, {}) = {}
      BY DEF ToMark
    <2>2. Visit(h, m, o, {})
      BY <1>1, <1>2, <1>5, <2>1 DEF Visit
    <2>3. VisitRefs(h, o, {}, i)
      BY DEF VisitRefs, IsA
    <2> QED BY <1>5, <2>2, <2>3 DEF NW
  <1>6. CASE IsWhite(h, key[o]) /\ IsWhite(h, val[o])
    <2> DEFINE m == [h EXCEPT !.ephemeron = @ \union {o}]
    <2>1. w = m
      BY <1>1, <1>6 DEF TraverseEphemeron
    <2> HIDE DEF w
    <2>2. m \in Work /\ m.color = h.color /\ m.gray = h.gray /\ SameRest(h, m)
          /\ m.weak = h.weak /\ m.allweak = h.allweak /\ m.ephemeron = h.ephemeron \union {o}
          /\ m.touched = h.touched /\ m.twups = h.twups /\ m.grayagain = h.grayagain
      BY <1>1 DEF Work, SameRest
    <2> HIDE DEF m
    <2>3. VisitLists(h, m, o)
      BY <2>2 DEF VisitLists, VisitWeak, VisitEphemeron, VisitAllweak, IsA
    <2>4. Visits(h, m, o, i)
      BY <1>3, <1>5, <2>2, <2>3 DEF Visits
    <2> QED BY <2>1, <2>4 DEF w
  <1>7. CASE IsWhite(h, key[o]) /\ ~IsWhite(h, val[o])
    <2> DEFINE m == [h EXCEPT !.allweak = @ \union {o}]
    <2>1. w = m
      BY <1>1, <1>7 DEF TraverseEphemeron
    <2> HIDE DEF w
    <2>2. m \in Work /\ m.color = h.color /\ m.gray = h.gray /\ SameRest(h, m)
          /\ m.weak = h.weak /\ m.ephemeron = h.ephemeron /\ m.allweak = h.allweak \union {o}
          /\ m.touched = h.touched /\ m.twups = h.twups /\ m.grayagain = h.grayagain
      BY <1>1 DEF Work, SameRest
    <2> HIDE DEF m
    <2>3. val[o] \in NW(m) \union {None}
      BY <1>1, <1>5, <1>7, <2>2, Marked1
    <2>4. VisitLists(h, m, o)
      BY <2>2, <2>3 DEF VisitLists, VisitWeak, VisitEphemeron, VisitAllweak, IsA
    <2>5. Visits(h, m, o, i)
      BY <1>3, <1>5, <2>2, <2>4 DEF Visits
    <2> QED BY <2>1, <2>5 DEF w
  <1> QED BY <1>4, <1>6, <1>7

\* and one with both.
LEMMA AllWeakVisits ==
  ASSUME Sound, NEW h, NEW o, o # Main, Ready(h, o), NEW i \in BOOLEAN, kind[o] = "allweak"
  PROVE  Visits(h, [h EXCEPT !.allweak = @ \union {o}], o, i)
  <1> DEFINE m == [h EXCEPT !.allweak = @ \union {o}]
  <1>1. h \in Work /\ o \in Nodes /\ h.color[o] = "gray" /\ o \in Objects
    BY ReadyIs
  <1>2. Marks!StaysGray(o)
    BY StaysGrayIs DEF IsA
  <1>3. m \in Work /\ m.color = h.color /\ m.gray = h.gray /\ SameRest(h, m)
        /\ m.weak = h.weak /\ m.ephemeron = h.ephemeron /\ m.allweak = h.allweak \union {o}
        /\ m.touched = h.touched /\ m.twups = h.twups /\ m.grayagain = h.grayagain
    BY <1>1 DEF Work, SameRest
  <1> HIDE DEF m
  <1>4. Visit(h, m, o, {})
    <2>1. ToMark(h, {}) = {}
      BY DEF ToMark
    <2> QED BY <1>1, <1>2, <1>3, <2>1 DEF Visit
  <1>5. VisitRefs(h, o, {}, i)
    BY DEF VisitRefs, Marks!Refs, IsA
  <1>6. VisitLists(h, m, o)
    BY <1>3 DEF VisitLists, VisitWeak, VisitEphemeron, VisitAllweak, IsA
  <1>7. VisitThreads(h, m, o, i)
    BY <1>3 DEF VisitThreads, IsA, Marks!OpenOf
  <1>8. Visits(h, m, o, i)
    BY <1>4, <1>5, <1>6, <1>7 DEF Visits
  <1> QED BY <1>8 DEF m

\* propagatemark.
LEMMA PropagateVisits ==
  ASSUME Sound, NEW g \in Work, NEW o \in g.gray, NEW i \in BOOLEAN,
         NEW h, h = [g EXCEPT !.gray = @ \ {o}], Ready(h, o), ~IsA(o, "userdata")
  PROVE  Visits(h, PropagateMark(g, o, i), o, i)
  <1> DEFINE black == [h EXCEPT !.color[o] = "black"]
  <1>1. CASE o = Main
    <2>1. PropagateMark(g, o, i) = [MarkIn(h, stack) EXCEPT !.grayagain = @ \union {o}]
      BY <1>1 DEF PropagateMark
    <2> QED BY <1>1, <2>1, MainVisits
  <1>2. CASE o # Main
    <2>1. /\ kind[o] \in Marks!Kind /\ h \in Work /\ o \in Objects
          /\ h.val[o] = val[o] /\ o \in Nodes
      BY <1>2, ReadyIs
    <2>2. black.val[o] = val[o]
      BY <2>1 DEF Work
    <2>3. PropagateMark(g, o, i) =
            CASE kind[o] \in {"table", "box"} -> MarkIn(black, {black.val[o]})
              [] kind[o] = "closure" -> TraverseClosure(black, o, i)
              [] kind[o] = "thread" -> TraverseThread(h, o, i)
              [] kind[o] = "weakv" -> TraverseWeakValue(h, o)
              [] kind[o] = "ephemeron" -> TraverseEphemeron(h, o)
              [] OTHER -> [h EXCEPT !.allweak = @ \union {o}]
      BY <1>2, <2>1, <2>2 DEF PropagateMark
    <2> HIDE DEF black
    <2>4. kind[o] \in {"table", "box", "closure", "thread", "weakv", "ephemeron", "allweak"}
      BY <1>2, <2>1 DEF Marks!Kind, IsA
    <2>5. CASE kind[o] \in {"table", "box"}
      BY <1>2, <2>2, <2>3, <2>5, TableVisits DEF black
    <2>6. CASE kind[o] = "closure"
      BY <1>2, <2>3, <2>6, ClosureVisits DEF black
    <2>7. CASE kind[o] = "thread"
      BY <1>2, <2>3, <2>7, ThreadVisits
    <2>8. CASE kind[o] = "weakv"
      BY <1>2, <2>3, <2>8, WeakValueVisits
    <2>9. CASE kind[o] = "ephemeron"
      BY <1>2, <2>3, <2>9, EphemeronVisits
    <2>10. CASE kind[o] = "allweak"
      <3>1. PropagateMark(g, o, i) = [h EXCEPT !.allweak = @ \union {o}]
        BY <2>3, <2>10
      <3> HIDE <2>3
      <3>2. Visits(h, [h EXCEPT !.allweak = @ \union {o}], o, i)
        BY <1>2, <2>10, AllWeakVisits
      <3> QED BY <3>1, <3>2
    <2> QED BY <2>4, <2>5, <2>6, <2>7, <2>8, <2>9, <2>10
  <1> QED BY <1>1, <1>2

-----------------------------------------------------------------------------
(* The invariant of the loops, with parameters: S is what was marked       *)
(* before, of which T is traversed; M what is to be marked in the end; X   *)
(* the tables whose entries are removed already; old, weak, allweak the    *)
(* objects not traversed any more and the lists before; touched that list. *)
(* Q is what stays on a list to be traversed later.                        *)

Params(c) ==
  /\ c.inside \in BOOLEAN /\ c.M \subseteq Nodes
  /\ \A o \in (c.M \ c.S) \union (c.M \intersect c.T) : Marks!Refs(o, c.M, c.inside) \subseteq c.M

Waiting(h, Q) == h.gray \union Q
Done(h, Q) == NW(h) \ Waiting(h, Q)
Turned(h, c) == (NW(h) \ c.S) \union (NW(h) \intersect c.T)

Data(h, Q, c) ==
  /\ \A o \in Objects \ c.X : h.key[o] = key[o] /\ h.val[o] = val[o]
  /\ \A o \in c.X : /\ o \in Objects /\ o \in Done(h, Q)
                    /\ kind[o] \in {"weakv", "allweak"} /\ h.key[o] = None /\ h.val[o] = None
Bounds(h, Q, c) ==
  /\ c.S \subseteq NW(h) /\ NW(h) \subseteq c.M
  /\ Waiting(h, Q) \subseteq NW(h) /\ h.gray \intersect Q = {}
  /\ h.gray \union h.next \union h.ephemeron \subseteq Turned(h, c)
Colored(h, Q) ==
  /\ \A o \in Waiting(h, Q) : h.color[o] = "gray" /\ ~IsA(o, "userdata")
  /\ \A o \in Done(h, Q) : h.color[o] = "gray" <=> Marks!StaysGray(o)
Scanned(h, Q, c) ==
  \A o \in Turned(h, c) \ Waiting(h, Q) :
    ~IsA(o, "ephemeron") => Marks!Refs(o, {}, c.inside) \subseteq NW(h)
Tables(h, Q, c) ==
  \A o \in Done(h, Q) :
    /\ IsA(o, "ephemeron") =>
         /\ o \in h.ephemeron \union h.next \/ val[o] \in NW(h) \union {None}
         /\ o \in h.ephemeron \union h.next \union h.allweak \/ key[o] \in NW(h) \union {None}
    /\ IsA(o, "weakv") => o \in h.weak \union c.X \/ val[o] \in NW(h) \union {None}
    /\ IsA(o, "allweak") => o \in h.allweak
Members(h, c) ==
  /\ \A o \in h.weak : o \in NW(h) /\ IsA(o, "weakv")
  /\ \A o \in h.ephemeron \union h.next : o \in NW(h) /\ IsA(o, "ephemeron")
  /\ \A o \in h.allweak : o \in NW(h) /\ (IsA(o, "allweak") \/
                             (IsA(o, "ephemeron") /\ val[o] \in NW(h) \union {None}))
Fresh(h, c) ==
  /\ c.old \subseteq NW(h) /\ h.gray \intersect c.old = {}
  /\ h.weak \intersect c.old \subseteq c.weak
  /\ \A o \in h.allweak \intersect c.old : IsA(o, "allweak") => o \in c.allweak
Threaded(h, Q, c) ==
  IF c.inside
  THEN /\ h.touched = c.touched
       /\ \A o \in h.twups : o \in NW(h) /\ IsA(o, "thread") /\ Marks!OpenIn(o) # {}
       /\ \A o \in Done(h, Q) : IsA(o, "thread") /\ Marks!OpenIn(o) # {} => o \in h.twups
  ELSE LET D == (c.T \union (NW(h) \ c.S)) \ Waiting(h, Q)
       IN  /\ c.T \subseteq NW(h)
           /\ h.touched = touched \union Marks!OpenOf(D) /\ h.twups = twups
           /\ h.grayagain = grayagain \union {o \in D : o = Main \/ IsA(o, "thread")}

Good(h, Q, c) ==
  /\ Frame(h) /\ Data(h, Q, c) /\ Bounds(h, Q, c) /\ Colored(h, Q) /\ Scanned(h, Q, c)
  /\ Tables(h, Q, c) /\ Members(h, c) /\ Fresh(h, c) /\ Threaded(h, Q, c)

\* What an object refers to,
LEMMA RefsIs ==
  ASSUME NEW o, NEW V, NEW i
  PROVE  /\ ~IsA(o, "ephemeron") => Marks!Refs(o, V, i) = Marks!Refs(o, {}, i)
         /\ Marks!Refs(o, V, i) \subseteq Objects
  BY DEF Marks!Refs, IsA

\* which is more when more is marked,
LEMMA RefsGrow ==
  ASSUME NEW o, NEW V, NEW W, V \subseteq W, NEW i
  PROVE  Marks!Refs(o, V, i) \subseteq Marks!Refs(o, W, i)
  BY DEF Marks!Refs

\* and is alive.
LEMMA RefsAlive ==
  ASSUME Sound, NEW o \in Alive \union {Main}, NEW V, NEW i
  PROVE  Marks!Refs(o, V, i) \subseteq Alive
  <1>1. stack \subseteq Alive /\ None \notin Objects /\ Main \notin Objects
    BY ObjectsAssumption DEF Sound
  <1>2. CASE o = Main
    BY <1>1, <1>2 DEF Marks!Refs
  <1>3. CASE o # Main
    <2>1. o \in Alive
      BY <1>3
    <2>2. /\ key[o] \in Alive \union {None} /\ val[o] \in Alive \union {None}
          /\ up[o] # None => Marks!Read(up[o]) \in Alive \union {None}
      BY <2>1 DEF Sound
    <2> SUFFICES ASSUME NEW v \in Marks!Refs(o, V, i) PROVE v \in Alive
      OBVIOUS
    <2>3. v \in Objects /\ (v = key[o] \/ v = val[o] \/ (up[o] # None /\ v = Marks!Read(up[o])))
      BY <1>3 DEF Marks!Refs
    <2> QED BY <1>1, <2>2, <2>3
  <1> QED BY <1>2, <1>3

\* What is marked on the way is of what is to be marked.
LEMMA WithinM ==
  ASSUME NEW h, NEW c, Params(c), NW(h) \subseteq c.M, NEW o \in Turned(h, c)
  PROVE  Marks!Refs(o, NW(h), c.inside) \subseteq c.M
  <1>1. o \in (c.M \ c.S) \union (c.M \intersect c.T)
    BY DEF Turned
  <1>2. Marks!Refs(o, NW(h), c.inside) \subseteq Marks!Refs(o, c.M, c.inside)
    BY RefsGrow
  <1> QED BY <1>1, <1>2 DEF Params

\* o is traversed after it left the list it was on.
LEMMA VisitKeeps ==
  ASSUME Sound, NEW c, Params(c), NEW h, NEW Q, NEW o \in Nodes, Good(h, Q \union {o}, c),
         o \notin h.gray, o \notin Q, o \in Turned(h, c), o \in c.old => IsA(o, "ephemeron"),
         NEW m, Visits(h, m, o, c.inside)
  PROVE  Good(m, Q, c) /\ NW(h) \subseteq NW(m)
  <1> DEFINE i == c.inside
  <1>1. PICK V : Visit(h, m, o, V) /\ VisitRefs(h, o, V, i) /\ VisitLists(h, m, o)
                 /\ VisitThreads(h, m, o, i)
    BY DEF Visits
  <1> DEFINE W == ToMark(h, V)
             N == NW(h)
  <1>2. o \in N /\ Frame(h) /\ V \in SUBSET Value /\ i \in BOOLEAN
    BY <1>1 DEF Good, Bounds, Waiting, VisitRefs, Params
  <1>3. Frame(m) /\ NW(m) = N \union W /\ W \subseteq Objects /\ W \intersect N = {}
    BY <1>1, <1>2, VisitFrame
  <1>4. /\ \A x \in Nodes : m.color[x] = IF x = o THEN IF Marks!StaysGray(o) THEN "gray" ELSE "black"
                                   ELSE IF x \notin W THEN h.color[x]
                                   ELSE IF kind[x] = "userdata" THEN "black" ELSE "gray"
        /\ m.gray = h.gray \union {v \in W : kind[v] # "userdata"}
        /\ m.key = h.key /\ m.val = h.val /\ m.next = h.next
    BY <1>1 DEF Visit, SameRest
  <1>5. \A x : IsA(x, "userdata") => ~Marks!StaysGray(x)
    BY StaysGrayIs DEF IsA
  <1>6. \A x \in W : (kind[x] = "userdata" <=> IsA(x, "userdata")) /\ x \in Nodes
    BY <1>3, ObjectsAssumption DEF IsA, Nodes
  <1>7. W \subseteq Marks!Refs(o, N, i) /\ W \subseteq V
    BY <1>1 DEF VisitRefs, ToMark, IsWhite
  <1>8. ~IsA(o, "ephemeron") => Marks!Refs(o, {}, i) \subseteq N \union W
    <2> SUFFICES ASSUME ~IsA(o, "ephemeron"), NEW v \in Marks!Refs(o, {}, i) PROVE v \in N \union W
      OBVIOUS
    <2>1. v \in V /\ v \in Objects
      BY <1>1, RefsIs DEF VisitRefs
    <2>2. o \in Alive \union {Main}
      BY <1>2 DEF Frame, Alive, Nodes, NW
    <2>3. v \in Alive
      BY <2>2, RefsAlive
    <2>4. CASE IsWhite(h, v)
      BY <2>1, <2>4 DEF ToMark
    <2>5. CASE ~IsWhite(h, v)
      BY <1>2, <2>1, <2>3, <2>5, Marked1, ObjectsAssumption
    <2> QED BY <2>4, <2>5
  <1>9. W \subseteq c.M
    BY <1>7, WithinM DEF Good, Bounds
  <1> HIDE DEF W
  <1> DEFINE D == Done(h, Q \union {o})
             E == Done(m, Q)
  <1>10. D \subseteq E /\ \A x \in E : x \in D \/ x = o \/ (x \in W /\ IsA(x, "userdata"))
    <2>1. Waiting(h, Q \union {o}) = h.gray \union Q \union {o}
      BY DEF Waiting
    <2>2. Waiting(m, Q) = h.gray \union Q \union {v \in W : kind[v] # "userdata"}
      BY <1>4 DEF Waiting
    <2> QED BY <1>3, <1>6, <2>1, <2>2 DEF Done
  <1>11. Waiting(m, Q) \subseteq (Waiting(h, Q \union {o}) \ {o}) \union {v \in W : ~IsA(v, "userdata")}
    BY <1>2, <1>3, <1>4, <1>6 DEF Waiting
  <1>12. N \subseteq NW(m) /\ o \in E
    <2>1. o \notin W
      BY <1>2, <1>3
    <2> QED BY <1>2, <1>3, <1>4, <2>1 DEF Done, Waiting
  <1>13. Data(m, Q, c)
    BY <1>4, <1>10 DEF Good, Data
  <1>14. Turned(h, c) \subseteq Turned(m, c) /\ \A x \in Turned(m, c) : x \in Turned(h, c) \/ x \in W
    BY <1>3 DEF Turned
  <1>15. W \subseteq Turned(m, c)
    <2>1. c.S \subseteq N
      BY DEF Good, Bounds
    <2> QED BY <1>3, <2>1 DEF Turned
  <1>16. Bounds(m, Q, c)
    <2>1. /\ c.S \subseteq N /\ N \subseteq c.M
          /\ Waiting(h, Q \union {o}) \subseteq N /\ h.gray \intersect (Q \union {o}) = {}
          /\ h.gray \union h.next \union h.ephemeron \subseteq Turned(h, c)
      BY DEF Good, Bounds
    <2>2. m.ephemeron \in {h.ephemeron, h.ephemeron \union {o}}
      BY <1>1 DEF VisitLists, VisitEphemeron
    <2>3. Waiting(m, Q) \subseteq NW(m)
      BY <1>3, <1>11, <2>1
    <2>4. m.gray \intersect Q = {}
      BY <1>3, <1>4, <2>1 DEF Waiting
    <2>5. m.gray \union m.next \union m.ephemeron \subseteq Turned(m, c)
      BY <1>4, <1>14, <1>15, <2>1, <2>2
    <2> QED BY <1>3, <1>9, <2>1, <2>3, <2>4, <2>5 DEF Bounds
  <1>17. Colored(m, Q)
    <2>1. /\ \A x \in Waiting(h, Q \union {o}) : h.color[x] = "gray" /\ ~IsA(x, "userdata")
          /\ \A x \in D : h.color[x] = "gray" <=> Marks!StaysGray(x)
      BY DEF Good, Colored
    <2>2. Waiting(h, Q \union {o}) \subseteq N /\ N \subseteq Nodes /\ D \subseteq N
      BY DEF Good, Bounds, NW, Done
    <2>3. ASSUME NEW x \in Waiting(m, Q) PROVE m.color[x] = "gray" /\ ~IsA(x, "userdata")
      <3>1. x # o
        BY <1>2, <1>3, <1>11
      <3>2. CASE x \in Waiting(h, Q \union {o})
        <4>1. x \notin W /\ x \in Nodes
          BY <1>3, <2>2, <3>2
        <4> QED BY <1>4, <2>1, <3>1, <3>2, <4>1
      <3>3. CASE x \in W /\ ~IsA(x, "userdata")
        BY <1>4, <1>6, <3>1, <3>3
      <3> QED BY <1>11, <3>2, <3>3
    <2>4. ASSUME NEW x \in E PROVE m.color[x] = "gray" <=> Marks!StaysGray(x)
      <3>1. CASE x = o
        BY <1>4, <3>1
      <3>2. CASE x \in W /\ IsA(x, "userdata") /\ x # o
        BY <1>4, <1>5, <1>6, <3>2
      <3>3. CASE x \in D /\ x # o
        BY <1>3, <1>4, <2>1, <2>2, <3>3
      <3> QED BY <1>10, <3>1, <3>2, <3>3
    <2> QED BY <2>3, <2>4 DEF Colored
  <1>18. Scanned(m, Q, c)
    <2> SUFFICES ASSUME NEW x \in Turned(m, c) \ Waiting(m, Q), ~IsA(x, "ephemeron")
                 PROVE  Marks!Refs(x, {}, i) \subseteq NW(m)
      BY DEF Scanned
    <2>1. CASE x = o
      BY <1>3, <1>8, <2>1
    <2>2. CASE x # o /\ x \in Turned(h, c)
      <3>1. x \notin Waiting(h, Q \union {o})
        BY <1>4, <2>2 DEF Waiting
      <3> QED BY <1>12, <2>2, <3>1 DEF Good, Scanned
    <2>3. CASE x # o /\ x \in W
      <3>1. kind[x] = "userdata"
        BY <1>4, <2>3 DEF Waiting
      <3>2. Marks!Refs(x, {}, i) = {}
        BY <1>3, <2>3, <3>1, ObjectsAssumption DEF Marks!Refs
      <3> QED BY <3>2
    <2> QED BY <1>14, <2>1, <2>2, <2>3
  <1>19. Tables(m, Q, c)
    <2> SUFFICES ASSUME NEW x \in E
                 PROVE  /\ IsA(x, "ephemeron") =>
                              /\ x \in m.ephemeron \union m.next \/ val[x] \in NW(m) \union {None}
                              /\ x \in m.ephemeron \union m.next \union m.allweak \/ key[x] \in NW(m) \union {None}
                        /\ IsA(x, "weakv") => x \in m.weak \union c.X \/ val[x] \in NW(m) \union {None}
                        /\ IsA(x, "allweak") => x \in m.allweak
      BY DEF Tables
    <2>1. h.weak \subseteq m.weak /\ h.ephemeron \subseteq m.ephemeron /\ h.allweak \subseteq m.allweak
      BY <1>1 DEF VisitLists, VisitWeak, VisitEphemeron, VisitAllweak
    <2>2. CASE x \in D
      BY <1>4, <1>12, <2>1, <2>2 DEF Good, Tables
    <2>3. CASE x = o
      BY <1>1, <2>3 DEF VisitLists, VisitWeak, VisitEphemeron, VisitAllweak
    <2>4. CASE IsA(x, "userdata")
      BY <2>4 DEF IsA
    <2> QED BY <1>10, <2>2, <2>3, <2>4
  <1>20. Members(m, c)
    <2>1. \A x \in m.weak : x \in NW(m) /\ IsA(x, "weakv")
      BY <1>1, <1>2, <1>12 DEF VisitLists, VisitWeak, Good, Members
    <2>2. \A x \in m.ephemeron \union m.next : x \in NW(m) /\ IsA(x, "ephemeron")
      BY <1>1, <1>2, <1>4, <1>12 DEF VisitLists, VisitEphemeron, Good, Members
    <2>3. \A x \in m.allweak : x \in NW(m) /\ (IsA(x, "allweak") \/
                             (IsA(x, "ephemeron") /\ val[x] \in NW(m) \union {None}))
      BY <1>1, <1>2, <1>12 DEF VisitLists, VisitAllweak, Good, Members
    <2> QED BY <2>1, <2>2, <2>3 DEF Members
  <1>21. Fresh(m, c)
    <2>1. /\ c.old \subseteq N /\ h.gray \intersect c.old = {}
          /\ h.weak \intersect c.old \subseteq c.weak
          /\ \A x \in h.allweak \intersect c.old : IsA(x, "allweak") => x \in c.allweak
      BY DEF Good, Fresh
    <2>2. c.old \subseteq NW(m) /\ m.gray \intersect c.old = {}
      BY <1>3, <1>4, <2>1
    <2>3. o \in c.old => m.weak = h.weak /\ ~IsA(o, "allweak")
      BY <1>1 DEF VisitLists, VisitWeak, IsA
    <2>4. m.weak \intersect c.old \subseteq c.weak
      BY <1>1, <2>1, <2>3 DEF VisitLists, VisitWeak
    <2>5. \A x \in m.allweak \intersect c.old : IsA(x, "allweak") => x \in c.allweak
      BY <1>1, <2>1, <2>3 DEF VisitLists, VisitAllweak
    <2> QED BY <2>2, <2>4, <2>5 DEF Fresh
  <1>22. Threaded(m, Q, c)
    <2>1. CASE i
      <3>1. /\ h.touched = c.touched
            /\ \A x \in h.twups : x \in N /\ IsA(x, "thread") /\ Marks!OpenIn(x) # {}
            /\ \A x \in D : IsA(x, "thread") /\ Marks!OpenIn(x) # {} => x \in h.twups
        BY <2>1 DEF Good, Threaded
      <3>2. /\ m.touched = h.touched
            /\ m.twups = IF IsA(o, "thread") /\ Marks!OpenIn(o) # {} THEN h.twups \union {o} ELSE h.twups
        BY <1>1, <2>1 DEF VisitThreads
      <3>3. \A x \in m.twups : x \in NW(m) /\ IsA(x, "thread") /\ Marks!OpenIn(x) # {}
        BY <1>2, <1>12, <3>1, <3>2
      <3>4. \A x \in E : IsA(x, "thread") /\ Marks!OpenIn(x) # {} => x \in m.twups
        BY <1>10, <3>1, <3>2 DEF IsA
      <3> QED BY <2>1, <3>1, <3>2, <3>3, <3>4 DEF Threaded
    <2>2. CASE ~i
      <3> DEFINE A == (c.T \union (N \ c.S)) \ Waiting(h, Q \union {o})
                 B == (c.T \union (NW(m) \ c.S)) \ Waiting(m, Q)
      <3>1. /\ h.touched = touched \union Marks!OpenOf(A) /\ h.twups = twups
            /\ h.grayagain = grayagain \union {x \in A : x = Main \/ IsA(x, "thread")}
        BY <2>2 DEF Good, Threaded
      <3>2. /\ m.touched = h.touched \union Marks!OpenOf({o}) /\ m.twups = h.twups
            /\ m.grayagain = IF o = Main \/ IsA(o, "thread") THEN h.grayagain \union {o} ELSE h.grayagain
        BY <1>1, <2>2 DEF VisitThreads
      <3>3. A \union {o} \subseteq B /\ \A x \in B : x \in A \/ x = o \/ IsA(x, "userdata")
        <4>1. o \in c.T \union (N \ c.S)
          BY DEF Turned
        <4>2. W \intersect c.S = {}
          BY <1>3 DEF Good, Bounds
        <4>3. W \intersect c.T = {}
          BY <1>3, <2>2 DEF Good, Threaded
        <4>4. \A x \in W : x \in Waiting(m, Q) \/ IsA(x, "userdata")
          BY <1>4, <1>6 DEF Waiting
        <4>5. o \notin W /\ Waiting(h, Q \union {o}) = h.gray \union Q \union {o}
          BY <1>2, <1>3 DEF Waiting
        <4>6. Waiting(m, Q) = h.gray \union Q \union {v \in W : kind[v] # "userdata"}
          BY <1>4 DEF Waiting
        <4> QED BY <1>3, <1>6, <4>1, <4>2, <4>3, <4>4, <4>5, <4>6
      <3> HIDE DEF A, B
      <3>4. Marks!OpenOf(B) = Marks!OpenOf(A) \union Marks!OpenOf({o})
        BY <3>3 DEF Marks!OpenOf, IsA
      <3>5. {x \in B : x = Main \/ IsA(x, "thread")}
              = {x \in A : x = Main \/ IsA(x, "thread")} \union {x \in {o} : x = Main \/ IsA(x, "thread")}
        <4>1. \A x : IsA(x, "userdata") => x # Main /\ ~IsA(x, "thread")
          BY DEF IsA
        <4> QED BY <3>3, <4>1
      <3>6. m.grayagain = grayagain \union {x \in B : x = Main \/ IsA(x, "thread")}
        BY <3>1, <3>2, <3>5
      <3>7. m.touched = touched \union Marks!OpenOf(B) /\ m.twups = twups
        BY <3>1, <3>2, <3>4
      <3>8. c.T \subseteq NW(m)
        BY <1>12, <2>2 DEF Good, Threaded
      <3> QED BY <2>2, <3>6, <3>7, <3>8 DEF Threaded, A, B
    <2> QED BY <1>2, <2>1, <2>2
  <1> QED BY <1>3, <1>12, <1>13, <1>16, <1>17, <1>18, <1>19, <1>20, <1>21, <1>22 DEF Good

-----------------------------------------------------------------------------
(* propagateall.                                                           *)

\* What is not traversed yet, and may be.
Left(h) == h.gray \union {x \in Nodes : h.color[x] = "white"}

\* So does propagatemark.
LEMMA PropagateMarkKeeps ==
  ASSUME Sound, NEW c, Params(c), NEW g, NEW Q, Good(g, Q, c), NEW o \in g.gray
  PROVE  LET m == PropagateMark(g, o, c.inside)
         IN  /\ Good(m, Q, c) /\ NW(g) \subseteq NW(m) /\ Left(m) \subseteq Left(g) \ {o}
             /\ m.next = g.next /\ m.changed = g.changed
  <1> DEFINE i == c.inside
             h == [g EXCEPT !.gray = @ \ {o}]
             m == PropagateMark(g, o, i)
  <1>1. /\ g \in Work /\ Frame(g) /\ Waiting(g, Q) \subseteq NW(g) /\ i \in BOOLEAN
        /\ g.gray \subseteq Nodes /\ g.gray \intersect Q = {}
    BY DEF Good, Frame, Bounds, Params, Work
  <1>2. h \in Work /\ h.gray = g.gray \ {o} /\ h.color = g.color /\ SameRest(g, h)
        /\ SameLists(g, h) /\ h.touched = g.touched /\ h.twups = g.twups /\ h.grayagain = g.grayagain
    BY <1>1 DEF Work, SameRest, SameLists
  <1> DEFINE H == h
  <1> HIDE DEF h
  <1>3. /\ NW(h) = NW(g) /\ Waiting(h, Q \union {o}) = Waiting(g, Q)
        /\ Done(h, Q \union {o}) = Done(g, Q) /\ Turned(h, c) = Turned(g, c)
    <2>1. NW(h) = NW(g)
      BY <1>2 DEF NW
    <2>2. Waiting(h, Q \union {o}) = Waiting(g, Q)
      BY <1>2 DEF Waiting
    <2> QED BY <2>1, <2>2 DEF Done, Turned
  <1>4. Good(h, Q \union {o}, c)
    <2>1. Frame(h)
      BY <1>1, <1>2 DEF Frame
    <2>2. Data(h, Q \union {o}, c)
      BY <1>2, <1>3 DEF Good, Data, SameRest
    <2>3. Bounds(h, Q \union {o}, c)
      BY <1>2, <1>3 DEF Good, Bounds, SameRest, SameLists
    <2>4. Colored(h, Q \union {o})
      BY <1>2, <1>3 DEF Good, Colored
    <2>5. Scanned(h, Q \union {o}, c)
      BY <1>3 DEF Good, Scanned
    <2>6. Tables(h, Q \union {o}, c)
      BY <1>2, <1>3 DEF Good, Tables, SameRest, SameLists
    <2>7. Members(h, c)
      BY <1>2, <1>3 DEF Good, Members, SameRest, SameLists
    <2>8. Fresh(h, c)
      BY <1>2, <1>3 DEF Good, Fresh, SameLists
    <2>9. Threaded(h, Q \union {o}, c)
      BY <1>2, <1>3 DEF Good, Threaded
    <2> QED BY <2>1, <2>2, <2>3, <2>4, <2>5, <2>6, <2>7, <2>8, <2>9 DEF Good
  <1>5. o \in Waiting(g, Q) /\ o \in NW(g) /\ o \in Nodes /\ o \notin Q
    BY <1>1 DEF Waiting
  <1>6. h.color[o] = "gray" /\ ~IsA(o, "userdata") /\ o \in Turned(h, c) /\ o \notin c.old
    BY <1>2, <1>3, <1>5 DEF Good, Colored, Bounds, Fresh
  <1>7. Known(h, o)
    <2>1. o \notin c.X /\ \A x \in c.X : kind[x] # "thread"
      BY <1>5 DEF Good, Data, Done
    <2> QED BY <1>2, <2>1 DEF Good, Data, Known, SameRest
  <1>8. Ready(h, o)
    BY <1>3, <1>4, <1>5, <1>6, <1>7 DEF Ready, Good
  <1>9. Visits(h, m, o, i)
    <2>1. h = [g EXCEPT !.gray = @ \ {o}]
      BY DEF h
    <2> HIDE DEF m, i
    <2>2. Visits(h, PropagateMark(g, o, i), o, i)
      BY <1>1, <1>6, <1>8, <2>1, PropagateVisits
    <2> QED BY <2>2 DEF m
  <1> HIDE DEF m
  <1>10. Good(m, Q, c) /\ NW(g) \subseteq NW(m)
    <2>1. o \notin h.gray
      BY <1>2
    <2>2. Good(m, Q, c) /\ NW(h) \subseteq NW(m)
      BY <1>4, <1>5, <1>6, <1>9, <2>1, VisitKeeps
    <2> QED BY <1>3, <2>2
  <1>11. PICK V : Visit(h, m, o, V) /\ V \in SUBSET Value
    BY <1>9 DEF Visits, VisitRefs
  <1>12. Left(m) \subseteq Left(g) \ {o}
    <2>1. ToMark(h, V) \subseteq Objects /\ ToMark(h, V) \intersect NW(h) = {}
          /\ \A x \in ToMark(h, V) : h.color[x] = "white"
      BY <1>4, <1>3, <1>5, <1>11, VisitFrame DEF Good, ToMark, IsWhite
    <2>2. /\ \A x \in Nodes : m.color[x] = IF x = o THEN IF Marks!StaysGray(o) THEN "gray" ELSE "black"
                                   ELSE IF x \notin ToMark(h, V) THEN h.color[x]
                                   ELSE IF kind[x] = "userdata" THEN "black" ELSE "gray"
          /\ m.gray = h.gray \union {v \in ToMark(h, V) : kind[v] # "userdata"}
      BY <1>11 DEF Visit
    <2>3. \A x \in Nodes : m.color[x] = "white" => h.color[x] = "white" /\ x # o
      BY <2>2
    <2>4. \A x \in m.gray : x # o /\ (x \in h.gray \/ (x \in Nodes /\ h.color[x] = "white"))
      BY <1>2, <1>3, <1>5, <2>1, <2>2 DEF Nodes
    <2> QED BY <1>2, <2>3, <2>4 DEF Left
  <1>13. m.next = g.next /\ m.changed = g.changed
    BY <1>2, <1>11 DEF Visit, SameRest
  <1> QED BY <1>10, <1>12, <1>13 DEF m

NodesFinite == IsFiniteSet(Nodes) /\ Cardinality(Nodes) \in Nat
\* Nodes is finite.
LEMMA NodesAreFinite == NodesFinite
  <1>1. IsFiniteSet({Main})
    BY FS_Singleton
  <1>2. IsFiniteSet(Objects \union {Main})
    BY <1>1, ObjectsFinite, FS_Union
  <1> QED BY <1>2, FS_CardinalityType DEF NodesFinite, Nodes

\* A set shrinks when it loses an element.
LEMMA Shrinks ==
  ASSUME NEW A, NEW B, IsFiniteSet(B), NEW x \in B, A \subseteq B \ {x}
  PROVE  Cardinality(A) \in Nat /\ Cardinality(B) \in Nat /\ Cardinality(A) + 1 <= Cardinality(B)
  <1>1. Cardinality(B \ {x}) = Cardinality(B) - 1 /\ IsFiniteSet(B \ {x})
    BY FS_RemoveElement
  <1>2. Cardinality(A) <= Cardinality(B \ {x}) /\ IsFiniteSet(A)
    BY <1>1, FS_Subset
  <1>3. Cardinality(A) \in Nat /\ Cardinality(B) \in Nat
    BY <1>2, FS_CardinalityType
  <1> QED BY <1>1, <1>2, <1>3

\* A step can be repeated.
LEMMA Repeats ==
  ASSUME NEW A, NEW a \in A, NEW step \in [A -> A]
  PROVE  \E f \in [Nat -> A] : f[0] = a /\ \A n \in Nat : f[n + 1] = step[f[n]]
  <1> DEFINE steps == [n \in Nat |-> step]
  <1>1. steps \in Steps(A)
    BY DEF Steps
  <1>2. PICK f : Iteration(f, A, a, steps)
    BY <1>1, Iterates
  <1> QED BY <1>2 DEF Iteration

\* The parts of propagateall: the step it repeats, and what it comes to.
PropagateStep(g, i) ==
  IF g.gray = {} THEN g ELSE PropagateMark(g, CHOOSE o \in g.gray : TRUE, i)
Propagated(h, m, Q, c) ==
  /\ Good(m, Q, c) /\ m.gray = {} /\ NW(h) \subseteq NW(m)
  /\ m.next = h.next /\ m.changed = h.changed

\* propagateall ends with gray empty, and Good.
LEMMA PropagateAllIs ==
  ASSUME Sound, NEW c, Params(c), NEW h, NEW Q, Good(h, Q, c)
  PROVE  Propagated(h, PropagateAll(h, c.inside), Q, c)
  <1> DEFINE i == c.inside
             N == Cardinality(Nodes)
             A == {g \in Work : Good(g, Q, c)}
             step == [g \in A |-> PropagateStep(g, i)]
             Is(f) == f = [n \in Nat |-> IF n = 0 THEN h ELSE PropagateStep(f[n - 1], i)]
  <1>1. \A g : Good(g, Q, c) => g \in A
    BY DEF Good, Frame
  <1>2. ASSUME NEW g \in A
        PROVE  LET m == PropagateStep(g, i)
               IN  /\ m \in A /\ NW(g) \subseteq NW(m) /\ m.next = g.next /\ m.changed = g.changed
                   /\ IF g.gray = {} THEN m = g ELSE \E o \in g.gray : Left(m) \subseteq Left(g) \ {o}
    <2>1. CASE g.gray = {}
      BY <2>1 DEF PropagateStep
    <2>2. CASE g.gray # {}
      <3> DEFINE o == CHOOSE o \in g.gray : TRUE
                 m == PropagateMark(g, o, i)
      <3>1. o \in g.gray
        BY <2>2
      <3>2. PropagateStep(g, i) = m
        BY <2>2 DEF PropagateStep
      <3> HIDE DEF o
      <3>3. /\ Good(m, Q, c) /\ NW(g) \subseteq NW(m) /\ Left(m) \subseteq Left(g) \ {o}
            /\ m.next = g.next /\ m.changed = g.changed
        <4>1. Good(g, Q, c)
          OBVIOUS
        <4> QED BY <3>1, <4>1, PropagateMarkKeeps
      <3> HIDE DEF m
      <3>4. m \in A
        BY <1>1, <3>3
      <3> QED BY <2>2, <3>1, <3>2, <3>3, <3>4
    <2> QED BY <2>1, <2>2
  <1> HIDE DEF A
  <1>3. step \in [A -> A]
    BY <1>2
  <1>4. h \in A
    BY <1>1
  <1>5. PICK f \in [Nat -> A] : f[0] = h /\ \A n \in Nat : f[n + 1] = step[f[n]]
    <2> HIDE DEF step
    <2> QED BY <1>3, <1>4, Repeats
  <1>6. Is(f)
    <2>1. ASSUME NEW n \in Nat PROVE f[n] = IF n = 0 THEN h ELSE PropagateStep(f[n - 1], i)
      <3>1. CASE n = 0
        BY <1>5, <3>1
      <3>2. CASE n # 0
        <4>1. n - 1 \in Nat /\ (n - 1) + 1 = n /\ f[n - 1] \in A
          BY <3>2
        <4> HIDE DEF i
        <4>2. step[f[n - 1]] = PropagateStep(f[n - 1], i)
          BY <4>1
        <4> HIDE DEF step
        <4> QED BY <1>5, <3>2, <4>1, <4>2
      <3> QED BY <3>1, <3>2
    <2> QED BY <2>1
  <1>7. PICK after : Is(after) /\ PropagateAll(h, i) = after[N]
    <2>1. PropagateAll(h, i) = (CHOOSE after : Is(after))[N]
      BY DEF PropagateAll, PropagateStep
    <2> HIDE DEF Is
    <2> QED BY <1>6, <2>1
  <1>8. after[0] = h /\ \A n \in Nat : after[n + 1] = PropagateStep(after[n], i)
    <2>1. after[0] = h
      BY <1>7
    <2>2. ASSUME NEW n \in Nat PROVE after[n + 1] = PropagateStep(after[n], i)
      <3>1. n + 1 \in Nat /\ n + 1 # 0 /\ (n + 1) - 1 = n
        OBVIOUS
      <3> QED BY <1>7, <3>1
    <2> QED BY <2>1, <2>2
  <1> DEFINE OK(n, g) == /\ g \in A /\ NW(h) \subseteq NW(g) /\ g.next = h.next /\ g.changed = h.changed
                         /\ g.gray = {} \/ (Cardinality(Left(g)) \in Nat /\ Cardinality(Left(g)) + n <= N)
             T == {n \in Nat : OK(n, after[n])}
  <1> HIDE DEF Is
  <1>9. /\ N \in Nat
        /\ \A g \in A : IsFiniteSet(Left(g)) /\ Cardinality(Left(g)) \in Nat /\ Cardinality(Left(g)) <= N
    <2>1. N \in Nat
      BY NodesAreFinite DEF NodesFinite
    <2>2. ASSUME NEW g \in A
          PROVE  IsFiniteSet(Left(g)) /\ Cardinality(Left(g)) \in Nat /\ Cardinality(Left(g)) <= N
      <3>1. Left(g) \subseteq Nodes
        BY DEF Left, A, Work
      <3> QED BY <3>1, NodesAreFinite, FS_Subset, FS_CardinalityType DEF NodesFinite
    <2> QED BY <2>1, <2>2
  <1> HIDE DEF N
  <1>10. 0 \in T
    BY <1>4, <1>8, <1>9
  <1>11. ASSUME NEW n \in Nat, n \in T PROVE n + 1 \in T
    <2> DEFINE g == after[n]
               m == PropagateStep(g, i)
    <2>1. OK(n, g)
      BY <1>11
    <2>2. after[n + 1] = m
      BY <1>8
    <2>3. /\ m \in A /\ NW(g) \subseteq NW(m) /\ m.next = g.next /\ m.changed = g.changed
          /\ IF g.gray = {} THEN m = g ELSE \E o \in g.gray : Left(m) \subseteq Left(g) \ {o}
      <3>1. g \in A
        BY <2>1
      <3> HIDE DEF g, i
      <3> QED BY <1>2, <3>1
    <2> HIDE DEF g, m
    <2>4. CASE g.gray = {}
      <3>1. OK(n + 1, m)
        BY <2>1, <2>3, <2>4
      <3> QED BY <2>2, <3>1
    <2>5. CASE g.gray # {}
      <3>1. PICK o \in g.gray : Left(m) \subseteq Left(g) \ {o}
        BY <2>3, <2>5
      <3>2. o \in Left(g)
        BY DEF Left
      <3>3. Cardinality(Left(m)) \in Nat /\ Cardinality(Left(g)) \in Nat
            /\ Cardinality(Left(m)) + 1 <= Cardinality(Left(g))
        BY <1>9, <2>1, <3>1, <3>2, Shrinks
      <3>4. Cardinality(Left(g)) + n <= N
        BY <2>1, <2>5
      <3>5. Cardinality(Left(m)) + (n + 1) <= N
        BY <1>9, <3>3, <3>4
      <3>6. OK(n + 1, m)
        BY <2>1, <2>3, <3>3, <3>5
      <3> QED BY <2>2, <3>6
    <2> QED BY <2>4, <2>5
  <1> HIDE DEF T
  <1>12. Nat \subseteq T
    BY <1>10, <1>11, Reaches
  <1>13. OK(N, after[N])
    BY <1>9, <1>12 DEF T
  <1> DEFINE m == after[N]
  <1> HIDE DEF m
  <1>14. m.gray = {}
    <2> SUFFICES ASSUME m.gray # {} PROVE FALSE
      OBVIOUS
    <2>1. Cardinality(Left(m)) = 0 /\ IsFiniteSet(Left(m))
      BY <1>9, <1>13 DEF m
    <2>2. Left(m) = {}
      BY <2>1, FS_EmptySet
    <2> QED BY <2>2 DEF Left
  <1>15. Good(m, Q, c) /\ NW(h) \subseteq NW(m) /\ m.next = h.next /\ m.changed = h.changed
    BY <1>13 DEF m, A
  <1> QED BY <1>7, <1>14, <1>15 DEF Propagated, m

-----------------------------------------------------------------------------
(* convergeephemerons.                                                     *)

Whites(h) == {x \in Nodes : h.color[x] = "white"}
\* When nothing was marked since the pass began, the tables in the list have white keys.
Keyless(h) == ~h.changed => \A o \in h.ephemeron : key[o] \notin NW(h) \union {None}
Converging(h, c) == Good(h, {}, c) /\ h.gray = {} /\ Keyless(h)

\* What is white gets less.
LEMMA WhitesShrink ==
  ASSUME NEW h, NEW m, Frame(h), Frame(m), NW(h) \subseteq NW(m)
  PROVE  Whites(m) \subseteq Whites(h) \ NW(m)
  BY DEF Frame, Work, MP!Color, NW, Whites

\* An ephemeron table leaves the rest of the pass.
LEMMA LeavesNext ==
  ASSUME Sound, NEW c, NEW h, Good(h, {}, c), h.gray = {}, c.inside, NEW o \in h.next
  PROVE  LET g == [h EXCEPT !.next = @ \ {o}]
         IN  /\ Good(g, {o}, c) /\ Ready(g, o) /\ IsA(o, "ephemeron") /\ o \in Turned(g, c)
             /\ o \in Nodes /\ g.gray = {} /\ g.next = h.next \ {o} /\ g.changed = h.changed
             /\ g.color = h.color /\ g.ephemeron = h.ephemeron /\ NW(g) = NW(h)
  <1> DEFINE g == [h EXCEPT !.next = @ \ {o}]
  <1>1. h \in Work /\ Frame(h) /\ o \in NW(h) /\ IsA(o, "ephemeron") /\ o \in Nodes /\ o \in Turned(h, c)
    BY DEF Good, Frame, Members, Bounds, NW
  <1>2. /\ g \in Work /\ g.next = h.next \ {o} /\ g.gray = h.gray /\ g.color = h.color
        /\ SameLists(h, g) /\ g.key = h.key /\ g.val = h.val /\ g.changed = h.changed
        /\ g.touched = h.touched /\ g.twups = h.twups
    BY <1>1 DEF Work, SameLists
  <1> HIDE DEF g
  <1>3. /\ NW(g) = NW(h) /\ Waiting(g, {o}) = {o} /\ Done(h, {}) = NW(h)
        /\ Done(g, {o}) = NW(h) \ {o} /\ Turned(g, c) = Turned(h, c) /\ Waiting(h, {}) = {}
    BY <1>2 DEF NW, Waiting, Done, Turned
  <1>4. h.color[o] = "gray"
    <2>1. Marks!StaysGray(o)
      BY <1>1, StaysGrayIs
    <2> QED BY <1>1, <1>3, <2>1 DEF Good, Colored
  <1>5. o \notin c.X
    BY <1>1 DEF Good, Data, IsA
  <1>6. Good(g, {o}, c)
    <2>1. Frame(g)
      BY <1>1, <1>2 DEF Frame
    <2>2. Data(g, {o}, c)
      BY <1>2, <1>3, <1>5 DEF Good, Data
    <2>3. Bounds(g, {o}, c)
      BY <1>1, <1>2, <1>3 DEF Good, Bounds, SameLists
    <2>4. Colored(g, {o})
      BY <1>1, <1>2, <1>3, <1>4 DEF Good, Colored, IsA
    <2>5. Scanned(g, {o}, c)
      BY <1>3 DEF Good, Scanned
    <2>6. Tables(g, {o}, c)
      BY <1>2, <1>3 DEF Good, Tables, SameLists
    <2>7. Members(g, c)
      BY <1>2, <1>3 DEF Good, Members, SameLists
    <2>8. Fresh(g, c)
      BY <1>2, <1>3 DEF Good, Fresh, SameLists
    <2>9. Threaded(g, {o}, c)
      BY <1>2, <1>3 DEF Good, Threaded
    <2> QED BY <2>1, <2>2, <2>3, <2>4, <2>5, <2>6, <2>7, <2>8, <2>9 DEF Good
  <1>7. Known(g, o)
    <2>1. \A x \in c.X : kind[x] # "thread"
      BY DEF Good, Data
    <2> QED BY <1>2, <1>5, <2>1 DEF Good, Data, Known
  <1>8. Ready(g, o)
    BY <1>1, <1>2, <1>3, <1>4, <1>6, <1>7 DEF Ready, Good
  <1> QED BY <1>1, <1>2, <1>3, <1>6, <1>8 DEF g, SameLists

\* A pass goes on, with a table whose key or value is white, or without one more.
LEMMA PassTraverses ==
  ASSUME Sound, NEW c, Params(c), NEW h, Converging(h, c), c.inside = TRUE, NEW o \in h.next
  PROVE  LET t == TraverseEphemeron([h EXCEPT !.next = @ \ {o}], o)
         IN  /\ Good(t, {}, c) /\ NW(h) \subseteq NW(t) /\ t.next = h.next \ {o}
             /\ t.changed = h.changed
             /\ IF t.color = h.color THEN Converging(t, c)
                ELSE \E x \in NW(t) : x \in Whites(h)
  <1> DEFINE g == [h EXCEPT !.next = @ \ {o}]
             t == TraverseEphemeron(g, o)
  <1>0. Good(h, {}, c) /\ h.gray = {} /\ Keyless(h) /\ c.inside
    BY DEF Converging
  <1>1. /\ Good(g, {o}, c) /\ Ready(g, o) /\ IsA(o, "ephemeron") /\ o \in Turned(g, c)
        /\ o \in Nodes /\ g.gray = {} /\ g.next = h.next \ {o} /\ g.changed = h.changed
        /\ g.color = h.color /\ g.ephemeron = h.ephemeron /\ NW(g) = NW(h)
    BY <1>0, LeavesNext
  <1> HIDE DEF g
  <1>2. o # Main /\ kind[o] = "ephemeron"
    BY <1>1 DEF IsA
  <1>3. Visits(g, t, o, c.inside)
    <2>1. Visits(g, TraverseEphemeron(g, o), o, TRUE)
      BY <1>1, <1>2, EphemeronVisits
    <2> QED BY <2>1
  <1>4. t.ephemeron # g.ephemeron => key[o] \notin NW(h) \union {None}
    <2>1. /\ g \in Work /\ g.key[o] = key[o] /\ key[o] \in Value /\ g.val[o] = val[o] /\ val[o] \in Value
      BY <1>1, <1>2, ReadyIs
    <2>2. CASE ~IsWhite(g, g.key[o])
      <3>1. t = MarkIn(g, {val[o]})
        BY <2>1, <2>2 DEF TraverseEphemeron
      <3>2. {val[o]} \in SUBSET Value
        BY <2>1
      <3>3. SameLists(g, MarkIn(g, {val[o]}))
        BY <2>1, <3>2, MarkInIs DEF MarkedIn
      <3> QED BY <3>1, <3>3 DEF SameLists
    <2>3. CASE IsWhite(g, g.key[o])
      BY <1>1, <2>1, <2>3 DEF IsWhite, NW
    <2> QED BY <2>2, <2>3
  <1> HIDE DEF t
  <1>5. Good(t, {}, c) /\ NW(g) \subseteq NW(t)
    <2> DEFINE Q == {}
    <2>1. Q \union {o} = {o} /\ o \notin g.gray /\ o \notin Q
      BY <1>1
    <2> HIDE DEF Q
    <2>2. Good(g, Q \union {o}, c)
      BY <1>1, <2>1
    <2>3. Good(t, Q, c) /\ NW(g) \subseteq NW(t)
      BY <1>1, <1>3, <2>1, <2>2, VisitKeeps
    <2> QED BY <2>3 DEF Q
  <1>6. PICK V : Visit(g, t, o, V) /\ V \in SUBSET Value /\ VisitLists(g, t, o)
    BY <1>3 DEF Visits, VisitRefs
  <1>7. /\ \A x \in Nodes : t.color[x] = IF x = o THEN "gray"
                                   ELSE IF x \notin ToMark(g, V) THEN h.color[x]
                                   ELSE IF kind[x] = "userdata" THEN "black" ELSE "gray"
        /\ t.gray = {v \in ToMark(g, V) : kind[v] # "userdata"}
        /\ t.next = g.next /\ t.changed = g.changed
    <2>1. Marks!StaysGray(o)
      BY <1>1, StaysGrayIs
    <2> QED BY <1>1, <1>6, <2>1 DEF Visit, SameRest
  <1>8. ToMark(g, V) \subseteq Objects /\ ToMark(g, V) \subseteq Nodes
        /\ \A x \in ToMark(g, V) : h.color[x] = "white" /\ x \in NW(t)
    <2>1. ToMark(g, V) \subseteq Objects /\ NW(t) = NW(g) \union ToMark(g, V)
      BY <1>1, <1>6, VisitFrame DEF Ready
    <2> QED BY <1>1, <2>1 DEF ToMark, IsWhite, Nodes
  <1>9. h.color[o] = "gray"
    BY <1>1 DEF Ready
  <1>10. CASE t.color = h.color
    <2>1. ToMark(g, V) = {}
      <3>1. \A x \in ToMark(g, V) : FALSE
        BY <1>7, <1>8, <1>9, <1>10
      <3> QED BY <3>1
    <2>2. t.gray = {} /\ NW(t) = NW(h)
      BY <1>7, <1>10, <2>1 DEF NW
    <2>3. Keyless(t)
      <3>1. t.ephemeron \in {h.ephemeron, h.ephemeron \union {o}}
        BY <1>1, <1>6 DEF VisitLists, VisitEphemeron
      <3> QED BY <1>0, <1>1, <1>4, <1>7, <2>2, <3>1 DEF Keyless
    <2>4. Converging(t, c)
      BY <1>5, <2>2, <2>3 DEF Converging
    <2> QED BY <1>1, <1>5, <1>7, <1>10, <2>4 DEF t, g
  <1>11. CASE t.color # h.color
    <2>1. \E x \in NW(t) : x \in Whites(h)
      <3>1. t \in Work /\ h \in Work
        BY <1>0, <1>5 DEF Good, Frame
      <3>2. PICK x \in Nodes : t.color[x] # h.color[x]
        BY <1>11, <3>1 DEF Work
      <3>3. x \in ToMark(g, V)
        BY <1>7, <1>9, <3>2
      <3> QED BY <1>8, <3>3 DEF Whites
    <2> QED BY <1>1, <1>5, <1>7, <1>11, <2>1 DEF t, g
  <1> QED BY <1>10, <1>11

\* The list is the rest of the next pass.
LEMMA PassBegins ==
  ASSUME NEW c, NEW h, Converging(h, c), h.next = {}, c.inside
  PROVE  LET m == [h EXCEPT !.next = h.ephemeron, !.ephemeron = {}, !.changed = FALSE]
         IN  /\ Converging(m, c) /\ NW(m) = NW(h) /\ m.next = h.ephemeron /\ m.color = h.color
             /\ m.changed = FALSE
  <1> DEFINE m == [h EXCEPT !.next = h.ephemeron, !.ephemeron = {}, !.changed = FALSE]
  <1>1. Good(h, {}, c) /\ h.gray = {} /\ h \in Work
    BY DEF Converging, Good, Frame
  <1>2. /\ m \in Work /\ m.next = h.ephemeron /\ m.ephemeron = {} /\ m.changed = FALSE
        /\ m.color = h.color /\ m.gray = h.gray /\ m.weak = h.weak /\ m.allweak = h.allweak
        /\ m.key = h.key /\ m.val = h.val /\ m.touched = h.touched /\ m.twups = h.twups
    BY <1>1 DEF Work
  <1> HIDE DEF m
  <1>3. /\ NW(m) = NW(h) /\ Waiting(m, {}) = Waiting(h, {})
        /\ Done(m, {}) = Done(h, {}) /\ Turned(m, c) = Turned(h, c)
    BY <1>2 DEF NW, Waiting, Done, Turned
  <1>4. Good(m, {}, c)
    <2>1. Frame(m)
      BY <1>1, <1>2 DEF Good, Frame
    <2>2. Data(m, {}, c)
      BY <1>1, <1>2, <1>3 DEF Good, Data
    <2>3. Bounds(m, {}, c)
      BY <1>1, <1>2, <1>3 DEF Good, Bounds
    <2>4. Colored(m, {})
      BY <1>1, <1>2, <1>3 DEF Good, Colored
    <2>5. Scanned(m, {}, c)
      BY <1>1, <1>3 DEF Good, Scanned
    <2>6. Tables(m, {}, c)
      BY <1>1, <1>2, <1>3 DEF Good, Tables
    <2>7. Members(m, c)
      BY <1>1, <1>2, <1>3 DEF Good, Members
    <2>8. Fresh(m, c)
      BY <1>1, <1>2, <1>3 DEF Good, Fresh
    <2>9. Threaded(m, {}, c)
      BY <1>1, <1>2, <1>3 DEF Good, Threaded
    <2> QED BY <2>1, <2>2, <2>3, <2>4, <2>5, <2>6, <2>7, <2>8, <2>9 DEF Good
  <1>5. Converging(m, c)
    BY <1>1, <1>2, <1>4 DEF Converging, Keyless
  <1> QED BY <1>2, <1>3, <1>5 DEF m

\* Nothing but changed differs.
LEMMA ChangedKeeps ==
  ASSUME NEW c, NEW h, Good(h, {}, c), h.gray = {}
  PROVE  LET m == [h EXCEPT !.changed = TRUE]
         IN  /\ Converging(m, c) /\ NW(m) = NW(h) /\ m.color = h.color /\ m.next = h.next
             /\ m.changed = TRUE
  <1> DEFINE m == [h EXCEPT !.changed = TRUE]
  <1>1. h \in Work
    BY DEF Good, Frame
  <1>2. /\ m \in Work /\ m.next = h.next /\ m.ephemeron = h.ephemeron /\ m.changed = TRUE
        /\ m.color = h.color /\ m.gray = h.gray /\ m.weak = h.weak /\ m.allweak = h.allweak
        /\ m.key = h.key /\ m.val = h.val /\ m.touched = h.touched /\ m.twups = h.twups
        /\ m.grayagain = h.grayagain
    BY <1>1 DEF Work
  <1> HIDE DEF m
  <1>3. /\ NW(m) = NW(h) /\ Waiting(m, {}) = Waiting(h, {})
        /\ Done(m, {}) = Done(h, {}) /\ Turned(m, c) = Turned(h, c)
    BY <1>2 DEF NW, Waiting, Done, Turned
  <1>4. Good(m, {}, c)
    <2>1. Frame(m)
      BY <1>2 DEF Good, Frame
    <2>2. Data(m, {}, c)
      BY <1>2, <1>3 DEF Good, Data
    <2>3. Bounds(m, {}, c)
      BY <1>2, <1>3 DEF Good, Bounds
    <2>4. Colored(m, {})
      BY <1>2, <1>3 DEF Good, Colored
    <2>5. Scanned(m, {}, c)
      BY <1>3 DEF Good, Scanned
    <2>6. Tables(m, {}, c)
      BY <1>2, <1>3 DEF Good, Tables
    <2>7. Members(m, c)
      BY <1>2, <1>3 DEF Good, Members
    <2>8. Fresh(m, c)
      BY <1>2, <1>3 DEF Good, Fresh
    <2>9. Threaded(m, {}, c)
      BY <1>2, <1>3 DEF Good, Threaded
    <2> QED BY <2>1, <2>2, <2>3, <2>4, <2>5, <2>6, <2>7, <2>8, <2>9 DEF Good
  <1>5. Converging(m, c)
    BY <1>2, <1>4 DEF Converging, Keyless
  <1> QED BY <1>2, <1>3, <1>5 DEF m

\* What is left to do: whites, and then passes.
Rank(h) ==
  LET D == Cardinality(Nodes) + 1
  IN  Cardinality(Whites(h)) * D + (IF h.changed THEN D ELSE 0) + Cardinality(h.next)

\* A bound on what one pass and all passes can do.
LEMMA Product ==
  ASSUME NEW v \in Nat, NEW w \in Nat, v + 1 <= w, NEW D \in Nat
  PROVE  v * D \in Nat /\ w * D \in Nat /\ v * D + D <= w * D
  <1>1. v * D + D = (v + 1) * D
    OBVIOUS
  <1>2. (v + 1) * D <= w * D
    OBVIOUS
  <1> QED BY <1>1, <1>2

LEMMA NextFinite ==
  ASSUME NEW h \in Work
  PROVE  /\ IsFiniteSet(h.next) /\ IsFiniteSet(h.ephemeron) /\ IsFiniteSet(Whites(h))
         /\ Cardinality(h.next) \in Nat /\ Cardinality(h.ephemeron) \in Nat
         /\ Cardinality(Whites(h)) \in Nat /\ Cardinality(Nodes) \in Nat
         /\ Cardinality(h.ephemeron) <= Cardinality(Nodes)
         /\ Cardinality(Whites(h)) <= Cardinality(Nodes)
  <1>1. h.next \subseteq Nodes /\ h.ephemeron \subseteq Nodes /\ Whites(h) \subseteq Nodes
    BY DEF Work, Nodes, Whites
  <1>2. \A V \in SUBSET Nodes : IsFiniteSet(V) /\ Cardinality(V) \in Nat
                                /\ Cardinality(V) <= Cardinality(Nodes)
    BY NodesAreFinite, FS_Subset, FS_CardinalityType DEF NodesFinite
  <1>3. Cardinality(Nodes) \in Nat
    BY NodesAreFinite DEF NodesFinite
  <1> QED BY <1>1, <1>2, <1>3

\* A step of the passes, until the last pass ended.
Converges(h, m, c) ==
  /\ Converging(m, c) /\ NW(h) \subseteq NW(m)
  /\ IF h.next = {} /\ ~h.changed THEN m = h ELSE Rank(m) \in Nat /\ Rank(h) \in Nat /\ Rank(m) + 1 <= Rank(h)

\* A step of convergeephemerons keeps Good and takes it closer to its end.
LEMMA ConvergeStepIs ==
  ASSUME Sound, NEW c, Params(c), c.inside = TRUE, NEW h, Converging(h, c)
  PROVE  Converges(h, ConvergeStep(h), c)
  <1> DEFINE D == Cardinality(Nodes) + 1
             w(g) == Cardinality(Whites(g))
             p(g) == IF g.changed THEN D ELSE 0
             n(g) == Cardinality(g.next)
  <1>1. h \in Work /\ Good(h, {}, c) /\ h.gray = {} /\ c.inside
    BY DEF Converging, Good, Frame
  <1>2. D \in Nat /\ \A g \in Work : /\ w(g) \in Nat /\ n(g) \in Nat /\ p(g) \in {0, D}
                                     /\ IsFiniteSet(g.next) /\ IsFiniteSet(Whites(g))
                                     /\ Cardinality(g.ephemeron) + 1 <= D
                                     /\ Rank(g) = w(g) * D + p(g) + n(g)
    <2>1. D \in Nat
      BY NodesAreFinite DEF NodesFinite
    <2>2. ASSUME NEW g \in Work
          PROVE  /\ w(g) \in Nat /\ n(g) \in Nat /\ p(g) \in {0, D}
                 /\ IsFiniteSet(g.next) /\ IsFiniteSet(Whites(g))
                 /\ Cardinality(g.ephemeron) + 1 <= D
                 /\ Rank(g) = w(g) * D + p(g) + n(g)
      <3>1. /\ w(g) \in Nat /\ n(g) \in Nat /\ IsFiniteSet(g.next) /\ IsFiniteSet(Whites(g))
            /\ Cardinality(g.ephemeron) + 1 <= D
        BY NextFinite
      <3>2. Rank(g) = w(g) * D + p(g) + n(g)
        BY DEF Rank
      <3>3. p(g) \in {0, D}
        OBVIOUS
      <3> QED BY <3>1, <3>2, <3>3
    <2> QED BY <2>1, <2>2
  <1> HIDE DEF D
  <1>3. \A g \in Work : w(g) * D \in Nat
    BY <1>2
  <1>4. CASE h.next # {}
    <2> DEFINE o == CHOOSE o \in h.next : TRUE
               t == TraverseEphemeron([h EXCEPT !.next = @ \ {o}], o)
               m == [PropagateAll(t, TRUE) EXCEPT !.changed = TRUE]
    <2>1. o \in h.next
      BY <1>4
    <2>2. ConvergeStep(h) = IF t.color = h.color THEN t ELSE m
      BY <1>4 DEF ConvergeStep
    <2> HIDE DEF o
    <2>3. /\ Good(t, {}, c) /\ NW(h) \subseteq NW(t) /\ t.next = h.next \ {o}
          /\ t.changed = h.changed
          /\ IF t.color = h.color THEN Converging(t, c)
             ELSE \E x \in NW(t) : x \in Whites(h)
      BY <2>1, PassTraverses
    <2> HIDE DEF t
    <2>4. t \in Work
      BY <2>3 DEF Good, Frame
    <2>5. CASE t.color = h.color
      <3>1. Whites(t) = Whites(h) /\ n(t) + 1 <= n(h)
        BY <1>1, <1>2, <2>1, <2>3, <2>5, Shrinks DEF Whites
      <3>2. Rank(t) \in Nat /\ Rank(h) \in Nat /\ Rank(t) + 1 <= Rank(h)
        <4>1. w(t) = w(h) /\ p(t) = p(h)
          BY <2>3, <3>1
        <4> HIDE DEF w, p, n
        <4> QED BY <1>1, <1>2, <1>3, <2>4, <3>1, <4>1
      <3> QED BY <1>4, <2>2, <2>3, <2>5, <3>2 DEF Converges
    <2>6. CASE t.color # h.color
      <3> DEFINE r == PropagateAll(t, TRUE)
      <3>1. Propagated(t, r, {}, c)
        <4> DEFINE i == TRUE
        <4>1. c.inside = i
          OBVIOUS
        <4> HIDE DEF i
        <4>2. Propagated(t, PropagateAll(t, c.inside), {}, c)
          BY <2>3, PropagateAllIs
        <4> QED BY <4>1, <4>2 DEF i
      <3> HIDE DEF r
      <3>2. /\ Good(r, {}, c) /\ r.gray = {} /\ NW(t) \subseteq NW(r)
            /\ r.next = t.next /\ r.changed = t.changed
        BY <3>1 DEF Propagated
      <3>3. m = [r EXCEPT !.changed = TRUE]
        BY DEF r
      <3> HIDE DEF m
      <3>4. Converging(m, c) /\ NW(m) = NW(r) /\ m.color = r.color /\ m.next = r.next /\ m.changed = TRUE
        BY <3>2, <3>3, ChangedKeeps
      <3>5. m \in Work /\ Frame(m) /\ Frame(h)
        BY <1>1, <3>4 DEF Converging, Good, Frame
      <3>6. NW(h) \subseteq NW(m)
        BY <2>3, <3>2, <3>4
      <3>7. PICK x \in NW(m) : x \in Whites(h)
        BY <2>3, <2>6, <3>2, <3>4
      <3>8. Whites(m) \subseteq Whites(h) \ {x}
        BY <3>5, <3>6, <3>7, WhitesShrink
      <3>9. w(m) + 1 <= w(h)
        BY <1>1, <1>2, <3>7, <3>8, Shrinks
      <3>10. n(m) + 1 <= n(h)
        <4>1. m.next \subseteq h.next \ {o}
          BY <2>3, <3>2, <3>4
        <4> QED BY <1>1, <1>2, <2>1, <4>1, Shrinks
      <3>11. p(m) = D
        BY <3>4
      <3>12. Rank(m) \in Nat /\ Rank(h) \in Nat /\ Rank(m) + 1 <= Rank(h)
        <4> HIDE DEF w, p, n
        <4>1. w(m) * D + D <= w(h) * D
          BY <1>1, <1>2, <3>5, <3>9, Product
        <4> QED BY <1>1, <1>2, <1>3, <3>5, <3>10, <3>11, <4>1
      <3> QED BY <1>4, <2>2, <2>6, <3>4, <3>6, <3>12 DEF Converges
    <2> QED BY <2>5, <2>6
  <1>5. CASE h.next = {} /\ h.changed
    <2> DEFINE m == [h EXCEPT !.next = h.ephemeron, !.ephemeron = {}, !.changed = FALSE]
    <2>1. ConvergeStep(h) = m
      BY <1>5 DEF ConvergeStep
    <2>2. /\ Converging(m, c) /\ NW(m) = NW(h) /\ m.next = h.ephemeron /\ m.color = h.color
          /\ m.changed = FALSE
      BY <1>1, <1>5, PassBegins
    <2> HIDE DEF m
    <2>3. m \in Work
      BY <2>2 DEF Converging, Good, Frame
    <2>4. w(m) = w(h) /\ p(m) = 0 /\ p(h) = D /\ n(m) + 1 <= D
      BY <1>1, <1>2, <1>5, <2>2 DEF Whites
    <2>5. Rank(m) \in Nat /\ Rank(h) \in Nat /\ Rank(m) + 1 <= Rank(h)
      <3> HIDE DEF w, p, n
      <3> QED BY <1>1, <1>2, <1>3, <2>3, <2>4
    <2> QED BY <1>5, <2>1, <2>2, <2>5 DEF Converges
  <1>6. CASE h.next = {} /\ ~h.changed
    BY <1>6 DEF ConvergeStep, Converges
  <1> QED BY <1>4, <1>5, <1>6

\* What convergeephemerons comes to.
Converged(h, m, c) ==
  /\ Good(m, {}, c) /\ m.gray = {} /\ m.next = {} /\ NW(h) \subseteq NW(m)
  /\ \A o \in m.ephemeron : key[o] \notin NW(m) \union {None}

\* convergeephemerons ends, with no ephemeron whose marked key has a white value.
LEMMA ConvergeEphemeronsIs ==
  ASSUME Sound, NEW c, Params(c), c.inside = TRUE, NEW h, Good(h, {}, c), h.gray = {}, h.next = {}
  PROVE  Converged(h, ConvergeEphemerons(h), c)
  <1> DEFINE start == [h EXCEPT !.changed = TRUE]
             K == ConvergeSteps
             A == {g \in Work : Converging(g, c)}
             step == [g \in A |-> ConvergeStep(g)]
             Is(f) == f = [n \in Nat |-> IF n = 0 THEN start ELSE ConvergeStep(f[n - 1])]
  <1>1. /\ Converging(start, c) /\ NW(start) = NW(h) /\ start.color = h.color /\ start.next = {}
        /\ start.changed = TRUE
    BY ChangedKeeps
  <1>2. \A g : Converging(g, c) => g \in A
    BY DEF Converging, Good, Frame
  <1>3. \A g \in A : Converges(g, ConvergeStep(g), c)
    BY ConvergeStepIs
  <1>4. \A g \in A : ConvergeStep(g) \in A
    BY <1>2, <1>3 DEF Converges
  <1> HIDE DEF A
  <1>5. step \in [A -> A]
    BY <1>4
  <1> HIDE DEF start
  <1>6. start \in A
    BY <1>1, <1>2
  <1>7. PICK f \in [Nat -> A] : f[0] = start /\ \A n \in Nat : f[n + 1] = step[f[n]]
    <2> HIDE DEF step
    <2> QED BY <1>5, <1>6, Repeats
  <1>8. Is(f)
    <2>1. ASSUME NEW n \in Nat PROVE f[n] = IF n = 0 THEN start ELSE ConvergeStep(f[n - 1])
      <3>1. CASE n = 0
        BY <1>7, <3>1
      <3>2. CASE n # 0
        <4>1. n - 1 \in Nat /\ (n - 1) + 1 = n /\ f[n - 1] \in A
          BY <3>2
        <4>2. step[f[n - 1]] = ConvergeStep(f[n - 1])
          BY <4>1
        <4> HIDE DEF step
        <4> QED BY <1>7, <3>2, <4>1, <4>2
      <3> QED BY <3>1, <3>2
    <2> QED BY <2>1
  <1>9. PICK after : Is(after) /\ ConvergeEphemerons(h) = after[K]
    <2>1. ConvergeEphemerons(h) = (CHOOSE after : Is(after))[K]
      BY DEF ConvergeEphemerons, start
    <2> HIDE DEF Is
    <2> QED BY <1>8, <2>1
  <1>10. after[0] = start /\ \A n \in Nat : after[n + 1] = ConvergeStep(after[n])
    <2>1. after[0] = start
      BY <1>9
    <2>2. ASSUME NEW n \in Nat PROVE after[n + 1] = ConvergeStep(after[n])
      <3>1. n + 1 \in Nat /\ n + 1 # 0 /\ (n + 1) - 1 = n
        OBVIOUS
      <3> QED BY <1>9, <3>1
    <2> QED BY <2>1, <2>2
  <1> HIDE DEF Is, step, K
  <1> DEFINE Ended(g) == g.next = {} /\ ~g.changed
             OK(n, g) == /\ g \in A /\ NW(h) \subseteq NW(g)
                         /\ Ended(g) \/ (Rank(g) \in Nat /\ Rank(g) + n <= K)
             T == {n \in Nat : OK(n, after[n])}
  <1>11. K \in Nat /\ Rank(start) \in Nat /\ Rank(start) <= K
    <2> DEFINE D == Cardinality(Nodes) + 1
               w == Cardinality(Whites(start))
    <2>1. start \in Work
      BY <1>1 DEF Converging, Good, Frame
    <2>2. D \in Nat /\ w \in Nat /\ w + 1 <= D
      BY <2>1, NextFinite
    <2>3. Cardinality(start.next) = 0
      BY <1>1, FS_EmptySet
    <2>4. Rank(start) = w * D + D + 0 /\ K = D * D
      BY <1>1, <2>3 DEF Rank, K, ConvergeSteps
    <2> HIDE DEF w, D
    <2>5. w * D \in Nat /\ D * D \in Nat /\ w * D + D <= D * D
      BY <2>2, Product
    <2> QED BY <2>2, <2>4, <2>5
  <1>12. 0 \in T
    BY <1>1, <1>6, <1>10, <1>11
  <1>13. ASSUME NEW n \in Nat, n \in T PROVE n + 1 \in T
    <2> DEFINE g == after[n]
               m == ConvergeStep(g)
    <2>1. OK(n, g)
      BY <1>13
    <2>2. after[n + 1] = m
      BY <1>10
    <2>3. Converges(g, m, c) /\ m \in A
      <3>1. g \in A
        BY <2>1
      <3> HIDE DEF g
      <3> QED BY <1>3, <1>4, <3>1
    <2> HIDE DEF g, m
    <2>4. NW(h) \subseteq NW(m)
      BY <2>1, <2>3 DEF Converges
    <2>5. CASE Ended(g)
      <3>1. m = g
        BY <2>3, <2>5 DEF Converges
      <3>2. OK(n + 1, m)
        BY <2>1, <2>5, <3>1
      <3> QED BY <2>2, <3>2
    <2>6. CASE ~Ended(g)
      <3>1. Rank(m) \in Nat /\ Rank(g) \in Nat /\ Rank(m) + 1 <= Rank(g)
        BY <2>3, <2>6 DEF Converges
      <3>2. Rank(m) + (n + 1) <= K
        BY <1>11, <2>1, <2>6, <3>1
      <3>3. OK(n + 1, m)
        BY <2>3, <2>4, <3>1, <3>2
      <3> QED BY <2>2, <3>3
    <2> QED BY <2>5, <2>6
  <1> HIDE DEF T
  <1>14. Nat \subseteq T
    BY <1>12, <1>13, Reaches
  <1>15. OK(K, after[K])
    BY <1>11, <1>14 DEF T
  <1> DEFINE m == after[K]
  <1> HIDE DEF m
  <1>16. OK(K, m) /\ ConvergeEphemerons(h) = m
    BY <1>9, <1>15 DEF m
  <1>17. Converging(m, c) /\ m \in Work
    BY <1>16 DEF A
  <1>18. Ended(m)
    <2> SUFFICES ASSUME ~Ended(m) PROVE FALSE
      OBVIOUS
    <2>1. Rank(m) \in Nat /\ Rank(m) + K <= K
      BY <1>16
    <2>2. Converges(m, ConvergeStep(m), c)
      BY <1>3, <1>16
    <2>3. Rank(ConvergeStep(m)) \in Nat /\ Rank(ConvergeStep(m)) + 1 <= Rank(m)
      BY <2>2 DEF Converges
    <2> QED BY <1>11, <2>1, <2>3
  <1>19. Converged(h, m, c)
    BY <1>16, <1>17, <1>18 DEF Converged, Converging, Keyless
  <1> QED BY <1>16, <1>19

-----------------------------------------------------------------------------
(* What the atomic step begins with.                                       *)

Begins ==
  /\ Sound
  /\ color \in [Nodes -> MP!Color] /\ gray \subseteq Nodes /\ grayagain \subseteq Nodes
  /\ touched \subseteq UpVals /\ twups \subseteq Alive
  /\ \A o \in twups : IsA(o, "thread")
  /\ \A u \in UpVals : at[u] \in Alive => at[u] \in twups
  /\ gray \intersect grayagain = {}
  /\ \A o \in gray \union grayagain : color[o] = "gray" /\ ~IsA(o, "userdata")
  /\ \A o \in Nodes : color[o] = "gray" => o \in gray \union grayagain \/ IsA(o, "allweak")
  /\ \A o \in Nodes : color[o] = "black" => ~Marks!StaysGray(o)
  /\ \A o \in allweak : o \in Objects /\ IsA(o, "allweak") /\ color[o] = "gray"
  /\ \A o \in Nodes : IsA(o, "allweak") /\ color[o] \in {"gray", "black"} =>
                        o \in gray \union grayagain \union allweak

\* What the atomic step begins with.
LEMMA BeginsIs ==
  ASSUME CInv, gcstate = "atomic"
  PROVE  Begins
  <1>1. Marking /\ MP!KeepInvariant
    BY DEF Marking, MP!KeepInvariant, Sweeping
  <1>2. Sound
    BY <1>1, SoundIs
  <1>3. /\ color \in [Nodes -> MP!Color] /\ gray \subseteq Nodes /\ grayagain \subseteq Nodes
        /\ touched \subseteq UpVals /\ twups \subseteq MP!Threads
    BY DEF CInv, MP!IInv, MP!TypeOK, MP!Nodes, Nodes
  <1>4. MP!Live = Alive
    BY <1>2 DEF Sound, MP!Live, Alive
  <1>5. twups \subseteq Alive /\ \A u \in UpVals : at[u] \in Alive => at[u] \in twups
    BY <1>4 DEF CInv, MP!IInv, MP!HeapInv, MP!UpvalThreadsListed
  <1>6. \A o \in twups : IsA(o, "thread")
    BY <1>3, ObjectsAssumption DEF MP!Threads, IsA
  <1>7. gray \intersect grayagain = {} /\ \A o \in Nodes : color[o] = "black" => ~Marks!StaysGray(o)
    <2>1. \A o : Marks!StaysGray(o) <=> MP!StaysGray(o)
      BY DEF Marks!StaysGray, MP!StaysGray, Marks!Weak, MP!Weak
    <2> QED BY <1>1, <2>1 DEF CInv, MP!IInv, MP!ColorInv, MP!GrayNodes, MP!Nodes, Nodes
  <1>8. /\ \A o \in gray \union grayagain : color[o] = "gray"
        /\ \A o \in Nodes : color[o] = "gray" => o \in gray \union grayagain \/ IsA(o, "allweak")
    BY <1>1 DEF CInv, MP!IInv, MP!ColorInv, MP!GrayListed, MP!Nodes, Nodes, IsA
  <1>9. /\ \A o \in (gray \union grayagain) \ {Main} : kind[o] # "userdata"
        /\ \A o \in allweak : o \in Objects /\ kind[o] = "allweak" /\ color[o] = "gray"
        /\ \A o \in Objects : kind[o] = "allweak" /\ color[o] \in {"gray", "black"} =>
                                o \in gray \union grayagain \union allweak
    BY <1>1 DEF CInv, ListInv, GrayKinds
  <1>10. /\ \A o \in gray \union grayagain : ~IsA(o, "userdata")
         /\ \A o \in allweak : o \in Objects /\ IsA(o, "allweak") /\ color[o] = "gray"
         /\ \A o \in Nodes : IsA(o, "allweak") /\ color[o] \in {"gray", "black"} =>
                               o \in gray \union grayagain \union allweak
    BY <1>9, ObjectsAssumption DEF IsA, Nodes
  <1> QED BY <1>2, <1>3, <1>5, <1>6, <1>7, <1>8, <1>10 DEF Begins

-----------------------------------------------------------------------------
(* MarkAll.                                                                *)

\* The marks of a phase are those of a MarkAll.
Phase(c) == c.S \subseteq Nodes /\ c.inside \in BOOLEAN /\ c.M = Marks!MarkAll(c.S, c.T, c.inside)

\* What MarkAll promises.
LEMMA PhaseIs ==
  ASSUME NEW c, Phase(c)
  PROVE  Params(c) /\ c.S \subseteq c.M
  <1> DEFINE S == c.S
             T == c.T
             i == c.inside
             M == MP!MarkAll(S, T, i)
  <1>1. S \in SUBSET MP!Nodes /\ i \in BOOLEAN /\ MP!Nodes = Nodes /\ c.M = M
    BY SameMarkAll DEF Phase, MP!Nodes, Nodes
  <1> HIDE DEF S, T, i
  <1>2. S \subseteq M /\ M \subseteq MP!Nodes /\ MP!IsClosed(M, S, T, i)
    BY <1>1, MP!MarkAllClosed, MarksFacts
  <1>3. \A o \in (M \ S) \union (M \intersect T) : Marks!Refs(o, M, i) \subseteq M
    BY <1>2, SameMarkAll DEF MP!IsClosed
  <1> HIDE DEF M
  <1> QED BY <1>1, <1>2, <1>3 DEF Params, S, T, i

\* When everything is traversed, everything is marked.
LEMMA PhaseEnds ==
  ASSUME NEW c, Phase(c), NEW h, Converged(h, h, c)
  PROVE  NW(h) = c.M
  <1> DEFINE N == NW(h)
             i == c.inside
  <1>1. Good(h, {}, c) /\ h.gray = {} /\ h.next = {}
        /\ \A o \in h.ephemeron : key[o] \notin N \union {None}
    BY DEF Converged
  <1>2. N \subseteq c.M /\ c.S \subseteq N /\ N \subseteq Nodes
    BY <1>1 DEF Good, Bounds, NW
  <1>3. ASSUME NEW o \in (N \ c.S) \union (N \intersect c.T)
        PROVE  Marks!Refs(o, N, i) \subseteq N
    <2>1. o \in Turned(h, c) /\ Waiting(h, {}) = {} /\ o \in Done(h, {})
      BY <1>1, <1>3 DEF Turned, Waiting, Done
    <2>2. CASE ~IsA(o, "ephemeron")
      <3>1. Marks!Refs(o, {}, i) \subseteq N
        BY <1>1, <2>1, <2>2 DEF Good, Scanned
      <3> QED BY <2>2, <3>1, RefsIs
    <2>3. CASE IsA(o, "ephemeron")
      <3>1. o \in h.ephemeron \/ val[o] \in N \union {None}
        BY <1>1, <2>1, <2>3 DEF Good, Tables
      <3>2. \A v \in Marks!Refs(o, N, i) : v = val[o] /\ key[o] \in N \union {None} /\ v \in Objects
        BY <2>3 DEF Marks!Refs, IsA
      <3> QED BY <1>1, <3>1, <3>2, ObjectsAssumption
    <2> QED BY <2>2, <2>3
  <1>4. Marks!MarkAll(c.S, c.T, i) \subseteq N
    <2> DEFINE S == c.S
               T == c.T
    <2>1. N \in SUBSET Marks!Nodes /\ S \subseteq N /\ Marks!IsClosed(N, S, T, i)
      BY <1>2, <1>3 DEF Marks!IsClosed, Marks!Nodes, Nodes
    <2> HIDE DEF N, S, T, i
    <2> QED BY <2>1 DEF Marks!MarkAll, S, T
  <1> QED BY <1>2, <1>4 DEF Phase

-----------------------------------------------------------------------------
(* The first propagateall.                                                 *)

Propagating ==
  [S |-> Marks!NonWhite, T |-> gray, M |-> Marks!MarkAll(Marks!NonWhite, gray, FALSE), X |-> {},
   old |-> {}, weak |-> {}, allweak |-> {}, inside |-> FALSE, touched |-> {}]
Started ==
  [color |-> color, key |-> key, val |-> val, gray |-> gray,
   grayagain |-> grayagain, weak |-> {}, ephemeron |-> {}, allweak |-> allweak,
   touched |-> touched, twups |-> twups, next |-> {}, changed |-> FALSE]

\* What is gray and grayagain when atomic begins is Good,
LEMMA StartIs ==
  ASSUME Begins
  PROVE  Good(Started, grayagain, Propagating) /\ Phase(Propagating)
  <1> DEFINE h == Started
             c == Propagating
             Q == grayagain
  <1>1. Sound
    BY DEF Begins
  <1>2. /\ h.color = color /\ h.key = key /\ h.val = val /\ h.gray = gray /\ h.grayagain = grayagain
        /\ h.weak = {} /\ h.ephemeron = {} /\ h.allweak = allweak /\ h.touched = touched
        /\ h.twups = twups /\ h.next = {} /\ h.changed = FALSE
    BY DEF Started
  <1>3. /\ c.S = Marks!NonWhite /\ c.T = gray /\ c.M = Marks!MarkAll(Marks!NonWhite, gray, FALSE)
        /\ c.X = {} /\ c.old = {} /\ c.weak = {} /\ c.allweak = {} /\ c.inside = FALSE
    BY DEF Propagating
  <1>4. Marks!NonWhite \subseteq Nodes
    BY DEF Marks!NonWhite, Marks!Nodes, Nodes
  <1>5. h \in Work
    BY <1>1, ObjectsAssumption DEF Started, Work, Begins, Sound, Alive
  <1> HIDE DEF h, c
  <1>6. Phase(c)
    BY <1>3, <1>4 DEF Phase
  <1>7. NW(h) = Marks!NonWhite /\ \A o \in Nodes : o \in NW(h) <=> color[o] \in {"gray", "black"}
    BY <1>2 DEF NW, Marks!NonWhite, Marks!Nodes, Nodes
  <1>8. Waiting(h, Q) = gray \union grayagain /\ Turned(h, c) = NW(h) \intersect gray
        /\ Done(h, Q) = NW(h) \ (gray \union grayagain) /\ gray \subseteq NW(h) /\ grayagain \subseteq NW(h)
    BY <1>2, <1>3, <1>7 DEF Waiting, Turned, Done, Begins
  <1>9. Frame(h)
    BY <1>1, <1>2, <1>5 DEF Frame, Begins, Sound, Nodes
  <1>10. Data(h, Q, c)
    BY <1>2, <1>3 DEF Data
  <1>11. Bounds(h, Q, c)
    <2>1. c.S \subseteq c.M
      BY <1>6, PhaseIs
    <2>2. c.S = NW(h) /\ gray \intersect grayagain = {}
      BY <1>3, <1>7 DEF Begins
    <2> QED BY <1>2, <1>8, <2>1, <2>2 DEF Bounds
  <1>12. Colored(h, Q)
    <2>1. NW(h) \subseteq Nodes
      BY DEF NW
    <2>2. \A o \in Done(h, Q) : color[o] = "gray" <=> Marks!StaysGray(o)
      BY <1>7, <1>8, <2>1, StaysGrayIs DEF Begins
    <2> QED BY <1>2, <1>8, <2>2 DEF Colored, Begins
  <1>13. Scanned(h, Q, c)
    BY <1>8 DEF Scanned
  <1>14. Tables(h, Q, c)
    <2>1. NW(h) \subseteq Nodes
      BY DEF NW
    <2>2. \A o \in Done(h, Q) : ~IsA(o, "ephemeron") /\ ~IsA(o, "weakv") /\ (IsA(o, "allweak") => o \in allweak)
      BY <1>7, <1>8, <2>1, StaysGrayIs DEF Begins, IsA
    <2> QED BY <1>2, <2>2 DEF Tables
  <1>15. Members(h, c)
    BY <1>2, <1>7 DEF Members, Begins, Nodes
  <1>16. Fresh(h, c)
    BY <1>2, <1>3 DEF Fresh
  <1>17. Threaded(h, Q, c)
    <2>1. (c.T \union (NW(h) \ c.S)) \ Waiting(h, Q) = {}
      BY <1>3, <1>7, <1>8
    <2>2. Marks!OpenOf({}) = {}
      BY DEF Marks!OpenOf
    <2> QED BY <1>2, <1>3, <1>8, <2>1, <2>2 DEF Threaded
  <1>18. Good(h, Q, c)
    BY <1>9, <1>10, <1>11, <1>12, <1>13, <1>14, <1>15, <1>16, <1>17 DEF Good
  <1> QED BY <1>6, <1>18 DEF h, c

\* What is marked then is one of the outcomes of Tricolour.
FirstMarks(h, P) ==
  /\ P \in Marks!Propagations /\ P = NW(h) /\ Good(h, grayagain, Propagating)
  /\ h.gray = {} /\ h.next = {}
  /\ h.touched = Marks!TouchedBy(P) /\ h.twups = twups
  /\ h.grayagain = grayagain \union {o \in Marks!Traversed(P) : o = Main \/ IsA(o, "thread")}

\* and after the first propagateall, Tricolour's Propagations has what is traversed.
LEMMA FirstMarksAre ==
  ASSUME Begins
  PROVE  LET h == PropagateAll(Started, FALSE) IN FirstMarks(h, NW(h))
  <1> DEFINE c == Propagating
             Q == grayagain
             h == PropagateAll(Started, FALSE)
             P == NW(h)
  <1>1. Good(Started, Q, c) /\ Phase(c) /\ Sound
    BY StartIs DEF Begins
  <1>2. Params(c) /\ c.inside = FALSE /\ c.S = Marks!NonWhite /\ c.T = gray
        /\ c.M = Marks!MarkAll(Marks!NonWhite, gray, FALSE)
    BY <1>1, PhaseIs DEF Propagating
  <1>3. Propagated(Started, h, Q, c)
    <2> DEFINE i == FALSE
    <2>1. c.inside = i
      BY <1>2
    <2> HIDE DEF i, c
    <2>2. Propagated(Started, PropagateAll(Started, c.inside), Q, c)
      BY <1>1, <1>2, PropagateAllIs
    <2> QED BY <2>1, <2>2 DEF i
  <1> HIDE DEF h, c
  <1>4. Good(h, Q, c) /\ h.gray = {} /\ h.next = {}
    BY <1>3 DEF Propagated, Started
  <1>5. /\ gray \intersect grayagain = {} /\ gray \subseteq Marks!NonWhite /\ grayagain \subseteq Marks!NonWhite
    BY DEF Begins, Marks!NonWhite, Marks!Nodes, Nodes
  <1>6. Marks!NonWhite \subseteq P /\ P \subseteq c.M
    BY <1>2, <1>4 DEF Good, Bounds
  <1>7. Waiting(h, Q) = grayagain
    BY <1>4 DEF Waiting
  <1>8. (c.T \union (P \ c.S)) \ Waiting(h, Q) = Marks!Traversed(P)
        /\ Turned(h, c) \ Waiting(h, Q) = Marks!Traversed(P)
    BY <1>2, <1>5, <1>6, <1>7 DEF Marks!Traversed, Turned
  <1>9. ASSUME NEW o \in Marks!Traversed(P), ~(o # Main /\ kind[o] = "ephemeron")
        PROVE  Marks!Refs(o, P, FALSE) \subseteq P
    <2>1. ~IsA(o, "ephemeron")
      BY <1>9 DEF IsA
    <2>2. Marks!Refs(o, {}, FALSE) \subseteq P
      BY <1>2, <1>4, <1>8, <1>9, <2>1 DEF Good, Scanned
    <2> QED BY <2>1, <2>2, RefsIs
  <1>10. P \in Marks!Propagations
    BY <1>2, <1>6, <1>9 DEF Marks!Propagations, Marks!Traversed
  <1>11. /\ h.touched = touched \union Marks!OpenOf(Marks!Traversed(P)) /\ h.twups = twups
         /\ h.grayagain = grayagain \union {o \in Marks!Traversed(P) : o = Main \/ IsA(o, "thread")}
    BY <1>2, <1>4, <1>8 DEF Good, Threaded
  <1>12. FirstMarks(h, P)
    BY <1>4, <1>10, <1>11 DEF FirstMarks, Marks!TouchedBy, c
  <1> QED BY <1>12 DEF h

-----------------------------------------------------------------------------
(* What is reachable.                                                      *)

Again(P) == {u \in Marks!TouchedBy(P) : at[u] \in twups \ P}
Reaching(P) ==
  [S |-> P \union Marks!Remarked(P),
   T |-> grayagain \union {o \in Marks!Traversed(P) : Marks!StaysGray(o)} \union Marks!Remarked(P),
   M |-> Marks!Reached(P), X |-> {}, old |-> {}, weak |-> {}, allweak |-> {}, inside |-> TRUE,
   touched |-> {u \in Marks!TouchedBy(P) : at[u] \notin twups \ P}]

\* What remarkupvals marks.
Remarks(h, r, P) ==
  LET W == Marks!Remarked(P)
  IN  /\ r \in Work /\ W \subseteq Alive /\ W \intersect P = {}
      /\ \A x \in Nodes : r.color[x] = IF x \notin W THEN h.color[x]
                                       ELSE IF kind[x] = "userdata" THEN "black" ELSE "gray"
      /\ r.gray = {v \in W : kind[v] # "userdata"}
      /\ SameLists(h, r) /\ r.key = h.key /\ r.val = h.val /\ r.next = {}
      /\ r.touched = {u \in Marks!TouchedBy(P) : at[u] \notin twups \ P}
      /\ r.twups = {th \in twups : th \in P /\ Marks!OpenIn(th) # {}}

\* remarkupvals marks the values of the touched upvalues of threads that are not marked.
LEMMA RemarkUpvalsIs ==
  ASSUME Begins, NEW P, NEW h, FirstMarks(h, P)
  PROVE  Remarks(h, RemarkUpvals(h), P)
  <1> DEFINE marked == {th \in h.twups : ~IsWhite(h, th) /\ \E u \in UpVals : at[u] = th}
             again == {u \in h.touched : at[u] \in h.twups \ marked}
             V == {h.val[at[u]] : u \in again}
             W == Marks!Remarked(P)
             m == MarkIn(h, V)
             r == [m EXCEPT !.twups = marked, !.touched = @ \ again]
  <1>1. /\ Sound /\ Frame(h) /\ h \in Work /\ P = NW(h) /\ h.gray = {} /\ h.next = {}
        /\ h.touched = Marks!TouchedBy(P) /\ h.twups = twups
    BY DEF Begins, FirstMarks, Good, Frame
  <1>2. \A o \in Objects : h.val[o] = val[o]
    BY DEF FirstMarks, Good, Data, Propagating
  <1>3. RemarkUpvals(h) = r
    BY DEF RemarkUpvals
  <1>4. \A th \in twups : th \in Alive /\ th \in Objects /\ IsA(th, "thread") /\ th # None
    BY ObjectsAssumption DEF Begins, Alive
  <1>5. \A th \in twups : IsWhite(h, th) <=> th \notin P
    <2>1. \A th \in twups : ~IsWhite(h, th) => th \in P
      BY <1>1, <1>4, Marked1
    <2> QED BY <1>1, <1>4, <2>1 DEF IsWhite, NW
  <1>6. marked = {th \in twups : th \in P /\ Marks!OpenIn(th) # {}}
    BY <1>1, <1>5 DEF Marks!OpenIn
  <1>7. h.touched \subseteq UpVals
    BY <1>1 DEF Work
  <1>8. again = Again(P)
    <2>1. \A u \in h.touched : at[u] \in twups => Marks!OpenIn(at[u]) # {}
      BY <1>7 DEF Marks!OpenIn
    <2> QED BY <1>1, <1>6, <2>1 DEF Again
  <1>9. V = {val[at[u]] : u \in Again(P)}
    <2>1. \A u \in Again(P) : h.val[at[u]] = val[at[u]]
      BY <1>2, <1>4 DEF Again
    <2> HIDE DEF again
    <2> QED BY <1>8, <2>1
  <1>10. V \subseteq Alive \union {None} /\ V \in SUBSET Value
    <2>1. \A u \in Again(P) : val[at[u]] \in Alive \union {None}
      BY <1>1, <1>4 DEF Again, Sound
    <2> HIDE DEF V
    <2> QED BY <1>9, <2>1 DEF Alive, Value
  <1>11. W = V \ ({None} \union P)
    <2> HIDE DEF V
    <2> QED BY <1>9 DEF Marks!Remarked, Again
  <1> HIDE DEF V, marked, again, W
  <1>12. ToMark(h, V) = W
    <2>1. \A v \in V : IsWhite(h, v) <=> v # None /\ v \notin P
      <3>1. \A v \in V : ~IsWhite(h, v) => v = None \/ v \in P
        BY <1>1, <1>10, Marked1
      <3> QED BY <1>1, <3>1 DEF IsWhite, NW
    <2> QED BY <1>11, <2>1 DEF ToMark
  <1>13. m \in Work /\ MarkedIn(h, m, V)
    BY <1>1, <1>10, MarkInIs
  <1> HIDE DEF m
  <1>14. m.touched = h.touched /\ m.twups = h.twups
    BY <1>13 DEF MarkedIn
  <1>15. /\ r \in Work /\ r.color = m.color /\ r.gray = m.gray /\ SameLists(m, r) /\ SameRest(m, r)
         /\ r.twups = marked /\ r.touched = m.touched \ again
    <2>1. marked \subseteq Objects
      BY <1>4, <1>6
    <2> QED BY <1>13, <2>1 DEF Work, SameLists, SameRest
  <1> HIDE DEF r
  <1>16. W \subseteq Alive /\ W \intersect P = {}
    BY <1>10, <1>11
  <1>17. /\ \A x \in Nodes : r.color[x] = IF x \notin W THEN h.color[x]
                                       ELSE IF kind[x] = "userdata" THEN "black" ELSE "gray"
         /\ r.gray = {v \in W : kind[v] # "userdata"}
         /\ SameLists(h, r) /\ r.key = h.key /\ r.val = h.val /\ r.next = {}
    BY <1>1, <1>12, <1>13, <1>15 DEF MarkedIn, SameLists, SameRest
  <1>18. r.touched = {u \in Marks!TouchedBy(P) : at[u] \notin twups \ P}
    BY <1>1, <1>8, <1>14, <1>15 DEF Again
  <1> QED BY <1>3, <1>6, <1>15, <1>16, <1>17, <1>18 DEF Remarks, W

\* What is Good when it is done.
LEMMA RemarkIs ==
  ASSUME Begins, NEW P, NEW h, FirstMarks(h, P), NEW r, Remarks(h, r, P)
  PROVE  /\ Good(r, h.grayagain, Reaching(P)) /\ Phase(Reaching(P))
         /\ h.grayagain \subseteq Nodes /\ h.grayagain \subseteq Turned(r, Reaching(P))
  <1> DEFINE c == Reaching(P)
             Q == h.grayagain
             W == Marks!Remarked(P)
             b == Propagating
  <1>1. /\ P = NW(h) /\ Good(h, grayagain, b) /\ h.gray = {} /\ h.next = {} /\ P \subseteq Nodes
        /\ Q = grayagain \union {o \in Marks!Traversed(P) : o = Main \/ IsA(o, "thread")}
        /\ b.S = Marks!NonWhite /\ b.T = gray /\ b.inside = FALSE /\ b.X = {}
    BY DEF FirstMarks, Propagating, NW
  <1>2. /\ r \in Work /\ W \subseteq Objects /\ W \subseteq Nodes /\ W \subseteq Alive /\ W \intersect P = {}
        /\ \A x \in Nodes : r.color[x] = IF x \notin W THEN h.color[x]
                                       ELSE IF kind[x] = "userdata" THEN "black" ELSE "gray"
        /\ r.gray = {v \in W : kind[v] # "userdata"}
        /\ SameLists(h, r) /\ r.key = h.key /\ r.val = h.val /\ r.next = {}
        /\ r.touched = {u \in Marks!TouchedBy(P) : at[u] \notin twups \ P}
        /\ r.twups = {th \in twups : th \in P /\ Marks!OpenIn(th) # {}}
    BY DEF Remarks, Alive, Nodes
  <1>3. /\ c.S = P \union W /\ c.M = Marks!Reached(P)
        /\ c.T = grayagain \union {o \in Marks!Traversed(P) : Marks!StaysGray(o)} \union W
        /\ c.X = {} /\ c.old = {} /\ c.inside = TRUE
        /\ c.touched = {u \in Marks!TouchedBy(P) : at[u] \notin twups \ P}
    BY DEF Reaching
  <1> HIDE DEF c, W, Q, b
  <1>4. Phase(c)
    BY <1>1, <1>2, <1>3 DEF Phase, Marks!Reached, W
  <1>5. c.S \subseteq c.M
    BY <1>4, PhaseIs
  <1>6. Marks!NonWhite \subseteq P /\ gray \subseteq Marks!NonWhite /\ grayagain \subseteq Marks!NonWhite
        /\ gray \intersect grayagain = {}
    <2>1. Marks!NonWhite \subseteq P
      BY <1>1 DEF Good, Bounds
    <2> QED BY <2>1 DEF Begins, Marks!NonWhite, Marks!Nodes, Nodes
  <1>7. /\ Marks!Traversed(P) = Turned(h, b) /\ Marks!Traversed(P) \subseteq P
        /\ Waiting(h, grayagain) = grayagain /\ Done(h, grayagain) = P \ grayagain
    BY <1>1, <1>6 DEF Marks!Traversed, Turned, Waiting, Done
  <1>8. Q \subseteq P /\ grayagain \subseteq Q
    BY <1>1, <1>6, <1>7
  <1>9. /\ \A x \in W : r.color[x] = IF kind[x] = "userdata" THEN "black" ELSE "gray"
        /\ \A x \in P : r.color[x] = h.color[x]
    BY <1>1, <1>2
  <1>10. NW(r) = P \union W
    <2>1. \A x \in Nodes : x \in P <=> h.color[x] \in {"gray", "black"}
      BY <1>1 DEF NW
    <2>2. \A x \in Nodes : x \in NW(r) <=> r.color[x] \in {"gray", "black"}
      BY DEF NW
    <2>3. NW(r) \subseteq Nodes
      BY DEF NW
    <2> QED BY <1>1, <1>2, <2>1, <2>2, <2>3
  <1>11. Frame(r)
    BY <1>1, <1>2 DEF Good, Frame, Alive
  <1>12. \A x \in W : (kind[x] = "userdata" <=> IsA(x, "userdata"))
    BY <1>2, ObjectsAssumption DEF IsA
  <1>13. /\ Waiting(r, Q) = {v \in W : kind[v] # "userdata"} \union Q
         /\ Turned(r, c) = NW(r) \intersect c.T
         /\ Done(r, Q) = (P \ Q) \union {v \in W : kind[v] = "userdata"}
    BY <1>2, <1>3, <1>8, <1>10 DEF Waiting, Turned, Done
  <1>14. \A o : o = Main \/ IsA(o, "thread") \/ IsA(o, "ephemeron") => Marks!StaysGray(o)
    BY DEF Marks!StaysGray, Marks!Weak, IsA
  <1>15. Q \subseteq Turned(r, c)
    BY <1>1, <1>3, <1>8, <1>10, <1>13, <1>14
  <1>16. Data(r, Q, c)
    BY <1>1, <1>2, <1>3 DEF Good, Data
  <1>17. Bounds(r, Q, c)
    <2>1. Waiting(r, Q) \subseteq NW(r) /\ r.gray \intersect Q = {} /\ r.gray \subseteq Turned(r, c)
      BY <1>2, <1>3, <1>8, <1>10, <1>13
    <2>2. r.ephemeron \subseteq Turned(r, c)
      <3>1. h.ephemeron \subseteq Marks!Traversed(P) /\ \A o \in h.ephemeron : IsA(o, "ephemeron")
        BY <1>1, <1>7 DEF Good, Bounds, Members
      <3> QED BY <1>2, <1>3, <1>7, <1>10, <1>13, <1>14, <3>1 DEF SameLists
    <2> QED BY <1>2, <1>3, <1>5, <1>10, <2>1, <2>2 DEF Bounds
  <1>18. /\ \A o \in grayagain : h.color[o] = "gray" /\ ~IsA(o, "userdata")
         /\ \A o \in P \ grayagain : h.color[o] = "gray" <=> Marks!StaysGray(o)
    BY <1>1, <1>7 DEF Good, Colored
  <1>19. \A o : IsA(o, "userdata") => ~Marks!StaysGray(o)
    BY StaysGrayIs DEF IsA
  <1>20. Colored(r, Q)
    <2>1. ASSUME NEW o \in Waiting(r, Q) PROVE r.color[o] = "gray" /\ ~IsA(o, "userdata")
      <3>1. CASE o \in W
        BY <1>2, <1>8, <1>9, <1>12, <1>13, <2>1, <3>1
      <3>2. CASE o \in grayagain
        BY <1>8, <1>9, <1>18, <3>2
      <3>3. CASE o \in Q \ grayagain
        <4>1. o \in P /\ Marks!StaysGray(o)
          BY <1>1, <1>7, <1>14, <3>3
        <4> QED BY <1>9, <1>18, <1>19, <3>3, <4>1
      <3> QED BY <1>13, <2>1, <3>1, <3>2, <3>3
    <2>2. ASSUME NEW o \in Done(r, Q) PROVE r.color[o] = "gray" <=> Marks!StaysGray(o)
      <3>1. CASE o \in P \ Q
        BY <1>8, <1>9, <1>18, <3>1
      <3>2. CASE o \in W /\ kind[o] = "userdata"
        BY <1>9, <1>12, <1>19, <3>2
      <3> QED BY <1>13, <3>1, <3>2
    <2> QED BY <2>1, <2>2 DEF Colored
  <1>21. Scanned(r, Q, c)
    <2> SUFFICES ASSUME NEW o \in Turned(r, c) \ Waiting(r, Q), ~IsA(o, "ephemeron")
                 PROVE  Marks!Refs(o, {}, TRUE) \subseteq NW(r)
      BY <1>3 DEF Scanned
    <2>1. CASE o \in W
      <3>1. kind[o] = "userdata" /\ o # Main
        BY <1>2, <1>13, <2>1, ObjectsAssumption
      <3> QED BY <3>1 DEF Marks!Refs
    <2>2. CASE o \notin W
      <3>1. o \in Marks!Traversed(P) /\ Marks!StaysGray(o) /\ o \notin grayagain /\ o \notin Q
        BY <1>3, <1>8, <1>13, <2>2
      <3>2. o # Main /\ kind[o] \in {"weakv", "allweak"}
        <4>1. o # Main /\ kind[o] # "thread"
          BY <1>1, <3>1 DEF IsA
        <4>2. kind[o] # "ephemeron"
          BY <4>1 DEF IsA
        <4> QED BY <3>1, <4>1, <4>2 DEF Marks!StaysGray, Marks!Weak
      <3>3. Marks!Refs(o, {}, TRUE) = Marks!Refs(o, {}, FALSE)
        BY <3>2 DEF Marks!Refs
      <3>4. Marks!Refs(o, {}, b.inside) \subseteq P
        BY <1>1, <1>7, <3>1 DEF Good, Scanned
      <3> QED BY <1>1, <1>10, <3>3, <3>4
    <2> QED BY <2>1, <2>2
  <1>22. Tables(r, Q, c)
    <2>1. \A o \in P \ Q : o \in Done(h, grayagain)
      BY <1>7, <1>8
    <2>2. \A o \in W : kind[o] = "userdata" => ~IsA(o, "ephemeron") /\ ~IsA(o, "weakv") /\ ~IsA(o, "allweak")
      BY DEF IsA
    <2> QED BY <1>1, <1>2, <1>3, <1>10, <1>13, <2>1, <2>2 DEF Good, Tables, SameLists
  <1>23. Members(r, c)
    BY <1>1, <1>2, <1>10 DEF Good, Members, SameLists
  <1>24. Fresh(r, c)
    BY <1>3 DEF Fresh
  <1>25. Threaded(r, Q, c)
    <2>1. \A o \in r.twups : o \in NW(r) /\ IsA(o, "thread") /\ Marks!OpenIn(o) # {}
      BY <1>2, <1>10 DEF Begins
    <2>2. ASSUME NEW o \in Done(r, Q), IsA(o, "thread") PROVE FALSE
      <3>1. o \in P \ Q /\ o \in Nodes
        BY <1>1, <1>13, <2>2 DEF IsA
      <3>2. o \notin Marks!Traversed(P) /\ o \notin grayagain
        BY <1>1, <1>8, <2>2, <3>1
      <3>3. o \in Marks!NonWhite /\ o \notin gray
        BY <3>1, <3>2 DEF Marks!Traversed
      <3>4. color[o] \in {"gray", "black"} /\ Marks!StaysGray(o) /\ ~IsA(o, "allweak")
        BY <1>14, <2>2, <3>3 DEF Marks!NonWhite, IsA
      <3> QED BY <3>1, <3>2, <3>3, <3>4 DEF Begins
    <2> QED BY <1>2, <1>3, <2>1, <2>2 DEF Threaded
  <1>26. Good(r, Q, c)
    BY <1>11, <1>16, <1>17, <1>20, <1>21, <1>22, <1>23, <1>24, <1>25 DEF Good
  <1> QED BY <1>1, <1>4, <1>8, <1>15, <1>26 DEF c, Q

\* The objects that were to be traversed again are gray again.
LEMMA ListsAgain ==
  ASSUME NEW c, NEW h, NEW Q, Good(h, Q, c), h.gray = {}, Q \subseteq Turned(h, c), c.old = {}
  PROVE  LET g == [h EXCEPT !.gray = Q]
         IN  Good(g, {}, c) /\ g.next = h.next /\ NW(g) = NW(h)
  <1> DEFINE g == [h EXCEPT !.gray = Q]
  <1>1. h \in Work /\ Frame(h) /\ Q \subseteq NW(h) /\ Q \subseteq Nodes
    BY DEF Good, Frame, Bounds, Waiting, NW
  <1>2. /\ g \in Work /\ g.gray = Q /\ g.next = h.next /\ g.color = h.color
        /\ SameLists(h, g) /\ g.key = h.key /\ g.val = h.val
        /\ g.touched = h.touched /\ g.twups = h.twups /\ g.grayagain = h.grayagain
    BY <1>1 DEF Work, SameLists
  <1> HIDE DEF g
  <1>3. /\ NW(g) = NW(h) /\ Waiting(g, {}) = Q /\ Waiting(h, Q) = Q
        /\ Done(g, {}) = Done(h, Q) /\ Turned(g, c) = Turned(h, c)
    BY <1>2 DEF NW, Waiting, Done, Turned
  <1>4. Frame(g)
    BY <1>1, <1>2 DEF Frame
  <1>5. Data(g, {}, c)
    BY <1>2, <1>3 DEF Good, Data
  <1>6. Bounds(g, {}, c)
    BY <1>2, <1>3 DEF Good, Bounds, SameLists
  <1>7. Colored(g, {})
    BY <1>2, <1>3 DEF Good, Colored
  <1>8. Scanned(g, {}, c)
    BY <1>3 DEF Good, Scanned
  <1>9. Tables(g, {}, c)
    BY <1>2, <1>3 DEF Good, Tables, SameLists
  <1>10. Members(g, c)
    BY <1>2, <1>3 DEF Good, Members, SameLists
  <1>11. Fresh(g, c)
    BY <1>2, <1>3 DEF Good, Fresh, SameLists
  <1>12. Threaded(g, {}, c)
    BY <1>2, <1>3 DEF Good, Threaded
  <1>13. Good(g, {}, c)
    BY <1>4, <1>5, <1>6, <1>7, <1>8, <1>9, <1>10, <1>11, <1>12 DEF Good
  <1> QED BY <1>2, <1>3, <1>13 DEF g

\* propagateall inside of the atomic step.
LEMMA PropagateInside ==
  ASSUME Sound, NEW c, Params(c), c.inside = TRUE, NEW h, NEW Q, Good(h, Q, c)
  PROVE  Propagated(h, PropagateAll(h, TRUE), Q, c)
  <1> DEFINE i == TRUE
  <1>1. c.inside = i
    OBVIOUS
  <1> HIDE DEF i
  <1>2. Propagated(h, PropagateAll(h, c.inside), Q, c)
    BY PropagateAllIs
  <1> QED BY <1>1, <1>2 DEF i

\* propagateall and convergeephemerons.
LEMMA ConvergeInside ==
  ASSUME Sound, NEW c, Phase(c), c.inside = TRUE, NEW h, Good(h, {}, c), h.next = {}
  PROVE  LET n == ConvergeEphemerons(PropagateAll(h, TRUE))
         IN  Converged(n, n, c) /\ NW(n) = c.M
  <1> DEFINE p == PropagateAll(h, TRUE)
             n == ConvergeEphemerons(p)
             Q == {}
  <1>1. Params(c)
    BY PhaseIs
  <1>2. Propagated(h, p, Q, c)
    <2>1. Good(h, Q, c)
      OBVIOUS
    <2> HIDE DEF Q
    <2> QED BY <1>1, <2>1, PropagateInside
  <1> HIDE DEF p
  <1>3. Good(p, {}, c) /\ p.gray = {} /\ p.next = {}
    BY <1>2 DEF Propagated
  <1>4. Converged(p, n, c)
    BY <1>1, <1>3, ConvergeEphemeronsIs
  <1> HIDE DEF n
  <1>5. Converged(n, n, c)
    BY <1>4 DEF Converged
  <1>6. NW(n) = c.M
    BY <1>5, PhaseEnds
  <1> QED BY <1>5, <1>6 DEF n, p

\* atomic before the values are cleared: h is what GCSatomic's propagateall left.
Reachable(h) ==
  ConvergeEphemerons(PropagateAll(
    [PropagateAll(RemarkUpvals(h), TRUE) EXCEPT !.gray = h.grayagain], TRUE))
IsReachable(n, P) ==
  /\ P \in Marks!Propagations /\ Converged(n, n, Reaching(P)) /\ NW(n) = Marks!Reached(P)

\* At the first convergence Tricolour's Reached is marked.
LEMMA ReachableIs ==
  ASSUME Begins, NEW P, NEW h, FirstMarks(h, P)
  PROVE  IsReachable(Reachable(h), P)
  <1> DEFINE c == Reaching(P)
             Q == h.grayagain
             r == RemarkUpvals(h)
             m == PropagateAll(r, TRUE)
             g == [m EXCEPT !.gray = Q]
             n == ConvergeEphemerons(PropagateAll(g, TRUE))
  <1>1. Remarks(h, r, P)
    BY RemarkUpvalsIs
  <1>2. Good(r, Q, c) /\ Phase(c) /\ Q \subseteq Nodes /\ Q \subseteq Turned(r, c)
    BY <1>1, RemarkIs
  <1>3. Sound /\ Params(c) /\ r.next = {}
    BY <1>1, <1>2, PhaseIs DEF Begins, Remarks
  <1>4. c.inside = TRUE /\ c.old = {} /\ c.M = Marks!Reached(P)
    BY DEF Reaching
  <1> HIDE DEF c, r
  <1>5. Propagated(r, m, Q, c)
    BY <1>2, <1>3, <1>4, PropagateInside
  <1> HIDE DEF m
  <1>6. Good(m, Q, c) /\ m.gray = {} /\ NW(r) \subseteq NW(m) /\ m.next = {}
    BY <1>3, <1>5 DEF Propagated
  <1>7. Q \subseteq Turned(m, c)
    BY <1>2, <1>6 DEF Turned
  <1>8. Good(g, {}, c) /\ g.next = {}
    BY <1>4, <1>6, <1>7, ListsAgain
  <1> HIDE DEF g
  <1>9. Converged(n, n, c) /\ NW(n) = c.M
    BY <1>2, <1>3, <1>4, <1>8, ConvergeInside
  <1>10. n = Reachable(h)
    BY DEF Reachable, n, g, m, r
  <1> HIDE DEF n
  <1> QED BY <1>4, <1>9, <1>10 DEF IsReachable, c, FirstMarks

-----------------------------------------------------------------------------
(* Clearing the tables, and what is resurrected.                           *)

Removed(h, m, T) ==
  /\ m \in Work
  /\ \A o \in Objects : /\ m.key[o] = IF o \in T THEN None ELSE h.key[o]
                        /\ m.val[o] = IF o \in T THEN None ELSE h.val[o]
  /\ m.color = h.color /\ m.gray = h.gray /\ SameLists(h, m) /\ m.next = h.next
  /\ m.touched = h.touched /\ m.twups = h.twups

\* clearvalues and clearkeys remove the entries of the tables they are given.
LEMMA RemoveEntriesIs ==
  ASSUME NEW h \in Work, NEW T
  PROVE  Removed(h, RemoveEntries(h, T), T)
  <1> DEFINE k == [o \in Objects |-> IF o \in T THEN None ELSE h.key[o]]
             v == [o \in Objects |-> IF o \in T THEN None ELSE h.val[o]]
             m == [h EXCEPT !.key = k, !.val = v]
  <1>1. RemoveEntries(h, T) = m
    BY DEF RemoveEntries, Work
  <1>2. k \in [Objects -> Value] /\ v \in [Objects -> Value]
    BY DEF Work, Value
  <1>3. \A o \in Objects : /\ k[o] = IF o \in T THEN None ELSE h.key[o]
                           /\ v[o] = IF o \in T THEN None ELSE h.val[o]
    OBVIOUS
  <1> HIDE DEF k, v
  <1>4. /\ m \in Work /\ m.key = k /\ m.val = v
        /\ m.color = h.color /\ m.gray = h.gray /\ SameLists(h, m) /\ m.next = h.next
        /\ m.touched = h.touched /\ m.twups = h.twups
    BY <1>2 DEF Work, SameLists
  <1> HIDE DEF m
  <1> QED BY <1>1, <1>3, <1>4 DEF Removed

\* The tables that lose a value before anything is resurrected.
Valueless(R) ==
  {o \in R \ {Main} : kind[o] \in {"weakv", "allweak"} /\ val[o] \notin {None} \union R}
Resurrecting(n, P, F) ==
  LET R == NW(n)
  IN  [S |-> R \union F, T |-> (F \ R) \union {o \in R \ {Main} : kind[o] = "ephemeron"},
       M |-> Marks!Resurrected(R, F), X |-> Valueless(R),
       old |-> R, weak |-> n.weak, allweak |-> n.allweak, inside |-> TRUE,
       touched |-> {u \in Marks!TouchedBy(P) : at[u] \notin twups \ P}]

\* The first clearvalues.
LEMMA ClearValuesIs ==
  ASSUME Sound, NEW n, NEW P, IsReachable(n, P)
  PROVE  Removed(n, ClearValues(n, n.weak \union n.allweak), Valueless(NW(n)))
  <1> DEFINE R == NW(n)
             c == Reaching(P)
             X == {o \in n.weak \union n.allweak : IsWhite(n, n.val[o])}
  <1>1. Good(n, {}, c) /\ n.gray = {} /\ Frame(n) /\ n \in Work /\ R \subseteq Nodes
        /\ c.X = {} /\ Done(n, {}) = R
    BY DEF IsReachable, Converged, Good, Frame, NW, Reaching, Done, Waiting
  <1>2. \A o \in Objects : n.key[o] = key[o] /\ n.val[o] = val[o]
    BY <1>1 DEF Good, Data
  <1>3. \A o \in R \ {Main} : o \in Objects /\ o \in Alive /\ val[o] \in Alive \union {None}
    BY <1>1 DEF NW, Frame, Alive, Nodes, Sound
  <1>4. \A o \in R \ {Main} : IsWhite(n, n.val[o]) <=> val[o] \notin {None} \union R
    <2>1. \A o \in R \ {Main} : ~IsWhite(n, val[o]) => val[o] \in R \union {None}
      BY <1>1, <1>3, Marked1
    <2>2. \A v \in R \union {None} : ~IsWhite(n, v)
      BY DEF IsWhite, NW
    <2> QED BY <1>2, <1>3, <2>1, <2>2
  <1>5. ASSUME NEW o \in X PROVE o \in Valueless(R)
    <2>1. o \in R /\ (IsA(o, "weakv") \/ IsA(o, "allweak") \/ (IsA(o, "ephemeron") /\ val[o] \in R \union {None}))
      BY <1>1, <1>5 DEF Good, Members
    <2>2. o \in R \ {Main} /\ val[o] \notin {None} \union R
      BY <1>4, <1>5, <2>1 DEF IsA
    <2> QED BY <2>1, <2>2 DEF Valueless, IsA
  <1>6. ASSUME NEW o \in Valueless(R) PROVE o \in X
    <2>1. o \in R \ {Main} /\ (IsA(o, "weakv") \/ IsA(o, "allweak")) /\ val[o] \notin {None} \union R
      BY <1>6 DEF Valueless, IsA
    <2>2. o \in n.weak \union n.allweak
      BY <1>1, <2>1 DEF Good, Tables
    <2> QED BY <1>4, <2>1, <2>2
  <1>7. X = Valueless(R)
    BY <1>5, <1>6
  <1>8. ClearValues(n, n.weak \union n.allweak) = RemoveEntries(n, X)
    BY DEF ClearValues
  <1> HIDE DEF X, R
  <1>9. Removed(n, RemoveEntries(n, Valueless(R)), Valueless(R))
    BY <1>1, RemoveEntriesIs
  <1> QED BY <1>7, <1>8, <1>9 DEF R

\* markbeingfnz, when the first values are cleared.
LEMMA ResurrectIs ==
  ASSUME Sound, NEW n, NEW P, IsReachable(n, P), NEW e, Removed(n, e, Valueless(NW(n))),
         NEW F, F \subseteq Alive
  PROVE  LET g == MarkIn(e, F) c == Resurrecting(n, P, F)
         IN  Good(g, {}, c) /\ Phase(c) /\ g.next = {}
  <1> DEFINE R == NW(n)
             b == Reaching(P)
             c == Resurrecting(n, P, F)
             g == MarkIn(e, F)
             X == Valueless(R)
  <1>1. Good(n, {}, b) /\ n.gray = {} /\ n.next = {} /\ Frame(n) /\ n \in Work /\ R \subseteq Nodes
        /\ b.X = {} /\ b.inside = TRUE /\ Done(n, {}) = R /\ Waiting(n, {}) = {}
        /\ b.touched = {u \in Marks!TouchedBy(P) : at[u] \notin twups \ P}
    BY DEF IsReachable, Converged, Good, Frame, NW, Reaching, Done, Waiting
  <1>2. /\ c.S = R \union F /\ c.T = (F \ R) \union {o \in R \ {Main} : kind[o] = "ephemeron"}
        /\ c.M = Marks!Resurrected(R, F) /\ c.X = X /\ c.old = R /\ c.weak = n.weak
        /\ c.allweak = n.allweak /\ c.inside = TRUE /\ c.touched = b.touched
    BY <1>1 DEF Resurrecting
  <1>3. F \subseteq Objects /\ F \subseteq Nodes /\ F \in SUBSET Value /\ None \notin F /\ Main \notin F
    BY ObjectsAssumption DEF Alive, Nodes, Value
  <1>4. /\ e \in Work /\ e.color = n.color /\ e.gray = {} /\ SameLists(n, e) /\ e.next = {}
        /\ e.touched = n.touched /\ e.twups = n.twups
        /\ \A o \in Objects : /\ e.key[o] = IF o \in X THEN None ELSE n.key[o]
                              /\ e.val[o] = IF o \in X THEN None ELSE n.val[o]
    BY <1>1 DEF Removed
  <1>5. g \in Work /\ MarkedIn(e, g, F)
    BY <1>3, <1>4, MarkInIs
  <1> HIDE DEF g, c, b, X
  <1>6. ToMark(e, F) = F \ R
    <2>1. \A v \in F : v \in Alive /\ (~IsWhite(n, v) => v \in R \union {None})
      BY <1>1, Marked1
    <2>2. \A v \in F : IsWhite(e, v) <=> IsWhite(n, v)
      BY <1>4 DEF IsWhite
    <2>3. \A v \in R : ~IsWhite(n, v)
      BY DEF IsWhite, NW
    <2> QED BY <1>3, <2>1, <2>2, <2>3 DEF ToMark
  <1>7. /\ \A x \in Nodes : g.color[x] = IF x \notin F \ R THEN n.color[x]
                                         ELSE IF kind[x] = "userdata" THEN "black" ELSE "gray"
        /\ g.gray = {v \in F \ R : kind[v] # "userdata"}
        /\ SameLists(n, g) /\ g.key = e.key /\ g.val = e.val /\ g.next = {}
        /\ g.touched = n.touched /\ g.twups = n.twups
    BY <1>4, <1>5, <1>6 DEF MarkedIn, SameLists, SameRest
  <1>8. NW(g) = R \union F
    <2>1. \A x \in Nodes : x \in R <=> n.color[x] \in {"gray", "black"}
      BY DEF NW
    <2>2. \A x \in Nodes : x \in NW(g) <=> g.color[x] \in {"gray", "black"}
      BY DEF NW
    <2>3. NW(g) \subseteq Nodes
      BY DEF NW
    <2> HIDE DEF R
    <2> QED BY <1>1, <1>3, <1>7, <2>1, <2>2, <2>3
  <1>9. /\ \A x \in F \ R : g.color[x] = IF kind[x] = "userdata" THEN "black" ELSE "gray"
        /\ \A x \in R : g.color[x] = n.color[x]
    BY <1>1, <1>3, <1>7
  <1>10. Phase(c)
    BY <1>1, <1>2, <1>3 DEF Phase, Marks!Resurrected
  <1>11. c.S \subseteq c.M
    BY <1>10, PhaseIs
  <1>12. Frame(g)
    BY <1>1, <1>3, <1>5, <1>7 DEF Frame, Alive
  <1>13. /\ Waiting(g, {}) = {v \in F \ R : kind[v] # "userdata"}
         /\ Turned(g, c) = NW(g) \intersect c.T
         /\ Done(g, {}) = R \union {v \in F \ R : kind[v] = "userdata"}
    BY <1>2, <1>7, <1>8 DEF Waiting, Turned, Done
  <1>14. \A x \in F : kind[x] = "userdata" <=> IsA(x, "userdata")
    BY <1>3 DEF IsA
  <1>15. Data(g, {}, c)
    <2>1. \A o \in Objects : n.key[o] = key[o] /\ n.val[o] = val[o]
      BY <1>1 DEF Good, Data
    <2>2. \A o \in X : o \in Objects /\ o \in R /\ kind[o] \in {"weakv", "allweak"}
      BY <1>1 DEF X, Valueless, Nodes
    <2> QED BY <1>2, <1>4, <1>7, <1>13, <2>1, <2>2 DEF Data
  <1>16. Bounds(g, {}, c)
    <2>1. g.ephemeron \subseteq Turned(g, c)
      <3>1. \A o \in n.ephemeron : o \in R /\ IsA(o, "ephemeron")
        BY <1>1 DEF Good, Members
      <3> QED BY <1>2, <1>7, <1>8, <1>13, <3>1 DEF SameLists, IsA
    <2>2. g.gray \subseteq Turned(g, c) /\ Waiting(g, {}) \subseteq NW(g)
      BY <1>2, <1>7, <1>8, <1>13
    <2> QED BY <1>2, <1>7, <1>8, <1>11, <2>1, <2>2 DEF Bounds
  <1>17. \A o : IsA(o, "userdata") => ~Marks!StaysGray(o)
    BY StaysGrayIs DEF IsA
  <1>18. Colored(g, {})
    <2>1. \A o \in R : n.color[o] = "gray" <=> Marks!StaysGray(o)
      BY <1>1 DEF Good, Colored
    <2>2. \A o \in Waiting(g, {}) : g.color[o] = "gray" /\ ~IsA(o, "userdata")
      BY <1>9, <1>13, <1>14
    <2>3. \A o \in Done(g, {}) : g.color[o] = "gray" <=> Marks!StaysGray(o)
      BY <1>9, <1>13, <1>14, <1>17, <2>1
    <2> QED BY <2>2, <2>3 DEF Colored
  <1>19. Scanned(g, {}, c)
    <2> SUFFICES ASSUME NEW o \in Turned(g, c) \ Waiting(g, {}), ~IsA(o, "ephemeron")
                 PROVE  Marks!Refs(o, {}, TRUE) \subseteq NW(g)
      BY <1>2 DEF Scanned
    <2>1. kind[o] = "userdata" /\ o # Main
      BY <1>2, <1>3, <1>13 DEF IsA
    <2> QED BY <2>1 DEF Marks!Refs
  <1>20. Tables(g, {}, c)
    <2>1. \A o \in F : kind[o] = "userdata" => ~IsA(o, "ephemeron") /\ ~IsA(o, "weakv") /\ ~IsA(o, "allweak")
      BY DEF IsA
    <2> QED BY <1>1, <1>7, <1>8, <1>13, <2>1 DEF Good, Tables, SameLists
  <1>21. Members(g, c)
    BY <1>1, <1>7, <1>8 DEF Good, Members, SameLists
  <1>22. Fresh(g, c)
    BY <1>2, <1>7, <1>8 DEF Fresh, SameLists
  <1>23. Threaded(g, {}, c)
    <2>1. /\ n.touched = b.touched
          /\ \A o \in n.twups : o \in R /\ IsA(o, "thread") /\ Marks!OpenIn(o) # {}
          /\ \A o \in R : IsA(o, "thread") /\ Marks!OpenIn(o) # {} => o \in n.twups
      BY <1>1 DEF Good, Threaded
    <2>2. \A o \in F : kind[o] = "userdata" => ~IsA(o, "thread")
      BY DEF IsA
    <2> QED BY <1>2, <1>7, <1>8, <1>13, <2>1, <2>2 DEF Threaded
  <1>24. Good(g, {}, c)
    BY <1>12, <1>15, <1>16, <1>18, <1>19, <1>20, <1>21, <1>22, <1>23 DEF Good
  <1> QED BY <1>7, <1>10, <1>24 DEF g, c

-----------------------------------------------------------------------------
(* What the atomic step's record comes to.                                 *)

Finishes(f, P, R, F) ==
  LET M == Marks!Resurrected(R, F)
  IN  /\ f.key = Marks!Emptied(key, Marks!Cleared(R, M))
      /\ f.val = Marks!Emptied(val, Marks!Cleared(R, M))
      /\ FlipWhite(f.color) = Marks!Flipped(M)
      /\ f.twups = Marks!KeptThreads(M)
      /\ f.touched = {u \in Marks!TouchedBy(P) : at[u] \notin twups \ P}

\* What the tables' entries are in the end.
LEMMA FinishesIs ==
  ASSUME Sound, NEW n, NEW P, IsReachable(n, P), NEW F, NEW q,
         Converged(q, q, Resurrecting(n, P, F)), NW(q) = Marks!Resurrected(NW(n), F),
         NEW e, SameLists(n, e)
  PROVE  Finishes(ClearValues(ClearKeys(q, q.ephemeron \union q.allweak),
                              (q.weak \ e.weak) \union (q.allweak \ e.allweak)),
                  P, NW(n), F)
  <1> DEFINE R == NW(n)
             M == NW(q)
             c == Resurrecting(n, P, F)
             X == Valueless(R)
             T2 == q.ephemeron \union q.allweak
             Y == {o \in T2 : IsWhite(q, q.key[o])}
             k == RemoveEntries(q, Y)
             T3 == (q.weak \ n.weak) \union (q.allweak \ n.allweak)
             Z == {o \in T3 : IsWhite(k, k.val[o])}
             f == RemoveEntries(k, Z)
             C == Marks!Cleared(R, M)
  <1>1. ClearValues(ClearKeys(q, T2), (q.weak \ e.weak) \union (q.allweak \ e.allweak)) = f
    BY DEF ClearValues, ClearKeys, SameLists
  <1>2. /\ Good(q, {}, c) /\ q.gray = {} /\ q.next = {} /\ Frame(q) /\ q \in Work /\ M \subseteq Nodes
        /\ Done(q, {}) = M /\ Waiting(q, {}) = {}
    BY DEF Converged, Good, Frame, NW, Done, Waiting
  <1>3. /\ c.X = X /\ c.old = R /\ c.weak = n.weak /\ c.allweak = n.allweak /\ c.inside = TRUE
        /\ c.touched = {u \in Marks!TouchedBy(P) : at[u] \notin twups \ P}
        /\ c.S = R \union F
    BY DEF Resurrecting
  <1>4. n.weak \subseteq R /\ n.allweak \subseteq R
    BY DEF IsReachable, Converged, Good, Members
  <1>5. R \subseteq M
    BY <1>2, <1>3 DEF Good, Bounds
  <1> HIDE DEF c
  <1>6. Removed(q, k, Y)
    <2> HIDE DEF Y
    <2> QED BY <1>2, RemoveEntriesIs
  <1> HIDE DEF k
  <1>7. Removed(k, f, Z)
    <2> HIDE DEF Z
    <2>1. k \in Work
      BY <1>6 DEF Removed
    <2> QED BY <2>1, RemoveEntriesIs
  <1> HIDE DEF f
  <1>8. \A o \in M \ {Main} : /\ o \in Objects /\ o \in Alive /\ key[o] \in Alive \union {None}
                              /\ val[o] \in Alive \union {None}
    BY <1>2 DEF NW, Frame, Alive, Nodes, Sound
  <1>9. \A v \in Alive \union {None} : IsWhite(q, v) <=> v \notin M \union {None}
    <2>1. \A v \in Alive \union {None} : ~IsWhite(q, v) => v \in M \union {None}
      BY <1>2, Marked1
    <2> QED BY <2>1 DEF IsWhite, NW
  <1>10. \A o \in Objects : /\ q.key[o] = IF o \in X THEN None ELSE key[o]
                            /\ q.val[o] = IF o \in X THEN None ELSE val[o]
    BY <1>2, <1>3 DEF Good, Data
  <1>11. X \subseteq R \ {Main} /\ \A o \in X : o \in Objects /\ o \in C
    <2>1. X \subseteq R \ {Main}
      BY DEF Valueless
    <2>2. \A o \in X : o \in Objects
      BY <1>5, <1>8, <2>1
    <2>3. \A o \in X : o \in C
      BY <1>5, <2>1 DEF Valueless, Marks!Cleared
    <2> QED BY <2>1, <2>2, <2>3
  <1>12. \A o \in T2 : o \in M \ {Main} /\ (IsA(o, "ephemeron") \/ IsA(o, "allweak"))
    BY <1>2 DEF Good, Members, IsA
  <1>13. \A o \in T3 : /\ o \in M \ {Main}
                       /\ \/ (IsA(o, "weakv") \/ IsA(o, "allweak")) /\ o \notin R
                          \/ IsA(o, "ephemeron") /\ val[o] \in M \union {None}
    <2>1. \A o \in q.weak : o \in M /\ IsA(o, "weakv")
      BY <1>2 DEF Good, Members
    <2>2. \A o \in q.allweak : o \in M /\ (IsA(o, "allweak") \/
                             (IsA(o, "ephemeron") /\ val[o] \in M \union {None}))
      BY <1>2 DEF Good, Members
    <2>3. /\ q.weak \intersect R \subseteq n.weak
          /\ \A o \in q.allweak \intersect R : IsA(o, "allweak") => o \in n.allweak
      BY <1>2, <1>3 DEF Good, Fresh
    <2> QED BY <2>1, <2>2, <2>3 DEF IsA
  <1>14. ASSUME NEW o \in Y PROVE o \in C /\ o \in Objects
    <2>1. o \in M \ {Main} /\ o \in Objects /\ (IsA(o, "ephemeron") \/ IsA(o, "allweak"))
      BY <1>8, <1>12, <1>14
    <2>2. q.key[o] = key[o]
      BY <1>10, <1>14, <2>1 DEF IsWhite
    <2>3. key[o] \notin M \union {None}
      BY <1>8, <1>9, <1>14, <2>1, <2>2
    <2> QED BY <2>1, <2>3 DEF Marks!Cleared, IsA
  <1>15. \A o \in Objects : /\ k.val[o] = IF o \in X \union Y THEN None ELSE val[o]
                            /\ k.key[o] = IF o \in X \union Y THEN None ELSE key[o]
    BY <1>6, <1>10 DEF Removed
  <1>16. \A v : IsWhite(k, v) <=> IsWhite(q, v)
    BY <1>6 DEF Removed, IsWhite
  <1>17. ASSUME NEW o \in Z PROVE o \in C /\ o \in Objects
    <2>1. /\ o \in M \ {Main} /\ o \in Objects
          /\ \/ (IsA(o, "weakv") \/ IsA(o, "allweak")) /\ o \notin R
             \/ IsA(o, "ephemeron") /\ val[o] \in M \union {None}
      BY <1>8, <1>13, <1>17
    <2>2. k.val[o] = val[o]
      BY <1>15, <1>17, <2>1 DEF IsWhite
    <2>3. val[o] \notin M \union {None}
      BY <1>8, <1>9, <1>16, <1>17, <2>1, <2>2
    <2> QED BY <2>1, <2>3 DEF Marks!Cleared, IsA
  <1>18. ASSUME NEW o \in C, o \notin X, o \notin Y PROVE o \in Z
    <2>1. o \in M \ {Main} /\ o \in Objects
      BY <1>8 DEF Marks!Cleared
    <2>2. CASE kind[o] \in {"ephemeron", "allweak"} /\ key[o] \notin {None} \union M
      <3>1. o \in T2
        <4>1. IsA(o, "ephemeron") \/ IsA(o, "allweak")
          BY <2>1, <2>2 DEF IsA
        <4> QED BY <1>2, <2>1, <2>2, <4>1 DEF Good, Tables
      <3>2. IsWhite(q, q.key[o])
        BY <1>8, <1>9, <1>10, <1>18, <2>1, <2>2
      <3> QED BY <1>18, <3>1, <3>2
    <2>3. CASE kind[o] \in {"weakv", "allweak"} /\ val[o] \notin {None} \union (IF o \in R THEN R ELSE M)
      <3>1. o \notin R
        BY <1>18, <2>1, <2>3 DEF Valueless
      <3>2. IsA(o, "weakv") \/ IsA(o, "allweak")
        BY <2>1, <2>3 DEF IsA
      <3>3. val[o] \notin M \union {None}
        BY <2>3, <3>1
      <3>4. o \in q.weak \union q.allweak
        BY <1>2, <1>3, <1>18, <2>1, <3>2, <3>3 DEF Good, Tables
      <3>5. o \in T3
        BY <1>4, <3>1, <3>4
      <3>6. IsWhite(k, k.val[o])
        BY <1>8, <1>9, <1>15, <1>16, <1>18, <2>1, <3>3
      <3> QED BY <3>5, <3>6
    <2> QED BY <2>2, <2>3 DEF Marks!Cleared
  <1> HIDE DEF X, Y, Z, C, T2, T3
  <1>19. X \union Y \union Z = C
    BY <1>11, <1>14, <1>17, <1>18
  <1>20. \A o \in Objects : /\ f.key[o] = IF o \in C THEN None ELSE key[o]
                            /\ f.val[o] = IF o \in C THEN None ELSE val[o]
    <2>1. \A o \in Objects : /\ f.key[o] = IF o \in Z THEN None ELSE k.key[o]
                             /\ f.val[o] = IF o \in Z THEN None ELSE k.val[o]
      BY <1>7 DEF Removed
    <2> QED BY <1>15, <1>19, <2>1
  <1>21. f.key \in [Objects -> Value] /\ f.val \in [Objects -> Value]
    BY <1>7 DEF Removed, Work
  <1>22. f.key = Marks!Emptied(key, C) /\ f.val = Marks!Emptied(val, C)
    BY <1>20, <1>21 DEF Marks!Emptied
  <1>23. f.color = q.color /\ f.twups = q.twups /\ f.touched = q.touched
    BY <1>6, <1>7 DEF Removed
  <1>24. FlipWhite(f.color) = Marks!Flipped(M)
    <2>1. ASSUME NEW o \in Nodes
          PROVE  (IF q.color[o] = "white" THEN "dead" ELSE q.color[o])
                   = IF color[o] = "free" THEN "free"
                     ELSE IF o \notin M THEN "dead"
                     ELSE IF Marks!StaysGray(o) THEN "gray" ELSE "black"
      <3>1. /\ q.color[o] \in MP!Color /\ q.color[o] # "dead"
            /\ (q.color[o] = "free" <=> color[o] = "free")
        BY <1>2 DEF Frame, Work
      <3>2. o \in M <=> q.color[o] \in {"gray", "black"}
        BY DEF NW
      <3>3. o \in M => (q.color[o] = "gray" <=> Marks!StaysGray(o))
        BY <1>2 DEF Good, Colored
      <3> HIDE DEF M
      <3> QED BY <3>1, <3>2, <3>3 DEF MP!Color
    <2> HIDE DEF M
    <2> QED BY <1>23, <2>1 DEF FlipWhite, Marks!Flipped, Marks!Nodes, Nodes
  <1>25. f.twups = Marks!KeptThreads(M)
    <2>1. /\ \A o \in q.twups : o \in M /\ IsA(o, "thread") /\ Marks!OpenIn(o) # {}
          /\ \A o \in M : IsA(o, "thread") /\ Marks!OpenIn(o) # {} => o \in q.twups
      BY <1>2, <1>3 DEF Good, Threaded
    <2>2. \A o \in M : IsA(o, "thread") <=> o \in Marks!Threads
      BY <1>8, ObjectsAssumption DEF IsA, Marks!Threads
    <2> HIDE DEF M
    <2> QED BY <1>23, <2>1, <2>2 DEF Marks!KeptThreads
  <1>26. f.touched = {u \in Marks!TouchedBy(P) : at[u] \notin twups \ P}
    BY <1>2, <1>3, <1>23 DEF Good, Threaded
  <1>27. Finishes(f, P, R, F)
    BY <1>22, <1>24, <1>25, <1>26 DEF Finishes, C
  <1> QED BY <1>1, <1>27 DEF T2

\* The parts of the atomic step.
Marked2(h, P, R) ==
  /\ P \in Marks!Propagations /\ R = Marks!Reached(P) /\ R \subseteq Nodes
  /\ \A o \in Objects : IsWhite(h, o) <=> o \notin R /\ o \in Alive
  /\ \A F : F \subseteq Alive => Finishes(MarkResurrected(h, F), P, R, F)

\* markmt, propagateall, remarkupvals and convergeephemerons, one after the other.
LEMMA MarkReachableIs ==
  ASSUME Begins
  PROVE  \E P, R : Marked2(MarkReachable, P, R)
  <1> DEFINE h == PropagateAll(Started, FALSE)
             P == NW(h)
             n == Reachable(h)
             R == NW(n)
             e == ClearValues(n, n.weak \union n.allweak)
  <1>1. FirstMarks(h, P)
    BY FirstMarksAre
  <1>2. MarkReachable = e
    BY DEF MarkReachable, Reachable, Started
  <1> HIDE DEF h, P
  <1>3. IsReachable(n, P) /\ Sound
    BY <1>1, ReachableIs DEF Begins
  <1> HIDE DEF n
  <1>4. Removed(n, e, Valueless(R))
    BY <1>3, ClearValuesIs
  <1> HIDE DEF e
  <1>5. P \in Marks!Propagations /\ R = Marks!Reached(P) /\ R \subseteq Nodes /\ SameLists(n, e)
        /\ e.color = n.color /\ Frame(n)
    BY <1>3, <1>4 DEF IsReachable, Removed, NW, Converged, Good
  <1>6. \A o \in Objects : IsWhite(e, o) <=> o \notin R /\ o \in Alive
    BY <1>5, ObjectsAssumption DEF IsWhite, NW, Frame, Work, MP!Color, Alive, Nodes
  <1>7. ASSUME NEW F, F \subseteq Alive
        PROVE  Finishes(MarkResurrected(e, F), P, R, F)
    <2> DEFINE g == MarkIn(e, F)
               c == Resurrecting(n, P, F)
               q == ConvergeEphemerons(PropagateAll(g, TRUE))
    <2>1. Good(g, {}, c) /\ Phase(c) /\ g.next = {}
      BY <1>3, <1>4, <1>7, ResurrectIs
    <2>2. c.inside = TRUE /\ c.M = Marks!Resurrected(R, F)
      BY DEF Resurrecting
    <2>3. MarkResurrected(e, F)
            = ClearValues(ClearKeys(q, q.ephemeron \union q.allweak),
                          (q.weak \ e.weak) \union (q.allweak \ e.allweak))
      BY DEF MarkResurrected
    <2> HIDE DEF g, c
    <2>4. Converged(q, q, c) /\ NW(q) = c.M
      BY <1>3, <2>1, <2>2, ConvergeInside
    <2> HIDE DEF q
    <2>5. Converged(q, q, Resurrecting(n, P, F)) /\ NW(q) = Marks!Resurrected(NW(n), F)
      BY <2>2, <2>4 DEF c
    <2> QED BY <1>3, <1>5, <2>3, <2>5, FinishesIs
  <1>8. Marked2(e, P, R)
    BY <1>5, <1>6, <1>7 DEF Marked2
  <1> QED BY <1>2, <1>8

-----------------------------------------------------------------------------
(* The lists that the atomic step leaves.                                  *)

\* Two lists without a common member, one after the other.
LEMMA JoinedIs ==
  ASSUME NEW S, NEW a \in Seq(S), NEW b \in Seq(S), IsInjective(a), IsInjective(b),
         ToSet(a) \intersect ToSet(b) = {}
  PROVE  a \o b \in Seq(S) /\ ToSet(a \o b) = ToSet(a) \union ToSet(b) /\ IsInjective(a \o b)
  <1> DEFINE c == a \o b
             n == Len(a)
             k == Len(b)
  <1>1. c \in Seq(S) /\ Joins(c, a, b, n)
    BY Concat
  <1>2. n \in Nat /\ k \in Nat
    OBVIOUS
  <1>3. Len(c) = n + k /\ (\A m \in 1..n : c[m] = a[m]) /\ \A m \in 1..k : c[n + m] = b[m]
    BY <1>1 DEF Joins
  <1>4. ToSet(a) = {a[m] : m \in 1..n} /\ ToSet(b) = {b[m] : m \in 1..k}
    BY ToSetIs
  <1>5. /\ \A i, j \in 1..n : a[i] = a[j] => i = j
        /\ \A i, j \in 1..k : b[i] = b[j] => i = j
    BY InjectiveIs
  <1> HIDE DEF c, n, k
  <1>6. \A m \in 1..(n + k) : \/ m \in 1..n
                              \/ \E j \in 1..k : m = n + j
    <2> SUFFICES ASSUME NEW m \in 1..(n + k), m \notin 1..n PROVE \E j \in 1..k : m = n + j
      OBVIOUS
    <2>1. m - n \in 1..k /\ m = n + (m - n)
      BY <1>2
    <2> QED BY <2>1
  <1>7. ToSet(c) = {c[m] : m \in 1..(n + k)}
    BY <1>1, <1>3, ToSetIs
  <1>8. ToSet(c) = ToSet(a) \union ToSet(b)
    <2>1. \A m \in 1..(n + k) : c[m] \in ToSet(a) \union ToSet(b)
      BY <1>3, <1>4, <1>6
    <2>2. ASSUME NEW x \in ToSet(a) PROVE \E m \in 1..(n + k) : x = c[m]
      <3>1. PICK m \in 1..n : x = a[m]
        BY <1>4
      <3>2. m \in 1..(n + k)
        BY <1>2
      <3> QED BY <1>3, <3>1, <3>2
    <2>3. ASSUME NEW x \in ToSet(b) PROVE \E m \in 1..(n + k) : x = c[m]
      <3>1. PICK m \in 1..k : x = b[m]
        BY <1>4
      <3>2. n + m \in 1..(n + k)
        BY <1>2
      <3> QED BY <1>3, <3>1, <3>2
    <2> QED BY <1>7, <2>1, <2>2, <2>3
  <1>9. \A i, j \in 1..(n + k) : c[i] = c[j] => i = j
    <2> SUFFICES ASSUME NEW i \in 1..(n + k), NEW j \in 1..(n + k), c[i] = c[j] PROVE i = j
      OBVIOUS
    <2>1. CASE i \in 1..n /\ j \in 1..n
      BY <1>3, <1>5, <2>1
    <2>2. CASE i \in 1..n /\ j \notin 1..n
      <3>1. PICK y \in 1..k : j = n + y
        BY <1>6, <2>2
      <3>2. c[i] \in ToSet(a) /\ c[j] \in ToSet(b)
        BY <1>3, <1>4, <2>2, <3>1
      <3> QED BY <3>2
    <2>3. CASE i \notin 1..n /\ j \in 1..n
      <3>1. PICK y \in 1..k : i = n + y
        BY <1>6, <2>3
      <3>2. c[i] \in ToSet(b) /\ c[j] \in ToSet(a)
        BY <1>3, <1>4, <2>3, <3>1
      <3> QED BY <3>2
    <2>4. CASE i \notin 1..n /\ j \notin 1..n
      <3>1. PICK x \in 1..k : i = n + x
        BY <1>6, <2>4
      <3>2. PICK y \in 1..k : j = n + y
        BY <1>6, <2>4
      <3>3. x = y
        BY <1>3, <1>5, <3>1, <3>2
      <3> QED BY <3>1, <3>2, <3>3
    <2> QED BY <2>1, <2>2, <2>3, <2>4
  <1>10. IsInjective(c)
    BY <1>1, <1>3, <1>9, InjectiveIs
  <1> QED BY <1>1, <1>8, <1>10 DEF c

\* separatetobefnz: the white ones among finobj go to the end of tobefnz.
Separated(L, M, white) ==
  /\ Apart(M) /\ M["allgc"] = L["allgc"]
  /\ ToSet(M["finobj"]) = ToSet(L["finobj"]) \ white
  /\ ToSet(M["tobefnz"]) = ToSet(L["tobefnz"]) \union (ToSet(L["finobj"]) \intersect white)

\* separatetobefnz moves the white objects of finobj to the end of tobefnz.
LEMMA SeparatesIs ==
  ASSUME NEW L, Apart(L), NEW white \in SUBSET Objects, NEW tofin,
         tofin = L["tobefnz"] \o Without(L["finobj"], Objects \ white)
  PROVE  Separated(L, [L EXCEPT !["finobj"] = Without(@, white), !["tobefnz"] = tofin], white)
  <1> DEFINE a == L["tobefnz"]
             b == L["finobj"]
             w == Without(b, Objects \ white)
             v == Without(b, white)
             M == [L EXCEPT !["finobj"] = v, !["tobefnz"] = tofin]
  <1>1. /\ L \in [ListNames -> Seq(Objects)] /\ a \in Seq(Objects) /\ b \in Seq(Objects)
        /\ IsInjective(a) /\ IsInjective(b) /\ ToSet(a) \intersect ToSet(b) = {}
    BY DEF Apart, ListNames
  <1>2. ToSet(b) \subseteq Objects
    BY <1>1, ToSetIs
  <1>3. v \in Seq(Objects) /\ ToSet(v) = ToSet(b) \ white /\ IsInjective(v)
    BY <1>1, WithoutSet
  <1>4. w \in Seq(Objects) /\ ToSet(w) = ToSet(b) \intersect white /\ IsInjective(w)
    <2>1. w \in Seq(Objects) /\ ToSet(w) = ToSet(b) \ (Objects \ white) /\ IsInjective(w)
      BY <1>1, WithoutSet
    <2> QED BY <1>2, <2>1
  <1> HIDE DEF v, w
  <1>5. tofin \in Seq(Objects) /\ ToSet(tofin) = ToSet(a) \union ToSet(w) /\ IsInjective(tofin)
    <2>1. a \o w \in Seq(Objects) /\ ToSet(a \o w) = ToSet(a) \union ToSet(w) /\ IsInjective(a \o w)
      BY <1>1, <1>4, JoinedIs
    <2>2. tofin = a \o w
      BY DEF w
    <2> QED BY <2>1, <2>2
  <1>6. /\ M \in [ListNames -> Seq(Objects)] /\ M["allgc"] = L["allgc"] /\ M["finobj"] = v
        /\ M["tobefnz"] = tofin
    BY <1>1, <1>3, <1>5 DEF ListNames
  <1>7. M = [L EXCEPT !["finobj"] = Without(@, white), !["tobefnz"] = tofin]
    BY <1>1 DEF v, ListNames
  <1> HIDE DEF M
  <1>8. Apart(M)
    <2>1. ASSUME NEW l \in ListNames PROVE IsInjective(M[l])
      BY <1>3, <1>5, <1>6 DEF Apart, ListNames
    <2>2. /\ ToSet(L["allgc"]) \intersect ToSet(a) = {}
          /\ ToSet(L["allgc"]) \intersect ToSet(b) = {}
      BY DEF Apart, ListNames
    <2>3. ASSUME NEW l \in ListNames, NEW m \in ListNames, l # m
          PROVE  ToSet(M[l]) \intersect ToSet(M[m]) = {}
      <3>1. /\ ToSet(M["allgc"]) \intersect ToSet(M["finobj"]) = {}
            /\ ToSet(M["allgc"]) \intersect ToSet(M["tobefnz"]) = {}
            /\ ToSet(M["finobj"]) \intersect ToSet(M["tobefnz"]) = {}
        BY <1>1, <1>3, <1>4, <1>5, <1>6, <2>2
      <3>2. l \in {"allgc", "finobj", "tobefnz"} /\ m \in {"allgc", "finobj", "tobefnz"}
        BY DEF ListNames
      <3> HIDE DEF a, b
      <3> QED BY <2>3, <3>1, <3>2
    <2> QED BY <1>6, <2>1, <2>3 DEF Apart
  <1> QED BY <1>3, <1>4, <1>5, <1>6, <1>7, <1>8 DEF Separated

-----------------------------------------------------------------------------
(* The atomic step.                                                        *)

\* The atomic step is Tricolour's, which marks what is reachable in one go.
LEMMA AtomicKeeps ==
  ASSUME CInv, Atomic
  PROVE  MarksStep /\ ListInv'
  <1> DEFINE h == MarkReachable
             white == {o \in Objects : IsWhite(h, o)}
             tofin == list["tobefnz"] \o Without(list["finobj"], Objects \ white)
             F == ToSet(tofin)
             m == MarkResurrected(h, F)
             L == [list EXCEPT !["finobj"] = Without(@, white), !["tobefnz"] = tofin]
             s == [list |-> L, color |-> FlipWhite(m.color)]
             r == SweepList(s, "allgc", 1)
             freed == FreedIn(r.swept)
             finobj == ToSet(list["finobj"])
             tobefnz == ToSet(list["tobefnz"])
  <1>1. /\ gcstate = "atomic"
        /\ list' = r.swept.list /\ color' = r.swept.color /\ sweepgc' = r.p /\ gcstate' = "swpallgc"
        /\ key' = Marks!Emptied(m.key, freed) /\ val' = Marks!Emptied(m.val, freed)
        /\ up' = Marks!Emptied(up, freed)
        /\ Marks!Closing(freed)
        /\ touched' = {u \in m.touched : at[u] \notin freed}
        /\ twups' = m.twups
        /\ gray' = {} /\ grayagain' = {} /\ allweak' = {}
        /\ UNCHANGED <<kind, stack, full>>
    BY DEF Atomic, EnterSweep, Become
  <1>2. Begins
    BY <1>1, BeginsIs
  <1>3. \E P, R : Marked2(h, P, R)
    BY <1>2, MarkReachableIs
  <1> HIDE DEF h
  <1>4. PICK P, R : Marked2(h, P, R)
    BY <1>3
  <1>5. P \in Marks!Propagations /\ R = Marks!Reached(P) /\ R \subseteq Nodes
        /\ white = {o \in Alive : o \notin R} /\ white \in SUBSET Objects
    BY <1>4 DEF Marked2, Alive
  <1>6. Apart(list) /\ Listed(list, color) /\ list \in [ListNames -> Seq(Objects)]
    BY DEF CInv, ListInv, Listed, Apart
  <1>7. finobj \subseteq Alive /\ tobefnz \subseteq Alive
    <2>1. "finobj" \in ListNames /\ "tobefnz" \in ListNames
      BY DEF ListNames
    <2>2. finobj \subseteq Objects /\ tobefnz \subseteq Objects
      BY <1>6, <2>1, ToSetIs
    <2> QED BY <1>6, <2>1, <2>2 DEF Listed, Alive
  <1> HIDE DEF white, tofin
  <1>8. Separated(list, L, white)
    <2>1. tofin = list["tobefnz"] \o Without(list["finobj"], Objects \ white)
      BY DEF tofin
    <2> QED BY <1>5, <1>6, <2>1, SeparatesIs
  <1>9. L["tobefnz"] = tofin
    BY <1>6 DEF ListNames
  <1> HIDE DEF L
  <1>10. F = Marks!ToFinalize(R) /\ ToSet(L["finobj"]) = finobj \intersect R /\ F \subseteq Alive
    BY <1>5, <1>7, <1>8, <1>9 DEF Separated, Marks!ToFinalize
  <1> DEFINE M == Marks!Resurrected(R, F)
             c == Marks!Flipped(M)
  <1> HIDE DEF F
  <1>11. Finishes(m, P, R, F)
    BY <1>4, <1>10 DEF Marked2
  <1>12. /\ m.key = Marks!Emptied(key, Marks!Cleared(R, M))
         /\ m.val = Marks!Emptied(val, Marks!Cleared(R, M))
         /\ FlipWhite(m.color) = c /\ m.twups = Marks!KeptThreads(M)
         /\ m.touched = {u \in Marks!TouchedBy(P) : at[u] \notin twups \ P}
    BY <1>11 DEF Finishes
  <1> HIDE DEF m
  <1>13. R \union F \subseteq M
    <2>1. R \union F \subseteq Marks!Nodes
      BY <1>5, <1>10 DEF Marks!Nodes, Nodes, Alive
    <2> HIDE DEF F
    <2> QED BY <2>1 DEF Marks!Resurrected, Marks!MarkAll
  <1> HIDE DEF M
  <1>14. \A o \in Objects : /\ c[o] = "free" <=> color[o] = "free"
                            /\ c[o] = "dead" => o \notin M
    BY DEF Marks!Flipped, Marks!Nodes
  <1> HIDE DEF c
  <1>15. s.list = L /\ s.color = c
    BY <1>12
  <1>16. Listed(s.list, s.color)
    <2>1. \A o \in Objects : (\E l \in ListNames : o \in ToSet(L[l])) <=> \E l \in ListNames : o \in ToSet(list[l])
      BY <1>8 DEF Separated, ListNames
    <2> QED BY <1>6, <1>8, <1>14, <1>15, <2>1 DEF Listed, Separated
  <1> HIDE DEF s
  <1>17. PICK S : Entered(s, r, S)
    BY <1>16, EnterSweepIs
  <1> HIDE DEF r
  <1> DEFINE D == Marks!Freed(S, c)
  <1>18. /\ S \in Marks!AtMostOne /\ r.swept.color = Marks!Swept(S, c)
         /\ \A o \in Objects : r.swept.color[o] = "free" /\ c[o] # "free" <=> o \in D
         /\ Listed(r.swept.list, r.swept.color)
         /\ Part(r.swept.list, r.swept.color, "allgc", r.p)
         /\ \A l \in ListNames : ToSet(r.swept.list[l]) = ToSet(L[l]) \ D
    BY <1>15, <1>17 DEF Entered
  <1>19. D \subseteq Objects /\ D \intersect M = {}
    BY <1>14, <1>18 DEF Marks!Freed, Marks!AtMostOne
  <1>20. freed = D
    BY <1>14, <1>18, <1>19 DEF FreedIn
  <1> HIDE DEF freed, D
  <1>21. Marks!EndAtomic(P, R, F, M, S)
    <2>1. ToSet(list'["tobefnz"]) = F /\ ToSet(list'["finobj"]) = finobj \intersect R
      <3>1. "finobj" \in ListNames /\ "tobefnz" \in ListNames
        BY DEF ListNames
      <3> QED BY <1>1, <1>9, <1>10, <1>13, <1>18, <1>19, <3>1 DEF F
    <2>2. twups' = Marks!KeptThreads(M) /\ color' = Marks!Swept(S, c)
          /\ up' = Marks!Emptied(up, D) /\ Marks!Closing(D)
      BY <1>1, <1>12, <1>18, <1>20
    <2>3. \A f, A : Marks!Emptied(Marks!Emptied(f, A), D) = Marks!Emptied(f, A \union D)
      BY DEF Marks!Emptied
    <2>4. /\ key' = Marks!Emptied(key, Marks!Cleared(R, M) \union D)
          /\ val' = Marks!Emptied(val, Marks!Cleared(R, M) \union D)
      BY <1>1, <1>12, <1>20, <2>3
    <2>5. touched' = {u \in Marks!TouchedBy(P) : at[u] \notin (twups \ P) \union D}
      BY <1>1, <1>12, <1>20
    <2> QED BY <2>1, <2>2, <2>4, <2>5 DEF Marks!EndAtomic, c, D
  <1>22. Marks!Atomic
    <2>1. /\ (IF Sweeping THEN "sweep" ELSE gcstate) = "atomic"
          /\ (IF Sweeping THEN "sweep" ELSE gcstate)' = "sweep"
      BY <1>1 DEF Sweeping
    <2>2. F \in {Marks!ToFinalize(R)} /\ M \in {Marks!Resurrected(R, F)} /\ R \in {Marks!Reached(P)}
      BY <1>5, <1>10 DEF M
    <2> HIDE DEF F
    <2> QED BY <1>1, <1>5, <1>18, <1>21, <2>1, <2>2 DEF Marks!Atomic
  <1>23. MarksStep
    BY <1>22 DEF MarksStep, Marks!Next, Marks!Collect
  <1>24. Progress(gcstate', list', color', sweepgc') /\ gcstate' \in States /\ Listed(list', color')
    BY <1>1, <1>18 DEF Progress, States
  <1>25. Kinded' /\ GrayKinds'
    <2>1. \A o \in Objects : color'[o] # "free" => color[o] # "free"
      BY <1>1, <1>14, <1>18 DEF Marks!Swept, Marks!Nodes
    <2>2. Kinded'
      BY <1>1, <2>1 DEF CInv, ListInv, Kinded
    <2>3. GrayKinds'
      BY <1>1 DEF GrayKinds, Marking
    <2> QED BY <2>2, <2>3
  <1> QED BY <1>23, <1>24, <1>25 DEF ListInv

-----------------------------------------------------------------------------
(* All steps.                                                              *)

\* The invariant holds at first,
LEMMA InitKeeps ==
  ASSUME Init
  PROVE  Marks!Init /\ CInv
  <1>1. \A l \in ListNames : list[l] = <<>>
    BY DEF Init
  <1>2. ToSet(<<>>) = {} /\ IsInjective(<<>>) /\ <<>> \in Seq(Objects)
    BY DEF ToSet, IsInjective
  <1>3. "finobj" \in ListNames /\ "tobefnz" \in ListNames
    BY DEF ListNames
  <1>4. Marks!Init
    <2>1. ToSet(list["finobj"]) = {} /\ ToSet(list["tobefnz"]) = {}
      BY <1>1, <1>2, <1>3
    <2> QED BY <2>1 DEF Init, Marks!Init, Nodes, Marks!Nodes, Sweeping
  <1>5. MP!IInv
    BY <1>4, SameInit, MarksFacts, MP!InvStart
  <1>6. \A o \in Objects : color[o] = "free"
    BY ObjectsAssumption DEF Init, Nodes
  <1>7. Listed(list, color)
    <2>1. \A l \in ListNames : ToSet(list[l]) = {} /\ IsInjective(list[l])
      BY <1>1, <1>2
    <2>2. list \in [ListNames -> Seq(Objects)]
      BY <1>2 DEF Init
    <2> QED BY <1>6, <2>1, <2>2 DEF Listed, Apart
  <1>8. ListInv
    BY <1>6, <1>7 DEF ListInv, Init, States, Progress, Kinded, GrayKinds, Marking
  <1> QED BY <1>4, <1>5, <1>8 DEF CInv

\* and after every step that is not Astray, which is a step of Tricolour.
LEMMA StepKeeps ==
  ASSUME CInv, [Next]_vars, ~Astray
  PROVE  MarksStep /\ CInv'
  <1>1. ASSUME MarksStep /\ ListInv' PROVE CInv'
    <2>1. MP!Next \/ UNCHANGED MP!vars
      <3>1. UNCHANGED Marks!vars => UNCHANGED MP!vars
        BY DEF Marks!vars, MP!vars
      <3> QED BY <1>1, <3>1, SameNext DEF MarksStep
    <2>2. MP!IInv'
      BY <2>1, MarksFacts, MP!InvStep DEF CInv
    <2> QED BY <1>1, <2>2 DEF CInv
  <1>2. MarksStep /\ ListInv'
    <2>1. CASE Program
      BY <2>1, AccessKeeps, NewObjectKeeps, CheckFinalizerKeeps DEF Program
    <2>2. CASE Step
      <3>1. CASE SweepStep("swpallgc", "swpfinobj", "finobj")
        BY <3>1, SweepStepKeeps DEF SweepIn
      <3>2. CASE SweepStep("swpfinobj", "swptobefnz", "tobefnz")
        BY <3>2, SweepStepKeeps DEF SweepIn
      <3>3. CASE SweepStep("swptobefnz", "swpend", "NULL")
        BY <3>3, SweepStepKeeps DEF SweepIn
      <3> QED BY <2>2, <3>1, <3>2, <3>3, RestartKeeps, PropagateKeeps, AtomicKeeps,
                 SweepEndKeeps, CycleEndKeeps DEF Step
    <2>3. CASE CallFinalizer
      BY <2>3, CallFinalizerKeeps
    <2>4. CASE FullGC
      BY <2>4, FullGCKeeps
    <2>5. CASE UNCHANGED vars
      <3>1. MarksStep
        BY <2>5 DEF vars, MarksStep, Marks!vars, Sweeping
      <3>2. ListInv'
        BY <2>5 DEF vars, CInv, ListInv, Kinded, GrayKinds, Marking
      <3> QED BY <3>1, <3>2
    <2> QED BY <2>1, <2>2, <2>3, <2>4, <2>5 DEF Next
  <1> QED BY <1>1, <1>2

\* It implies OneList.
LEMMA ListsAre ==
  ASSUME CInv
  PROVE  OneList
  <1> DEFINE a == list["allgc"]
             b == list["finobj"]
             c == list["tobefnz"]
  <1>1. Listed(list, color) /\ Apart(list)
    BY DEF CInv, ListInv, Listed
  <1>2. /\ a \in Seq(Objects) /\ b \in Seq(Objects) /\ c \in Seq(Objects)
        /\ IsInjective(a) /\ IsInjective(b) /\ IsInjective(c)
        /\ ToSet(a) \intersect ToSet(b) = {} /\ ToSet(a) \intersect ToSet(c) = {}
        /\ ToSet(b) \intersect ToSet(c) = {}
    BY <1>1 DEF Apart, ListNames
  <1>3. \A o \in Objects : o \in ToSet(a) \union ToSet(b) \union ToSet(c) <=> color[o] # "free"
    BY <1>1 DEF Listed, ListNames
  <1> HIDE DEF a, b, c
  <1>4. a \o b \in Seq(Objects) /\ ToSet(a \o b) = ToSet(a) \union ToSet(b) /\ IsInjective(a \o b)
    BY <1>2, JoinedIs
  <1> DEFINE d == a \o b
             L == d \o c
  <1>5. d \in Seq(Objects) /\ ToSet(d) = ToSet(a) \union ToSet(b) /\ IsInjective(d)
    BY <1>4
  <1> HIDE DEF d
  <1>6. L \in Seq(Objects) /\ ToSet(L) = ToSet(d) \union ToSet(c) /\ IsInjective(L)
    BY <1>2, <1>5, JoinedIs
  <1>7. Lists = L
    BY DEF Lists, L, d, a, b, c
  <1> HIDE DEF L
  <1>8. ToSet(L) \subseteq Objects
    BY <1>6, ToSetIs
  <1> QED BY <1>3, <1>5, <1>6, <1>7, <1>8 DEF OneList, Marks!Allocated

\* Both facts, for stuttering steps too.
LEMMA Preserves == CInv /\ [Next]_vars /\ [~Astray]_vars => CInv' /\ [Marks!Next]_(Marks!vars)
  <1> SUFFICES ASSUME CInv, [Next]_vars, [~Astray]_vars
               PROVE  CInv' /\ [Marks!Next]_(Marks!vars)
    OBVIOUS
  <1>1. UNCHANGED vars => ~Astray
    <2> SUFFICES ASSUME UNCHANGED vars, Astray PROVE FALSE
      OBVIOUS
    <2> DEFINE q == list["tobefnz"]
    <2>1. q # <<>> /\ q \in Seq(Objects) /\ IsInjective(q) /\ list' = list
          /\ list'["tobefnz"] = Tail(q)
      BY DEF Astray, CallFinalizer, vars, CInv, ListInv, Listed, Apart, ListNames
    <2>2. Tail(q) = q
      BY <2>1
    <2> HIDE DEF q
    <2>3. Len(Tail(q)) = Len(q) - 1 /\ Len(q) \in Nat
      BY <2>1, PopIs
    <2> QED BY <2>2, <2>3
  <1>2. ~Astray
    BY <1>1
  <1> QED BY <1>2, StepKeeps DEF MarksStep

\* Collector implements Tricolour, as long as no finalizer is called of the object
\* whose next field is swept next (udata2finalize does not move sweepgc along).
THEOREM Implements == Spec /\ [][~Astray]_vars => MarksSpec
  BY InitKeeps, Preserves, PTL DEF Spec, MarksSpec, Marks!Spec

\* Then every object is in one of the lists, once.
THEOREM ListedOnce == Spec /\ [][~Astray]_vars => []OneList
  BY InitKeeps, Preserves, ListsAre, PTL DEF Spec

-----------------------------------------------------------------------------
(* A sweepstep sweeps GCSWEEPMAX objects, so it comes to the end of        *)
(* tobefnz at once unless more finalizers than that are pending.           *)

SweptAtOnce == gcstate = "swptobefnz" => Len(list["tobefnz"]) <= SweepMax

\* Sweeping has not stopped at an object of tobefnz.
PassesBy == gcstate = "swptobefnz" => sweepgc \notin Objects

\* Then no finalizer is called while sweepgc points to its object.
LEMMA NotAstray ==
  ASSUME CInv, PassesBy
  PROVE  ~Astray
  <1> SUFFICES ASSUME Astray PROVE FALSE
    OBVIOUS
  <1> DEFINE q == list["tobefnz"]
             o == Head(q)
  <1>1. q # <<>> /\ q \in Seq(Objects) /\ IsInjective(q) /\ Apart(list) /\ Sweeping /\ sweepgc = o
    BY DEF Astray, CallFinalizer, CInv, ListInv, Listed, Apart, ListNames
  <1> HIDE DEF q
  <1>2. o \in ToSet(q) /\ o \in Objects
    <2>1. o \in ToSet(q)
      BY <1>1, PopIs
    <2> QED BY <1>1, <2>1, ToSetIs
  <1> HIDE DEF o
  <1>3. o \notin ListNames /\ o # "NULL"
    BY <1>2, NamesAssumption
  <1>4. \A l \in ListNames : Part(list, color, l, o) => o \in ToSet(list[l])
    <2> SUFFICES ASSUME NEW l \in ListNames, Part(list, color, l, o) PROVE o \in ToSet(list[l])
      OBVIOUS
    <2>1. PICK k \in Nat : IsAt(list, l, o, k)
      BY <1>3 DEF Part
    <2>2. k \in 1..Len(list[l]) /\ list[l][k] = o
      BY <1>3, <2>1 DEF IsAt
    <2>3. list[l] \in Seq(Objects)
      BY <1>1 DEF Apart
    <2> QED BY <2>2, <2>3, ToSetIs
  <1>5. Progress(gcstate, list, color, o)
    BY <1>1 DEF CInv, ListInv
  <1>6. "allgc" \in ListNames /\ "finobj" \in ListNames /\ "tobefnz" \in ListNames
    BY DEF ListNames
  <1>7. o \notin ToSet(list["allgc"]) /\ o \notin ToSet(list["finobj"])
    BY <1>1, <1>2, <1>6 DEF Apart, q
  <1>8. gcstate \notin {"swpallgc", "swpfinobj", "swpend"}
    BY <1>3, <1>4, <1>5, <1>6, <1>7 DEF Progress
  <1>9. gcstate # "swptobefnz"
    BY <1>1, <1>2 DEF PassesBy
  <1> QED BY <1>1, <1>8, <1>9 DEF Sweeping

\* One sweepstep comes to the end of tobefnz.
LEMMA SweptInOne ==
  ASSUME CInv, PassesBy, SweptAtOnce, gcstate = "swptobefnz", sweepgc # "NULL"
  PROVE  SweepList(State, sweepgc, SweepMax).p = "NULL"
  <1> DEFINE q == list["tobefnz"]
             n == SweepMax
  <1>1. q \in Seq(Objects) /\ IsInjective(q) /\ "tobefnz" \in ListNames
    BY DEF CInv, ListInv, Listed, Apart, ListNames
  <1>2. sweepgc = "tobefnz"
    <2>1. PICK k \in Nat : IsAt(list, "tobefnz", sweepgc, k)
      BY DEF CInv, ListInv, Progress, Part
    <2>2. sweepgc \notin Objects
      BY DEF PassesBy
    <2>3. ASSUME k \in 1..Len(q) PROVE q[k] \in Objects
      BY <1>1, <2>3
    <2> QED BY <2>1, <2>2, <2>3 DEF IsAt
  <1>3. Len(q) \in Nat /\ Len(q) <= n
    BY <1>1 DEF SweptAtOnce
  <1>4. Smaller(0 + n, Len(q)) = Len(q)
    BY <1>3, SweepMaxAssumption DEF Smaller
  <1>5. State.list["tobefnz"] = q /\ ListOf(State, "tobefnz") = "tobefnz" /\ Place(State, "tobefnz") = 0
    BY <1>1 DEF State, ListOf, Place
  <1> HIDE DEF q, n
  <1>6. SweepList(State, "tobefnz", n).p = "NULL"
    BY <1>4, <1>5 DEF SweepList
  <1> QED BY <1>2, <1>6 DEF n

LEMMA KeepsPassing ==
  ASSUME CInv, PassesBy, SweptAtOnce, [Next]_vars
  PROVE  PassesBy'
  <1>1. "tobefnz" \notin Objects /\ "NULL" \notin Objects
    BY NamesAssumption DEF ListNames
  <1>2. CASE UNCHANGED <<gcstate, sweepgc>>
    BY <1>2 DEF PassesBy
  <1>3. CASE gcstate' # "swptobefnz"
    BY <1>3 DEF PassesBy
  <1>4. CASE Program
    <2>1. ASSUME NEW o \in stack, CheckFinalizer(o), gcstate = "swptobefnz"
          PROVE  sweepgc' = sweepgc
      <3>1. o \in Objects /\ sweepgc # o
        BY <2>1 DEF CInv, MP!IInv, MP!TypeOK, PassesBy
      <3> QED BY <2>1, <3>1 DEF CheckFinalizer
    <2>2. \A o : CheckFinalizer(o) => gcstate' = gcstate
      BY DEF CheckFinalizer
    <2>3. (Access \/ \E o : NewObject(o)) => UNCHANGED <<gcstate, sweepgc>>
      BY DEF Access, NewObject
    <2> QED BY <1>2, <1>3, <1>4, <2>1, <2>2, <2>3 DEF Program
  <1>5. CASE Step
    <2>1. CASE Restart \/ (\E o \in gray : Propagate(o)) \/ Atomic \/ SweepEnd \/ CycleEnd
      BY <1>3, <2>1 DEF Restart, Propagate, Atomic, EnterSweep, SweepEnd, CycleEnd
    <2>2. CASE SweepStep("swpallgc", "swpfinobj", "finobj")
      BY <1>3, <2>2 DEF SweepStep
    <2>3. CASE SweepStep("swpfinobj", "swptobefnz", "tobefnz")
      BY <1>1, <1>3, <2>3 DEF SweepStep, PassesBy
    <2>4. CASE SweepStep("swptobefnz", "swpend", "NULL")
      <3> DEFINE r == IF sweepgc = "NULL" THEN [swept |-> State, p |-> "NULL"]
                      ELSE SweepList(State, sweepgc, SweepMax)
      <3>1. gcstate = "swptobefnz" /\ (r.p = "NULL" => gcstate' = "swpend")
        BY <2>4 DEF SweepStep
      <3>2. r.p = "NULL"
        BY <3>1, SweptInOne
      <3> QED BY <3>1, <3>2 DEF PassesBy
    <2> QED BY <1>5, <2>1, <2>2, <2>3, <2>4 DEF Step
  <1>6. CASE CallFinalizer
    BY <1>2, <1>6 DEF CallFinalizer
  <1>7. CASE FullGC
    BY <1>2, <1>3, <1>7 DEF FullGC, EnterSweep
  <1> QED BY <1>2, <1>4, <1>5, <1>6, <1>7 DEF Next, vars

LEMMA PassesByInv ==
  /\ Init => PassesBy
  /\ CInv /\ PassesBy /\ SweptAtOnce /\ [Next]_vars => [~Astray]_vars /\ PassesBy'
  <1>1. Init => PassesBy
    BY DEF Init, PassesBy
  <1>2. ASSUME CInv, PassesBy, SweptAtOnce, [Next]_vars PROVE [~Astray]_vars /\ PassesBy'
    BY <1>2, NotAstray, KeepsPassing
  <1> QED BY <1>1, <1>2

\* Collector implements Tricolour, and every object is in one of the lists, once,
\* unless the sweep of tobefnz starts with more objects in it than a sweepstep
\* takes: only then can udata2finalize move the object that sweepgc points into
\* (without that bound ValuesLive fails, see the run collector_live).
THEOREM ImplementsUnlessMany == Spec /\ []SweptAtOnce => MarksSpec /\ []OneList
  BY InitKeeps, Preserves, PassesByInv, ListsAre, PTL DEF Spec, MarksSpec, Marks!Spec

============================================================================
