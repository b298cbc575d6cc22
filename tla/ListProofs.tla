----------------------------- MODULE ListProofs -----------------------------
(***************************************************************************)
(* Lemmas on the lists of the models: what a loop takes of one, each       *)
(* position once and in rising order; and the pieces of a reply that pass  *)
(* through one queue after another, each once and in order.                *)
(***************************************************************************)
EXTENDS Selection, Sequences, FiniteSetTheorems, TLAPS

\* The rank of each number is its own, and there are as many ranks as numbers.
LEMMA Ranks ==
  ASSUME NEW S \in SUBSET Nat, IsFiniteSet(S)
  PROVE  /\ Cardinality(S) \in Nat
         /\ \A n \in S : Cardinality(Below(S, n)) \in 0 .. Cardinality(S) - 1
         /\ \A m, n \in S : m < n => Cardinality(Below(S, m)) < Cardinality(Below(S, n))
         /\ \A k \in 0 .. Cardinality(S) - 1 : \E n \in S : Cardinality(Below(S, n)) = k
<1>1. Cardinality(S) \in Nat
  BY FS_CardinalityType
<1>2. ASSUME NEW T \in SUBSET S, NEW U \in SUBSET S, T \subseteq U, T # U
      PROVE  Cardinality(T) \in Nat /\ Cardinality(U) \in Nat /\ Cardinality(T) < Cardinality(U)
  <2>1. IsFiniteSet(U) /\ IsFiniteSet(T)
    BY FS_Subset
  <2>2. Cardinality(T) <= Cardinality(U) /\ Cardinality(U) # Cardinality(T)
    BY <1>2, <2>1, FS_Subset
  <2>3. Cardinality(T) \in Nat /\ Cardinality(U) \in Nat
    BY <2>1, FS_CardinalityType
  <2> QED BY <2>2, <2>3
<1>3. ASSUME NEW n \in S PROVE Cardinality(Below(S, n)) \in 0 .. Cardinality(S) - 1
  <2>1. Below(S, n) \in SUBSET S /\ n \notin Below(S, n)
    BY DEF Below
  <2>2. Cardinality(Below(S, n)) \in Nat /\ Cardinality(Below(S, n)) < Cardinality(S)
    BY <1>2, <2>1
  <2> QED BY <1>1, <2>2
<1>4. ASSUME NEW m \in S, NEW n \in S, m < n
      PROVE  Cardinality(Below(S, m)) < Cardinality(Below(S, n))
  <2>1. /\ Below(S, m) \in SUBSET S /\ Below(S, n) \in SUBSET S
        /\ Below(S, m) \subseteq Below(S, n) /\ m \in Below(S, n) /\ m \notin Below(S, m)
    <3>1. \A x \in S : x < m => x < n
      BY <1>4
    <3>2. ~(m < m)
      OBVIOUS
    <3> QED BY <1>4, <3>1, <3>2, Zenon DEF Below
  <2>2. Below(S, m) # Below(S, n)
    BY <2>1
  <2> QED BY <1>2, <2>1, <2>2
<1> DEFINE R == 0 .. Cardinality(S) - 1
           rank == [n \in S |-> Cardinality(Below(S, n))]
<1>5. rank \in Injection(S, R)
  <2>1. rank \in [S -> R]
    BY <1>3
  <2>2. ASSUME NEW m \in S, NEW n \in S, rank[m] = rank[n] PROVE m = n
    <3>1. \A x \in S : rank[x] = Cardinality(Below(S, x)) /\ rank[x] \in Nat /\ x \in Nat
      BY <1>3
    <3>2. ~(m < n) /\ ~(n < m)
      BY <1>4, <2>2, <3>1
    <3> QED BY <3>1, <3>2
  <2> QED BY <2>1, <2>2 DEF Injection, IsInjective
<1>6. IsFiniteSet(R) /\ Cardinality(R) = Cardinality(S)
  <2>1. 0 \in Int /\ Cardinality(S) - 1 \in Int
    BY <1>1
  <2>2. IsFiniteSet(R) /\ Cardinality(R) = IF 0 > Cardinality(S) - 1 THEN 0
                                          ELSE (Cardinality(S) - 1) - 0 + 1
    BY <2>1, FS_Interval
  <2> QED BY <1>1, <2>2
<1>7. rank \in Surjection(S, R)
  <2> HIDE DEF rank, R
  <2> QED BY <1>5, <1>6, FS_Injection
<1>8. \A k \in R : \E n \in S : rank[n] = k
  BY <1>7 DEF Surjection
<1> QED BY <1>1, <1>3, <1>4, <1>8

\* InOrder enumerates the set, lowest first.
LEMMA InOrderIs ==
  ASSUME NEW S \in SUBSET Nat, IsFiniteSet(S)
  PROVE  /\ Cardinality(S) \in Nat /\ InOrder(S) \in [1 .. Cardinality(S) -> S]
         /\ \A k \in 1 .. Cardinality(S) : Cardinality(Below(S, InOrder(S)[k])) = k - 1
         /\ \A n \in S : \E k \in 1 .. Cardinality(S) : InOrder(S)[k] = n
         /\ \A j, k \in 1 .. Cardinality(S) : j < k => InOrder(S)[j] < InOrder(S)[k]
<1> DEFINE R == 1 .. Cardinality(S)
<1>1. /\ Cardinality(S) \in Nat
      /\ \A k \in R : k - 1 \in 0 .. Cardinality(S) - 1
      /\ \A k \in 0 .. Cardinality(S) - 1 : k + 1 \in R /\ (k + 1) - 1 = k
  BY Ranks
<1>2. \A k \in R : InOrder(S)[k] \in S /\ Cardinality(Below(S, InOrder(S)[k])) = k - 1
  <2> SUFFICES ASSUME NEW k \in R
               PROVE  InOrder(S)[k] \in S /\ Cardinality(Below(S, InOrder(S)[k])) = k - 1
    OBVIOUS
  <2>1. \E n \in S : Cardinality(Below(S, n)) = k - 1
    BY <1>1, Ranks
  <2> QED BY <2>1 DEF InOrder
<1>3. InOrder(S) \in [R -> S]
  BY <1>2 DEF InOrder
<1>4. ASSUME NEW m \in S, NEW n \in S, Cardinality(Below(S, m)) = Cardinality(Below(S, n))
      PROVE  m = n
  <2>1. m \in Nat /\ n \in Nat /\ Cardinality(Below(S, m)) \in Nat
    BY <1>1, Ranks
  <2>2. ~(m < n) /\ ~(n < m)
    BY <1>4, <2>1, Ranks
  <2> QED BY <2>1, <2>2
<1>5. ASSUME NEW n \in S PROVE \E k \in R : InOrder(S)[k] = n
  <2> DEFINE k == Cardinality(Below(S, n)) + 1
  <2>1. k \in R /\ k - 1 = Cardinality(Below(S, n))
    BY <1>1, Ranks
  <2>2. InOrder(S)[k] \in S /\ Cardinality(Below(S, InOrder(S)[k])) = Cardinality(Below(S, n))
    BY <1>2, <2>1
  <2> QED BY <1>4, <2>1, <2>2
<1>6. ASSUME NEW j \in R, NEW k \in R, j < k PROVE InOrder(S)[j] < InOrder(S)[k]
  <2> DEFINE m == InOrder(S)[j]
             n == InOrder(S)[k]
  <2>1. m \in S /\ n \in S /\ m \in Nat /\ n \in Nat /\ j \in Nat /\ k \in Nat
    <3>1. m \in S /\ n \in S
      BY <1>2
    <3> HIDE DEF m, n
    <3> QED BY <1>1, <3>1
  <2>2. Cardinality(Below(S, m)) = j - 1 /\ Cardinality(Below(S, n)) = k - 1
    BY <1>2
  <2>3. m # n /\ ~(n < m)
    <3>1. \A a, b \in S : a < b => Cardinality(Below(S, a)) < Cardinality(Below(S, b))
      BY Ranks
    <3> HIDE DEF m, n
    <3> QED BY <1>6, <2>1, <2>2, <3>1
  <2> QED BY <2>1, <2>3
<1> QED BY <1>1, <1>2, <1>3, <1>5, <1>6

\* It is the only such enumeration.
LEMMA InOrderOnly ==
  ASSUME NEW S \in SUBSET Nat, IsFiniteSet(S), NEW k \in 1 .. Cardinality(S), NEW n \in S,
         Cardinality(Below(S, n)) = k - 1
  PROVE  InOrder(S)[k] = n
<1> DEFINE m == InOrder(S)[k]
<1>1. m \in S /\ Cardinality(Below(S, m)) = k - 1 /\ Cardinality(S) \in Nat
  BY InOrderIs
<1>2. m \in Nat /\ n \in Nat /\ k \in Nat
  <2> HIDE DEF m
  <2> QED BY <1>1
<1>3. ~(m < n) /\ ~(n < m)
  <2>1. \A a, b \in S : a < b => Cardinality(Below(S, a)) < Cardinality(Below(S, b))
    BY Ranks
  <2> HIDE DEF m
  <2> QED BY <1>1, <1>2, <2>1
<1> QED BY <1>2, <1>3

\* Sequences with the same elements are the same.
LEMMA SameSequence ==
  ASSUME NEW V, NEW s \in Seq(V), NEW w \in Seq(V), Len(s) = Len(w),
         \A k \in 1 .. Len(s) : s[k] = w[k]
  PROVE  s = w
OBVIOUS

LEMMA AppendIs ==
  ASSUME NEW V, NEW s \in Seq(V), NEW e \in V
  PROVE  /\ Append(s, e) \in Seq(V) /\ Len(s) \in Nat /\ Len(Append(s, e)) = Len(s) + 1
         /\ \A k \in 1 .. Len(s) : Append(s, e)[k] = s[k]
         /\ Append(s, e)[Len(s) + 1] = e
OBVIOUS

\* Nothing, the first n numbers, and one more number at the end.
LEMMA InOrderEmpty == InOrder({}) = <<>> /\ \A s : Picked(s, {}) = <<>>
<1>1. Cardinality({}) = 0 /\ 1 .. 0 = {}
  BY FS_EmptySet
<1> QED BY <1>1 DEF InOrder, Picked

LEMMA InOrderUpto ==
  ASSUME NEW n \in Nat
  PROVE  /\ IsFiniteSet(1 .. n) /\ Cardinality(1 .. n) = n
         /\ \A k \in 1 .. n : InOrder(1 .. n)[k] = k
<1>1. ASSUME NEW m \in Nat PROVE IsFiniteSet(1 .. m) /\ Cardinality(1 .. m) = m
  <2>1. 1 \in Int /\ m \in Int /\ (IF 1 > m THEN 0 ELSE m - 1 + 1) = m
    OBVIOUS
  <2> QED BY <2>1, FS_Interval
<1>2. ASSUME NEW k \in 1 .. n PROVE InOrder(1 .. n)[k] = k
  <2>1. Below(1 .. n, k) = 1 .. (k - 1) /\ k - 1 \in Nat
    BY DEF Below
  <2>2. Cardinality(Below(1 .. n, k)) = k - 1
    BY <1>1, <2>1
  <2>3. 1 .. n \in SUBSET Nat /\ k \in 1 .. Cardinality(1 .. n)
    BY <1>1
  <2> QED BY <1>1, <2>2, <2>3, InOrderOnly
<1> QED BY <1>1, <1>2

LEMMA InOrderGrows ==
  ASSUME NEW S \in SUBSET Nat, IsFiniteSet(S), NEW x \in Nat, \A n \in S : n < x
  PROVE  /\ IsFiniteSet(S \cup {x}) /\ Cardinality(S) \in Nat
         /\ Cardinality(S \cup {x}) = Cardinality(S) + 1
         /\ \A k \in 1 .. Cardinality(S) : InOrder(S \cup {x})[k] = InOrder(S)[k]
         /\ InOrder(S \cup {x})[Cardinality(S) + 1] = x
<1> DEFINE T == S \cup {x}
<1>1. x \notin S
  OBVIOUS
<1>2. IsFiniteSet(T) /\ Cardinality(S) \in Nat /\ Cardinality(T) = Cardinality(S) + 1
  BY <1>1, FS_AddElement, FS_CardinalityType
<1>3. T \in SUBSET Nat
  OBVIOUS
<1>4. ASSUME NEW n \in S PROVE Below(T, n) = Below(S, n)
  <2>1. n < x /\ ~(x < n)
    OBVIOUS
  <2> QED BY <2>1 DEF Below
<1>5. Below(T, x) = S
  <2>1. ~(x < x)
    OBVIOUS
  <2> QED BY <2>1, Zenon DEF Below
<1>6. ASSUME NEW k \in 1 .. Cardinality(S) PROVE InOrder(T)[k] = InOrder(S)[k]
  <2>1. InOrder(S)[k] \in S /\ Cardinality(Below(S, InOrder(S)[k])) = k - 1
    BY InOrderIs
  <2>2. InOrder(S)[k] \in T /\ Cardinality(Below(T, InOrder(S)[k])) = k - 1
    BY <1>4, <2>1
  <2>3. k \in 1 .. Cardinality(T)
    BY <1>2
  <2> HIDE DEF T
  <2> QED BY <1>2, <1>3, <2>2, <2>3, InOrderOnly
<1>7. InOrder(T)[Cardinality(S) + 1] = x
  <2>1. /\ x \in T /\ Cardinality(S) + 1 \in 1 .. Cardinality(T)
        /\ Cardinality(Below(T, x)) = (Cardinality(S) + 1) - 1
    BY <1>2, <1>5
  <2> HIDE DEF T
  <2> QED BY <1>2, <1>3, <2>1, InOrderOnly
<1> QED BY <1>2, <1>6, <1>7

\* What is picked are elements of the list, as many as there are positions.
LEMMA PickedIs ==
  ASSUME NEW V, NEW s \in Seq(V), NEW S \in SUBSET DOMAIN s
  PROVE  /\ S \in SUBSET Nat /\ IsFiniteSet(S) /\ Cardinality(S) \in Nat
         /\ Picked(s, S) \in Seq(V) /\ Len(Picked(s, S)) = Cardinality(S)
         /\ \A k \in 1 .. Cardinality(S) : /\ InOrder(S)[k] \in S
                                          /\ Picked(s, S)[k] = s[InOrder(S)[k]]
         /\ \A j, k \in 1 .. Cardinality(S) : j < k => InOrder(S)[j] < InOrder(S)[k]
         /\ \A n \in S : \E k \in 1 .. Cardinality(S) : InOrder(S)[k] = n
<1>1. Len(s) \in Nat /\ DOMAIN s = 1 .. Len(s)
  OBVIOUS
<1>2. S \in SUBSET Nat /\ IsFiniteSet(S)
  <2>1. IsFiniteSet(1 .. Len(s))
    BY <1>1, InOrderUpto
  <2> QED BY <1>1, <2>1, FS_Subset
<1>3. Cardinality(S) \in Nat /\ \A k \in 1 .. Cardinality(S) : InOrder(S)[k] \in S
  BY <1>2, InOrderIs
<1>4. \A k \in 1 .. Cardinality(S) : s[InOrder(S)[k]] \in V
  BY <1>1, <1>3
<1>5. Picked(s, S) \in [1 .. Cardinality(S) -> V]
  BY <1>4 DEF Picked
<1>6. Picked(s, S) \in Seq(V) /\ Len(Picked(s, S)) = Cardinality(S)
  BY <1>3, <1>5
<1> QED BY <1>2, <1>3, <1>6, InOrderIs DEF Picked

\* A new element after all that were picked is picked last, and the rest of the
\* list does not matter.
LEMMA PickedGrows ==
  ASSUME NEW V, NEW s \in Seq(V), NEW w \in Seq(V), NEW S \in SUBSET DOMAIN s,
         S \subseteq DOMAIN w, \A n \in S : w[n] = s[n],
         NEW x \in DOMAIN w, \A n \in S : n < x
  PROVE  Picked(w, S \cup {x}) = Append(Picked(s, S), w[x])
<1> DEFINE n == Cardinality(S)
           p == Picked(s, S)
           q == Picked(w, S \cup {x})
<1>1. /\ S \in SUBSET Nat /\ IsFiniteSet(S) /\ n \in Nat /\ x \in Nat
      /\ p \in Seq(V) /\ Len(p) = n
      /\ \A k \in 1 .. n : InOrder(S)[k] \in S /\ p[k] = s[InOrder(S)[k]]
  BY PickedIs
<1>2. /\ Cardinality(S \cup {x}) = n + 1
      /\ \A k \in 1 .. n : InOrder(S \cup {x})[k] = InOrder(S)[k]
      /\ InOrder(S \cup {x})[n + 1] = x
  BY <1>1, InOrderGrows
<1>3. S \cup {x} \in SUBSET DOMAIN w
  OBVIOUS
<1>4. q \in Seq(V) /\ Len(q) = n + 1
  BY <1>2, <1>3, PickedIs
<1>5. \A k \in 1 .. n + 1 : q[k] = w[InOrder(S \cup {x})[k]]
  BY <1>2, <1>3, PickedIs
<1>6. \A k \in 1 .. n : k \in 1 .. n + 1 /\ q[k] = p[k]
  <2> SUFFICES ASSUME NEW k \in 1 .. n PROVE k \in 1 .. n + 1 /\ q[k] = p[k]
    OBVIOUS
  <2>1. k \in 1 .. n + 1
    BY <1>1
  <2>2. q[k] = w[InOrder(S)[k]]
    BY <1>2, <1>5, <2>1
  <2> QED BY <1>1, <2>1, <2>2
<1>7. n + 1 \in 1 .. n + 1 /\ q[n + 1] = w[x]
  <2>1. n + 1 \in 1 .. n + 1
    BY <1>1
  <2> QED BY <1>2, <1>5, <2>1
<1>8. w[x] \in V
  OBVIOUS
<1>9. /\ Append(p, w[x]) \in Seq(V) /\ Len(Append(p, w[x])) = n + 1
      /\ \A k \in 1 .. n : Append(p, w[x])[k] = p[k]
      /\ Append(p, w[x])[n + 1] = w[x]
  <2> HIDE DEF p
  <2> QED BY <1>1, <1>8, AppendIs
<1>10. \A k \in 1 .. n + 1 : q[k] = Append(p, w[x])[k]
  <2> SUFFICES ASSUME NEW k \in 1 .. n + 1 PROVE q[k] = Append(p, w[x])[k]
    OBVIOUS
  <2>1. k \in 1 .. n \/ k = n + 1
    BY <1>1
  <2> HIDE DEF n, p, q
  <2> QED BY <1>6, <1>7, <1>9, <2>1
<1> HIDE DEF n, p, q
<1>11. q = Append(p, w[x])
  BY <1>4, <1>9, <1>10, SameSequence
<1> QED BY <1>11 DEF p, q

LEMMA AllOfAppend ==
  ASSUME NEW V, NEW s \in Seq(V), NEW e \in V
  PROVE  /\ Append(s, e) \in Seq(V)
         /\ \A i \in DOMAIN Append(s, e) : \/ i \in DOMAIN s /\ Append(s, e)[i] = s[i]
                                           \/ i = Len(s) + 1 /\ Append(s, e)[i] = e
OBVIOUS

LEMMA AllOfTail ==
  ASSUME NEW V, NEW s \in Seq(V), s # <<>>
  PROVE  /\ Tail(s) \in Seq(V) /\ Len(Tail(s)) = Len(s) - 1 /\ Head(s) = s[1] /\ 1 \in DOMAIN s
         /\ \A i \in DOMAIN Tail(s) : i + 1 \in DOMAIN s /\ Tail(s)[i] = s[i + 1]
OBVIOUS

-----------------------------------------------------------------------------
(* A reply of l pieces on its way, in one queue or two: the mark of a piece *)
(* is its number, that of the end is l + 1, and what is neither has 0.       *)

EndMark(l) == l + 1

Precedes(l, x, y) == x # 0 /\ y # 0 => x < y \/ y = EndMark(l)
Mark(l, x, n, m)  == x # 0 => (n < x /\ x <= m) \/ (x = EndMark(l) /\ m = l)
Carries(a, k)         == \E i \in DOMAIN a : a[i] = k
Rising(l, a)      == \A i, j \in DOMAIN a : i < j => Precedes(l, a[i], a[j])

\* Past the n pieces accumulated, the marks of the queue a and of the queue b
\* behind it are the pieces up to the m sent, each once and in order, and the end.
Flows(l, a, b, n, m) ==
  /\ n \in Nat /\ m \in 0 .. l /\ n <= m
  /\ \A i \in DOMAIN a : Mark(l, a[i], n, m)
  /\ \A i \in DOMAIN b : Mark(l, b[i], n, m)
  /\ Rising(l, a) /\ Rising(l, b)
  /\ \A i \in DOMAIN a, j \in DOMAIN b : Precedes(l, a[i], b[j])
  /\ \A k \in n + 1 .. m : Carries(a, k) \/ Carries(b, k)

\* The gateway sends the next piece, the end, or something else.
LEMMA FlowPush ==
  ASSUME NEW l \in Nat \ {0}, NEW a \in Seq(Nat), NEW b \in Seq(Nat),
         NEW n, NEW m, NEW x, NEW m2, Flows(l, a, b, n, m),
         \/ x = 0 /\ m2 = m
         \/ x = m + 1 /\ m2 = m + 1 /\ m < l
         \/ x = EndMark(l) /\ m2 = m /\ m = l
  PROVE  Flows(l, a, Append(b, x), n, m2)
<1> DEFINE c == Append(b, x)
<1>1. n \in Nat /\ m \in 0 .. l /\ n <= m /\ x \in Nat /\ m2 \in 0 .. l /\ n <= m2
      /\ m <= m2
  BY DEF Flows, EndMark
<1>2. /\ Len(b) \in Nat /\ DOMAIN b = 1 .. Len(b) /\ DOMAIN c = 1 .. Len(b) + 1
      /\ c[Len(b) + 1] = x /\ \A i \in DOMAIN b : c[i] = b[i]
      /\ \A i \in DOMAIN c : (i \in DOMAIN b /\ c[i] = b[i]) \/ (i = Len(b) + 1 /\ c[i] = x)
      /\ \A i \in DOMAIN b : i \in Nat /\ i < Len(b) + 1
  BY <1>1, SMTT(20)
<1> HIDE DEF c
<1>3. \A i \in DOMAIN a : a[i] \in Nat /\ Mark(l, a[i], n, m)
  BY DEF Flows
<1>4. \A i \in DOMAIN b : b[i] \in Nat /\ Mark(l, b[i], n, m)
  BY DEF Flows
<1>5. ASSUME NEW y \in Nat, Mark(l, y, n, m) PROVE Mark(l, y, n, m2) /\ Precedes(l, y, x)
  BY <1>1, <1>5 DEF Mark, Precedes, EndMark
<1>6. Mark(l, x, n, m2)
  BY <1>1 DEF Mark, EndMark
<1>7. \A i \in DOMAIN a : Mark(l, a[i], n, m2) /\ Precedes(l, a[i], x)
  BY <1>3, <1>5
<1>8. \A i \in DOMAIN b : Mark(l, b[i], n, m2) /\ Precedes(l, b[i], x)
  BY <1>4, <1>5
<1>9. \A i \in DOMAIN c : Mark(l, c[i], n, m2)
  BY <1>2, <1>6, <1>8
<1>10. Rising(l, c)
  <2> SUFFICES ASSUME NEW i \in DOMAIN c, NEW j \in DOMAIN c, i < j PROVE Precedes(l, c[i], c[j])
    BY DEF Rising
  <2>1. i \in DOMAIN b /\ c[i] = b[i]
    BY <1>2
  <2>2. CASE j \in DOMAIN b /\ c[j] = b[j]
    BY <2>1, <2>2 DEF Flows, Rising
  <2>3. CASE c[j] = x
    BY <1>8, <2>1, <2>3
  <2> QED BY <1>2, <2>2, <2>3
<1>11. \A i \in DOMAIN a, j \in DOMAIN c : Precedes(l, a[i], c[j])
  BY <1>2, <1>7 DEF Flows
<1>12. ASSUME NEW k \in n + 1 .. m2 PROVE Carries(a, k) \/ Carries(c, k)
  <2>1. CASE k \in n + 1 .. m
    <3>1. Carries(a, k) \/ Carries(b, k)
      BY <2>1 DEF Flows
    <3> QED BY <1>2, <3>1 DEF Carries
  <2>2. CASE k = x
    <3>1. Len(b) + 1 \in DOMAIN c /\ c[Len(b) + 1] = k
      BY <1>2, <2>2
    <3> QED BY <3>1 DEF Carries
  <2> QED BY <1>1, <2>1, <2>2
<1>13. Rising(l, a)
  BY DEF Flows
<1> QED BY <1>1, <1>7, <1>9, <1>10, <1>11, <1>12, <1>13 DEF Flows, c

\* The task takes a frame and tells of it, tells of something else, or does both.
LEMMA FlowTell ==
  ASSUME NEW l \in Nat \ {0}, NEW a \in Seq(Nat), NEW b \in Seq(Nat),
         NEW n, NEW m, Flows(l, a, b, n, m)
  PROVE  Flows(l, Append(a, 0), b, n, m)
<1> DEFINE c == Append(a, 0)
<1>1. /\ Len(a) \in Nat /\ DOMAIN a = 1 .. Len(a)
      /\ \A i \in DOMAIN a : i \in DOMAIN c /\ c[i] = a[i]
      /\ \A i \in DOMAIN c : (i \in DOMAIN a /\ c[i] = a[i]) \/ (i \notin DOMAIN a /\ c[i] = 0)
  OBVIOUS
<1> HIDE DEF c
<1>2. Mark(l, 0, n, m) /\ \A x : Precedes(l, x, 0) /\ Precedes(l, 0, x)
  BY DEF Mark, Precedes
<1>3. \A i \in DOMAIN c : Mark(l, c[i], n, m)
  BY <1>1, <1>2 DEF Flows
<1>4. Rising(l, c) /\ \A i \in DOMAIN c, j \in DOMAIN b : Precedes(l, c[i], b[j])
  BY <1>1, <1>2 DEF Flows, Rising
<1>5. \A k \in n + 1 .. m : Carries(c, k) \/ Carries(b, k)
  BY <1>1 DEF Flows, Carries
<1> QED BY <1>3, <1>4, <1>5 DEF Flows, c

LEMMA FlowDrop ==
  ASSUME NEW l \in Nat \ {0}, NEW a \in Seq(Nat), NEW b \in Seq(Nat),
         NEW n, NEW m, Flows(l, a, b, n, m),
         b # <<>>, b[1] \in {0, EndMark(l)}
  PROVE  Flows(l, a, Tail(b), n, m)
<1> DEFINE c == Tail(b)
<1>1. /\ \A i \in DOMAIN c : i \in Nat /\ i + 1 \in DOMAIN b /\ c[i] = b[i + 1]
      /\ \A i \in DOMAIN b : i = 1 \/ (i - 1 \in DOMAIN c /\ c[i - 1] = b[i])
  OBVIOUS
<1> HIDE DEF c
<1>2. \A i \in DOMAIN c : Mark(l, c[i], n, m)
  BY <1>1 DEF Flows
<1>3. \A i \in DOMAIN a, j \in DOMAIN c : Precedes(l, a[i], c[j])
  BY <1>1 DEF Flows
<1>4. Rising(l, c)
  <2> SUFFICES ASSUME NEW i \in DOMAIN c, NEW j \in DOMAIN c, i < j PROVE Precedes(l, c[i], c[j])
    BY DEF Rising
  <2>1. /\ i + 1 \in DOMAIN b /\ c[i] = b[i + 1] /\ j + 1 \in DOMAIN b /\ c[j] = b[j + 1]
        /\ i + 1 < j + 1
    BY <1>1
  <2> QED BY <2>1, Zenon DEF Flows, Rising
<1>5. ASSUME NEW k \in n + 1 .. m PROVE Carries(a, k) \/ Carries(c, k)
  <2>1. Carries(a, k) \/ Carries(b, k)
    BY DEF Flows
  <2>2. k # b[1]
    BY DEF Flows, EndMark
  <2> QED BY <1>1, <2>1, <2>2 DEF Carries
<1>6. n \in Nat /\ m \in 0 .. l /\ n <= m /\ Rising(l, a) /\ \A i \in DOMAIN a : Mark(l, a[i], n, m)
  BY DEF Flows
<1> QED BY <1>2, <1>3, <1>4, <1>5, <1>6 DEF Flows, c

LEMMA FlowMove ==
  ASSUME NEW l \in Nat \ {0}, NEW a \in Seq(Nat), NEW b \in Seq(Nat),
         NEW n, NEW m, Flows(l, a, b, n, m), b # <<>>
  PROVE  Flows(l, Append(a, b[1]), Tail(b), n, m)
<1> DEFINE c == Append(a, b[1])
           d == Tail(b)
<1>1. /\ 1 \in DOMAIN b /\ b[1] \in Nat
      /\ \A i \in DOMAIN d : i \in Nat /\ i + 1 \in DOMAIN b /\ 1 < i + 1 /\ d[i] = b[i + 1]
      /\ \A i \in DOMAIN b : i = 1 \/ (i - 1 \in DOMAIN d /\ d[i - 1] = b[i])
  BY SMTT(20)
<1>2. /\ Len(a) \in Nat /\ DOMAIN a = 1 .. Len(a) /\ Len(a) + 1 \in DOMAIN c
      /\ c[Len(a) + 1] = b[1]
      /\ \A i \in DOMAIN a : i \in DOMAIN c /\ c[i] = a[i]
      /\ \A i \in DOMAIN c : (i \in DOMAIN a /\ c[i] = a[i]) \/ (i = Len(a) + 1 /\ c[i] = b[1])
  BY <1>1
<1> HIDE DEF c, d
<1>3. (\A i \in DOMAIN c : Mark(l, c[i], n, m)) /\ \A i \in DOMAIN d : Mark(l, d[i], n, m)
  BY <1>1, <1>2 DEF Flows
<1>4. \A j \in DOMAIN d : Precedes(l, b[1], d[j])
  BY <1>1 DEF Flows, Rising
<1>5. \A i \in DOMAIN a : Precedes(l, a[i], b[1]) /\ \A j \in DOMAIN d : Precedes(l, a[i], d[j])
  BY <1>1 DEF Flows
<1>6. \A i \in DOMAIN c, j \in DOMAIN d : Precedes(l, c[i], d[j])
  BY <1>2, <1>4, <1>5
<1>7. Rising(l, c)
  <2> SUFFICES ASSUME NEW i \in DOMAIN c, NEW j \in DOMAIN c, i < j PROVE Precedes(l, c[i], c[j])
    BY DEF Rising
  <2>1. i \in DOMAIN a /\ c[i] = a[i]
    BY <1>2
  <2>2. CASE j \in DOMAIN a /\ c[j] = a[j]
    BY <2>1, <2>2 DEF Flows, Rising
  <2>3. CASE c[j] = b[1]
    BY <1>5, <2>1, <2>3
  <2> QED BY <1>2, <2>2, <2>3
<1>8. Rising(l, d)
  <2> SUFFICES ASSUME NEW i \in DOMAIN d, NEW j \in DOMAIN d, i < j PROVE Precedes(l, d[i], d[j])
    BY DEF Rising
  <2>1. /\ i + 1 \in DOMAIN b /\ d[i] = b[i + 1] /\ j + 1 \in DOMAIN b /\ d[j] = b[j + 1]
        /\ i + 1 < j + 1
    BY <1>1
  <2> QED BY <2>1, Zenon DEF Flows, Rising
<1>9. ASSUME NEW k \in n + 1 .. m PROVE Carries(c, k) \/ Carries(d, k)
  <2>1. Carries(a, k) \/ Carries(b, k)
    BY DEF Flows
  <2>2. CASE Carries(a, k)
    BY <1>2, <2>2 DEF Carries
  <2>3. CASE Carries(b, k)
    <3>1. PICK i \in DOMAIN b : b[i] = k
      BY <2>3 DEF Carries
    <3>2. CASE i = 1
      BY <1>2, <3>1, <3>2 DEF Carries
    <3>3. CASE i - 1 \in DOMAIN d /\ d[i - 1] = b[i]
      BY <3>1, <3>3 DEF Carries
    <3> QED BY <1>1, <3>2, <3>3
  <2> QED BY <2>1, <2>2, <2>3
<1>10. n \in Nat /\ m \in 0 .. l /\ n <= m
  BY DEF Flows
<1> QED BY <1>3, <1>6, <1>7, <1>8, <1>9, <1>10 DEF Flows, c, d

\* The loop takes an event: what is no piece, the next piece, or the end.
LEMMA FlowTake ==
  ASSUME NEW l \in Nat \ {0}, NEW a \in Seq(Nat), NEW b \in Seq(Nat),
         NEW n, NEW m, Flows(l, a, b, n, m), a # <<>>
  PROVE  /\ a[1] = 0 => Flows(l, Tail(a), b, n, m)
         /\ a[1] \in 1 .. l => a[1] = n + 1 /\ Flows(l, Tail(a), b, n + 1, m)
         /\ a[1] = EndMark(l) => n = l
<1> DEFINE c == Tail(a)
           x == a[1]
<1>1. /\ 1 \in DOMAIN a /\ x \in Nat
      /\ \A i \in DOMAIN c : i \in Nat /\ i + 1 \in DOMAIN a /\ 1 < i + 1 /\ c[i] = a[i + 1]
      /\ \A i \in DOMAIN a : i = 1 \/ (i - 1 \in DOMAIN c /\ c[i - 1] = a[i])
      /\ \A i \in DOMAIN a : a[i] \in Nat
      /\ \A i \in DOMAIN b : b[i] \in Nat
      /\ \A i \in DOMAIN c : c[i] \in Nat
  BY SMTT(20)
<1>0. n \in Nat /\ m \in 0 .. l /\ n <= m /\ m \in Nat /\ Mark(l, x, n, m) /\ Rising(l, b)
  BY <1>1 DEF Flows
<1> HIDE DEF c, x
<1>2. (\A i \in DOMAIN c : Mark(l, c[i], n, m)) /\ (\A i \in DOMAIN b : Mark(l, b[i], n, m))
      /\ \A i \in DOMAIN c, j \in DOMAIN b : Precedes(l, c[i], b[j])
  BY <1>1 DEF Flows
<1>3. Rising(l, c)
  <2> SUFFICES ASSUME NEW i \in DOMAIN c, NEW j \in DOMAIN c, i < j PROVE Precedes(l, c[i], c[j])
    BY DEF Rising
  <2>1. /\ i + 1 \in DOMAIN a /\ c[i] = a[i + 1] /\ j + 1 \in DOMAIN a /\ c[j] = a[j + 1]
        /\ i + 1 < j + 1
    BY <1>1
  <2> QED BY <2>1, Zenon DEF Flows, Rising
<1>4. (\A i \in DOMAIN c : Precedes(l, x, c[i])) /\ \A j \in DOMAIN b : Precedes(l, x, b[j])
  BY <1>1 DEF Flows, Rising, x
<1>5. ASSUME NEW k \in n + 1 .. m PROVE k = x \/ Carries(c, k) \/ Carries(b, k)
  <2>1. Carries(a, k) \/ Carries(b, k)
    BY DEF Flows
  <2> QED BY <1>1, <2>1 DEF Carries, x
<1>6. CASE x = 0
  BY <1>0, <1>2, <1>3, <1>5, <1>6 DEF Flows, c, x, EndMark
<1>7. CASE x = EndMark(l)
  <2>1. n + 1 \notin n + 1 .. m
    <3>1. SUFFICES ASSUME n + 1 \in n + 1 .. m PROVE FALSE
      OBVIOUS
    <3>2. n + 1 # x /\ n + 1 <= l
      BY <1>0, <1>7, <3>1 DEF EndMark
    <3>0. ASSUME NEW y \in Nat, Precedes(l, x, y) PROVE y # n + 1
      BY <1>0, <1>7, <3>2, <3>0 DEF Precedes, EndMark
    <3>3. \A i \in DOMAIN c : c[i] # n + 1
      BY <1>1, <1>4, <3>0
    <3>4. \A i \in DOMAIN b : b[i] # n + 1
      BY <1>1, <1>4, <3>0
    <3> QED BY <1>5, <3>1, <3>2, <3>3, <3>4 DEF Carries
  <2>2. m = l /\ n = l
    BY <1>0, <1>7, <2>1 DEF Mark, EndMark
  <2> QED BY <1>7, <2>2 DEF x, EndMark
<1>8. CASE x \in 1 .. l
  <2>1. n < x /\ x <= m
    BY <1>0, <1>8 DEF Mark, EndMark
  <2>2. x = n + 1
    <3>1. SUFFICES ASSUME n + 1 < x PROVE FALSE
      BY <1>0, <1>1, <2>1
    <3>2. n + 1 \in n + 1 .. m /\ n + 1 # x /\ n + 1 # EndMark(l) /\ n + 1 # 0
      BY <1>0, <1>1, <2>1, <3>1 DEF EndMark
    <3>0. ASSUME NEW y \in Nat, Precedes(l, x, y) PROVE y # n + 1
      BY <1>0, <1>8, <3>1, <3>2, <3>0 DEF Precedes
    <3>3. \A i \in DOMAIN c : c[i] # n + 1
      BY <1>1, <1>4, <3>0
    <3>4. \A i \in DOMAIN b : b[i] # n + 1
      BY <1>1, <1>4, <3>0
    <3> QED BY <1>5, <3>2, <3>3, <3>4 DEF Carries
  <2>3. ASSUME NEW y \in Nat, Mark(l, y, n, m), Precedes(l, x, y) PROVE Mark(l, y, n + 1, m)
    BY <1>0, <1>1, <1>8, <2>2, <2>3 DEF Mark, Precedes, EndMark
  <2>4. (\A i \in DOMAIN c : Mark(l, c[i], n + 1, m)) /\ \A i \in DOMAIN b : Mark(l, b[i], n + 1, m)
    BY <1>1, <1>2, <1>4, <2>3
  <2>5. \A k \in n + 1 + 1 .. m : Carries(c, k) \/ Carries(b, k)
    BY <1>0, <1>5, <2>2
  <2>6. n + 1 \in Nat /\ n + 1 <= m
    BY <1>0, <2>1, <2>2
  <2> QED BY <1>0, <1>2, <1>3, <1>8, <2>2, <2>4, <2>5, <2>6 DEF Flows, c, x, EndMark
<1>9. x = 0 \/ x = EndMark(l) \/ x \in 1 .. l
  BY <1>0, <1>1 DEF Mark, EndMark
<1> QED BY <1>6, <1>7, <1>8, <1>9

\* One queue, seen as the first or as the second.
LEMMA FlowAlone ==
  ASSUME NEW l, NEW a, NEW n, NEW m
  PROVE  Flows(l, a, <<>>, n, m) <=> Flows(l, <<>>, a, n, m)
BY DEF Flows, Rising, Carries

\* The marks of what is on its way.
Marks(mark, s) == [i \in DOMAIN s |-> mark[s[i]]]

LEMMA MarksMove ==
  ASSUME NEW V, NEW mark \in [V -> Nat], NEW s \in Seq(V)
  PROVE  /\ Marks(mark, s) \in Seq(Nat)
         /\ \A e \in V : Marks(mark, Append(s, e)) = Append(Marks(mark, s), mark[e])
         /\ s # <<>> => /\ Marks(mark, s) # <<>> /\ Marks(mark, s)[1] = mark[Head(s)]
                        /\ Marks(mark, Tail(s)) = Tail(Marks(mark, s))
<1> DEFINE a == Marks(mark, s)
<1>1. a \in Seq(Nat) /\ Len(a) = Len(s) /\ \A i \in 1 .. Len(s) : a[i] = mark[s[i]]
  BY DEF Marks
<1>2. ASSUME NEW e \in V PROVE Marks(mark, Append(s, e)) = Append(a, mark[e])
  <2> DEFINE t == Append(s, e)
             b == Marks(mark, t)
             c == Append(a, mark[e])
  <2>1. /\ t \in Seq(V) /\ Len(t) = Len(s) + 1 /\ t[Len(s) + 1] = e
        /\ \A i \in 1 .. Len(s) : t[i] = s[i]
    OBVIOUS
  <2>2. b \in Seq(Nat) /\ Len(b) = Len(t) /\ \A i \in 1 .. Len(t) : b[i] = mark[t[i]]
    <3> HIDE DEF t
    <3> QED BY <2>1 DEF Marks
  <2>3. /\ c \in Seq(Nat) /\ Len(c) = Len(s) + 1 /\ c[Len(s) + 1] = mark[e]
        /\ \A i \in 1 .. Len(s) : c[i] = a[i]
    <3> HIDE DEF a
    <3> QED BY <1>1
  <2> HIDE DEF t, b, c, a
  <2>4. \A i \in 1 .. Len(b) : b[i] = c[i]
    <3>1. \A i \in 1 .. Len(s) : b[i] = mark[s[i]] /\ c[i] = mark[s[i]]
      <4>1. \A i \in 1 .. Len(s) : i \in 1 .. Len(t)
        BY <2>1
      <4> QED BY <1>1, <2>1, <2>2, <2>3, <4>1
    <3>2. b[Len(s) + 1] = mark[e] /\ c[Len(s) + 1] = mark[e]
      <4>1. Len(s) + 1 \in 1 .. Len(t)
        BY <2>1
      <4> QED BY <2>1, <2>2, <2>3, <4>1
    <3>3. \A i \in 1 .. Len(s) + 1 : i \in 1 .. Len(s) \/ i = Len(s) + 1
      OBVIOUS
    <3>4. Len(b) = Len(s) + 1
      BY <2>1, <2>2
    <3> QED BY <3>1, <3>2, <3>3, <3>4
  <2>5. Len(b) = Len(c)
    BY <2>1, <2>2, <2>3
  <2>6. b = c
    BY <2>2, <2>3, <2>4, <2>5, SameSequence
  <2> QED BY <2>6 DEF b, c, t
<1>3. ASSUME s # <<>>
      PROVE  a # <<>> /\ a[1] = mark[Head(s)] /\ Marks(mark, Tail(s)) = Tail(a)
  <2> DEFINE t == Tail(s)
             b == Marks(mark, t)
             c == Tail(a)
  <2>1. /\ t \in Seq(V) /\ Len(t) = Len(s) - 1 /\ Len(s) \in Nat /\ Len(s) # 0 /\ Head(s) = s[1]
        /\ \A i \in 1 .. Len(t) : t[i] = s[i + 1] /\ i + 1 \in 1 .. Len(s)
    BY <1>3
  <2>2. b \in Seq(Nat) /\ Len(b) = Len(t) /\ \A i \in 1 .. Len(t) : b[i] = mark[t[i]]
    <3> HIDE DEF t
    <3> QED BY <2>1 DEF Marks
  <2>3. a # <<>> /\ a[1] = mark[Head(s)]
    BY <1>1, <2>1
  <2>4. c \in Seq(Nat) /\ Len(c) = Len(a) - 1 /\ \A i \in 1 .. Len(c) : c[i] = a[i + 1]
    <3> HIDE DEF a
    <3> QED BY <1>1, <2>3
  <2> HIDE DEF t, b, c, a
  <2>5. Len(b) = Len(c)
    BY <1>1, <2>1, <2>2, <2>4
  <2>6. \A i \in 1 .. Len(b) : b[i] = c[i]
    <3> SUFFICES ASSUME NEW i \in 1 .. Len(b) PROVE b[i] = c[i]
      OBVIOUS
    <3>1. b[i] = mark[s[i + 1]]
      BY <2>1, <2>2
    <3>2. c[i] = a[i + 1]
      BY <2>4, <2>5
    <3>3. i + 1 \in 1 .. Len(s)
      BY <2>1, <2>2
    <3> QED BY <1>1, <3>1, <3>2, <3>3
  <2>7. b = c
    BY <2>2, <2>4, <2>5, <2>6, SameSequence
  <2> QED BY <2>3, <2>7 DEF b, c, t
<1> QED BY <1>1, <1>2, <1>3
=============================================================================
