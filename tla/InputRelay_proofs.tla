-------------------------- MODULE InputRelay_proofs --------------------------
(***************************************************************************)
(* For any keys, sizes, streams, scripts and cuts: nothing that is typed   *)
(* or piped is lost or changed on its way to the shell.                    *)
(***************************************************************************)
EXTENDS InputRelay, FiniteSetTheorems, FunctionTheorems, SequenceTheorems, TLAPS

-----------------------------------------------------------------------------
(* Numbers: induction by way of the least counterexample. *)

\* Every set of numbers has a least one ...
LEMMA LeastOf ==
  ASSUME NEW T \in SUBSET Nat, T # {}
  PROVE  \E m \in T : \A n \in T : m <= n
<1> DEFINE R == OpToRel(<, Nat)
<1>1. IsWellFoundedOn(R, Nat)
  BY NatLessThanWellFounded
<1>2. \A x, y \in Nat : <<x, y>> \in R <=> x < y
  BY DEF OpToRel
<1> HIDE DEF R
<1>3. T \subseteq Nat
  OBVIOUS
<1>4. PICK m \in T : \A n \in T : ~(<<n, m>> \in R)
  BY <1>1, <1>3, WFMin
<1>5. \A n \in T : m <= n
  <2> SUFFICES ASSUME NEW n \in T PROVE m <= n
    OBVIOUS
  <2>1. m \in Nat /\ n \in Nat /\ ~(n < m)
    BY <1>2, <1>4
  <2> QED
    BY <2>1
<1> QED
  BY <1>5

\* ... and a bounded one a greatest.
LEMMA MaxOf ==
  ASSUME NEW n \in Nat, NEW T \in SUBSET (0..n), T # {}
  PROVE  Max(T) \in T /\ \A x \in T : x <= Max(T)
<1> DEFINE B == {b \in Nat : \A x \in T : x <= b}
<1>1. PICK m \in B : \A b \in B : m <= b
  <2>1. n \in B
    OBVIOUS
  <2> HIDE DEF B
  <2>2. B \in SUBSET Nat
    BY DEF B
  <2> QED
    BY <2>1, <2>2, LeastOf
<1>2. m \in T
  <2> SUFFICES ASSUME m \notin T PROVE FALSE
    OBVIOUS
  <2>1. \A x \in T : x \in Nat /\ x <= m /\ x # m
    OBVIOUS
  <2>2. PICK x \in T : TRUE
    OBVIOUS
  <2>3. m - 1 \in B
    BY <2>1, <2>2
  <2> QED
    BY <1>1, <2>3
<1>3. \E y \in T : \A x \in T : y >= x
  BY <1>1, <1>2
<1>4. Max(T) \in T /\ \A x \in T : Max(T) >= x
  BY <1>3 DEF Max
<1>5. \A x \in T : x \in Int
  OBVIOUS
<1> QED
  BY <1>4, <1>5

-----------------------------------------------------------------------------
(* Pick: the rank of a position is its place in what is picked. *)

\* How many numbers there are up to n.
LEMMA UpTo ==
  ASSUME NEW n \in Nat
  PROVE  IsFiniteSet(1..n) /\ Cardinality(1..n) = n
<1>1. /\ IsFiniteSet(1..n)
      /\ Cardinality(1..n) = IF 1 > n THEN 0 ELSE n - 1 + 1
  BY FS_Interval
<1> QED
  BY <1>1

\* The rank grows by one at each position of I.
LEMMA RankFacts ==
  ASSUME NEW n \in Nat, NEW I \in SUBSET (1..n)
  PROVE  /\ IsFiniteSet(I) /\ Cardinality(I) \in Nat
         /\ Rank(I, 0) = 0 /\ Rank(I, n) = Cardinality(I)
         /\ \A i \in 0..n : Rank(I, i) \in 0..Cardinality(I)
         /\ \A i \in 1..n : Rank(I, i) = IF i \in I THEN Rank(I, i - 1) + 1
                                                    ELSE Rank(I, i - 1)
<1>1. IsFiniteSet(I) /\ Cardinality(I) \in Nat
  <2>1. IsFiniteSet(I)
    BY UpTo, FS_Subset
  <2> QED
    BY <2>1, FS_CardinalityType
<1>2. Rank(I, 0) = 0
  <2>1. I \cap (1..0) = {}
    OBVIOUS
  <2> QED
    BY <2>1, FS_EmptySet DEF Rank
<1>3. Rank(I, n) = Cardinality(I)
  <2>1. I \cap (1..n) = I
    OBVIOUS
  <2> QED
    BY <2>1 DEF Rank
<1>4. \A i \in 0..n : IsFiniteSet(I \cap (1..i)) /\ Rank(I, i) \in 0..Cardinality(I)
  <2> SUFFICES ASSUME NEW i \in 0..n
               PROVE  IsFiniteSet(I \cap (1..i)) /\ Rank(I, i) \in 0..Cardinality(I)
    OBVIOUS
  <2>1. I \cap (1..i) \in SUBSET I
    OBVIOUS
  <2>2. IsFiniteSet(I \cap (1..i)) /\ Cardinality(I \cap (1..i)) <= Cardinality(I)
    BY <1>1, <2>1, FS_Subset
  <2>3. Cardinality(I \cap (1..i)) \in Nat
    BY <2>2, FS_CardinalityType
  <2> QED
    BY <1>1, <2>2, <2>3 DEF Rank
<1>5. ASSUME NEW i \in 1..n
      PROVE  Rank(I, i) = IF i \in I THEN Rank(I, i - 1) + 1 ELSE Rank(I, i - 1)
  <2>1. i - 1 \in 0..n
    OBVIOUS
  <2>2. CASE i \in I
    <3>1. I \cap (1..i) = (I \cap (1..(i - 1))) \cup {i}
      BY <2>2
    <3>2. i \notin I \cap (1..(i - 1))
      OBVIOUS
    <3>3. IsFiniteSet(I \cap (1..(i - 1)))
      BY <1>4, <2>1
    <3> QED
      BY <2>2, <3>1, <3>2, <3>3, FS_AddElement DEF Rank
  <2>3. CASE i \notin I
    <3>1. I \cap (1..i) = I \cap (1..(i - 1))
      BY <2>3
    <3> QED
      BY <2>3, <3>1 DEF Rank
  <2> QED
    BY <2>2, <2>3
<1> QED
  BY <1>1, <1>2, <1>3, <1>4, <1>5

\* Later positions have greater ranks.
LEMMA RankGrows ==
  ASSUME NEW n \in Nat, NEW I \in SUBSET (1..n), NEW i \in I, NEW j \in I, i < j
  PROVE  Rank(I, i) < Rank(I, j)
<1>1. IsFiniteSet(I)
  BY RankFacts
<1>2. I \cap (1..i) \in SUBSET (I \cap (1..j)) /\ I \cap (1..j) \in SUBSET I
  OBVIOUS
<1>3. j \in I \cap (1..j) /\ j \notin I \cap (1..i)
  OBVIOUS
<1>4. IsFiniteSet(I \cap (1..j))
  BY <1>1, <1>2, FS_Subset
<1>5. /\ Cardinality(I \cap (1..i)) <= Cardinality(I \cap (1..j))
      /\ Cardinality(I \cap (1..i)) # Cardinality(I \cap (1..j))
  BY <1>2, <1>3, <1>4, FS_Subset
<1>6. Rank(I, i) \in Nat /\ Rank(I, j) \in Nat
  BY RankFacts
<1> QED
  BY <1>5, <1>6 DEF Rank

\* Every place is the rank of one position.
LEMMA RankTaken ==
  ASSUME NEW n \in Nat, NEW I \in SUBSET (1..n), NEW k \in 1..Cardinality(I)
  PROVE  \E i \in I : Rank(I, i) = k
<1> DEFINE T == {i \in 0..n : Rank(I, i) >= k}
<1>0. /\ Cardinality(I) \in Nat /\ Rank(I, 0) = 0 /\ Rank(I, n) = Cardinality(I)
      /\ \A i \in 0..n : Rank(I, i) \in 0..Cardinality(I)
      /\ \A i \in 1..n : Rank(I, i) = IF i \in I THEN Rank(I, i - 1) + 1
                                                 ELSE Rank(I, i - 1)
  BY RankFacts
<1>1. n \in T
  BY <1>0
<1>2. PICK i \in T : \A j \in T : i <= j
  <2> HIDE DEF T
  <2>1. T \in SUBSET Nat
    BY DEF T
  <2> QED
    BY <1>1, <2>1, LeastOf
<1>3. i \in 1..n
  BY <1>0, <1>2
<1>4. i - 1 \in 0..n /\ i - 1 \notin T
  BY <1>2, <1>3
<1>5. Rank(I, i - 1) < k /\ Rank(I, i) >= k
  BY <1>0, <1>2, <1>4
<1>6. i \in I /\ Rank(I, i) = Rank(I, i - 1) + 1
  BY <1>0, <1>3, <1>4, <1>5
<1>7. Rank(I, i) = k
  BY <1>0, <1>4, <1>5, <1>6
<1> QED
  BY <1>6, <1>7

\* What Pick has at the rank of a position.
LEMMA PickAt ==
  ASSUME NEW n \in Nat, NEW I \in SUBSET (1..n), NEW s, NEW i \in I
  PROVE  Rank(I, i) \in 1..Cardinality(I) /\ Pick(s, I)[Rank(I, i)] = s[i]
<1>1. /\ Cardinality(I) \in Nat /\ i \in 1..n /\ i - 1 \in 0..n
      /\ Rank(I, i) = Rank(I, i - 1) + 1
      /\ Rank(I, i) \in 0..Cardinality(I) /\ Rank(I, i - 1) \in 0..Cardinality(I)
  BY RankFacts
<1>2. Rank(I, i) \in 1..Cardinality(I)
  BY <1>1
<1>3. \A j \in I : Rank(I, j) = Rank(I, i) => j = i
  <2> SUFFICES ASSUME NEW j \in I, Rank(I, j) = Rank(I, i), j # i PROVE FALSE
    OBVIOUS
  <2>1. i < j \/ j < i
    OBVIOUS
  <2>2. Rank(I, i) < Rank(I, j) \/ Rank(I, j) < Rank(I, i)
    BY <2>1, RankGrows
  <2> QED
    BY <1>1, <2>2
<1>4. (CHOOSE j \in I : Rank(I, j) = Rank(I, i)) = i
  BY <1>3
<1> QED
  BY <1>2, <1>4 DEF Pick

\* What Pick returns is a sequence of elements of s.
LEMMA PickType ==
  ASSUME NEW n \in Nat, NEW I \in SUBSET (1..n), NEW S, NEW s, \A i \in I : s[i] \in S
  PROVE  /\ Pick(s, I) \in Seq(S)
         /\ Len(Pick(s, I)) = Cardinality(I) /\ Cardinality(I) \in Nat
<1>1. Cardinality(I) \in Nat
  BY RankFacts
<1> DEFINE e(k) == s[CHOOSE i \in I : Rank(I, i) = k]
<1>2. \A k \in 1..Cardinality(I) : e(k) \in S
  BY RankTaken
<1>3. Pick(s, I) = [k \in 1..Cardinality(I) |-> e(k)]
  BY DEF Pick
<1> HIDE DEF e
<1>4. Pick(s, I) \in [1..Cardinality(I) -> S]
  BY <1>2, <1>3
<1> QED
  BY <1>1, <1>4, SeqDef

\* A sequence that has the right element at each rank is what Pick returns.
LEMMA IsPick ==
  ASSUME NEW n \in Nat, NEW I \in SUBSET (1..n), NEW S, NEW s,
         NEW p \in Seq(S), Len(p) = Cardinality(I), \A i \in I : p[Rank(I, i)] = s[i]
  PROVE  Pick(s, I) = p
<1>1. Cardinality(I) \in Nat /\ p = [k \in 1..Cardinality(I) |-> p[k]]
  BY RankFacts
<1>2. \A k \in 1..Cardinality(I) : s[CHOOSE i \in I : Rank(I, i) = k] = p[k]
  BY RankTaken
<1> QED
  BY <1>1, <1>2 DEF Pick

\* Only the elements at I matter.
LEMMA PickSame ==
  ASSUME NEW n \in Nat, NEW I \in SUBSET (1..n), NEW s, NEW t, \A i \in I : s[i] = t[i]
  PROVE  Pick(s, I) = Pick(t, I)
  BY RankTaken DEF Pick

\* No positions: nothing.
LEMMA PickNone == ASSUME NEW s PROVE Pick(s, {}) = <<>>
  BY FS_EmptySet DEF Pick

\* All positions: the sequence itself.
LEMMA PickAll ==
  ASSUME NEW S, NEW s \in Seq(S)
  PROVE  Pick(s, 1..Len(s)) = s
<1>1. Len(s) \in Nat /\ Cardinality(1..Len(s)) = Len(s)
  BY UpTo
<1>2. ASSUME NEW i \in 1..Len(s) PROVE Rank(1..Len(s), i) = i
  <2>1. (1..Len(s)) \cap (1..i) = 1..i
    BY <1>1
  <2>2. i \in Nat
    BY <1>1
  <2> QED
    BY <2>1, <2>2, UpTo DEF Rank
<1> QED
  BY <1>1, <1>2, IsPick

\* Positions moved n further.
Shift(n, J) == {n + j : j \in J}

\* The positions in I and those in J, moved n further.  Named, like Cat, so
\* that the lemmas can be matched with the goals they are for.
Both(n, I, J) == I \cup Shift(n, J)

\* p and then q.
Cat(p, q) == p \o q

\* Moving positions does not change how many they are.
LEMMA ShiftCount ==
  ASSUME NEW n \in Nat, NEW m \in Nat, NEW J \in SUBSET (1..m)
  PROVE  IsFiniteSet(Shift(n, J)) /\ Cardinality(Shift(n, J)) = Cardinality(J)
<1> DEFINE f == [j \in J |-> n + j]
<1>1. f \in [J -> Shift(n, J)]
  BY DEF Shift
<1>2. \A a, b \in J : f[a] = f[b] => a = b
  OBVIOUS
<1>3. \A t \in Shift(n, J) : \E j \in J : f[j] = t
  BY DEF Shift
<1> HIDE DEF f
<1>4. f \in Bijection(J, Shift(n, J))
  BY <1>1, <1>2, <1>3, Fun_IsInj, Fun_IsSurj DEF Bijection
<1>5. ExistsBijection(J, Shift(n, J))
  BY <1>4 DEF ExistsBijection
<1>6. IsFiniteSet(J)
  BY RankFacts
<1> QED
  BY <1>5, <1>6, FS_Bijection

\* The ranks in two sets of positions, one after the other.
LEMMA RankConcat ==
  ASSUME NEW n \in Nat, NEW m \in Nat, NEW I \in SUBSET (1..n), NEW J \in SUBSET (1..m)
  PROVE  /\ Cardinality(Both(n, I, J)) = Cardinality(I) + Cardinality(J)
         /\ \A i \in I : Rank(Both(n, I, J), i) = Rank(I, i)
         /\ \A j \in J : Rank(Both(n, I, J), n + j) = Cardinality(I) + Rank(J, j)
<1> DEFINE K == Both(n, I, J)
<1> USE DEF Both
<1>0. IsFiniteSet(I) /\ Cardinality(I) \in Nat
  BY RankFacts
<1>1. ASSUME NEW A \in SUBSET (1..m)
      PROVE  Cardinality(I \cup Shift(n, A)) = Cardinality(I) + Cardinality(A)
  <2>1. I \cap Shift(n, A) = {}
    BY <1>1 DEF Shift
  <2>2. IsFiniteSet(Shift(n, A)) /\ Cardinality(Shift(n, A)) = Cardinality(A)
    BY <1>1, ShiftCount
  <2>4. Cardinality(A) \in Nat
    BY <1>1, RankFacts
  <2>3. Cardinality(I \cap Shift(n, A)) = 0
    BY <2>1, FS_EmptySet
  <2> QED
    BY <1>0, <2>2, <2>3, <2>4, FS_Union
<1>2. ASSUME NEW i \in I
      PROVE  Rank(K, i) = Rank(I, i)
  <2>1. K \cap (1..i) = I \cap (1..i)
    BY DEF Shift
  <2> QED
    BY <2>1 DEF Rank
<1>3. ASSUME NEW j \in J
      PROVE  Rank(K, n + j) = Cardinality(I) + Rank(J, j)
  <2>0. j \in 1..m
    BY <1>3
  <2>1. K \cap (1..(n + j)) = I \cup Shift(n, J \cap (1..j))
    <3>1. \A x \in J : x \in Nat /\ (n + x \in 1..(n + j) <=> x \in 1..j)
      BY <2>0
    <3>2. \A i \in I : i \in 1..(n + j)
      BY <2>0
    <3> QED
      BY <3>1, <3>2 DEF Shift
  <2> QED
    BY <1>1, <2>1 DEF Rank
<1> QED
  BY <1>1, <1>2, <1>3

\* The elements of d are the n of a and, after them, the m of b.
Joined(d, a, n, b, m) ==
  (\A i \in 1..n : d[i] = a[i]) /\ (\A j \in 1..m : d[n + j] = b[j])

\* Picking from two sequences, one after the other.
LEMMA PickConcat ==
  ASSUME NEW n \in Nat, NEW m \in Nat, NEW I \in SUBSET (1..n), NEW J \in SUBSET (1..m),
         NEW a, NEW b, NEW d, Joined(d, a, n, b, m)
  PROVE  Pick(d, Both(n, I, J)) = Cat(Pick(a, I), Pick(b, J))
<1> DEFINE S == {a[i] : i \in 1..n} \cup {b[j] : j \in 1..m}
           M == n + m
           K == Both(n, I, J)
           p == Pick(a, I)
           q == Pick(b, J)
<1>1. /\ p \in Seq(S) /\ Len(p) = Cardinality(I) /\ Cardinality(I) \in Nat
      /\ q \in Seq(S) /\ Len(q) = Cardinality(J) /\ Cardinality(J) \in Nat
  <2>1. (\A i \in I : a[i] \in S) /\ (\A j \in J : b[j] \in S)
    OBVIOUS
  <2> HIDE DEF S
  <2> QED
    BY <2>1, PickType
<1> HIDE DEF S
<1>2. K \in SUBSET (1..M) /\ M \in Nat
  <2>1. \A j \in 1..m : n + j \in 1..M
    OBVIOUS
  <2>2. (\A i \in 1..n : i \in 1..M) /\ M \in Nat
    OBVIOUS
  <2> HIDE DEF M
  <2>3. I \subseteq 1..M /\ Shift(n, J) \subseteq 1..M
    BY <2>1, <2>2 DEF Shift
  <2> QED
    BY <2>2, <2>3 DEF Both
<1>3. /\ Cardinality(K) = Cardinality(I) + Cardinality(J)
      /\ \A i \in I : Rank(K, i) = Rank(I, i)
      /\ \A j \in J : Rank(K, n + j) = Cardinality(I) + Rank(J, j)
  BY RankConcat
<1>4. /\ \A i \in I : Rank(I, i) \in 1..Cardinality(I) /\ p[Rank(I, i)] = a[i]
      /\ \A j \in J : Rank(J, j) \in 1..Cardinality(J) /\ q[Rank(J, j)] = b[j]
  BY PickAt
<1>5. /\ p \o q \in Seq(S) /\ Len(p \o q) = Cardinality(K)
      /\ \A k \in 1..(Len(p) + Len(q)) :
            (p \o q)[k] = IF k <= Len(p) THEN p[k] ELSE q[k - Len(p)]
  <2> HIDE DEF K, p, q
  <2>1. p \in Seq(S) /\ q \in Seq(S)
    BY <1>1
  <2>2. /\ p \o q \in Seq(S) /\ Len(p \o q) = Len(p) + Len(q)
        /\ \A k \in 1..(Len(p) + Len(q)) :
              (p \o q)[k] = IF k <= Len(p) THEN p[k] ELSE q[k - Len(p)]
    BY <2>1, ConcatProperties
  <2> QED
    BY <1>1, <1>3, <2>2
<1>6. ASSUME NEW k \in K PROVE (p \o q)[Rank(K, k)] = d[k]
  <2>1. CASE k \in I
    <3>1. Rank(K, k) = Rank(I, k) /\ Rank(I, k) \in 1..Len(p) /\ k \in 1..n
      BY <1>1, <1>3, <1>4, <2>1
    <3>2. (p \o q)[Rank(K, k)] = p[Rank(I, k)]
      BY <1>1, <1>5, <3>1
    <3> QED
      BY <1>4, <2>1, <3>1, <3>2 DEF Joined
  <2>2. CASE k \in Shift(n, J)
    <3>1. PICK j \in J : k = n + j
      BY <2>2 DEF Shift
    <3>2. Rank(K, k) = Len(p) + Rank(J, j) /\ Rank(J, j) \in 1..Len(q)
      BY <1>1, <1>3, <1>4, <3>1
    <3>3. (p \o q)[Rank(K, k)] = q[Rank(J, j)]
      BY <1>1, <1>5, <3>2
    <3>4. d[k] = b[j]
      BY <3>1 DEF Joined
    <3> QED
      BY <1>4, <3>1, <3>3, <3>4
  <2> QED
    BY <2>1, <2>2 DEF Both
<1> DEFINE pq == Cat(p, q)
<1> HIDE DEF K, M, p, q, pq
<1>7. Pick(d, K) = pq
  <2>1. pq \in Seq(S) /\ Len(pq) = Cardinality(K)
    BY <1>5 DEF pq, Cat
  <2>2. \A k \in K : pq[Rank(K, k)] = d[k]
    BY <1>6 DEF pq, Cat
  <2>3. K \in SUBSET (1..M) /\ M \in Nat
    BY <1>2
  <2> QED
    BY <2>1, <2>2, <2>3, IsPick
<1> QED
  BY <1>7 DEF K, p, q, pq


-----------------------------------------------------------------------------
(* Streams of keys and requests *)

\* In a stream, a size is only ever inside a request.
Stream(d) ==
  \A p \in 1..Len(d) : d[p] \in Size =>
     /\ p - 2 \in 1..Len(d) /\ p + 1 \in 1..Len(d)
     /\ d[p - 2] = "esc" /\ d[p - 1] = "]" /\ d[p + 1] = "bel"

\* What of a stream is for the shell: the keys.
Keys(d) == Pick(d, (1..Len(d)) \ InMatch(d))

\* What is held back begins as a request does and has no end of one.
HeldBack(d) ==
  d # <<>> => /\ Len(d) >= 2 /\ d[1] = "esc" /\ d[2] = "]"
              /\ \A j \in 1..Len(d) : d[j] # "bel"

\* The meaningful bytes and the others are told apart.
LEMMA Different ==
  /\ "esc" \notin Size /\ "]" \notin Size /\ "bel" \notin Size
  /\ \A s \in Size : s \notin Typed /\ s \notin Script
  BY BytesDiffer DEF Typed, Script

\* A match, byte by byte.
LEMMA MatchIs ==
  ASSUME NEW d \in Seq(Byte)
  PROVE  /\ Len(d) \in Nat /\ Matches(d) \in SUBSET (1..Len(d))
         /\ \A i \in Int : i \in Matches(d) <=>
               /\ i >= 1 /\ i + 3 <= Len(d)
               /\ d[i] = "esc" /\ d[i + 1] = "]" /\ d[i + 2] \in Size /\ d[i + 3] = "bel"
<1>1. Len(d) \in Nat /\ \A i \in 1..Len(d) : d[i] \in Byte
  BY LenProperties
<1>2. ASSUME NEW i \in 1..(Len(d) - 3), NEW s \in Size
      PROVE  SubSeq(d, i, i + 3) = Request(s) <=>
               d[i] = "esc" /\ d[i + 1] = "]" /\ d[i + 2] = s /\ d[i + 3] = "bel"
  <2> DEFINE b == SubSeq(d, i, i + 3)
  <2>1. i \in Int /\ i + 3 \in Int /\ \A k \in i..(i + 3) : d[k] \in Byte
    BY <1>1
  <2>2. /\ b \in Seq(Byte) /\ Len(b) = 4
        /\ \A k \in 1..4 : b[k] = d[i + k - 1]
    <3>1. /\ b \in Seq(Byte)
          /\ Len(b) = IF i <= i + 3 THEN i + 3 - i + 1 ELSE 0
          /\ \A k \in 1..(i + 3 - i + 1) : b[k] = d[i + k - 1]
      BY <2>1, SubSeqProperties
    <3>2. i + 3 - i + 1 = 4 /\ i <= i + 3
      BY <2>1
    <3> QED
      BY <3>1, <3>2
  <2>3. b[1] = d[i] /\ b[2] = d[i + 1] /\ b[3] = d[i + 2] /\ b[4] = d[i + 3]
    BY <2>1, <2>2
  <2>4. /\ Request(s) \in Seq(Byte) /\ Len(Request(s)) = 4
        /\ Request(s)[1] = "esc" /\ Request(s)[2] = "]"
        /\ Request(s)[3] = s /\ Request(s)[4] = "bel"
    BY DEF Request, Byte, Typed
  <2> HIDE DEF b
  <2>5. b = Request(s) <=> \A k \in 1..4 : b[k] = Request(s)[k]
    BY <2>2, <2>4, SeqEqual
  <2>6. \A k \in 1..4 : k = 1 \/ k = 2 \/ k = 3 \/ k = 4
    OBVIOUS
  <2>7. b = Request(s) <=>
           d[i] = "esc" /\ d[i + 1] = "]" /\ d[i + 2] = s /\ d[i + 3] = "bel"
    BY <2>3, <2>4, <2>5, <2>6
  <2> QED
    BY <2>7 DEF b
<1>3. ASSUME NEW i \in 1..(Len(d) - 3)
      PROVE  i \in Matches(d) <=>
               d[i] = "esc" /\ d[i + 1] = "]" /\ d[i + 2] \in Size /\ d[i + 3] = "bel"
  BY <1>2 DEF Matches
<1>4. \A i \in Int : i \in 1..(Len(d) - 3) <=> i >= 1 /\ i + 3 <= Len(d)
  BY <1>1
<1>5. Matches(d) \in SUBSET (1..(Len(d) - 3))
  BY DEF Matches
<1>6. Matches(d) \in SUBSET (1..Len(d))
  BY <1>1, <1>5
<1> QED
  BY <1>1, <1>3, <1>4, <1>5, <1>6

\* The bytes of the matches are bytes of the data.
LEMMA InMatchIs ==
  ASSUME NEW d \in Seq(Byte)
  PROVE  /\ InMatch(d) \in SUBSET (1..Len(d))
         /\ \A k \in Int : k \in InMatch(d) <=> \E i \in Matches(d) : i <= k /\ k <= i + 3
<1>1. Len(d) \in Nat /\ \A i \in Matches(d) : i \in Nat /\ i >= 1 /\ i + 3 <= Len(d)
  BY MatchIs
<1>2. \A k \in Int : k \in InMatch(d) <=> \E i \in Matches(d) : i <= k /\ k <= i + 3
  BY <1>1 DEF InMatch
<1>3. \A k \in InMatch(d) : k \in 1..Len(d)
  BY <1>1 DEF InMatch
<1> QED
  BY <1>2, <1>3

\* A stream after a stream is a stream, with the matches, keys and sizes of both.
LEMMA StreamConcat ==
  ASSUME NEW a \in Seq(Byte), NEW b \in Seq(Byte), Stream(a), Stream(b)
  PROVE  /\ Stream(a \o b)
         /\ Keys(a \o b) = Keys(a) \o Keys(b)
         /\ SizesOf(a \o b) = SizesOf(a) \o SizesOf(b)
<1> DEFINE n == Len(a)
           m == Len(b)
           d == a \o b
<1>1. /\ n \in Nat /\ m \in Nat /\ d \in Seq(Byte) /\ Len(d) = n + m
      /\ \A i \in 1..n : d[i] = a[i]
      /\ \A j \in 1..m : d[n + j] = b[j]
  BY LenProperties, ConcatProperties
<1> HIDE DEF n, m, d
<1>2. Joined(d, a, n, b, m)
  BY <1>1 DEF Joined
<1>3. \A k \in 1..(n + m) : k \in 1..n \/ (k - n \in 1..m /\ k = n + (k - n))
  BY <1>1
<1>4. ASSUME NEW p \in 1..n, a[p] \in Size
      PROVE  /\ p - 2 \in 1..n /\ p + 1 \in 1..n
             /\ a[p - 2] = "esc" /\ a[p - 1] = "]" /\ a[p + 1] = "bel"
  BY <1>4 DEF Stream, n
<1>5. ASSUME NEW p \in 1..m, b[p] \in Size
      PROVE  /\ p - 2 \in 1..m /\ p + 1 \in 1..m
             /\ b[p - 2] = "esc" /\ b[p - 1] = "]" /\ b[p + 1] = "bel"
  BY <1>5 DEF Stream, m
<1>6. Stream(d)
  <2> SUFFICES ASSUME NEW p \in 1..(n + m), d[p] \in Size
               PROVE  /\ p - 2 \in 1..(n + m) /\ p + 1 \in 1..(n + m)
                      /\ d[p - 2] = "esc" /\ d[p - 1] = "]" /\ d[p + 1] = "bel"
    BY <1>1 DEF Stream
  <2>1. CASE p \in 1..n
    <3>1. a[p] \in Size
      BY <1>1, <2>1
    <3>2. /\ p - 2 \in 1..n /\ p + 1 \in 1..n
          /\ a[p - 2] = "esc" /\ a[p - 1] = "]" /\ a[p + 1] = "bel"
      BY <1>4, <2>1, <3>1
    <3>3. p - 1 \in 1..n
      BY <1>1, <3>2
    <3> QED
      BY <1>1, <3>2, <3>3
  <2>2. CASE p - n \in 1..m
    <3> DEFINE q == p - n
    <3>1. q \in 1..m /\ b[q] \in Size
      <4>1. p = n + q /\ q \in 1..m
        BY <1>1, <2>2
      <4> HIDE DEF q
      <4> QED
        BY <1>1, <4>1
    <3>2. /\ q - 2 \in 1..m /\ q + 1 \in 1..m
          /\ b[q - 2] = "esc" /\ b[q - 1] = "]" /\ b[q + 1] = "bel"
      BY <1>5, <3>1
    <3>3. /\ p - 2 = n + (q - 2) /\ p - 1 = n + (q - 1) /\ p + 1 = n + (q + 1)
          /\ q - 1 \in 1..m
      BY <1>1, <3>2
    <3> HIDE DEF q
    <3>4. p - 2 \in 1..(n + m) /\ p + 1 \in 1..(n + m)
      BY <1>1, <3>2, <3>3
    <3> QED
      BY <1>1, <3>2, <3>3, <3>4
  <2> QED
    BY <1>3, <2>1, <2>2
<1>7. Matches(a) \in SUBSET (1..n) /\ Matches(b) \in SUBSET (1..m)
  BY MatchIs DEF n, m
<1>8. \A i \in Int : i \in Matches(d) <=>
          /\ i >= 1 /\ i + 3 <= n + m
          /\ d[i] = "esc" /\ d[i + 1] = "]" /\ d[i + 2] \in Size /\ d[i + 3] = "bel"
  <2>1. d \in Seq(Byte) /\ Len(d) = n + m
    BY <1>1
  <2> QED
    BY <2>1, MatchIs
<1>9. Matches(d) = Matches(a) \cup Shift(n, Matches(b))
  <2>1. ASSUME NEW i \in Matches(a) PROVE i \in Matches(d)
    <3>1. /\ i \in Int /\ i >= 1 /\ i + 3 <= n
          /\ a[i] = "esc" /\ a[i + 1] = "]" /\ a[i + 2] \in Size /\ a[i + 3] = "bel"
      BY <1>7, <2>1, MatchIs DEF n
    <3>2. i \in 1..n /\ i + 1 \in 1..n /\ i + 2 \in 1..n /\ i + 3 \in 1..n /\ i + 3 <= n + m
      BY <1>1, <3>1
    <3>3. d[i] = "esc" /\ d[i + 1] = "]" /\ d[i + 2] \in Size /\ d[i + 3] = "bel"
      BY <1>1, <3>1, <3>2
    <3> QED
      BY <1>1, <1>8, <3>1, <3>2, <3>3
  <2>2. ASSUME NEW j \in Matches(b) PROVE n + j \in Matches(d)
    <3>1. /\ j \in Int /\ j >= 1 /\ j + 3 <= m
          /\ b[j] = "esc" /\ b[j + 1] = "]" /\ b[j + 2] \in Size /\ b[j + 3] = "bel"
      BY <1>7, <2>2, MatchIs DEF m
    <3>2. /\ j \in 1..m /\ j + 1 \in 1..m /\ j + 2 \in 1..m /\ j + 3 \in 1..m
          /\ n + j \in Int /\ n + j >= 1 /\ n + j + 3 <= n + m
          /\ n + j + 1 = n + (j + 1) /\ n + j + 2 = n + (j + 2) /\ n + j + 3 = n + (j + 3)
      BY <1>1, <3>1
    <3>3. d[n + j] = "esc" /\ d[n + j + 1] = "]" /\ d[n + j + 2] \in Size /\ d[n + j + 3] = "bel"
      BY <1>1, <3>1, <3>2
    <3> QED
      BY <1>8, <3>2, <3>3
  <2>3. ASSUME NEW i \in Matches(d) PROVE i \in Matches(a) \/ i \in Shift(n, Matches(b))
    <3>1. /\ i \in Int /\ i >= 1 /\ i + 3 <= n + m
          /\ d[i] = "esc" /\ d[i + 1] = "]" /\ d[i + 2] \in Size /\ d[i + 3] = "bel"
      BY <1>1, <2>3, MatchIs
    <3>2. CASE i + 2 <= n
      <4>1. i + 2 \in 1..n /\ a[i + 2] \in Size
        BY <1>1, <3>1, <3>2
      <4>2. /\ i + 3 \in 1..n
        <5>1. (i + 2) + 1 \in 1..n
          BY <1>4, <4>1
        <5> QED
          BY <3>1, <5>1
      <4>3. i \in 1..n /\ i + 1 \in 1..n
        BY <1>1, <3>1, <3>2
      <4>4. a[i] = "esc" /\ a[i + 1] = "]" /\ a[i + 2] \in Size /\ a[i + 3] = "bel"
        BY <1>1, <3>1, <4>1, <4>2, <4>3
      <4>5. i + 3 <= n
        BY <4>2
      <4>6. i \in Matches(a)
        BY <3>1, <4>4, <4>5, MatchIs DEF n
      <4> QED
        BY <4>6
    <3>3. CASE ~(i + 2 <= n)
      <4> DEFINE j == i - n
      <4>1. j + 2 \in 1..m /\ i + 2 = n + (j + 2)
        BY <1>1, <3>1, <3>3
      <4>2. b[j + 2] \in Size
        BY <1>1, <3>1, <4>1
      <4>3. (j + 2) - 2 \in 1..m
        BY <1>5, <4>1, <4>2
      <4>4. /\ j \in 1..m /\ j + 1 \in 1..m /\ j + 3 \in 1..m /\ j \in Int /\ j >= 1 /\ j + 3 <= m
            /\ i = n + j /\ i + 1 = n + (j + 1) /\ i + 3 = n + (j + 3)
        BY <1>1, <3>1, <4>3
      <4> HIDE DEF j
      <4>5. b[j] = "esc" /\ b[j + 1] = "]" /\ b[j + 2] \in Size /\ b[j + 3] = "bel"
        BY <1>1, <3>1, <4>2, <4>4
      <4>6. j \in Matches(b)
        BY <4>4, <4>5, MatchIs DEF m
      <4> QED
        BY <4>4, <4>6 DEF Shift
    <3> QED
      BY <3>2, <3>3
  <2> QED
    BY <2>1, <2>2, <2>3 DEF Shift
<1>10. SizesOf(d) = SizesOf(a) \o SizesOf(b)
  <2> DEFINE I == {i + 2 : i \in Matches(a)}
             J == {i + 2 : i \in Matches(b)}
  <2>1. I \in SUBSET (1..n) /\ J \in SUBSET (1..m)
    <3>1. \A i \in Matches(a) : i \in Int /\ i >= 1 /\ i + 3 <= n
      BY <1>7, MatchIs DEF n
    <3>2. \A i \in Matches(b) : i \in Int /\ i >= 1 /\ i + 3 <= m
      BY <1>7, MatchIs DEF m
    <3> QED
      BY <1>1, <3>1, <3>2
  <2>2. {i + 2 : i \in Matches(d)} = Both(n, I, J)
    <3>1. \A j \in Matches(b) : (n + j) + 2 = n + (j + 2)
      BY <1>1, <1>7
    <3>2. Shift(n, J) = {(n + j) + 2 : j \in Matches(b)}
      BY <3>1 DEF Shift
    <3>3. {i + 2 : i \in Shift(n, Matches(b))} = {(n + j) + 2 : j \in Matches(b)}
      BY DEF Shift
    <3> QED
      BY <1>9, <3>2, <3>3 DEF Both
  <2> HIDE DEF I, J
  <2>3. Pick(d, Both(n, I, J)) = Cat(Pick(a, I), Pick(b, J))
    BY <1>1, <1>2, <2>1, PickConcat
  <2> QED
    BY <2>2, <2>3 DEF I, J, SizesOf, Cat, Both
<1>11. Keys(d) = Keys(a) \o Keys(b)
  <2> DEFINE I == (1..n) \ InMatch(a)
             J == (1..m) \ InMatch(b)
  <2>0. /\ InMatch(a) \in SUBSET (1..n) /\ InMatch(b) \in SUBSET (1..m)
        /\ \A k \in Int : k \in InMatch(a) <=> \E i \in Matches(a) : i <= k /\ k <= i + 3
        /\ \A k \in Int : k \in InMatch(b) <=> \E i \in Matches(b) : i <= k /\ k <= i + 3
        /\ \A k \in Int : k \in InMatch(d) <=> \E i \in Matches(d) : i <= k /\ k <= i + 3
    BY <1>1, InMatchIs DEF n, m
  <2>1. I \in SUBSET (1..n) /\ J \in SUBSET (1..m)
    OBVIOUS
  <2>2. InMatch(d) = InMatch(a) \cup Shift(n, InMatch(b))
    <3>1. \A k \in InMatch(a) : k \in InMatch(d)
      BY <1>9, <2>0
    <3>2. \A k \in InMatch(b) : n + k \in InMatch(d)
      <4> SUFFICES ASSUME NEW k \in InMatch(b) PROVE n + k \in InMatch(d)
        OBVIOUS
      <4>1. k \in 1..m /\ n + k \in Int
        BY <1>1, <2>0
      <4>2. PICK i \in Matches(b) : i <= k /\ k <= i + 3
        BY <2>0, <4>1
      <4>3. n + i \in Matches(d) /\ n + i <= n + k /\ n + k <= n + i + 3
        BY <1>1, <1>7, <1>9, <4>1, <4>2 DEF Shift
      <4> QED
        BY <2>0, <4>1, <4>3
    <3>3. ASSUME NEW k \in InMatch(d) PROVE k \in InMatch(a) \/ k \in Shift(n, InMatch(b))
      <4>1. k \in Int
        BY <1>1, <3>3, InMatchIs
      <4>2. PICK i \in Matches(d) : i <= k /\ k <= i + 3
        BY <2>0, <3>3, <4>1
      <4>3. CASE i \in Matches(a)
        BY <2>0, <4>1, <4>2, <4>3
      <4>4. CASE i \in Shift(n, Matches(b))
        <5>1. PICK j \in Matches(b) : i = n + j
          BY <4>4 DEF Shift
        <5>2. k - n \in Int /\ j <= k - n /\ k - n <= j + 3 /\ k = n + (k - n)
          BY <1>1, <1>7, <4>1, <4>2, <5>1
        <5>3. k - n \in InMatch(b)
          BY <2>0, <5>2
        <5> QED
          BY <5>2, <5>3 DEF Shift
      <4> QED
        BY <1>9, <4>2, <4>3, <4>4
    <3> QED
      BY <3>1, <3>2, <3>3 DEF Shift
  <2>3. (1..Len(d)) \ InMatch(d) = Both(n, I, J)
    <3>1. ASSUME NEW k \in 1..(n + m), k \notin InMatch(d) PROVE k \in I \/ k \in Shift(n, J)
      <4>1. CASE k \in 1..n
        BY <2>2, <3>1, <4>1
      <4>2. CASE k - n \in 1..m /\ k = n + (k - n)
        BY <2>2, <3>1, <4>2 DEF Shift
      <4> QED
        BY <1>3, <4>1, <4>2
    <3>2. ASSUME NEW k \in I PROVE k \in 1..(n + m) /\ k \notin InMatch(d)
      <4>1. k \in 1..n /\ k \notin InMatch(a)
        BY <3>2
      <4>2. k \notin Shift(n, InMatch(b))
        BY <1>1, <2>0, <4>1 DEF Shift
      <4> QED
        BY <1>1, <2>2, <4>1, <4>2
    <3>3. ASSUME NEW j \in J PROVE n + j \in 1..(n + m) /\ n + j \notin InMatch(d)
      <4>1. j \in 1..m /\ j \notin InMatch(b)
        BY <3>3
      <4>2. n + j \notin InMatch(a)
        BY <1>1, <2>0, <4>1
      <4>3. \A k \in InMatch(b) : n + k = n + j => k = j
        BY <1>1, <2>0, <4>1
      <4>4. n + j \notin Shift(n, InMatch(b))
        BY <4>1, <4>3 DEF Shift
      <4> QED
        BY <1>1, <2>2, <4>1, <4>2, <4>4
    <3>4. \A k \in Shift(n, J) : k \in 1..(n + m) /\ k \notin InMatch(d)
      BY <3>3 DEF Shift
    <3> QED
      BY <1>1, <3>1, <3>2, <3>4 DEF Both
  <2> HIDE DEF I, J
  <2>4. Pick(d, Both(n, I, J)) = Cat(Pick(a, I), Pick(b, J))
    BY <1>1, <1>2, <2>1, PickConcat
  <2> QED
    BY <2>3, <2>4 DEF I, J, Keys, n, m, Cat, Both
<1> QED
  BY <1>6, <1>10, <1>11 DEF d

-----------------------------------------------------------------------------
(* Reading: what is given to the shell and what is held back *)

\* The rest begins right after the last match.
LEMMA RestFromIs ==
  ASSUME NEW d \in Seq(Byte)
  PROVE  /\ RestFrom(d) \in 1..(Len(d) + 1)
         /\ \A i \in Matches(d) : i + 3 < RestFrom(d)
         /\ RestFrom(d) = 1 \/ \E i \in Matches(d) : RestFrom(d) = i + 4
<1> DEFINE T == {0} \cup InMatch(d)
           x == Max(T)
<1>1. Len(d) \in Nat /\ \A i \in Matches(d) : i \in Nat /\ i >= 1 /\ i + 3 <= Len(d)
  BY MatchIs
<1>2. /\ InMatch(d) \in SUBSET (1..Len(d))
      /\ \A k \in Int : k \in InMatch(d) <=> \E i \in Matches(d) : i <= k /\ k <= i + 3
  BY InMatchIs
<1>3. T \in SUBSET (0..Len(d)) /\ T # {}
  BY <1>1, <1>2
<1> HIDE DEF T
<1>4. x \in T /\ \A y \in T : y <= x
  BY <1>1, <1>3, MaxOf
<1>5. RestFrom(d) = x + 1
  BY DEF RestFrom, T
<1> HIDE DEF x
<1>6. x \in 0..Len(d)
  BY <1>3, <1>4
<1>7. \A i \in Matches(d) : i + 3 <= x
  <2> SUFFICES ASSUME NEW i \in Matches(d) PROVE i + 3 <= x
    OBVIOUS
  <2>1. i \in Nat /\ i <= i + 3 /\ i + 3 <= i + 3 /\ i + 3 \in Int
    BY <1>1
  <2>2. i + 3 \in InMatch(d)
    BY <1>2, <2>1
  <2> QED
    BY <1>4, <2>2 DEF T
<1>8. x = 0 \/ \E i \in Matches(d) : x = i + 3
  <2>1. CASE x \in InMatch(d)
    <3>1. PICK i \in Matches(d) : i <= x /\ x <= i + 3
      BY <1>2, <1>6, <2>1
    <3>2. x = i + 3
      BY <1>1, <1>6, <1>7, <3>1
    <3> QED
      BY <3>2
  <2> QED
    BY <1>4, <2>1 DEF T
<1> QED
  BY <1>1, <1>5, <1>6, <1>7, <1>8

\* What is held back begins at the last introducer of the rest, if no BEL
\* follows.
LEMMA HeldFromIs ==
  ASSUME NEW d \in Seq(Byte)
  PROVE  /\ HeldFrom(d) \in RestFrom(d)..(Len(d) + 1)
         /\ HeldFrom(d) # Len(d) + 1 =>
               /\ HeldFrom(d) + 1 <= Len(d)
               /\ d[HeldFrom(d)] = "esc" /\ d[HeldFrom(d) + 1] = "]"
               /\ \A j \in HeldFrom(d)..Len(d) : d[j] # "bel"
         /\ \A i \in RestFrom(d)..(Len(d) - 1) :
               /\ d[i] = "esc" /\ d[i + 1] = "]"
               /\ \A j \in i..Len(d) : d[j] # "bel"
               /\ \A k \in (i + 1)..(Len(d) - 1) : ~(d[k] = "esc" /\ d[k + 1] = "]")
               => HeldFrom(d) = i
<1> DEFINE n == Len(d)
           r == RestFrom(d)
           E == {i \in r..(n - 1) : d[i] = "esc" /\ d[i + 1] = "]"}
           intro == Max({0} \cup E)
<1>1. n \in Nat /\ r \in 1..(n + 1)
  BY LenProperties, RestFromIs
<1>2. HeldFrom(d) = IF intro # 0 /\ \A j \in intro..n : d[j] # "bel" THEN intro ELSE n + 1
  BY DEF HeldFrom
<1> HIDE DEF n, r
<1>3. {0} \cup E \in SUBSET (0..n) /\ {0} \cup E # {}
  BY <1>1
<1>4. \A i \in E : i \in r..(n - 1) /\ d[i] = "esc" /\ d[i + 1] = "]"
  OBVIOUS
<1>5. \A i \in r..(n - 1) : d[i] = "esc" /\ d[i + 1] = "]" => i \in E
  OBVIOUS
<1> HIDE DEF E
<1>6. intro \in {0} \cup E /\ \A i \in {0} \cup E : i <= intro
  BY <1>1, <1>3, MaxOf
<1> HIDE DEF intro
<1>7. HeldFrom(d) \in r..(n + 1)
  BY <1>1, <1>2, <1>4, <1>6
<1>8. HeldFrom(d) # n + 1 =>
         /\ HeldFrom(d) + 1 <= n
         /\ d[HeldFrom(d)] = "esc" /\ d[HeldFrom(d) + 1] = "]"
         /\ \A j \in HeldFrom(d)..n : d[j] # "bel"
  BY <1>1, <1>2, <1>4, <1>6
<1>9. ASSUME NEW i \in r..(n - 1),
             d[i] = "esc", d[i + 1] = "]", \A j \in i..n : d[j] # "bel",
             \A k \in (i + 1)..(n - 1) : ~(d[k] = "esc" /\ d[k + 1] = "]")
      PROVE  HeldFrom(d) = i
  <2>1. i \in E /\ i <= intro /\ i >= 1
    BY <1>1, <1>5, <1>6, <1>9
  <2>2. intro \in E
    BY <1>6, <2>1
  <2>3. intro \in r..(n - 1) /\ d[intro] = "esc" /\ d[intro + 1] = "]"
    BY <1>4, <2>2
  <2>4. intro = i
    BY <1>1, <1>9, <2>1, <2>3
  <2> QED
    BY <1>2, <1>9, <2>1, <2>4
<1> QED
  BY <1>7, <1>8, <1>9 DEF n, r

\* A read of data, with rest still to come, gives the shell the keys before
\* the part held back, and leaves a stream: no request is cut in two, unless
\* right after its ESC.
LEMMA ReadSplits ==
  ASSUME NEW data \in Seq(Byte), NEW rest \in Seq(Byte),
         Stream(data \o rest), rest = <<>> \/ data[Len(data)] # "esc"
  PROVE  /\ HeldBack(HeldOf(data))
         /\ Stream(HeldOf(data) \o rest)
         /\ Keys(data \o rest) = PayloadOf(data) \o Keys(HeldOf(data) \o rest)
         /\ SizesOf(data \o rest) = SizesOf(data) \o SizesOf(HeldOf(data) \o rest)
<1> DEFINE m == Len(data)
           d == data \o rest
           M == Len(d)
           r == RestFrom(data)
           h == HeldFrom(data)
           a == SubSeq(data, 1, h - 1)
           v == HeldOf(data)
           b == v \o rest
<1>1. /\ m \in Nat /\ d \in Seq(Byte) /\ M = m + Len(rest) /\ M \in Nat /\ M >= m
      /\ \A i \in 1..m : data[i] \in Byte
      /\ \A i \in 1..m : d[i] = data[i]
      /\ \A i \in 1..Len(rest) : d[m + i] = rest[i]
  BY LenProperties, ConcatProperties
<1>2. /\ r \in 1..(m + 1) /\ h \in r..(m + 1)
      /\ r = 1 \/ \E i \in Matches(data) : r = i + 4
      /\ \A i \in Matches(data) : i + 3 < r
  BY RestFromIs, HeldFromIs
<1>3. /\ h # m + 1 => /\ h + 1 <= m
                      /\ data[h] = "esc" /\ data[h + 1] = "]"
                      /\ \A j \in h..m : data[j] # "bel"
      /\ \A i \in r..(m - 1) :
            /\ data[i] = "esc" /\ data[i + 1] = "]"
            /\ \A j \in i..m : data[j] # "bel"
            /\ \A k \in (i + 1)..(m - 1) : ~(data[k] = "esc" /\ data[k + 1] = "]")
            => h = i
  BY HeldFromIs
<1>4. /\ a \in Seq(Byte) /\ Len(a) = h - 1 /\ \A i \in 1..(h - 1) : a[i] = data[i]
      /\ v \in Seq(Byte) /\ Len(v) = m - h + 1 /\ \A i \in 1..(m - h + 1) : v[i] = data[h + i - 1]
  <2>1. h \in Int /\ h - 1 \in Int /\ m \in Int /\ 1 \in Int
    BY <1>1, <1>2
  <2>2. (\A i \in 1..(h - 1) : data[i] \in Byte) /\ (\A i \in h..m : data[i] \in Byte)
    BY <1>1, <1>2
  <2> HIDE DEF h, m
  <2>3. /\ a \in Seq(Byte)
        /\ Len(a) = IF 1 <= h - 1 THEN h - 1 - 1 + 1 ELSE 0
        /\ \A i \in 1..(h - 1 - 1 + 1) : a[i] = data[1 + i - 1]
    BY <2>1, <2>2, SubSeqProperties
  <2>4. /\ v \in Seq(Byte)
        /\ Len(v) = IF h <= m THEN m - h + 1 ELSE 0
        /\ \A i \in 1..(m - h + 1) : v[i] = data[h + i - 1]
    BY <2>1, <2>2, SubSeqProperties DEF HeldOf, h, m
  <2>5. h - 1 - 1 + 1 = h - 1 /\ h >= 1 /\ h <= m + 1
    BY <1>2, <2>1 DEF h, m
  <2>6. \A i \in 1..(h - 1) : 1 + i - 1 = i
    BY <2>1
  <2> HIDE DEF a, v
  <2> QED
    BY <2>1, <2>3, <2>4, <2>5, <2>6
<1>5. d = a \o b
  <2>1. a \o v = data
    <3>1. 1 \in 1..(m + 1) /\ h - 1 \in (1 - 1)..m /\ m \in (h - 1)..m /\ h - 1 + 1 = h
      BY <1>1, <1>2
    <3>2. SubSeq(data, 1, h - 1) \o SubSeq(data, h - 1 + 1, m) = SubSeq(data, 1, m)
      BY <3>1, ConcatAdjacentSubSeq
    <3>3. SubSeq(data, 1, m) = data
      BY SubSeqFull
    <3> QED
      BY <3>1, <3>2, <3>3 DEF HeldOf
  <2> HIDE DEF a, v
  <2>2. (a \o v) \o rest = a \o (v \o rest)
    <3>1. a \in Seq(Byte) /\ v \in Seq(Byte) /\ rest \in Seq(Byte)
      BY <1>4
    <3> QED
      BY <3>1, ConcatAssociative
  <2> QED
    BY <2>1, <2>2
<1>6. /\ b \in Seq(Byte) /\ Len(b) = M - h + 1
      /\ \A j \in 1..(M - h + 1) : b[j] = d[h - 1 + j]
  <2> HIDE DEF a, v, d, M, h, m
  <2>1. /\ b \in Seq(Byte) /\ Len(b) = Len(v) + Len(rest) /\ Len(rest) \in Nat
        /\ \A j \in 1..(Len(v) + Len(rest)) : b[j] = IF j <= Len(v) THEN v[j] ELSE rest[j - Len(v)]
    BY <1>4, ConcatProperties, LenProperties
  <2> HIDE DEF b
  <2>2. Len(b) = M - h + 1
    BY <1>1, <1>2, <1>4, <2>1
  <2>3. ASSUME NEW j \in 1..(M - h + 1) PROVE b[j] = d[h - 1 + j]
    <3>1. j \in 1..(Len(v) + Len(rest)) /\ Len(v) = m - h + 1
      BY <1>4, <2>1, <2>2
    <3>2. CASE j <= Len(v)
      <4>1. b[j] = v[j] /\ j \in 1..(m - h + 1) /\ h - 1 + j \in 1..m /\ h + j - 1 = h - 1 + j
        BY <1>1, <1>2, <2>1, <3>1, <3>2
      <4> QED
        BY <1>1, <1>4, <4>1
    <3>3. CASE ~(j <= Len(v))
      <4> DEFINE k == j - Len(v)
      <4>1. b[j] = rest[k] /\ k \in 1..Len(rest) /\ h - 1 + j = m + k
        BY <1>1, <1>2, <2>1, <3>1, <3>3
      <4> QED
        BY <1>1, <4>1
    <3> QED
      BY <3>2, <3>3
  <2> QED
    BY <2>1, <2>2, <2>3
<1>7. HeldBack(v)
  <2> SUFFICES ASSUME v # <<>>
               PROVE  /\ Len(v) >= 2 /\ v[1] = "esc" /\ v[2] = "]"
                      /\ \A j \in 1..Len(v) : v[j] # "bel"
    BY DEF HeldBack
  <2> HIDE DEF v, h, m
  <2>1. Len(v) # 0
    BY <1>4, EmptySeq
  <2>2. h # m + 1
    BY <1>1, <1>2, <1>4, <2>1
  <2>3. h + 1 <= m /\ h \in Nat /\ m \in Nat
    BY <1>1, <1>2, <1>3, <2>2
  <2>4. /\ Len(v) >= 2 /\ 1 \in 1..(m - h + 1) /\ 2 \in 1..(m - h + 1)
        /\ h + 1 - 1 = h /\ h + 2 - 1 = h + 1
    BY <1>4, <2>3
  <2>5. v[1] = "esc" /\ v[2] = "]"
    BY <1>3, <1>4, <2>2, <2>4
  <2>6. \A j \in 1..(m - h + 1) : h + j - 1 \in h..m
    BY <2>3
  <2>7. \A j \in 1..Len(v) : v[j] # "bel"
    BY <1>3, <1>4, <2>2, <2>6
  <2> QED
    BY <2>4, <2>5, <2>7
<1>8. \A p \in 1..M : d[p] \in Size =>
         /\ p - 2 \in 1..M /\ p + 1 \in 1..M
         /\ d[p - 2] = "esc" /\ d[p - 1] = "]" /\ d[p + 1] = "bel"
  BY DEF Stream
<1>9. ASSUME NEW i \in Matches(data)
      PROVE  /\ i \in Nat /\ i >= 1 /\ i + 3 <= m /\ i + 3 < h
             /\ data[i] = "esc" /\ data[i + 1] = "]" /\ data[i + 2] \in Size /\ data[i + 3] = "bel"
  <2>1. /\ i \in Nat /\ i >= 1 /\ i + 3 <= m
        /\ data[i] = "esc" /\ data[i + 1] = "]" /\ data[i + 2] \in Size /\ data[i + 3] = "bel"
    BY MatchIs
  <2>2. i + 3 < r
    BY <1>2
  <2> HIDE DEF h, r, m
  <2> QED
    BY <1>2, <2>1, <2>2
<1>10. ASSUME NEW p \in 1..M, d[p] \in Size
       PROVE  p + 1 < h \/ h <= p - 2
  <2> HIDE DEF d, M, m, r, h
  <2>1. /\ p - 2 \in 1..M /\ p + 1 \in 1..M /\ p \in Nat
        /\ d[p - 2] = "esc" /\ d[p - 1] = "]" /\ d[p + 1] = "bel"
    BY <1>1, <1>8, <1>10
  <2>2. CASE p + 1 <= m
    <3>1. p - 2 \in 1..m /\ p - 1 \in 1..m /\ p \in 1..m /\ p + 1 \in 1..m
      BY <1>1, <2>1, <2>2
    <3>2. data[p - 2] = "esc" /\ data[p - 1] = "]" /\ data[p] \in Size /\ data[p + 1] = "bel"
      BY <1>1, <1>10, <2>1, <3>1
    <3>3. /\ p - 2 \in Int /\ p - 2 >= 1 /\ p - 2 + 3 <= m
          /\ p - 2 + 1 = p - 1 /\ p - 2 + 2 = p /\ p - 2 + 3 = p + 1
      BY <2>1, <2>2
    <3>4. p - 2 \in Matches(data)
      BY <3>2, <3>3, MatchIs DEF m
    <3> QED
      BY <1>9, <3>3, <3>4
  <2>3. CASE p - 2 > m
    BY <1>1, <1>2, <2>1, <2>3
  <2>4. CASE p - 2 = m
    <3>1. m \in 1..m /\ data[m] = "esc"
      BY <1>1, <2>1, <2>4
    <3>2. M # m /\ Len(rest) # 0
      BY <1>1, <2>1, <2>4
    <3>3. rest # <<>>
      BY <3>2, EmptySeq
    <3> QED
      BY <3>1, <3>3 DEF m
  <2>5. CASE p - 2 < m /\ m < p + 1
    <3> DEFINE q == p - 2
    <3>1. q \in 1..(m - 1) /\ q + 1 \in 1..m /\ p = q + 2 /\ p - 1 = q + 1 /\ m <= q + 2
      BY <1>1, <2>1, <2>5
    <3> HIDE DEF q
    <3>2. data[q] = "esc" /\ data[q + 1] = "]" /\ (q + 2 \in 1..m => data[q + 2] \in Size)
      <4>1. q \in 1..m
        BY <1>1, <3>1
      <4> QED
        BY <1>1, <1>10, <2>1, <3>1, <4>1 DEF q
    <3>3. r <= q
      <4>1. CASE r = 1
        BY <3>1, <4>1
      <4>2. ASSUME NEW i \in Matches(data), r = i + 4
            PROVE  r <= q
        <5>1. /\ i \in Nat /\ i >= 1 /\ i + 3 <= m
              /\ data[i + 2] \in Size /\ data[i + 3] = "bel"
          BY <1>9
        <5>2. i + 3 \in 1..m
          BY <5>1
        <5>3. i + 3 # q /\ i + 3 # q + 1 /\ i + 3 # q + 2
          BY <3>2, <5>1, <5>2, Different
        <5> QED
          BY <1>1, <3>1, <4>2, <5>1, <5>3
      <4> QED
        BY <1>2, <4>1, <4>2
    <3>4. q \in r..(m - 1)
      BY <1>1, <1>2, <3>1, <3>3
    <3>5. \A j \in q..m : data[j] # "bel"
      <4>1. \A j \in q..m : j = q \/ j = q + 1 \/ (j = q + 2 /\ q + 2 \in 1..m)
        BY <1>1, <3>1
      <4> QED
        BY <3>2, <4>1, Different
    <3>6. \A k \in (q + 1)..(m - 1) : ~(data[k] = "esc" /\ data[k + 1] = "]")
      <4>1. \A k \in (q + 1)..(m - 1) : k = q + 1
        BY <1>1, <3>1
      <4> QED
        BY <3>2, <4>1
    <3>7. h = q
      BY <1>3, <3>2, <3>4, <3>5, <3>6
    <3> QED
      BY <1>2, <2>1, <3>1, <3>7 DEF q
  <2>6. p + 1 <= m \/ p - 2 > m \/ p - 2 = m \/ (p - 2 < m /\ m < p + 1)
    BY <1>1, <2>1
  <2> QED
    BY <2>2, <2>3, <2>4, <2>5, <2>6
<1>11. Stream(a)
  <2> SUFFICES ASSUME NEW p \in 1..Len(a), a[p] \in Size
               PROVE  /\ p - 2 \in 1..Len(a) /\ p + 1 \in 1..Len(a)
                      /\ a[p - 2] = "esc" /\ a[p - 1] = "]" /\ a[p + 1] = "bel"
    BY DEF Stream
  <2> HIDE DEF d, M, m, r, h, a, b, v
  <2>1. p \in 1..(h - 1) /\ p \in 1..m /\ p \in 1..M
    BY <1>1, <1>2, <1>4
  <2>2. d[p] \in Size
    BY <1>1, <1>4, <2>1
  <2>3. /\ p - 2 \in 1..M /\ p + 1 \in 1..M
        /\ d[p - 2] = "esc" /\ d[p - 1] = "]" /\ d[p + 1] = "bel"
    BY <1>8, <2>1, <2>2
  <2>4. p + 1 < h
    BY <1>1, <1>2, <1>10, <2>1, <2>2
  <2>5. /\ p - 2 \in 1..(h - 1) /\ p - 1 \in 1..(h - 1) /\ p + 1 \in 1..(h - 1)
        /\ p - 2 \in 1..m /\ p - 1 \in 1..m /\ p + 1 \in 1..m
    BY <1>1, <1>2, <2>1, <2>3, <2>4
  <2>6. a[p - 2] = d[p - 2] /\ a[p - 1] = d[p - 1] /\ a[p + 1] = d[p + 1]
    BY <1>1, <1>4, <2>5
  <2> QED
    BY <1>4, <2>3, <2>5, <2>6
<1>12. Stream(b)
  <2> SUFFICES ASSUME NEW j \in 1..Len(b), b[j] \in Size
               PROVE  /\ j - 2 \in 1..Len(b) /\ j + 1 \in 1..Len(b)
                      /\ b[j - 2] = "esc" /\ b[j - 1] = "]" /\ b[j + 1] = "bel"
    BY DEF Stream
  <2> DEFINE p == h - 1 + j
  <2>0. h \in Nat /\ h >= 1 /\ h <= m + 1 /\ m \in Nat /\ M \in Nat /\ m <= M
    BY <1>1, <1>2
  <2> HIDE DEF d, M, m, r, h, a, b, v
  <2>1. j \in 1..(M - h + 1) /\ p \in 1..M /\ j = p - h + 1
    BY <1>6, <2>0
  <2> HIDE DEF p
  <2>2. d[p] \in Size
    BY <1>6, <2>1 DEF p
  <2>3. /\ p - 2 \in 1..M /\ p + 1 \in 1..M
        /\ d[p - 2] = "esc" /\ d[p - 1] = "]" /\ d[p + 1] = "bel"
    BY <1>8, <2>1, <2>2
  <2>4. h <= p - 2
    <3>1. p >= h
      BY <2>0, <2>1
    <3>2. p + 1 < h \/ h <= p - 2
      BY <1>10, <2>1, <2>2
    <3> QED
      BY <2>0, <2>1, <3>1, <3>2
  <2>5. /\ j - 2 \in 1..(M - h + 1) /\ j - 1 \in 1..(M - h + 1) /\ j + 1 \in 1..(M - h + 1)
        /\ h - 1 + (j - 2) = p - 2 /\ h - 1 + (j - 1) = p - 1 /\ h - 1 + (j + 1) = p + 1
    BY <2>0, <2>1, <2>3, <2>4
  <2>6. b[j - 2] = d[p - 2] /\ b[j - 1] = d[p - 1] /\ b[j + 1] = d[p + 1]
    BY <1>6, <2>5
  <2> QED
    BY <1>6, <2>3, <2>5, <2>6
<1>13. Matches(a) = Matches(data)
  <2> HIDE DEF d, M, m, r, h, a, b, v
  <2>1. ASSUME NEW i \in Matches(a) PROVE i \in Matches(data)
    <3>1. /\ i \in Nat /\ i >= 1 /\ i + 3 <= h - 1
          /\ a[i] = "esc" /\ a[i + 1] = "]" /\ a[i + 2] \in Size /\ a[i + 3] = "bel"
      <4>1. Len(a) \in Nat /\ i \in 1..Len(a)
        BY <1>4, MatchIs
      <4>2. i \in Nat
        BY <4>1
      <4> QED
        BY <1>4, <4>2, MatchIs
    <3>2. i \in 1..(h - 1) /\ i + 1 \in 1..(h - 1) /\ i + 2 \in 1..(h - 1) /\ i + 3 \in 1..(h - 1)
      BY <1>1, <1>2, <3>1
    <3>3. data[i] = "esc" /\ data[i + 1] = "]" /\ data[i + 2] \in Size /\ data[i + 3] = "bel"
      BY <1>4, <3>1, <3>2
    <3>4. i \in Int /\ i >= 1 /\ i + 3 <= m
      BY <1>1, <1>2, <3>1
    <3> QED
      BY <3>3, <3>4, MatchIs DEF m
  <2>2. ASSUME NEW i \in Matches(data) PROVE i \in Matches(a)
    <3>1. /\ i \in Nat /\ i >= 1 /\ i + 3 <= m /\ i + 3 < h
          /\ data[i] = "esc" /\ data[i + 1] = "]" /\ data[i + 2] \in Size /\ data[i + 3] = "bel"
      BY <1>9
    <3>2. i \in 1..(h - 1) /\ i + 1 \in 1..(h - 1) /\ i + 2 \in 1..(h - 1) /\ i + 3 \in 1..(h - 1)
      BY <1>1, <1>2, <3>1
    <3>3. a[i] = "esc" /\ a[i + 1] = "]" /\ a[i + 2] \in Size /\ a[i + 3] = "bel"
      BY <1>4, <3>1, <3>2
    <3>4. i \in Int /\ i >= 1 /\ i + 3 <= Len(a)
      BY <1>4, <3>1, <3>2
    <3> QED
      BY <1>4, <3>3, <3>4, MatchIs
  <2> QED
    BY <2>1, <2>2
<1>14. PayloadOf(data) = Keys(a)
  <2> DEFINE I == (1..(h - 1)) \ InMatch(a)
  <2>1. InMatch(a) = InMatch(data)
    BY <1>13 DEF InMatch
  <2>2. I \in SUBSET (1..(h - 1)) /\ \A i \in I : a[i] = data[i]
    BY <1>1, <1>2, <1>4
  <2>3. h - 1 \in Nat
    BY <1>1, <1>2
  <2>4. Keys(a) = Pick(a, I)
    BY <1>4 DEF Keys
  <2>5. PayloadOf(data) = Pick(data, I)
    BY <2>1 DEF PayloadOf
  <2> HIDE DEF I, h, a, m, d, M, r, v, b
  <2>6. Pick(a, I) = Pick(data, I)
    BY <2>2, <2>3, PickSame
  <2> QED
    BY <2>4, <2>5, <2>6
<1>15. SizesOf(data) = SizesOf(a)
  <2> DEFINE I == {i + 2 : i \in Matches(data)}
  <2>1. \A k \in I : k \in 1..(h - 1)
    <3> SUFFICES ASSUME NEW i \in Matches(data)
                 PROVE  i + 2 \in 1..(h - 1)
      OBVIOUS
    <3>1. i \in Nat /\ i >= 1 /\ i + 3 <= m /\ i + 3 < h
      BY <1>9
    <3> QED
      BY <1>1, <1>2, <3>1
  <2>2. h - 1 \in Nat
    BY <1>1, <1>2
  <2>3. SizesOf(data) = Pick(data, I)
    BY DEF SizesOf
  <2>4. SizesOf(a) = Pick(a, I)
    BY <1>13 DEF SizesOf
  <2> HIDE DEF I, h, a, m, d, M, r, v, b
  <2>5. I \in SUBSET (1..(h - 1)) /\ \A k \in I : a[k] = data[k]
    BY <1>4, <2>1
  <2>6. Pick(a, I) = Pick(data, I)
    BY <2>2, <2>5, PickSame
  <2> QED
    BY <2>3, <2>4, <2>6
<1>16. Keys(d) = Keys(a) \o Keys(b) /\ SizesOf(d) = SizesOf(a) \o SizesOf(b)
  <2> HIDE DEF d, a, b, h, m, M, r, v
  <2> QED
    BY <1>4, <1>5, <1>6, <1>11, <1>12, StreamConcat
<1> QED
  BY <1>4, <1>7, <1>12, <1>14, <1>15, <1>16

-----------------------------------------------------------------------------
(* Type correctness *)

\* What a read splits its data into.
LEMMA SplitType ==
  ASSUME NEW data \in Seq(Byte)
  PROVE  /\ PayloadOf(data) \in Seq(Byte)
         /\ SizesOf(data) \in Seq(Size)
         /\ HeldOf(data) \in Seq(Byte)
<1>1. /\ Len(data) \in Nat /\ \A i \in 1..Len(data) : data[i] \in Byte
      /\ HeldFrom(data) \in 1..(Len(data) + 1)
  BY LenProperties, RestFromIs, HeldFromIs
<1>2. PayloadOf(data) \in Seq(Byte)
  <2> DEFINE I == (1..(HeldFrom(data) - 1)) \ InMatch(data)
  <2>1. I \in SUBSET (1..Len(data)) /\ \A i \in I : data[i] \in Byte
    BY <1>1
  <2>2. PayloadOf(data) = Pick(data, I)
    BY DEF PayloadOf
  <2> HIDE DEF I
  <2> QED
    BY <1>1, <2>1, <2>2, PickType
<1>3. SizesOf(data) \in Seq(Size)
  <2> DEFINE I == {i + 2 : i \in Matches(data)}
  <2>1. ASSUME NEW i \in Matches(data)
        PROVE  i + 2 \in 1..Len(data) /\ data[i + 2] \in Size
    <3>1. i \in Nat
      BY MatchIs
    <3>2. i >= 1 /\ i + 3 <= Len(data) /\ data[i + 2] \in Size
      BY <3>1, MatchIs
    <3> QED
      BY <1>1, <3>1, <3>2
  <2>2. I \in SUBSET (1..Len(data)) /\ \A i \in I : data[i] \in Size
    BY <2>1
  <2>3. SizesOf(data) = Pick(data, I)
    BY DEF SizesOf
  <2> HIDE DEF I
  <2> QED
    BY <1>1, <2>2, <2>3, PickType
<1>4. HeldOf(data) \in Seq(Byte)
  <2>1. /\ HeldFrom(data) \in Int /\ Len(data) \in Int
        /\ \A i \in HeldFrom(data)..Len(data) : data[i] \in Byte
    BY <1>1
  <2> QED
    BY <2>1, SubSeqProperties DEF HeldOf
<1> QED
  BY <1>2, <1>3, <1>4

\* The bytes of a script as the pseudo-console gets them.
Plain == Key \cup {"cr", "esc", "]", "bel"}

\* The positions that AsKeys keeps: not the LF of a CRLF.
Kept(data) == {i \in 1..Len(data) : ~(data[i] = "lf" /\ i > 1 /\ data[i - 1] = "cr")}

\* LF as CR.
AsCr(b) == IF b = "lf" THEN "cr" ELSE b

\* A translated script has no LF.
LEMMA AsKeysIs ==
  ASSUME NEW data \in Seq(Script)
  PROVE  /\ AsKeys(data) \in Seq(Plain)
         /\ Kept(data) \in SUBSET (1..Len(data))
         /\ Pick(data, Kept(data)) \in Seq(Script)
         /\ Len(AsKeys(data)) = Len(Pick(data, Kept(data)))
         /\ \A k \in 1..Len(AsKeys(data)) :
               AsKeys(data)[k] = AsCr(Pick(data, Kept(data))[k])
<1> DEFINE p == Pick(data, Kept(data))
           c == Cardinality(Kept(data))
<1>1. Len(data) \in Nat /\ \A i \in 1..Len(data) : data[i] \in Script
  BY LenProperties
<1>2. Kept(data) \in SUBSET (1..Len(data)) /\ \A i \in Kept(data) : data[i] \in Script
  BY <1>1 DEF Kept
<1>3. p \in Seq(Script) /\ Len(p) = c /\ c \in Nat
  BY <1>1, <1>2, PickType
<1>4. AsKeys(data) = [k \in 1..c |-> AsCr(p[k])]
  BY DEF AsKeys, AsCr, Kept
<1> HIDE DEF p, c
<1>5. \A k \in 1..c : AsCr(p[k]) \in Plain
  <2>1. \A k \in 1..c : p[k] \in Script
    BY <1>3, LenProperties
  <2> QED
    BY <2>1 DEF AsCr, Plain, Script
<1>6. AsKeys(data) \in [1..c -> Plain]
  BY <1>4, <1>5
<1>7. AsKeys(data) \in Seq(Plain) /\ Len(AsKeys(data)) = c
  BY <1>3, <1>6, SeqDef, LenProperties
<1> QED
  BY <1>2, <1>3, <1>4, <1>7 DEF p

\* What a read takes from a sequence, and what it leaves.
LEMMA TakeIs ==
  ASSUME NEW S, NEW s \in Seq(S), NEW n \in 1..Len(s)
  PROVE  /\ SubSeq(s, 1, n) \in Seq(S) /\ SubSeq(s, n + 1, Len(s)) \in Seq(S)
         /\ Len(SubSeq(s, 1, n)) = n /\ n \in Nat \ {0} /\ SubSeq(s, 1, n)[n] = s[n]
         /\ SubSeq(s, 1, n) # <<>>
         /\ SubSeq(s, 1, n) \o SubSeq(s, n + 1, Len(s)) = s
<1> DEFINE q == SubSeq(s, 1, n)
           t == SubSeq(s, n + 1, Len(s))
<1>1. Len(s) \in Nat /\ n \in Nat \ {0} /\ \A i \in 1..Len(s) : s[i] \in S
  BY LenProperties
<1>2. q \in Seq(S) /\ Len(q) = n /\ q[n] = s[n]
  <2>1. /\ 1 \in Int /\ n \in Int /\ 1 <= n /\ n - 1 + 1 = n
        /\ \A i \in 1..n : s[i] \in S
    BY <1>1
  <2>2. /\ q \in Seq(S) /\ Len(q) = IF 1 <= n THEN n - 1 + 1 ELSE 0
        /\ \A i \in 1..(n - 1 + 1) : q[i] = s[1 + i - 1]
    BY <2>1, SubSeqProperties
  <2>3. n \in 1..(n - 1 + 1) /\ 1 + n - 1 = n
    BY <1>1
  <2> HIDE DEF q
  <2>4. q[n] = s[1 + n - 1]
    BY <2>2, <2>3
  <2> QED
    BY <2>1, <2>2, <2>3, <2>4
<1>3. t \in Seq(S)
  <2>1. n + 1 \in Int /\ Len(s) \in Int /\ \A i \in (n + 1)..Len(s) : s[i] \in S
    BY <1>1
  <2> QED
    BY <2>1, SubSeqProperties
<1>4. q \o t = s
  <2>1. 1 \in 1..(Len(s) + 1) /\ n \in (1 - 1)..Len(s) /\ Len(s) \in n..Len(s)
    BY <1>1
  <2>2. q \o t = SubSeq(s, 1, Len(s))
    BY <2>1, ConcatAdjacentSubSeq
  <2> QED
    BY <2>2, SubSeqFull
<1>5. q # <<>>
  <2> HIDE DEF q
  <2> QED
    BY <1>1, <1>2, EmptySeq
<1> QED
  BY <1>1, <1>2, <1>3, <1>4, <1>5

\* The part of the script that a read takes, without the LF of a CRLF.
LEMMA ReadType ==
  ASSUME input \in Seq(Script), NEW n \in 1..Len(input)
  PROVE  WithoutSplitLf(SubSeq(input, 1, n)) \in Seq(Script)
<1> DEFINE r == SubSeq(input, 1, n)
<1>1. r \in Seq(Script) /\ r # <<>>
  BY TakeIs
<1> HIDE DEF r
<1>2. Tail(r) \in Seq(Script)
  BY <1>1, HeadTailProperties
<1>3. WithoutSplitLf(r) \in Seq(Script)
  BY <1>1, <1>2 DEF WithoutSplitLf
<1> QED
  BY <1>3 DEF r

\* What a read takes from the pipe, after what was held.
LEMMA DataType ==
  ASSUME pipe \in Seq(Byte), held \in Seq(Byte), NEW n \in 1..Len(pipe)
  PROVE  held \o SubSeq(pipe, 1, n) \in Seq(Byte)
<1>1. SubSeq(pipe, 1, n) \in Seq(Byte)
  BY TakeIs
<1> QED
  BY <1>1, ConcatProperties

\* A write adds at most its own place to those of the writes of no bytes ...
LEMMA SendType ==
  ASSUME NEW bytes, Send(bytes), TypeOK
  PROVE  empty' \subseteq Nat
<1>1. Len(pipe) \in Nat
  BY LenProperties DEF TypeOK
<1> QED
  BY <1>1 DEF Send, TypeOK

\* ... and a read leaves those it has not come to.
LEMMA TakeType ==
  ASSUME NEW n \in Nat, TakeBytes(n), TypeOK
  PROVE  empty' \subseteq Nat
<1>1. \A k \in empty : k \in Nat /\ (k >= n => k - n \in Nat)
  BY DEF TypeOK
<1> QED
  BY <1>1 DEF TakeBytes

\* The variables keep their types.
THEOREM TypeCorrect == Spec => []TypeOK
<1>1. Init => TypeOK
  <2> SUFFICES ASSUME Init PROVE TypeOK
    OBVIOUS
  <2>1. input \in Seq(Script)
    <3>1. \A n \in 0..MaxScript : n \in Nat
      BY BoundsAreNat
    <3>2. \A n \in 0..MaxScript : [1..n -> Script] \subseteq Seq(Script)
      BY <3>1, SeqDef
    <3>3. <<>> \in Seq(Script)
      BY EmptySeq
    <3> QED
      BY <3>2, <3>3 DEF Init
  <2> QED
    BY <2>1, EmptySeq DEF Init, TypeOK
<1>2. TypeOK /\ [Next]_vars => TypeOK'
  <2> SUFFICES ASSUME TypeOK, [Next]_vars PROVE TypeOK'
    OBVIOUS
  <2> USE DEF hostVars, relayVars
  <2>1. ASSUME NEW b \in Typed, Type(b) PROVE TypeOK'
    <3>1. <<b>> \in Seq(Byte) /\ b \in Typed \cup Script
      BY DEF Byte
    <3>2. pipe \o <<b>> \in Seq(Byte)
      BY <3>1, ConcatProperties DEF TypeOK
    <3> QED
      <4>1. empty' \subseteq Nat
        BY <2>1, SendType DEF Type
      <4> QED
        BY <2>1, <3>1, <3>2, <4>1 DEF Type, Send, TypeOK
  <2>2. ASSUME NEW s \in Size, Resize(s) PROVE TypeOK'
    <3>1. Request(s) \in Seq(Byte)
      BY DEF Request, Byte, Typed
    <3>2. pipe \o Request(s) \in Seq(Byte)
      BY <3>1, ConcatProperties DEF TypeOK
    <3> QED
      <4>1. empty' \subseteq Nat
        BY <2>2, SendType DEF Resize
      <4> QED
        BY <2>2, <3>2, <4>1 DEF Resize, Send, TypeOK
  <2>3. ASSUME NEW n \in 1..MaxScript, ReadStdin(n) PROVE TypeOK'
    <3> DEFINE r == SubSeq(input, 1, n)
               data == WithoutSplitLf(r)
    <3>1. r \in Seq(Script) /\ SubSeq(input, n + 1, Len(input)) \in Seq(Script) /\ data \in Seq(Script)
      <4>1. n \in 1..Len(input) /\ input \in Seq(Script)
        BY <2>3 DEF ReadStdin, TypeOK
      <4> QED
        BY <4>1, TakeIs, ReadType
    <3>2. AsKeys(data) \in Seq(Byte)
      <4> HIDE DEF data
      <4>1. AsKeys(data) \in Seq(Plain)
        BY <3>1, AsKeysIs
      <4>2. Plain \subseteq Byte
        BY DEF Plain, Script, Byte
      <4> QED
        BY <4>1, <4>2, SeqMonotonic
    <3>3. pipe \o AsKeys(data) \in Seq(Byte)
      <4> HIDE DEF data
      <4> QED
        BY <3>2, ConcatProperties DEF TypeOK
    <3>4. taken \o r \in Seq(Typed \cup Script)
      <4>1. r \in Seq(Typed \cup Script)
        <5> HIDE DEF r
        <5> QED
          BY <3>1, SeqMonotonic
      <4> HIDE DEF r
      <4> QED
        BY <4>1, ConcatProperties DEF TypeOK
    <3>5. /\ afterCr' \in BOOLEAN /\ pipe' = pipe \o AsKeys(data) /\ empty' \subseteq Nat
          /\ taken' = taken \o r /\ input' = SubSeq(input, n + 1, Len(input))
          /\ UNCHANGED <<piped, asked, ended, relayVars>>
      BY <2>3, SendType DEF ReadStdin, Send, TypeOK
    <3> QED
      BY <3>1, <3>3, <3>4, <3>5 DEF TypeOK
  <2>4. ASSUME StdinEnds \/ ConsoleEnds \/ ShellEnds PROVE TypeOK'
    BY <2>4 DEF StdinEnds, ConsoleEnds, ShellEnds, TypeOK
  <2>5. ASSUME NEW n \in 1..Len(pipe), RelayRead(n) \/ RelayBreaks(n) PROVE TypeOK'
    <3> DEFINE data == held \o SubSeq(pipe, 1, n)
    <3>1. data \in Seq(Byte) /\ SubSeq(pipe, n + 1, Len(pipe)) \in Seq(Byte)
      BY TakeIs, DataType DEF TypeOK
    <3>2. /\ PayloadOf(data) \in Seq(Byte) /\ SizesOf(data) \in Seq(Size)
          /\ HeldOf(data) \in Seq(Byte)
      <4> HIDE DEF data
      <4> QED
        BY <3>1, SplitType
    <3>3. PayloadOf(data) \in Seq(Byte \cup {"exit"})
      <4> HIDE DEF data
      <4> QED
        BY <3>2, SeqMonotonic
    <3>4. shell \o PayloadOf(data) \in Seq(Byte \cup {"exit"}) /\ sizes \o SizesOf(data) \in Seq(Size)
      <4> HIDE DEF data
      <4> QED
        BY <3>2, <3>3, ConcatProperties DEF TypeOK
    <3>3a. /\ pipe' = SubSeq(pipe, n + 1, Len(pipe)) /\ empty' \subseteq Nat
      <4>1. TakeBytes(n) /\ n \in Nat
        BY <2>5 DEF RelayRead, RelayBreaks
      <4> QED
        BY <4>1, TakeType DEF TakeBytes, TypeOK
    <3>5. CASE RelayRead(n)
      BY <3>1, <3>2, <3>3a, <3>4, <3>5 DEF RelayRead, TypeOK
    <3>6. CASE RelayBreaks(n)
      BY <3>1, <3>2, <3>3a, <3>6 DEF RelayBreaks, TypeOK
    <3> QED
      BY <2>5, <3>5, <3>6
  <2>6. ASSUME RelayEnds \/ RelayCutShort PROVE TypeOK'
    <3>1. Append(shell, "exit") \in Seq(Byte \cup {"exit"})
      BY DEF TypeOK
    <3>2. shell' \in {shell, Append(shell, "exit")} /\ over' = TRUE /\ cutShort' \in {cutShort, TRUE}
      BY <2>6 DEF RelayEnds, RelayCutShort
    <3>3. UNCHANGED <<hostVars, pipe, empty, held, sizes, gone>>
      BY <2>6 DEF RelayEnds, RelayCutShort
    <3> QED
      BY <3>1, <3>2, <3>3 DEF TypeOK
  <2>7. CASE UNCHANGED vars
    BY <2>7 DEF vars, TypeOK
  <2> QED
    BY <2>1, <2>2, <2>3, <2>4, <2>5, <2>6, <2>7 DEF Next, PumpStep, RelayStep
<1> QED
  BY <1>1, <1>2, PTL DEF Spec

-----------------------------------------------------------------------------
(* What is typed *)

\* Without a match, all is for the shell.
LEMMA NoMatches ==
  ASSUME NEW d \in Seq(Byte), Matches(d) = {}
  PROVE  InMatch(d) = {} /\ Keys(d) = d /\ SizesOf(d) = <<>>
<1>1. InMatch(d) = {}
  BY DEF InMatch
<1>2. (1..Len(d)) \ InMatch(d) = 1..Len(d) /\ {i + 2 : i \in Matches(d)} = {}
  BY <1>1
<1> QED
  BY <1>1, <1>2, PickAll, PickNone DEF Keys, SizesOf

\* A key is a stream by itself ...
LEMMA KeyIsStream ==
  ASSUME NEW b \in Typed
  PROVE  /\ <<b>> \in Seq(Byte) /\ Stream(<<b>>)
         /\ Keys(<<b>>) = <<b>> /\ SizesOf(<<b>>) = <<>>
<1> DEFINE d == <<b>>
<1>1. d \in Seq(Byte) /\ Len(d) = 1 /\ d[1] = b
  BY DEF Byte
<1> HIDE DEF d
<1>2. Stream(d)
  BY <1>1, Different DEF Stream
<1>3. Matches(d) = {}
  <2>1. Matches(d) \in SUBSET (1..1)
    BY <1>1, MatchIs
  <2>2. \A i \in Int : i \in Matches(d) => i + 3 <= 1
    BY <1>1, MatchIs
  <2> QED
    BY <2>1, <2>2
<1>4. Keys(d) = d /\ SizesOf(d) = <<>>
  BY <1>1, <1>3, NoMatches
<1> QED
  BY <1>1, <1>2, <1>4 DEF d

\* ... and so is a request.
LEMMA RequestIsStream ==
  ASSUME NEW s \in Size
  PROVE  /\ Request(s) \in Seq(Byte) /\ Stream(Request(s))
         /\ Keys(Request(s)) = <<>> /\ SizesOf(Request(s)) = <<s>>
<1> DEFINE d == Request(s)
<1>1. /\ d \in Seq(Byte) /\ Len(d) = 4
      /\ d[1] = "esc" /\ d[2] = "]" /\ d[3] = s /\ d[4] = "bel"
  BY DEF Request, Byte, Typed
<1> HIDE DEF d
<1>2. \A p \in 1..4 : p = 1 \/ p = 2 \/ p = 3 \/ p = 4
  OBVIOUS
<1>3. Stream(d)
  <2>1. \A p \in 1..4 : d[p] \in Size => p = 3
    BY <1>1, <1>2, Different
  <2>2. /\ 3 - 2 = 1 /\ 3 - 1 = 2 /\ 3 + 1 = 4
    OBVIOUS
  <2> QED
    BY <1>1, <2>1, <2>2 DEF Stream
<1>4. Matches(d) = {1}
  <2>1. \A i \in Matches(d) : i = 1
    <3>1. \A i \in Matches(d) : i \in 1..4 /\ i + 3 <= 4
      BY <1>1, MatchIs
    <3> QED
      BY <3>1
  <2>2. 1 \in Matches(d)
    <3>1. 1 + 1 = 2 /\ 1 + 2 = 3 /\ 1 + 3 = 4 /\ 1 \in Int /\ 1 >= 1 /\ 4 <= 4
      OBVIOUS
    <3> QED
      BY <1>1, <3>1, MatchIs
  <2> QED
    BY <2>1, <2>2
<1>5. Keys(d) = <<>>
  <2>1. InMatch(d) = 1..4
    BY <1>4 DEF InMatch
  <2>2. (1..Len(d)) \ InMatch(d) = {}
    BY <1>1, <2>1
  <2> QED
    BY <2>2, PickNone DEF Keys
<1>6. SizesOf(d) = <<s>>
  <2>1. {i + 2 : i \in Matches(d)} = {3}
    BY <1>4
  <2>2. {3} \in SUBSET (1..4) /\ {3} \cap (1..3) = {3} /\ 4 \in Nat
    OBVIOUS
  <2>3. Cardinality({3}) = 1 /\ Rank({3}, 3) = 1
    BY <2>2, FS_Singleton DEF Rank
  <2>4. <<s>> \in Seq(Size) /\ Len(<<s>>) = 1 /\ <<s>>[1] = s
    OBVIOUS
  <2>5. Pick(d, {3}) = <<s>>
    BY <1>1, <2>2, <2>3, <2>4, IsPick
  <2> QED
    BY <2>1, <2>5 DEF SizesOf
<1> QED
  BY <1>1, <1>3, <1>5, <1>6 DEF d

\* What is held back has no match.
LEMMA HeldHasNone ==
  ASSUME NEW d \in Seq(Byte), HeldBack(d)
  PROVE  Keys(d) = d /\ SizesOf(d) = <<>>
<1>1. Matches(d) = {}
  <2> SUFFICES ASSUME NEW i \in Matches(d) PROVE FALSE
    OBVIOUS
  <2>1. i \in 1..Len(d) /\ Len(d) \in Nat
    BY MatchIs
  <2>2. i + 3 <= Len(d) /\ d[i + 3] = "bel"
    BY <2>1, MatchIs
  <2>3. d # <<>> /\ i + 3 \in 1..Len(d)
    BY <2>1, <2>2, EmptySeq
  <2> QED
    BY <2>2, <2>3 DEF HeldBack
<1> QED
  BY <1>1, NoMatches

\* ... and begins as a request does.
LEMMA HeldBegins ==
  ASSUME NEW d \in Seq(Byte), HeldBack(d), d # <<>>
  PROVE  SubSeq(d, 1, 2) = <<"esc", "]">>
<1>1. Len(d) >= 2 /\ Len(d) \in Nat /\ d[1] = "esc" /\ d[2] = "]"
  BY LenProperties DEF HeldBack
<1>2. \A i \in 1..2 : d[i] \in Byte
  <2>1. \A i \in 1..2 : i \in 1..Len(d)
    BY <1>1
  <2> QED
    BY <2>1, ElementOfSeq
<1> DEFINE w == SubSeq(d, 1, 2)
<1>3. /\ w \in Seq(Byte) /\ Len(w) = IF 1 <= 2 THEN 2 - 1 + 1 ELSE 0
      /\ \A i \in 1..(2 - 1 + 1) : w[i] = d[1 + i - 1]
  BY <1>2, SubSeqProperties
<1> HIDE DEF w
<1>4. Len(w) = 2 /\ w[1] = "esc" /\ w[2] = "]"
  BY <1>1, <1>3
<1>5. w = <<"esc", "]">>
  BY <1>3, <1>4
<1> QED
  BY <1>5 DEF w

\* Held and in the pipe is a stream, and what the shell got together with what
\* the stream has for it is what was typed.
StreamInv ==
  ~piped /\ ~over /\ ~gone =>
    /\ Stream(held \o pipe) /\ HeldBack(held)
    /\ taken = shell \o Keys(held \o pipe)
    /\ asked = sizes \o SizesOf(held \o pipe)

\* The stream holds its keys and sizes in order.
LEMMA StreamType ==
  ASSUME NEW d \in Seq(Byte)
  PROVE  Keys(d) \in Seq(Byte) /\ SizesOf(d) \in Seq(Size)
<1>1. Len(d) \in Nat /\ \A i \in 1..Len(d) : d[i] \in Byte
  BY LenProperties
<1>2. (1..Len(d)) \ InMatch(d) \in SUBSET (1..Len(d))
  OBVIOUS
<1>3. Keys(d) \in Seq(Byte)
  BY <1>1, <1>2, PickType DEF Keys
<1> QED
  BY <1>3, SplitType

\* What comes after the keys and sizes so far.
LEMMA StreamAdds ==
  ASSUME NEW d \in Seq(Byte), NEW b \in Seq(Byte), Stream(d), Stream(b),
         NEW sh \in Seq(Byte \cup {"exit"}), NEW sz \in Seq(Size)
  PROVE  /\ sh \o Keys(d \o b) = (sh \o Keys(d)) \o Keys(b)
         /\ sz \o SizesOf(d \o b) = (sz \o SizesOf(d)) \o SizesOf(b)
<1> DEFINE X == Byte \cup {"exit"}
<1>1. Keys(d \o b) = Keys(d) \o Keys(b) /\ SizesOf(d \o b) = SizesOf(d) \o SizesOf(b)
  BY StreamConcat
<1>2. Keys(d) \in Seq(X) /\ Keys(b) \in Seq(X) /\ sh \in Seq(X)
  <2>1. Keys(d) \in Seq(Byte) /\ Keys(b) \in Seq(Byte) /\ Byte \subseteq X
    BY StreamType
  <2> HIDE DEF X
  <2>2. Keys(d) \in Seq(X) /\ Keys(b) \in Seq(X)
    BY <2>1, SeqMonotonic
  <2> QED
    BY <2>2 DEF X
<1> HIDE DEF X
<1>3. (sh \o Keys(d)) \o Keys(b) = sh \o (Keys(d) \o Keys(b))
  BY <1>2, ConcatAssociative
<1>4. SizesOf(d) \in Seq(Size) /\ SizesOf(b) \in Seq(Size)
  BY StreamType
<1>5. (sz \o SizesOf(d)) \o SizesOf(b) = sz \o (SizesOf(d) \o SizesOf(b))
  BY <1>4, ConcatAssociative
<1> QED
  BY <1>1, <1>3, <1>5

\* Writing a key or a request to the pipe adds it to the stream.
LEMMA StreamGrows ==
  ASSUME TypeOK, StreamInv, ~piped, ~over, ~gone,
         NEW b \in Seq(Byte), Stream(b),
         taken' = taken \o Keys(b), asked' = asked \o SizesOf(b), pipe' = pipe \o b,
         UNCHANGED <<held, shell, sizes>>
  PROVE  StreamInv'
<1> DEFINE d == held \o pipe
<1>1. d \in Seq(Byte) /\ d \o b = held \o (pipe \o b)
  <2>1. held \in Seq(Byte) /\ pipe \in Seq(Byte)
    BY DEF TypeOK
  <2> QED
    BY <2>1, ConcatProperties, ConcatAssociative
<1>2. Stream(d) /\ HeldBack(held) /\ taken = shell \o Keys(d) /\ asked = sizes \o SizesOf(d)
  BY DEF StreamInv
<1> HIDE DEF d
<1>3. Stream(d \o b)
  BY <1>1, <1>2, StreamConcat
<1>4. taken' = shell \o Keys(d \o b) /\ asked' = sizes \o SizesOf(d \o b)
  <2>1. shell \in Seq(Byte \cup {"exit"}) /\ sizes \in Seq(Size)
    BY DEF TypeOK
  <2>2. /\ shell \o Keys(d \o b) = (shell \o Keys(d)) \o Keys(b)
        /\ sizes \o SizesOf(d \o b) = (sizes \o SizesOf(d)) \o SizesOf(b)
    BY <1>1, <1>2, <2>1, StreamAdds
  <2> QED
    BY <1>2, <2>2
<1>5. (held \o pipe)' = d \o b /\ held' = held /\ shell' = shell /\ sizes' = sizes
  BY <1>1
<1> QED
  BY <1>2, <1>3, <1>4, <1>5 DEF StreamInv

\* A read of the relay takes the shell's part from the stream.
LEMMA StreamRead ==
  ASSUME ~CutsEscape, TypeOK, StreamInv, ~piped,
         NEW n \in 1..Len(pipe), RelayRead(n)
  PROVE  StreamInv'
<1> DEFINE data == held \o SubSeq(pipe, 1, n)
           rest == SubSeq(pipe, n + 1, Len(pipe))
           X == Byte \cup {"exit"}
<1>1. /\ ~over /\ ~gone /\ (n = Len(pipe) \/ pipe[n] # "esc")
      /\ shell' = shell \o PayloadOf(data) /\ sizes' = sizes \o SizesOf(data)
      /\ held' = HeldOf(data) /\ pipe' = rest
      /\ taken' = taken /\ asked' = asked
  BY DEF RelayRead, TakeBytes, hostVars
<1>2. /\ data \in Seq(Byte) /\ rest \in Seq(Byte)
      /\ SubSeq(pipe, 1, n) \in Seq(Byte) /\ Len(SubSeq(pipe, 1, n)) = n /\ n \in Nat \ {0}
      /\ SubSeq(pipe, 1, n)[n] = pipe[n] /\ SubSeq(pipe, 1, n) \o rest = pipe
  BY TakeIs, DataType DEF TypeOK
<1>3. data \o rest = held \o pipe
  <2> DEFINE q == SubSeq(pipe, 1, n)
  <2>1. held \in Seq(Byte) /\ q \in Seq(Byte) /\ rest \in Seq(Byte)
    BY <1>2 DEF TypeOK
  <2>2. q \o rest = pipe
    BY <1>2
  <2> HIDE DEF rest, q
  <2>3. (held \o q) \o rest = held \o (q \o rest)
    BY <2>1, ConcatAssociative
  <2> QED
    BY <2>2, <2>3 DEF q
<1>4. rest = <<>> \/ data[Len(data)] # "esc"
  <2>1. CASE n = Len(pipe)
    <3>1. n + 1 \in Int /\ n < n + 1 /\ n \in Int
      BY <1>2
    <3> QED
      BY <2>1, <3>1, SubSeqEmpty
  <2>2. CASE pipe[n] # "esc"
    <3> DEFINE q == SubSeq(pipe, 1, n)
    <3>1. held \in Seq(Byte) /\ Len(held) \in Nat
      BY LenProperties DEF TypeOK
    <3>2. q[n] = pipe[n]
      BY <1>2
    <3> HIDE DEF q
    <3>3. /\ Len(held \o q) = Len(held) + n
          /\ (held \o q)[Len(held) + n] = q[n]
      <4>1. q \in Seq(Byte) /\ Len(q) = n
        BY <1>2 DEF q
      <4>2. /\ Len(held) + n \in 1..(Len(held) + Len(q)) /\ ~(Len(held) + n <= Len(held))
            /\ Len(held) + n - Len(held) = n
        BY <1>2, <3>1, <4>1
      <4>3. /\ Len(held \o q) = Len(held) + Len(q)
            /\ \A i \in 1..(Len(held) + Len(q)) :
                  (held \o q)[i] = IF i <= Len(held) THEN held[i] ELSE q[i - Len(held)]
        BY <3>1, <4>1, ConcatProperties
      <4> QED
        BY <4>1, <4>2, <4>3
    <3> QED
      BY <2>2, <3>2, <3>3 DEF q
  <2> QED
    BY <1>1, <2>1, <2>2
<1>5. Stream(data \o rest) /\ taken = shell \o Keys(data \o rest) /\ asked = sizes \o SizesOf(data \o rest)
  BY <1>1, <1>3 DEF StreamInv
<1> HIDE DEF data, rest
<1>6. /\ HeldBack(HeldOf(data)) /\ Stream(HeldOf(data) \o rest)
      /\ Keys(data \o rest) = PayloadOf(data) \o Keys(HeldOf(data) \o rest)
      /\ SizesOf(data \o rest) = SizesOf(data) \o SizesOf(HeldOf(data) \o rest)
  BY <1>2, <1>4, <1>5, ReadSplits
<1>7. /\ PayloadOf(data) \in Seq(Byte) /\ SizesOf(data) \in Seq(Size)
      /\ Keys(HeldOf(data) \o rest) \in Seq(Byte) /\ SizesOf(HeldOf(data) \o rest) \in Seq(Size)
  <2>1. PayloadOf(data) \in Seq(Byte) /\ SizesOf(data) \in Seq(Size) /\ HeldOf(data) \in Seq(Byte)
    BY <1>2, SplitType
  <2>2. HeldOf(data) \o rest \in Seq(Byte)
    BY <1>2, <2>1, ConcatProperties
  <2> QED
    BY <2>1, <2>2, StreamType
<1>8. taken = (shell \o PayloadOf(data)) \o Keys(HeldOf(data) \o rest)
  <2>1. Byte \subseteq X /\ shell \in Seq(X)
    BY DEF TypeOK
  <2> HIDE DEF X
  <2>2. PayloadOf(data) \in Seq(X) /\ Keys(HeldOf(data) \o rest) \in Seq(X)
    BY <1>7, <2>1, SeqMonotonic
  <2> DEFINE k == Keys(HeldOf(data) \o rest)
             y == PayloadOf(data)
  <2>3. shell \in Seq(X) /\ y \in Seq(X) /\ k \in Seq(X)
    BY <2>1, <2>2
  <2>4. taken = shell \o (y \o k)
    BY <1>5, <1>6
  <2> HIDE DEF k, y
  <2>5. (shell \o y) \o k = shell \o (y \o k)
    BY <2>3, ConcatAssociative
  <2> QED
    BY <2>4, <2>5 DEF k, y
<1>9. asked = (sizes \o SizesOf(data)) \o SizesOf(HeldOf(data) \o rest)
  <2> DEFINE k == SizesOf(HeldOf(data) \o rest)
             y == SizesOf(data)
  <2>1. sizes \in Seq(Size) /\ y \in Seq(Size) /\ k \in Seq(Size)
    BY <1>7 DEF TypeOK
  <2>2. asked = sizes \o (y \o k)
    BY <1>5, <1>6
  <2> HIDE DEF k, y
  <2>3. (sizes \o y) \o k = sizes \o (y \o k)
    BY <2>1, ConcatAssociative
  <2> QED
    BY <2>2, <2>3 DEF k, y
<1> QED
  BY <1>1, <1>6, <1>8, <1>9 DEF StreamInv

\* The keys and sizes of a console session all arrive, in order, wherever the
\* reads cut the stream, if not right after an ESC that the buffer's limit
\* parts from its ].
THEOREM KeysArrive ==
  ASSUME ~CutsEscape
  PROVE  Spec => []KeysIntact
<1>1. Init => StreamInv
  <2> SUFFICES ASSUME Init PROVE StreamInv
    OBVIOUS
  <2>1. /\ held \o pipe = <<>> /\ held = <<>> /\ taken = <<>> /\ shell = <<>>
        /\ asked = <<>> /\ sizes = <<>>
    BY DEF Init
  <2>2. <<>> \in Seq(Byte) /\ Stream(<<>>) /\ HeldBack(<<>>)
    BY EmptySeq DEF Stream, HeldBack
  <2>3. Keys(<<>>) = <<>> /\ SizesOf(<<>>) = <<>>
    BY <2>2, HeldHasNone
  <2>4. <<>> \o <<>> = <<>>
    OBVIOUS
  <2> QED
    BY <2>1, <2>2, <2>3, <2>4 DEF StreamInv
<1>2. TypeOK /\ StreamInv /\ [Next]_vars => StreamInv'
  <2> SUFFICES ASSUME TypeOK, StreamInv, [Next]_vars PROVE StreamInv'
    OBVIOUS
  <2>1. ASSUME NEW b \in Typed, Type(b) PROVE StreamInv'
    <3>1. /\ ~piped /\ taken' = taken \o <<b>> /\ asked' = asked /\ pipe' = pipe \o <<b>>
          /\ UNCHANGED <<held, shell, sizes, over, gone, piped>>
      BY <2>1 DEF Type, Send, relayVars, TypeOK
    <3>2. CASE ~over /\ ~gone
      <4>1. asked \o <<>> = asked
        BY DEF TypeOK
      <4>2. /\ <<b>> \in Seq(Byte) /\ Stream(<<b>>)
            /\ Keys(<<b>>) = <<b>> /\ SizesOf(<<b>>) = <<>>
        BY KeyIsStream
      <4> QED
        BY <3>1, <3>2, <4>1, <4>2, StreamGrows
    <3> QED
      BY <3>1, <3>2 DEF StreamInv
  <2>2. ASSUME NEW s \in Size, Resize(s) PROVE StreamInv'
    <3>1. /\ ~piped /\ taken' = taken /\ asked' = asked \o <<s>> /\ pipe' = pipe \o Request(s)
          /\ UNCHANGED <<held, shell, sizes, over, gone, piped>>
      BY <2>2 DEF Resize, Send, relayVars, TypeOK
    <3>2. CASE ~over /\ ~gone
      <4>1. taken \o <<>> = taken
        BY DEF TypeOK
      <4>2. /\ Request(s) \in Seq(Byte) /\ Stream(Request(s))
            /\ Keys(Request(s)) = <<>> /\ SizesOf(Request(s)) = <<s>>
        BY RequestIsStream
      <4> QED
        BY <3>1, <3>2, <4>1, <4>2, StreamGrows
    <3> QED
      BY <3>1, <3>2 DEF StreamInv
  <2>3. ASSUME NEW n \in 1..Len(pipe), RelayRead(n) PROVE StreamInv'
    <3>1. CASE piped
      BY <2>3, <3>1 DEF RelayRead, TakeBytes, hostVars, StreamInv
    <3>2. CASE ~piped
      BY <2>3, <3>2, StreamRead
    <3> QED
      BY <3>1, <3>2
  <2>4. ASSUME NEW n \in 1..MaxScript, ReadStdin(n) PROVE StreamInv'
    BY <2>4 DEF ReadStdin, StreamInv
  <2>5. ASSUME NEW n \in 1..Len(pipe), RelayBreaks(n) PROVE StreamInv'
    BY <2>5 DEF RelayBreaks, StreamInv
  <2>6. ASSUME RelayEnds \/ RelayCutShort \/ ShellEnds PROVE StreamInv'
    BY <2>6 DEF RelayEnds, RelayCutShort, ShellEnds, StreamInv
  <2>7. ASSUME StdinEnds \/ ConsoleEnds \/ UNCHANGED vars PROVE StreamInv'
    <3>1. UNCHANGED <<piped, over, gone, held, pipe, taken, shell, asked, sizes>>
      BY <2>7 DEF StdinEnds, ConsoleEnds, vars, hostVars, relayVars
    <3> QED
      BY <3>1 DEF StreamInv
  <2> QED
    BY <2>1, <2>2, <2>3, <2>4, <2>5, <2>6, <2>7 DEF Next, PumpStep, RelayStep
<1>3. TypeOK /\ StreamInv => KeysIntact
  <2> SUFFICES ASSUME TypeOK, StreamInv, ~piped, ~over, ~gone, pipe = <<>>
               PROVE  /\ shell \o held = taken /\ sizes = asked
                      /\ held # <<>> => SubSeq(held, 1, 2) = <<"esc", "]">>
    BY DEF KeysIntact
  <2>1. held \in Seq(Byte) /\ held \o pipe = held
    BY DEF TypeOK
  <2>2. HeldBack(held) /\ taken = shell \o Keys(held) /\ asked = sizes \o SizesOf(held)
    BY <2>1 DEF StreamInv
  <2>3. Keys(held) = held /\ SizesOf(held) = <<>>
    BY <2>1, <2>2, HeldHasNone
  <2>4. sizes \o <<>> = sizes
    BY DEF TypeOK
  <2>5. ASSUME held # <<>> PROVE SubSeq(held, 1, 2) = <<"esc", "]">>
    BY <2>1, <2>2, <2>5, HeldBegins
  <2> QED
    BY <2>2, <2>3, <2>4, <2>5
<1> QED
  BY <1>1, <1>2, <1>3, TypeCorrect, PTL DEF Spec

-----------------------------------------------------------------------------
(* What is piped *)

\* Without a size there is no match: what of a translated script is not held
\* back goes to the shell.
LEMMA PlainSplit ==
  ASSUME NEW data \in Seq(Plain)
  PROVE  /\ PayloadOf(data) \in Seq(Plain) /\ HeldOf(data) \in Seq(Plain)
         /\ PayloadOf(data) \o HeldOf(data) = data
         /\ HeldBack(HeldOf(data))
<1> DEFINE m == Len(data)
           h == HeldFrom(data)
           a == SubSeq(data, 1, h - 1)
           v == HeldOf(data)
<1>1. data \in Seq(Byte) /\ m \in Nat /\ \A i \in 1..m : data[i] \in Plain
  <2>1. Plain \subseteq Byte
    BY DEF Plain, Byte, Script
  <2> QED
    BY <2>1, SeqMonotonic, LenProperties
<1>2. Matches(data) = {}
  <2> SUFFICES ASSUME NEW i \in Matches(data) PROVE FALSE
    OBVIOUS
  <2>1. i \in 1..m
    BY <1>1, MatchIs
  <2>2. i + 2 \in 1..m /\ data[i + 2] \in Size
    <3>1. i \in Int /\ i >= 1 /\ i + 3 <= m /\ data[i + 2] \in Size
      BY <1>1, <2>1, MatchIs
    <3> QED
      BY <1>1, <3>1
  <2>3. Size \cap Plain = {}
    BY BytesDiffer DEF Plain
  <2> QED
    BY <1>1, <2>2, <2>3
<1>3. /\ RestFrom(data) = 1 /\ h \in 1..(m + 1)
      /\ h # m + 1 => /\ h + 1 <= m /\ data[h] = "esc" /\ data[h + 1] = "]"
                      /\ \A j \in h..m : data[j] # "bel"
  BY <1>1, <1>2, RestFromIs, HeldFromIs
<1>4. /\ a \in Seq(Plain) /\ Len(a) = h - 1 /\ \A i \in 1..(h - 1) : a[i] = data[i]
      /\ v \in Seq(Plain) /\ Len(v) = m - h + 1 /\ \A i \in 1..(m - h + 1) : v[i] = data[h + i - 1]
  <2>1. h \in Int /\ h - 1 \in Int /\ m \in Int /\ 1 \in Int
    BY <1>1, <1>3
  <2>2. (\A i \in 1..(h - 1) : data[i] \in Plain) /\ (\A i \in h..m : data[i] \in Plain)
    BY <1>1, <1>3
  <2> HIDE DEF h, m
  <2>3. /\ a \in Seq(Plain)
        /\ Len(a) = IF 1 <= h - 1 THEN h - 1 - 1 + 1 ELSE 0
        /\ \A i \in 1..(h - 1 - 1 + 1) : a[i] = data[1 + i - 1]
    BY <2>1, <2>2, SubSeqProperties
  <2>4. /\ v \in Seq(Plain)
        /\ Len(v) = IF h <= m THEN m - h + 1 ELSE 0
        /\ \A i \in 1..(m - h + 1) : v[i] = data[h + i - 1]
    BY <2>1, <2>2, SubSeqProperties DEF HeldOf, h, m
  <2>5. h - 1 - 1 + 1 = h - 1 /\ h >= 1 /\ h <= m + 1
    BY <1>3, <2>1 DEF h, m
  <2>6. \A i \in 1..(h - 1) : 1 + i - 1 = i
    BY <2>1
  <2> HIDE DEF a, v
  <2> QED
    BY <2>1, <2>3, <2>4, <2>5, <2>6
<1>5. a \o v = data
  <2>1. 1 \in 1..(m + 1) /\ h - 1 \in (1 - 1)..m /\ m \in (h - 1)..m /\ h - 1 + 1 = h
    BY <1>1, <1>3
  <2>2. SubSeq(data, 1, h - 1) \o SubSeq(data, h - 1 + 1, m) = SubSeq(data, 1, m)
    BY <2>1, ConcatAdjacentSubSeq
  <2>3. SubSeq(data, 1, m) = data
    BY SubSeqFull
  <2> QED
    BY <2>1, <2>2, <2>3 DEF HeldOf
<1>6. PayloadOf(data) = a
  <2>1. PayloadOf(data) = Pick(data, 1..(h - 1))
    <3>1. InMatch(data) = {}
      BY <1>1, <1>2, NoMatches
    <3>2. (1..(h - 1)) \ InMatch(data) = 1..(h - 1)
      BY <3>1
    <3> QED
      BY <3>2 DEF PayloadOf
  <2>2. 1..(h - 1) \in SUBSET (1..m)
    BY <1>1, <1>3
  <2> HIDE DEF a, h, m
  <2>3. Pick(data, 1..(h - 1)) = Pick(a, 1..(h - 1))
    BY <1>1, <1>4, <2>2, PickSame
  <2>4. Pick(a, 1..Len(a)) = a
    BY <1>4, PickAll
  <2> QED
    BY <1>4, <2>1, <2>3, <2>4
<1>7. HeldBack(v)
  <2> SUFFICES ASSUME v # <<>>
               PROVE  /\ Len(v) >= 2 /\ v[1] = "esc" /\ v[2] = "]"
                      /\ \A j \in 1..Len(v) : v[j] # "bel"
    BY DEF HeldBack
  <2>1. h # m + 1
    <3> HIDE DEF v, h, m
    <3>1. Len(v) # 0
      BY <1>4, EmptySeq
    <3> QED
      BY <1>1, <1>3, <1>4, <3>1
  <2>2. /\ 1 \in 1..(m - h + 1) /\ 2 \in 1..(m - h + 1) /\ h + 1 - 1 = h /\ h + 2 - 1 = h + 1
        /\ \A j \in 1..(m - h + 1) : h + j - 1 \in h..m
    BY <1>1, <1>3, <2>1
  <2> HIDE DEF v, h, m
  <2> QED
    BY <1>3, <1>4, <2>1, <2>2
<1> HIDE DEF a
<1> QED
  BY <1>4, <1>5, <1>6, <1>7

\* The last byte of two sequences is that of the second.
LEMMA LastOfTwo ==
  ASSUME NEW S, NEW a \in Seq(S), NEW r \in Seq(S), r # <<>>
  PROVE  a \o r # <<>> /\ Last(a \o r) = Last(r)
<1>1. Len(a) \in Nat /\ Len(r) \in Nat \ {0}
  BY LenProperties, EmptySeq
<1>2. /\ Len(a \o r) = Len(a) + Len(r)
      /\ \A i \in 1..(Len(a) + Len(r)) :
            (a \o r)[i] = IF i <= Len(a) THEN a[i] ELSE r[i - Len(a)]
  BY ConcatProperties
<1>3. /\ Len(a) + Len(r) \in 1..(Len(a) + Len(r)) /\ ~(Len(a) + Len(r) <= Len(a))
      /\ Len(a) + Len(r) - Len(a) = Len(r)
  BY <1>1
<1>4. (a \o r)[Len(a) + Len(r)] = r[Len(r)]
  BY <1>2, <1>3
<1>5. a \o r # <<>>
  BY <1>1, <1>2, EmptySeq
<1> QED
  BY <1>2, <1>4, <1>5 DEF Last

\* What is left of r after a: not the LF of a CRLF that is cut in two.
LeftAfter(a, r) == IF a # <<>> /\ Last(a) = "cr" /\ r[1] = "lf" THEN Tail(r) ELSE r

\* A script translated in two parts is what it would be in one, when the
\* second part begins without the LF of a CRLF that is cut in two.
LEMMA AsKeysConcat ==
  ASSUME NEW a \in Seq(Script), NEW r \in Seq(Script), r # <<>>
  PROVE  /\ AsKeys(a \o r) = AsKeys(a) \o AsKeys(LeftAfter(a, r))
         /\ a \o r # <<>>
         /\ Last(a \o r) = "cr" <=> LeftAfter(a, r) # <<>> /\ Last(LeftAfter(a, r)) = "cr"
<1> DEFINE n == Len(a)
           m == Len(r)
           d == a \o r
           cut == (a # <<>> /\ Last(a) = "cr") /\ r[1] = "lf"
           J == IF cut THEN Kept(r) \ {1} ELSE Kept(r)
           t == Tail(r)
           data == LeftAfter(a, r)
<1>0. data = IF cut THEN t ELSE r
  BY DEF LeftAfter
<1>1. /\ n \in Nat /\ m \in Nat \ {0} /\ d \in Seq(Script) /\ Len(d) = n + m
      /\ \A i \in 1..n : d[i] = a[i]
      /\ \A j \in 1..m : d[n + j] = r[j]
  BY LenProperties, EmptySeq, ConcatProperties
<1>2. t \in Seq(Script) /\ Len(t) = m - 1 /\ \A i \in 1..(m - 1) : t[i] = r[i + 1]
  BY HeadTailProperties
<1> HIDE DEF data, t
<1>3. d # <<>> /\ Last(d) = r[m]
  BY LastOfTwo DEF Last
<1>4. (Last(d) = "cr") <=> (data # <<>> /\ Last(data) = "cr")
  <2>1. CASE ~cut
    BY <1>0, <1>3, <2>1 DEF Last
  <2>2. CASE cut
    <3> HIDE DEF cut, d, n, m
    <3>1. data = t /\ r[1] = "lf"
      BY <1>0, <2>2 DEF cut
    <3>2. CASE m = 1
      <4>1. t = <<>>
        BY <1>2, <3>2, EmptySeq
      <4> QED
        BY <1>3, <3>1, <3>2, <4>1
    <3>3. CASE m # 1
      <4>1. m - 1 \in 1..(m - 1) /\ m - 1 + 1 = m /\ m - 1 # 0
        BY <1>1, <3>3
      <4>2. t[m - 1] = r[m] /\ t # <<>>
        BY <1>2, <4>1, EmptySeq
      <4> QED
        BY <1>2, <1>3, <3>1, <4>2 DEF Last
    <3> QED
      BY <3>2, <3>3
  <2> QED
    BY <2>1, <2>2
<1>5. /\ Kept(a) \in SUBSET (1..n)
      /\ \A i \in 1..n : i \in Kept(a) <=> ~(a[i] = "lf" /\ i > 1 /\ a[i - 1] = "cr")
  BY DEF Kept
<1>6. /\ J \in SUBSET (1..m)
      /\ \A j \in 1..m : j \in J <=> /\ ~(r[j] = "lf" /\ j > 1 /\ r[j - 1] = "cr")
                                     /\ ~(j = 1 /\ cut)
  BY DEF Kept
<1>7. Kept(d) = Both(n, Kept(a), J)
  <2>1. \A k \in 1..(n + m) : k \in Kept(d) <=> ~(d[k] = "lf" /\ k > 1 /\ d[k - 1] = "cr")
    BY <1>1 DEF Kept
  <2>2. Kept(d) \in SUBSET (1..(n + m))
    BY <1>1 DEF Kept
  <2>3. cut <=> (n # 0 /\ a[n] = "cr" /\ r[1] = "lf")
    <3>1. a # <<>> <=> n # 0
      BY EmptySeq
    <3> QED
      BY <3>1 DEF Last
  <2> HIDE DEF n, m, d, cut, J
  <2>4. \A k \in 1..n : k \in Kept(d) <=> k \in Kept(a)
    <3> SUFFICES ASSUME NEW k \in 1..n PROVE k \in Kept(d) <=> k \in Kept(a)
      OBVIOUS
    <3>1. k \in 1..(n + m) /\ d[k] = a[k] /\ (k > 1 => k - 1 \in 1..n)
      BY <1>1
    <3>2. k > 1 => d[k - 1] = a[k - 1]
      BY <1>1, <3>1
    <3> QED
      BY <1>5, <2>1, <3>1, <3>2
  <2>5. \A j \in 1..m : n + j \in Kept(d) <=> j \in J
    <3> SUFFICES ASSUME NEW j \in 1..m PROVE n + j \in Kept(d) <=> j \in J
      OBVIOUS
    <3>1. n + j \in 1..(n + m) /\ d[n + j] = r[j]
      BY <1>1
    <3>2. CASE j = 1
      <4>1. n + j - 1 = n /\ (n + j > 1 <=> n # 0) /\ (n # 0 => n \in 1..n) /\ ~(j > 1)
        BY <1>1, <3>2
      <4>2. n # 0 => d[n + j - 1] = a[n]
        BY <1>1, <4>1
      <4>3. n + j \in Kept(d) <=> ~(r[1] = "lf" /\ n # 0 /\ a[n] = "cr")
        BY <2>1, <3>1, <3>2, <4>1, <4>2
      <4>4. j \in J <=> ~cut
        BY <1>6, <3>2, <4>1
      <4> QED
        BY <2>3, <4>3, <4>4
    <3>3. CASE j # 1
      <4>1. n + j - 1 = n + (j - 1) /\ j - 1 \in 1..m /\ n + j > 1 /\ j > 1 /\ n \in Nat /\ j \in Nat
        BY <1>1, <3>3
      <4>2. d[n + j - 1] = r[j - 1]
        BY <1>1, <4>1
      <4> DEFINE k == n + j
      <4>3. k \in 1..(n + m) /\ d[k] = r[j] /\ k > 1 /\ d[k - 1] = r[j - 1]
        BY <3>1, <4>1, <4>2
      <4> HIDE DEF k
      <4>4. k \in Kept(d) <=> ~(r[j] = "lf" /\ r[j - 1] = "cr")
        BY <2>1, <4>3
      <4>5. n + j \in Kept(d) <=> ~(r[j] = "lf" /\ r[j - 1] = "cr")
        BY <4>4 DEF k
      <4>6. j \in J <=> ~(r[j] = "lf" /\ r[j - 1] = "cr")
        BY <1>6, <3>3, <4>1
      <4> QED
        BY <4>5, <4>6
    <3> QED
      BY <3>2, <3>3
  <2>6. \A k \in 1..(n + m) : k \in 1..n \/ (k - n \in 1..m /\ k = n + (k - n))
    BY <1>1
  <2>7. \A k \in Kept(d) : k \in Kept(a) \/ k \in Shift(n, J)
    BY <2>2, <2>4, <2>5, <2>6 DEF Shift
  <2>8. \A k \in Kept(a) : k \in Kept(d)
    BY <1>5, <2>4
  <2>9. \A j \in J : n + j \in Kept(d)
    BY <1>6, <2>5
  <2> QED
    BY <2>7, <2>8, <2>9 DEF Shift, Both
<1>8. data \in Seq(Script) /\ Pick(r, J) = Pick(data, Kept(data))
  <2>1. CASE ~cut
    BY <1>0, <2>1
  <2>2. CASE cut
    <3>1. data = t /\ r[1] = "lf"
      BY <1>0, <2>2
    <3>2. Kept(t) \in SUBSET (1..(m - 1))
      BY <1>2 DEF Kept
    <3>3. \A i \in 1..(m - 1) : i \in Kept(t) <=> ~(t[i] = "lf" /\ i > 1 /\ t[i - 1] = "cr")
      BY <1>2 DEF Kept
    <3> DEFINE u == <<r[1]>>
    <3> HIDE DEF u, n, m, d, cut, J
    <3>5. \A i \in 1..(m - 1) : i \in Kept(t) <=> 1 + i \in J
      <4> SUFFICES ASSUME NEW i \in 1..(m - 1) PROVE i \in Kept(t) <=> 1 + i \in J
        OBVIOUS
      <4>1. 1 + i \in 1..m /\ 1 + i > 1 /\ 1 + i # 1 /\ i + 1 = 1 + i /\ 1 + i - 1 = i /\ i \in Nat
        BY <1>1
      <4>2. t[i] = r[1 + i]
        BY <1>2, <4>1
      <4>3. 1 + i \in J <=> ~(t[i] = "lf" /\ r[i] = "cr")
        BY <1>6, <4>1, <4>2
      <4>4. CASE i = 1
        BY <3>1, <3>3, <4>3, <4>4
      <4>5. CASE i # 1
        <5>1. i > 1 /\ i - 1 \in 1..(m - 1) /\ i - 1 + 1 = i
          BY <1>1, <4>1, <4>5
        <5>2. t[i - 1] = r[i]
          BY <1>2, <5>1
        <5> QED
          BY <3>3, <4>3, <5>1, <5>2
      <4> QED
        BY <4>4, <4>5
    <3>6. J = Both(1, {}, Kept(t))
      <4>1. \A j \in J : j \in 1..m /\ j # 1
        BY <1>6, <2>2
      <4>2. \A j \in J : j - 1 \in 1..(m - 1) /\ j = 1 + (j - 1)
        BY <1>1, <4>1
      <4>3. \A j \in J : j \in Shift(1, Kept(t))
        BY <3>5, <4>2 DEF Shift
      <4>4. \A i \in Kept(t) : 1 + i \in J
        BY <3>2, <3>5
      <4> QED
        BY <4>3, <4>4 DEF Shift, Both
    <3>7. Pick(r, Both(1, {}, Kept(t))) = Cat(Pick(u, {}), Pick(t, Kept(t)))
      <4>1. Joined(r, u, 1, t, m - 1)
        <5>1. \A i \in 1..(m - 1) : i + 1 = 1 + i
          BY <1>1
        <5>2. r[1] = u[1] /\ \A i \in 1..1 : i = 1
          BY DEF u
        <5> QED
          BY <1>2, <5>1, <5>2 DEF Joined
      <4>2. {} \in SUBSET (1..1) /\ Kept(t) \in SUBSET (1..(m - 1)) /\ m - 1 \in Nat /\ 1 \in Nat
        BY <1>1, <3>2
      <4> QED
        BY <4>1, <4>2, PickConcat
    <3>8. <<>> \o Pick(t, Kept(t)) = Pick(t, Kept(t))
      BY <1>2, AsKeysIs, ConcatEmptySeq
    <3> QED
      BY <1>2, <3>1, <3>6, <3>7, <3>8, PickNone DEF Cat
  <2> QED
    BY <2>1, <2>2
<1>9. Pick(d, Kept(d)) = Cat(Pick(a, Kept(a)), Pick(data, Kept(data)))
  <2>1. Pick(d, Both(n, Kept(a), J)) = Cat(Pick(a, Kept(a)), Pick(r, J))
    <3> HIDE DEF n, m, d, J
    <3>1. Joined(d, a, n, r, m)
      BY <1>1 DEF Joined
    <3>2. n \in Nat /\ m \in Nat /\ Kept(a) \in SUBSET (1..n) /\ J \in SUBSET (1..m)
      BY <1>1, <1>5, <1>6
    <3> QED
      BY <3>1, <3>2, PickConcat
  <2> HIDE DEF J, d, n
  <2> QED
    BY <1>7, <1>8, <2>1
<1>10. AsKeys(d) = AsKeys(a) \o AsKeys(data)
  <2> DEFINE p == Pick(a, Kept(a))
             q == Pick(data, Kept(data))
             x == AsKeys(a)
             y == AsKeys(data)
             z == AsKeys(d)
  <2>1. /\ z \in Seq(Plain) /\ Len(z) = Len(p \o q)
        /\ \A k \in 1..Len(z) : z[k] = AsCr((p \o q)[k])
    BY <1>1, <1>9, AsKeysIs DEF Cat
  <2>2. /\ p \in Seq(Script) /\ x \in Seq(Plain) /\ Len(x) = Len(p)
        /\ \A k \in 1..Len(x) : x[k] = AsCr(p[k])
    BY AsKeysIs
  <2>3. /\ q \in Seq(Script) /\ y \in Seq(Plain) /\ Len(y) = Len(q)
        /\ \A k \in 1..Len(y) : y[k] = AsCr(q[k])
    BY <1>8, AsKeysIs
  <2> HIDE DEF p, q, x, y, z
  <2>4. /\ Len(p) \in Nat /\ Len(q) \in Nat /\ Len(p \o q) = Len(p) + Len(q)
        /\ \A k \in 1..(Len(p) + Len(q)) :
              (p \o q)[k] = IF k <= Len(p) THEN p[k] ELSE q[k - Len(p)]
    BY <2>2, <2>3, LenProperties, ConcatProperties
  <2>5. /\ x \o y \in Seq(Plain) /\ Len(x \o y) = Len(p) + Len(q)
        /\ \A k \in 1..(Len(p) + Len(q)) :
              (x \o y)[k] = IF k <= Len(p) THEN x[k] ELSE y[k - Len(p)]
    <3>1. x \in Seq(Plain) /\ y \in Seq(Plain) /\ Len(x) = Len(p) /\ Len(y) = Len(q)
      BY <2>2, <2>3
    <3>2. /\ x \o y \in Seq(Plain) /\ Len(x \o y) = Len(x) + Len(y)
          /\ \A k \in 1..(Len(x) + Len(y)) :
                (x \o y)[k] = IF k <= Len(x) THEN x[k] ELSE y[k - Len(x)]
      BY <3>1, ConcatProperties
    <3> QED
      BY <3>1, <3>2
  <2>6. ASSUME NEW k \in 1..(Len(p) + Len(q)) PROVE z[k] = (x \o y)[k]
    <3>1. CASE k <= Len(p)
      <4>1. k \in 1..Len(x) /\ k \in 1..Len(z)
        BY <2>1, <2>2, <2>4, <3>1
      <4> QED
        BY <2>1, <2>2, <2>4, <2>5, <3>1, <4>1
    <3>2. CASE ~(k <= Len(p))
      <4>1. k - Len(p) \in 1..Len(y) /\ k \in 1..Len(z)
        BY <2>1, <2>3, <2>4, <3>2
      <4> QED
        BY <2>1, <2>3, <2>4, <2>5, <3>2, <4>1
    <3> QED
      BY <3>1, <3>2
  <2>7. z = x \o y
    BY <2>1, <2>4, <2>5, <2>6, SeqEqual
  <2> QED
    BY <2>7 DEF x, y, z
<1> QED
  BY <1>3, <1>4, <1>10 DEF data

\* The empty script.
LEMMA AsKeysNone == AsKeys(<<>>) = <<>>
<1>1. <<>> \in Seq(Script) /\ Len(<<>>) = 0
  BY EmptySeq
<1>2. Kept(<<>>) = {}
  BY <1>1 DEF Kept
<1>3. AsKeys(<<>>) \in Seq(Plain) /\ Len(AsKeys(<<>>)) = 0
  BY <1>1, <1>2, AsKeysIs, PickNone
<1> QED
  BY <1>3, EmptySeq

\* Plain bytes after what the shell has got.
LEMMA PlainAdds ==
  ASSUME NEW sh \in Seq(Byte \cup {"exit"}), NEW p \in Seq(Plain), NEW q \in Seq(Plain)
  PROVE  (sh \o p) \o q = sh \o (p \o q)
<1> DEFINE X == Byte \cup {"exit"}
<1>1. Plain \subseteq X
  BY DEF Plain, Byte, Script
<1> HIDE DEF X
<1>2. p \in Seq(X) /\ q \in Seq(X)
  BY <1>1, SeqMonotonic
<1>3. sh \in Seq(X)
  BY DEF X
<1> QED
  BY <1>2, <1>3, ConcatAssociative

\* Front undoes Append.
LEMMA FrontOfAppend ==
  ASSUME NEW S, NEW s \in Seq(S), NEW e \in S
  PROVE  /\ Front(Append(s, e)) = s /\ Last(Append(s, e)) = e
<1> DEFINE t == Append(s, e)
<1>1. /\ t \in Seq(S) /\ Len(t) = Len(s) + 1 /\ Len(s) \in Nat
      /\ \A i \in 1..Len(s) : t[i] = s[i]
      /\ t[Len(s) + 1] = e
  BY AppendProperties, LenProperties
<1> HIDE DEF t
<1>2. Front(t) = SubSeq(t, 1, Len(s))
  <2>1. Len(t) - 1 = Len(s)
    BY <1>1
  <2> QED
    BY <2>1 DEF Front
<1>3. SubSeq(t, 1, Len(s)) = s
  <2> DEFINE n == Len(s)
             w == SubSeq(t, 1, n)
  <2>1. 1 \in Int /\ n \in Int /\ \A i \in 1..n : t[i] \in S
    BY <1>1, LenProperties
  <2>2. /\ w \in Seq(S) /\ Len(w) = IF 1 <= n THEN n - 1 + 1 ELSE 0
        /\ \A i \in 1..(n - 1 + 1) : w[i] = t[1 + i - 1]
    <3> HIDE DEF n
    <3> QED
      BY <2>1, SubSeqProperties
  <2> HIDE DEF w
  <2>3. Len(w) = Len(s) /\ \A i \in 1..Len(s) : w[i] = s[i]
    BY <1>1, <2>2
  <2>4. w = s
    BY <2>2, <2>3, SeqEqual
  <2> QED
    BY <2>4 DEF w
<1>4. Last(t) = e
  BY <1>1 DEF Last
<1> QED
  BY <1>2, <1>3, <1>4 DEF t

\* What the relay writes.
Output == Byte \cup {"exit"}

\* What the shell got, what is held and what is in the pipe.
Whole(got, h, p) == got \o (h \o p)

\* More in the pipe.
LEMMA WholeGrows ==
  ASSUME NEW got \in Seq(Byte \cup {"exit"}),
         NEW h \in Seq(Plain), NEW p \in Seq(Plain), NEW q \in Seq(Plain)
  PROVE  Whole(got, h, p \o q) = Whole(got, h, p) \o q
<1>1. h \o p \in Seq(Plain) /\ (h \o p) \o q = h \o (p \o q)
  BY ConcatProperties, ConcatAssociative
<1>2. (got \o (h \o p)) \o q = got \o ((h \o p) \o q)
  BY <1>1, PlainAdds
<1> QED
  BY <1>1, <1>2 DEF Whole

\* Plain bytes are joined in any order.
LEMMA PlainAssociative ==
  ASSUME NEW x \in Seq(Plain), NEW y \in Seq(Plain), NEW z \in Seq(Plain)
  PROVE  x \o (y \o z) = (x \o y) \o z
  BY ConcatAssociative

\* A read moves bytes from the pipe to the shell, and what it holds is what
\* it took and did not give.
LEMMA WholeStays ==
  ASSUME NEW got \in Seq(Output),
         NEW h \in Seq(Plain), NEW q \in Seq(Plain), NEW r \in Seq(Plain),
         NEW a \in Seq(Plain), NEW v \in Seq(Plain), Cat(a, v) = Cat(h, q)
  PROVE  Whole(Cat(got, a), v, r) = Whole(got, h, Cat(q, r))
<1>1. v \o r \in Seq(Plain)
  BY ConcatProperties
<1>2. (got \o a) \o (v \o r) = got \o (a \o (v \o r))
  BY <1>1, PlainAdds DEF Output
<1>3. a \o (v \o r) = (a \o v) \o r
  BY PlainAssociative
<1>4. h \o (q \o r) = (h \o q) \o r
  BY PlainAssociative
<1>5. a \o (v \o r) = h \o (q \o r)
  <2>1. a \o (v \o r) = Cat(a, v) \o r /\ h \o (q \o r) = Cat(h, q) \o r
    BY <1>3, <1>4 DEF Cat
  <2> QED
    BY <2>1
<1> QED
  BY <1>2, <1>5 DEF Whole, Cat

\* Until the shell is gone, it has got what was read of the script, translated
\* as one, but for what is held back or in the pipe, and afterCr says what was
\* read last.
ScriptInv ==
  piped =>
    /\ pipe \in Seq(Plain) /\ held \in Seq(Plain) /\ HeldBack(held) /\ taken \in Seq(Script)
    /\ afterCr <=> taken # <<>> /\ Last(taken) = "cr"
    /\ ended => input = <<>>
    /\ ~gone =>
         /\ Whole(Delivered, held, pipe) = AsKeys(taken)
         /\ Delivered \in Seq(Byte \cup {"exit"})
         /\ over => Last(shell) = "exit" /\ (cutShort \/ (ended /\ pipe = <<>>))

\* A read of the script adds to the pipe what it adds to the translation.
LEMMA ScriptRead ==
  ASSUME TypeOK, ScriptInv, NEW n \in Nat, ReadStdin(n)
  PROVE  ScriptInv'
<1> DEFINE r == SubSeq(input, 1, n)
           data == WithoutSplitLf(r)
           k == AsKeys(data)
<1>1. /\ piped /\ piped' = piped /\ n \in 1..Len(input)
      /\ pipe' = pipe \o k /\ taken' = taken \o r
      /\ afterCr' <=> data # <<>> /\ Last(data) = "cr"
      /\ ended' = ended /\ held' = held /\ over' = over /\ shell' = shell
      /\ cutShort' = cutShort /\ gone' = gone
  BY DEF ReadStdin, Send, relayVars
<1>2. /\ pipe \in Seq(Plain) /\ held \in Seq(Plain) /\ HeldBack(held) /\ taken \in Seq(Script)
      /\ afterCr <=> taken # <<>> /\ Last(taken) = "cr"
      /\ ended => input = <<>>
  BY <1>1 DEF ScriptInv
<1>3. r \in Seq(Script) /\ r # <<>> /\ data \in Seq(Script)
  <2>1. input \in Seq(Script)
    BY DEF TypeOK
  <2> QED
    BY <1>1, <2>1, TakeIs, ReadType
<1>4. ~ended
  <2>1. Len(<<>>) = 0
    BY EmptySeq
  <2>2. Len(input) # 0
    BY <1>1
  <2> QED
    BY <1>2, <2>1, <2>2
<1> HIDE DEF r
<1>5. data = LeftAfter(taken, r)
  BY <1>2 DEF WithoutSplitLf, LeftAfter
<1> HIDE DEF data
<1>6. /\ AsKeys(taken \o r) = AsKeys(taken) \o k
      /\ taken \o r # <<>> /\ (Last(taken \o r) = "cr" <=> data # <<>> /\ Last(data) = "cr")
  BY <1>2, <1>3, <1>5, AsKeysConcat
<1>7. k \in Seq(Plain)
  BY <1>3, AsKeysIs
<1> HIDE DEF k
<1>8. pipe \o k \in Seq(Plain) /\ taken \o r \in Seq(Script)
  BY <1>2, <1>3, <1>7, ConcatProperties
<1>9. Delivered' = Delivered
  BY <1>1 DEF Delivered
<1>10. ~gone => /\ Whole(Delivered, held, pipe \o k) = AsKeys(taken \o r)
                /\ Delivered \in Seq(Byte \cup {"exit"})
                /\ over => Last(shell) = "exit" /\ cutShort
  <2> SUFFICES ASSUME ~gone
               PROVE  /\ Whole(Delivered, held, pipe \o k) = AsKeys(taken \o r)
                      /\ Delivered \in Seq(Byte \cup {"exit"})
                      /\ over => Last(shell) = "exit" /\ cutShort
    OBVIOUS
  <2>1. /\ Whole(Delivered, held, pipe) = AsKeys(taken)
        /\ Delivered \in Seq(Byte \cup {"exit"})
        /\ over => Last(shell) = "exit" /\ cutShort
    BY <1>1, <1>4 DEF ScriptInv
  <2>2. Whole(Delivered, held, pipe \o k) = Whole(Delivered, held, pipe) \o k
    BY <1>2, <1>7, <2>1, WholeGrows
  <2> QED
    BY <1>6, <2>1, <2>2
<1>11. Whole(Delivered, held, pipe)' = Whole(Delivered, held, pipe \o k)
  BY <1>1, <1>9 DEF Whole
<1>12. HeldBack(held)'
  BY <1>1, <1>2
<1> QED
  BY <1>1, <1>2, <1>4, <1>6, <1>8, <1>9, <1>10, <1>11, <1>12 DEF ScriptInv

\* A read of the relay gives all it takes to the shell, or holds it back.
LEMMA ScriptRelayed ==
  ASSUME TypeOK, ScriptInv, piped, NEW n \in 1..Len(pipe), RelayRead(n) \/ RelayBreaks(n)
  PROVE  ScriptInv'
<1> DEFINE q == SubSeq(pipe, 1, n)
           rest == SubSeq(pipe, n + 1, Len(pipe))
           data == held \o q
<1>1. pipe \in Seq(Plain) /\ held \in Seq(Plain)
  BY DEF ScriptInv
<1>2. q \in Seq(Plain) /\ rest \in Seq(Plain) /\ q \o rest = pipe
  BY <1>1, TakeIs
<1>3. data \in Seq(Plain)
  <2> HIDE DEF q
  <2> QED
    BY <1>1, <1>2, ConcatProperties
<1>4. /\ PayloadOf(data) \in Seq(Plain) /\ HeldOf(data) \in Seq(Plain)
      /\ PayloadOf(data) \o HeldOf(data) = data
      /\ HeldBack(HeldOf(data))
  <2> HIDE DEF data
  <2> QED
    BY <1>3, PlainSplit
<1>5. /\ pipe' = rest /\ held' = HeldOf(data) /\ ~over
      /\ RelayRead(n) => ~gone /\ over' = over /\ shell' = shell \o PayloadOf(data)
      /\ RelayBreaks(n) => gone
      /\ UNCHANGED <<piped, input, taken, afterCr, ended, cutShort, gone>>
  BY DEF RelayRead, RelayBreaks, TakeBytes, hostVars
<1>6. HeldBack(held)'
  BY <1>4, <1>5
<1>7. ~gone => /\ ~over' /\ shell' \in Seq(Byte \cup {"exit"})
               /\ Whole(shell', held', rest) = AsKeys(taken)
  <2> SUFFICES ASSUME ~gone
               PROVE  /\ ~over' /\ shell' \in Seq(Byte \cup {"exit"})
                      /\ Whole(shell', held', rest) = AsKeys(taken)
    OBVIOUS
  <2>1. ~over' /\ shell' = shell \o PayloadOf(data) /\ Whole(shell, held, pipe) = AsKeys(taken)
    BY <1>5 DEF ScriptInv, Delivered
  <2>2. shell \in Seq(Byte \cup {"exit"})
    BY DEF TypeOK
  <2>3. PayloadOf(data) \in Seq(Byte \cup {"exit"})
    <3>1. Plain \subseteq Byte \cup {"exit"}
      BY DEF Plain, Byte, Script
    <3> HIDE DEF data
    <3> QED
      BY <1>4, <3>1, SeqMonotonic
  <2>4. shell \o PayloadOf(data) \in Seq(Byte \cup {"exit"})
    <3> HIDE DEF data
    <3> QED
      BY <2>2, <2>3, ConcatProperties
  <2>5. Cat(PayloadOf(data), HeldOf(data)) = Cat(held, q)
    BY <1>4 DEF Cat
  <2> HIDE DEF data, q, rest
  <2>6. Whole(Cat(shell, PayloadOf(data)), HeldOf(data), rest) = Whole(shell, held, Cat(q, rest))
    <3>1. /\ held \in Seq(Plain) /\ q \in Seq(Plain) /\ rest \in Seq(Plain)
          /\ PayloadOf(data) \in Seq(Plain) /\ HeldOf(data) \in Seq(Plain)
      BY <1>1, <1>2, <1>4
    <3>2. shell \in Seq(Output)
      BY <2>2 DEF Output
    <3> QED
      BY <2>5, <3>1, <3>2, WholeStays
  <2>7. Cat(shell, PayloadOf(data)) = shell' /\ Cat(q, rest) = pipe
    BY <1>2, <2>1 DEF Cat
  <2> QED
    BY <1>5, <2>1, <2>4, <2>6, <2>7
<1>8. ~over' => Delivered' = shell'
  BY DEF Delivered
<1>9. ~gone => Whole(Delivered, held, pipe)' = AsKeys(taken)
  BY <1>5, <1>7, <1>8 DEF Whole
<1> HIDE DEF data, q, rest
<1> QED
  BY <1>2, <1>4, <1>5, <1>6, <1>7, <1>8, <1>9 DEF ScriptInv

\* Nothing of a script is lost or moved, however it is read and relayed, its
\* line ends are translated as if it were read at once, and `exit` comes after
\* it, as long as the shell is there; what the shell does not get is held back
\* from an ESC ] on, or comes after a write of no bytes that ended the relay.
THEOREM ScriptArrives == Spec => []ScriptIntact
<1>1. Init => ScriptInv
  <2> SUFFICES ASSUME Init PROVE ScriptInv
    OBVIOUS
  <2>1. /\ pipe = <<>> /\ held = <<>> /\ taken = <<>> /\ shell = <<>>
        /\ ~afterCr /\ ~ended /\ ~over
    BY DEF Init
  <2>2. /\ <<>> \in Seq(Plain) /\ <<>> \in Seq(Script) /\ <<>> \in Seq(Byte \cup {"exit"})
        /\ <<>> \o <<>> = <<>>
    BY EmptySeq
  <2>3. HeldBack(<<>>)
    BY DEF HeldBack
  <2>4. Delivered = <<>>
    BY <2>1 DEF Delivered
  <2>5. Whole(Delivered, held, pipe) = <<>>
    BY <2>1, <2>2, <2>4 DEF Whole
  <2> QED
    BY <2>1, <2>2, <2>3, <2>4, <2>5, AsKeysNone DEF ScriptInv
<1>2. TypeOK /\ ScriptInv /\ [Next]_vars => ScriptInv'
  <2> SUFFICES ASSUME TypeOK, ScriptInv, [Next]_vars PROVE ScriptInv'
    OBVIOUS
  <2>1. ASSUME NEW b \in Typed, Type(b) PROVE ScriptInv'
    BY <2>1 DEF Type, ScriptInv
  <2>2. ASSUME NEW s \in Size, Resize(s) PROVE ScriptInv'
    BY <2>2 DEF Resize, ScriptInv
  <2>3. ASSUME NEW n \in 1..MaxScript, ReadStdin(n) PROVE ScriptInv'
    <3>1. n \in Nat
      BY BoundsAreNat
    <3> QED
      BY <2>3, <3>1, ScriptRead
  <2>4. ASSUME NEW n \in 1..Len(pipe), RelayRead(n) \/ RelayBreaks(n) PROVE ScriptInv'
    <3>1. CASE piped
      BY <2>4, <3>1, ScriptRelayed
    <3>2. CASE ~piped
      BY <2>4, <3>2 DEF RelayRead, RelayBreaks, hostVars, ScriptInv
    <3> QED
      BY <3>1, <3>2
  <2>5. ASSUME RelayEnds PROVE ScriptInv'
    <3>1. /\ ~over /\ ended /\ pipe = <<>> /\ over' = TRUE
          /\ shell' = IF gone THEN shell ELSE Append(shell, "exit")
          /\ UNCHANGED <<piped, input, taken, afterCr, ended, pipe, cutShort, held, gone>>
      BY <2>5 DEF RelayEnds, hostVars
    <3>2. shell \in Seq(Byte \cup {"exit"}) /\ "exit" \in Byte \cup {"exit"}
      BY DEF TypeOK
    <3>3. Front(Append(shell, "exit")) = shell /\ Last(Append(shell, "exit")) = "exit"
      BY <3>2, FrontOfAppend
    <3>4. ~gone => Delivered' = Delivered /\ Last(shell') = "exit"
      BY <3>1, <3>3 DEF Delivered
    <3>5. ~gone => Whole(Delivered, held, pipe)' = Whole(Delivered, held, pipe)
      BY <3>1, <3>4 DEF Whole
    <3>6. HeldBack(held)' <=> HeldBack(held)
      BY <3>1
    <3> QED
      BY <3>1, <3>4, <3>5, <3>6 DEF ScriptInv
  <2>6. ASSUME RelayCutShort PROVE ScriptInv'
    <3>1. /\ cutShort' /\ ~over /\ over'
          /\ shell' = IF gone THEN shell ELSE Append(shell, "exit")
          /\ UNCHANGED <<piped, input, taken, afterCr, ended, pipe, held, gone>>
      BY <2>6 DEF RelayCutShort, hostVars
    <3>2. shell \in Seq(Byte \cup {"exit"}) /\ "exit" \in Byte \cup {"exit"}
      BY DEF TypeOK
    <3>3. Front(Append(shell, "exit")) = shell /\ Last(Append(shell, "exit")) = "exit"
      BY <3>2, FrontOfAppend
    <3>4. ~gone => Delivered' = Delivered /\ Last(shell') = "exit"
      BY <3>1, <3>3 DEF Delivered
    <3>5. ~gone => Whole(Delivered, held, pipe)' = Whole(Delivered, held, pipe)
      BY <3>1, <3>4 DEF Whole
    <3>6. HeldBack(held)' <=> HeldBack(held)
      BY <3>1
    <3> QED
      BY <3>1, <3>4, <3>5, <3>6 DEF ScriptInv
  <2>7. ASSUME StdinEnds \/ ConsoleEnds PROVE ScriptInv'
    <3>1. /\ UNCHANGED <<piped, input, taken, afterCr, pipe, cutShort, held, shell, over, gone>>
          /\ ~ended /\ (piped => input = <<>>)
      BY <2>7 DEF StdinEnds, ConsoleEnds, relayVars
    <3>2. (HeldBack(held)' <=> HeldBack(held)) /\ Delivered' = Delivered
      BY <3>1 DEF Delivered
    <3>3. Whole(Delivered, held, pipe)' = Whole(Delivered, held, pipe)
      BY <3>1, <3>2 DEF Whole
    <3> QED
      BY <3>1, <3>2, <3>3 DEF ScriptInv
  <2>8. ASSUME ShellEnds PROVE ScriptInv'
    <3>1. gone' /\ UNCHANGED <<piped, input, taken, afterCr, ended, pipe, held>>
      BY <2>8 DEF ShellEnds, hostVars
    <3>2. HeldBack(held)' <=> HeldBack(held)
      BY <3>1
    <3> QED
      BY <3>1, <3>2 DEF ScriptInv
  <2>9. ASSUME UNCHANGED vars PROVE ScriptInv'
    <3>1. UNCHANGED <<piped, input, taken, afterCr, ended, pipe, cutShort, held, shell, over, gone>>
      BY <2>9 DEF vars
    <3>2. (HeldBack(held)' <=> HeldBack(held)) /\ Delivered' = Delivered
      BY <3>1 DEF Delivered
    <3>3. Whole(Delivered, held, pipe)' = Whole(Delivered, held, pipe)
      BY <3>1, <3>2 DEF Whole
    <3> QED
      BY <3>1, <3>2, <3>3 DEF ScriptInv
  <2> QED
    BY <2>1, <2>2, <2>3, <2>4, <2>5, <2>6, <2>7, <2>8, <2>9 DEF Next, PumpStep, RelayStep
<1>3. TypeOK /\ ScriptInv => ScriptIntact
  <2> SUFFICES ASSUME TypeOK, ScriptInv, piped, ~gone
               PROVE  /\ Delivered \o held \o pipe = AsKeys(taken)
                      /\ held # <<>> => SubSeq(held, 1, 2) = <<"esc", "]">>
                      /\ over => /\ Last(shell) = "exit"
                                 /\ cutShort \/ (pipe = <<>> /\ input = <<>>)
    BY DEF ScriptIntact
  <2>1. /\ Delivered \in Seq(Byte \cup {"exit"}) /\ held \in Seq(Plain) /\ pipe \in Seq(Plain)
        /\ Whole(Delivered, held, pipe) = AsKeys(taken)
        /\ HeldBack(held) /\ held \in Seq(Byte)
        /\ over => Last(shell) = "exit" /\ (cutShort \/ (ended /\ pipe = <<>>))
        /\ ended => input = <<>>
    BY DEF ScriptInv, TypeOK
  <2>2. (Delivered \o held) \o pipe = Delivered \o (held \o pipe)
    BY <2>1, PlainAdds
  <2>3. held # <<>> => SubSeq(held, 1, 2) = <<"esc", "]">>
    BY <2>1, HeldBegins
  <2> QED
    BY <2>1, <2>2, <2>3 DEF Whole
<1> QED
  BY <1>1, <1>2, <1>3, TypeCorrect, PTL DEF Spec
=============================================================================
