---------------------------- MODULE ListingProofs ---------------------------
(***************************************************************************)
(* What the proofs about the pages need of sequences, of the lists of      *)
(* Listing, and of how often something is in a list.                       *)
(***************************************************************************)
EXTENDS Listing, FiniteSetTheorems, TLAPS

-----------------------------------------------------------------------------
(* Sequences.                                                              *)

LEMMA Nothing == \A S : <<>> \in Seq(S)
  OBVIOUS

LEMMA Within == ASSUME NEW S, NEW q \in Seq(S) PROVE \A i \in DOMAIN q : q[i] \in S
  OBVIOUS

\* What a sequence is without its first element,
LEMMA Tailed ==
  ASSUME NEW S, NEW q \in Seq(S), q # <<>>
  PROVE  /\ Tail(q) \in Seq(S) /\ Head(q) \in S /\ 1 \in DOMAIN q /\ Head(q) = q[1]
         /\ Len(Tail(q)) = Len(q) - 1
         /\ \A i \in DOMAIN Tail(q) : i + 1 \in DOMAIN q /\ Tail(q)[i] = q[i + 1]
         /\ \A i \in DOMAIN q : i # 1 => i - 1 \in DOMAIN Tail(q) /\ Tail(q)[i - 1] = q[i]
  <1>1. Len(q) \in Nat /\ Len(q) # 0 /\ DOMAIN q = 1..Len(q)
    OBVIOUS
  <1>2. /\ Tail(q) \in Seq(S) /\ Len(Tail(q)) = Len(q) - 1
        /\ DOMAIN Tail(q) = 1..(Len(q) - 1)
        /\ \A i \in DOMAIN Tail(q) : Tail(q)[i] = q[i + 1]
    BY <1>1
  <1> QED
    BY <1>1, <1>2

LEMMA Remains ==
  ASSUME NEW S, NEW q \in Seq(S), NEW i \in DOMAIN q, i # 1
  PROVE  \E j \in DOMAIN Tail(q) : Tail(q)[j] = q[i]
  <1>1. q # <<>>
    OBVIOUS
  <1>2. i - 1 \in DOMAIN Tail(q) /\ Tail(q)[i - 1] = q[i]
    BY <1>1, Tailed
  <1> QED
    BY <1>2

\* with one more at its end,
LEMMA Longer ==
  ASSUME NEW S, NEW q \in Seq(S), NEW x \in S
  PROVE  /\ Append(q, x) \in Seq(S) /\ Append(q, x) # <<>>
         /\ Len(Append(q, x)) = Len(q) + 1
         /\ DOMAIN Append(q, x) = DOMAIN q \cup {Len(q) + 1}
         /\ \A i \in DOMAIN q : Append(q, x)[i] = q[i]
         /\ Append(q, x)[Len(q) + 1] = x
  OBVIOUS

\* followed by another,
LEMMA Concatenated ==
  ASSUME NEW S, NEW p \in Seq(S), NEW q \in Seq(S)
  PROVE  /\ p \o q \in Seq(S) /\ Len(p \o q) = Len(p) + Len(q)
         /\ \A i \in DOMAIN p : i \in DOMAIN (p \o q) /\ (p \o q)[i] = p[i]
         /\ \A i \in DOMAIN q : /\ Len(p) + i \in DOMAIN (p \o q)
                                /\ (p \o q)[Len(p) + i] = q[i]
         /\ \A i \in DOMAIN (p \o q) : \/ i \in DOMAIN p
                                       \/ i - Len(p) \in DOMAIN q /\ i > Len(p)
  OBVIOUS

\* or with one element changed.
LEMMA Rewritten ==
  ASSUME NEW S, NEW q \in Seq(S), NEW i \in DOMAIN q, NEW x \in S
  PROVE  /\ [q EXCEPT ![i] = x] \in Seq(S)
         /\ Len([q EXCEPT ![i] = x]) = Len(q)
         /\ DOMAIN [q EXCEPT ![i] = x] = DOMAIN q
         /\ [q EXCEPT ![i] = x][i] = x
         /\ \A j \in DOMAIN q \ {i} : [q EXCEPT ![i] = x][j] = q[j]
  OBVIOUS

-----------------------------------------------------------------------------
(* The lists a page shows.                                                 *)

\* A finite set of numbers has an increasing sequence of its elements: an element has
\* its place by how many there are up to it.
LEMMA Ordering ==
  ASSUME NEW S \in SUBSET Nat, IsFiniteSet(S)
  PROVE  \E s \in [1..Cardinality(S) -> S] : \A i, j \in DOMAIN s : i < j => s[i] < s[j]
  <1> DEFINE C == Cardinality(S)
             upTo(m) == {n \in S : n <= m}
             rank == [m \in S |-> Cardinality(upTo(m))]
  <1>0. C \in Nat
    BY FS_CardinalityType
  <1>1. \A m \in S : IsFiniteSet(upTo(m)) /\ Cardinality(upTo(m)) <= C
    BY FS_Subset
  <1>2. \A m \in S : rank[m] \in 1..C
    <2> TAKE m \in S
    <2>1. m \in upTo(m)
      OBVIOUS
    <2>2. Cardinality(upTo(m)) \in Nat /\ Cardinality(upTo(m)) # 0
      BY <1>1, <2>1, FS_CardinalityType, FS_EmptySet
    <2> HIDE DEF upTo, C
    <2> QED
      BY <1>0, <1>1, <2>2
  <1>3. \A m, n \in S : m < n => rank[m] < rank[n]
    <2> TAKE m, n \in S
    <2> HAVE m < n
    <2>1. upTo(m) \subseteq upTo(n) /\ n \in upTo(n) /\ n \notin upTo(m)
      <3>1. m \in Nat /\ n \in Nat /\ S \subseteq Nat
        OBVIOUS
      <3>2. \A x \in Nat : x <= m => x <= n
        BY <3>1
      <3>3. n <= n /\ ~(n <= m)
        BY <3>1
      <3> HIDE DEF rank
      <3> QED
        BY <3>1, <3>2, <3>3
    <2>2. /\ Cardinality(upTo(m)) <= Cardinality(upTo(n))
          /\ Cardinality(upTo(m)) # Cardinality(upTo(n))
      <3> HIDE DEF upTo
      <3> QED
        BY <1>1, <2>1, FS_Subset
    <2>3. Cardinality(upTo(m)) \in Nat /\ Cardinality(upTo(n)) \in Nat
      BY <1>1, FS_CardinalityType
    <2> HIDE DEF upTo
    <2> QED
      BY <2>2, <2>3
  <1> HIDE DEF rank
  <1>4. rank \in Injection(S, 1..C)
    <2>1. rank \in [S -> 1..C]
      BY <1>2 DEF rank
    <2>2. \A m, n \in S : rank[m] = rank[n] => m = n
      <3> TAKE m, n \in S
      <3>1. m < n \/ n < m \/ m = n
        OBVIOUS
      <3>2. rank[m] \in Nat /\ rank[n] \in Nat
        BY <1>0, <1>2
      <3> QED
        BY <1>3, <3>1, <3>2
    <2> QED
      BY <2>1, <2>2 DEF Injection, IsInjective
  <1>5. \A i \in 1..C : \E m \in S : rank[m] = i
    <2>1. IsFiniteSet(1..C) /\ Cardinality(1..C) = C
      BY <1>0, FS_Interval
    <2>2. rank \in Surjection(S, 1..C)
      BY <1>4, <2>1, FS_Injection
    <2> QED
      BY <2>2 DEF Surjection
  <1> DEFINE s == [i \in 1..C |-> CHOOSE m \in S : rank[m] = i]
  <1>6. \A i \in 1..C : s[i] \in S /\ rank[s[i]] = i
    BY <1>5
  <1>7. s \in [1..C -> S] /\ DOMAIN s = 1..C
    BY <1>6
  <1> HIDE DEF s, C
  <1>8. \A i, j \in 1..C : i < j => s[i] < s[j]
    <2> TAKE i, j \in 1..C
    <2> HAVE i < j
    <2>0. i # j
      BY <1>0
    <2>1. s[i] \in Nat /\ s[j] \in Nat /\ rank[s[i]] = i /\ rank[s[j]] = j /\ i # j
      BY <1>6, <2>0
    <2>2. ~(s[j] < s[i]) /\ s[i] # s[j]
      BY <1>0, <1>3, <1>6, <2>1
    <2> QED
      BY <2>1, <2>2
  <1> QED
    BY <1>7, <1>8 DEF C

\* The ids in order are those of the set, each of them once.
LEMMA Ordered ==
  ASSUME NEW S \in SUBSET Nat, IsFiniteSet(S)
  PROVE  /\ InOrder(S) \in [1..Cardinality(S) -> S]
         /\ \A i, j \in DOMAIN InOrder(S) : i < j => InOrder(S)[i] < InOrder(S)[j]
         /\ InOrder(S) \in Seq(S) /\ IsInjective(InOrder(S))
         /\ DOMAIN InOrder(S) = 1..Len(InOrder(S))
         /\ \A m \in S : \E i \in DOMAIN InOrder(S) : InOrder(S)[i] = m
  <1> DEFINE C == Cardinality(S)
             s == InOrder(S)
  <1>0. C \in Nat
    BY FS_CardinalityType
  <1>1. s \in [1..C -> S] /\ \A i, j \in DOMAIN s : i < j => s[i] < s[j]
    BY Ordering DEF InOrder
  <1> HIDE DEF s
  <1>2. \A i, j \in 1..C : s[i] = s[j] => i = j
    <2> TAKE i, j \in 1..C
    <2>1. i < j \/ j < i \/ i = j
      BY <1>0
    <2>2. s[i] \in Nat /\ s[j] \in Nat
      BY <1>1
    <2> QED
      BY <1>1, <2>1, <2>2
  <1>3. s \in Injection(1..C, S)
    BY <1>1, <1>2 DEF Injection, IsInjective
  <1>4. s \in Surjection(1..C, S)
    <2>1. IsFiniteSet(1..C) /\ Cardinality(1..C) = C
      BY <1>0, FS_Interval
    <2> QED
      BY <1>3, <2>1, FS_Injection
  <1>5. s \in Seq(S) /\ Len(s) = C
    BY <1>0, <1>1
  <1> QED
    BY <1>1, <1>3, <1>4, <1>5 DEF Injection, Surjection, C, s

\* A list without an id has what else is in it, in fewer places if in fewer.
LEMMA Lacking ==
  ASSUME NEW M, NEW list \in Seq(M), NEW id
  PROVE  LET rest == Without(list, id) IN
         /\ rest \in Seq(M)
         /\ \A i \in DOMAIN rest : \E j \in DOMAIN list : list[j] # id /\ rest[i] = list[j]
         /\ \A j \in DOMAIN list : list[j] # id => \E i \in DOMAIN rest : rest[i] = list[j]
         /\ IsInjective(list) => IsInjective(rest)
  <1> DEFINE S == {i \in DOMAIN list : list[i] # id}
             left == InOrder(S)
             rest == [i \in DOMAIN left |-> list[left[i]]]
  <1>1. Len(list) \in Nat /\ DOMAIN list = 1..Len(list)
    OBVIOUS
  <1>2. S \in SUBSET Nat /\ IsFiniteSet(S)
    <2>1. IsFiniteSet(1..Len(list))
      BY <1>1, FS_Interval
    <2> QED
      BY <1>1, <2>1, FS_Subset
  <1>3. /\ left \in Seq(S) /\ IsInjective(left) /\ DOMAIN left = 1..Len(left)
        /\ \A m \in S : \E i \in DOMAIN left : left[i] = m
    <2> HIDE DEF S
    <2> QED
      BY <1>2, Ordered
  <1>4. Without(list, id) = rest
    BY DEF Without
  <1> HIDE DEF left
  <1>5. \A i \in DOMAIN left : left[i] \in S /\ left[i] \in DOMAIN list
    BY <1>3
  <1>6. \A j \in DOMAIN list : list[j] \in M
    OBVIOUS
  <1>7. Len(left) \in Nat
    BY <1>3
  <1>8. rest \in Seq(M)
    BY <1>3, <1>5, <1>6, <1>7
  <1>9. IsInjective(list) => IsInjective(rest)
    BY <1>3, <1>5 DEF IsInjective
  <1>10. \A j \in DOMAIN list : list[j] # id => \E i \in DOMAIN rest : rest[i] = list[j]
    BY <1>3, <1>5
  <1>11. \A i \in DOMAIN rest : \E j \in DOMAIN list : list[j] # id /\ rest[i] = list[j]
    BY <1>5
  <1> QED
    BY <1>4, <1>8, <1>9, <1>10, <1>11

-----------------------------------------------------------------------------
(* How often something is in a list.                                       *)

\* How often c is in a sequence,
Places(q, c) == {i \in DOMAIN q : q[i] = c}
Times(q, c) == Cardinality(Places(q, c))

LEMMA Counted ==
  ASSUME NEW S, NEW q \in Seq(S), NEW c
  PROVE  /\ IsFiniteSet(Places(q, c)) /\ Times(q, c) \in Nat
         /\ Times(q, c) = 0 <=> \A i \in DOMAIN q : q[i] # c
  <1>1. Len(q) \in Nat /\ DOMAIN q = 1..Len(q)
    OBVIOUS
  <1>2. IsFiniteSet(Places(q, c))
    <2>1. IsFiniteSet(1..Len(q))
      BY <1>1, FS_Interval
    <2> QED
      BY <1>1, <2>1, FS_Subset DEF Places
  <1>3. Places(q, c) = {} <=> \A i \in DOMAIN q : q[i] # c
    BY DEF Places
  <1> QED
    BY <1>2, <1>3, FS_EmptySet, FS_CardinalityType DEF Times

\* with one more at its end,
LEMMA MoreTimes ==
  ASSUME NEW S, NEW q \in Seq(S), NEW x \in S, NEW c
  PROVE  Times(Append(q, x), c) = IF x = c THEN Times(q, c) + 1 ELSE Times(q, c)
  <1>1. /\ DOMAIN Append(q, x) = DOMAIN q \cup {Len(q) + 1}
        /\ \A i \in DOMAIN q : Append(q, x)[i] = q[i]
        /\ Append(q, x)[Len(q) + 1] = x
    BY Longer
  <1>2. Len(q) + 1 \notin DOMAIN q
    OBVIOUS
  <1>3. Places(Append(q, x), c) = IF x = c THEN Places(q, c) \cup {Len(q) + 1} ELSE Places(q, c)
    BY <1>1, <1>2 DEF Places
  <1>4. Len(q) + 1 \notin Places(q, c) /\ IsFiniteSet(Places(q, c))
    BY <1>2, Counted DEF Places
  <1> QED
    BY <1>3, <1>4, FS_AddElement DEF Times

\* or without its first.
LEMMA FewerTimes ==
  ASSUME NEW S, NEW q \in Seq(S), q # <<>>, NEW c
  PROVE  Times(q, c) = IF Head(q) = c THEN Times(Tail(q), c) + 1 ELSE Times(Tail(q), c)
  <1> DEFINE P == Places(q, c) \ {1}
             T == Places(Tail(q), c)
             f == [i \in T |-> i + 1]
  <1>1. /\ Tail(q) \in Seq(S) /\ 1 \in DOMAIN q /\ Head(q) = q[1]
        /\ \A i \in DOMAIN Tail(q) : i + 1 \in DOMAIN q /\ Tail(q)[i] = q[i + 1]
        /\ \A i \in DOMAIN q : i # 1 => i - 1 \in DOMAIN Tail(q) /\ Tail(q)[i - 1] = q[i]
    BY Tailed
  <1>2. /\ \A i \in DOMAIN Tail(q) : i \in Nat /\ i + 1 # 1
        /\ \A i \in DOMAIN q : i \in Nat /\ (i - 1) + 1 = i
    <2>1. DOMAIN Tail(q) = 1..Len(Tail(q)) /\ DOMAIN q = 1..Len(q) /\ Len(q) \in Nat /\ Len(Tail(q)) \in Nat
      BY <1>1
    <2> QED
      BY <2>1
  <1>3. /\ \A i \in T : i + 1 \in P /\ i \in Nat
        /\ \A i \in P : i - 1 \in T /\ (i - 1) + 1 = i
    BY <1>1, <1>2 DEF Places
  <1> HIDE DEF P, T
  <1>4. f \in Bijection(T, P)
    <2>1. f \in [T -> P] /\ \A i, j \in T : f[i] = f[j] => i = j
      BY <1>3
    <2>2. \A y \in P : \E i \in T : f[i] = y
      BY <1>3
    <2> QED
      BY <2>1, <2>2 DEF Bijection, Injection, IsInjective, Surjection
  <1>5. IsFiniteSet(T) /\ Cardinality(P) = Cardinality(T)
    <2>1. IsFiniteSet(T)
      BY <1>1, Counted DEF T
    <2> QED
      BY <1>4, <2>1, FS_Bijection DEF ExistsBijection
  <1>6. /\ IsFiniteSet(Places(q, c)) /\ Times(q, c) \in Nat
        /\ 1 \in Places(q, c) <=> Head(q) = c
    BY <1>1, Counted DEF Places
  <1>7. Cardinality(P) = IF 1 \in Places(q, c) THEN Times(q, c) - 1 ELSE Times(q, c)
    BY <1>6, FS_RemoveElement DEF P, Times
  <1> QED
    BY <1>5, <1>6, <1>7 DEF Times, T
=============================================================================
