--------------------------- MODULE QoSFlowProofs ---------------------------
(***************************************************************************)
(* What the client has in memory and what a restart would restore from the *)
(* store agree, for any messages, ids and windows, and no accepted message *)
(* is lost.                                                                *)
(***************************************************************************)
EXTENDS QoSFlow, FiniteSetTheorems, TLAPS

----------------------------------------------------------------------------
(* Lists of messages *)

\* a list finds a message by its id
UniqueIds(s) == \A m, n \in DOMAIN s : s[m].id = s[n].id => m = n

\* Two lists one after the other.
LEMMA ConcatFacts ==
    ASSUME NEW X, NEW u \in Seq(X), NEW v \in Seq(X)
    PROVE  /\ u \o v \in Seq(X) /\ Len(u \o v) = Len(u) + Len(v)
           /\ DOMAIN (u \o v) = 1 .. Len(u) + Len(v)
           /\ \A i \in 1 .. Len(u) : (u \o v)[i] = u[i]
           /\ \A i \in 1 .. Len(v) : (u \o v)[Len(u) + i] = v[i]
OBVIOUS

\* What ListRemove does to a list of messages.
LEMMA WithoutFacts ==
    ASSUME NEW X, NEW s \in Seq(X), UniqueIds(s), NEW i
    PROVE  /\ Without(s, i) \in Seq(X)
           /\ UniqueIds(Without(s, i))
           /\ Range(Without(s, i)) = {x \in Range(s) : x.id # i}
<1>1. CASE i \notin IdsIn(s)
  BY <1>1 DEF Without, IdsIn, Range
<1>2. CASE i \in IdsIn(s)
  <2> DEFINE k == CHOOSE n \in DOMAIN s : s[n].id = i
             u == SubSeq(s, 1, k - 1)
             v == SubSeq(s, k + 1, Len(s))
             w == u \o v
  <2>1. k \in DOMAIN s /\ s[k].id = i /\ DOMAIN s = 1 .. Len(s) /\ Len(s) \in Nat
    BY <1>2 DEF IdsIn
  <2>2. Without(s, i) = w
    BY <1>2 DEF Without, RemoveAt
  <2> HIDE DEF k
  <2>3. /\ u \in Seq(X) /\ Len(u) = k - 1 /\ v \in Seq(X) /\ Len(v) = Len(s) - k
        /\ \A j \in 1 .. k - 1 : u[j] = s[j]
        /\ \A j \in 1 .. Len(s) - k : v[j] = s[k + j]
    BY SMTT(60), <2>1
  <2> HIDE DEF u, v
  <2>4. /\ w \in Seq(X) /\ Len(w) = Len(s) - 1 /\ DOMAIN w = 1 .. Len(s) - 1
        /\ \A j \in 1 .. Len(u) : w[j] = u[j]
        /\ \A j \in 1 .. Len(v) : w[Len(u) + j] = v[j]
    <3>1. /\ w \in Seq(X) /\ Len(w) = Len(u) + Len(v) /\ DOMAIN w = 1 .. Len(u) + Len(v)
          /\ \A j \in 1 .. Len(u) : w[j] = u[j]
          /\ \A j \in 1 .. Len(v) : w[Len(u) + j] = v[j]
      <4>1. u \in Seq(X) /\ v \in Seq(X)
        BY <2>3
      <4>2. QED
        BY ONLY <4>1, ConcatFacts
    <3>2. Len(u) + Len(v) = Len(s) - 1
      BY <2>1, <2>3
    <3>3. QED
      BY <3>1, <3>2
  <2> HIDE DEF w
  <2>5. ASSUME NEW j \in DOMAIN w
        PROVE  (j < k /\ w[j] = s[j]) \/ (~(j < k) /\ w[j] = s[j + 1])
    <3>1. CASE j < k
      <4>1. j \in 1 .. k - 1 /\ j \in 1 .. Len(u)
        BY <2>1, <2>3, <2>4, <3>1
      <4>2. QED
        BY <2>3, <2>4, <3>1, <4>1
    <3>2. CASE ~(j < k)
      <4>1. PICK b \in 1 .. Len(v) : j = Len(u) + b /\ k + b = j + 1
        <5>1. j - Len(u) \in 1 .. Len(v) /\ Len(u) + (j - Len(u)) = j /\ k + (j - Len(u)) = j + 1
          BY SMTT(60), <2>1, <2>3, <2>4, <3>2
        <5>2. QED
          BY <5>1
      <4>2. w[j] = v[b] /\ v[b] = s[k + b]
        BY <2>3, <2>4, <4>1
      <4>3. QED
        BY <3>2, <4>1, <4>2
    <3>3. QED
      BY <3>1, <3>2
  <2>6. ASSUME NEW j \in DOMAIN s, j # k PROVE \E l \in DOMAIN w : w[l] = s[j]
    <3>1. CASE j < k
      BY <2>1, <2>4, <2>5, <3>1
    <3>2. CASE ~(j < k)
      <4>1. j - 1 \in DOMAIN w /\ ~(j - 1 < k) /\ (j - 1) + 1 = j
        BY <2>1, <2>4, <2>6, <3>2
      <4>2. w[j - 1] = s[j]
        BY <2>5, <4>1
      <4>3. QED
        BY <4>1, <4>2
    <3>3. QED
      BY <3>1, <3>2
  <2>7. ASSUME NEW j \in DOMAIN w
        PROVE  \E l \in DOMAIN s : l # k /\ w[j] = s[l]
    BY SMTT(60), <2>1, <2>4, <2>5
  <2>8. UniqueIds(w)
    <3>1. ASSUME NEW m \in DOMAIN w, NEW n \in DOMAIN w, w[m].id = w[n].id PROVE m = n
      <4>1. PICK a \in DOMAIN s : w[m] = s[a] /\ ((m < k /\ a = m) \/ (~(m < k) /\ a = m + 1))
        BY <2>1, <2>4, <2>5
      <4>2. PICK b \in DOMAIN s : w[n] = s[b] /\ ((n < k /\ b = n) \/ (~(n < k) /\ b = n + 1))
        BY SMTT(60), <2>1, <2>4, <2>5
      <4>3. a = b
        BY <3>1, <4>1, <4>2 DEF UniqueIds
      <4>4. m \in Int /\ n \in Int /\ k \in Int
        BY <2>1, <2>4
      <4>5. QED
        BY <4>1, <4>2, <4>3, <4>4
    <3>2. QED
      BY <3>1 DEF UniqueIds
  <2>9. \A l \in DOMAIN s : s[l].id = i => l = k
    BY <2>1 DEF UniqueIds
  <2>10. Range(w) = {x \in Range(s) : x.id # i}
    <3>1. ASSUME NEW x \in Range(w) PROVE x \in Range(s) /\ x.id # i
      BY <2>7, <2>9 DEF Range
    <3>2. ASSUME NEW x \in Range(s), x.id # i PROVE x \in Range(w)
      BY <2>1, <2>6, <3>2 DEF Range
    <3>3. QED
      BY <3>1, <3>2
  <2>11. QED
    BY <2>2, <2>4, <2>8, <2>10
<1>3. QED
  BY <1>1, <1>2

\* What ListAppend does to a list.
LEMMA AppendFacts ==
    ASSUME NEW X, NEW s \in Seq(X), NEW x \in X
    PROVE  /\ Append(s, x) \in Seq(X)
           /\ Range(Append(s, x)) = Range(s) \cup {x}
           /\ IdsIn(Append(s, x)) = IdsIn(s) \cup {x.id}
           /\ UniqueIds(s) /\ x.id \notin IdsIn(s) => UniqueIds(Append(s, x))
           /\ s \o <<x>> = Append(s, x)
<1> DEFINE a == Append(s, x)
           l == Len(s) + 1
<1>1. /\ a \in Seq(X) /\ DOMAIN a = 1 .. l /\ DOMAIN s = 1 .. Len(s) /\ Len(s) \in Nat
      /\ \A i \in DOMAIN s : i \in DOMAIN a /\ a[i] = s[i]
      /\ \A i \in DOMAIN a : i \in DOMAIN s \/ i = l
      /\ a[l] = x /\ l \in DOMAIN a /\ s \o <<x>> = a
  OBVIOUS
<1> HIDE DEF a, l
<1>2. Range(a) = Range(s) \cup {x} /\ IdsIn(a) = IdsIn(s) \cup {x.id}
  BY <1>1 DEF Range, IdsIn
<1>3. ASSUME UniqueIds(s), x.id \notin IdsIn(s) PROVE UniqueIds(a)
  <2>1. ASSUME NEW m \in DOMAIN a, NEW n \in DOMAIN a, a[m].id = a[n].id PROVE m = n
    BY <1>1, <1>3, <2>1 DEF UniqueIds, IdsIn
  <2>2. QED
    BY <2>1 DEF UniqueIds
<1>4. QED
  BY <1>1, <1>2, <1>3 DEF a

\* What taking the first item does to a list.
LEMMA TailFacts ==
    ASSUME NEW X, NEW s \in Seq(X), s # <<>>
    PROVE  /\ Head(s) \in X /\ Head(s) \in Range(s) /\ Tail(s) \in Seq(X)
           /\ Range(s) = Range(Tail(s)) \cup {Head(s)}
           /\ IdsIn(s) = IdsIn(Tail(s)) \cup {Head(s).id}
           /\ UniqueIds(s) => UniqueIds(Tail(s)) /\ Head(s).id \notin IdsIn(Tail(s))
<1> DEFINE t == Tail(s)
<1>1. /\ Head(s) = s[1] /\ 1 \in DOMAIN s /\ t \in Seq(X) /\ DOMAIN s = 1 .. Len(s) /\ Len(s) \in Nat
      /\ DOMAIN t = 1 .. Len(s) - 1 /\ \A i \in DOMAIN t : t[i] = s[i + 1]
  OBVIOUS
<1> HIDE DEF t
<1>2. /\ \A i \in DOMAIN t : i + 1 \in DOMAIN s /\ i + 1 # 1 /\ t[i] = s[i + 1]
      /\ \A i \in DOMAIN s : i # 1 => i - 1 \in DOMAIN t /\ t[i - 1] = s[i]
  <2>1. \A i \in DOMAIN s : i # 1 => i - 1 \in DOMAIN t /\ (i - 1) + 1 = i
    BY <1>1
  <2>2. ASSUME NEW i \in DOMAIN s, i # 1 PROVE t[i - 1] = s[i]
    BY <1>1, <2>1, <2>2
  <2>3. \A i \in DOMAIN t : i + 1 \in DOMAIN s /\ i + 1 # 1 /\ t[i] = s[i + 1]
    BY <1>1
  <2>4. QED
    BY <2>1, <2>2, <2>3
<1>3. \A i \in DOMAIN s : s[i] = Head(s) \/ \E j \in DOMAIN t : s[i] = t[j]
  BY <1>1, <1>2
<1>4. \A j \in DOMAIN t : \E i \in DOMAIN s : i # 1 /\ s[i] = t[j]
  BY <1>2
<1>5. Range(s) = Range(t) \cup {Head(s)} /\ IdsIn(s) = IdsIn(t) \cup {Head(s).id}
  <2>1. Range(s) = Range(t) \cup {Head(s)}
    <3>1. Head(s) \in Range(s)
      BY <1>1 DEF Range
    <3>2. Range(s) \subseteq Range(t) \cup {Head(s)}
      BY <1>3 DEF Range
    <3>3. Range(t) \subseteq Range(s)
      BY <1>4 DEF Range
    <3>4. QED
      BY <3>1, <3>2, <3>3
  <2>2. IdsIn(s) \subseteq IdsIn(t) \cup {Head(s).id}
    BY <1>3 DEF IdsIn
  <2>3. IdsIn(t) \cup {Head(s).id} \subseteq IdsIn(s)
    BY <1>1, <1>4 DEF IdsIn
  <2>4. QED
    BY <2>1, <2>2, <2>3
<1>6. ASSUME UniqueIds(s) PROVE UniqueIds(t) /\ Head(s).id \notin IdsIn(t)
  <2>1. ASSUME NEW m \in DOMAIN t, NEW n \in DOMAIN t, t[m].id = t[n].id PROVE m = n
    <3>1. m + 1 = n + 1
      BY <1>2, <1>6, <2>1 DEF UniqueIds
    <3>2. QED
      BY <1>1, <3>1
  <2>2. Head(s).id \notin IdsIn(t)
    BY <1>1, <1>4, <1>6 DEF IdsIn, UniqueIds
  <2>3. QED
    BY <2>1, <2>2 DEF UniqueIds
<1>7. QED
  BY <1>1, <1>5, <1>6 DEF t

----------------------------------------------------------------------------
(* Order *)

\* the elements of S that R puts before x
Before(S, R, x) == {y \in S : <<y, x>> \in R}

\* An element of a finite, linearly ordered set is determined by how many come
\* before it, and every number below the set's size occurs.
LEMMA Ranks ==
    ASSUME NEW S, IsFiniteSet(S), NEW R,
           \A x \in S : <<x, x>> \notin R,
           \A x, y \in S : x # y => <<x, y>> \in R \/ <<y, x>> \in R,
           \A x, y, z \in S : <<x, y>> \in R /\ <<y, z>> \in R => <<x, z>> \in R
    PROVE  /\ Cardinality(S) \in Nat
           /\ \A x, y \in S : Cardinality(Before(S, R, x)) = Cardinality(Before(S, R, y)) => x = y
           /\ \A x \in S : Cardinality(Before(S, R, x)) \in 0 .. Cardinality(S) - 1
           /\ \A n \in 1 .. Cardinality(S) :
                \E x \in S : Cardinality(Before(S, R, x)) = n - 1
<1> DEFINE B(x) == Before(S, R, x)
           N == Cardinality(S)
           f == [x \in S |-> Cardinality(B(x)) + 1]
<1>1. /\ N \in Nat
      /\ \A x \in S : B(x) \in SUBSET S /\ IsFiniteSet(B(x)) /\ Cardinality(B(x)) \in Nat
  <2>1. \A x \in S : B(x) \in SUBSET S
    BY DEF Before
  <2>2. QED
    BY <2>1, FS_Subset, FS_CardinalityType
<1>2. ASSUME NEW T \in SUBSET S, NEW U \in SUBSET T, U # T
      PROVE  Cardinality(U) < Cardinality(T)
  <2>1. IsFiniteSet(T)
    BY FS_Subset
  <2>2. IsFiniteSet(U) /\ Cardinality(U) <= Cardinality(T) /\ Cardinality(U) # Cardinality(T)
    BY <1>2, <2>1, FS_Subset
  <2>3. Cardinality(U) \in Nat /\ Cardinality(T) \in Nat
    BY <2>1, <2>2, FS_CardinalityType
  <2>4. QED
    BY <2>2, <2>3
<1>3. ASSUME NEW x \in S PROVE Cardinality(B(x)) < N
  <2>1. x \notin B(x)
    BY DEF Before
  <2>2. QED
    BY <1>1, <1>2, <2>1
<1>4. ASSUME NEW x \in S, NEW y \in S, <<x, y>> \in R PROVE Cardinality(B(x)) < Cardinality(B(y))
  <2>1. B(x) \in SUBSET B(y) /\ x \in B(y) /\ x \notin B(x)
    BY <1>4 DEF Before
  <2>2. QED
    BY <1>1, <1>2, <2>1
<1>5. ASSUME NEW x \in S, NEW y \in S, Cardinality(B(x)) = Cardinality(B(y)) PROVE x = y
  <2>1. Cardinality(B(x)) \in Nat /\ Cardinality(B(y)) \in Nat
    BY <1>1
  <2>2. <<x, y>> \notin R /\ <<y, x>> \notin R
    BY <1>4, <1>5, <2>1
  <2>3. QED
    BY <2>2
<1> HIDE DEF B, N
<1>6. f \in [S -> 1 .. N]
  BY <1>1, <1>3
<1>7. f \in Injection(S, 1 .. N)
  <2>1. ASSUME NEW x \in S, NEW y \in S, f[x] = f[y] PROVE x = y
    <3>1. Cardinality(B(x)) + 1 = Cardinality(B(y)) + 1
      BY <2>1
    <3>2. QED
      BY <1>1, <1>5, <3>1
  <2>2. QED
    BY <1>6, <2>1 DEF Injection, IsInjective
<1>8. IsFiniteSet(1 .. N) /\ Cardinality(1 .. N) = N
  BY <1>1, FS_Interval
<1>9. f \in Surjection(S, 1 .. N)
  BY <1>7, <1>8, FS_Injection DEF N
<1>10. \A n \in 1 .. N : \E x \in S : Cardinality(B(x)) = n - 1
  <2>1. \A n \in 1 .. N : \E x \in S : f[x] = n
    BY <1>9 DEF Surjection
  <2>2. ASSUME NEW n \in 1 .. N PROVE \E x \in S : Cardinality(B(x)) = n - 1
    <3>1. PICK x \in S : f[x] = n
      BY <2>1
    <3>2. Cardinality(B(x)) + 1 = n /\ Cardinality(B(x)) \in Nat
      BY <1>1, <3>1
    <3>3. Cardinality(B(x)) = n - 1
      BY <1>1, <3>2
    <3>4. QED
      BY <3>3
  <2>3. QED
    BY <2>2
<1>11. \A x \in S : Cardinality(B(x)) \in 0 .. N - 1
  BY <1>1, <1>3
<1>12. QED
  BY <1>1, <1>5, <1>10, <1>11 DEF B, N

\* MQTTPersistence_insertInOrder keeps every message once.
LEMMA SortedFacts ==
    ASSUME NEW S, IsFiniteSet(S), \A x \in S : x.id \in Int,
           \A x, y \in S : x.id = y.id => x = y
    PROVE  /\ Sorted(S) \in Seq(S) /\ DOMAIN Sorted(S) = 1 .. Cardinality(S)
           /\ Cardinality(S) \in Nat /\ Len(Sorted(S)) = Cardinality(S)
           /\ UniqueIds(Sorted(S))
           /\ Range(Sorted(S)) = S
<1> DEFINE R == {p \in S \X S : p[1].id < p[2].id}
           N == Cardinality(S)
           C(x) == Cardinality({y \in S : y.id < x.id})
           s == Sorted(S)
<1>1. \A x, y \in S : <<x, y>> \in R <=> x.id < y.id
  OBVIOUS
<1>2. \A x \in S : Before(S, R, x) = {y \in S : y.id < x.id}
  BY <1>1 DEF Before
<1> HIDE DEF R
<1>3. /\ N \in Nat
      /\ \A x, y \in S : C(x) = C(y) => x = y
      /\ \A x \in S : C(x) \in 0 .. N - 1
      /\ \A n \in 1 .. N : \E x \in S : C(x) = n - 1
  <2>1. \A x \in S : <<x, x>> \notin R
    BY <1>1
  <2>2. \A x, y \in S : x # y => <<x, y>> \in R \/ <<y, x>> \in R
    BY <1>1
  <2>3. \A x, y, z \in S : <<x, y>> \in R /\ <<y, z>> \in R => <<x, z>> \in R
    BY <1>1
  <2>4. /\ N \in Nat
        /\ \A x, y \in S : Cardinality(Before(S, R, x)) = Cardinality(Before(S, R, y)) => x = y
        /\ \A x \in S : Cardinality(Before(S, R, x)) \in 0 .. N - 1
        /\ \A n \in 1 .. N : \E x \in S : Cardinality(Before(S, R, x)) = n - 1
    BY <2>1, <2>2, <2>3, Ranks
  <2>5. \A x \in S : Cardinality(Before(S, R, x)) = C(x)
    BY <1>2
  <2> HIDE DEF C
  <2>6. QED
    BY <2>4, <2>5
<1>4. s = [n \in 1 .. N |-> CHOOSE x \in S : C(x) = n - 1]
  BY DEF Sorted
<1> HIDE DEF C, N, s
<1>5. ASSUME NEW n \in 1 .. N PROVE s[n] \in S /\ C(s[n]) = n - 1
  BY <1>3, <1>4
<1>6. s \in [1 .. N -> S]
  BY <1>4, <1>5
<1>7. s \in Seq(S) /\ DOMAIN s = 1 .. N /\ Len(s) = N
  BY <1>3, <1>6
<1>8. UniqueIds(s)
  <2>1. ASSUME NEW m \in DOMAIN s, NEW n \in DOMAIN s, s[m].id = s[n].id PROVE m = n
    <3>1. s[m] = s[n]
      BY <1>5, <1>7, <2>1
    <3>2. m - 1 = n - 1 /\ m \in Int /\ n \in Int
      BY <1>5, <1>7, <3>1
    <3>3. QED
      BY <3>2
  <2>2. QED
    BY <2>1 DEF UniqueIds
<1>9. Range(s) = S
  <2>1. Range(s) \subseteq S
    BY <1>5, <1>7 DEF Range
  <2>2. ASSUME NEW x \in S PROVE x \in Range(s)
    <3>1. PICK n \in 1 .. N : C(x) = n - 1
      <4>1. C(x) + 1 \in 1 .. N /\ C(x) = (C(x) + 1) - 1
        BY <1>3
      <4>2. QED
        BY <4>1
    <3>2. s[n] = x
      BY <1>3, <1>5, <3>1
    <3>3. QED
      BY <1>7, <3>2 DEF Range
  <2>3. QED
    BY <2>1, <2>2
<1>10. QED
  BY <1>3, <1>7, <1>8, <1>9 DEF s, N

\* There is a first place with the largest gap before it.
LEMMA LargestGap ==
    ASSUME NEW S, NEW s \in Seq(S), s # <<>>, \A x \in S : x.id \in Int
    PROVE  \E n \in DOMAIN s : /\ \A k \in 1 .. n - 1 : Gap(s, k) < Gap(s, n)
                               /\ \A k \in n .. Len(s) : Gap(s, k) <= Gap(s, n)
<1> DEFINE D == DOMAIN s
           G(n) == Gap(s, n)
           R == {p \in D \X D : \/ G(p[1]) > G(p[2])
                                \/ G(p[1]) = G(p[2]) /\ p[1] < p[2]}
<1>1. D = 1 .. Len(s) /\ Len(s) \in Nat \ {0} /\ MaxMsgId \in Int
  BY FlowAssumption
<1>2. ASSUME NEW n \in D PROVE G(n) \in Int
  <2>1. /\ s[Len(s)].id \in Int /\ s[1].id \in Int /\ s[n].id \in Int
        /\ n # 1 => s[n - 1].id \in Int
    BY <1>1
  <2>2. QED
    BY SMTT(60), <1>1, <2>1 DEF Gap
<1>3. IsFiniteSet(D) /\ Cardinality(D) = Len(s)
  BY <1>1, FS_Interval
<1> HIDE DEF G
<1>4. \A x, y \in D : <<x, y>> \in R <=> (G(x) > G(y) \/ (G(x) = G(y) /\ x < y))
  OBVIOUS
<1> HIDE DEF R, D
<1>5. \A n \in 1 .. Cardinality(D) : \E x \in D : Cardinality(Before(D, R, x)) = n - 1
  <2>1. \A x \in D : <<x, x>> \notin R
    BY <1>1, <1>2, <1>4
  <2>2. \A x, y \in D : x # y => <<x, y>> \in R \/ <<y, x>> \in R
    BY <1>1, <1>2, <1>4
  <2>3. ASSUME NEW x \in D, NEW y \in D, NEW z \in D, <<x, y>> \in R, <<y, z>> \in R
        PROVE  <<x, z>> \in R
    <3>1. /\ G(x) \in Int /\ G(y) \in Int /\ G(z) \in Int /\ x \in Int /\ y \in Int /\ z \in Int
          /\ G(x) > G(y) \/ (G(x) = G(y) /\ x < y)
          /\ G(y) > G(z) \/ (G(y) = G(z) /\ y < z)
      BY <1>1, <1>2, <1>4, <2>3
    <3>2. G(x) > G(z) \/ (G(x) = G(z) /\ x < z)
      BY <3>1
    <3>3. QED
      BY <1>4, <3>2
  <2>4. QED
    BY SMTT(60), <1>3, <2>1, <2>2, <2>3, Ranks
<1>6. PICK n \in D : Cardinality(Before(D, R, n)) = 0
  <2>1. 1 \in 1 .. Cardinality(D) /\ 1 - 1 = 0
    BY <1>1, <1>3
  <2>2. QED
    BY <1>5, <2>1
<1>7. Before(D, R, n) = {}
  <2>1. Before(D, R, n) \in SUBSET D
    BY DEF Before
  <2>2. IsFiniteSet(Before(D, R, n))
    BY <1>3, <2>1, FS_Subset
  <2>3. QED
    BY <1>6, <2>2, FS_EmptySet
<1>8. \A k \in D : ~(G(k) > G(n) \/ (G(k) = G(n) /\ k < n))
  BY <1>4, <1>7 DEF Before
<1>9. ASSUME NEW k \in 1 .. n - 1 PROVE G(k) < G(n)
  <2>1. k \in D /\ k < n
    BY <1>1
  <2>2. QED
    BY <1>2, <1>8, <2>1
<1>10. ASSUME NEW k \in n .. Len(s) PROVE G(k) <= G(n)
  <2>1. k \in D
    BY <1>1
  <2>2. QED
    BY <1>2, <1>8, <2>1
<1>11. QED
  BY <1>9, <1>10 DEF D, G

\* What a restart finds in the store comes back in some order, each message once.
LEMMA InOrderFacts ==
    ASSUME NEW S, IsFiniteSet(S), \A x \in S : x.id \in Int,
           \A x, y \in S : x.id = y.id => x = y
    PROVE  /\ InOrder(S) \in Seq(S)
           /\ UniqueIds(InOrder(S))
           /\ Range(InOrder(S)) = S
<1>1. CASE S = {}
  BY <1>1 DEF InOrder, UniqueIds, Range
<1>2. CASE S # {}
  <2> DEFINE s == Sorted(S)
             f == CHOOSE n \in DOMAIN s :
                    /\ \A k \in 1 .. n - 1 : Gap(s, k) < Gap(s, n)
                    /\ \A k \in n .. Len(s) : Gap(s, k) <= Gap(s, n)
             u == SubSeq(s, f, Len(s))
             v == SubSeq(s, 1, f - 1)
             w == u \o v
  <2>1. InOrder(S) = w
    BY <1>2 DEF InOrder
  <2>2. /\ s \in Seq(S) /\ UniqueIds(s) /\ Range(s) = S
        /\ DOMAIN s = 1 .. Len(s) /\ Len(s) \in Nat
    BY SortedFacts
  <2>3. s # <<>>
    BY <1>2, <2>2 DEF Range
  <2> HIDE DEF s
  <2>4. f \in DOMAIN s
    BY <2>2, <2>3, LargestGap
  <2> HIDE DEF f
  <2>5. /\ u \in Seq(S) /\ Len(u) = Len(s) - f + 1 /\ v \in Seq(S) /\ Len(v) = f - 1
        /\ \A j \in 1 .. Len(s) - f + 1 : u[j] = s[f + j - 1]
        /\ \A j \in 1 .. f - 1 : v[j] = s[j]
    BY SMTT(60), <2>2, <2>4
  <2> HIDE DEF u, v
  <2>6. /\ w \in Seq(S) /\ DOMAIN w = 1 .. Len(u) + Len(v)
        /\ \A j \in 1 .. Len(u) : w[j] = u[j]
        /\ \A j \in 1 .. Len(v) : w[Len(u) + j] = v[j]
    <3>1. u \in Seq(S) /\ v \in Seq(S)
      BY <2>5
    <3>2. QED
      BY ONLY <3>1, ConcatFacts
  <2> HIDE DEF w
  <2>7. /\ Len(u) + Len(v) = Len(s) /\ f \in 1 .. Len(s) /\ Len(u) \in Nat /\ Len(v) \in Nat
        /\ Len(u) = Len(s) - f + 1 /\ Len(v) = f - 1 /\ Len(s) \in Nat
        /\ DOMAIN s = 1 .. Len(s) /\ DOMAIN w = 1 .. Len(s)
    <3>1. /\ Len(u) + Len(v) = Len(s) /\ f \in 1 .. Len(s) /\ Len(u) \in Nat /\ Len(v) \in Nat
      BY <2>2, <2>4, <2>5
    <3>2. QED
      BY <2>2, <2>5, <2>6, <3>1
  <2>8. ASSUME NEW j \in DOMAIN w
        PROVE  \E a \in DOMAIN s : /\ w[j] = s[a]
                                   /\ \/ j <= Len(u) /\ a = j + f - 1
                                      \/ ~(j <= Len(u)) /\ a = j - Len(u)
    <3>1. CASE j <= Len(u)
      <4>1. j \in 1 .. Len(u) /\ j \in 1 .. Len(s) - f + 1 /\ f + j - 1 \in DOMAIN s /\ f + j - 1 = j + f - 1
        BY <2>7, <3>1
      <4>2. QED
        BY <2>5, <2>6, <3>1, <4>1
    <3>2. CASE ~(j <= Len(u))
      <4>1. PICK b \in 1 .. Len(v) : j = Len(u) + b /\ b = j - Len(u) /\ b \in DOMAIN s /\ b \in 1 .. f - 1
        <5>1. /\ j - Len(u) \in 1 .. Len(v) /\ Len(u) + (j - Len(u)) = j
              /\ j - Len(u) \in DOMAIN s /\ j - Len(u) \in 1 .. f - 1
          BY <2>7, <3>2
        <5>2. QED
          BY <5>1
      <4>2. w[j] = s[b]
        BY <2>5, <2>6, <4>1
      <4>3. QED
        BY <3>2, <4>1, <4>2
    <3>3. QED
      BY <3>1, <3>2
  <2>9. ASSUME NEW a \in DOMAIN s PROVE \E j \in DOMAIN w : w[j] = s[a]
    <3>1. CASE a < f
      <4>1. a \in 1 .. Len(v) /\ Len(u) + a \in DOMAIN w /\ a \in 1 .. f - 1
        BY <2>2, <2>5, <2>6, <2>7, <3>1
      <4>2. QED
        BY <2>5, <2>6, <4>1
    <3>2. CASE ~(a < f)
      <4>1. PICK b \in 1 .. Len(u) : b \in DOMAIN w /\ f + b - 1 = a
        <5>1. a - f + 1 \in 1 .. Len(u) /\ a - f + 1 \in DOMAIN w /\ f + (a - f + 1) - 1 = a
          BY <2>7, <3>2
        <5>2. QED
          BY <5>1
      <4>2. w[b] = s[a]
        BY <2>5, <2>6, <4>1
      <4>3. QED
        BY <4>1, <4>2
    <3>3. QED
      BY <3>1, <3>2
  <2>10. UniqueIds(w)
    <3>1. ASSUME NEW m \in DOMAIN w, NEW n \in DOMAIN w, w[m].id = w[n].id PROVE m = n
      <4>1. PICK a \in DOMAIN s : w[m] = s[a] /\ \/ m <= Len(u) /\ a = m + f - 1
                                                 \/ ~(m <= Len(u)) /\ a = m - Len(u)
        BY <2>8
      <4>2. PICK b \in DOMAIN s : w[n] = s[b] /\ \/ n <= Len(u) /\ b = n + f - 1
                                                 \/ ~(n <= Len(u)) /\ b = n - Len(u)
        BY <2>8
      <4>3. a = b
        BY <2>2, <3>1, <4>1, <4>2 DEF UniqueIds
      <4>4. m \in 1 .. Len(s) /\ n \in 1 .. Len(s) /\ Len(u) = Len(s) - f + 1
        BY <2>5, <2>6, <2>7
      <4>5. QED
        BY SMTT(60), <2>2, <2>7, <4>1, <4>2, <4>3, <4>4
    <3>2. QED
      BY <3>1 DEF UniqueIds
  <2>11. Range(w) = S
    <3>1. Range(w) \subseteq Range(s)
      BY <2>8 DEF Range
    <3>2. Range(s) \subseteq Range(w)
      BY <2>9 DEF Range
    <3>3. QED
      BY <2>2, <3>1, <3>2
  <2>12. QED
    BY <2>1, <2>6, <2>10, <2>11
<1>3. QED
  BY <1>1, <1>2

----------------------------------------------------------------------------
(* Messages in flight *)

\* MQTTProtocol_handlePubrecs changes what one message waits for.
LEMMA AwaitFacts ==
    ASSUME NEW s \in Seq(Flight), NEW i
    PROVE  /\ AwaitPubcomp(s, i) \in Seq(Flight)
           /\ UniqueIds(s) => UniqueIds(AwaitPubcomp(s, i))
           /\ IdsIn(AwaitPubcomp(s, i)) = IdsIn(s)
           /\ \A g \in Range(AwaitPubcomp(s, i)) : \E f \in Range(s) :
                g = IF f.id = i THEN [f EXCEPT !.next = "PUBCOMP"] ELSE f
           /\ \A f \in Range(s) :
                (IF f.id = i THEN [f EXCEPT !.next = "PUBCOMP"] ELSE f) \in Range(AwaitPubcomp(s, i))
<1> DEFINE a == AwaitPubcomp(s, i)
           M(f) == IF f.id = i THEN [f EXCEPT !.next = "PUBCOMP"] ELSE f
<1>1. \A f \in Flight : M(f) \in Flight /\ M(f).id = f.id
  BY DEF Flight
<1>2. DOMAIN a = DOMAIN s /\ \A n \in DOMAIN s : a[n] = M(s[n]) /\ s[n] \in Flight
  BY DEF AwaitPubcomp
<1> HIDE DEF M
<1>3. a \in Seq(Flight)
  <2>1. DOMAIN s = 1 .. Len(s) /\ Len(s) \in Nat
    OBVIOUS
  <2>2. a = [n \in 1 .. Len(s) |-> M(s[n])]
    BY <2>1 DEF AwaitPubcomp, M
  <2> HIDE DEF a
  <2>3. a \in [1 .. Len(s) -> Flight]
    BY <1>1, <1>2, <2>1, <2>2
  <2>4. QED
    BY <2>1, <2>3
<1> HIDE DEF a
<1>4. UniqueIds(s) => UniqueIds(a)
  BY <1>1, <1>2 DEF UniqueIds
<1>5. IdsIn(a) = IdsIn(s)
  BY <1>1, <1>2 DEF IdsIn
<1>6. \A g \in Range(a) : \E f \in Range(s) : g = M(f)
  BY <1>2 DEF Range
<1>7. \A f \in Range(s) : M(f) \in Range(a)
  BY <1>2 DEF Range
<1>8. QED
  BY <1>3, <1>4, <1>5, <1>6, <1>7 DEF a, M

\* The messages of a list are finitely many and differ in their ids.
LEMMA RangeFacts ==
    ASSUME NEW X, NEW s \in Seq(X), UniqueIds(s)
    PROVE  /\ IsFiniteSet(Range(s)) /\ Range(s) \subseteq X
           /\ \A x, y \in Range(s) : x.id = y.id => x = y
           /\ IdsIn(s) = {x.id : x \in Range(s)}
<1>1. Len(s) \in Nat /\ DOMAIN s = 1 .. Len(s)
  OBVIOUS
<1>2. IsFiniteSet(DOMAIN s)
  BY <1>1, FS_Interval
<1>3. s \in Surjection(DOMAIN s, Range(s))
  BY <1>1 DEF Surjection, Range
<1>4. IsFiniteSet(Range(s))
  BY <1>2, <1>3, FS_Surjection
<1>5. \A x, y \in Range(s) : x.id = y.id => x = y
  BY DEF Range, UniqueIds
<1>6. IdsIn(s) = {x.id : x \in Range(s)}
  BY DEF Range, IdsIn
<1>7. Range(s) \subseteq X
  BY DEF Range
<1>8. QED
  BY <1>4, <1>5, <1>6, <1>7

\* What a message is recorded as, sent as and restored as.
LEMMA MadeFacts ==
    /\ \A q \in Queued : /\ CreateMessage(q) \in Flight /\ Restored(q) \in Flight
                         /\ Restored(q).id = q.id /\ Restored(q).msg = q.msg
                         /\ Restored(q).next =
                              IF q.id \in store.pubrel THEN "PUBCOMP" ELSE CreateMessage(q).next
                         /\ CreateMessage(q).id = q.id /\ CreateMessage(q).msg = q.msg
                         /\ Pub(q, FALSE) \in Packet
    /\ \A f \in Flight : \A d \in BOOLEAN : Pub(f, d) \in Packet /\ Retry(f, d) \in Packet
    /\ \A p \in Packet : \A t \in {"PUBLISH", "PUBACK", "PUBREC", "PUBREL", "PUBCOMP"} :
         Reply(t, p) \in Packet
BY DEF Queued, Flight, Packet, CreateMessage, Restored, Pub, Retry, Reply

\* what the server puts on a new connection
Resent(s, d) == [n \in DOMAIN s |-> Retry(s[n], d)]

\* what MQTTProtocol_retries has sent when it stops at the k-th message
ResentTo(s, k, d) == [n \in 1 .. k |-> Retry(s[n], d)]

\* MQTTProtocol_retries sends one packet for each message it comes to.
LEMMA ResentToFacts ==
    ASSUME NEW s \in Seq(Flight), NEW k \in 0 .. Len(s), NEW d \in BOOLEAN,
           NEW r, r = ResentTo(s, k, d)
    PROVE  /\ r \in Seq(Packet) /\ DOMAIN r \subseteq DOMAIN s
           /\ \A n \in DOMAIN r : r[n] = Retry(s[n], d)
           /\ \A p \in Range(r) : \E f \in Range(s) : p = Retry(f, d)
<1>1. Len(s) \in Nat /\ k \in Nat /\ 1 .. k \subseteq 1 .. Len(s)
      /\ DOMAIN s = 1 .. Len(s) /\ \A n \in 1 .. Len(s) : s[n] \in Flight
  OBVIOUS
<1>2. \A n \in 1 .. k : Retry(s[n], d) \in Packet
  BY <1>1, MadeFacts
<1>3. DOMAIN r = 1 .. k /\ \A n \in 1 .. k : r[n] = Retry(s[n], d)
  BY DEF ResentTo
<1>4. r \in [1 .. k -> Packet]
  BY <1>2 DEF ResentTo
<1>5. r \in Seq(Packet)
  BY <1>1, <1>4
<1>6. \A p \in Range(r) : \E f \in Range(s) : p = Retry(f, d)
  BY <1>1, <1>3 DEF Range
<1>7. QED
  BY <1>1, <1>3, <1>5, <1>6

\* The server sends one packet for every message it has in flight.
LEMMA ResentFacts ==
    ASSUME NEW s \in Seq(Flight), NEW d \in BOOLEAN
    PROVE  /\ Resent(s, d) \in Seq(Packet)
           /\ DOMAIN Resent(s, d) = DOMAIN s
           /\ \A n \in DOMAIN s : Resent(s, d)[n] = Retry(s[n], d)
           /\ \A p \in Range(Resent(s, d)) : \E f \in Range(s) : p = Retry(f, d)
<1>1. DOMAIN s = 1 .. Len(s) /\ Len(s) \in Nat
  OBVIOUS
<1>2. Resent(s, d) \in [1 .. Len(s) -> Packet]
  BY <1>1, MadeFacts DEF Resent
<1>3. QED
  BY <1>1, <1>2 DEF Resent, Range

----------------------------------------------------------------------------
(* Types *)

\* what the packets and lists carry belongs to their direction
TypeInv ==
    /\ DataTypes
    /\ \A q \in Range(commands) \cup store.sent : q.msg \in OutMsgs
    /\ \A q \in store.received : q.msg \in InMsgs
    /\ \A f \in Range(serverOut) : f.msg \in InMsgs
    /\ UniqueIds(serverOut)
    /\ \A p \in Range(toClient) : p.type = "PUBLISH" => p.msg \in InMsgs

\* what is in memory is in the store, by id
StoreInv ==
    /\ StoreMatchesMemory
    /\ UniqueIds(commands) /\ UniqueIds(outbound)
    /\ IdsIn(commands) \cap IdsIn(outbound) = {}
    /\ store.pubrel \subseteq IdsIn(outbound)
    /\ \A q, r \in store.received : q.id = r.id => q = r

FlowInv == TypeInv /\ StoreInv /\ NoMessageLost

\* the persistent store
StoreType == [commands : Seq(Queued), sent : SUBSET Queued, pubrel : SUBSET Ids,
              received : SUBSET Queued, queue : Seq(InMsgs)]

\* The fields of the store that a handler does not write stay.
LEMMA StoreMade ==
    ASSUME NEW st \in StoreType
    PROVE  /\ \A x \in Seq(Queued) :
                /\ [st EXCEPT !.commands = x] \in StoreType
                /\ [st EXCEPT !.commands = x].commands = x
                /\ [st EXCEPT !.commands = x].sent = st.sent
                /\ [st EXCEPT !.commands = x].pubrel = st.pubrel
                /\ [st EXCEPT !.commands = x].received = st.received
                /\ [st EXCEPT !.commands = x].queue = st.queue
           /\ \A x \in SUBSET Ids :
                /\ [st EXCEPT !.pubrel = x] \in StoreType
                /\ [st EXCEPT !.pubrel = x].commands = st.commands
                /\ [st EXCEPT !.pubrel = x].sent = st.sent
                /\ [st EXCEPT !.pubrel = x].pubrel = x
                /\ [st EXCEPT !.pubrel = x].received = st.received
                /\ [st EXCEPT !.pubrel = x].queue = st.queue
           /\ \A x \in SUBSET Queued :
                /\ [st EXCEPT !.received = x] \in StoreType
                /\ [st EXCEPT !.received = x].commands = st.commands
                /\ [st EXCEPT !.received = x].sent = st.sent
                /\ [st EXCEPT !.received = x].pubrel = st.pubrel
                /\ [st EXCEPT !.received = x].received = x
                /\ [st EXCEPT !.received = x].queue = st.queue
           /\ \A x \in Seq(InMsgs) :
                /\ [st EXCEPT !.queue = x] \in StoreType
                /\ [st EXCEPT !.queue = x].commands = st.commands
                /\ [st EXCEPT !.queue = x].sent = st.sent
                /\ [st EXCEPT !.queue = x].pubrel = st.pubrel
                /\ [st EXCEPT !.queue = x].received = st.received
                /\ [st EXCEPT !.queue = x].queue = x
BY DEF StoreType

\* A packet taken off the connection leaves the others there.
LEMMA FromServerFacts ==
    ASSUME TypeInv, NEW p, NEW type, NEW r \in Seq(Packet), FromServer(p, type, r)
    PROVE  /\ p \in Packet /\ p \in Range(toClient) /\ p.type = type /\ toClient # <<>>
           /\ toClient' \in Seq(Packet) /\ toServer' \in Seq(Packet)
           /\ Range(toClient') \subseteq Range(toClient)
           /\ connected' = connected
<1>1. toClient \in Seq(Packet) /\ toServer \in Seq(Packet)
  BY DEF TypeInv, DataTypes
<1>2. toClient # <<>> /\ p = Head(toClient) /\ p.type = type /\ toClient' = Tail(toClient)
      /\ toServer' = toServer \o r /\ connected' = connected
  BY DEF FromServer
<1>3. Head(toClient) \in Packet /\ Head(toClient) \in Range(toClient)
      /\ Tail(toClient) \in Seq(Packet) /\ Range(Tail(toClient)) \subseteq Range(toClient)
  BY <1>1, <1>2, TailFacts
<1>4. toServer \o r \in Seq(Packet)
  BY <1>1
<1>5. QED
  BY <1>2, <1>3, <1>4

\* The same at the server.
LEMMA FromClientFacts ==
    ASSUME TypeInv, NEW p, NEW type, NEW r \in Seq(Packet), FromClient(p, type, r),
           \A x \in Range(r) : x.type # "PUBLISH"
    PROVE  /\ p \in Packet /\ p \in Range(toServer) /\ p.type = type /\ toServer # <<>>
           /\ toClient' \in Seq(Packet) /\ toServer' \in Seq(Packet)
           /\ \A x \in Range(toClient') : x.type = "PUBLISH" => x \in Range(toClient)
<1>1. toClient \in Seq(Packet) /\ toServer \in Seq(Packet)
  BY DEF TypeInv, DataTypes
<1>2. toServer # <<>> /\ p = Head(toServer) /\ p.type = type /\ toServer' = Tail(toServer)
      /\ toClient' = toClient \o r
  BY DEF FromClient
<1>3. Head(toServer) \in Packet /\ Head(toServer) \in Range(toServer) /\ Tail(toServer) \in Seq(Packet)
  BY <1>1, <1>2, TailFacts
<1>4. /\ toClient \o r \in Seq(Packet)
      /\ DOMAIN (toClient \o r) = 1 .. Len(toClient) + Len(r)
      /\ \A i \in 1 .. Len(toClient) : (toClient \o r)[i] = toClient[i]
      /\ \A i \in 1 .. Len(r) : (toClient \o r)[Len(toClient) + i] = r[i]
  BY ONLY <1>1, ConcatFacts
<1>5. ASSUME NEW x \in Range(toClient \o r) PROVE x \in Range(toClient) \/ x \in Range(r)
  <2>1. PICK i \in 1 .. Len(toClient) + Len(r) : x = (toClient \o r)[i]
    BY <1>4, <1>5 DEF Range
  <2>2. CASE i <= Len(toClient)
    <3>1. i \in 1 .. Len(toClient) /\ DOMAIN toClient = 1 .. Len(toClient)
      BY <1>1, <2>2
    <3>2. QED
      BY <1>4, <2>1, <3>1 DEF Range
  <2>3. CASE ~(i <= Len(toClient))
    <3>1. PICK j \in 1 .. Len(r) : i = Len(toClient) + j
      <4>1. i - Len(toClient) \in 1 .. Len(r) /\ i = Len(toClient) + (i - Len(toClient))
        BY <1>1, <2>3
      <4>2. QED
        BY <4>1
    <3>2. DOMAIN r = 1 .. Len(r)
      OBVIOUS
    <3>3. QED
      BY <1>4, <2>1, <3>1, <3>2 DEF Range
  <2>4. QED
    BY <2>2, <2>3
<1>6. QED
  BY <1>2, <1>3, <1>4, <1>5

\* A step that leaves the client's lists and its store alone keeps them alike.
LEMMA MemoryKept ==
    ASSUME StoreInv, NoMessageLost, UNCHANGED <<clientVars, store, outStatus>>
    PROVE  StoreInv' /\ NoMessageLost'
BY DEF StoreInv, NoMessageLost, StoreMatchesMemory, Restored, clientVars

\* MQTTAsync_send adds the command to the list and to the store.
LEMMA PublishFlow ==
    ASSUME FlowInv, NEW m \in OutMsgs, NEW i \in Ids, Publish(m, i)
    PROVE  FlowInv'
<1> DEFINE q == [msg |-> m, id |-> i]
<1>1. TypeInv /\ DataTypes /\ StoreInv /\ NoMessageLost /\ StoreMatchesMemory
      /\ commands \in Seq(Queued) /\ store \in StoreType /\ q \in Queued
  BY DEF FlowInv, TypeInv, DataTypes, StoreInv, StoreType, Queued, Msgs
<1>2. /\ commands' = Append(commands, q)
      /\ store' = [store EXCEPT !.commands = Append(commands, q)]
      /\ outStatus' = [outStatus EXCEPT ![m] = "pending"]
      /\ i \notin IdsIn(commands) /\ i \notin IdsIn(outbound)
      /\ UNCHANGED <<outbound, inbound, messageQueue, netVars, serverVars, arrived>>
  BY DEF Publish
<1>3. /\ Append(commands, q) \in Seq(Queued)
      /\ Range(Append(commands, q)) = Range(commands) \cup {q}
      /\ IdsIn(Append(commands, q)) = IdsIn(commands) \cup {i}
      /\ UniqueIds(commands) => UniqueIds(Append(commands, q))
  BY <1>1, <1>2, AppendFacts
<1>4. /\ store' \in StoreType /\ store'.commands = commands' /\ store'.sent = store.sent
      /\ store'.pubrel = store.pubrel /\ store'.received = store.received
      /\ store'.queue = store.queue
  BY ZenonT(60), <1>1, <1>2, <1>3, StoreMade
<1>5. TypeInv'
  <2>1. DataTypes'
    BY <1>1, <1>2, <1>3, <1>4 DEF DataTypes, StoreType, netVars, serverVars
  <2>2. \A x \in Range(commands') \cup store'.sent : x.msg \in OutMsgs
    BY <1>1, <1>2, <1>3, <1>4 DEF TypeInv
  <2>3. QED
    BY <1>1, <1>2, <1>4, <2>1, <2>2 DEF TypeInv, netVars, serverVars
<1>6. StoreInv'
  <2>1. StoreMatchesMemory'
    BY <1>1, <1>2, <1>4 DEF StoreMatchesMemory, Restored
  <2>2. QED
    BY <1>1, <1>2, <1>3, <1>4, <2>1 DEF StoreInv
<1>7. NoMessageLost'
  <2>1. ASSUME NEW x \in OutMsgs, outStatus'[x] = "pending"
        PROVE  \/ \E n \in DOMAIN commands' : commands'[n].msg = x
               \/ \E n \in DOMAIN outbound : outbound[n].msg = x
    <3>1. x = m \/ outStatus[x] = "pending"
      BY <1>1, <1>2, <2>1 DEF DataTypes
    <3>2. x = m \/ (\E f \in Range(commands) : f.msg = x) \/ \E n \in DOMAIN outbound : outbound[n].msg = x
      BY <1>1, <3>1 DEF NoMessageLost, Range
    <3>3. (\E f \in Range(commands') : f.msg = x) \/ \E n \in DOMAIN outbound : outbound[n].msg = x
      BY <1>2, <1>3, <3>2
    <3>4. QED
      BY <3>3 DEF Range
  <2>2. QED
    BY <1>2, <2>1 DEF NoMessageLost
<1>8. QED
  BY <1>5, <1>6, <1>7 DEF FlowInv

\* An accepted message is in a list of the next state.
LEMMA KeptByLists ==
    ASSUME \A m \in OutMsgs : outStatus'[m] = "pending" =>
             \E x \in Range(commands') \cup Range(outbound') : x.msg = m
    PROVE  NoMessageLost'
BY DEF NoMessageLost, Range

\* An accepted message is in a list.
LEMMA InLists ==
    ASSUME NoMessageLost
    PROVE  \A m \in OutMsgs : outStatus[m] = "pending" =>
             \E x \in Range(commands) \cup Range(outbound) : x.msg = m
BY DEF NoMessageLost, Range

\* The command that MQTTAsync_processCommand takes off is in flight, and in the
\* store as such, afterwards.
LEMMA ProcessFlow ==
    ASSUME FlowInv, NEW ok \in BOOLEAN, ProcessPublish(ok)
    PROVE  FlowInv'
<1> DEFINE q == Head(commands)
           f == CreateMessage(q)
<1>1. TypeInv /\ DataTypes /\ StoreInv /\ NoMessageLost /\ StoreMatchesMemory
      /\ commands \in Seq(Queued) /\ store \in StoreType /\ outbound \in Seq(Flight)
      /\ toServer \in Seq(Packet) /\ toClient \in Seq(Packet)
  BY DEF FlowInv, TypeInv, DataTypes, StoreInv, StoreType
<1>2. /\ commands # <<>> /\ commands' = Tail(commands) /\ outbound' = Append(outbound, f)
      /\ store' = [store EXCEPT !.commands = Tail(commands), !.sent = store.sent \cup {q}]
      /\ UNCHANGED <<inbound, messageQueue, serverVars, outStatus, arrived>>
  BY DEF ProcessPublish
<1>3. /\ q \in Queued /\ q \in Range(commands) /\ Tail(commands) \in Seq(Queued)
      /\ Range(commands) = Range(Tail(commands)) \cup {q}
      /\ IdsIn(commands) = IdsIn(Tail(commands)) \cup {q.id}
      /\ UniqueIds(Tail(commands)) /\ q.id \notin IdsIn(Tail(commands))
  BY <1>1, <1>2, TailFacts DEF StoreInv
<1>4. f \in Flight /\ f.id = q.id /\ f.msg = q.msg /\ Pub(q, FALSE) \in Packet
  BY <1>3, MadeFacts
<1> HIDE DEF q, f
<1>5. /\ Append(outbound, f) \in Seq(Flight)
      /\ Range(Append(outbound, f)) = Range(outbound) \cup {f}
      /\ IdsIn(Append(outbound, f)) = IdsIn(outbound) \cup {f.id}
      /\ f.id \notin IdsIn(outbound) /\ UniqueIds(Append(outbound, f))
  <2>1. f.id \notin IdsIn(outbound) /\ UniqueIds(outbound)
    BY <1>1, <1>3, <1>4 DEF StoreInv
  <2>2. QED
    BY <1>1, <1>4, <2>1, AppendFacts
<1>6. store.sent \cup {q} \in SUBSET Queued
  BY <1>1, <1>3 DEF StoreType
<1>7. /\ store' \in StoreType /\ store'.commands = commands' /\ store'.sent = store.sent \cup {q}
      /\ store'.pubrel = store.pubrel /\ store'.received = store.received
      /\ store'.queue = store.queue
  <2>1. store \in StoreType /\ Tail(commands) \in Seq(Queued)
    BY <1>1, <1>3
  <2>2. QED
    BY <1>2, <1>6, <2>1 DEF StoreType
<1>8. /\ toServer' \in Seq(Packet) /\ toClient' \in Seq(Packet) /\ connected' \in BOOLEAN
      /\ toClient' = toClient \/ toClient' = <<>>
  <2>1. CASE ok
    <3>1. /\ toServer' = Append(toServer, Pub(q, FALSE)) /\ toClient' = toClient
          /\ connected' = connected
      BY <2>1 DEF ProcessPublish, q
    <3>2. connected' \in BOOLEAN
      BY <1>1, <3>1 DEF DataTypes
    <3>3. Append(toServer, Pub(q, FALSE)) \in Seq(Packet)
      <4> DEFINE x == Pub(q, FALSE)
      <4>1. x \in Packet
        BY <1>4
      <4> HIDE DEF x
      <4>2. Append(toServer, x) \in Seq(Packet)
        BY <1>1, <4>1
      <4>3. QED
        BY <4>2 DEF x
    <3>4. QED
      BY <1>1, <3>1, <3>2, <3>3
  <2>2. CASE ~ok
    <3>1. toServer' = <<>> /\ toClient' = <<>> /\ connected' = FALSE
      BY <2>2 DEF ProcessPublish, Disconnected
    <3>2. connected' \in BOOLEAN
      BY <3>1
    <3>3. QED
      BY <3>1, <3>2
  <2>3. QED
    BY <2>1, <2>2
<1>9. TypeInv'
  <2>1. DataTypes'
    BY <1>1, <1>2, <1>3, <1>5, <1>7, <1>8 DEF DataTypes, StoreType, serverVars
  <2>2. \A x \in Range(commands') \cup store'.sent : x.msg \in OutMsgs
    BY <1>1, <1>2, <1>3, <1>7 DEF TypeInv
  <2>3. \A x \in Range(toClient') : x.type = "PUBLISH" => x.msg \in InMsgs
    BY <1>1, <1>8 DEF TypeInv, Range
  <2>4. QED
    BY <1>1, <1>2, <1>7, <2>1, <2>2, <2>3 DEF TypeInv, serverVars
<1>10. StoreInv'
  <2>1. Restored(q) = f
    BY <1>1, <1>3, <1>4, <1>5 DEF StoreInv, Restored, f
  <2>2. \A x : Restored(x)' = Restored(x)
    BY <1>7 DEF Restored
  <2>3. Range(outbound') = {Restored(x)' : x \in store'.sent}
    BY <1>1, <1>2, <1>5, <1>7, <2>1, <2>2 DEF StoreMatchesMemory
  <2>4. StoreMatchesMemory'
    BY <1>1, <1>2, <1>7, <2>3 DEF StoreMatchesMemory
  <2>5. QED
    BY <1>1, <1>2, <1>3, <1>4, <1>5, <1>7, <2>4 DEF StoreInv
<1>11. NoMessageLost'
  <2>1. ASSUME NEW m \in OutMsgs, outStatus'[m] = "pending"
        PROVE  \E x \in Range(commands') \cup Range(outbound') : x.msg = m
    <3>1. PICK x \in Range(commands) \cup Range(outbound) : x.msg = m
      BY <1>1, <1>2, <2>1, InLists
    <3>2. QED
      BY <1>2, <1>3, <1>4, <1>5, <3>1
  <2>2. QED
    BY <2>1, KeptByLists
<1>12. QED
  BY <1>9, <1>10, <1>11 DEF FlowInv

\* The end of a flow forgets one message, in memory and in the store.
LEMMA FinishFlow ==
    ASSUME FlowInv, NEW f \in Range(outbound), Finish(f),
           UNCHANGED <<commands, inbound, messageQueue>>
    PROVE  /\ outbound' \in Seq(Flight) /\ store' \in StoreType
           /\ store'.sent \subseteq store.sent /\ store'.received = store.received
           /\ outStatus' \in [OutMsgs -> {"new", "pending", "complete"}]
           /\ StoreInv' /\ NoMessageLost'
<1>1. TypeInv /\ DataTypes /\ StoreInv /\ NoMessageLost /\ StoreMatchesMemory
      /\ store \in StoreType /\ outbound \in Seq(Flight) /\ UniqueIds(outbound)
  BY DEF FlowInv, TypeInv, DataTypes, StoreInv, StoreType
<1>2. /\ outbound' = Without(outbound, f.id)
      /\ store' = [store EXCEPT !.sent = store.sent \ ById(store.sent, f.id),
                                !.pubrel = store.pubrel \ {f.id}]
      /\ outStatus' = [outStatus EXCEPT ![f.msg] = "complete"]
  BY DEF Finish
<1>3. /\ outbound' \in Seq(Flight) /\ UniqueIds(outbound')
      /\ Range(outbound') = {x \in Range(outbound) : x.id # f.id}
  BY <1>1, <1>2, WithoutFacts
<1>4. /\ IdsIn(outbound) = {x.id : x \in Range(outbound)}
      /\ IdsIn(outbound') = {x.id : x \in Range(outbound')}
      /\ \A x, y \in Range(outbound) : x.id = y.id => x = y
  BY <1>1, <1>3, RangeFacts
<1>5. IdsIn(outbound') = IdsIn(outbound) \ {f.id}
  BY <1>3, <1>4
<1>6. /\ store.sent \ ById(store.sent, f.id) \in SUBSET Queued
      /\ store.pubrel \ {f.id} \in SUBSET Ids
  BY <1>1 DEF StoreType
<1>7. /\ store' \in StoreType /\ store'.commands = store.commands
      /\ store'.sent = store.sent \ ById(store.sent, f.id)
      /\ store'.pubrel = store.pubrel \ {f.id} /\ store'.received = store.received
      /\ store'.queue = store.queue
  <2>1. store \in StoreType
    BY <1>1
  <2>2. QED
    BY <1>2, <1>6, <2>1 DEF StoreType
<1>8. ASSUME NEW x \in store.sent, x.id # f.id PROVE Restored(x)' = Restored(x)
  BY <1>7, <1>8 DEF Restored
<1>9. \A x \in store.sent : Restored(x).id = x.id
  BY <1>1, MadeFacts DEF StoreType
<1>10. Range(outbound') = {Restored(x)' : x \in store'.sent}
  <2>1. ASSUME NEW g \in Range(outbound') PROVE \E x \in store'.sent : g = Restored(x)'
    <3>1. g.id # f.id /\ g \in Range(outbound)
      BY <1>3
    <3>2. PICK x \in store.sent : g = Restored(x)
      BY <1>1, <3>1 DEF StoreMatchesMemory
    <3>3. QED
      BY <1>7, <1>8, <1>9, <3>1, <3>2 DEF ById
  <2>2. ASSUME NEW x \in store'.sent PROVE Restored(x)' \in Range(outbound')
    <3>1. x \in store.sent /\ x.id # f.id
      BY <1>7 DEF ById
    <3>2. Restored(x) \in Range(outbound)
      BY <1>1, <3>1 DEF StoreMatchesMemory
    <3>3. QED
      BY <1>3, <1>8, <1>9, <3>1, <3>2
  <2>3. QED
    BY <2>1, <2>2
<1>11. StoreMatchesMemory'
  BY <1>1, <1>7, <1>10 DEF StoreMatchesMemory
<1>12. StoreInv'
  BY <1>1, <1>3, <1>5, <1>7, <1>11 DEF StoreInv
<1>13. NoMessageLost'
  <2>1. ASSUME NEW m \in OutMsgs, outStatus'[m] = "pending"
        PROVE  \E x \in Range(commands') \cup Range(outbound') : x.msg = m
    <3>1. m # f.msg /\ outStatus[m] = "pending"
      BY <1>1, <1>2, <2>1 DEF DataTypes
    <3>2. PICK x \in Range(commands) \cup Range(outbound) : x.msg = m
      BY <1>1, <3>1, InLists
    <3>3. x \in Range(outbound) => x.id # f.id
      BY <1>4, <3>1, <3>2
    <3>4. QED
      BY <1>3, <3>2, <3>3
  <2>2. QED
    BY <2>1, KeptByLists
<1>14. outStatus' \in [OutMsgs -> {"new", "pending", "complete"}]
  BY <1>1, <1>2 DEF DataTypes
<1>15. QED
  BY <1>3, <1>7, <1>12, <1>13, <1>14

\* MQTTProtocol_handlePubacks and handlePubcomps.
LEMMA PubackFlow ==
    ASSUME FlowInv, NEW type \in {"PUBACK", "PUBCOMP"}, HandlePuback(type)
    PROVE  FlowInv'
<1>1. TypeInv /\ DataTypes /\ StoreInv /\ NoMessageLost
  BY DEF FlowInv, TypeInv
<1>2. PICK p \in Range(toClient) :
        /\ FromServer(p, type, <<>>)
        /\ \/ \E f \in Waiting(p.id, type) : Finish(f)
           \/ Waiting(p.id, type) = {} /\ UNCHANGED <<outbound, store, outStatus>>
        /\ UNCHANGED <<commands, inbound, messageQueue, serverVars, arrived>>
  BY DEF HandlePuback
<1>3. /\ toClient' \in Seq(Packet) /\ toServer' \in Seq(Packet)
      /\ Range(toClient') \subseteq Range(toClient) /\ connected' = connected
  <2>1. <<>> \in Seq(Packet)
    OBVIOUS
  <2>2. QED
    BY <1>1, <1>2, <2>1, FromServerFacts
<1>4. /\ outbound' \in Seq(Flight) /\ store' \in StoreType
      /\ store'.sent \subseteq store.sent /\ store'.received = store.received
      /\ outStatus' \in [OutMsgs -> {"new", "pending", "complete"}]
      /\ StoreInv' /\ NoMessageLost'
  <2>1. ASSUME NEW f \in Waiting(p.id, type), Finish(f)
        PROVE  /\ outbound' \in Seq(Flight) /\ store' \in StoreType
               /\ store'.sent \subseteq store.sent /\ store'.received = store.received
               /\ outStatus' \in [OutMsgs -> {"new", "pending", "complete"}]
               /\ StoreInv' /\ NoMessageLost'
    <3>1. f \in Range(outbound)
      BY DEF Waiting, Range
    <3>2. QED
      BY <1>2, <2>1, <3>1, FinishFlow
  <2>2. CASE UNCHANGED <<outbound, store, outStatus>>
    BY <1>1, <1>2, <2>2, MemoryKept DEF DataTypes, StoreType, clientVars
  <2>3. QED
    BY <1>2, <2>1, <2>2
<1>5. TypeInv'
  <2>1. DataTypes'
    BY <1>1, <1>2, <1>3, <1>4 DEF DataTypes, StoreType, serverVars
  <2>2. QED
    BY <1>1, <1>2, <1>3, <1>4, <2>1 DEF TypeInv, serverVars
<1>6. QED
  BY <1>4, <1>5 DEF FlowInv

\* MQTTProtocol_handlePubrecs: the message waits for PUBCOMP, and the PUBREL in
\* the store says so.
LEMMA PubrecFlow ==
    ASSUME FlowInv, HandlePubrec
    PROVE  FlowInv'
<1>1. TypeInv /\ DataTypes /\ StoreInv /\ NoMessageLost /\ StoreMatchesMemory
      /\ store \in StoreType /\ outbound \in Seq(Flight) /\ UniqueIds(outbound)
  BY DEF FlowInv, TypeInv, DataTypes, StoreInv, StoreType
<1>2. PICK p \in Range(toClient) :
        /\ \/ /\ Waiting(p.id, "PUBREC") # {}
              /\ FromServer(p, "PUBREC", <<Reply("PUBREL", p)>>)
              /\ outbound' = AwaitPubcomp(outbound, p.id)
              /\ store' = [store EXCEPT !.pubrel = @ \cup {p.id}]
           \/ /\ Waiting(p.id, "PUBREC") = {}
              /\ FromServer(p, "PUBREC", <<>>)
              /\ UNCHANGED <<outbound, store>>
        /\ UNCHANGED <<commands, inbound, messageQueue, serverVars, outStatus, arrived>>
  BY DEF HandlePubrec
<1>3. p \in Packet
  BY <1>1 DEF DataTypes, Range
<1>4. <<>> \in Seq(Packet) /\ <<Reply("PUBREL", p)>> \in Seq(Packet)
  <2>1. Reply("PUBREL", p) \in Packet
    BY <1>3, MadeFacts
  <2>2. QED
    BY <2>1
<1>5. /\ toClient' \in Seq(Packet) /\ toServer' \in Seq(Packet)
      /\ Range(toClient') \subseteq Range(toClient) /\ connected' = connected
  <2>1. CASE FromServer(p, "PUBREC", <<Reply("PUBREL", p)>>)
    BY <1>1, <1>4, <2>1, FromServerFacts
  <2>2. CASE FromServer(p, "PUBREC", <<>>)
    BY <1>1, <1>4, <2>2, FromServerFacts
  <2>3. QED
    BY <1>2, <2>1, <2>2
<1>6. /\ outbound' \in Seq(Flight) /\ store' \in StoreType
      /\ store'.sent = store.sent /\ store'.received = store.received
      /\ StoreInv' /\ NoMessageLost'
  <2>1. CASE UNCHANGED <<outbound, store>>
    BY <1>1, <1>2, <2>1, MemoryKept DEF clientVars
  <2>2. CASE /\ Waiting(p.id, "PUBREC") # {}
             /\ outbound' = AwaitPubcomp(outbound, p.id)
             /\ store' = [store EXCEPT !.pubrel = @ \cup {p.id}]
    <3> DEFINE i == p.id
               M(f) == IF f.id = i THEN [f EXCEPT !.next = "PUBCOMP"] ELSE f
    <3>1. /\ outbound' \in Seq(Flight) /\ UniqueIds(outbound') /\ IdsIn(outbound') = IdsIn(outbound)
          /\ \A g \in Range(outbound') : \E f \in Range(outbound) : g = M(f)
          /\ \A f \in Range(outbound) : M(f) \in Range(outbound')
      BY <1>1, <2>2, AwaitFacts
    <3>2. i \in Ids /\ i \in IdsIn(outbound)
      BY <1>3, <2>2 DEF Packet, Waiting, IdsIn
    <3>3. store.pubrel \cup {i} \in SUBSET Ids
      BY <1>1, <3>2 DEF StoreType
    <3>4. /\ store' \in StoreType /\ store'.commands = store.commands
          /\ store'.sent = store.sent
          /\ store'.pubrel = store.pubrel \cup {i} /\ store'.received = store.received
          /\ store'.queue = store.queue
      BY ZenonT(60), <1>1, <2>2, <3>3, StoreMade
    <3> HIDE DEF i
    <3>5. ASSUME NEW q \in store.sent PROVE Restored(q)' = M(Restored(q))
      <4>1. q \in Queued
        BY <1>1 DEF StoreType
      <4>2. Restored(q).id = q.id
        BY <4>1, MadeFacts
      <4>3. CASE q.id = i
        <5>1. Restored(q)' = [CreateMessage(q) EXCEPT !.next = "PUBCOMP"]
          BY <3>4, <4>3 DEF Restored
        <5>2. [Restored(q) EXCEPT !.next = "PUBCOMP"] = [CreateMessage(q) EXCEPT !.next = "PUBCOMP"]
          BY DEF Restored, CreateMessage
        <5>3. QED
          BY <4>2, <4>3, <5>1, <5>2
      <4>4. CASE q.id # i
        BY <3>4, <4>2, <4>4 DEF Restored
      <4>5. QED
        BY <4>3, <4>4
    <3> HIDE DEF M
    <3>6. Range(outbound') = {Restored(q)' : q \in store'.sent}
      <4>1. ASSUME NEW g \in Range(outbound') PROVE \E q \in store'.sent : g = Restored(q)'
        <5>1. PICK f \in Range(outbound) : g = M(f)
          BY <3>1
        <5>2. PICK q \in store.sent : f = Restored(q)
          BY <1>1 DEF StoreMatchesMemory
        <5>3. QED
          BY <3>4, <3>5, <5>1, <5>2
      <4>2. ASSUME NEW q \in store'.sent PROVE Restored(q)' \in Range(outbound')
        <5>1. q \in store.sent /\ Restored(q) \in Range(outbound)
          BY <1>1, <3>4 DEF StoreMatchesMemory
        <5>2. QED
          BY <3>1, <3>5, <5>1
      <4>3. QED
        BY <4>1, <4>2
    <3>7. StoreMatchesMemory'
      BY <1>1, <1>2, <3>4, <3>6 DEF StoreMatchesMemory
    <3>8. StoreInv'
      BY <1>1, <1>2, <3>1, <3>2, <3>4, <3>7 DEF StoreInv
    <3>9. NoMessageLost'
      <4>1. ASSUME NEW m \in OutMsgs, outStatus'[m] = "pending"
            PROVE  \E x \in Range(commands') \cup Range(outbound') : x.msg = m
        <5>1. PICK x \in Range(commands) \cup Range(outbound) : x.msg = m
          BY <1>1, <1>2, <4>1, InLists
        <5>2. ASSUME x \in Range(outbound) PROVE M(x).msg = m /\ M(x) \in Range(outbound')
          <6>1. x \in Flight
            BY <1>1, <5>2 DEF Range
          <6>2. M(x).msg = x.msg
            BY <6>1 DEF M, Flight
          <6>3. QED
            BY <3>1, <5>1, <5>2, <6>2
        <5>3. QED
          BY <1>2, <5>1, <5>2
      <4>2. QED
        BY <4>1, KeptByLists
    <3>10. QED
      BY <3>1, <3>4, <3>8, <3>9
  <2>3. QED
    BY <1>2, <2>1, <2>2
<1>7. TypeInv'
  <2>1. DataTypes'
    BY <1>1, <1>2, <1>5, <1>6 DEF DataTypes, StoreType, serverVars
  <2>2. QED
    BY <1>1, <1>2, <1>5, <1>6, <2>1 DEF TypeInv, serverVars
<1>8. QED
  BY <1>6, <1>7 DEF FlowInv

\* Protocol_processPublication puts a message where the application finds it; the
\* store keeps the queue.
LEMMA PublicationFacts ==
    ASSUME DataTypes, NEW m \in InMsgs, NEW taken \in BOOLEAN, NEW st \in StoreType,
           st.queue = messageQueue, ProcessPublication(m, taken, st)
    PROVE  /\ messageQueue' \in Seq(InMsgs) /\ arrived' \in [InMsgs -> 0 .. Many]
           /\ store' \in StoreType /\ store'.queue = messageQueue'
           /\ store'.commands = st.commands /\ store'.sent = st.sent
           /\ store'.pubrel = st.pubrel /\ store'.received = st.received
<1>1. messageQueue \in Seq(InMsgs) /\ arrived \in [InMsgs -> 0 .. Many] /\ Many \in Nat
  BY FlowAssumption DEF DataTypes
<1>2. CASE taken /\ messageQueue = <<>>
  <2>1. arrived' = Tick(arrived, m) /\ store' = st /\ messageQueue' = messageQueue
    BY <1>2 DEF ProcessPublication
  <2>2. Tick(arrived, m) \in [InMsgs -> 0 .. Many]
    BY <1>1 DEF Tick
  <2>3. QED
    BY <1>1, <2>1, <2>2
<1>3. CASE ~(taken /\ messageQueue = <<>>)
  <2>1. /\ messageQueue' = Append(messageQueue, m) /\ arrived' = arrived
        /\ store' = [st EXCEPT !.queue = messageQueue']
    BY <1>3 DEF ProcessPublication
  <2>2. messageQueue' \in Seq(InMsgs)
    BY <1>1, <2>1
  <2>3. PICK x \in Seq(InMsgs) : x = messageQueue'
    BY <2>2
  <2>4. store' = [st EXCEPT !.queue = x]
    BY <2>1, <2>3
  <2>5. /\ store' \in StoreType /\ store'.queue = x
        /\ store'.commands = st.commands /\ store'.sent = st.sent
        /\ store'.pubrel = st.pubrel /\ store'.received = st.received
    BY ONLY st \in StoreType, <2>4, StoreMade
  <2>6. QED
    BY <1>1, <2>1, <2>2, <2>3, <2>5
<1>4. QED
  BY <1>2, <1>3

\* MQTTPacket_Factory replaces what the store has for the id.
LEMMA ReceivedFacts ==
    ASSUME TypeInv, StoreInv, NEW p \in Packet, p.msg \in InMsgs
    PROVE  /\ Received(p) \in StoreType
           /\ Received(p).received = IF p.msg \in Qos2
                THEN (store.received \ ById(store.received, p.id)) \cup {[msg |-> p.msg, id |-> p.id]}
                ELSE store.received
           /\ Received(p).commands = store.commands /\ Received(p).sent = store.sent
           /\ Received(p).pubrel = store.pubrel /\ Received(p).queue = store.queue
           /\ \A q, r \in Received(p).received : q.id = r.id => q = r
           /\ \A q \in Received(p).received : q.msg \in InMsgs
<1> DEFINE q == [msg |-> p.msg, id |-> p.id]
           S == (store.received \ ById(store.received, p.id)) \cup {q}
<1>1. store \in StoreType /\ q \in Queued /\ q.id = p.id /\ q.msg = p.msg
  BY DEF TypeInv, DataTypes, StoreType, Queued, Packet
<1>2. /\ S \in SUBSET Queued /\ \A x, y \in S : x.id = y.id => x = y
      /\ \A x \in S : x.msg \in InMsgs
  <2>1. \A x \in store.received : x \in Queued /\ x.msg \in InMsgs
    BY <1>1 DEF StoreType, TypeInv
  <2> HIDE DEF q
  <2>2. \A x \in S : (x \in store.received /\ x.id # p.id) \/ x = q
    BY DEF ById
  <2>3. QED
    BY <1>1, <2>1, <2>2 DEF StoreInv
<1>3. CASE p.msg \in Qos2
  <2>1. Received(p) = [store EXCEPT !.received = S]
    BY <1>3 DEF Received
  <2> HIDE DEF S
  <2>2. /\ Received(p) \in StoreType /\ Received(p).received = S
        /\ Received(p).commands = store.commands /\ Received(p).sent = store.sent
        /\ Received(p).pubrel = store.pubrel /\ Received(p).queue = store.queue
    <3>1. store \in StoreType /\ S \in SUBSET Queued
      BY <1>1, <1>2
    <3>2. QED
      BY <2>1, <3>1 DEF StoreType
  <2>3. QED
    BY <1>2, <1>3, <2>2 DEF S
<1>4. CASE p.msg \notin Qos2
  <2>1. Received(p) = store
    BY <1>4 DEF Received
  <2>2. QED
    BY <1>1, <1>4, <2>1 DEF StoreInv, TypeInv
<1>5. QED
  BY <1>3, <1>4

\* A step of the receiving side that keeps commands and outbound as they are and
\* writes to the store what it has in memory.
LEMMA ReceivingKept ==
    ASSUME FlowInv, UNCHANGED <<commands, outbound, serverVars, outStatus>>,
           toClient' \in Seq(Packet), toServer' \in Seq(Packet), connected' \in BOOLEAN,
           Range(toClient') \subseteq Range(toClient),
           messageQueue' \in Seq(InMsgs), arrived' \in [InMsgs -> 0 .. Many],
           store' \in StoreType, store'.queue = messageQueue',
           store'.commands = store.commands, store'.sent = store.sent,
           store'.pubrel = store.pubrel, inbound' \subseteq store'.received,
           \A q \in store'.received : q.msg \in InMsgs,
           \A q, r \in store'.received : q.id = r.id => q = r
    PROVE  FlowInv'
<1>1. TypeInv /\ DataTypes /\ StoreInv /\ NoMessageLost /\ StoreMatchesMemory
  BY DEF FlowInv, TypeInv, StoreInv
<1>2. inbound' \in SUBSET Queued
  BY DEF StoreType
<1>3. DataTypes'
  BY <1>1, <1>2 DEF DataTypes, StoreType, serverVars
<1>4. TypeInv'
  BY <1>1, <1>3 DEF TypeInv, serverVars
<1>5. StoreMatchesMemory'
  BY <1>1 DEF StoreMatchesMemory, Restored
<1>6. StoreInv'
  BY <1>1, <1>5 DEF StoreInv
<1>7. NoMessageLost'
  BY <1>1 DEF NoMessageLost
<1>8. QED
  BY <1>4, <1>6, <1>7 DEF FlowInv

\* MQTTProtocol_handlePublishes.
LEMMA HandlePublishFlow ==
    ASSUME FlowInv, NEW taken \in BOOLEAN, HandlePublish(taken)
    PROVE  FlowInv'
<1>1. TypeInv /\ DataTypes /\ StoreInv /\ NoMessageLost /\ StoreMatchesMemory
      /\ store \in StoreType /\ connected \in BOOLEAN /\ store.queue = messageQueue
      /\ messageQueue \in Seq(InMsgs) /\ arrived \in [InMsgs -> 0 .. Many]
  BY DEF FlowInv, TypeInv, DataTypes, StoreInv, StoreType, StoreMatchesMemory
<1>2. PICK p \in Range(toClient) :
        /\ \/ /\ p.msg \notin Qos2
              /\ FromServer(p, "PUBLISH", <<Reply("PUBACK", p)>>)
              /\ ProcessPublication(p.msg, taken, store)
              /\ UNCHANGED inbound
           \/ /\ p.msg \in Qos2
              /\ FromServer(p, "PUBLISH", <<Reply("PUBREC", p)>>)
              /\ inbound' = (inbound \ ById(inbound, p.id))
                                \cup {[msg |-> p.msg, id |-> p.id]}
              /\ IF Version5 /\ ById(inbound, p.id) = {}
                 THEN ProcessPublication(p.msg, taken, Received(p))
                 ELSE /\ store' = Received(p)
                      /\ UNCHANGED <<messageQueue, arrived>>
        /\ UNCHANGED <<commands, outbound, serverVars, outStatus>>
  BY DEF HandlePublish
<1>3. p \in Packet
  BY <1>1 DEF DataTypes, Range
<1>4. <<Reply("PUBREC", p)>> \in Seq(Packet) /\ <<Reply("PUBACK", p)>> \in Seq(Packet)
  <2>1. Reply("PUBREC", p) \in Packet /\ Reply("PUBACK", p) \in Packet
    BY <1>3, MadeFacts
  <2>2. QED
    BY <2>1
<1>5. /\ toClient' \in Seq(Packet) /\ toServer' \in Seq(Packet) /\ p.type = "PUBLISH"
      /\ Range(toClient') \subseteq Range(toClient) /\ connected' = connected
  <2>1. CASE FromServer(p, "PUBLISH", <<Reply("PUBACK", p)>>)
    BY <1>1, <1>4, <2>1, FromServerFacts
  <2>2. CASE FromServer(p, "PUBLISH", <<Reply("PUBREC", p)>>)
    BY <1>1, <1>4, <2>2, FromServerFacts
  <2>3. QED
    BY <1>2, <2>1, <2>2
<1>6. p.msg \in InMsgs /\ connected' \in BOOLEAN
  <2>1. p.msg \in InMsgs
    BY <1>1, <1>5 DEF TypeInv
  <2>2. connected' \in BOOLEAN
    BY <1>1, <1>5
  <2>3. QED
    BY <2>1, <2>2
<1>7. CASE /\ p.msg \notin Qos2
           /\ ProcessPublication(p.msg, taken, store)
           /\ UNCHANGED inbound
  <2>1. /\ messageQueue' \in Seq(InMsgs) /\ arrived' \in [InMsgs -> 0 .. Many]
        /\ store' \in StoreType /\ store'.queue = messageQueue'
        /\ store'.commands = store.commands /\ store'.sent = store.sent
        /\ store'.pubrel = store.pubrel /\ store'.received = store.received
    BY <1>1, <1>6, <1>7, PublicationFacts
  <2>2. /\ inbound' \subseteq store'.received
        /\ \A q \in store'.received : q.msg \in InMsgs
        /\ \A q, r \in store'.received : q.id = r.id => q = r
    BY <1>1, <1>7, <2>1 DEF StoreMatchesMemory, TypeInv, StoreInv
  <2>3. QED
    BY <1>2, <1>5, <1>6, <2>1, <2>2, ReceivingKept
<1>8. CASE /\ p.msg \in Qos2
           /\ inbound' = (inbound \ ById(inbound, p.id))
                                \cup {[msg |-> p.msg, id |-> p.id]}
           /\ IF Version5 /\ ById(inbound, p.id) = {}
              THEN ProcessPublication(p.msg, taken, Received(p))
              ELSE /\ store' = Received(p)
                   /\ UNCHANGED <<messageQueue, arrived>>
  <2> DEFINE st == Received(p)
  <2>1. /\ st \in StoreType
        /\ st.received = (store.received \ ById(store.received, p.id)) \cup {[msg |-> p.msg, id |-> p.id]}
        /\ st.commands = store.commands /\ st.sent = store.sent
        /\ st.pubrel = store.pubrel /\ st.queue = store.queue
        /\ \A q, r \in st.received : q.id = r.id => q = r
        /\ \A q \in st.received : q.msg \in InMsgs
    BY <1>1, <1>3, <1>6, <1>8, ReceivedFacts
  <2>2. inbound' \subseteq st.received
    BY <1>1, <1>8, <2>1 DEF StoreMatchesMemory, ById
  <2> HIDE DEF st
  <2>3. /\ messageQueue' \in Seq(InMsgs) /\ arrived' \in [InMsgs -> 0 .. Many]
        /\ store' \in StoreType /\ store'.queue = messageQueue'
        /\ store'.commands = store.commands /\ store'.sent = store.sent
        /\ store'.pubrel = store.pubrel /\ store'.received = st.received
    <3>1. CASE ProcessPublication(p.msg, taken, st)
      <4>1. st.queue = messageQueue
        BY <1>1, <2>1
      <4>2. /\ messageQueue' \in Seq(InMsgs) /\ arrived' \in [InMsgs -> 0 .. Many]
            /\ store' \in StoreType /\ store'.queue = messageQueue'
            /\ store'.commands = st.commands /\ store'.sent = st.sent
            /\ store'.pubrel = st.pubrel /\ store'.received = st.received
        BY <1>1, <1>6, <2>1, <3>1, <4>1, PublicationFacts
      <4>3. QED
        BY <2>1, <4>2
    <3>2. CASE store' = st /\ UNCHANGED <<messageQueue, arrived>>
      BY <1>1, <2>1, <3>2
    <3>3. QED
      BY <1>8, <3>1, <3>2 DEF st
  <2>4. QED
    BY <1>2, <1>5, <1>6, <2>1, <2>2, <2>3, ReceivingKept
<1>9. QED
  BY <1>2, <1>7, <1>8

\* MQTTProtocol_handlePubrels.
LEMMA PubrelFlow ==
    ASSUME FlowInv, NEW taken \in BOOLEAN, HandlePubrel(taken)
    PROVE  FlowInv'
<1>1. TypeInv /\ DataTypes /\ StoreInv /\ NoMessageLost /\ StoreMatchesMemory
      /\ store \in StoreType /\ connected \in BOOLEAN /\ store.queue = messageQueue
      /\ messageQueue \in Seq(InMsgs) /\ arrived \in [InMsgs -> 0 .. Many]
      /\ inbound \subseteq store.received
  BY DEF FlowInv, TypeInv, DataTypes, StoreInv, StoreType, StoreMatchesMemory
<1>2. PICK p \in Range(toClient) :
        /\ \/ \E q \in ById(inbound, p.id) :
                /\ FromServer(p, "PUBREL", <<Reply("PUBCOMP", p)>>)
                /\ inbound' = inbound \ {q}
                /\ IF ~Version5
                   THEN ProcessPublication(q.msg, taken,
                                           [store EXCEPT !.received = @ \ ById(@, p.id)])
                   ELSE /\ store' = [store EXCEPT !.received = @ \ ById(@, p.id)]
                        /\ UNCHANGED <<messageQueue, arrived>>
           \/ /\ ById(inbound, p.id) = {}
              /\ FromServer(p, "PUBREL", IF p.dup THEN <<Reply("PUBCOMP", p)>> ELSE <<>>)
              /\ UNCHANGED <<inbound, store, messageQueue, arrived>>
        /\ UNCHANGED <<commands, outbound, serverVars, outStatus>>
  BY DEF HandlePubrel
<1>3. p \in Packet
  BY <1>1 DEF DataTypes, Range
<1>4. <<Reply("PUBCOMP", p)>> \in Seq(Packet) /\ <<>> \in Seq(Packet)
      /\ (IF p.dup THEN <<Reply("PUBCOMP", p)>> ELSE <<>>) \in Seq(Packet)
  <2>1. Reply("PUBCOMP", p) \in Packet
    BY <1>3, MadeFacts
  <2>2. QED
    BY <2>1
<1>5. /\ toClient' \in Seq(Packet) /\ toServer' \in Seq(Packet)
      /\ Range(toClient') \subseteq Range(toClient) /\ connected' = connected
  <2>1. CASE FromServer(p, "PUBREL", <<Reply("PUBCOMP", p)>>)
    BY <1>1, <1>4, <2>1, FromServerFacts
  <2>2. CASE FromServer(p, "PUBREL", IF p.dup THEN <<Reply("PUBCOMP", p)>> ELSE <<>>)
    BY <1>1, <1>4, <2>2, FromServerFacts
  <2>3. QED
    BY <1>2, <2>1, <2>2
<1>6. connected' \in BOOLEAN
  BY <1>1, <1>5
<1>7. CASE UNCHANGED <<inbound, store, messageQueue, arrived>>
  <2>1. /\ inbound' \subseteq store'.received
        /\ \A q \in store'.received : q.msg \in InMsgs
        /\ \A q, r \in store'.received : q.id = r.id => q = r
    BY <1>1, <1>7 DEF TypeInv, StoreInv
  <2>2. QED
    BY <1>1, <1>2, <1>5, <1>6, <1>7, <2>1, ReceivingKept
<1>8. ASSUME NEW q \in ById(inbound, p.id), inbound' = inbound \ {q},
             IF ~Version5
             THEN ProcessPublication(q.msg, taken,
                                     [store EXCEPT !.received = @ \ ById(@, p.id)])
             ELSE /\ store' = [store EXCEPT !.received = @ \ ById(@, p.id)]
                  /\ UNCHANGED <<messageQueue, arrived>>
      PROVE  FlowInv'
  <2> DEFINE st == [store EXCEPT !.received = @ \ ById(@, p.id)]
  <2>1. store.received \ ById(store.received, p.id) \in SUBSET Queued
    BY <1>1 DEF StoreType
  <2>2. /\ st \in StoreType /\ st.received = store.received \ ById(store.received, p.id)
        /\ st.commands = store.commands /\ st.sent = store.sent
        /\ st.pubrel = store.pubrel /\ st.queue = store.queue
    <3>1. store \in StoreType
      BY <1>1
    <3> DEFINE S == store.received \ ById(store.received, p.id)
    <3>2. st = [store EXCEPT !.received = S]
      OBVIOUS
    <3>3. S \in SUBSET Queued
      BY <2>1
    <3> HIDE DEF S, st
    <3>4. /\ st \in StoreType /\ st.received = S /\ st.commands = store.commands
          /\ st.sent = store.sent /\ st.pubrel = store.pubrel /\ st.queue = store.queue
      BY ONLY <3>1, <3>2, <3>3 DEF StoreType
    <3>5. QED
      BY <3>4 DEF S
  <2>3. /\ q \in inbound /\ q.id = p.id /\ q.msg \in InMsgs
    BY <1>1 DEF ById, TypeInv
  <2>4. /\ inbound' \subseteq st.received
        /\ \A x \in st.received : x.msg \in InMsgs
        /\ \A x, y \in st.received : x.id = y.id => x = y
    BY <1>1, <1>8, <2>2, <2>3 DEF TypeInv, StoreInv, ById
  <2> HIDE DEF st
  <2>5. /\ messageQueue' \in Seq(InMsgs) /\ arrived' \in [InMsgs -> 0 .. Many]
        /\ store' \in StoreType /\ store'.queue = messageQueue'
        /\ store'.commands = store.commands /\ store'.sent = store.sent
        /\ store'.pubrel = store.pubrel /\ store'.received = st.received
    <3>1. CASE ProcessPublication(q.msg, taken, st)
      <4>1. st.queue = messageQueue
        BY <1>1, <2>2
      <4>2. /\ messageQueue' \in Seq(InMsgs) /\ arrived' \in [InMsgs -> 0 .. Many]
            /\ store' \in StoreType /\ store'.queue = messageQueue'
            /\ store'.commands = st.commands /\ store'.sent = st.sent
            /\ store'.pubrel = st.pubrel /\ store'.received = st.received
        BY <1>1, <2>2, <2>3, <3>1, <4>1, PublicationFacts
      <4>3. QED
        BY <2>2, <4>2
    <3>2. CASE store' = st /\ UNCHANGED <<messageQueue, arrived>>
      BY <1>1, <2>2, <3>2
    <3>3. QED
      BY <1>8, <3>1, <3>2 DEF st
  <2>6. QED
    BY <1>2, <1>5, <1>6, <2>4, <2>5, ReceivingKept
<1>9. QED
  BY <1>2, <1>7, <1>8

\* Both, while a write is pending on the socket.  What MQTTPacket_Factory put into
\* the store replaces only the same message.
LEMMA WritingFlow ==
    ASSUME FlowInv, HandleWhileWriting,
           \A p \in Range(toClient) : \A q \in store.received :
             p.type = "PUBLISH" /\ q.id = p.id => q.msg = p.msg
    PROVE  FlowInv'
<1> DEFINE p == Head(toClient)
<1>1. TypeInv /\ DataTypes /\ StoreInv /\ StoreMatchesMemory /\ store \in StoreType
      /\ toClient \in Seq(Packet) /\ messageQueue \in Seq(InMsgs)
      /\ arrived \in [InMsgs -> 0 .. Many]
      /\ store.queue = messageQueue /\ inbound \subseteq store.received
  BY DEF FlowInv, TypeInv, DataTypes, StoreInv, StoreType, StoreMatchesMemory
<1>2. /\ toClient # <<>> /\ connected' = FALSE /\ toServer' = <<>> /\ toClient' = <<>>
      /\ store' = IF p.type = "PUBLISH" THEN Received(p) ELSE store
      /\ UNCHANGED <<clientVars, serverVars, outStatus, arrived>>
  BY DEF HandleWhileWriting, Disconnected
<1>3. p \in Packet /\ p \in Range(toClient)
  BY <1>1, <1>2, TailFacts
<1> HIDE DEF p
<1>4. /\ toClient' \in Seq(Packet) /\ toServer' \in Seq(Packet)
      /\ Range(toClient') \subseteq Range(toClient)
  BY <1>2 DEF Range
<1>5. connected' \in BOOLEAN
  BY <1>2
<1>6. UNCHANGED <<commands, outbound, inbound, messageQueue, serverVars, outStatus, arrived>>
  BY <1>2 DEF clientVars
<1>7. /\ store' \in StoreType /\ store'.queue = messageQueue'
      /\ store'.commands = store.commands /\ store'.sent = store.sent
      /\ store'.pubrel = store.pubrel /\ inbound' \subseteq store'.received
      /\ \A q \in store'.received : q.msg \in InMsgs
      /\ \A q, r \in store'.received : q.id = r.id => q = r
  <2>1. CASE p.type = "PUBLISH"
    <3>1. store' = Received(p) /\ p.msg \in InMsgs
      BY <1>1, <1>2, <1>3, <2>1 DEF TypeInv
    <3>2. inbound' \subseteq Received(p).received
      <4>1. Received(p).received = IF p.msg \in Qos2
              THEN (store.received \ ById(store.received, p.id)) \cup {[msg |-> p.msg, id |-> p.id]}
              ELSE store.received
        BY <1>1, <1>3, <3>1, ReceivedFacts
      <4>2. \A q \in store.received : q \in Queued
        BY <1>1 DEF StoreType
      <4>3. \A q \in store.received : q.id = p.id => q = [msg |-> p.msg, id |-> p.id]
        BY <1>3, <2>1, <4>2 DEF Queued
      <4>4. store.received \subseteq Received(p).received
        BY <4>1, <4>3 DEF ById
      <4>5. QED
        BY <1>1, <1>6, <4>4
    <3>3. /\ Received(p) \in StoreType
          /\ Received(p).commands = store.commands /\ Received(p).sent = store.sent
          /\ Received(p).pubrel = store.pubrel /\ Received(p).queue = store.queue
          /\ \A q, r \in Received(p).received : q.id = r.id => q = r
          /\ \A q \in Received(p).received : q.msg \in InMsgs
      BY <1>1, <1>3, <3>1, ReceivedFacts
    <3>4. QED
      BY <1>1, <1>6, <3>1, <3>2, <3>3
  <2>2. CASE p.type # "PUBLISH"
    BY <1>1, <1>2, <1>6, <2>2 DEF TypeInv, StoreInv
  <2>3. QED
    BY <2>1, <2>2
<1>8. messageQueue' \in Seq(InMsgs) /\ arrived' \in [InMsgs -> 0 .. Many]
  BY <1>1, <1>6
<1>9. QED
  BY <1>4, <1>5, <1>6, <1>7, <1>8, ReceivingKept

\* MQTTAsync_receiveThread offers the first queued message again, and it is taken.
LEMMA QueuedFlow ==
    ASSUME FlowInv, DeliverQueued(TRUE)
    PROVE  FlowInv'
<1>1. TypeInv /\ DataTypes /\ StoreInv /\ StoreMatchesMemory /\ store \in StoreType
      /\ messageQueue \in Seq(InMsgs) /\ arrived \in [InMsgs -> 0 .. Many] /\ Many \in Nat
      /\ inbound \subseteq store.received
      /\ toClient \in Seq(Packet) /\ toServer \in Seq(Packet)
  BY FlowAssumption DEF FlowInv, TypeInv, DataTypes, StoreInv, StoreType, StoreMatchesMemory
<1>2. /\ messageQueue # <<>> /\ arrived' = Tick(arrived, Head(messageQueue))
      /\ messageQueue' = Tail(messageQueue)
      /\ store' = [store EXCEPT !.queue = messageQueue']
      /\ UNCHANGED <<commands, outbound, inbound, connected, toServer, toClient,
                     serverVars, outStatus>>
  BY DEF DeliverQueued
<1>3. messageQueue' \in Seq(InMsgs) /\ Head(messageQueue) \in InMsgs
  BY <1>1, <1>2
<1>4. arrived' \in [InMsgs -> 0 .. Many]
  BY <1>1, <1>2, <1>3 DEF Tick
<1>5. /\ store' \in StoreType /\ store'.queue = messageQueue'
      /\ store'.commands = store.commands /\ store'.sent = store.sent
      /\ store'.pubrel = store.pubrel /\ store'.received = store.received
  BY ZenonT(60), <1>1, <1>2, <1>3, StoreMade
<1>6. UNCHANGED <<connected, toServer, toClient>>
  BY <1>2
<1>7. connected' \in BOOLEAN
  BY <1>1, <1>6 DEF DataTypes
<1>8. /\ inbound' \subseteq store'.received
      /\ \A q \in store'.received : q.msg \in InMsgs
      /\ \A q, r \in store'.received : q.id = r.id => q = r
  BY <1>1, <1>2, <1>5 DEF TypeInv, StoreInv
<1>9. toClient' \in Seq(Packet) /\ toServer' \in Seq(Packet)
      /\ Range(toClient') \subseteq Range(toClient)
  BY <1>1, <1>6
<1>10. UNCHANGED <<commands, outbound, serverVars, outStatus>>
  BY <1>2
<1>11. QED
  BY <1>3, <1>4, <1>5, <1>7, <1>8, <1>9, <1>10, ReceivingKept

----------------------------------------------------------------------------
(* Connections and restarts *)

\* A step that leaves the client's lists, its store and the server's messages
\* alone and puts packets of their directions on the connection.
LEMMA NetworkKept ==
    ASSUME FlowInv, UNCHANGED <<clientVars, store, serverVars, outStatus, arrived>>,
           toClient' \in Seq(Packet), toServer' \in Seq(Packet), connected' \in BOOLEAN,
           \A p \in Range(toClient') : p.type = "PUBLISH" => p.msg \in InMsgs
    PROVE  FlowInv'
<1>1. TypeInv /\ DataTypes /\ StoreInv /\ NoMessageLost
  BY DEF FlowInv, TypeInv
<1>2. DataTypes'
  BY <1>1 DEF DataTypes, clientVars, serverVars
<1>3. TypeInv'
  BY <1>1, <1>2 DEF TypeInv, clientVars, serverVars
<1>4. StoreInv' /\ NoMessageLost'
  BY <1>1, MemoryKept
<1>5. QED
  BY <1>3, <1>4 DEF FlowInv

\* MQTTProtocol_retry, and the server's retries.
LEMMA ConnectFlow ==
    ASSUME FlowInv, Connect
    PROVE  FlowInv'
<1>1. TypeInv /\ outbound \in Seq(Flight) /\ serverOut \in Seq(Flight)
      /\ \A f \in Range(serverOut) : f.msg \in InMsgs
  BY DEF FlowInv, TypeInv, DataTypes
<1>2. PICK k \in 0 .. Len(outbound) :
        /\ connected' = TRUE /\ toServer' = ResentTo(outbound, k, FALSE)
        /\ toClient' = Resent(serverOut, PubrelDup)
        /\ UNCHANGED <<clientVars, store, serverVars, outStatus, arrived>>
  BY DEF Connect, ResendTo, ResentTo, Resent
<1>3. connected' \in BOOLEAN
  BY <1>2
<1>4. PubrelDup \in BOOLEAN /\ FALSE \in BOOLEAN
  BY FlowAssumption
<1>5. toServer' \in Seq(Packet) /\ toClient' \in Seq(Packet)
      /\ \A p \in Range(toClient') : \E f \in Range(serverOut) : p = Retry(f, PubrelDup)
  BY <1>1, <1>2, <1>4, ResentFacts, ResentToFacts
<1>6. \A f \in Range(serverOut) : Retry(f, PubrelDup).msg = f.msg
  BY DEF Retry, Pub
<1>7. \A p \in Range(toClient') : p.type = "PUBLISH" => p.msg \in InMsgs
  BY <1>1, <1>5, <1>6
<1>8. QED
  BY <1>2, <1>3, <1>5, <1>7, NetworkKept

\* A step that only makes the receive thread offer the first queued message, or
\* only has it refused.
LEMMA OfferFlow ==
    ASSUME FlowInv, SocketEvent \/ DeliverQueued(FALSE)
    PROVE  FlowInv'
<1>1. /\ UNCHANGED <<clientVars, store, serverVars, outStatus, arrived>>
      /\ UNCHANGED <<connected, toServer, toClient>>
  BY DEF SocketEvent, DeliverQueued, clientVars
<1>2. /\ toClient' \in Seq(Packet) /\ toServer' \in Seq(Packet) /\ connected' \in BOOLEAN
      /\ \A p \in Range(toClient') : p.type = "PUBLISH" => p.msg \in InMsgs
  BY <1>1 DEF FlowInv, TypeInv, DataTypes
<1>3. QED
  BY <1>1, <1>2, NetworkKept

\* The connection is lost with what is on it.
LEMMA LostFlow ==
    ASSUME FlowInv, ConnectionLost
    PROVE  FlowInv'
<1>1. /\ connected' = FALSE /\ toServer' = <<>> /\ toClient' = <<>>
      /\ UNCHANGED <<clientVars, store, serverVars, outStatus, arrived>>
  BY DEF ConnectionLost, Disconnected
<1>2. connected' \in BOOLEAN
  BY <1>1
<1>3. /\ toServer' \in Seq(Packet) /\ toClient' \in Seq(Packet)
      /\ \A p \in Range(toClient') : p.type = "PUBLISH" => p.msg \in InMsgs
  BY <1>1 DEF Range
<1>4. QED
  BY <1>1, <1>2, <1>3, NetworkKept

\* A restart restores what was in memory.
LEMMA RestartFlow ==
    ASSUME FlowInv, Restart
    PROVE  FlowInv'
<1> DEFINE S == {Restored(q) : q \in store.sent}
<1>1. TypeInv /\ DataTypes /\ StoreInv /\ NoMessageLost /\ StoreMatchesMemory
      /\ store \in StoreType /\ outbound \in Seq(Flight) /\ UniqueIds(outbound)
      /\ Range(outbound) = S /\ store.commands = commands /\ store.queue = messageQueue
      /\ inbound \subseteq store.received /\ store.pubrel \subseteq IdsIn(outbound)
  BY DEF FlowInv, TypeInv, DataTypes, StoreInv, StoreType, StoreMatchesMemory
<1>2. /\ commands' = commands /\ outbound' = InOrder(S) /\ inbound' = store.received
      /\ messageQueue' = messageQueue
      /\ store' = [store EXCEPT !.pubrel = @ \cap {q.id : q \in store.sent}]
      /\ connected' = FALSE /\ toServer' = <<>> /\ toClient' = <<>>
      /\ UNCHANGED <<serverVars, outStatus, arrived>>
  BY <1>1 DEF Restart, Disconnected
<1>3. \A q \in store.sent : q \in Queued /\ Restored(q) \in Flight /\ Restored(q).id = q.id
  BY <1>1, MadeFacts DEF StoreType
<1>4. IdsIn(outbound) = {x.id : x \in S} /\ IsFiniteSet(S) /\ S \subseteq Flight
      /\ \A x, y \in S : x.id = y.id => x = y
  BY <1>1, RangeFacts
<1>5. {x.id : x \in S} = {q.id : q \in store.sent}
  BY <1>3
<1>6. store.pubrel \cap {q.id : q \in store.sent} = store.pubrel
  BY <1>1, <1>4, <1>5
<1>7. store' = store
  BY <1>1, <1>2, <1>6 DEF StoreType
<1> HIDE DEF S
<1>8. /\ outbound' \in Seq(S) /\ UniqueIds(outbound') /\ Range(outbound') = S
  <2>1. \A x \in S : x.id \in Int
    BY <1>4 DEF Flight, Ids
  <2>2. QED
    BY <1>2, <1>4, <2>1, InOrderFacts
<1>9. outbound' \in Seq(Flight) /\ IdsIn(outbound') = IdsIn(outbound)
  <2>1. outbound' \in Seq(Flight)
    BY <1>4, <1>8
  <2>2. IdsIn(outbound') = {x.id : x \in Range(outbound')}
    BY DEF IdsIn, Range
  <2>3. QED
    BY <1>4, <1>8, <2>1, <2>2
<1>10. TypeInv'
  <2>1. connected' \in BOOLEAN
    BY <1>2
  <2>2. toServer' \in Seq(Packet) /\ toClient' \in Seq(Packet) /\ inbound' \in SUBSET Queued
    BY <1>1, <1>2 DEF StoreType
  <2>3. DataTypes'
    BY <1>1, <1>2, <1>7, <1>9, <2>1, <2>2 DEF DataTypes, serverVars
  <2>4. QED
    BY <1>1, <1>2, <1>7, <2>3 DEF TypeInv, serverVars, Range
<1>11. StoreMatchesMemory'
  <2>1. S = {Restored(q) : q \in store.sent}' /\ inbound' = store.received
    BY <1>2, <1>7 DEF S, Restored
  <2>2. QED
    BY <1>1, <1>2, <1>7, <1>8, <2>1 DEF StoreMatchesMemory
<1>12. StoreInv'
  BY <1>1, <1>2, <1>7, <1>8, <1>9, <1>11 DEF StoreInv
<1>13. NoMessageLost'
  <2>1. Range(commands') = Range(commands) /\ Range(outbound') = Range(outbound)
    BY <1>1, <1>2, <1>8
  <2>2. ASSUME NEW m \in OutMsgs, outStatus'[m] = "pending"
        PROVE  \E x \in Range(commands') \cup Range(outbound') : x.msg = m
    BY <1>1, <1>2, <2>1, <2>2, InLists
  <2>3. QED
    BY <2>2, KeptByLists
<1>14. QED
  BY <1>10, <1>12, <1>13 DEF FlowInv

----------------------------------------------------------------------------
(* The server *)

\* A step of the server's: its own lists and counts keep their types.
LEMMA ServerKept ==
    ASSUME FlowInv, UNCHANGED <<connected, clientVars, store, outStatus, arrived>>,
           toClient' \in Seq(Packet), toServer' \in Seq(Packet),
           \A p \in Range(toClient') : p.type = "PUBLISH" => p.msg \in InMsgs,
           serverOut' \in Seq(Flight), UniqueIds(serverOut'),
           \A f \in Range(serverOut') : f.msg \in InMsgs,
           serverIn' \in SUBSET Ids,
           inStatus' \in [InMsgs -> {"new", "pending", "complete"}],
           atServer' \in [OutMsgs -> 0 .. Many]
    PROVE  FlowInv'
<1>1. TypeInv /\ DataTypes /\ StoreInv /\ NoMessageLost
  BY DEF FlowInv, TypeInv
<1>2. connected' \in BOOLEAN
  BY <1>1 DEF DataTypes
<1>3. DataTypes'
  BY <1>1, <1>2 DEF DataTypes, clientVars
<1>4. TypeInv'
  BY <1>1, <1>3 DEF TypeInv, clientVars
<1>5. StoreInv' /\ NoMessageLost'
  BY <1>1, MemoryKept
<1>6. QED
  BY <1>4, <1>5 DEF FlowInv

\* The server sends a message.
LEMMA ServerPublishFlow ==
    ASSUME FlowInv, NEW m \in InMsgs, NEW i \in Ids, ServerPublish(m, i)
    PROVE  FlowInv'
<1> DEFINE f == CreateMessage([msg |-> m, id |-> i])
<1>1. /\ TypeInv /\ DataTypes /\ serverOut \in Seq(Flight) /\ UniqueIds(serverOut)
      /\ toClient \in Seq(Packet) /\ toServer \in Seq(Packet)
      /\ \A p \in Range(toClient) : p.type = "PUBLISH" => p.msg \in InMsgs
      /\ \A g \in Range(serverOut) : g.msg \in InMsgs
  BY DEF FlowInv, TypeInv, DataTypes
<1>2. /\ i \notin IdsIn(serverOut)
      /\ inStatus' = [inStatus EXCEPT ![m] = "pending"]
      /\ serverOut' = Append(serverOut, f)
      /\ toClient' = IF connected THEN Append(toClient, Pub(f, FALSE)) ELSE toClient
      /\ UNCHANGED <<clientVars, store, connected, toServer, serverIn, outStatus,
                     atServer, arrived>>
  BY DEF ServerPublish
<1>3. f \in Flight /\ f.id = i /\ f.msg = m
  <2>1. [msg |-> m, id |-> i] \in Queued
    BY DEF Queued, Msgs
  <2>2. QED
    BY <2>1, MadeFacts
<1> HIDE DEF f
<1>4. Pub(f, FALSE) \in Packet /\ Pub(f, FALSE).msg = m
  BY <1>3, MadeFacts DEF Pub
<1>5. /\ serverOut' \in Seq(Flight) /\ UniqueIds(serverOut')
      /\ Range(serverOut') = Range(serverOut) \cup {f}
  BY <1>1, <1>2, <1>3, AppendFacts
<1>6. /\ toClient' \in Seq(Packet)
      /\ \A p \in Range(toClient') : p.type = "PUBLISH" => p.msg \in InMsgs
  <2>1. CASE connected
    <3>1. toClient' = Append(toClient, Pub(f, FALSE)) /\ toClient \in Seq(Packet)
          /\ Pub(f, FALSE) \in Packet
      BY <1>1, <1>2, <1>4, <2>1
    <3>2. toClient' \in Seq(Packet) /\ Range(toClient') = Range(toClient) \cup {Pub(f, FALSE)}
      <4> DEFINE x == Pub(f, FALSE)
      <4>1. toClient \in Seq(Packet) /\ x \in Packet
        BY <3>1
      <4> HIDE DEF x
      <4>2. Append(toClient, x) \in Seq(Packet) /\ Range(Append(toClient, x)) = Range(toClient) \cup {x}
        BY ONLY <4>1, AppendFacts
      <4>3. QED
        BY <3>1, <4>2 DEF x
    <3>3. QED
      BY <1>1, <1>4, <3>2
  <2>2. CASE ~connected
    BY <1>1, <1>2, <2>2
  <2>3. QED
    BY <2>1, <2>2
<1>7. /\ serverIn' \in SUBSET Ids /\ atServer' \in [OutMsgs -> 0 .. Many]
      /\ inStatus' \in [InMsgs -> {"new", "pending", "complete"}]
      /\ toServer' \in Seq(Packet)
  BY <1>1, <1>2 DEF DataTypes
<1>8. \A g \in Range(serverOut') : g.msg \in InMsgs
  <2>1. f.msg \in InMsgs
    BY <1>3
  <2>2. QED
    BY <1>1, <1>5, <2>1
<1>9. QED
  BY <1>2, <1>5, <1>6, <1>7, <1>8, ServerKept

\* What a packet of the client's leaves alone.
LEMMA ClientPacketFacts ==
    ASSUME FlowInv, NEW p \in Range(toServer), NEW type, NEW r \in Seq(Packet),
           FromClient(p, type, r), \A x \in Range(r) : x.type # "PUBLISH"
    PROVE  /\ UNCHANGED <<connected, clientVars, store, outStatus, arrived>>
           /\ toClient' \in Seq(Packet) /\ toServer' \in Seq(Packet)
           /\ \A x \in Range(toClient') : x.type = "PUBLISH" => x.msg \in InMsgs
           /\ p.type = type
<1>1. TypeInv
  BY DEF FlowInv
<1>2. /\ toClient' \in Seq(Packet) /\ toServer' \in Seq(Packet) /\ p.type = type
      /\ \A x \in Range(toClient') : x.type = "PUBLISH" => x \in Range(toClient)
  BY <1>1, FromClientFacts
<1>3. QED
  BY <1>1, <1>2 DEF FromClient, TypeInv

\* An answer.
LEMMA AnswerFacts ==
    ASSUME NEW p \in Packet, NEW t \in {"PUBACK", "PUBREC", "PUBREL", "PUBCOMP"}
    PROVE  /\ Reply(t, p) \in Packet /\ <<Reply(t, p)>> \in Seq(Packet)
           /\ \A x \in Range(<<Reply(t, p)>>) : x.type # "PUBLISH"
<1>1. Reply(t, p) \in Packet /\ Reply(t, p).type # "PUBLISH"
  BY MadeFacts DEF Reply
<1> DEFINE a == Reply(t, p)
<1> HIDE DEF a
<1>2. Range(<<a>>) = {a} /\ (a \in Packet => <<a>> \in Seq(Packet))
  BY DEF Range
<1>3. QED
  BY <1>1, <1>2 DEF a

\* A PUBLISH or PUBREL comes to the server.
LEMMA ServerTakesFlow ==
    ASSUME FlowInv, ServerTakes \/ ServerReleases,
           \A p \in Range(toServer) : p.type = "PUBLISH" => p.msg \in OutMsgs
    PROVE  FlowInv'
<1>1. /\ DataTypes /\ serverOut \in Seq(Flight) /\ UniqueIds(serverOut) /\ serverIn \in SUBSET Ids
      /\ \A g \in Range(serverOut) : g.msg \in InMsgs
      /\ inStatus \in [InMsgs -> {"new", "pending", "complete"}]
      /\ atServer \in [OutMsgs -> 0 .. Many] /\ Many \in Nat
  BY FlowAssumption DEF FlowInv, TypeInv, DataTypes
<1>2. CASE ServerTakes
  <2>1. PICK p \in Range(toServer) :
          /\ FromClient(p, "PUBLISH",
                        <<Reply(IF p.msg \in Qos2 THEN "PUBREC" ELSE "PUBACK", p)>>)
          /\ atServer' = IF p.msg \in Qos2 /\ p.id \in serverIn THEN atServer
                         ELSE Tick(atServer, p.msg)
          /\ serverIn' = IF p.msg \in Qos2 THEN serverIn \cup {p.id} ELSE serverIn
          /\ UNCHANGED <<serverOut, inStatus>>
    BY <1>2 DEF ServerTakes
  <2>2. p \in Packet
    BY <1>1 DEF DataTypes, Range
  <2>3. PICK t \in {"PUBACK", "PUBREC", "PUBREL", "PUBCOMP"} :
          t = IF p.msg \in Qos2 THEN "PUBREC" ELSE "PUBACK"
    OBVIOUS
  <2>4. FromClient(p, "PUBLISH", <<Reply(t, p)>>)
    BY <2>1, <2>3
  <2>5. /\ UNCHANGED <<connected, clientVars, store, outStatus, arrived>>
        /\ toClient' \in Seq(Packet) /\ toServer' \in Seq(Packet)
        /\ \A x \in Range(toClient') : x.type = "PUBLISH" => x.msg \in InMsgs
        /\ p.type = "PUBLISH"
    BY <2>2, <2>4, AnswerFacts, ClientPacketFacts
  <2>6. p.msg \in OutMsgs /\ p.id \in Ids
    BY <2>2, <2>5 DEF Packet
  <2>7. Tick(atServer, p.msg) \in [OutMsgs -> 0 .. Many]
    <3>1. atServer \in [OutMsgs -> 0 .. Many] /\ Many \in Nat /\ p.msg \in OutMsgs
      BY <1>1, <2>6
    <3>2. QED
      BY ONLY <3>1 DEF Tick
  <2>8. /\ serverIn' \in SUBSET Ids /\ atServer' \in [OutMsgs -> 0 .. Many]
        /\ serverOut' \in Seq(Flight) /\ UniqueIds(serverOut')
        /\ \A g \in Range(serverOut') : g.msg \in InMsgs
        /\ inStatus' \in [InMsgs -> {"new", "pending", "complete"}]
    <3>1. serverOut' = serverOut /\ inStatus' = inStatus
      BY <2>1
    <3>2. serverIn' = serverIn \/ serverIn' = serverIn \cup {p.id}
      BY <2>1
    <3>3. atServer' = atServer \/ atServer' = Tick(atServer, p.msg)
      BY <2>1
    <3>4. serverIn' \in SUBSET Ids
      BY <1>1, <2>6, <3>2
    <3>5. QED
      BY <1>1, <2>7, <3>1, <3>3, <3>4
  <2>9. QED
    BY <2>5, <2>8, ServerKept
<1>3. CASE ServerReleases
  <2>1. PICK p \in Range(toServer) :
          /\ FromClient(p, "PUBREL", <<Reply("PUBCOMP", p)>>)
          /\ serverIn' = serverIn \ {p.id}
          /\ UNCHANGED <<serverOut, inStatus, atServer>>
    BY <1>3 DEF ServerReleases
  <2>2. p \in Packet
    BY <1>1 DEF DataTypes, Range
  <2>3. /\ UNCHANGED <<connected, clientVars, store, outStatus, arrived>>
        /\ toClient' \in Seq(Packet) /\ toServer' \in Seq(Packet)
        /\ \A x \in Range(toClient') : x.type = "PUBLISH" => x.msg \in InMsgs
    BY <2>1, <2>2, AnswerFacts, ClientPacketFacts
  <2>4. /\ serverIn' \in SUBSET Ids /\ atServer' \in [OutMsgs -> 0 .. Many]
        /\ serverOut' \in Seq(Flight) /\ UniqueIds(serverOut')
        /\ \A g \in Range(serverOut') : g.msg \in InMsgs
        /\ inStatus' \in [InMsgs -> {"new", "pending", "complete"}]
    <3>1. serverIn' \in SUBSET Ids
      BY <1>1, <2>1
    <3>2. QED
      BY <1>1, <2>1, <3>1
  <2>5. QED
    BY <2>3, <2>4, ServerKept
<1>4. QED
  BY <1>2, <1>3

\* The client's answers reach the server.
LEMMA ServerAnsweredFlow ==
    ASSUME FlowInv,
           ServerPubrec \/ \E type \in {"PUBACK", "PUBCOMP"} : ServerCompletes(type)
    PROVE  FlowInv'
<1>1. /\ DataTypes /\ serverOut \in Seq(Flight) /\ UniqueIds(serverOut) /\ serverIn \in SUBSET Ids
      /\ \A g \in Range(serverOut) : g.msg \in InMsgs
      /\ inStatus \in [InMsgs -> {"new", "pending", "complete"}]
      /\ atServer \in [OutMsgs -> 0 .. Many]
  BY DEF FlowInv, TypeInv, DataTypes
<1>2. CASE ServerPubrec
  <2>1. PICK p \in Range(toServer) :
          /\ FromClient(p, "PUBREC", <<Reply("PUBREL", p)>>)
          /\ serverOut' = AwaitPubcomp(serverOut, p.id)
          /\ UNCHANGED <<serverIn, inStatus, atServer>>
    BY <1>2 DEF ServerPubrec
  <2>2. p \in Packet
    BY <1>1 DEF DataTypes, Range
  <2>3. /\ UNCHANGED <<connected, clientVars, store, outStatus, arrived>>
        /\ toClient' \in Seq(Packet) /\ toServer' \in Seq(Packet)
        /\ \A x \in Range(toClient') : x.type = "PUBLISH" => x.msg \in InMsgs
    BY <2>1, <2>2, AnswerFacts, ClientPacketFacts
  <2>4. /\ serverOut' \in Seq(Flight) /\ UniqueIds(serverOut')
        /\ \A g \in Range(serverOut') : \E f \in Range(serverOut) :
             g = IF f.id = p.id THEN [f EXCEPT !.next = "PUBCOMP"] ELSE f
    BY <1>1, <2>1, AwaitFacts
  <2>5. \A g \in Range(serverOut') : g.msg \in InMsgs
    <3>1. Range(serverOut) \subseteq Flight
      BY <1>1, RangeFacts
    <3>2. \A f \in Flight : [f EXCEPT !.next = "PUBCOMP"].msg = f.msg
      BY DEF Flight
    <3>3. QED
      BY ZenonT(60), <1>1, <2>4, <3>1, <3>2
  <2>6. /\ serverIn' \in SUBSET Ids /\ atServer' \in [OutMsgs -> 0 .. Many]
        /\ inStatus' \in [InMsgs -> {"new", "pending", "complete"}]
    BY <1>1, <2>1
  <2>7. QED
    BY <2>3, <2>4, <2>5, <2>6, ServerKept
<1>3. ASSUME NEW type \in {"PUBACK", "PUBCOMP"}, ServerCompletes(type) PROVE FlowInv'
  <2>1. PICK p \in Range(toServer) :
          /\ FromClient(p, type, <<>>)
          /\ serverOut' = Without(serverOut, p.id)
          /\ inStatus' = [m \in InMsgs |->
                            IF \E n \in DOMAIN serverOut : serverOut[n].id = p.id
                                                           /\ serverOut[n].msg = m
                            THEN "complete" ELSE inStatus[m]]
          /\ UNCHANGED <<serverIn, atServer>>
    BY <1>3 DEF ServerCompletes
  <2>2. <<>> \in Seq(Packet) /\ \A x \in Range(<<>>) : x.type # "PUBLISH"
    BY DEF Range
  <2>3. /\ UNCHANGED <<connected, clientVars, store, outStatus, arrived>>
        /\ toClient' \in Seq(Packet) /\ toServer' \in Seq(Packet)
        /\ \A x \in Range(toClient') : x.type = "PUBLISH" => x.msg \in InMsgs
    BY <2>1, <2>2, ClientPacketFacts
  <2>4. /\ serverOut' \in Seq(Flight) /\ UniqueIds(serverOut')
        /\ \A g \in Range(serverOut') : g.msg \in InMsgs
    BY <1>1, <2>1, WithoutFacts
  <2>5. inStatus' \in [InMsgs -> {"new", "pending", "complete"}]
    <3>1. \A m \in InMsgs : inStatus'[m] = "complete" \/ inStatus'[m] = inStatus[m]
      BY <2>1
    <3>2. inStatus' = [m \in InMsgs |-> inStatus'[m]]
      BY <2>1
    <3>3. QED
      BY <1>1, <3>1, <3>2
  <2>6. serverIn' \in SUBSET Ids /\ atServer' \in [OutMsgs -> 0 .. Many]
    BY <1>1, <2>1
  <2>7. QED
    BY <2>3, <2>4, <2>5, <2>6, ServerKept
<1>4. QED
  BY <1>2, <1>3

----------------------------------------------------------------------------
(* All steps *)

\* a PUBLISH on its way to the server is one of the application's messages
UpInv == \A p \in Range(toServer) : p.type = "PUBLISH" => p.msg \in OutMsgs

\* a PUBLISH that comes again is the message the store has under its id
SameInv ==
    \A p \in Range(toClient) : \A q \in store.received :
        p.type = "PUBLISH" /\ q.id = p.id => q.msg = p.msg

\* Nothing has been accepted yet.
LEMMA FlowInit == Init => FlowInv
<1> SUFFICES ASSUME Init PROVE FlowInv
  OBVIOUS
<1>1. connected \in BOOLEAN
  BY DEF Init
<1>2. DataTypes
  BY <1>1, FlowAssumption DEF Init, DataTypes
<1>3. TypeInv
  BY <1>2 DEF Init, TypeInv, Range, UniqueIds
<1>4. Range(<<>>) = {}
  BY DEF Range
<1>5. StoreMatchesMemory
  BY <1>4 DEF Init, StoreMatchesMemory
<1>6. StoreInv
  BY <1>5 DEF Init, StoreInv, UniqueIds, IdsIn
<1>7. NoMessageLost
  BY DEF Init, NoMessageLost
<1>8. QED
  BY <1>3, <1>6, <1>7 DEF FlowInv

\* No step parts the store from the memory.
LEMMA FlowStep ==
    ASSUME FlowInv, UpInv, SameInv, [Next]_vars
    PROVE  FlowInv'
<1>1. CASE \E m \in OutMsgs, i \in Ids : Publish(m, i)
  BY <1>1, PublishFlow
<1>2. CASE \E m \in InMsgs, i \in Ids : ServerPublish(m, i)
  BY <1>2, ServerPublishFlow
<1>3. CASE Send
  BY <1>3, ProcessFlow DEF Send
<1>4. CASE Receive
  <2>1. CASE \E type \in {"PUBACK", "PUBCOMP"} : HandlePuback(type)
    BY <2>1, PubackFlow
  <2>2. CASE HandlePubrec
    BY <2>2, PubrecFlow
  <2>3. CASE \E taken \in BOOLEAN : HandlePublish(taken) \/ HandlePubrel(taken)
    BY <2>3, HandlePublishFlow, PubrelFlow
  <2>4. CASE HandleWhileWriting
    BY <2>4, WritingFlow DEF SameInv
  <2>5. QED
    BY <1>4, <2>1, <2>2, <2>3, <2>4 DEF Receive
<1>5. CASE SocketEvent \/ \E taken \in BOOLEAN : DeliverQueued(taken)
  <2>1. \A taken \in BOOLEAN : taken = TRUE \/ taken = FALSE
    OBVIOUS
  <2>2. SocketEvent \/ DeliverQueued(TRUE) \/ DeliverQueued(FALSE)
    BY <1>5, <2>1
  <2>3. QED
    BY <2>2, QueuedFlow, OfferFlow
<1>6. CASE Server
  BY <1>6, ServerTakesFlow, ServerAnsweredFlow DEF Server, UpInv
<1>7. CASE Connect
  BY <1>7, ConnectFlow
<1>8. CASE ConnectionLost
  BY <1>8, LostFlow
<1>9. CASE Restart
  BY <1>9, RestartFlow
<1>10. CASE UNCHANGED vars
  <2>1. /\ UNCHANGED <<connected, clientVars, store, outStatus, arrived>>
        /\ UNCHANGED <<toClient, toServer, serverOut, serverIn, inStatus, atServer>>
    BY <1>10 DEF vars, netVars, serverVars
  <2>2. TypeInv
    BY DEF FlowInv
  <2>3. /\ toClient' \in Seq(Packet) /\ toServer' \in Seq(Packet)
        /\ serverOut' \in Seq(Flight) /\ serverIn' \in SUBSET Ids
        /\ inStatus' \in [InMsgs -> {"new", "pending", "complete"}]
        /\ atServer' \in [OutMsgs -> 0 .. Many]
    BY <2>1, <2>2 DEF TypeInv, DataTypes
  <2>4. /\ UniqueIds(serverOut') /\ \A f \in Range(serverOut') : f.msg \in InMsgs
        /\ \A p \in Range(toClient') : p.type = "PUBLISH" => p.msg \in InMsgs
    BY <2>1, <2>2 DEF TypeInv
  <2>5. QED
    BY <2>1, <2>3, <2>4, ServerKept
<1>11. QED
  BY <1>1, <1>2, <1>3, <1>4, <1>5, <1>6, <1>7, <1>8, <1>9, <1>10 DEF Next

====
