----------------------------- MODULE WireProofs -----------------------------
(***************************************************************************)
(* Every packet on a socket or WebSocket is what was sent, in the order in *)
(* which it was sent, for any connections, packets and payloads and        *)
(* whatever part of a write the system takes.  What was taken for sending  *)
(* has its frame at its place on the wire; a pending write holds the rest  *)
(* of the last frame and nothing else.                                     *)
(***************************************************************************)
EXTENDS WireWrite, WellFoundedInduction, TLAPS

----------------------------------------------------------------------------
(* Sequences of buffers *)

\* A set of natural numbers has a least one.
LEMMA LeastOf ==
  ASSUME NEW S \in SUBSET Nat, S # {}
  PROVE  \E i \in S : \A j \in S : i <= j
<1> DEFINE R == OpToRel(<, Nat)
<1>1. IsWellFoundedOn(R, Nat)
  BY NatLessThanWellFounded
<1>2. \A x, y \in Nat : y < x => <<y, x>> \in R
  BY DEF OpToRel
<1> HIDE DEF R
<1>3. PICK i \in S : \A j \in S : ~(<<j, i>> \in R)
  BY <1>1, WFMin
<1>4. ASSUME NEW j \in S
      PROVE  i <= j
  <2>1. i \in Nat /\ j \in Nat
    OBVIOUS
  <2>2. ~(j < i)
    BY <1>2, <1>3, <2>1
  <2> QED BY <2>1, <2>2
<1> QED BY <1>4

Flattened(g, parts, n) == g = [i \in 1..n |-> IF i = 1 THEN parts[i] ELSE g[i - 1] \o parts[i]]

\* The concatenations of the first parts, one after the other, exist.
LEMMA FlattenedExist ==
  ASSUME NEW parts, NEW n \in Nat
  PROVE  \E g : Flattened(g, parts, n)
<1> DEFINE Bad == {k \in Nat : ~ \E g : Flattened(g, parts, k)}
<1> SUFFICES ASSUME Bad # {} PROVE FALSE
  OBVIOUS
<1>1. PICK k \in Bad : \A j \in Bad : k <= j
  BY LeastOf
<1>2. CASE k = 0
  <2> DEFINE g == [i \in 1..0 |-> 0]
  <2>1. g = [i \in 1..0 |-> IF i = 1 THEN parts[i] ELSE g[i - 1] \o parts[i]]
    OBVIOUS
  <2>2. Flattened(g, parts, 0)
    BY <2>1 DEF Flattened
  <2> QED BY <1>2, <2>2
<1>3. CASE k # 0
  <2>1. k - 1 \in Nat /\ k - 1 \notin Bad /\ k \in Nat
    BY <1>1, <1>3
  <2>2. PICK g : Flattened(g, parts, k - 1)
    BY <2>1
  <2> HIDE DEF Bad
  <2> DEFINE Step(f, i) == IF i = 1 THEN parts[i] ELSE f[i - 1] \o parts[i]
             h == [i \in 1..k |-> IF i = k THEN Step(g, i) ELSE g[i]]
  <2>3. \A i \in 1 .. k - 1 : g[i] = Step(g, i)
    BY <2>2 DEF Flattened
  <2>4. ASSUME NEW i \in 1..k
        PROVE  h[i] = Step(h, i)
    <3>1. h[i] = Step(g, i)
      BY <2>1, <2>3
    <3>2. CASE i = 1
      BY <3>1, <3>2
    <3>3. CASE i # 1
      <4>1. i - 1 \in 1..k /\ i - 1 # k
        BY <2>1, <3>3
      <4>2. h[i - 1] = g[i - 1]
        BY <4>1
      <4> QED BY <3>1, <3>3, <4>2
    <3> QED BY <3>2, <3>3
  <2>5. h = [i \in 1..k |-> h[i]]
    OBVIOUS
  <2> HIDE DEF h
  <2>6. h = [i \in 1..k |-> Step(h, i)]
    BY <2>4, <2>5
  <2>7. Flattened(h, parts, k)
    BY <2>6 DEF Flattened
  <2> QED BY <2>7 DEF Bad
<1> QED BY <1>2, <1>3


----------------------------------------------------------------------------
(* Writing to sockets *)

Ints == Seq(Int)

\* Flatten is the last of them.
LEMMA FlattenIs ==
  ASSUME NEW parts \in Seq(Ints), parts # <<>>
  PROVE  \E g : Flattened(g, parts, Len(parts)) /\ Flatten(parts) = g[Len(parts)]
<1> DEFINE n == Len(parts)
           W(g) == [i \in 1..n |-> IF i = 1 THEN parts[i] ELSE g[i - 1] \o parts[i]]
           flatten == CHOOSE g : g = W(g)
<1>1. n \in Nat /\ n # 0
  OBVIOUS
<1>2. \E g : g = W(g)
  <2>1. PICK g : Flattened(g, parts, n)
    BY <1>1, FlattenedExist
  <2> QED BY <2>1 DEF Flattened
<1>3. flatten = W(flatten)
  BY <1>2, ZenonT(60)
<1>4. Flatten(parts) = flatten[n]
  BY <1>1 DEF FlattenSeq, Flatten
<1>5. Flattened(flatten, parts, n)
  <2> HIDE DEF flatten
  <2> QED BY <1>3 DEF Flattened
<1> HIDE DEF flatten
<1> QED BY <1>4, <1>5

LEMMA FlattenEmpty == Flatten(<<>>) = <<>>
BY DEF Flatten, FlattenSeq

LEMMA FlattenType ==
  ASSUME NEW parts \in Seq(Ints)
  PROVE  Flatten(parts) \in Ints
<1>1. CASE parts = <<>>
  <2>1. <<>> \in Ints
    BY DEF Ints
  <2> QED BY <1>1, <2>1, FlattenEmpty
<1>2. CASE parts # <<>>
  <2> DEFINE n == Len(parts)
  <2>1. PICK g : Flattened(g, parts, n) /\ Flatten(parts) = g[n]
    BY <1>2, FlattenIs
  <2>2. n \in Nat /\ n # 0 /\ \A i \in 1..n : parts[i] \in Ints
    BY <1>2
  <2>3. \A i \in 1..n : g[i] = IF i = 1 THEN parts[i] ELSE g[i - 1] \o parts[i]
    BY <2>1 DEF Flattened
  <2> HIDE DEF n
  <2> DEFINE Bad == {i \in 1..n : g[i] \notin Ints}
  <2>4. ASSUME Bad # {} PROVE FALSE
    <3>1. PICK m \in Bad : \A j \in Bad : m <= j
      <4>1. Bad \in SUBSET Nat
        OBVIOUS
      <4> HIDE DEF Bad
      <4> QED BY <2>4, <4>1, LeastOf
    <3>2. m \in 1..n /\ g[m] \notin Ints
      OBVIOUS
    <3>3. m # 1
      BY <2>2, <2>3, <3>2
    <3>4. m - 1 \in 1..n /\ m - 1 \notin Bad
      BY <2>2, <3>1, <3>2, <3>3
    <3>5. g[m - 1] \in Ints /\ g[m] = g[m - 1] \o parts[m]
      BY <2>3, <3>2, <3>3, <3>4
    <3> QED BY <2>2, <3>2, <3>5 DEF Ints
  <2>5. n \in 1..n
    BY <2>2
  <2> QED BY <2>1, <2>4, <2>5
<1> QED BY <1>1, <1>2

\* One more buffer comes at the end.
LEMMA FlattenAppend ==
  ASSUME NEW parts \in Seq(Ints), NEW v \in Ints
  PROVE  Flatten(Append(parts, v)) = Flatten(parts) \o v
<1> DEFINE n == Len(parts)
           more == Append(parts, v)
<1>1. n \in Nat /\ more \in Seq(Ints) /\ Len(more) = n + 1 /\ more[n + 1] = v /\ \A i \in 1..n : more[i] = parts[i]
  OBVIOUS
<1>2. PICK h : Flattened(h, more, n + 1) /\ Flatten(more) = h[n + 1]
  <2>1. more # <<>>
    BY <1>1
  <2> QED BY <1>1, <2>1, FlattenIs
<1>3. \A i \in 1 .. n + 1 : h[i] = IF i = 1 THEN more[i] ELSE h[i - 1] \o more[i]
  BY <1>2 DEF Flattened
<1> HIDE DEF more
<1>4. CASE n = 0
  <2>1. h[n + 1] = v
    BY <1>1, <1>3, <1>4
  <2>2. parts = <<>>
    BY <1>4
  <2>3. <<>> \o v = v
    BY DEF Ints
  <2> QED BY <1>2, <2>1, <2>2, <2>3, FlattenEmpty DEF more
<1>5. CASE n # 0
  <2>1. parts # <<>>
    BY <1>5
  <2>2. PICK g : Flattened(g, parts, n) /\ Flatten(parts) = g[n]
    BY <2>1, FlattenIs
  <2>3. \A i \in 1..n : g[i] = IF i = 1 THEN parts[i] ELSE g[i - 1] \o parts[i]
    BY <2>2 DEF Flattened
  <2> HIDE DEF n
  <2> DEFINE Bad == {i \in 1..n : g[i] # h[i]}
  <2>4. ASSUME Bad # {} PROVE FALSE
    <3>1. PICK m \in Bad : \A j \in Bad : m <= j
      <4>1. Bad \in SUBSET Nat
        OBVIOUS
      <4> HIDE DEF Bad
      <4> QED BY <2>4, <4>1, LeastOf
    <3>2. m \in 1..n /\ g[m] # h[m] /\ m \in 1 .. n + 1
      BY <1>1
    <3>3. m # 1
      BY <1>1, <1>3, <2>3, <3>2
    <3>4. m - 1 \in 1..n /\ m - 1 \notin Bad
      BY <1>1, <3>1, <3>2, <3>3
    <3>5. g[m - 1] = h[m - 1] /\ g[m] = g[m - 1] \o parts[m] /\ h[m] = h[m - 1] \o more[m]
      BY <1>3, <2>3, <3>2, <3>3, <3>4
    <3> QED BY <1>1, <3>2, <3>5
  <2>5. n \in 1..n /\ n + 1 \in 1 .. n + 1 /\ n + 1 # 1 /\ (n + 1) - 1 = n
    BY <1>1, <1>5
  <2>6. h[n + 1] = h[n] \o v
    BY <1>1, <1>3, <2>5
  <2>7. g[n] = h[n]
    BY <2>4, <2>5
  <2> QED BY <1>2, <2>2, <2>6, <2>7 DEF more
<1> QED BY <1>4, <1>5

\* Sequences with the same elements are the same.
LEMMA SameBytes ==
  ASSUME NEW s \in Ints, NEW t \in Ints, Len(s) = Len(t), \A i \in 1..Len(s) : s[i] = t[i]
  PROVE  s = t
BY SMTT(60) DEF Ints

\* What a concatenation consists of.
LEMMA ConcatIs ==
  ASSUME NEW s \in Ints, NEW t \in Ints
  PROVE  /\ s \o t \in Ints /\ Len(s \o t) = Len(s) + Len(t) /\ Len(s) \in Nat /\ Len(t) \in Nat
         /\ \A i \in 1..Len(s) : (s \o t)[i] = s[i]
         /\ \A i \in 1..Len(t) : (s \o t)[Len(s) + i] = t[i]
BY DEF Ints

\* What a part of a sequence consists of.
LEMMA PartIs ==
  ASSUME NEW s \in Ints, NEW m \in Nat, NEW n \in Nat, m <= n, n <= Len(s)
  PROVE  /\ SubSeq(s, m + 1, n) \in Ints /\ Len(SubSeq(s, m + 1, n)) = n - m
         /\ \A i \in 1 .. n - m : SubSeq(s, m + 1, n)[i] = s[m + i]
BY DEF Ints

LEMMA NoPart ==
  ASSUME NEW s \in Ints, NEW m \in Nat, m >= Len(s)
  PROVE  SubSeq(s, m + 1, Len(s)) = <<>>
<1>1. m + 1 > Len(s)
  BY DEF Ints
<1> QED BY <1>1 DEF Ints

\* what is left of two buffers
LEMMA RestOfTwo ==
  ASSUME NEW s \in Ints, NEW t \in Ints, NEW b \in Nat
  PROVE  /\ b <= Len(s) => SubSeq(s \o t, b + 1, Len(s \o t)) = SubSeq(s, b + 1, Len(s)) \o t
         /\ b > Len(s) /\ b < Len(s) + Len(t) =>
              SubSeq(s \o t, b + 1, Len(s \o t)) = SubSeq(s, b + 1, Len(s)) \o SubSeq(t, b - Len(s) + 1, Len(t))
         /\ b > Len(s) /\ b >= Len(s) + Len(t) => SubSeq(s \o t, b + 1, Len(s \o t)) = SubSeq(s, b + 1, Len(s))
<1> DEFINE u == s \o t
           l == Len(s)
           k == Len(t)
<1>1. /\ u \in Ints /\ Len(u) = l + k /\ l \in Nat /\ k \in Nat
      /\ (\A i \in 1..l : u[i] = s[i]) /\ (\A i \in 1..k : u[l + i] = t[i])
  BY ConcatIs
<1> HIDE DEF u, l, k
<1>2. ASSUME b <= l PROVE SubSeq(u, b + 1, Len(u)) = SubSeq(s, b + 1, l) \o t
  <2> DEFINE x == SubSeq(u, b + 1, Len(u))
             y == SubSeq(s, b + 1, l)
  <2>1. x \in Ints /\ Len(x) = (l + k) - b /\ \A i \in 1 .. (l + k) - b : x[i] = u[b + i]
    <3>1. Len(u) \in Nat /\ b <= Len(u) /\ Len(u) <= Len(u)
      BY <1>1, <1>2
    <3>2. x \in Ints /\ Len(x) = Len(u) - b /\ \A i \in 1 .. Len(u) - b : x[i] = u[b + i]
      BY <1>1, <3>1, PartIs
    <3> HIDE DEF x
    <3> QED BY <1>1, <3>2
  <2>2. y \in Ints /\ Len(y) = l - b /\ \A i \in 1 .. l - b : y[i] = s[b + i]
    BY <1>1, <1>2, PartIs DEF l
  <2> HIDE DEF x, y
  <2>3. /\ y \o t \in Ints /\ Len(y \o t) = (l - b) + k /\ (\A i \in 1 .. l - b : (y \o t)[i] = y[i])
        /\ \A i \in 1..k : (y \o t)[(l - b) + i] = t[i]
    <3>1. /\ y \o t \in Ints /\ Len(y \o t) = Len(y) + Len(t)
          /\ (\A i \in 1..Len(y) : (y \o t)[i] = y[i])
          /\ \A i \in 1..Len(t) : (y \o t)[Len(y) + i] = t[i]
      BY <2>2, ConcatIs
    <3> QED BY <2>2, <3>1 DEF k
  <2>4. ASSUME NEW i \in 1..Len(x) PROVE x[i] = (y \o t)[i]
    <3>0. i \in 1 .. (l + k) - b
      BY <2>1
    <3>1. CASE i <= l - b
      <4>1. i \in 1 .. l - b /\ b + i \in 1..l
        BY <1>1, <1>2, <3>0, <3>1
      <4>2. x[i] = s[b + i]
        BY <1>1, <2>1, <3>0, <4>1
      <4>3. (y \o t)[i] = s[b + i]
        BY <2>2, <2>3, <4>1
      <4> QED BY <4>2, <4>3
    <3>2. CASE i > l - b
      <4> DEFINE j == i - (l - b)
      <4>1. j \in 1..k /\ b + i = l + j /\ i = (l - b) + j
        BY <1>1, <1>2, <3>0, <3>2
      <4> HIDE DEF j
      <4>2. x[i] = t[j]
        BY <1>1, <2>1, <3>0, <4>1
      <4>3. (y \o t)[i] = t[j]
        BY <2>3, <4>1
      <4> QED BY <4>2, <4>3
    <3>3. i <= l - b \/ i > l - b
      BY <1>1, <1>2, <3>0
    <3> QED BY <3>1, <3>2, <3>3
  <2>5. Len(x) = Len(y \o t)
    BY <1>1, <1>2, <2>1, <2>3
  <2>6. x = y \o t
    BY <2>1, <2>3, <2>4, <2>5, SameBytes
  <2> QED BY <2>6 DEF x, y
<1>3. ASSUME b > l PROVE SubSeq(s, b + 1, l) = <<>>
  BY <1>1, <1>3, NoPart DEF l
<1>4. ASSUME b > l, b < l + k PROVE SubSeq(u, b + 1, Len(u)) = SubSeq(t, b - l + 1, k)
  <2> DEFINE x == SubSeq(u, b + 1, Len(u))
             d == b - l
             y == SubSeq(t, d + 1, k)
  <2>0. d \in Nat /\ d <= k /\ l + d = b
    BY <1>1, <1>4
  <2>1. x \in Ints /\ Len(x) = (l + k) - b /\ \A i \in 1 .. (l + k) - b : x[i] = u[b + i]
    <3>1. Len(u) \in Nat /\ b <= Len(u) /\ Len(u) <= Len(u)
      BY <1>1, <1>4
    <3>2. x \in Ints /\ Len(x) = Len(u) - b /\ \A i \in 1 .. Len(u) - b : x[i] = u[b + i]
      BY <1>1, <3>1, PartIs
    <3> HIDE DEF x
    <3> QED BY <1>1, <3>2
  <2> HIDE DEF d
  <2>2. y \in Ints /\ Len(y) = k - d /\ \A i \in 1 .. k - d : y[i] = t[d + i]
    <3>1. k <= Len(t)
      BY <1>1 DEF k
    <3> QED BY <1>1, <2>0, <3>1, PartIs, ZenonT(60)
  <2> HIDE DEF x, y
  <2>3. Len(x) = Len(y)
    BY <1>1, <2>0, <2>1, <2>2
  <2>4. ASSUME NEW i \in 1..Len(x) PROVE x[i] = y[i]
    <3>1. i \in 1 .. k - d /\ i \in 1 .. (l + k) - b /\ d + i \in 1..k /\ b + i = l + (d + i)
      BY <1>1, <2>0, <2>1, <2>2, <2>3
    <3> QED BY <1>1, <2>1, <2>2, <3>1, ZenonT(60)
  <2>5. x = y
    BY <2>1, <2>2, <2>3, <2>4, SameBytes
  <2> QED BY <2>5 DEF x, d, y
<1>5. ASSUME b > l, b >= l + k PROVE SubSeq(u, b + 1, Len(u)) = <<>>
  <2>1. b >= Len(u)
    BY <1>1, <1>5
  <2> QED BY <1>1, <2>1, NoPart
<1>6. SubSeq(t, b - l + 1, k) = <<>> \o SubSeq(t, b - l + 1, k) \/ ~(b > l /\ b < l + k)
  <2>1. SUFFICES ASSUME b > l, b < l + k PROVE SubSeq(t, b - l + 1, k) = <<>> \o SubSeq(t, b - l + 1, k)
    OBVIOUS
  <2> DEFINE d == b - l
  <2>2. d \in Nat /\ d <= k
    BY <1>1, <2>1
  <2>5. k <= Len(t)
    BY <1>1 DEF k
  <2>3. SubSeq(t, d + 1, k) \in Ints
    <3> HIDE DEF d
    <3> QED BY <1>1, <2>2, <2>5, PartIs
  <2>4. \A y \in Ints : <<>> \o y = y
    BY DEF Ints
  <2> QED BY <2>3, <2>4
<1>7. b <= l => SubSeq(u, b + 1, Len(u)) = SubSeq(s, b + 1, l) \o t
  BY <1>2
<1>8. b > l /\ b < l + k => SubSeq(u, b + 1, Len(u)) = SubSeq(s, b + 1, l) \o SubSeq(t, b - l + 1, k)
  BY <1>3, <1>4, <1>6
<1>9. b > l /\ b >= l + k => SubSeq(u, b + 1, Len(u)) = SubSeq(s, b + 1, l)
  BY <1>3, <1>5
<1> QED BY <1>7, <1>8, <1>9 DEF u, l, k

NothingLeft == [len |-> 0, iovecs |-> <<>>]
Lefts(g, pw, n) == g = [k \in 0..n |-> IF k = 0 THEN NothingLeft ELSE LeftOf(g[k - 1], pw.iovecs[k], pw.bytes)]

\* What is left of the first n buffers of a write exists.
LEMMA LeftsExist ==
  ASSUME NEW pw, NEW n \in Nat
  PROVE  \E g : Lefts(g, pw, n)
<1> DEFINE Bad == {k \in Nat : ~ \E g : Lefts(g, pw, k)}
<1> SUFFICES ASSUME Bad # {} PROVE FALSE
  OBVIOUS
<1>1. PICK k \in Bad : \A j \in Bad : k <= j
  BY LeastOf
<1>2. CASE k = 0
  <2> DEFINE g == [i \in 0..0 |-> NothingLeft]
  <2>1. g = [i \in 0..0 |-> IF i = 0 THEN NothingLeft ELSE LeftOf(g[i - 1], pw.iovecs[i], pw.bytes)]
    OBVIOUS
  <2>2. Lefts(g, pw, 0)
    BY <2>1 DEF Lefts
  <2> QED BY <1>2, <2>2
<1>3. CASE k # 0
  <2>1. k - 1 \in Nat /\ k - 1 \notin Bad /\ k \in Nat
    BY <1>1, <1>3
  <2>2. PICK g : Lefts(g, pw, k - 1)
    BY <2>1
  <2> HIDE DEF Bad
  <2> DEFINE Step(f, i) == IF i = 0 THEN NothingLeft ELSE LeftOf(f[i - 1], pw.iovecs[i], pw.bytes)
             h == [i \in 0..k |-> IF i = k THEN Step(g, i) ELSE g[i]]
  <2>3. \A i \in 0 .. k - 1 : g[i] = Step(g, i)
    BY <2>2 DEF Lefts
  <2>4. ASSUME NEW i \in 0..k
        PROVE  h[i] = Step(h, i)
    <3>1. h[i] = Step(g, i)
      BY <2>1, <2>3
    <3>2. CASE i = 0
      BY <3>1, <3>2
    <3>3. CASE i # 0
      <4>1. i - 1 \in 0..k /\ i - 1 # k
        BY <2>1, <3>3
      <4>2. h[i - 1] = g[i - 1]
        BY <4>1
      <4> QED BY <3>1, <3>3, <4>2
    <3> QED BY <3>2, <3>3
  <2>5. h = [i \in 0..k |-> h[i]]
    OBVIOUS
  <2> HIDE DEF h
  <2>6. h = [i \in 0..k |-> Step(h, i)]
    BY <2>4, <2>5
  <2>7. Lefts(h, pw, k)
    BY <2>6 DEF Lefts
  <2> QED BY <2>7 DEF Bad
<1> QED BY <1>2, <1>3

\* a stands for the bytes s of the buffers seen so far
Follows(a, s, bytes) ==
  /\ a.len = Len(s) /\ a.iovecs \in Seq(Ints)
  /\ Flatten(a.iovecs) = SubSeq(s, bytes + 1, Len(s))

LEMMA OneMore ==
  ASSUME NEW vs \in Seq(Ints), NEW v \in Ints
  PROVE  Append(vs, v) \in Seq(Ints) /\ Flatten(Append(vs, v)) = Flatten(vs) \o v
<1>1. Append(vs, v) \in Seq(Ints)
  OBVIOUS
<1> QED BY <1>1, FlattenAppend

\* Skipping one more buffer, or the part of it that has been written, keeps the rest right.
LEMMA LeftFollows ==
  ASSUME NEW a, NEW s \in Ints, NEW v \in Ints, NEW bytes \in Nat, Follows(a, s, bytes)
  PROVE  Follows(LeftOf(a, v, bytes), s \o v, bytes)
<1> DEFINE b == LeftOf(a, v, bytes)
           u == SubSeq(v, bytes - Len(s) + 1, Len(v))
<1>1. a.len = Len(s) /\ a.iovecs \in Seq(Ints) /\ Flatten(a.iovecs) = SubSeq(s, bytes + 1, Len(s))
  BY DEF Follows
<1>2. Len(s \o v) = Len(s) + Len(v) /\ Len(s) \in Nat /\ Len(v) \in Nat
  BY ConcatIs
<1>3. b.len = Len(s) + Len(v)
  BY <1>1 DEF LeftOf
<1>4. CASE bytes <= Len(s)
  <2>1. b.iovecs = Append(a.iovecs, v)
    BY <1>1, <1>4 DEF LeftOf
  <2> HIDE DEF b
  <2>2. b.iovecs \in Seq(Ints) /\ Flatten(b.iovecs) = SubSeq(s, bytes + 1, Len(s)) \o v
    BY <1>1, <2>1, OneMore
  <2>3. SubSeq(s, bytes + 1, Len(s)) \o v = SubSeq(s \o v, bytes + 1, Len(s \o v))
    BY <1>4, RestOfTwo, ZenonT(60)
  <2>4. Follows(b, s \o v, bytes)
    BY <1>2, <1>3, <2>2, <2>3 DEF Follows
  <2> QED BY <2>4 DEF b
<1>5. CASE bytes > Len(s) /\ bytes < Len(s) + Len(v)
  <2>1. b.iovecs = Append(a.iovecs, u)
    <3>1. ~(bytes <= Len(s))
      BY <1>2, <1>5
    <3> QED BY <1>1, <1>5, <3>1 DEF LeftOf
  <2> HIDE DEF b
  <2>2. u \in Ints
    <3> DEFINE d == bytes - Len(s)
    <3>1. d \in Nat /\ d <= Len(v)
      BY <1>2, <1>5
    <3> HIDE DEF d
    <3>2. SubSeq(v, d + 1, Len(v)) \in Ints
      BY <1>2, <3>1, PartIs
    <3> QED BY <3>2 DEF d
  <2> HIDE DEF u
  <2>3. b.iovecs \in Seq(Ints) /\ Flatten(b.iovecs) = SubSeq(s, bytes + 1, Len(s)) \o u
    BY <1>1, <2>1, <2>2, OneMore
  <2>4. SubSeq(s, bytes + 1, Len(s)) \o u = SubSeq(s \o v, bytes + 1, Len(s \o v))
    BY <1>5, RestOfTwo, ZenonT(60) DEF u
  <2>5. Follows(b, s \o v, bytes)
    BY <1>2, <1>3, <2>3, <2>4 DEF Follows
  <2> QED BY <2>5 DEF b
<1>6. CASE bytes > Len(s) /\ bytes >= Len(s) + Len(v)
  <2>1. b.iovecs = a.iovecs
    <3>1. ~(bytes <= Len(s)) /\ ~(bytes < Len(s) + Len(v))
      BY <1>2, <1>6
    <3> QED BY <1>1, <3>1 DEF LeftOf
  <2> HIDE DEF b
  <2>2. SubSeq(s, bytes + 1, Len(s)) = SubSeq(s \o v, bytes + 1, Len(s \o v))
    BY <1>6, RestOfTwo
  <2>3. Follows(b, s \o v, bytes)
    BY <1>1, <1>2, <1>3, <2>1, <2>2 DEF Follows
  <2> QED BY <2>3 DEF b
<1>7. bytes <= Len(s) \/ (bytes > Len(s) /\ bytes < Len(s) + Len(v)) \/ (bytes > Len(s) /\ bytes >= Len(s) + Len(v))
  BY <1>2
<1> QED BY <1>4, <1>5, <1>6, <1>7

\* What is left of the buffers is what is left of their bytes.
LEMMA UnwrittenIs ==
  ASSUME NEW pw, pw.iovecs \in Seq(Ints), pw.bytes \in Nat
  PROVE  Flatten(Unwritten(pw)) = SubSeq(Flatten(pw.iovecs), pw.bytes + 1, Len(Flatten(pw.iovecs)))
<1> DEFINE iovecs == pw.iovecs
           bytes == pw.bytes
           n == Len(iovecs)
           W(g) == [k \in 0..n |-> IF k = 0 THEN NothingLeft ELSE LeftOf(g[k - 1], iovecs[k], bytes)]
           left == CHOOSE g : g = W(g)
<1>1. n \in Nat /\ \A i \in 1..n : iovecs[i] \in Ints
  OBVIOUS
<1>2. \E g : g = W(g)
  <2>1. PICK g : Lefts(g, pw, n)
    BY <1>1, LeftsExist
  <2> QED BY <2>1 DEF Lefts
<1>3. left = W(left)
  BY <1>2, ZenonT(60)
<1>4. Unwritten(pw) = left[n].iovecs
  BY DEF Unwritten, NothingLeft
<1> HIDE DEF left
<1>5. \A k \in 0..n : left[k] = IF k = 0 THEN NothingLeft ELSE LeftOf(left[k - 1], iovecs[k], bytes)
  BY <1>3
<1> HIDE DEF W
<1>6. \A s \in Ints : s = <<>> => Follows(NothingLeft, s, bytes)
  <2> SUFFICES Follows(NothingLeft, <<>>, bytes)
    OBVIOUS
  <2>1. <<>> \in Ints /\ Len(<<>>) = 0 /\ bytes \in Nat
    BY DEF Ints
  <2>2. SubSeq(<<>>, bytes + 1, Len(<<>>)) = <<>>
    BY <2>1, NoPart
  <2>3. NothingLeft.len = 0 /\ NothingLeft.iovecs = <<>> /\ <<>> \in Seq(Ints)
    BY DEF NothingLeft
  <2> QED BY <2>1, <2>2, <2>3, FlattenEmpty DEF Follows
<1>7. CASE n = 0
  <2>1. iovecs = <<>> /\ Flatten(iovecs) = <<>> /\ <<>> \in Ints
    BY <1>7, FlattenEmpty DEF Ints
  <2>2. left[n] = NothingLeft
    BY <1>1, <1>5, <1>7
  <2>3. Follows(left[n], Flatten(iovecs), bytes)
    BY <1>6, <2>1, <2>2
  <2> QED BY <1>4, <2>3 DEF Follows
<1>8. CASE n # 0
  <2>0. iovecs # <<>>
    BY <1>8
  <2>1. PICK g : Flattened(g, iovecs, n) /\ Flatten(iovecs) = g[n]
    BY <2>0, FlattenIs
  <2>2. \A i \in 1..n : g[i] = IF i = 1 THEN iovecs[i] ELSE g[i - 1] \o iovecs[i]
    BY <2>1 DEF Flattened
  <2> HIDE DEF n
  <2> DEFINE Good(i) == g[i] \in Ints /\ Follows(left[i], g[i], bytes)
             Bad == {i \in 1..n : ~Good(i)}
  <2>3. ASSUME Bad # {} PROVE FALSE
    <3>1. PICK m \in Bad : \A j \in Bad : m <= j
      <4>1. Bad \in SUBSET Nat
        OBVIOUS
      <4> HIDE DEF Bad
      <4> QED BY <2>3, <4>1, LeastOf
    <3>2. m \in 1..n /\ ~Good(m) /\ m \in 0..n /\ m # 0
      BY <1>1
    <3>3. left[m] = LeftOf(left[m - 1], iovecs[m], bytes) /\ iovecs[m] \in Ints
      BY <1>1, <1>5, <3>2
    <3>4. bytes \in Nat
      OBVIOUS
    <3>5. CASE m = 1
      <4>1. <<>> \in Ints /\ g[m] = iovecs[m] /\ <<>> \o iovecs[m] = iovecs[m]
        <5>1. \A y \in Ints : <<>> \o y = y
          BY DEF Ints
        <5>2. <<>> \in Ints
          BY DEF Ints
        <5> QED BY <2>2, <3>2, <3>3, <3>5, <5>1, <5>2
      <4>2. left[m - 1] = NothingLeft
        BY <1>1, <1>5, <3>5
      <4>3. Follows(left[m - 1], <<>>, bytes)
        BY <1>6, <4>1, <4>2
      <4>4. Follows(left[m], <<>> \o iovecs[m], bytes)
        BY <3>3, <3>4, <4>1, <4>3, LeftFollows
      <4> QED BY <3>2, <3>3, <4>1, <4>4
    <3>6. CASE m # 1
      <4>1. m - 1 \in 1..n /\ m - 1 \notin Bad
        BY <1>1, <3>1, <3>2, <3>6
      <4>2. Good(m - 1)
        BY <4>1
      <4>3. g[m] = g[m - 1] \o iovecs[m]
        BY <2>2, <3>2, <3>6
      <4>4. Follows(left[m], g[m - 1] \o iovecs[m], bytes)
        BY <3>3, <3>4, <4>2, LeftFollows
      <4>5. g[m - 1] \o iovecs[m] \in Ints
        BY <3>3, <4>2, ConcatIs
      <4> QED BY <3>2, <4>3, <4>4, <4>5
    <3> QED BY <3>5, <3>6
  <2>4. n \in 1..n
    BY <1>1, <1>8
  <2>5. Good(n)
    BY <2>3, <2>4
  <2> QED BY <1>4, <2>1, <2>5 DEF Follows
<1> QED BY <1>7, <1>8

----------------------------------------------------------------------------
(* Masks *)

Masks == [1..4 -> {0, 128}]

\* A sequence over a set is one over a larger set.
LEMMA SeqWithin ==
  ASSUME NEW S, NEW T, \A x \in S : x \in T, NEW s \in Seq(S)
  PROVE  s \in Seq(T) /\ Len(s) \in Nat /\ DOMAIN s = 1..Len(s) /\ \A i \in 1..Len(s) : s[i] \in S
<1>1. Len(s) \in Nat /\ DOMAIN s = 1..Len(s) /\ \A i \in 1..Len(s) : s[i] \in S
  OBVIOUS
<1>2. \A i \in 1..Len(s) : s[i] \in T
  BY <1>1
<1>3. s = [i \in 1..Len(s) |-> s[i]]
  OBVIOUS
<1> QED BY <1>1, <1>2, <1>3

\* Byte strings are sequences of integers.
LEMMA BytesAreInts ==
  ASSUME NEW s \in Bytes
  PROVE  s \in Ints /\ Len(s) \in Nat /\ DOMAIN s = 1..Len(s) /\ \A i \in 1..Len(s) : s[i] \in 0..255
<1> DEFINE S == 0..255
<1>1. (\A x \in S : x \in Int) /\ s \in Seq(S)
  BY DEF Bytes
<1> HIDE DEF S
<1>2. s \in Seq(Int) /\ Len(s) \in Nat /\ DOMAIN s = 1..Len(s) /\ \A i \in 1..Len(s) : s[i] \in S
  BY <1>1, SeqWithin
<1> QED BY <1>2 DEF Ints, S

LEMMA BytesFrom ==
  ASSUME NEW n \in Nat, NEW f, f = [i \in 1..n |-> f[i]], \A i \in 1..n : f[i] \in 0..255
  PROVE  f \in Bytes /\ Len(f) = n
<1>1. f \in [1..n -> 0..255]
  OBVIOUS
<1>2. f \in Bytes
  BY <1>1 DEF Bytes
<1> QED BY <1>1, <1>2 DEF Bytes

LEMMA SameByteStrings ==
  ASSUME NEW s \in Bytes, NEW t \in Bytes, Len(s) = Len(t), \A i \in 1..Len(s) : s[i] = t[i]
  PROVE  s = t
BY BytesAreInts, SameBytes

LEMMA ConcatBytes ==
  ASSUME NEW s \in Bytes, NEW t \in Bytes
  PROVE  /\ s \o t \in Bytes /\ Len(s \o t) = Len(s) + Len(t) /\ Len(s) \in Nat /\ Len(t) \in Nat
         /\ \A i \in 1..Len(s) : (s \o t)[i] = s[i]
         /\ \A i \in 1..Len(t) : (s \o t)[Len(s) + i] = t[i]
BY DEF Bytes

MaskByte(m, p) == m[((p - 1) % 4) + 1]

\* Every byte of the mask is 0 or 128.
LEMMA MaskByteIs ==
  ASSUME NEW m \in Masks, NEW p \in Nat, p # 0
  PROVE  MaskByte(m, p) \in {0, 128}
<1>1. (p - 1) % 4 \in 0..3
  OBVIOUS
<1>2. ((p - 1) % 4) + 1 \in 1..4
  BY <1>1
<1> QED BY <1>2 DEF MaskByte, Masks

\* Masking a byte twice leaves it as it was.
LEMMA XorIs ==
  ASSUME NEW b \in 0..255, NEW m \in {0, 128}
  PROVE  Xor(b, m) \in 0..255 /\ Xor(Xor(b, m), m) = b /\ (m = 0 => Xor(b, m) = b)
BY DEF Xor

\* What masking does to each byte.
LEMMA MaskIs ==
  ASSUME NEW m \in Masks, NEW b \in Bytes, NEW start \in Nat
  PROVE  /\ Masked(b, m, start) \in Bytes /\ Len(Masked(b, m, start)) = Len(b)
         /\ \A i \in 1..Len(b) : Masked(b, m, start)[i] = Xor(b[i], MaskByte(m, start + i))
<1> DEFINE f == Masked(b, m, start)
           n == Len(b)
<1>1. n \in Nat /\ DOMAIN b = 1..n /\ \A i \in 1..n : b[i] \in 0..255
  BY BytesAreInts
<1>2. f = [i \in 1..n |-> Xor(b[i], MaskByte(m, start + i))]
  BY <1>1 DEF Masked, MaskByte
<1>3. \A i \in 1..n : f[i] = Xor(b[i], MaskByte(m, start + i))
  BY <1>2
<1>4. f = [i \in 1..n |-> f[i]]
  BY <1>2
<1>5. \A i \in 1..n : f[i] \in 0..255
  <2> TAKE i \in 1..n
  <2>1. start + i \in Nat /\ start + i # 0
    BY <1>1
  <2>2. MaskByte(m, start + i) \in {0, 128}
    BY <2>1, MaskByteIs
  <2>3. Xor(b[i], MaskByte(m, start + i)) \in 0..255
    BY <1>1, <2>2, XorIs, ZenonT(60)
  <2> QED BY <1>3, <2>3, SMTT(60)
<1> HIDE DEF f, n
<1>6. f \in Bytes /\ Len(f) = n
  BY <1>1, <1>4, <1>5, BytesFrom
<1> QED BY <1>3, <1>6 DEF f, n

\* WebSocket_unmaskData undoes the masking (WebSocket.c:941-979).
LEMMA MaskTwice ==
  ASSUME NEW m \in Masks, NEW b \in Bytes, NEW start \in Nat
  PROVE  Masked(Masked(b, m, start), m, start) = b
<1> DEFINE f == Masked(b, m, start)
           g == Masked(f, m, start)
           n == Len(b)
<1>1. f \in Bytes /\ Len(f) = n /\ \A i \in 1..n : f[i] = Xor(b[i], MaskByte(m, start + i))
  BY MaskIs
<1> HIDE DEF f
<1>2. g \in Bytes /\ Len(g) = n /\ \A i \in 1..n : g[i] = Xor(f[i], MaskByte(m, start + i))
  BY <1>1, MaskIs
<1> HIDE DEF g
<1>3. n \in Nat /\ \A i \in 1..n : b[i] \in 0..255
  BY BytesAreInts
<1>4. ASSUME NEW i \in 1..n
      PROVE  g[i] = b[i]
  <2>1. start + i \in Nat /\ start + i # 0
    BY <1>3
  <2>2. MaskByte(m, start + i) \in {0, 128}
    BY <2>1, MaskByteIs
  <2>3. PICK x \in {0, 128} : x = MaskByte(m, start + i)
    BY <2>2
  <2>4. PICK y \in 0..255 : y = b[i]
    BY <1>3, SMTT(60)
  <2>5. g[i] = Xor(Xor(y, x), x)
    BY <1>1, <1>2, <2>3, <2>4, SMTT(60)
  <2>6. Xor(Xor(y, x), x) = y
    BY XorIs, ZenonT(60)
  <2> QED BY <2>4, <2>5, <2>6
<1>5. g = b
  BY <1>2, <1>4, SameByteStrings
<1> QED BY <1>5 DEF g, f

\* A buffer is masked from its own position in the packet on.
LEMMA MaskConcat ==
  ASSUME NEW m \in Masks, NEW s \in Bytes, NEW t \in Bytes, NEW k \in Nat
  PROVE  Masked(s \o t, m, k) = Masked(s, m, k) \o Masked(t, m, k + Len(s))
<1> DEFINE u == s \o t
           l == Len(s)
           f == Masked(u, m, k)
           g == Masked(s, m, k)
           h == Masked(t, m, k + l)
           gh == g \o h
<1>1. /\ u \in Bytes /\ Len(u) = l + Len(t) /\ l \in Nat /\ Len(t) \in Nat
      /\ \A i \in 1..l : u[i] = s[i]
      /\ \A i \in 1..Len(t) : u[l + i] = t[i]
  BY ConcatBytes
<1> HIDE DEF u
<1>2. f \in Bytes /\ Len(f) = l + Len(t) /\ \A i \in 1..Len(u) : f[i] = Xor(u[i], MaskByte(m, k + i))
  BY <1>1, MaskIs
<1>3. g \in Bytes /\ Len(g) = l /\ \A i \in 1..l : g[i] = Xor(s[i], MaskByte(m, k + i))
  BY MaskIs
<1>4. k + l \in Nat
  BY <1>1
<1>5. h \in Bytes /\ Len(h) = Len(t) /\ \A i \in 1..Len(t) : h[i] = Xor(t[i], MaskByte(m, (k + l) + i))
  BY <1>4, MaskIs
<1> HIDE DEF f, g, h
<1>6. /\ gh \in Bytes /\ Len(gh) = l + Len(t)
      /\ \A i \in 1..l : gh[i] = g[i]
      /\ \A i \in 1..Len(t) : gh[l + i] = h[i]
  <2>1. g \in Bytes /\ h \in Bytes
    BY <1>3, <1>5
  <2>2. /\ gh \in Bytes /\ Len(gh) = Len(g) + Len(h)
        /\ \A i \in 1..Len(g) : gh[i] = g[i]
        /\ \A i \in 1..Len(h) : gh[Len(g) + i] = h[i]
    BY <2>1, ConcatBytes
  <2> QED BY <1>3, <1>5, <2>2
<1> HIDE DEF gh
<1>7. ASSUME NEW i \in 1..Len(f)
      PROVE  f[i] = gh[i]
  <2>0. i \in 1..Len(u)
    BY <1>1, <1>2
  <2>1. CASE i <= l
    <3>1. i \in 1..l
      BY <1>1, <2>1
    <3>2. f[i] = Xor(s[i], MaskByte(m, k + i))
      BY <1>1, <1>2, <2>0, <3>1
    <3> QED BY <1>3, <1>6, <3>1, <3>2
  <2>2. CASE i > l
    <3> DEFINE j == i - l
    <3>1. j \in 1..Len(t) /\ i = l + j /\ k + i = (k + l) + j
      BY <1>1, <1>2, <2>2
    <3> HIDE DEF j
    <3>2. f[i] = Xor(t[j], MaskByte(m, (k + l) + j))
      BY <1>1, <1>2, <2>0, <3>1
    <3>3. gh[i] = h[j]
      BY <1>6, <3>1
    <3> QED BY <1>5, <3>1, <3>2, <3>3
  <2>3. i <= l \/ i > l
    BY <1>1
  <2> QED BY <2>1, <2>2, <2>3
<1>8. f = gh
  BY <1>2, <1>6, <1>7, SameByteStrings
<1> QED BY <1>8 DEF f, gh, g, h, u

\* The mask 0 changes nothing.
LEMMA NoMaskIs ==
  ASSUME NEW b \in Bytes, NEW start \in Nat
  PROVE  NoMask \in Masks /\ Masked(b, NoMask, start) = b
<1>1. NoMask \in Masks /\ \A i \in 1..4 : NoMask[i] = 0
  BY DEF NoMask, Masks
<1> DEFINE f == Masked(b, NoMask, start)
           n == Len(b)
<1>2. f \in Bytes /\ Len(f) = n /\ \A i \in 1..n : f[i] = Xor(b[i], MaskByte(NoMask, start + i))
  BY <1>1, MaskIs
<1> HIDE DEF f
<1>3. n \in Nat /\ \A i \in 1..n : b[i] \in 0..255
  BY BytesAreInts
<1>4. ASSUME NEW i \in 1..n
      PROVE  f[i] = b[i]
  <2>1. ((start + i - 1) % 4) + 1 \in 1..4
    BY <1>3
  <2>2. MaskByte(NoMask, start + i) = 0
    BY <1>1, <2>1, SMTT(60) DEF MaskByte
  <2>3. Xor(b[i], 0) = b[i]
    BY <1>3, XorIs, ZenonT(60)
  <2> QED BY <1>2, <2>2, <2>3
<1>5. f = b
  BY <1>2, <1>4, SameByteStrings
<1> QED BY <1>1, <1>5 DEF f

----------------------------------------------------------------------------
(* Frames *)

LEMMA Assoc ==
  ASSUME NEW x \in Ints, NEW y \in Ints, NEW z \in Ints
  PROVE  x \o (y \o z) = (x \o y) \o z
<1> DEFINE yz == y \o z
           xy == x \o y
           l == x \o yz
           r == xy \o z
           a == Len(x)
           b == Len(y)
           c == Len(z)
<1>1. /\ yz \in Ints /\ Len(yz) = b + c /\ a \in Nat /\ b \in Nat /\ c \in Nat
      /\ (\A i \in 1..b : yz[i] = y[i]) /\ \A i \in 1..c : yz[b + i] = z[i]
  BY ConcatIs
<1>2. /\ xy \in Ints /\ Len(xy) = a + b
      /\ (\A i \in 1..a : xy[i] = x[i]) /\ \A i \in 1..b : xy[a + i] = y[i]
  BY ConcatIs
<1> HIDE DEF yz, xy
<1>3. /\ l \in Ints /\ Len(l) = a + Len(yz)
      /\ (\A i \in 1..a : l[i] = x[i]) /\ \A i \in 1..Len(yz) : l[a + i] = yz[i]
  BY <1>1, ConcatIs
<1>4. /\ r \in Ints /\ Len(r) = Len(xy) + c
      /\ (\A i \in 1..Len(xy) : r[i] = xy[i]) /\ \A i \in 1..c : r[Len(xy) + i] = z[i]
  BY <1>2, ConcatIs
<1> HIDE DEF l, r, a, b, c
<1>5. ASSUME NEW i \in 1..Len(l)
      PROVE  l[i] = r[i]
  <2>0. i \in Int /\ 1 <= i /\ i <= a + b + c
    BY <1>1, <1>3
  <2>1. CASE i <= a
    <3>1. i \in 1..a /\ i \in 1..Len(xy)
      BY <1>1, <1>2, <2>0, <2>1
    <3> QED BY <1>2, <1>3, <1>4, <3>1
  <2>2. CASE i > a /\ i <= a + b
    <3>1. PICK j \in 1..b : i = a + j
      BY <1>1, <2>0, <2>2
    <3>2. j \in 1..Len(yz) /\ i \in 1..Len(xy)
      BY <1>1, <1>2, <2>0, <2>2, <3>1
    <3>3. l[i] = yz[j] /\ yz[j] = y[j]
      BY <1>1, <1>3, <3>1, <3>2
    <3>4. r[i] = xy[i] /\ xy[i] = y[j]
      BY <1>2, <1>4, <3>1, <3>2
    <3> QED BY <3>3, <3>4
  <2>3. CASE i > a + b
    <3>1. PICK j \in 1..c : i = (a + b) + j
      <4>1. i - (a + b) \in 1..c /\ i = (a + b) + (i - (a + b))
        BY <1>1, <2>0, <2>3
      <4> QED BY <4>1
    <3>2. b + j \in 1..Len(yz) /\ i = a + (b + j) /\ i = Len(xy) + j
      BY <1>1, <1>2, <3>1
    <3>3. l[i] = yz[b + j] /\ yz[b + j] = z[j]
      BY <1>1, <1>3, <3>1, <3>2
    <3>4. r[i] = z[j]
      BY <1>4, <3>1, <3>2
    <3> QED BY <3>3, <3>4
  <2>4. i <= a \/ (i > a /\ i <= a + b) \/ i > a + b
    BY <1>1, <2>0
  <2> QED BY <2>1, <2>2, <2>3, <2>4
<1>6. Len(l) = Len(r)
  BY <1>1, <1>2, <1>3, <1>4
<1>7. l = r
  BY <1>3, <1>4, <1>5, <1>6, SameBytes
<1> QED BY <1>7 DEF l, r, yz, xy

\* the first k + 1 of a sequence of sequences
LEMMA FirstParts ==
  ASSUME NEW S, NEW parts \in Seq(S), NEW k \in Nat, k < Len(parts)
  PROVE  /\ SubSeq(parts, 1, k) \in Seq(S) /\ parts[k + 1] \in S
         /\ SubSeq(parts, 1, k + 1) = Append(SubSeq(parts, 1, k), parts[k + 1])
OBVIOUS

LEMMA AllParts ==
  ASSUME NEW S, NEW parts \in Seq(S)
  PROVE  SubSeq(parts, 1, 0) = <<>> /\ SubSeq(parts, 1, Len(parts)) = parts /\ Len(parts) \in Nat
OBVIOUS

LEMMA BytePartsAreInts ==
  ASSUME NEW bufs \in Seq(Bytes)
  PROVE  bufs \in Seq(Ints)
<1>1. \A x \in Bytes : x \in Ints
  BY BytesAreInts
<1> HIDE DEF Bytes, Ints
<1> QED BY <1>1, SeqWithin

LEMMA FlattenFirst ==
  ASSUME NEW x \in Ints, NEW ys \in Seq(Ints)
  PROVE  <<x>> \o ys \in Seq(Ints) /\ Flatten(<<x>> \o ys) = x \o Flatten(ys)
<1> DEFINE n == Len(ys)
           Y(k) == SubSeq(ys, 1, k)
           Good(k) == <<x>> \o Y(k) \in Seq(Ints) /\ Flatten(<<x>> \o Y(k)) = x \o Flatten(Y(k))
           Bad == {k \in 0..n : ~Good(k)}
<1>1. n \in Nat /\ Y(0) = <<>> /\ Y(n) = ys
  BY AllParts
<1>2. Good(0)
  <2>1. <<x>> \o <<>> = Append(<<>>, x) /\ <<>> \in Seq(Ints) /\ <<x>> \o <<>> \in Seq(Ints)
    OBVIOUS
  <2>2. Flatten(Append(<<>>, x)) = Flatten(<<>>) \o x
    BY <2>1, FlattenAppend
  <2>3. <<>> \o x = x /\ x \o <<>> = x
    BY DEF Ints
  <2> QED BY <1>1, <2>1, <2>2, <2>3, FlattenEmpty
<1>3. ASSUME NEW k \in Nat, k < n, Good(k)
      PROVE  Good(k + 1)
  <2>1. Y(k) \in Seq(Ints) /\ ys[k + 1] \in Ints /\ Y(k + 1) = Append(Y(k), ys[k + 1])
    BY <1>3, FirstParts
  <2>2. PICK y \in Seq(Ints) : y = Y(k)
    BY <2>1
  <2>3. PICK v \in Ints : v = ys[k + 1]
    BY <2>1
  <2>4. <<x>> \o Append(y, v) = Append(<<x>> \o y, v)
    OBVIOUS
  <2>5. <<x>> \o y \in Seq(Ints) /\ Flatten(<<x>> \o y) = x \o Flatten(y)
    BY <1>3, <2>2
  <2>6. Append(<<x>> \o y, v) \in Seq(Ints) /\ Flatten(Append(<<x>> \o y, v)) = (x \o Flatten(y)) \o v
    BY <2>5, OneMore
  <2>7. Flatten(Append(y, v)) = Flatten(y) \o v /\ Flatten(y) \in Ints
    BY FlattenAppend, FlattenType
  <2>8. x \o (Flatten(y) \o v) = (x \o Flatten(y)) \o v
    BY <2>7, Assoc
  <2>9. Y(k + 1) = Append(y, v)
    BY <2>1, <2>2, <2>3
  <2> QED BY <2>4, <2>6, <2>7, <2>8, <2>9
<1> HIDE DEF Good, n
<1>4. Bad = {}
  <2> SUFFICES ASSUME Bad # {} PROVE FALSE
    OBVIOUS
  <2>1. PICK k \in Bad : \A j \in Bad : k <= j
    <3>1. Bad \in SUBSET Nat
      OBVIOUS
    <3> HIDE DEF Bad
    <3> QED BY <3>1, LeastOf
  <2>2. k \in 0..n /\ ~Good(k)
    OBVIOUS
  <2>3. k # 0
    BY <1>2, <2>2
  <2>4. k - 1 \in Nat /\ k - 1 < n /\ k - 1 \in 0..n /\ k - 1 < k /\ (k - 1) + 1 = k
    BY <1>1, <2>2, <2>3
  <2>5. k - 1 \notin Bad
    BY <2>1, <2>4
  <2>6. Good(k - 1)
    BY <2>4, <2>5
  <2>7. Good((k - 1) + 1)
    BY <1>3, <2>4, <2>6
  <2> QED BY <2>2, <2>4, <2>7
<1>5. Good(n)
  BY <1>1, <1>4
<1> QED BY <1>1, <1>5 DEF Good

\* the buffers masked one by one are the masked bytes
LEMMA MaskedParts ==
  ASSUME NEW m \in Masks, NEW buf0 \in Bytes, NEW bufs \in Seq(Bytes)
  PROVE  /\ MaskedAll(buf0, bufs, m) \in Seq(Bytes) /\ Len(MaskedAll(buf0, bufs, m)) = Len(bufs)
         /\ \A k \in 0..Len(bufs) :
              /\ Flatten(SubSeq(bufs, 1, k)) \in Bytes
              /\ Flatten(SubSeq(MaskedAll(buf0, bufs, m), 1, k)) = Masked(Flatten(SubSeq(bufs, 1, k)), m, Len(buf0))
<1> DEFINE n == Len(bufs)
           Z(k) == SubSeq(bufs, 1, k)
           ms == MaskedAll(buf0, bufs, m)
           start == Len(buf0)
           Good(k) == Flatten(Z(k)) \in Bytes
           Bad == {k \in 0..n : ~Good(k)}
<1>1. n \in Nat /\ Z(0) = <<>> /\ Z(n) = bufs /\ start \in Nat /\ DOMAIN bufs = 1..n /\ \A i \in 1..n : bufs[i] \in Bytes
  BY AllParts, BytesAreInts
<1>2. Good(0)
  <2>1. <<>> \in Bytes
    BY DEF Bytes
  <2> QED BY <1>1, <2>1, FlattenEmpty
<1>3. ASSUME NEW k \in Nat, k < n
      PROVE  /\ Z(k) \in Seq(Ints) /\ bufs[k + 1] \in Bytes /\ bufs[k + 1] \in Ints
             /\ Flatten(Z(k + 1)) = Flatten(Z(k)) \o bufs[k + 1]
  <2>1. Z(k) \in Seq(Bytes) /\ bufs[k + 1] \in Bytes /\ Z(k + 1) = Append(Z(k), bufs[k + 1])
    BY <1>3, FirstParts
  <2> HIDE DEF Z
  <2>2. Z(k) \in Seq(Ints) /\ bufs[k + 1] \in Ints
    BY <2>1, BytePartsAreInts, BytesAreInts
  <2> QED BY <2>1, <2>2, OneMore
<1>4. ASSUME NEW k \in Nat, k < n, Good(k)
      PROVE  Good(k + 1)
  BY <1>3, <1>4, ConcatBytes, ZenonT(60)
<1> HIDE DEF Good
<1>5. ASSUME Bad # {} PROVE FALSE
  <2>1. PICK k \in Bad : \A j \in Bad : k <= j
    <3>1. Bad \in SUBSET Nat
      OBVIOUS
    <3> HIDE DEF Bad
    <3> QED BY <1>5, <3>1, LeastOf
  <2>2. k \in 0..n /\ ~Good(k)
    OBVIOUS
  <2>3. k # 0
    BY <1>2, <2>2
  <2>4. k - 1 \in Nat /\ k - 1 < n /\ k - 1 \in 0..n /\ k - 1 < k /\ (k - 1) + 1 = k
    BY <1>1, <2>2, <2>3
  <2>5. k - 1 \notin Bad
    BY <2>1, <2>4
  <2>6. Good(k - 1)
    BY <2>4, <2>5
  <2>7. Good((k - 1) + 1)
    BY <1>4, <2>4, <2>6
  <2> QED BY <2>2, <2>4, <2>7
<1>6. \A k \in 0..n : Flatten(Z(k)) \in Bytes
  BY <1>5 DEF Good
<1> HIDE DEF Bad
<1>7. ASSUME NEW k \in Nat, k < n
      PROVE  /\ ms[k + 1] = Masked(bufs[k + 1], m, start + Len(Flatten(Z(k))))
             /\ ms[k + 1] \in Bytes /\ start + Len(Flatten(Z(k))) \in Nat
  <2>1. k + 1 \in DOMAIN bufs /\ (k + 1) - 1 = k /\ k \in 0..n
    BY <1>1, <1>7
  <2>2. ms[k + 1] = Masked(bufs[k + 1], m, Start(buf0, bufs, k + 1))
    BY <2>1 DEF MaskedAll
  <2>3. Start(buf0, bufs, k + 1) = start + Len(Flatten(Z(k)))
    BY <2>1 DEF Start
  <2>4. start + Len(Flatten(Z(k))) \in Nat
    <3>1. Flatten(Z(k)) \in Bytes
      BY <1>6, <2>1
    <3>2. Len(Flatten(Z(k))) \in Nat
      BY <3>1, BytesAreInts
    <3> QED BY <1>1, <3>2
  <2>5. bufs[k + 1] \in Bytes
    BY <1>3, <1>7
  <2> HIDE DEF Z, start, ms
  <2>6. Masked(bufs[k + 1], m, start + Len(Flatten(Z(k)))) \in Bytes
    BY <2>4, <2>5, MaskIs
  <2> QED BY <2>2, <2>3, <2>4, <2>6
<1>8. ms \in Seq(Bytes) /\ Len(ms) = n
  <2>1. ms = [i \in 1..n |-> ms[i]]
    BY <1>1 DEF MaskedAll
  <2>2. ASSUME NEW i \in 1..n
        PROVE  ms[i] \in Bytes
    <3>1. i - 1 \in Nat /\ i - 1 < n /\ (i - 1) + 1 = i
      BY <1>1
    <3>2. ms[(i - 1) + 1] \in Bytes
      BY <1>7, <3>1
    <3> QED BY <3>1, <3>2
  <2> HIDE DEF ms
  <2>3. ms \in [1..n -> Bytes]
    BY <2>1, <2>2
  <2> QED BY <1>1, <2>3
<1> DEFINE M(k) == SubSeq(ms, 1, k)
           Right(k) == Flatten(M(k)) = Masked(Flatten(Z(k)), m, start)
           Wrong == {k \in 0..n : ~Right(k)}
<1> HIDE DEF ms
<1>9. Right(0)
  <2>1. M(0) = <<>>
    BY <1>8, AllParts
  <2>2. <<>> \in Bytes /\ Len(<<>>) = 0
    BY DEF Bytes
  <2>3. Masked(<<>>, m, start) \in Bytes /\ Len(Masked(<<>>, m, start)) = 0
    BY <1>1, <2>2, MaskIs
  <2>4. Masked(<<>>, m, start) = <<>>
    BY <2>2, <2>3, SameByteStrings
  <2> QED BY <1>1, <2>1, <2>4, FlattenEmpty
<1>10. ASSUME NEW k \in Nat, k < n, Right(k)
       PROVE  Right(k + 1)
  <2>1. M(k) \in Seq(Bytes) /\ ms[k + 1] \in Bytes /\ M(k + 1) = Append(M(k), ms[k + 1])
    <3>1. k < Len(ms)
      BY <1>8, <1>10
    <3> QED BY <1>8, <3>1, FirstParts
  <2>2. k \in 0..n
    BY <1>1, <1>10
  <2>3. PICK y \in Bytes : y = Flatten(Z(k))
    BY <1>6, <2>2
  <2>4. PICK v \in Bytes : v = bufs[k + 1]
    BY <1>3, <1>10
  <2>5. Flatten(Z(k + 1)) = y \o v
    BY <1>3, <1>10, <2>3, <2>4
  <2>6. ms[k + 1] = Masked(v, m, start + Len(y))
    BY <1>7, <1>10, <2>3, <2>4
  <2>7. M(k) \in Seq(Ints) /\ ms[k + 1] \in Ints
    <3> HIDE DEF M
    <3> QED BY <2>1, BytePartsAreInts, BytesAreInts
  <2>8. Flatten(M(k + 1)) = Flatten(M(k)) \o ms[k + 1]
    <3> HIDE DEF M
    <3> QED BY <2>1, <2>7, OneMore
  <2>9. Masked(y \o v, m, start) = Masked(y, m, start) \o Masked(v, m, start + Len(y))
    BY <1>1, MaskConcat
  <2>10. Flatten(M(k)) = Masked(y, m, start)
    BY <1>10, <2>3
  <2> QED BY <2>5, <2>6, <2>8, <2>9, <2>10
<1> HIDE DEF Right
<1>11. ASSUME Wrong # {} PROVE FALSE
  <2>1. PICK k \in Wrong : \A j \in Wrong : k <= j
    <3>1. Wrong \in SUBSET Nat
      OBVIOUS
    <3> HIDE DEF Wrong
    <3> QED BY <1>11, <3>1, LeastOf
  <2>2. k \in 0..n /\ ~Right(k)
    OBVIOUS
  <2>3. k # 0
    BY <1>9, <2>2
  <2>4. k - 1 \in Nat /\ k - 1 < n /\ k - 1 \in 0..n /\ k - 1 < k /\ (k - 1) + 1 = k
    BY <1>1, <2>2, <2>3
  <2>5. k - 1 \notin Wrong
    BY <2>1, <2>4
  <2>6. Right(k - 1)
    BY <2>4, <2>5
  <2>7. Right((k - 1) + 1)
    BY <1>10, <2>4, <2>6
  <2> QED BY <2>2, <2>4, <2>7
<1>12. \A k \in 0..n : Flatten(M(k)) = Masked(Flatten(Z(k)), m, start)
  BY <1>11 DEF Right
<1> QED BY <1>6, <1>8, <1>12 DEF ms

\* masked twice, the buffers are what they were
LEMMA UnmaskedParts ==
  ASSUME NEW m \in Masks, NEW buf0 \in Bytes, NEW bufs \in Seq(Bytes)
  PROVE  MaskedAll(buf0, MaskedAll(buf0, bufs, m), m) = bufs
<1> DEFINE n == Len(bufs)
           ms == MaskedAll(buf0, bufs, m)
           us == MaskedAll(buf0, ms, m)
<1>1. /\ ms \in Seq(Bytes) /\ Len(ms) = n
      /\ \A k \in 0..n :
            /\ Flatten(SubSeq(bufs, 1, k)) \in Bytes
            /\ Flatten(SubSeq(ms, 1, k)) = Masked(Flatten(SubSeq(bufs, 1, k)), m, Len(buf0))
  BY MaskedParts
<1>2. n \in Nat /\ Len(buf0) \in Nat /\ DOMAIN bufs = 1..n /\ \A i \in 1..n : bufs[i] \in Bytes
  BY BytesAreInts
<1>3. \A i \in 1..n : ms[i] = Masked(bufs[i], m, Start(buf0, bufs, i))
  BY <1>2 DEF MaskedAll
<1> HIDE DEF ms
<1>4. DOMAIN ms = 1..n
  BY <1>1
<1>5. us = [i \in 1..n |-> Masked(ms[i], m, Start(buf0, ms, i))]
  BY <1>4 DEF MaskedAll
<1>6. ASSUME NEW i \in 1..n
      PROVE  Masked(ms[i], m, Start(buf0, ms, i)) = bufs[i]
  <2>1. PICK y \in Bytes : y = Flatten(SubSeq(bufs, 1, i - 1)) /\ Flatten(SubSeq(ms, 1, i - 1)) = Masked(y, m, Len(buf0))
    <3>1. i - 1 \in 0..n
      BY <1>2
    <3> QED BY <1>1, <3>1
  <2>2. Len(Masked(y, m, Len(buf0))) = Len(y) /\ Len(y) \in Nat
    BY <1>2, MaskIs, BytesAreInts
  <2>3. Start(buf0, ms, i) = Len(buf0) + Len(y) /\ Start(buf0, bufs, i) = Len(buf0) + Len(y)
    BY <2>1, <2>2 DEF Start
  <2>4. ms[i] = Masked(bufs[i], m, Len(buf0) + Len(y)) /\ Len(buf0) + Len(y) \in Nat
    BY <1>2, <1>3, <2>2, <2>3
  <2>5. PICK v \in Bytes : v = bufs[i]
    BY <1>2
  <2>6. Masked(Masked(v, m, Len(buf0) + Len(y)), m, Len(buf0) + Len(y)) = v
    BY <2>4, MaskTwice
  <2> QED BY <2>3, <2>4, <2>5, <2>6
<1>7. bufs = [i \in 1..n |-> bufs[i]]
  BY <1>2
<1>8. us = bufs
  BY <1>5, <1>6, <1>7
<1> QED BY <1>8 DEF us, ms

\* The length field says in its first byte how long it is.
LEMMA PayloadLengthIs ==
  ASSUME NEW n \in Nat
  PROVE  /\ PayloadLength(n) \in Ints /\ Len(PayloadLength(n)) \in {1, 3, 9}
         /\ Len(PayloadLength(n)) = 1 => PayloadLength(n)[1] % 128 = n /\ n < 126
         /\ Len(PayloadLength(n)) = 3 => PayloadLength(n)[1] % 128 = 126
         /\ Len(PayloadLength(n)) = 9 => PayloadLength(n)[1] % 128 = 127
<1>1. CASE n < 126
  <2>1. PayloadLength(n) = <<128 + n>>
    BY <1>1 DEF PayloadLength
  <2> QED BY <1>1, <2>1 DEF Ints
<1>2. CASE ~(n < 126) /\ n < 65536
  <2>1. PayloadLength(n) = <<128 + 126, n \div 256, n % 256>>
    BY <1>2 DEF PayloadLength
  <2>2. n \div 256 \in Int /\ n % 256 \in Int
    OBVIOUS
  <2> QED BY <2>1, <2>2 DEF Ints
<1>3. CASE ~(n < 126) /\ ~(n < 65536)
  <2> DEFINE a == n \div 16777216
             b == (n \div 65536) % 256
             c == (n \div 256) % 256
             d == n % 256
  <2>1. PayloadLength(n) = <<128 + 127, 0, 0, 0, 0, a, b, c, d>>
    BY <1>3, SMT DEF PayloadLength
  <2>2. a \in Int /\ b \in Int /\ c \in Int /\ d \in Int
    BY SMT
  <2> HIDE DEF a, b, c, d
  <2> QED BY <2>1, <2>2, SMT DEF Ints
<1> QED BY <1>1, <1>2, <1>3

LEMMA NewMaskIs == NewMask \in Masks /\ NewMask \in Ints /\ NewMask \in Bytes /\ Len(NewMask) = 4
<1>1. NewMask \in Masks
  BY WireAssumption DEF Masks
<1>2. NewMask = [i \in 1..4 |-> NewMask[i]] /\ \A i \in 1..4 : NewMask[i] \in 0..255
  BY <1>1 DEF Masks
<1>3. NewMask \in Bytes /\ Len(NewMask) = 4
  BY <1>2, BytesFrom
<1> QED BY <1>1, <1>3, BytesAreInts

Opcodes == {BINARY, CLOSE, PONG}
FrameHead(op, n) == <<128 + op>> \o PayloadLength(n) \o NewMask
WsFrame(op, bytes) == FrameHead(op, Len(bytes)) \o Masked(bytes, NewMask, 0)

\* Where the opcode, the length and the mask are in a frame.
LEMMA FrameHeadIs ==
  ASSUME NEW op \in Opcodes, NEW n \in Nat
  PROVE  /\ FrameHead(op, n) \in Ints /\ Len(FrameHead(op, n)) = 5 + Len(PayloadLength(n))
         /\ FrameHead(op, n)[1] = 128 + op /\ FrameHead(op, n)[2] = PayloadLength(n)[1]
         /\ \A i \in 1..4 : FrameHead(op, n)[1 + Len(PayloadLength(n)) + i] = NewMask[i]
<1> DEFINE x == <<128 + op>>
           p == PayloadLength(n)
           xp == x \o p
           h == xp \o NewMask
<1>1. x \in Ints /\ Len(x) = 1 /\ x[1] = 128 + op
  BY DEF Ints, Opcodes, BINARY, CLOSE, PONG
<1>2. p \in Ints /\ Len(p) \in {1, 3, 9}
  BY PayloadLengthIs
<1> HIDE DEF x, p
<1>3. xp \in Ints /\ Len(xp) = 1 + Len(p) /\ xp[1] = x[1] /\ xp[2] = p[1]
  <2>1. /\ xp \in Ints /\ Len(xp) = Len(x) + Len(p) /\ (\A i \in 1..Len(x) : xp[i] = x[i])
        /\ \A i \in 1..Len(p) : xp[Len(x) + i] = p[i]
    BY <1>1, <1>2, ConcatIs, ZenonT(60)
  <2>2. 1 \in 1..Len(x) /\ 1 \in 1..Len(p) /\ Len(x) + 1 = 2
    <3>1. \A l \in {1, 3, 9} : 1 \in 1..l
      OBVIOUS
    <3>2. 1 \in 1..Len(p)
      BY <1>2, <3>1
    <3>3. 1 \in 1..Len(x) /\ Len(x) + 1 = 2
      BY <1>1
    <3> QED BY <3>2, <3>3
  <2>3. xp[1] = x[1] /\ xp[Len(x) + 1] = p[1]
    BY <2>1, <2>2
  <2> QED BY <1>1, <2>1, <2>2, <2>3
<1> HIDE DEF xp
<1>4. /\ h \in Ints /\ Len(h) = Len(xp) + 4 /\ \A i \in 1..Len(xp) : h[i] = xp[i]
      /\ \A i \in 1..4 : h[Len(xp) + i] = NewMask[i]
  <2>1. /\ h \in Ints /\ Len(h) = Len(xp) + Len(NewMask) /\ \A i \in 1..Len(xp) : h[i] = xp[i]
        /\ \A i \in 1..Len(NewMask) : h[Len(xp) + i] = NewMask[i]
    BY <1>3, NewMaskIs, ConcatIs
  <2>2. Len(NewMask) = 4
    BY NewMaskIs
  <2> QED BY <2>1, <2>2
<1> HIDE DEF h
<1>5. 1 \in 1..Len(xp) /\ 2 \in 1..Len(xp)
  <2>1. \A l \in {1, 3, 9} : 1 \in 1 .. 1 + l /\ 2 \in 1 .. 1 + l
    OBVIOUS
  <2> QED BY <1>2, <1>3, <2>1
<1>6. h[1] = 128 + op
  BY <1>1, <1>3, <1>4, <1>5
<1>8. h[2] = p[1]
  BY <1>3, <1>4, <1>5
<1>9. Len(h) = 5 + Len(p) /\ Len(xp) = 1 + Len(p)
  BY <1>2, <1>3, <1>4
<1>10. FrameHead(op, n) = h
  BY DEF FrameHead, h, xp, x, p
<1> QED BY <1>4, <1>6, <1>8, <1>9, <1>10 DEF p

\* What a frame consists of.
LEMMA WsFrameIs ==
  ASSUME NEW op \in Opcodes, NEW bytes \in Bytes
  PROVE  /\ WsFrame(op, bytes) \in Ints
         /\ Len(WsFrame(op, bytes)) = Len(bytes) + (5 + Len(PayloadLength(Len(bytes))))
         /\ \A i \in 1 .. 5 + Len(PayloadLength(Len(bytes))) : WsFrame(op, bytes)[i] = FrameHead(op, Len(bytes))[i]
         /\ \A i \in 1..Len(bytes) :
              WsFrame(op, bytes)[(5 + Len(PayloadLength(Len(bytes)))) + i] = Masked(bytes, NewMask, 0)[i]
<1> DEFINE h == FrameHead(op, Len(bytes))
           b == Masked(bytes, NewMask, 0)
           p == 5 + Len(PayloadLength(Len(bytes)))
<1>1. Len(bytes) \in Nat
  BY BytesAreInts
<1>2. h \in Ints /\ Len(h) = p
  BY <1>1, FrameHeadIs
<1>3. b \in Ints /\ Len(b) = Len(bytes)
  <2>1. b \in Bytes /\ Len(b) = Len(bytes)
    BY NewMaskIs, MaskIs
  <2> QED BY <2>1, BytesAreInts
<1>4. p \in Nat
  BY <1>1, PayloadLengthIs
<1> HIDE DEF h, b, p
<1>5. /\ h \o b \in Ints /\ Len(h \o b) = p + Len(bytes)
      /\ \A i \in 1..p : (h \o b)[i] = h[i]
      /\ \A i \in 1..Len(bytes) : (h \o b)[p + i] = b[i]
  <2>1. /\ h \o b \in Ints /\ Len(h \o b) = Len(h) + Len(b)
        /\ \A i \in 1..Len(h) : (h \o b)[i] = h[i]
        /\ \A i \in 1..Len(b) : (h \o b)[Len(h) + i] = b[i]
    BY <1>2, <1>3, ConcatIs
  <2> QED BY <1>2, <1>3, <2>1
<1>6. WsFrame(op, bytes) = h \o b
  BY DEF WsFrame, h, b
<1>7. p + Len(bytes) = Len(bytes) + p
  BY <1>1, <1>4
<1> QED BY <1>5, <1>6, <1>7 DEF h, b, p

\* WebSocket_buildFrame with a new mask
LEMMA BuiltFrame ==
  ASSUME NEW op \in Opcodes, NEW buf0 \in Bytes, NEW bufs \in Seq(Bytes),
         NEW f, f = WebSocket_buildFrame(op, buf0, bufs, NoMask)
  PROVE  /\ f.mask = NewMask /\ f.bufs = MaskedAll(buf0, bufs, NewMask)
         /\ buf0 \o Flatten(bufs) \in Bytes
         /\ <<f.wsbuf0>> \o f.bufs \in Seq(Ints)
         /\ Flatten(<<f.wsbuf0>> \o f.bufs) = WsFrame(op, buf0 \o Flatten(bufs))
<1> DEFINE n == Len(bufs)
           flat == Flatten(bufs)
           all == buf0 \o flat
           head == FrameHead(op, Len(all))
           m0 == Masked(buf0, NewMask, 0)
           m1 == Masked(flat, NewMask, Len(buf0))
           ms == MaskedAll(buf0, bufs, NewMask)
<1>1. NoMask[1] = 0
  BY DEF NoMask
<1>2. f.mask = NewMask /\ f.bufs = ms
  BY <1>1 DEF WebSocket_buildFrame, MaskedAll
<1>3. n \in Nat /\ SubSeq(bufs, 1, n) = bufs /\ n \in 0..n
  BY AllParts
<1>4. ms \in Seq(Bytes) /\ Len(ms) = n /\ flat \in Bytes /\ Flatten(SubSeq(ms, 1, n)) = m1
  <2>1. NewMask \in Masks
    BY NewMaskIs
  <2>2. /\ ms \in Seq(Bytes) /\ Len(ms) = n
        /\ \A k \in 0..n :
             /\ Flatten(SubSeq(bufs, 1, k)) \in Bytes
             /\ Flatten(SubSeq(ms, 1, k)) = Masked(Flatten(SubSeq(bufs, 1, k)), NewMask, Len(buf0))
    BY <2>1, MaskedParts
  <2>3. /\ Flatten(SubSeq(bufs, 1, n)) \in Bytes
        /\ Flatten(SubSeq(ms, 1, n)) = Masked(Flatten(SubSeq(bufs, 1, n)), NewMask, Len(buf0))
    BY <1>3, <2>2
  <2> QED BY <1>3, <2>2, <2>3
<1>5. Flatten(ms) = m1
  <2> HIDE DEF ms
  <2>1. SubSeq(ms, 1, n) = ms
    BY <1>4, AllParts
  <2> QED BY <1>4, <2>1
<1> HIDE DEF flat
<1>6. all \in Bytes /\ Len(all) = Len(buf0) + Len(flat) /\ Len(buf0) \in Nat /\ Len(flat) \in Nat
  BY <1>4, ConcatBytes
<1>7. Start(buf0, bufs, n + 1) = Len(all)
  <2>1. (n + 1) - 1 = n
    BY <1>3
  <2> QED BY <1>3, <1>6, <2>1 DEF Start, flat
<1>8. f.wsbuf0 = head \o m0
  <2>1. f.wsbuf0 = <<128 + op>> \o PayloadLength(Start(buf0, bufs, n + 1)) \o NewMask \o m0
    BY <1>1 DEF WebSocket_buildFrame
  <2> QED BY <1>7, <2>1 DEF FrameHead
<1>9. head \in Ints
  <2>1. Len(all) \in Nat
    BY <1>6
  <2> QED BY <2>1, FrameHeadIs
<1>10. m0 \in Ints /\ m1 \in Ints
  <2>1. m0 \in Bytes /\ m1 \in Bytes
    BY <1>4, <1>6, NewMaskIs, MaskIs
  <2> QED BY <2>1, BytesAreInts
<1>11. Masked(all, NewMask, 0) = m0 \o m1
  <2>1. 0 + Len(buf0) = Len(buf0) /\ 0 \in Nat /\ NewMask \in Masks
    BY <1>6, NewMaskIs
  <2>2. Masked(buf0 \o flat, NewMask, 0) = Masked(buf0, NewMask, 0) \o Masked(flat, NewMask, 0 + Len(buf0))
    BY <1>4, <2>1, MaskConcat
  <2> QED BY <2>1, <2>2
<1> HIDE DEF head, m0, m1, ms
<1>12. ms \in Seq(Ints) /\ f.wsbuf0 \in Ints
  BY <1>4, <1>8, <1>9, <1>10, BytePartsAreInts, ConcatIs
<1>13. <<f.wsbuf0>> \o ms \in Seq(Ints) /\ Flatten(<<f.wsbuf0>> \o ms) = (head \o m0) \o m1
  BY <1>5, <1>8, <1>12, FlattenFirst
<1>14. head \o (m0 \o m1) = (head \o m0) \o m1
  BY <1>9, <1>10, Assoc
<1>15. WsFrame(op, all) = head \o (m0 \o m1)
  BY <1>11 DEF WsFrame, head
<1> QED BY <1>2, <1>6, <1>13, <1>14, <1>15 DEF ms, flat

\* what is on the wire for something that was taken for sending
Frame(c, a) == IF c \in WebSockets THEN WsFrame(a.op, a.bytes) ELSE a.bytes

Taken == [op : Opcodes, bytes : Bytes, at : Nat]
TakenBy(c) == {a \in Taken : c \in WebSockets \/ a.op = BINARY}

\* A frame takes as much room on the wire as was counted for it.
LEMMA FrameIs ==
  ASSUME NEW c, NEW a \in Taken
  PROVE  Frame(c, a) \in Ints /\ Len(Frame(c, a)) = WireLen(c, a) /\ WireLen(c, a) \in Nat
<1>1. a.op \in Opcodes /\ a.bytes \in Bytes
  BY DEF Taken
<1>2. Len(a.bytes) \in Nat /\ a.bytes \in Ints
  BY <1>1, BytesAreInts
<1>3. CASE c \in WebSockets
  <2>1. Frame(c, a) = WsFrame(a.op, a.bytes)
    BY <1>3 DEF Frame
  <2>2. WsFrame(a.op, a.bytes) \in Ints /\ Len(WsFrame(a.op, a.bytes)) = Len(a.bytes) + (5 + Len(PayloadLength(Len(a.bytes))))
    BY <1>1, WsFrameIs
  <2>3. WireLen(c, a) = Len(a.bytes) + (5 + Len(PayloadLength(Len(a.bytes))))
    BY <1>3 DEF WireLen
  <2>4. Len(Frame(c, a)) = WireLen(c, a) /\ Frame(c, a) \in Ints
    BY <2>1, <2>2, <2>3
  <2>5. Len(Frame(c, a)) \in Nat
    BY <2>4, ConcatIs
  <2> QED BY <2>4, <2>5
<1>4. CASE c \notin WebSockets
  <2>1. Frame(c, a) = a.bytes /\ WireLen(c, a) = Len(a.bytes)
    BY <1>2, <1>4 DEF Frame, WireLen
  <2> QED BY <1>2, <2>1
<1> QED BY <1>3, <1>4

\* The server gets from a frame what was put in it.
LEMMA SeesFrame ==
  ASSUME NEW c, NEW a \in TakenBy(c)
  PROVE  ServerSees(c, Frame(c, a)) = [op |-> a.op, bytes |-> a.bytes]
<1>1. CASE c \notin WebSockets
  <2>1. a.op = BINARY
    BY <1>1 DEF TakenBy
  <2> QED BY <1>1, <2>1 DEF ServerSees, Frame
<1>2. CASE c \in WebSockets
  <2>1. PICK op \in Opcodes : op = a.op
    BY DEF Taken, TakenBy
  <2>2. PICK bytes \in Bytes : bytes = a.bytes
    BY DEF Taken, TakenBy
  <2> DEFINE F == WsFrame(op, bytes)
             p == PayloadLength(Len(bytes))
             q == Len(p)
             h == 5 + q
             n == Len(bytes)
             b == Masked(bytes, NewMask, 0)
  <2>3. n \in Nat
    BY BytesAreInts
  <2>4. /\ q \in {1, 3, 9}
        /\ q = 1 => p[1] % 128 = n /\ n < 126
        /\ q = 3 => p[1] % 128 = 126
        /\ q = 9 => p[1] % 128 = 127
    BY <2>3, PayloadLengthIs
  <2>5. /\ FrameHead(op, n)[1] = 128 + op /\ FrameHead(op, n)[2] = p[1]
        /\ \A i \in 1..4 : FrameHead(op, n)[1 + q + i] = NewMask[i]
    BY <2>3, FrameHeadIs
  <2>6. /\ F \in Ints /\ Len(F) = n + h
        /\ \A i \in 1..h : F[i] = FrameHead(op, n)[i]
        /\ \A i \in 1..n : F[h + i] = b[i]
    BY WsFrameIs
  <2>7. b \in Ints /\ Len(b) = n /\ Masked(b, NewMask, 0) = bytes
    <3>1. NewMask \in Masks /\ 0 \in Nat
      BY NewMaskIs
    <3>2. b \in Bytes /\ Len(b) = n
      BY <3>1, MaskIs
    <3> QED BY <3>1, <3>2, MaskTwice, BytesAreInts
  <2>8. q \in Nat /\ h \in Nat /\ 1 \in 1..h /\ 2 \in 1..h /\ h - 4 \in Nat /\ h - 4 = 1 + q /\ h - 4 <= h
    <3>1. \A l \in {1, 3, 9} : /\ l \in Nat /\ 5 + l \in Nat /\ 1 \in 1 .. 5 + l /\ 2 \in 1 .. 5 + l
                               /\ (5 + l) - 4 \in Nat /\ (5 + l) - 4 = 1 + l /\ (5 + l) - 4 <= 5 + l
      OBVIOUS
    <3> QED BY <2>4, <3>1
  <2> HIDE DEF F, b
  <2>9. F[1] = 128 + op /\ F[2] = p[1]
    BY <2>5, <2>6, <2>8
  <2>10. F[1] % 16 = op
    <3>1. \A o \in Opcodes : (128 + o) % 16 = o
      BY DEF Opcodes, BINARY, CLOSE, PONG
    <3> QED BY <2>9, <3>1
  <2> DEFINE len7 == F[2] % 128
             hh == IF len7 < 126 THEN 6 ELSE IF len7 = 126 THEN 8 ELSE 14
  <2>11. hh = h
    <3>1. CASE q = 1
      <4>1. len7 < 126
        BY <2>4, <2>9, <3>1
      <4>2. hh = 6
        BY <4>1
      <4> QED BY <3>1, <4>2
    <3>2. CASE q = 3
      <4>1. len7 = 126
        BY <2>4, <2>9, <3>2
      <4> HIDE DEF len7
      <4> QED BY <3>2, <4>1
    <3>3. CASE q = 9
      <4>1. len7 = 127
        BY <2>4, <2>9, <3>3
      <4> HIDE DEF len7
      <4> QED BY <3>3, <4>1
    <3> QED BY <2>4, <3>1, <3>2, <3>3
  <2>12. ServerSees(c, F) = [op |-> F[1] % 16, bytes |-> Masked(SubSeq(F, h + 1, Len(F)), SubSeq(F, h - 3, h), 0)]
    <3>1. ServerSees(c, F) = [op |-> F[1] % 16, bytes |-> Masked(SubSeq(F, hh + 1, Len(F)), SubSeq(F, hh - 3, hh), 0)]
      BY <1>2 DEF ServerSees
    <3> HIDE DEF hh
    <3> QED BY <2>11, <3>1
  <2> HIDE DEF h, n, q
  <2>13. SubSeq(F, h + 1, Len(F)) = b
    <3> DEFINE u == SubSeq(F, h + 1, Len(F))
    <3>1. h <= Len(F) /\ Len(F) \in Nat /\ Len(F) - h = n /\ Len(F) <= Len(F)
      BY <2>3, <2>6, <2>8
    <3>2. u \in Ints /\ Len(u) = Len(F) - h /\ \A i \in 1 .. Len(F) - h : u[i] = F[h + i]
      BY <2>6, <2>8, <3>1, PartIs
    <3> HIDE DEF u
    <3>3. Len(u) = Len(b) /\ \A i \in 1..Len(u) : u[i] = b[i]
      BY <2>6, <2>7, <3>1, <3>2
    <3>4. u = b
      BY <2>7, <3>2, <3>3, SameBytes
    <3> QED BY <3>4 DEF u
  <2>14. SubSeq(F, h - 3, h) = NewMask
    <3> DEFINE k == h - 4
               u == SubSeq(F, k + 1, h)
    <3>1. k \in Nat /\ k <= h /\ h <= Len(F) /\ h - k = 4 /\ k = 1 + q /\ k + 1 = h - 3
      BY <2>3, <2>6, <2>8
    <3> HIDE DEF k
    <3>2. u \in Ints /\ Len(u) = h - k /\ \A i \in 1 .. h - k : u[i] = F[k + i]
      BY <2>6, <2>8, <3>1, PartIs, ZenonT(60)
    <3>3. NewMask \in Ints /\ Len(NewMask) = 4
      BY NewMaskIs
    <3>4. ASSUME NEW i \in 1..4
          PROVE  F[k + i] = NewMask[i]
      <4>1. k + i \in 1..h /\ k + i = 1 + q + i
        BY <2>8, <3>1
      <4>2. F[k + i] = FrameHead(op, n)[1 + q + i]
        BY <2>6, <4>1
      <4>3. FrameHead(op, n)[1 + q + i] = NewMask[i]
        BY <2>5
      <4> QED BY <4>2, <4>3
    <3> HIDE DEF u
    <3>5. Len(u) = Len(NewMask) /\ \A i \in 1..Len(u) : u[i] = NewMask[i]
      BY <3>1, <3>2, <3>3, <3>4
    <3>6. u = NewMask
      BY <3>2, <3>3, <3>5, SameBytes
    <3> QED BY <3>1, <3>6 DEF u
  <2>15. Frame(c, a) = F
    BY <1>2, <2>1, <2>2 DEF Frame, F
  <2> QED BY <2>1, <2>2, <2>7, <2>10, <2>12, <2>13, <2>14, <2>15
<1> QED BY <1>1, <1>2

----------------------------------------------------------------------------
(* What one connection has on the wire *)

\* Everything that was taken starts behind what was taken before it, and as much of it as is on
\* the wire is there as it should be.
OnWire(c, out, acc) ==
  /\ out \in Ints /\ acc \in Seq(TakenBy(c))
  /\ \A i \in 1 .. Len(acc) - 1 : EndOf(c, acc[i]) <= acc[Len(acc)].at
  /\ \A i \in 1..Len(acc) : \A k \in 1..WireLen(c, acc[i]) :
       acc[i].at + k <= Len(out) => out[acc[i].at + k] = Frame(c, acc[i])[k]
  /\ Len(out) <= Total(c, acc)

\* What the list of packets taken for sending says about their places.
LEMMA TakenIs ==
  ASSUME NEW c, NEW acc \in Seq(TakenBy(c))
  PROVE  /\ Len(acc) \in Nat /\ Total(c, acc) \in Nat
         /\ \A i \in 1..Len(acc) : /\ acc[i] \in TakenBy(c) /\ acc[i] \in Taken /\ acc[i].at \in Nat
                                   /\ WireLen(c, acc[i]) \in Nat /\ EndOf(c, acc[i]) = acc[i].at + WireLen(c, acc[i])
         /\ Len(acc) = 0 => acc = <<>> /\ Total(c, acc) = 0
         /\ Len(acc) > 0 => Total(c, acc) = EndOf(c, acc[Len(acc)])
<1>1. Len(acc) \in Nat /\ \A i \in 1..Len(acc) : acc[i] \in TakenBy(c)
  <2> HIDE DEF TakenBy
  <2> QED OBVIOUS
<1>2. ASSUME NEW a \in TakenBy(c)
      PROVE  a \in Taken /\ a.at \in Nat /\ WireLen(c, a) \in Nat /\ EndOf(c, a) = a.at + WireLen(c, a) /\ EndOf(c, a) \in Nat
  <2>1. a \in Taken /\ a.at \in Nat
    BY DEF TakenBy, Taken
  <2>2. WireLen(c, a) \in Nat
    BY <2>1, FrameIs
  <2> QED BY <2>1, <2>2 DEF EndOf
<1>3. Len(acc) = 0 => acc = <<>>
  OBVIOUS
<1>4. Len(acc) > 0 => acc # <<>> /\ Len(acc) \in 1..Len(acc)
  BY <1>1
<1>5. Len(acc) = 0 => Total(c, acc) = 0
  BY <1>3 DEF Total
<1>6. Len(acc) > 0 => Total(c, acc) = EndOf(c, acc[Len(acc)])
  BY <1>4 DEF Total
<1>7. Len(acc) = 0 \/ Len(acc) > 0
  BY <1>1
<1>8. Total(c, acc) \in Nat
  BY <1>1, <1>2, <1>4, <1>5, <1>6, <1>7
<1> QED BY <1>1, <1>2, <1>3, <1>5, <1>6, <1>8

\* one more is taken
LEMMA TakeOne ==
  ASSUME NEW c, NEW out, NEW acc, OnWire(c, out, acc), Len(out) = Total(c, acc),
         NEW a \in TakenBy(c), a.at = Total(c, acc)
  PROVE  OnWire(c, out, Append(acc, a)) /\ Total(c, Append(acc, a)) = a.at + WireLen(c, a)
<1> DEFINE n == Len(acc)
           more == Append(acc, a)
<1>1. /\ out \in Ints /\ acc \in Seq(TakenBy(c))
      /\ \A i \in 1 .. n - 1 : EndOf(c, acc[i]) <= acc[n].at
      /\ \A i \in 1..n : \A k \in 1..WireLen(c, acc[i]) :
           acc[i].at + k <= Len(out) => out[acc[i].at + k] = Frame(c, acc[i])[k]
  BY DEF OnWire
<1>2. more \in Seq(TakenBy(c)) /\ Len(more) = n + 1 /\ more[n + 1] = a /\ (\A i \in 1..n : more[i] = acc[i]) /\ n \in Nat
  <2> HIDE DEF TakenBy
  <2> QED BY <1>1
<1>3. /\ Total(c, acc) \in Nat
      /\ \A i \in 1..n : acc[i].at \in Nat /\ WireLen(c, acc[i]) \in Nat /\ EndOf(c, acc[i]) = acc[i].at + WireLen(c, acc[i])
      /\ n > 0 => Total(c, acc) = EndOf(c, acc[n])
  BY <1>1, TakenIs
<1> HIDE DEF more, n
<1>4. \A i \in 1..n : EndOf(c, acc[i]) <= a.at
  <2> TAKE i \in 1..n
  <2>1. n > 0 /\ n \in 1..n /\ (i = n \/ i \in 1 .. n - 1)
    BY <1>2
  <2>2. EndOf(c, acc[n]) = a.at /\ EndOf(c, acc[n]) = acc[n].at + WireLen(c, acc[n]) /\ acc[n].at \in Nat /\ WireLen(c, acc[n]) \in Nat
    BY <1>3, <2>1
  <2>3. CASE i = n
    <3>1. a.at <= a.at
      BY <1>3
    <3> QED BY <2>2, <2>3, <3>1
  <2>4. CASE i \in 1 .. n - 1
    <3>1. EndOf(c, acc[i]) <= acc[n].at /\ EndOf(c, acc[i]) \in Int
      BY <1>1, <1>3, <2>4 DEF n
    <3> QED BY <2>2, <3>1
  <2> QED BY <2>1, <2>3, <2>4
<1>5. \A i \in 1 .. Len(more) - 1 : EndOf(c, more[i]) <= more[Len(more)].at
  BY <1>2, <1>4
<1>6. a.at \in Nat /\ WireLen(c, a) \in Nat /\ Total(c, more) = a.at + WireLen(c, a)
  <2>1. n + 1 \in 1..Len(more) /\ Len(more) > 0
    BY <1>2
  <2>2. Total(c, more) = EndOf(c, more[Len(more)]) /\ EndOf(c, more[Len(more)]) = more[Len(more)].at + WireLen(c, more[Len(more)])
        /\ more[Len(more)].at \in Nat /\ WireLen(c, more[Len(more)]) \in Nat
    BY <1>2, <2>1, TakenIs
  <2> QED BY <1>2, <2>2
<1>7. ASSUME NEW i \in 1..Len(more), NEW k \in 1..WireLen(c, more[i]), more[i].at + k <= Len(out)
      PROVE  out[more[i].at + k] = Frame(c, more[i])[k]
  <2>1. CASE i \in 1..n
    BY <1>1, <1>2, <1>7, <2>1 DEF n
  <2>2. CASE i = n + 1
    <3>1. a.at + k <= a.at /\ k \in 1..WireLen(c, a)
      BY <1>2, <1>7, <2>2
    <3> QED BY <1>6, <3>1
  <2>3. i \in 1..n \/ i = n + 1
    BY <1>2
  <2> QED BY <2>1, <2>2, <2>3
<1>8. Len(out) <= Total(c, more)
  BY <1>6
<1>9. OnWire(c, out, more)
  BY <1>1, <1>2, <1>5, <1>7, <1>8 DEF OnWire
<1> QED BY <1>6, <1>9 DEF more

\* more of the last one is written
LEMMA WriteMore ==
  ASSUME NEW c, NEW out, NEW acc, OnWire(c, out, acc), Len(acc) > 0,
         NEW b \in Nat, NEW n \in Nat, Len(out) = acc[Len(acc)].at + b, b + n <= Len(Frame(c, acc[Len(acc)]))
  PROVE  /\ OnWire(c, out \o SubSeq(Frame(c, acc[Len(acc)]), b + 1, b + n), acc)
         /\ Len(out \o SubSeq(Frame(c, acc[Len(acc)]), b + 1, b + n)) = acc[Len(acc)].at + (b + n)
<1> DEFINE l == Len(acc)
           a == acc[l]
           F == Frame(c, a)
           d == SubSeq(F, b + 1, b + n)
           new == out \o d
           o == Len(out)
<1>1. /\ out \in Ints /\ acc \in Seq(TakenBy(c))
      /\ \A i \in 1 .. l - 1 : EndOf(c, acc[i]) <= a.at
      /\ \A i \in 1..l : \A k \in 1..WireLen(c, acc[i]) :
           acc[i].at + k <= o => out[acc[i].at + k] = Frame(c, acc[i])[k]
  BY DEF OnWire
<1>2. /\ l \in Nat
      /\ \A i \in 1..l : /\ acc[i] \in Taken /\ acc[i].at \in Nat
                         /\ WireLen(c, acc[i]) \in Nat /\ EndOf(c, acc[i]) = acc[i].at + WireLen(c, acc[i])
      /\ Total(c, acc) = EndOf(c, a)
  BY <1>1, TakenIs
<1>3. l \in 1..l /\ l > 0
  BY <1>2
<1>4. a \in Taken /\ a.at \in Nat /\ WireLen(c, a) \in Nat /\ Total(c, acc) = a.at + WireLen(c, a)
  BY <1>2, <1>3
<1>5. F \in Ints /\ Len(F) = WireLen(c, a)
  BY <1>4, FrameIs
<1>6. o = a.at + b /\ b + n <= Len(F)
  OBVIOUS
<1> HIDE DEF a, F, l
<1>7. d \in Ints /\ Len(d) = n /\ \A i \in 1..n : d[i] = F[b + i]
  <2>1. b + n \in Nat /\ b <= b + n /\ (b + n) - b = n
    OBVIOUS
  <2>2. d \in Ints /\ Len(d) = (b + n) - b /\ \A i \in 1 .. (b + n) - b : d[i] = F[b + i]
    <3>1. PICK e \in Nat : e = b + n
      BY <2>1
    <3>2. SubSeq(F, b + 1, e) \in Ints /\ Len(SubSeq(F, b + 1, e)) = e - b /\ \A i \in 1 .. e - b : SubSeq(F, b + 1, e)[i] = F[b + i]
      BY <1>5, <1>6, <2>1, <3>1, PartIs
    <3> QED BY <3>1, <3>2
  <2> QED BY <2>1, <2>2
<1> HIDE DEF d
<1>8. /\ new \in Ints /\ Len(new) = o + n /\ o \in Nat
      /\ \A i \in 1..o : new[i] = out[i]
      /\ \A i \in 1..n : new[o + i] = d[i]
  <2>1. /\ new \in Ints /\ Len(new) = Len(out) + Len(d) /\ Len(out) \in Nat
        /\ \A i \in 1..Len(out) : new[i] = out[i]
        /\ \A i \in 1..Len(d) : new[Len(out) + i] = d[i]
    BY <1>1, <1>7, ConcatIs
  <2> QED BY <1>7, <2>1
<1> HIDE DEF new, o
<1>9. ASSUME NEW i \in 1..l, NEW k \in 1..WireLen(c, acc[i]), acc[i].at + k <= Len(new)
      PROVE  new[acc[i].at + k] = Frame(c, acc[i])[k]
  <2> DEFINE p == acc[i].at + k
  <2>1. acc[i].at \in Nat /\ WireLen(c, acc[i]) \in Nat /\ p \in Nat /\ p >= 1 /\ k >= 1 /\ k <= WireLen(c, acc[i])
    BY <1>2, SMTT(60)
  <2>2. CASE p <= o
    <3>1. p \in 1..o
      BY <1>8, <2>1, <2>2
    <3>2. new[p] = out[p]
      BY <1>8, <3>1
    <3>3. out[p] = Frame(c, acc[i])[k]
      BY <1>1, <2>2
    <3> QED BY <3>2, <3>3
  <2>3. CASE p > o
    <3>1. i = l
      <4>1. CASE i \in 1 .. l - 1
        <5>1. acc[i].at + WireLen(c, acc[i]) <= a.at
          BY <1>1, <1>2, <4>1
        <5>2. \A x, y, z, u \in Nat : x + y <= z /\ u <= y => x + u <= z + b
          OBVIOUS
        <5>3. k \in Nat
          BY <2>1
        <5>4. acc[i].at + k <= a.at + b
          BY <1>4, <2>1, <5>1, <5>2, <5>3
        <5>5. p <= o
          BY <1>6, <5>4
        <5> HIDE DEF p
        <5> QED BY <1>8, <2>1, <2>3, <5>5
      <4>2. i = l \/ i \in 1 .. l - 1
        BY <1>2
      <4> QED BY <4>1, <4>2
    <3>2. acc[i].at = a.at /\ Frame(c, acc[i]) = F
      BY <3>1 DEF a, F
    <3>3. k - b \in 1..n /\ p = o + (k - b) /\ k = b + (k - b)
      <4>1. \A x, z \in Nat : x + z > x + b /\ x + z <= (x + b) + n =>
              z - b \in 1..n /\ x + z = (x + b) + (z - b) /\ z = b + (z - b)
        OBVIOUS
      <4>2. a.at + k > a.at + b /\ a.at + k <= (a.at + b) + n /\ p = a.at + k /\ k \in Nat
        BY <1>6, <1>8, <1>9, <2>1, <2>3, <3>2
      <4> QED BY <1>4, <1>6, <4>1, <4>2
    <3>4. PICK j \in 1..n : p = o + j /\ k = b + j
      BY <3>3
    <3>5. new[p] = d[j] /\ d[j] = F[k]
      BY <1>7, <1>8, <3>4
    <3> QED BY <3>2, <3>5
  <2>4. p <= o \/ p > o
    BY <1>8, <2>1, SMTT(60)
  <2> QED BY <2>2, <2>3, <2>4
<1>10. Len(new) = a.at + (b + n) /\ Len(new) <= Total(c, acc)
  BY <1>4, <1>5, <1>6, <1>8, SMTT(60)
<1>11. OnWire(c, new, acc)
  BY <1>1, <1>8, <1>9, <1>10 DEF OnWire, l, a
<1> QED BY <1>10, <1>11 DEF new, d, F, a, l

\* Socket_writev takes the bytes from the first one on
LEMMA WrittenIs ==
  ASSUME NEW s \in Ints, NEW room \in Nat
  PROVE  \E n \in Nat : n <= Len(s) /\ Written(s, room) = SubSeq(s, 1, n) /\ Len(Written(s, room)) = n
<1> DEFINE m == Min({room, Len(s)})
<1>1. Len(s) \in Nat
  BY ConcatIs
<1>2. m \in {room, Len(s)} /\ m <= Len(s)
  <2>1. \E x \in {room, Len(s)} : \A y \in {room, Len(s)} : x <= y
    BY <1>1
  <2>2. m \in {room, Len(s)} /\ \A y \in {room, Len(s)} : m <= y
    BY <2>1 DEF Min
  <2> QED BY <2>2
<1>3. m \in Nat
  BY <1>1, <1>2
<1> HIDE DEF m
<1>4. 0 \in Nat /\ 0 <= m /\ 0 + 1 = 1 /\ m - 0 = m
  BY <1>3
<1>5. Len(SubSeq(s, 0 + 1, m)) = m - 0
  BY <1>2, <1>3, <1>4, PartIs
<1>6. Written(s, room) = SubSeq(s, 1, m)
  BY DEF Written, m
<1> QED BY <1>2, <1>3, <1>4, <1>5, <1>6

\* A part of the rest is a part of the whole.
LEMMA PartOfRest ==
  ASSUME NEW s \in Ints, NEW b \in Nat, NEW n \in Nat, b <= Len(s), n <= Len(s) - b
  PROVE  SubSeq(SubSeq(s, b + 1, Len(s)), 1, n) = SubSeq(s, b + 1, b + n)
<1> DEFINE l == Len(s)
           r == SubSeq(s, b + 1, l)
           e == b + n
           x == SubSeq(r, 0 + 1, n)
           y == SubSeq(s, b + 1, e)
<1>1. l \in Nat /\ l <= l /\ e \in Nat /\ b <= e /\ e <= l /\ e - b = n /\ 0 <= n /\ n - 0 = n /\ 0 + 1 = 1
  BY ConcatIs
<1>2. r \in Ints /\ Len(r) = l - b /\ \A i \in 1 .. l - b : r[i] = s[b + i]
  BY <1>1, PartIs
<1> HIDE DEF r, e
<1>3. x \in Ints /\ Len(x) = n - 0 /\ \A i \in 1 .. n - 0 : x[i] = r[0 + i]
  <2>1. n <= Len(r) /\ 0 \in Nat
    BY <1>2
  <2> QED BY <1>1, <1>2, <2>1, PartIs, ZenonT(60)
<1>4. y \in Ints /\ Len(y) = e - b /\ \A i \in 1 .. e - b : y[i] = s[b + i]
  BY <1>1, PartIs
<1> HIDE DEF x, y
<1>5. ASSUME NEW i \in 1..Len(x)
      PROVE  x[i] = y[i]
  <2>1. i \in 1 .. n - 0 /\ i \in 1 .. l - b /\ i \in 1 .. e - b /\ 0 + i = i
    BY <1>1, <1>3
  <2> QED BY <1>2, <1>3, <1>4, <2>1
<1>6. x = y
  BY <1>1, <1>3, <1>4, <1>5, SameBytes
<1>7. x = SubSeq(r, 1, n)
  BY <1>1 DEF x
<1> QED BY <1>6, <1>7 DEF y, r, e

----------------------------------------------------------------------------
(* The writers *)

Writes == [iovecs : Seq(Ints), bytes : Nat]
Writers == [write_pending : SUBSET Conns, pending_wset : SUBSET Conns, writes : [Conns -> Writes],
            out : [Conns -> Ints], broken : SUBSET Conns, closed : SUBSET Conns, accepted : [Conns -> Seq(Taken)]]

\* a pending write has the rest of what was taken last
Pending(c, pw, out, acc) ==
  /\ Len(acc) > 0 /\ Flatten(pw.iovecs) = Frame(c, acc[Len(acc)])
  /\ Len(out) = acc[Len(acc)].at + pw.bytes

Idle(w, c) == c \notin w.write_pending /\ c \notin w.broken /\ c \notin w.closed

ConnOK(w, c) ==
  /\ OnWire(c, w.out[c], w.accepted[c])
  /\ c \in w.write_pending => Pending(c, w.writes[c], w.out[c], w.accepted[c])
  /\ Idle(w, c) => Len(w.out[c]) = Total(c, w.accepted[c])

WritersOK(w) == w \in Writers /\ \A c \in Conns : ConnOK(w, c)

\* The fields of the writers.
LEMMA WriterFields ==
  ASSUME NEW w \in Writers
  PROVE  /\ w.write_pending \in SUBSET Conns /\ w.pending_wset \in SUBSET Conns /\ w.writes \in [Conns -> Writes]
         /\ w.out \in [Conns -> Ints] /\ w.broken \in SUBSET Conns /\ w.closed \in SUBSET Conns
         /\ w.accepted \in [Conns -> Seq(Taken)]
BY DEF Writers

\* only c changes
LEMMA OthersKept ==
  ASSUME NEW w, NEW v, NEW c \in Conns, WritersOK(w), v \in Writers,
         \A d \in Conns \ {c} : /\ v.out[d] = w.out[d] /\ v.accepted[d] = w.accepted[d] /\ v.writes[d] = w.writes[d]
                                /\ (d \in v.write_pending <=> d \in w.write_pending)
                                /\ (d \in v.broken <=> d \in w.broken) /\ (d \in v.closed <=> d \in w.closed),
         ConnOK(v, c)
  PROVE  WritersOK(v)
<1>1. ASSUME NEW d \in Conns, d # c
      PROVE  ConnOK(v, d)
  <2>1. ConnOK(w, d)
    BY DEF WritersOK
  <2>2. /\ v.out[d] = w.out[d] /\ v.accepted[d] = w.accepted[d] /\ v.writes[d] = w.writes[d]
        /\ (d \in v.write_pending <=> d \in w.write_pending)
        /\ (d \in v.broken <=> d \in w.broken) /\ (d \in v.closed <=> d \in w.closed)
    BY <1>1
  <2> QED BY <2>1, <2>2, Zenon DEF ConnOK, Idle
<1> QED BY <1>1 DEF WritersOK

WritesOut(w, c, s) == [w EXCEPT !.out[c] = @ \o s]

\* What sending some bytes changes.
LEMMA WriterWritten ==
  ASSUME NEW w \in Writers, NEW c \in Conns, NEW s \in Ints, NEW v, v = WritesOut(w, c, s)
  PROVE  /\ v \in Writers /\ v.out[c] = w.out[c] \o s /\ \A d \in Conns \ {c} : v.out[d] = w.out[d]
         /\ v.accepted = w.accepted /\ v.writes = w.writes /\ v.write_pending = w.write_pending
         /\ v.pending_wset = w.pending_wset /\ v.broken = w.broken /\ v.closed = w.closed
<1>1. w.out \in [Conns -> Ints]
  BY WriterFields
<1>2. w.out[c] \o s \in Ints
  BY <1>1, ConcatIs
<1>3. PICK t \in Ints : t = w.out[c] \o s
  BY <1>2
<1>4. v = [w EXCEPT !.out = [w.out EXCEPT ![c] = t]]
  BY <1>3 DEF WritesOut
<1> HIDE DEF Ints
<1>5. v.out = [w.out EXCEPT ![c] = t]
  BY <1>4 DEF Writers
<1>6. v \in Writers
  <2>1. PICK o \in [Conns -> Ints] : o = [w.out EXCEPT ![c] = t]
    BY <1>1
  <2>2. v = [w EXCEPT !.out = o]
    BY <1>4, <2>1
  <2> QED BY <2>2 DEF Writers
<1>7. /\ v.accepted = w.accepted /\ v.writes = w.writes /\ v.write_pending = w.write_pending
      /\ v.pending_wset = w.pending_wset /\ v.broken = w.broken /\ v.closed = w.closed
  BY <1>4 DEF Writers
<1>8. v.out[c] = t /\ \A d \in Conns \ {c} : v.out[d] = w.out[d]
  BY <1>1, <1>5
<1> QED BY <1>3, <1>6, <1>7, <1>8

LEMMA AppendIn ==
  ASSUME NEW S, NEW s \in Seq(S), NEW x \in S
  PROVE  Append(s, x) \in Seq(S)
OBVIOUS

\* What taking a packet for sending changes.
LEMMA WriterAccepts ==
  ASSUME NEW w \in Writers, NEW c \in Conns, NEW op \in Opcodes, NEW bytes \in Bytes,
         NEW a \in Taken, a = [op |-> op, bytes |-> bytes, at |-> Total(c, w.accepted[c])]
  PROVE  LET v == Accept(w, c, op, bytes)
         IN /\ v \in Writers /\ v.accepted[c] = Append(w.accepted[c], a)
            /\ \A d \in Conns \ {c} : v.accepted[d] = w.accepted[d]
            /\ v.out = w.out /\ v.writes = w.writes /\ v.write_pending = w.write_pending
            /\ v.broken = w.broken /\ v.closed = w.closed
<1> DEFINE v == Accept(w, c, op, bytes)
<1>1. w.accepted \in [Conns -> Seq(Taken)]
  BY WriterFields
<1>2. PICK t \in Seq(Taken) : t = Append(w.accepted[c], a)
  <2>1. w.accepted[c] \in Seq(Taken)
    BY <1>1
  <2>2. Append(w.accepted[c], a) \in Seq(Taken)
    BY <2>1, AppendIn
  <2> QED BY <2>2
<1>3. v = [w EXCEPT !.accepted = [w.accepted EXCEPT ![c] = t]]
  BY <1>2 DEF Accept
<1> HIDE DEF v, Taken
<1>4. v.accepted = [w.accepted EXCEPT ![c] = t]
  BY <1>3 DEF Writers
<1>5. v \in Writers
  BY <1>1, <1>3 DEF Writers
<1>6. /\ v.out = w.out /\ v.writes = w.writes /\ v.write_pending = w.write_pending
      /\ v.broken = w.broken /\ v.closed = w.closed
  BY <1>3 DEF Writers
<1>7. v.accepted[c] = t /\ \A d \in Conns \ {c} : v.accepted[d] = w.accepted[d]
  BY <1>1, <1>4
<1> QED BY <1>2, <1>5, <1>6, <1>7 DEF v

WritePends(w, c, x) == [w EXCEPT !.write_pending = @ \cup {c}, !.pending_wset = @ \cup {c}, !.writes[c] = x]

\* What keeping a write for later changes.
LEMMA WriterPends ==
  ASSUME NEW w \in Writers, NEW c \in Conns, NEW x \in Writes, NEW v, v = WritePends(w, c, x)
  PROVE  /\ v \in Writers /\ v.writes[c] = x /\ (\A d \in Conns \ {c} : v.writes[d] = w.writes[d])
         /\ v.write_pending = w.write_pending \cup {c}
         /\ v.out = w.out /\ v.accepted = w.accepted /\ v.broken = w.broken /\ v.closed = w.closed
<1>1. w.writes \in [Conns -> Writes] /\ w.write_pending \in SUBSET Conns /\ w.pending_wset \in SUBSET Conns
  BY WriterFields
<1> HIDE DEF Writes
<1>2. v.writes = [w.writes EXCEPT ![c] = x] /\ v.write_pending = w.write_pending \cup {c}
  BY DEF Writers, WritePends
<1>3. v \in Writers
  BY <1>1 DEF Writers, WritePends
<1>4. v.out = w.out /\ v.accepted = w.accepted /\ v.broken = w.broken /\ v.closed = w.closed
  BY DEF Writers, WritePends
<1>5. v.writes[c] = x /\ \A d \in Conns \ {c} : v.writes[d] = w.writes[d]
  BY <1>1, <1>2
<1> QED BY <1>2, <1>3, <1>4, <1>5

\* A socket that breaks keeps the wire as it was.
LEMMA WriterBreaks ==
  ASSUME NEW w, WritersOK(w), NEW c \in Conns
  PROVE  WritersOK(Broken(w, c)) /\ Broken(w, c).closed = w.closed /\ Broken(w, c).accepted = w.accepted
<1> DEFINE v == Broken(w, c)
<1>1. w \in Writers /\ \A d \in Conns : ConnOK(w, d)
  BY DEF WritersOK
<1>2. /\ v \in Writers /\ v.broken = w.broken \cup {c} /\ v.closed = w.closed
      /\ v.out = w.out /\ v.accepted = w.accepted /\ v.writes = w.writes /\ v.write_pending = w.write_pending
  BY <1>1 DEF Broken, Writers
<1> HIDE DEF v
<1>3. ConnOK(v, c)
  <2>1. ConnOK(w, c)
    BY <1>1
  <2> QED BY <1>2, <2>1, Zenon DEF ConnOK, Idle
<1>4. WritersOK(v)
  <2>1. \A d \in Conns \ {c} : /\ v.out[d] = w.out[d] /\ v.accepted[d] = w.accepted[d] /\ v.writes[d] = w.writes[d]
                               /\ (d \in v.write_pending <=> d \in w.write_pending)
                               /\ (d \in v.broken <=> d \in w.broken) /\ (d \in v.closed <=> d \in w.closed)
    BY <1>2
  <2> QED BY <1>2, <1>3, <2>1, OthersKept
<1> QED BY <1>2, <1>4 DEF v

\* A write that is accepted puts its packet at the end of the wire, whole or in part
\* (Socket.c:512-575).
LEMMA PutOne ==
  ASSUME NEW w, WritersOK(w), NEW c \in Conns, c \notin w.closed,
         NEW iovecs \in Seq(Ints), NEW room \in Nat \cup {-1},
         NEW op \in Opcodes, NEW bytes \in Bytes, c \in WebSockets \/ op = BINARY,
         Flatten(iovecs) = IF c \in WebSockets THEN WsFrame(op, bytes) ELSE bytes,
         NEW r, r = Socket_putdatas(w, c, iovecs, room)
  PROVE  /\ r.rc = "error" => WritersOK(r.w) /\ r.w.closed = w.closed
         /\ r.rc # "error" => WritersOK(Accept(r.w, c, op, bytes)) /\ Accept(r.w, c, op, bytes).closed = w.closed
<1> DEFINE F == Flatten(iovecs)
           sent == Written(F, room)
           v == [w EXCEPT !.out[c] = @ \o sent]
           x == [iovecs |-> iovecs, bytes |-> Len(sent)]
           z == [v EXCEPT !.write_pending = @ \cup {c}, !.pending_wset = @ \cup {c}, !.writes[c] = x]
           out == w.out[c]
           acc == w.accepted[c]
           a == [op |-> op, bytes |-> bytes, at |-> Total(c, acc)]
<1>1. w \in Writers /\ ConnOK(w, c)
  BY DEF WritersOK
<1>2. CASE ~Socket_noPendingWrites(w, c)
  BY <1>2 DEF Socket_putdatas
<1>3. CASE Socket_noPendingWrites(w, c) /\ Breaks(w, c, room)
  <2>1. r = [w |-> Broken(w, c), rc |-> "error"]
    BY <1>3 DEF Socket_putdatas
  <2> QED BY <2>1, WriterBreaks
<1>4. CASE Socket_noPendingWrites(w, c) /\ ~Breaks(w, c, room)
  <2>1. c \notin w.write_pending /\ c \notin w.broken /\ room \in Nat
    BY <1>4 DEF Socket_noPendingWrites, Breaks
  <2>2. OnWire(c, out, acc) /\ Len(out) = Total(c, acc)
    BY <1>1, <2>1 DEF ConnOK, Idle
  <2>3. acc \in Seq(TakenBy(c)) /\ Total(c, acc) \in Nat
    BY <2>2, TakenIs DEF OnWire
  <2>4. a \in Taken /\ a \in TakenBy(c) /\ a.at = Total(c, acc)
    BY <2>3 DEF Taken, TakenBy
  <2>5. Frame(c, a) = F
    BY DEF Frame
  <2>6. F \in Ints
    BY FlattenType
  <2>7. PICK n \in Nat : n <= Len(F) /\ sent = SubSeq(F, 1, n) /\ Len(sent) = n
    BY <2>1, <2>6, WrittenIs
  <2> DEFINE more == Append(acc, a)
             new == out \o sent
  <2> HIDE DEF a, F
  <2>8. OnWire(c, out, more) /\ Total(c, more) = a.at + WireLen(c, a)
    <3> HIDE DEF out, acc
    <3> QED BY <2>2, <2>4, TakeOne
  <2>9. Len(more) > 0 /\ more[Len(more)] = a
    <3>1. \A s \in Seq(Taken) : Len(Append(s, a)) > 0 /\ Append(s, a)[Len(Append(s, a))] = a
      <4> HIDE DEF Taken
      <4> QED BY <2>4
    <3>2. acc \in Seq(Taken)
      BY <1>1, WriterFields
    <3> QED BY <3>1, <3>2
  <2>10. OnWire(c, new, more) /\ Len(new) = a.at + n
    <3> HIDE DEF out, acc, more, sent
    <3>1. 0 \in Nat /\ Len(out) = a.at + 0 /\ 0 + n <= Len(F) /\ 0 + 1 = 1 /\ 0 + n = n
      <4>1. Len(F) \in Nat
        BY <2>6, ConcatIs
      <4> QED BY <2>2, <2>3, <2>4, <2>7, <4>1
    <3>2. Len(out) = more[Len(more)].at + 0 /\ 0 + n <= Len(Frame(c, more[Len(more)]))
      BY <2>5, <2>9, <3>1
    <3>3. /\ OnWire(c, out \o SubSeq(Frame(c, more[Len(more)]), 0 + 1, 0 + n), more)
          /\ Len(out \o SubSeq(Frame(c, more[Len(more)]), 0 + 1, 0 + n)) = more[Len(more)].at + (0 + n)
      BY <2>8, <2>9, <3>1, <3>2, WriteMore
    <3>4. Frame(c, more[Len(more)]) = F /\ more[Len(more)].at = a.at
      BY <2>5, <2>9
    <3> QED BY <2>7, <3>1, <3>3, <3>4
  <2>11. sent \in Ints
    <3>1. 0 \in Nat /\ 0 <= n /\ 0 + 1 = 1
      OBVIOUS
    <3>2. SubSeq(F, 0 + 1, n) \in Ints
      BY <2>6, <2>7, <3>1, PartIs
    <3> QED BY <2>7, <3>1, <3>2
  <2> HIDE DEF sent
  <2>12. /\ v \in Writers /\ v.out[c] = new /\ (\A d \in Conns \ {c} : v.out[d] = w.out[d])
         /\ v.accepted = w.accepted /\ v.writes = w.writes /\ v.write_pending = w.write_pending
         /\ v.broken = w.broken /\ v.closed = w.closed
    <3>1. v = WritesOut(w, c, sent)
      BY DEF WritesOut
    <3> HIDE DEF v
    <3>2. w \in Writers /\ sent \in Ints
      BY <1>1, <2>11
    <3>3. /\ v \in Writers /\ v.out[c] = w.out[c] \o sent /\ \A d \in Conns \ {c} : v.out[d] = w.out[d]
          /\ v.accepted = w.accepted /\ v.writes = w.writes /\ v.write_pending = w.write_pending
          /\ v.pending_wset = w.pending_wset /\ v.broken = w.broken /\ v.closed = w.closed
      BY <3>1, <3>2, WriterWritten, SMTT(60)
    <3> QED BY <3>3
  <2>13. Len(F) = WireLen(c, a)
    BY <2>4, <2>5, FrameIs
  <2> HIDE DEF v
  <2>14. CASE n = Len(F)
    <3>1. r = [w |-> v, rc |-> "complete"]
      BY <1>4, <2>7, <2>14 DEF Socket_putdatas, v, sent, F
    <3> DEFINE u == Accept(v, c, op, bytes)
    <3>2. a = [op |-> op, bytes |-> bytes, at |-> Total(c, v.accepted[c])]
      BY <2>12 DEF a
    <3>3. /\ u \in Writers /\ u.accepted[c] = Append(v.accepted[c], a)
          /\ (\A d \in Conns \ {c} : u.accepted[d] = v.accepted[d])
          /\ u.out = v.out /\ u.writes = v.writes /\ u.write_pending = v.write_pending
          /\ u.broken = v.broken /\ u.closed = v.closed
      BY <2>4, <2>12, <3>2, WriterAccepts, SMTT(60)
    <3> HIDE DEF u
    <3>4. u.accepted[c] = more /\ u.out[c] = new
      BY <2>12, <3>3
    <3>5. Len(new) = Total(c, more)
      BY <2>8, <2>10, <2>13, <2>14
    <3>6. ConnOK(u, c)
      <4>1. c \notin u.write_pending
        BY <2>1, <2>12, <3>3
      <4> HIDE DEF new, more
      <4> QED BY <2>10, <3>4, <3>5, <4>1 DEF ConnOK
    <3>7. WritersOK(u)
      <4>1. \A d \in Conns \ {c} : /\ u.out[d] = w.out[d] /\ u.accepted[d] = w.accepted[d] /\ u.writes[d] = w.writes[d]
                                   /\ (d \in u.write_pending <=> d \in w.write_pending)
                                   /\ (d \in u.broken <=> d \in w.broken) /\ (d \in u.closed <=> d \in w.closed)
        BY <2>12, <3>3
      <4> QED BY <3>3, <3>6, <4>1, OthersKept
    <3>8. r.rc # "error" /\ r.w = v
      BY <3>1
    <3> QED BY <2>12, <3>3, <3>7, <3>8 DEF u
  <2>15. CASE n # Len(F)
    <3>1. r = [w |-> z, rc |-> "interrupted"]
      BY <1>4, <2>7, <2>15 DEF Socket_putdatas, v, sent, F
    <3>2. x \in Writes /\ x.iovecs = iovecs /\ x.bytes = n
      BY <2>7 DEF Writes
    <3> HIDE DEF x
    <3>3. /\ z \in Writers /\ z.writes[c] = x /\ (\A d \in Conns \ {c} : z.writes[d] = v.writes[d])
          /\ z.write_pending = v.write_pending \cup {c}
          /\ z.out = v.out /\ z.accepted = v.accepted /\ z.broken = v.broken /\ z.closed = v.closed
      <4>1. v \in Writers /\ z = WritePends(v, c, x)
        BY <2>12 DEF WritePends
      <4> HIDE DEF z
      <4> QED BY <3>2, <4>1, WriterPends
    <3> HIDE DEF z
    <3> DEFINE u == Accept(z, c, op, bytes)
    <3>4. a = [op |-> op, bytes |-> bytes, at |-> Total(c, z.accepted[c])]
      BY <2>12, <3>3 DEF a
    <3>5. /\ u \in Writers /\ u.accepted[c] = Append(z.accepted[c], a)
          /\ (\A d \in Conns \ {c} : u.accepted[d] = z.accepted[d])
          /\ u.out = z.out /\ u.writes = z.writes /\ u.write_pending = z.write_pending
          /\ u.broken = z.broken /\ u.closed = z.closed
      BY <2>4, <3>3, <3>4, WriterAccepts, SMTT(60)
    <3> HIDE DEF u
    <3>6. u.accepted[c] = more /\ u.out[c] = new /\ u.writes[c] = x /\ c \in u.write_pending
      BY <2>12, <3>3, <3>5
    <3>7. Pending(c, x, new, more)
      <4> HIDE DEF new, more
      <4> QED BY <2>5, <2>9, <2>10, <3>2 DEF Pending, F
    <3>8. ConnOK(u, c)
      <4> HIDE DEF new, more
      <4> QED BY <2>10, <3>6, <3>7 DEF ConnOK, Idle
    <3>9. WritersOK(u)
      <4>1. \A d \in Conns \ {c} : /\ u.out[d] = w.out[d] /\ u.accepted[d] = w.accepted[d] /\ u.writes[d] = w.writes[d]
                                   /\ (d \in u.write_pending <=> d \in w.write_pending)
                                   /\ (d \in u.broken <=> d \in w.broken) /\ (d \in u.closed <=> d \in w.closed)
        BY <2>12, <3>3, <3>5
      <4> QED BY <3>5, <3>8, <4>1, OthersKept
    <3>10. r.rc # "error" /\ r.w = z
      BY <3>1
    <3> QED BY <2>12, <3>3, <3>5, <3>9, <3>10 DEF u
  <2> QED BY <2>14, <2>15
<1> QED BY <1>2, <1>3, <1>4

LEMMA NoWriteIs == NoWrite \in Writes
BY DEF NoWrite, Writes

\* Socket_close: what is pending is dropped, and nothing more is written
LEMMA WriterCloses ==
  ASSUME NEW w, WritersOK(w), NEW c \in Conns
  PROVE  WritersOK(WritesClosed(w, c))
<1> DEFINE u == WriteOver(w, c)
           v == WritesClosed(w, c)
<1>1. w \in Writers /\ ConnOK(w, c)
  BY DEF WritersOK
<1>2. w.writes \in [Conns -> Writes] /\ w.write_pending \in SUBSET Conns /\ w.pending_wset \in SUBSET Conns /\ w.closed \in SUBSET Conns
  BY <1>1, WriterFields
<1>3. NoWrite \in Writes
  BY NoWriteIs
<1> HIDE DEF Writes
<1>4. /\ u \in Writers /\ u.writes = [w.writes EXCEPT ![c] = NoWrite] /\ u.write_pending = w.write_pending \ {c}
      /\ u.out = w.out /\ u.accepted = w.accepted /\ u.broken = w.broken /\ u.closed = w.closed
  <2>1. u.writes = [w.writes EXCEPT ![c] = NoWrite] /\ u.write_pending = w.write_pending \ {c}
    BY <1>1 DEF WriteOver, Writers
  <2>2. u \in Writers
    BY <1>1, <1>2, <1>3 DEF WriteOver, Writers
  <2>3. u.out = w.out /\ u.accepted = w.accepted /\ u.broken = w.broken /\ u.closed = w.closed
    BY <1>1 DEF WriteOver, Writers
  <2> QED BY <2>1, <2>2, <2>3
<1>5. v = [u EXCEPT !.closed = @ \cup {c}]
  BY DEF WritesClosed
<1> HIDE DEF u, v
<1>6. /\ v \in Writers /\ v.writes = u.writes /\ v.write_pending = u.write_pending
      /\ v.out = u.out /\ v.accepted = u.accepted /\ v.broken = u.broken /\ v.closed = u.closed \cup {c}
  <2>1. u.closed \in SUBSET Conns
    BY <1>2, <1>4
  <2>2. v \in Writers
    BY <1>4, <1>5, <2>1 DEF Writers
  <2>3. /\ v.writes = u.writes /\ v.write_pending = u.write_pending
        /\ v.out = u.out /\ v.accepted = u.accepted /\ v.broken = u.broken /\ v.closed = u.closed \cup {c}
    BY <1>4, <1>5 DEF Writers
  <2> QED BY <2>2, <2>3
<1>7. c \notin v.write_pending /\ c \in v.closed /\ v.out[c] = w.out[c] /\ v.accepted[c] = w.accepted[c]
  BY <1>4, <1>6
<1>8. ConnOK(v, c)
  BY <1>1, <1>7 DEF ConnOK, Idle
<1>9. WritersOK(v)
  <2>1. \A d \in Conns \ {c} : /\ v.out[d] = w.out[d] /\ v.accepted[d] = w.accepted[d] /\ v.writes[d] = w.writes[d]
                               /\ (d \in v.write_pending <=> d \in w.write_pending)
                               /\ (d \in v.broken <=> d \in w.broken) /\ (d \in v.closed <=> d \in w.closed)
    BY <1>2, <1>4, <1>6
  <2> QED BY <1>6, <1>8, <2>1, OthersKept
<1> QED BY <1>9 DEF v

\* MQTT packets over a socket or in a frame with a new mask
LEMMA PacketWritten ==
  ASSUME NEW w, WritersOK(w), NEW c \in Conns, c \notin w.closed,
         NEW buf0 \in Bytes, NEW bufs \in Seq(Bytes), NEW room \in Nat \cup {-1},
         NEW r, r = WebSocket_putdatas(w, c, buf0, bufs, NoMask, room)
  PROVE  /\ WritersOK(Sent(w, c, r, buf0 \o Flatten(bufs)))
         /\ r.mask = NoMask => r.bufs = bufs
<1> DEFINE f == WebSocket_buildFrame(BINARY, buf0, bufs, NoMask)
           iovecs == IF c \in WebSockets THEN <<f.wsbuf0>> \o f.bufs ELSE <<buf0>> \o bufs
           q == Socket_putdatas(w, c, iovecs, room)
           packet == buf0 \o Flatten(bufs)
<1>1. BINARY \in Opcodes
  BY DEF Opcodes
<1>2. /\ f.mask = NewMask /\ f.bufs = MaskedAll(buf0, bufs, NewMask) /\ packet \in Bytes
      /\ <<f.wsbuf0>> \o f.bufs \in Seq(Ints) /\ Flatten(<<f.wsbuf0>> \o f.bufs) = WsFrame(BINARY, packet)
  BY <1>1, BuiltFrame
<1>3. buf0 \in Ints /\ bufs \in Seq(Ints)
  BY BytesAreInts, BytePartsAreInts
<1>4. <<buf0>> \o bufs \in Seq(Ints) /\ Flatten(<<buf0>> \o bufs) = packet
  BY <1>3, FlattenFirst
<1> HIDE DEF f, packet
<1>5. iovecs \in Seq(Ints) /\ Flatten(iovecs) = IF c \in WebSockets THEN WsFrame(BINARY, packet) ELSE packet
  BY <1>2, <1>4
<1>6. r.w = q.w /\ r.rc = q.rc
  <2>1. r.w = (IF c \in WebSockets THEN Socket_putdatas(w, c, <<f.wsbuf0>> \o f.bufs, room)
               ELSE Socket_putdatas(w, c, <<buf0>> \o bufs, room)).w
    BY DEF WebSocket_putdatas, f
  <2>2. r.rc = (IF c \in WebSockets THEN Socket_putdatas(w, c, <<f.wsbuf0>> \o f.bufs, room)
                ELSE Socket_putdatas(w, c, <<buf0>> \o bufs, room)).rc
    BY DEF WebSocket_putdatas, f
  <2>3. CASE c \in WebSockets
    BY <2>1, <2>2, <2>3
  <2>4. CASE c \notin WebSockets
    BY <2>1, <2>2, <2>4
  <2> QED BY <2>3, <2>4
<1> HIDE DEF iovecs
<1>7. /\ q.rc = "error" => WritersOK(q.w)
      /\ q.rc # "error" => WritersOK(Accept(q.w, c, BINARY, packet))
  BY <1>1, <1>2, <1>5, PutOne
<1>8. WritersOK(Sent(w, c, r, packet))
  <2> HIDE DEF q
  <2>1. CASE q.rc = "error"
    <3>1. Sent(w, c, r, packet) = WritesClosed(q.w, c)
      BY <1>6, <2>1 DEF Sent
    <3> QED BY <1>7, <2>1, <3>1, WriterCloses
  <2>2. CASE q.rc # "error"
    BY <1>6, <1>7, <2>2 DEF Sent
  <2> QED BY <2>1, <2>2
<1>9. r.mask = NoMask => r.bufs = bufs
  <2>1. CASE c \notin WebSockets
    BY <2>1 DEF WebSocket_putdatas
  <2>2. CASE c \in WebSockets
    <3>1. NewMask \in Masks
      BY NewMaskIs
    <3>2. MaskedAll(buf0, f.bufs, f.mask) = bufs
      BY <1>2, <3>1, UnmaskedParts
    <3> DEFINE stays == q.rc = "interrupted"
    <3>3. \/ r.mask = NoMask /\ r.bufs = MaskedAll(buf0, f.bufs, f.mask)
          \/ r.mask = f.mask /\ r.bufs = f.bufs
      <4>1. r.bufs = IF stays THEN f.bufs ELSE MaskedAll(buf0, f.bufs, f.mask)
        BY <2>2 DEF WebSocket_putdatas, f, iovecs
      <4>2. r.mask = IF stays THEN f.mask ELSE NoMask
        BY <2>2 DEF WebSocket_putdatas, f, iovecs
      <4> HIDE DEF q
      <4> QED BY <4>1, <4>2
    <3>4. NewMask = NoMask => MaskedAll(buf0, bufs, NewMask) = bufs
      <4> SUFFICES ASSUME NewMask = NoMask
                   PROVE  MaskedAll(buf0, bufs, NoMask) = bufs
        OBVIOUS
      <4>1. DOMAIN bufs = 1..Len(bufs) /\ (\A i \in 1..Len(bufs) : bufs[i] \in Bytes) /\ bufs = [i \in 1..Len(bufs) |-> bufs[i]]
        <5> HIDE DEF Bytes
        <5> QED OBVIOUS
      <4>2. ASSUME NEW i \in 1..Len(bufs)
            PROVE  Masked(bufs[i], NoMask, Start(buf0, bufs, i)) = bufs[i]
        <5>1. Flatten(SubSeq(bufs, 1, i - 1)) \in Bytes
          <6>1. i - 1 \in 0..Len(bufs)
            OBVIOUS
          <6> QED BY <3>1, <6>1, MaskedParts
        <5>2. Start(buf0, bufs, i) \in Nat
          <6>1. Len(buf0) \in Nat /\ Len(Flatten(SubSeq(bufs, 1, i - 1))) \in Nat
            BY <5>1, BytesAreInts
          <6> QED BY <6>1 DEF Start
        <5> QED BY <4>1, <5>2, NoMaskIs
      <4>3. MaskedAll(buf0, bufs, NoMask) = [i \in 1..Len(bufs) |-> Masked(bufs[i], NoMask, Start(buf0, bufs, i))]
        BY <4>1 DEF MaskedAll
      <4> QED BY <4>1, <4>2, <4>3
    <3> QED BY <1>2, <3>2, <3>3, <3>4
  <2> QED BY <2>1, <2>2
<1> QED BY <1>8, <1>9 DEF packet

LEMMA NoBytes == <<>> \in Bytes /\ <<>> \in Ints /\ Len(<<>>) = 0
BY DEF Bytes, Ints

\* A pong is written as far as the system takes it, or not at all while a write is pending.
LEMMA PongWritten ==
  ASSUME NEW w, WritersOK(w), NEW c \in Conns, c \in WebSockets, c \notin w.closed, NEW payload \in Bytes,
         NEW room \in Nat \cup {-1}
  PROVE  /\ WritersOK(WebSocket_pong(w, c, payload, room))
         /\ WebSocket_pong(w, c, payload, room).closed = w.closed
<1> DEFINE f == WebSocket_buildFrame(PONG, <<>>, <<payload>>, NoMask)
           iovecs == <<f.wsbuf0>> \o f.bufs
           q == Socket_putdatas(w, c, iovecs, room)
<1>1. PONG \in Opcodes
  BY DEF Opcodes
<1>2. <<payload>> \in Seq(Bytes) /\ payload \in Ints
  <2>1. payload \in Ints
    BY BytesAreInts
  <2> HIDE DEF Bytes
  <2> QED BY <2>1
<1>3. <<>> \o Flatten(<<payload>>) = payload
  <2>1. <<payload>> \o <<>> = <<payload>> /\ <<>> \in Seq(Ints)
    BY <1>2
  <2>2. Flatten(<<payload>> \o <<>>) = payload \o Flatten(<<>>)
    BY <1>2, <2>1, FlattenFirst
  <2>3. payload \o <<>> = payload /\ <<>> \o payload = payload
    BY <1>2 DEF Ints
  <2> QED BY <2>1, <2>2, <2>3, FlattenEmpty
<1>4. iovecs \in Seq(Ints) /\ Flatten(iovecs) = WsFrame(PONG, payload)
  <2>1. /\ <<f.wsbuf0>> \o f.bufs \in Seq(Ints)
        /\ Flatten(<<f.wsbuf0>> \o f.bufs) = WsFrame(PONG, <<>> \o Flatten(<<payload>>))
    BY <1>1, <1>2, NoBytes, BuiltFrame, ZenonT(60)
  <2> QED BY <1>3, <2>1
<1> HIDE DEF iovecs
<1>6. Flatten(iovecs) = IF c \in WebSockets THEN WsFrame(PONG, payload) ELSE payload
  BY <1>4
<1>7. /\ q.rc = "error" => WritersOK(q.w) /\ q.w.closed = w.closed
      /\ q.rc # "error" => WritersOK(Accept(q.w, c, PONG, payload)) /\ Accept(q.w, c, PONG, payload).closed = w.closed
  BY <1>1, <1>4, <1>6, PutOne
<1>8. WebSocket_pong(w, c, payload, room) = IF q.rc = "error" THEN q.w ELSE Accept(q.w, c, PONG, payload)
  BY DEF WebSocket_pong, iovecs
<1> HIDE DEF q
<1> QED BY <1>7, <1>8

Pongs(g, w, c, payloads, rooms, n) ==
  g = [k \in 0..n |-> IF k = 0 THEN w ELSE WebSocket_pong(g[k - 1], c, payloads[k], rooms[k])]

\* One pong after the other.
LEMMA PongsExist ==
  ASSUME NEW w, NEW c, NEW payloads, NEW rooms, NEW n \in Nat
  PROVE  \E g : Pongs(g, w, c, payloads, rooms, n)
<1> DEFINE Bad == {k \in Nat : ~ \E g : Pongs(g, w, c, payloads, rooms, k)}
<1> SUFFICES ASSUME Bad # {} PROVE FALSE
  OBVIOUS
<1>1. PICK k \in Bad : \A j \in Bad : k <= j
  BY LeastOf
<1>2. CASE k = 0
  <2> DEFINE g == [i \in 0..0 |-> w]
  <2>1. g = [i \in 0..0 |-> IF i = 0 THEN w ELSE WebSocket_pong(g[i - 1], c, payloads[i], rooms[i])]
    OBVIOUS
  <2>2. Pongs(g, w, c, payloads, rooms, 0)
    BY <2>1 DEF Pongs
  <2> QED BY <1>2, <2>2
<1>3. CASE k # 0
  <2>1. k - 1 \in Nat /\ k - 1 \notin Bad /\ k \in Nat
    BY <1>1, <1>3
  <2>2. PICK g : Pongs(g, w, c, payloads, rooms, k - 1)
    BY <2>1
  <2> HIDE DEF Bad
  <2> DEFINE Step(f, i) == IF i = 0 THEN w ELSE WebSocket_pong(f[i - 1], c, payloads[i], rooms[i])
             h == [i \in 0..k |-> IF i = k THEN Step(g, i) ELSE g[i]]
  <2>3. \A i \in 0 .. k - 1 : g[i] = Step(g, i)
    BY <2>2 DEF Pongs
  <2>4. ASSUME NEW i \in 0..k
        PROVE  h[i] = Step(h, i)
    <3>1. h[i] = Step(g, i)
      BY <2>1, <2>3
    <3>2. CASE i = 0
      BY <3>1, <3>2
    <3>3. CASE i # 0
      <4>1. i - 1 \in 0..k /\ i - 1 # k
        BY <2>1, <3>3
      <4>2. h[i - 1] = g[i - 1]
        BY <4>1
      <4> QED BY <3>1, <3>3, <4>2
    <3> QED BY <3>2, <3>3
  <2>5. h = [i \in 0..k |-> h[i]]
    OBVIOUS
  <2> HIDE DEF h
  <2>6. h = [i \in 0..k |-> Step(h, i)]
    BY <2>4, <2>5
  <2>7. Pongs(h, w, c, payloads, rooms, k)
    BY <2>6 DEF Pongs
  <2> QED BY <2>7 DEF Bad
<1> QED BY <1>2, <1>3

\* Pongs keep the wire right.
LEMMA PongsWritten ==
  ASSUME NEW w, WritersOK(w), NEW c \in Conns, c \notin w.closed, NEW payloads \in Seq(Bytes),
         c \notin WebSockets => payloads = <<>>, NEW rooms \in [DOMAIN payloads -> Nat \cup {-1}]
  PROVE  WritersOK(Ponged(w, c, payloads, rooms))
<1> DEFINE n == Len(payloads)
           W(g) == [k \in 0..n |-> IF k = 0 THEN w ELSE WebSocket_pong(g[k - 1], c, payloads[k], rooms[k])]
           p == CHOOSE g : g = W(g)
<1>1. n \in Nat /\ \A i \in 1..n : payloads[i] \in Bytes /\ rooms[i] \in Nat \cup {-1}
  <2> HIDE DEF Bytes
  <2> QED OBVIOUS
<1>2. \E g : g = W(g)
  <2>1. PICK g : Pongs(g, w, c, payloads, rooms, n)
    BY <1>1, PongsExist
  <2> QED BY <2>1 DEF Pongs
<1>3. p = W(p)
  BY <1>2, ZenonT(60)
<1>4. Ponged(w, c, payloads, rooms) = p[n]
  BY DEF Ponged
<1> HIDE DEF p
<1>5. \A k \in 0..n : p[k] = IF k = 0 THEN w ELSE WebSocket_pong(p[k - 1], c, payloads[k], rooms[k])
  BY <1>3
<1> HIDE DEF W
<1> DEFINE Good(k) == WritersOK(p[k]) /\ p[k].closed = w.closed
           Bad == {k \in 0..n : ~Good(k)}
<1>6. ASSUME Bad # {} PROVE FALSE
  <2>1. PICK k \in Bad : \A j \in Bad : k <= j
    <3>1. Bad \in SUBSET Nat
      OBVIOUS
    <3> HIDE DEF Bad
    <3> QED BY <1>6, <3>1, LeastOf
  <2>2. k \in 0..n /\ ~Good(k)
    OBVIOUS
  <2>3. k # 0
    BY <1>5, <2>2
  <2>4. k - 1 \in 0..n /\ k - 1 < k /\ k \in 1..n
    BY <1>1, <2>2, <2>3
  <2>5. k - 1 \notin Bad
    BY <2>1, <2>4
  <2>6. Good(k - 1)
    BY <2>4, <2>5
  <2>7. p[k] = WebSocket_pong(p[k - 1], c, payloads[k], rooms[k]) /\ payloads[k] \in Bytes /\ rooms[k] \in Nat \cup {-1}
    BY <1>1, <1>5, <2>2, <2>3, <2>4
  <2>8. c \in WebSockets
    BY <1>1, <2>4
  <2>9. c \notin p[k - 1].closed
    BY <2>6
  <2>10. WritersOK(WebSocket_pong(p[k - 1], c, payloads[k], rooms[k])) /\ WebSocket_pong(p[k - 1], c, payloads[k], rooms[k]).closed = p[k - 1].closed
    BY <2>6, <2>7, <2>8, <2>9, PongWritten
  <2> QED BY <2>2, <2>6, <2>7, <2>10
<1>7. n \in 0..n
  BY <1>1
<1>8. Good(n)
  BY <1>6, <1>7
<1> QED BY <1>4, <1>8

\* A CLOSE frame is written before the socket is closed, if nothing is pending.
LEMMA CloseIsWritten ==
  ASSUME NEW w, WritersOK(w), NEW c \in Conns, c \notin w.closed, NEW room \in Nat \cup {-1}
  PROVE  WritersOK(CloseWritten(w, c, room))
<1> DEFINE f == WebSocket_buildFrame(CLOSE, StatusCode, <<>>, NoMask)
           iovecs == <<f.wsbuf0>>
           q == Socket_putdatas(w, c, iovecs, room)
<1>1. CLOSE \in Opcodes /\ StatusCode \in Bytes /\ <<>> \in Seq(Bytes)
  BY DEF Opcodes, StatusCode, Bytes
<1>2. StatusCode \o Flatten(<<>>) = StatusCode
  <2>1. StatusCode \in Ints
    BY <1>1, BytesAreInts
  <2>2. StatusCode \o <<>> = StatusCode
    BY <2>1 DEF Ints
  <2> QED BY <2>2, FlattenEmpty
<1>3. f.bufs = <<>>
  <2>1. NewMask \in Masks
    BY NewMaskIs
  <2>2. f.bufs = MaskedAll(StatusCode, <<>>, NewMask)
    BY <1>1, BuiltFrame
  <2> QED BY <2>2 DEF MaskedAll
<1>4. iovecs \in Seq(Ints) /\ Flatten(iovecs) = WsFrame(CLOSE, StatusCode)
  <2> HIDE DEF f
  <2> DEFINE none == <<>>
  <2>0. f = WebSocket_buildFrame(CLOSE, StatusCode, none, NoMask) /\ none \in Seq(Bytes)
    BY <1>1 DEF f
  <2> HIDE DEF none
  <2>1. /\ <<f.wsbuf0>> \o f.bufs \in Seq(Ints)
        /\ Flatten(<<f.wsbuf0>> \o f.bufs) = WsFrame(CLOSE, StatusCode \o Flatten(none))
    BY <1>1, <2>0, BuiltFrame
  <2>2. <<f.wsbuf0>> \o f.bufs = <<f.wsbuf0>>
    BY <1>3
  <2> QED BY <1>2, <2>1, <2>2 DEF none
<1> HIDE DEF iovecs
<1>5. CloseWritten(w, c, room) = WritesClosed(IF c \in WebSockets /\ q.rc # "error" THEN Accept(q.w, c, CLOSE, StatusCode) ELSE w, c)
  BY DEF CloseWritten, CloseFrame, iovecs
<1>6. CASE c \in WebSockets /\ q.rc # "error"
  <2>1. Flatten(iovecs) = IF c \in WebSockets THEN WsFrame(CLOSE, StatusCode) ELSE StatusCode
    BY <1>4, <1>6
  <2>2. WritersOK(Accept(q.w, c, CLOSE, StatusCode))
    BY <1>1, <1>4, <1>6, <2>1, PutOne
  <2> HIDE DEF q
  <2> QED BY <1>5, <1>6, <2>2, WriterCloses
<1>7. CASE ~(c \in WebSockets /\ q.rc # "error")
  BY <1>5, <1>7, WriterCloses
<1> QED BY <1>6, <1>7

\* what one pending write becomes
LEMMA ContinuedOne ==
  ASSUME NEW w, WritersOK(w), NEW c \in w.write_pending, NEW room \in Nat \cup {-1},
         NEW q, q = Socket_continueWrite(w, c, room)
  PROVE  /\ q.rc \in {"error", "complete", "interrupted"}
         /\ q.rc # "error" => c \notin w.broken
         /\ q.w.writes[c] \in Writes /\ q.w.out[c] \in Ints
         /\ OnWire(c, q.w.out[c], w.accepted[c])
         /\ Pending(c, q.w.writes[c], q.w.out[c], w.accepted[c])
         /\ q.rc = "complete" => Len(q.w.out[c]) = Total(c, w.accepted[c])
<1> DEFINE pw == w.writes[c]
           out == w.out[c]
           acc == w.accepted[c]
           rest == Flatten(Unwritten(pw))
           sent == Written(rest, room)
           F == Flatten(pw.iovecs)
           a == acc[Len(acc)]
           bytes == pw.bytes + Len(sent)
           v == [w EXCEPT !.writes[c].bytes = bytes, !.out[c] = @ \o sent]
<1>1. w \in Writers /\ c \in Conns
  BY WriterFields DEF WritersOK
<1>2. ConnOK(w, c)
  BY <1>1 DEF WritersOK
<1>3. w.writes \in [Conns -> Writes] /\ w.out \in [Conns -> Ints] /\ w.broken \in SUBSET Conns
  BY <1>1, WriterFields
<1>4. pw \in Writes /\ out \in Ints
  BY <1>1, <1>3
<1>5. pw.iovecs \in Seq(Ints) /\ pw.bytes \in Nat
  BY <1>4 DEF Writes
<1>6. OnWire(c, out, acc) /\ Pending(c, pw, out, acc)
  BY <1>2 DEF ConnOK
<1>7. CASE Breaks(w, c, room)
  <2>1. q = [w |-> Broken(w, c), rc |-> "error"]
    BY <1>7 DEF Socket_continueWrite
  <2>2. q.w.writes = w.writes /\ q.w.out = w.out
    <3>1. Broken(w, c).writes = w.writes /\ Broken(w, c).out = w.out
      BY <1>1 DEF Broken, Writers
    <3>2. q.w = Broken(w, c)
      BY <2>1
    <3> QED BY <3>1, <3>2
  <2>3. q.rc = "error"
    BY <2>1
  <2> QED BY <1>4, <1>6, <2>2, <2>3
<1>8. CASE ~Breaks(w, c, room)
  <2>1. c \notin w.broken /\ room \in Nat
    BY <1>8 DEF Breaks
  <2>2. q = [w |-> v, rc |-> IF bytes = Len(F) THEN "complete" ELSE "interrupted"]
    BY <1>8 DEF Socket_continueWrite
  <2> DEFINE b == pw.bytes
  <2>3. F \in Ints /\ b \in Nat /\ Len(F) \in Nat
    <3>1. F \in Ints
      BY <1>5, FlattenType
    <3> QED BY <1>5, <3>1, ConcatIs
  <2>4. rest = SubSeq(F, b + 1, Len(F))
    <3> HIDE DEF pw
    <3>1. Flatten(Unwritten(pw)) = SubSeq(Flatten(pw.iovecs), pw.bytes + 1, Len(Flatten(pw.iovecs)))
      BY <1>5, UnwrittenIs
    <3> QED BY <3>1
  <2>5. Len(acc) > 0 /\ F = Frame(c, a) /\ Len(out) = a.at + b
    BY <1>6 DEF Pending
  <2>6. /\ acc \in Seq(TakenBy(c)) /\ Len(out) <= Total(c, acc)
        /\ a \in Taken /\ a.at \in Nat /\ Total(c, acc) = a.at + WireLen(c, a) /\ WireLen(c, a) \in Nat
    <3>1. acc \in Seq(TakenBy(c)) /\ Len(out) <= Total(c, acc)
      BY <1>6 DEF OnWire
    <3>2. Len(acc) \in 1..Len(acc)
      <4>1. Len(acc) \in Nat
        BY <3>1, TakenIs
      <4> QED BY <2>5, <4>1
    <3>3. /\ a \in Taken /\ a.at \in Nat /\ WireLen(c, a) \in Nat /\ EndOf(c, a) = a.at + WireLen(c, a)
          /\ Total(c, acc) = EndOf(c, a)
      BY <2>5, <3>1, <3>2, TakenIs
    <3> QED BY <3>1, <3>3
  <2>7. Len(F) = WireLen(c, a)
    BY <2>5, <2>6, FrameIs
  <2>8. b <= Len(F)
    BY <2>3, <2>5, <2>6, <2>7
  <2> HIDE DEF F, a, b, rest
  <2>9. rest \in Ints /\ Len(rest) = Len(F) - b
    <3>1. Len(F) <= Len(F)
      BY <2>3
    <3> QED BY <2>3, <2>4, <2>8, <3>1, PartIs
  <2>10. PICK n \in Nat : n <= Len(rest) /\ sent = SubSeq(rest, 1, n) /\ Len(sent) = n
    BY <2>1, <2>9, WrittenIs
  <2>11. sent = SubSeq(F, b + 1, b + n) /\ n <= Len(F) - b
    BY <2>3, <2>4, <2>8, <2>9, <2>10, PartOfRest
  <2> HIDE DEF sent
  <2>12. OnWire(c, out \o sent, acc) /\ Len(out \o sent) = a.at + (b + n)
    <3> HIDE DEF acc, out
    <3>1. b + n <= Len(Frame(c, acc[Len(acc)])) /\ Len(out) = acc[Len(acc)].at + b
      <4>1. b + n <= Len(F)
        BY <2>3, <2>11
      <4> QED BY <2>5, <4>1 DEF a
    <3>2. /\ OnWire(c, out \o SubSeq(Frame(c, acc[Len(acc)]), b + 1, b + n), acc)
          /\ Len(out \o SubSeq(Frame(c, acc[Len(acc)]), b + 1, b + n)) = acc[Len(acc)].at + (b + n)
      BY <1>6, <2>3, <2>5, <3>1, WriteMore
    <3>3. Frame(c, acc[Len(acc)]) = F /\ acc[Len(acc)].at = a.at
      BY <2>5 DEF a
    <3> QED BY <2>11, <3>2, <3>3
  <2>13. out \o sent \in Ints
    BY <2>12 DEF OnWire
  <2>14. bytes = b + n /\ bytes \in Nat
    BY <2>3, <2>10 DEF b
  <2> HIDE DEF bytes
  <2>15. v.out[c] = out \o sent /\ v.writes[c] = [pw EXCEPT !.bytes = bytes]
    BY <1>1, <1>3 DEF Writers
  <2>16. v.writes[c] \in Writes /\ v.writes[c].iovecs = pw.iovecs /\ v.writes[c].bytes = bytes
    BY <1>4, <2>14, <2>15, SMTT(60) DEF Writes
  <2> HIDE DEF v
  <2>17. Pending(c, v.writes[c], v.out[c], acc)
    BY <2>5, <2>12, <2>14, <2>15, <2>16 DEF Pending, F, a
  <2>18. bytes = Len(F) => Len(v.out[c]) = Total(c, acc)
    BY <2>6, <2>7, <2>12, <2>14, <2>15
  <2>19. q.w = v /\ q.rc = IF bytes = Len(F) THEN "complete" ELSE "interrupted"
    BY <2>2
  <2>20. q.rc \in {"error", "complete", "interrupted"} /\ (q.rc = "complete" => bytes = Len(F))
    BY <2>19
  <2> QED BY <2>1, <2>12, <2>13, <2>15, <2>16, <2>17, <2>18, <2>19, <2>20
<1> QED BY <1>7, <1>8

\* All pending writes that can go on do, each on its own socket.
LEMMA ContinuedAll ==
  ASSUME NEW w, WritersOK(w), NEW pwset \in SUBSET Conns, NEW room \in [pwset -> Nat \cup {-1}]
  PROVE  WritersOK(Socket_continueWrites(w, pwset, room).w)
<1> DEFINE going == w.write_pending \cap pwset
           r(c) == Socket_continueWrite(w, c, room[c])
           over == {c \in going : r(c).rc # "interrupted"}
           failed == {c \in going : r(c).rc = "error"}
           writes == [c \in Conns |-> IF c \in over THEN NoWrite
                                      ELSE IF c \in going THEN r(c).w.writes[c] ELSE w.writes[c]]
           outs == [c \in Conns |-> IF c \in going THEN r(c).w.out[c] ELSE w.out[c]]
           v == [w EXCEPT !.write_pending = @ \ over, !.pending_wset = @ \ over, !.writes = writes,
                          !.out = outs, !.broken = @ \cup failed]
<1>1. w \in Writers /\ \A c \in Conns : ConnOK(w, c)
  BY DEF WritersOK
<1>2. /\ w.write_pending \in SUBSET Conns /\ w.pending_wset \in SUBSET Conns /\ w.broken \in SUBSET Conns
      /\ w.writes \in [Conns -> Writes] /\ w.out \in [Conns -> Ints]
  BY <1>1, WriterFields
<1>3. ASSUME NEW c \in going
      PROVE  /\ c \in Conns /\ c \in w.write_pending
             /\ r(c).rc \in {"error", "complete", "interrupted"}
             /\ r(c).rc # "error" => c \notin w.broken
             /\ r(c).w.writes[c] \in Writes /\ r(c).w.out[c] \in Ints
             /\ OnWire(c, r(c).w.out[c], w.accepted[c])
             /\ Pending(c, r(c).w.writes[c], r(c).w.out[c], w.accepted[c])
             /\ r(c).rc = "complete" => Len(r(c).w.out[c]) = Total(c, w.accepted[c])
  <2>1. c \in w.write_pending /\ c \in Conns /\ room[c] \in Nat \cup {-1}
    BY <1>2
  <2>2. PICK q : q = r(c)
    OBVIOUS
  <2> HIDE DEF r
  <2>3. /\ q.rc \in {"error", "complete", "interrupted"}
        /\ q.rc # "error" => c \notin w.broken
        /\ q.w.writes[c] \in Writes /\ q.w.out[c] \in Ints
        /\ OnWire(c, q.w.out[c], w.accepted[c])
        /\ Pending(c, q.w.writes[c], q.w.out[c], w.accepted[c])
        /\ q.rc = "complete" => Len(q.w.out[c]) = Total(c, w.accepted[c])
    BY <2>1, <2>2, ContinuedOne DEF r
  <2> QED BY <2>1, <2>2, <2>3
<1>4. Socket_continueWrites(w, pwset, room).w = v
  BY DEF Socket_continueWrites
<1> HIDE DEF r, Writes, Ints
<1>5. writes \in [Conns -> Writes] /\ outs \in [Conns -> Ints] /\ over \subseteq going /\ failed \subseteq Conns
  BY <1>2, <1>3, NoWriteIs
<1>6. /\ \A c \in over : writes[c] = NoWrite
      /\ \A c \in Conns \ over : writes[c] = IF c \in going THEN r(c).w.writes[c] ELSE w.writes[c]
      /\ \A c \in Conns : outs[c] = IF c \in going THEN r(c).w.out[c] ELSE w.out[c]
  BY <1>2
<1>7. over = {c \in going : r(c).rc # "interrupted"} /\ failed = {c \in going : r(c).rc = "error"}
  OBVIOUS
<1> HIDE DEF writes, outs, over, failed
<1>8. /\ v \in Writers /\ v.write_pending = w.write_pending \ over /\ v.writes = writes /\ v.out = outs
      /\ v.broken = w.broken \cup failed /\ v.closed = w.closed /\ v.accepted = w.accepted
  <2>1. v.write_pending = w.write_pending \ over /\ v.writes = writes /\ v.out = outs
    BY <1>1 DEF Writers
  <2>2. v.broken = w.broken \cup failed /\ v.closed = w.closed /\ v.accepted = w.accepted
    BY <1>1 DEF Writers
  <2>3. v \in Writers
    BY <1>1, <1>2, <1>5 DEF Writers
  <2> QED BY <2>1, <2>2, <2>3
<1> HIDE DEF v
<1>9. ASSUME NEW c \in Conns
      PROVE  ConnOK(v, c)
  <2>1. ConnOK(w, c)
    BY <1>1
  <2>2. CASE c \notin going
    <3>1. /\ v.out[c] = w.out[c] /\ v.accepted[c] = w.accepted[c] /\ v.writes[c] = w.writes[c]
          /\ (c \in v.write_pending <=> c \in w.write_pending)
          /\ (c \in v.broken <=> c \in w.broken) /\ (c \in v.closed <=> c \in w.closed)
      BY <1>5, <1>6, <1>7, <1>8, <2>2
    <3> QED BY <2>1, <3>1, Zenon DEF ConnOK, Idle
  <2>3. CASE c \in going
    <3>1. v.out[c] = r(c).w.out[c] /\ v.accepted[c] = w.accepted[c]
      BY <1>6, <1>8, <2>3
    <3>2. OnWire(c, v.out[c], v.accepted[c])
      BY <1>3, <2>3, <3>1
    <3>3. CASE r(c).rc = "interrupted"
      <4>1. c \notin over /\ c \in v.write_pending /\ v.writes[c] = r(c).w.writes[c]
        BY <1>3, <1>6, <1>7, <1>8, <2>3, <3>3
      <4>2. Pending(c, v.writes[c], v.out[c], v.accepted[c])
        BY <1>3, <2>3, <3>1, <4>1
      <4> QED BY <3>2, <4>1, <4>2 DEF ConnOK, Idle
    <3>4. CASE r(c).rc = "complete"
      <4>1. c \notin v.write_pending
        BY <1>7, <1>8, <2>3, <3>4
      <4>2. Len(v.out[c]) = Total(c, v.accepted[c])
        BY <1>3, <2>3, <3>1, <3>4
      <4> QED BY <3>2, <4>1, <4>2 DEF ConnOK
    <3>5. CASE r(c).rc = "error"
      <4>1. c \notin v.write_pending /\ c \in v.broken
        BY <1>7, <1>8, <2>3, <3>5
      <4> QED BY <3>2, <4>1 DEF ConnOK, Idle
    <3> QED BY <1>3, <2>3, <3>3, <3>4, <3>5
  <2> QED BY <2>2, <2>3
<1> QED BY <1>4, <1>8, <1>9 DEF WritersOK

----------------------------------------------------------------------------
(* Every packet on the wire is what was sent *)

\* A message whose write is over is in memory as it was given.
MessageKept ==
  /\ message \in Messages /\ pub = [c \in Conns |-> pub[c]]
  /\ \A c \in Conns : pub[c].mask = NoMask => pub[c].topic = message.topic /\ pub[c].payload = message.payload

WireRight == MessageKept /\ WritersOK(wr)

\* Until a buffer is freed that a pending write still uses.
WireInv == ~freed => WireRight

\* At first nothing is on the wire.
LEMMA WireInitially == WriteInit => WireInv
<1> SUFFICES ASSUME WriteInit PROVE WireInv
  OBVIOUS
<1>1. MessageKept
  BY DEF WriteInit, MessageKept
<1>2. <<>> \in Seq(Taken) /\ <<>> \in Ints /\ Len(<<>>) = 0
  BY NoBytes
<1>3. /\ wr.write_pending = {} /\ wr.out = [c \in Conns |-> <<>>] /\ wr.accepted = [c \in Conns |-> <<>>]
  BY DEF WriteInit
<1>4. wr \in Writers
  <2> HIDE DEF Taken, Ints, Writes
  <2> QED BY <1>2, NoWriteIs DEF WriteInit, Writers
<1>5. ASSUME NEW c \in Conns
      PROVE  ConnOK(wr, c)
  <2>1. wr.out[c] = <<>> /\ wr.accepted[c] = <<>> /\ c \notin wr.write_pending
    BY <1>3
  <2>2. Total(c, <<>>) = 0 /\ <<>> \in Seq(TakenBy(c))
    BY DEF Total
  <2>3. OnWire(c, <<>>, <<>>)
    BY <1>2, <2>2 DEF OnWire
  <2> QED BY <1>2, <2>1, <2>2, <2>3 DEF ConnOK
<1> QED BY <1>1, <1>4, <1>5 DEF WireInv, WireRight, WritersOK

\* Headers of PUBLISH packets are bytes.
LEMMA HeaderBytes ==
  ASSUME NEW n \in Nat
  PROVE  PublishHeader(n) \in Bytes /\ TwoBytes(n) \in Bytes
<1>1. TwoBytes(n) \in Bytes
  <2>1. (n \div 256) % 256 \in 0..255 /\ n % 256 \in 0..255
    OBVIOUS
  <2> QED BY <2>1 DEF TwoBytes, Bytes
<1> DEFINE k == IF n < 128 THEN 1 ELSE IF n < 16384 THEN 2 ELSE IF n < 2097152 THEN 3 ELSE 4
           t == [i \in 1..k |-> ((n \div Weights[i]) % 128) + (IF i < k THEN 128 ELSE 0)]
<1>2. k \in 1..4 /\ k \in Nat
  BY SMT
<1> HIDE DEF k
<1>3. \A i \in 1..k : t[i] \in 0..255
  <2> TAKE i \in 1..k
  <2>1. i \in 1..4
    BY <1>2
  <2>2. Weights[i] \in Nat /\ Weights[i] > 0
    BY <2>1, SMT DEF Weights
  <2>3. PICK x \in Nat : x = n \div Weights[i]
    BY <2>2, SMT
  <2>4. x % 128 \in 0..127
    OBVIOUS
  <2>5. t[i] = (x % 128) + (IF i < k THEN 128 ELSE 0)
    BY <2>3
  <2> HIDE DEF t
  <2>6. CASE i < k
    BY <2>4, <2>5, <2>6
  <2>7. CASE ~(i < k)
    BY <2>4, <2>5, <2>7
  <2> QED BY <2>6, <2>7
<1>4. t = [i \in 1..k |-> t[i]]
  OBVIOUS
<1> HIDE DEF t
<1>5. t \in Bytes
  BY <1>2, <1>3, <1>4, BytesFrom
<1>6. <<50>> \in Bytes
  BY DEF Bytes
<1>7. PublishHeader(n) = <<50>> \o t
  BY DEF PublishHeader, t, k
<1> QED BY <1>1, <1>5, <1>6, <1>7, ConcatBytes

\* The last buffer comes last.
LEMMA JoinOne ==
  ASSUME NEW h \in Bytes, NEW parts \in Seq(Bytes), NEW v \in Bytes
  PROVE  Append(parts, v) \in Seq(Bytes) /\ h \o Flatten(Append(parts, v)) = (h \o Flatten(parts)) \o v
<1>1. Append(parts, v) \in Seq(Bytes)
  BY AppendIn
<1>2. h \in Ints /\ v \in Ints /\ parts \in Seq(Ints)
  BY BytesAreInts, BytePartsAreInts
<1>3. Flatten(Append(parts, v)) = Flatten(parts) \o v
  BY <1>2, OneMore
<1>4. PICK x \in Ints : x = Flatten(parts)
  BY <1>2, FlattenType
<1>5. h \o (x \o v) = (h \o x) \o v
  BY <1>2, Assoc, SMTT(60)
<1> QED BY <1>1, <1>3, <1>4, <1>5

LEMMA Appends ==
  ASSUME NEW a \in Bytes, NEW b \in Bytes, NEW c \in Bytes, NEW d \in Bytes
  PROVE  <<a, b, c, d>> = Append(Append(Append(Append(<<>>, a), b), c), d)
<1>1. <<a>> = Append(<<>>, a) /\ <<a, b>> = Append(<<a>>, b) /\ <<a, b, c>> = Append(<<a, b>>, c)
      /\ <<a, b, c, d>> = Append(<<a, b, c>>, d)
  OBVIOUS
<1> QED BY <1>1, Zenon

\* A message that is not masked is published as it is.
LEMMA PublishStep ==
  ASSUME WireRight, NEW c \in Conns, NEW room \in Rooms, pub[c].mask = NoMask, PublishBytes(c, room)
  PROVE  WireRight'
<1> DEFINE buf0 == PublishHeader(4 + Len(message.topic) + Len(message.payload))
           len == TwoBytes(Len(message.topic))
           topic == message.topic
           payload == message.payload
           id == <<0, 7>>
           bufs == <<len, topic, id, payload>>
           r == WebSocket_putdatas(wr, c, buf0, bufs, NoMask, room)
<1>1. message \in Messages /\ pub = [d \in Conns |-> pub[d]] /\ pub[c].topic = topic /\ pub[c].payload = payload /\ WritersOK(wr)
  BY DEF WireRight, MessageKept
<1>2. topic \in Bytes /\ payload \in Bytes /\ room \in Nat \cup {-1}
  BY <1>1, WireAssumption
<1>3. /\ c \notin wr.closed
      /\ wr' = Sent(wr, c, r, buf0 \o len \o topic \o id \o payload)
      /\ pub' = [pub EXCEPT ![c] = [topic |-> r.bufs[2], payload |-> r.bufs[4], mask |-> r.mask]]
      /\ message' = message
  BY <1>1 DEF PublishBytes
<1>4. buf0 \in Bytes /\ len \in Bytes /\ id \in Bytes
  <2>1. Len(topic) \in Nat /\ Len(payload) \in Nat
    BY <1>2, BytesAreInts
  <2>2. 4 + Len(topic) + Len(payload) \in Nat
    <3> HIDE DEF topic, payload
    <3> QED BY <2>1
  <2>3. id \in Bytes
    BY DEF Bytes
  <2> QED BY <2>1, <2>2, <2>3, HeaderBytes
<1> HIDE DEF buf0, len, id, topic, payload
<1>5. bufs \in Seq(Bytes) /\ buf0 \o len \o topic \o id \o payload = buf0 \o Flatten(bufs)
  <2>1. topic \in Bytes /\ payload \in Bytes
    BY <1>2
  <2>2. <<>> \in Seq(Bytes) /\ buf0 \o Flatten(<<>>) = buf0
    <3>1. buf0 \in Ints
      BY <1>4, BytesAreInts
    <3>2. buf0 \o <<>> = buf0
      BY <3>1 DEF Ints
    <3>3. <<>> \in Seq(Bytes)
      OBVIOUS
    <3> QED BY <3>2, <3>3, FlattenEmpty
  <2> DEFINE p1 == Append(<<>>, len)
             p2 == Append(p1, topic)
             p3 == Append(p2, id)
             p4 == Append(p3, payload)
  <2>3. p1 \in Seq(Bytes) /\ buf0 \o Flatten(p1) = (buf0 \o Flatten(<<>>)) \o len
    BY <1>4, <2>2, JoinOne
  <2>4. <<len, topic, id, payload>> = Append(Append(Append(Append(<<>>, len), topic), id), payload)
    BY <1>4, <2>1, Appends
  <2> HIDE DEF p1
  <2>5. p2 \in Seq(Bytes) /\ buf0 \o Flatten(p2) = (buf0 \o Flatten(p1)) \o topic
    BY <1>4, <2>1, <2>3, JoinOne, ZenonT(60)
  <2> HIDE DEF p2
  <2>6. p3 \in Seq(Bytes) /\ buf0 \o Flatten(p3) = (buf0 \o Flatten(p2)) \o id
    BY <1>4, <2>5, JoinOne
  <2> HIDE DEF p3
  <2>7. p4 \in Seq(Bytes) /\ buf0 \o Flatten(p4) = (buf0 \o Flatten(p3)) \o payload
    BY <1>4, <2>1, <2>6, JoinOne, ZenonT(60)
  <2> HIDE DEF p4, bufs
  <2>8. bufs = p4
    BY <2>4 DEF bufs, p4, p3, p2, p1
  <2>9. buf0 \o Flatten(p4) = buf0 \o len \o topic \o id \o payload
    BY <2>2, <2>3, <2>5, <2>6, <2>7
  <2> QED BY <2>7, <2>8, <2>9
<1>6. bufs[2] = topic /\ bufs[4] = payload
  OBVIOUS
<1> HIDE DEF bufs
<1>7. WritersOK(Sent(wr, c, r, buf0 \o Flatten(bufs))) /\ (r.mask = NoMask => r.bufs = bufs)
  BY <1>1, <1>2, <1>3, <1>4, <1>5, PacketWritten
<1> HIDE DEF r
<1>8. WritersOK(wr)'
  BY <1>3, <1>5, <1>7 DEF WritersOK
<1>9. MessageKept'
  <2>1. message' \in Messages /\ pub' = [d \in Conns |-> pub'[d]]
    BY <1>1, <1>3
  <2>2. ASSUME NEW d \in Conns, pub'[d].mask = NoMask
        PROVE  pub'[d].topic = message'.topic /\ pub'[d].payload = message'.payload
    <3>1. CASE d = c
      <4>1. pub'[d] = [topic |-> r.bufs[2], payload |-> r.bufs[4], mask |-> r.mask]
        BY <1>1, <1>3, <3>1
      <4>2. r.mask = NoMask
        BY <2>2, <4>1
      <4> QED BY <1>3, <1>6, <1>7, <4>1, <4>2 DEF topic, payload
    <3>2. CASE d # c
      <4>1. pub'[d] = pub[d]
        BY <1>1, <1>3, <3>2
      <4> QED BY <1>3, <2>2, <4>1 DEF WireRight, MessageKept
    <3> QED BY <3>1, <3>2
  <2> QED BY <2>1, <2>2 DEF MessageKept
<1> QED BY <1>8, <1>9 DEF WireRight

\* Every step keeps the wire right.
LEMMA WireStep == WireInv /\ [WriteOnceNext]_writeVars => WireInv'
<1> SUFFICES ASSUME WireInv, [WriteOnceNext]_writeVars
             PROVE  WireInv'
  OBVIOUS
<1> SUFFICES ASSUME ~freed' PROVE WireRight'
  BY DEF WireInv
<1>0. ~freed
  <2>1. \A c, room : PublishBytes(c, room) => freed' = freed
    BY Zenon DEF PublishBytes
  <2>2. \A c, p, room : PacketBytes(c, p, room) => freed' = freed
    BY Zenon DEF PacketBytes
  <2>3. \A c, room : CloseBytes(c, room) => (freed => freed')
    BY Zenon DEF CloseBytes
  <2>4. \A c, payloads, rooms, used, fails : AnswerBytes(c, payloads, rooms, used, fails) => (freed => freed')
    <3> TAKE c, payloads, rooms, used, fails
    <3> DEFINE cut == Socket_noPendingWrites(wr, c) /\ ~Socket_noPendingWrites(Ponged(wr, c, payloads, rooms), c)
    <3>1. AnswerBytes(c, payloads, rooms, used, fails) => freed' = (freed \/ cut)
      BY DEF AnswerBytes
    <3> HIDE DEF cut
    <3> QED BY <3>1, Zenon
  <2>5. \A pwset, room : ContinueBytes(pwset, room) => freed' = freed
    BY Zenon DEF ContinueBytes
  <2>6. UNCHANGED writeVars => freed' = freed
    BY Zenon DEF writeVars
  <2> QED BY <2>1, <2>2, <2>3, <2>4, <2>5, <2>6, Zenon DEF WriteOnceNext
<1>1. WireRight /\ WritersOK(wr) /\ MessageKept
  BY <1>0 DEF WireInv, WireRight
<1>2. ASSUME WritersOK(wr'), UNCHANGED <<message, pub>>
      PROVE  WireRight'
  <2>1. MessageKept'
    BY <1>1, <1>2 DEF MessageKept
  <2>2. WritersOK(wr)'
    BY <1>2 DEF WritersOK
  <2> QED BY <2>1, <2>2 DEF WireRight
<1>3. \A room \in Rooms : room \in Nat \cup {-1}
  BY WireAssumption
<1>4. CASE \E c \in Conns, room \in Rooms : pub[c].mask = NoMask /\ PublishBytes(c, room)
  BY <1>1, <1>4, PublishStep
<1>5. CASE \E c \in Conns, p \in ShortPackets, room \in Rooms : PacketBytes(c, p, room)
  <2>1. PICK c \in Conns, p \in ShortPackets, room \in Rooms : PacketBytes(c, p, room)
    BY <1>5
  <2> DEFINE bufs == <<p.body>>
             r == WebSocket_putdatas(wr, c, p.head, bufs, NoMask, room)
  <2>2. c \notin wr.closed /\ wr' = Sent(wr, c, r, p.head \o p.body) /\ UNCHANGED <<message, pub>>
    BY <2>1 DEF PacketBytes
  <2>3. p.head \in Bytes /\ p.body \in Bytes /\ p.body \in Ints
    BY WireAssumption, BytesAreInts
  <2>4. bufs \in Seq(Bytes)
    <3> HIDE DEF Bytes
    <3> QED BY <2>3
  <2>5. Flatten(bufs) = p.body
    <3>1. <<>> \in Seq(Ints) /\ bufs = Append(<<>>, p.body)
      OBVIOUS
    <3>2. Flatten(Append(<<>>, p.body)) = Flatten(<<>>) \o p.body
      BY <2>3, <3>1, OneMore
    <3>3. <<>> \o p.body = p.body
      BY <2>3 DEF Ints
    <3> QED BY <3>1, <3>2, <3>3, FlattenEmpty
  <2> HIDE DEF bufs
  <2>6. WritersOK(Sent(wr, c, r, p.head \o Flatten(bufs)))
    BY <1>1, <1>3, <2>2, <2>3, <2>4, PacketWritten
  <2>7. WritersOK(wr')
    BY <2>2, <2>5, <2>6
  <2> QED BY <1>2, <2>2, <2>7
<1>6. CASE \E c \in Conns, room \in Rooms : CloseBytes(c, room)
  <2>1. PICK c \in Conns, room \in Rooms : CloseBytes(c, room)
    BY <1>6
  <2>2. WritersOK(CloseWritten(wr, c, room))
    BY <1>1, <1>3, <2>1, CloseIsWritten DEF CloseBytes
  <2>3. WritersOK(wr')
    BY <2>1, <2>2 DEF CloseBytes
  <2> QED BY <1>2, <2>1, <2>3 DEF CloseBytes
<1>7. CASE \E c \in Conns, payloads \in Seq(Bytes), used \in BOOLEAN, fails \in BOOLEAN :
             \E rooms \in [DOMAIN payloads -> Rooms] : AnswerBytes(c, payloads, rooms, used, fails)
  <2>1. PICK c \in Conns, payloads \in Seq(Bytes), used \in BOOLEAN, fails \in BOOLEAN :
          \E rooms \in [DOMAIN payloads -> Rooms] : AnswerBytes(c, payloads, rooms, used, fails)
    BY <1>7
  <2>2. PICK rooms \in [DOMAIN payloads -> Rooms] : AnswerBytes(c, payloads, rooms, used, fails)
    BY <2>1
  <2> DEFINE w == Ponged(wr, c, payloads, rooms)
  <2>3. /\ c \notin wr.closed /\ (c \notin WebSockets => payloads = <<>>)
        /\ wr' = IF fails THEN WritesClosed(w, c) ELSE w
        /\ UNCHANGED <<message, pub>>
    BY <2>2 DEF AnswerBytes
  <2>4. rooms \in [DOMAIN payloads -> Nat \cup {-1}]
    BY <1>3
  <2>5. WritersOK(w)
    BY <1>1, <2>3, <2>4, PongsWritten
  <2> HIDE DEF w
  <2>6. WritersOK(WritesClosed(w, c))
    BY <2>5, WriterCloses
  <2>7. WritersOK(wr')
    BY <2>3, <2>5, <2>6
  <2> QED BY <1>2, <2>3, <2>7
<1>8. CASE \E pwset \in SUBSET Conns : \E room \in [pwset -> Rooms] : ContinueBytes(pwset, room)
  <2>1. PICK pwset \in SUBSET Conns : \E room \in [pwset -> Rooms] : ContinueBytes(pwset, room)
    BY <1>8
  <2>2. PICK room \in [pwset -> Rooms] : ContinueBytes(pwset, room)
    BY <2>1
  <2>3. room \in [pwset -> Nat \cup {-1}]
    BY <1>3
  <2>4. WritersOK(Socket_continueWrites(wr, pwset, room).w)
    BY <1>1, <2>3, ContinuedAll
  <2>5. WritersOK(wr')
    BY <2>2, <2>4 DEF ContinueBytes
  <2> QED BY <1>2, <2>2, <2>5 DEF ContinueBytes
<1>9. CASE UNCHANGED writeVars
  <2>1. wr' = wr /\ UNCHANGED <<message, pub>>
    BY <1>9 DEF writeVars
  <2>2. WritersOK(wr')
    BY <1>1, <2>1
  <2> QED BY <1>2, <2>1, <2>2
<1> QED BY <1>4, <1>5, <1>6, <1>7, <1>8, <1>9 DEF WriteOnceNext

\* What is on the wire is what the server sees.
LEMMA WireIsRead == WireInv => WrittenAsSent
<1> SUFFICES ASSUME WireRight, NEW c \in Conns
             PROVE  LET bytes == wr.out[c]
                        taken == wr.accepted[c]
                    IN /\ \A i \in DOMAIN taken :
                            Len(bytes) >= EndOf(c, taken[i]) =>
                              ServerSees(c, SubSeq(bytes, taken[i].at + 1, EndOf(c, taken[i])))
                                = [op |-> taken[i].op, bytes |-> taken[i].bytes]
                       /\ Len(bytes) <= Total(c, taken)
                       /\ c \notin wr.broken \cup wr.closed /\ Socket_noPendingWrites(wr, c) => Len(bytes) = Total(c, taken)
  BY DEF WrittenAsSent, WireInv
<1> DEFINE out == wr.out[c]
           acc == wr.accepted[c]
<1>1. ConnOK(wr, c)
  BY DEF WireRight, WritersOK
<1>2. OnWire(c, out, acc) /\ (Idle(wr, c) => Len(out) = Total(c, acc))
  BY <1>1 DEF ConnOK
<1>3. c \notin wr.broken \cup wr.closed /\ Socket_noPendingWrites(wr, c) => Len(out) = Total(c, acc)
  BY <1>2 DEF Idle, Socket_noPendingWrites
<1> HIDE DEF out, acc
<1>4. /\ out \in Ints /\ acc \in Seq(TakenBy(c)) /\ Len(out) <= Total(c, acc)
      /\ \A i \in 1..Len(acc) : \A k \in 1..WireLen(c, acc[i]) :
           acc[i].at + k <= Len(out) => out[acc[i].at + k] = Frame(c, acc[i])[k]
  BY <1>2 DEF OnWire
<1>5. DOMAIN acc = 1..Len(acc)
  BY <1>4
<1>6. ASSUME NEW i \in 1..Len(acc), Len(out) >= EndOf(c, acc[i])
      PROVE  ServerSees(c, SubSeq(out, acc[i].at + 1, EndOf(c, acc[i]))) = [op |-> acc[i].op, bytes |-> acc[i].bytes]
  <2>1. PICK a \in TakenBy(c) : a = acc[i]
    BY <1>4, TakenIs
  <2>2. a \in Taken /\ a.at \in Nat /\ WireLen(c, a) \in Nat /\ EndOf(c, a) = a.at + WireLen(c, a)
    BY <1>4, <2>1, TakenIs
  <2>3. Frame(c, a) \in Ints /\ Len(Frame(c, a)) = WireLen(c, a)
    BY <2>2, FrameIs
  <2> DEFINE m == a.at
             e == EndOf(c, a)
             s == SubSeq(out, m + 1, e)
             F == Frame(c, a)
             l == WireLen(c, a)
  <2>4. m \in Nat /\ e \in Nat /\ m <= e /\ e - m = l /\ e <= Len(out) /\ l \in Nat /\ e = m + l /\ Len(out) \in Nat
    <3>1. Len(out) \in Nat
      BY <1>4, ConcatIs
    <3> QED BY <1>6, <2>1, <2>2, <3>1
  <2>5. \A k \in 1..l : m + k <= Len(out) => out[m + k] = F[k]
    BY <1>4, <2>1
  <2> HIDE DEF m, e, F, l
  <2>6. s \in Ints /\ Len(s) = e - m /\ \A k \in 1 .. e - m : s[k] = out[m + k]
    BY <1>4, <2>4, PartIs
  <2> HIDE DEF s
  <2>7. ASSUME NEW k \in 1..Len(s)
        PROVE  s[k] = F[k]
    <3>1. k \in 1..l /\ k \in 1 .. e - m /\ m + k <= Len(out)
      BY <2>4, <2>6
    <3> QED BY <2>5, <2>6, <3>1
  <2>8. s = F
    <3>1. F \in Ints /\ Len(s) = Len(F)
      BY <2>3, <2>4, <2>6 DEF F, l
    <3> QED BY <2>6, <2>7, <3>1, SameBytes
  <2>9. ServerSees(c, Frame(c, a)) = [op |-> a.op, bytes |-> a.bytes]
    BY SeesFrame
  <2>10. ServerSees(c, s) = [op |-> a.op, bytes |-> a.bytes]
    BY <2>8, <2>9 DEF F
  <2> QED BY <2>1, <2>10 DEF s, m, e
<1> QED BY <1>3, <1>4, <1>5, <1>6 DEF out, acc

\* Every packet that is on a wire from its first to its last byte is read as
\* it was sent, in order and none inside another, and nothing is left
\* unwritten without a pending write: whatever part of each write the system
\* takes, in which buffer it stops, and whatever pings, other packets and
\* closes come between, as long as a message whose masked buffers a pending
\* write still uses is not published again, and until a PONG or a CLOSE frame
\* is written in part, whose buffers are freed at once (Socket_putdatas and
\* Socket_continueWrites, Socket.c:512-575, 871-947, WebSocket_buildFrame,
\* WebSocket_close, WebSocket_pong and WebSocket_putdatas,
\* WebSocket.c:238-371, 524-575, 892-919, 941-979).
THEOREM WritesAreWhole == WriteOnceSpec => []WrittenAsSent
BY WireInitially, WireStep, WireIsRead, PTL DEF WriteOnceSpec
=============================================================================
