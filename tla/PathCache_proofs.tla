------------------------- MODULE PathCache_proofs -------------------------
(***************************************************************************)
(* Proofs about PathCache, for any paths of any size, any cache and any    *)
(* number of worker threads.                                               *)
(***************************************************************************)
EXTENDS PathCache, TLAPS, FiniteSetTheorems, SequenceTheorems, WellFoundedInduction

-----------------------------------------------------------------------------
(* Lists and numbers *)

\* Induction, for a set instead of a predicate.
LEMMA AllNaturals ==
  ASSUME NEW S \in SUBSET Nat, 0 \in S, \A n \in S : n + 1 \in S
  PROVE  S = Nat
<1> DEFINE T == Nat \ S
<1> SUFFICES ASSUME T # {} PROVE FALSE
  OBVIOUS
<1>1. PICK x \in T : \A y \in T : ~ (<<y, x>> \in OpToRel(<, Nat))
  <2>1. T \subseteq Nat
    OBVIOUS
  <2> HIDE DEF T
  <2> QED BY <2>1, NatLessThanWellFounded, WFMin, Zenon
<1>2. \A y \in T : ~(y < x)
  BY <1>1 DEF OpToRel
<1>3. x # 0 /\ x - 1 \in Nat /\ x - 1 < x
  OBVIOUS
<1>4. x - 1 \in S
  BY <1>2, <1>3
<1>5. (x - 1) + 1 \in S
  BY <1>4
<1> QED BY <1>5, <1>3

\* What taking an element out of a list leaves.
LEMMA Removed ==
  ASSUME NEW S, NEW q \in Seq(S), NEW i \in 1 .. Len(q)
  PROVE  /\ RemoveAt(q, i) \in Seq(S)
         /\ Len(RemoveAt(q, i)) = Len(q) - 1
         /\ \A j \in 1 .. Len(q) - 1 :
              RemoveAt(q, i)[j] = q[IF j < i THEN j ELSE j + 1]
<1> DEFINE a == SubSeq(q, 1, i - 1)
           b == SubSeq(q, i + 1, Len(q))
<1>1. Len(q) \in Nat /\ \A j \in 1 .. Len(q) : q[j] \in S
  BY LenProperties, ElementOfSeq
<1>2. /\ a \in Seq(S) /\ Len(a) = i - 1
      /\ \A j \in 1 .. i - 1 : a[j] = q[j]
  <2>1. \A j \in 1 .. i - 1 : q[j] \in S
    BY <1>1
  <2>2. 1 \in Int /\ i - 1 \in Int
    BY <1>1
  <2>3. /\ a \in Seq(S) /\ Len(a) = IF 1 <= i - 1 THEN (i - 1) - 1 + 1 ELSE 0
        /\ \A j \in 1 .. (i - 1) - 1 + 1 : a[j] = q[1 + j - 1]
    BY <2>1, <2>2, SubSeqProperties
  <2> HIDE DEF a
  <2> QED BY <1>1, <2>3
<1>3. /\ b \in Seq(S) /\ Len(b) = Len(q) - i
      /\ \A j \in 1 .. Len(q) - i : b[j] = q[i + j]
  <2>1. \A j \in i + 1 .. Len(q) : q[j] \in S
    BY <1>1
  <2>2. i + 1 \in Int /\ Len(q) \in Int
    BY <1>1
  <2>3. /\ b \in Seq(S)
        /\ Len(b) = IF i + 1 <= Len(q) THEN Len(q) - (i + 1) + 1 ELSE 0
        /\ \A j \in 1 .. Len(q) - (i + 1) + 1 : b[j] = q[(i + 1) + j - 1]
    BY <2>1, <2>2, SubSeqProperties
  <2> HIDE DEF b
  <2> QED BY <1>1, <2>3
<1> HIDE DEF a, b
<1>4. /\ a \o b \in Seq(S) /\ Len(a \o b) = Len(a) + Len(b)
      /\ \A j \in 1 .. Len(a) + Len(b) :
           (a \o b)[j] = IF j <= Len(a) THEN a[j] ELSE b[j - Len(a)]
  BY <1>2, <1>3, ConcatProperties
<1> DEFINE r == a \o b
<1>5. RemoveAt(q, i) = r
  BY DEF RemoveAt, a, b
<1> HIDE DEF r
<1>6. /\ r \in Seq(S) /\ Len(r) = Len(q) - 1
      /\ \A j \in 1 .. Len(q) - 1 : r[j] = q[IF j < i THEN j ELSE j + 1]
  <2>1. r \in Seq(S) /\ Len(r) = Len(q) - 1
    BY <1>1, <1>2, <1>3, <1>4 DEF r
  <2>2. ASSUME NEW j \in 1 .. Len(q) - 1
        PROVE  r[j] = q[IF j < i THEN j ELSE j + 1]
    <3>1. r[j] = IF j <= i - 1 THEN a[j] ELSE b[j - (i - 1)]
      BY <1>1, <1>2, <1>3, <1>4 DEF r
    <3>2. CASE j < i
      BY <1>1, <1>2, <3>1, <3>2
    <3>3. CASE ~(j < i)
      <4>1. j - (i - 1) \in 1 .. Len(q) - i /\ i + (j - (i - 1)) = j + 1
        BY <1>1, <3>3
      <4>2. r[j] = b[j - (i - 1)]
        BY <1>1, <3>1, <3>3
      <4> QED BY <1>3, <3>3, <4>1, <4>2
    <3> QED BY <3>2, <3>3
  <2> QED BY <2>1, <2>2
<1> QED BY <1>5, <1>6

\* Adding an element to a list.
LEMMA Appended ==
  ASSUME NEW S, NEW q \in Seq(S), NEW e \in S
  PROVE  /\ Len(q) \in Nat
         /\ Append(q, e) \in Seq(S) /\ Len(Append(q, e)) = Len(q) + 1
         /\ Append(q, e)[Len(q) + 1] = e
         /\ \A j \in 1 .. Len(q) : Append(q, e)[j] = q[j]
<1>1. Len(q) \in Nat
  BY LenProperties
<1> QED BY <1>1, AppendProperties

\* Putting an element first.
LEMMA Preceded ==
  ASSUME NEW S, NEW q \in Seq(S), NEW e \in S, NEW r, r = <<e>> \o q
  PROVE  /\ r \in Seq(S) /\ Len(r) = Len(q) + 1 /\ r[1] = e
         /\ \A j \in 1 .. Len(q) : r[j + 1] = q[j]
<1> DEFINE a == <<e>>
<1>1. a \in Seq(S) /\ Len(a) = 1 /\ a[1] = e
  OBVIOUS
<1>2. r = a \o q
  OBVIOUS
<1> HIDE DEF a
<1>3. Len(q) \in Nat
  BY LenProperties
<1>4. /\ r \in Seq(S) /\ Len(r) = Len(a) + Len(q)
      /\ \A i \in 1 .. Len(a) + Len(q) :
           r[i] = IF i <= Len(a) THEN a[i] ELSE q[i - Len(a)]
  BY <1>1, <1>2, ConcatProperties
<1>5. r[1] = e
  BY <1>1, <1>3, <1>4
<1>6. ASSUME NEW j \in 1 .. Len(q) PROVE r[j + 1] = q[j]
  <2>1. j + 1 \in 1 .. Len(a) + Len(q) /\ ~(j + 1 <= Len(a)) /\ (j + 1) - Len(a) = j
    BY <1>1, <1>3
  <2>2. r[j + 1] = q[(j + 1) - Len(a)]
    BY <1>4, <2>1
  <2> QED BY <2>1, <2>2
<1> QED BY <1>1, <1>3, <1>4, <1>5, <1>6

\* A list of the elements of a finite set has each of them once.
LEMMA Listed ==
  ASSUME NEW S, IsFiniteSet(S), NEW q, q = SetToSeq(S)
  PROVE  /\ q \in Seq(S)
         /\ \A i, j \in 1 .. Len(q) : q[i] = q[j] => i = j
<1> DEFINE n == Cardinality(S)
<1>1. n \in Nat /\ ExistsBijection(1 .. n, S)
  BY FS_CardinalityType
<1>2. \E f \in [1 .. n -> S] : IsInjective(f)
  BY <1>1 DEF ExistsBijection, Bijection, Injection, IsInjective
<1>3. q \in [1 .. n -> S] /\ IsInjective(q)
  BY <1>2 DEF SetToSeq
<1> HIDE DEF n
<1>4. q \in Seq(S)
  BY <1>1, <1>3, SeqDef
<1>5. DOMAIN q = 1 .. Len(q)
  BY <1>4, LenProperties
<1> QED BY <1>3, <1>4, <1>5 DEF IsInjective

-----------------------------------------------------------------------------
(* Textures *)

Texture == [path: Path, size: Nat, generation: Nat, hasTask: BOOLEAN, freed: BOOLEAN]

\* What a texture counts.
LEMMA CountedRange == \A t \in Texture : Counted(t) \in Nat
BY DEF Texture, Counted

\* f adds up the textures of q.
Adds(f, q) ==
  /\ f \in [0 .. Len(q) -> Int] /\ f[0] = 0
  /\ \A n \in 1 .. Len(q) : f[n] = f[n - 1] + Counted(q[n])

\* There is a function that adds them up,
LEMMA TotalExists ==
  ASSUME NEW q \in Seq(Texture)
  PROVE  \E f : Adds(f, q) /\ TotalSize(q) = f[Len(q)]
<1> DEFINE N == Len(q)
           Loop(f, k) == [n \in 0 .. k |-> IF n = 0 THEN 0 ELSE f[n - 1] + Counted(q[n])]
           total == CHOOSE f : f = Loop(f, N)
           S == {k \in Nat : \E f : f = Loop(f, k)}
           G == {k \in Nat : k <= N => total[k] \in Int}
<1>1. TotalSize(q) = total[N]
  BY Zenon DEF TotalSize
<1>2. N \in Nat /\ \A n \in 1 .. N : Counted(q[n]) \in Int
  <2>1. N \in Nat /\ \A n \in 1 .. N : q[n] \in Texture
    BY LenProperties, ElementOfSeq
  <2> QED BY <2>1, CountedRange
<1>3. 0 \in S
  <2>1. [n \in 0 .. 0 |-> 0] = Loop([n \in 0 .. 0 |-> 0], 0)
    OBVIOUS
  <2> QED BY <2>1
<1>4. ASSUME NEW k \in S PROVE k + 1 \in S
  <2>1. PICK f : f = Loop(f, k)
    OBVIOUS
  <2> DEFINE g == Loop(f, k + 1)
  <2>2. ASSUME NEW n \in 0 .. k PROVE g[n] = f[n]
    <3>1. n \in 0 .. k + 1
      OBVIOUS
    <3>2. f[n] = Loop(f, k)[n]
      BY <2>1
    <3> QED BY <3>1, <3>2
  <2>3. g = Loop(g, k + 1)
    <3>1. \A n \in 0 .. k + 1 : n = 0 \/ n - 1 \in 0 .. k
      OBVIOUS
    <3>2. \A n \in 0 .. k + 1 : n = 0 \/ g[n - 1] = f[n - 1]
      BY <2>2, <3>1
    <3> QED BY <3>2
  <2> HIDE DEF g
  <2>4. \E x : x = Loop(x, k + 1)
    BY <2>3
  <2>5. k + 1 \in Nat
    OBVIOUS
  <2> HIDE DEF Loop
  <2> QED BY <2>4, <2>5
<1>5. \E f : f = Loop(f, N)
  <2>1. S = Nat
    <3> HIDE DEF S
    <3>1. S \in SUBSET Nat
      BY DEF S
    <3> QED BY <1>3, <1>4, <3>1, AllNaturals
  <2>2. N \in S
    <3> HIDE DEF S, N
    <3> QED BY <1>2, <2>1
  <2> HIDE DEF N
  <2> QED BY <2>2
<1>6. total = Loop(total, N)
  <2> HIDE DEF Loop
  <2> QED BY <1>5
<1> HIDE DEF total
<1>7. DOMAIN total = 0 .. N /\ total[0] = 0
  BY <1>2, <1>6
<1>8. \A n \in 1 .. N : total[n] = total[n - 1] + Counted(q[n])
  BY <1>2, <1>6
<1>9. 0 \in G
  BY <1>7
<1>10. ASSUME NEW k \in G PROVE k + 1 \in G
  <2> SUFFICES ASSUME k + 1 <= N PROVE total[k + 1] \in Int
    OBVIOUS
  <2>1. k \in Nat /\ total[k] \in Int /\ k + 1 \in 1 .. N /\ (k + 1) - 1 = k
    BY <1>2
  <2>2. total[k + 1] = total[k] + Counted(q[k + 1])
    BY <1>8, <2>1
  <2> HIDE DEF N
  <2> QED BY <1>2, <2>1, <2>2
<1>11. G = Nat
  <2> HIDE DEF G
  <2>1. G \in SUBSET Nat
    BY DEF G
  <2> QED BY <1>9, <1>10, <2>1, AllNaturals
<1>12. \A n \in 0 .. N : total[n] \in Int
  BY <1>2, <1>11
<1>13. total \in [0 .. N -> Int]
  <2>1. total = [n \in 0 .. N |-> total[n]]
    BY <1>6, <1>7
  <2> QED BY <1>12, <2>1
<1>14. Adds(total, q)
  BY <1>7, <1>8, <1>13 DEF Adds
<1> QED BY <1>1, <1>14

\* and every function that does has the same result.
LEMMA TotalIs ==
  ASSUME NEW q \in Seq(Texture), NEW g, Adds(g, q)
  PROVE  TotalSize(q) = g[Len(q)]
<1>1. PICK f : Adds(f, q) /\ TotalSize(q) = f[Len(q)]
  BY TotalExists
<1>2. Len(q) \in Nat
  BY LenProperties
<1> DEFINE G == {k \in Nat : k <= Len(q) => f[k] = g[k]}
<1>3. 0 \in G
  BY <1>1 DEF Adds
<1>4. ASSUME NEW k \in G PROVE k + 1 \in G
  <2> SUFFICES ASSUME k + 1 <= Len(q) PROVE f[k + 1] = g[k + 1]
    OBVIOUS
  <2>1. k + 1 \in 1 .. Len(q) /\ (k + 1) - 1 = k /\ f[k] = g[k]
    BY <1>2
  <2> QED BY <1>1, <2>1 DEF Adds
<1>5. G = Nat
  <2> HIDE DEF G
  <2>1. G \in SUBSET Nat
    BY DEF G
  <2> QED BY <1>3, <1>4, <2>1, AllNaturals
<1> QED BY <1>1, <1>2, <1>5

\* The total is a number.
LEMMA TotalRange == \A q \in Seq(Texture) : TotalSize(q) \in Int
<1> TAKE q \in Seq(Texture)
<1>1. PICK f : Adds(f, q) /\ TotalSize(q) = f[Len(q)]
  BY TotalExists
<1>2. Len(q) \in Nat
  BY LenProperties
<1> QED BY <1>1, <1>2 DEF Adds

\* A texture that is added counts.
LEMMA TotalAppended ==
  ASSUME NEW q \in Seq(Texture), NEW t \in Texture
  PROVE  TotalSize(Append(q, t)) = TotalSize(q) + Counted(t)
<1> DEFINE r == Append(q, t)
           N == Len(q)
<1>1. /\ N \in Nat /\ r \in Seq(Texture) /\ Len(r) = N + 1
      /\ r[N + 1] = t /\ \A j \in 1 .. N : r[j] = q[j]
  BY Appended
<1> HIDE DEF r
<1>2. PICK f : Adds(f, r) /\ TotalSize(r) = f[Len(r)]
  BY <1>1, TotalExists
<1> DEFINE g == [n \in 0 .. N |-> f[n]]
<1>3. Adds(g, q)
  <2>1. g \in [0 .. N -> Int] /\ g[0] = 0
    BY <1>1, <1>2 DEF Adds
  <2>2. ASSUME NEW n \in 1 .. N PROVE g[n] = g[n - 1] + Counted(q[n])
    <3>1. n \in 1 .. Len(r) /\ n \in 0 .. N /\ n - 1 \in 0 .. N /\ r[n] = q[n]
      BY <1>1
    <3> HIDE DEF N
    <3> QED BY <1>2, <3>1 DEF Adds
  <2> HIDE DEF g
  <2> QED BY <2>1, <2>2 DEF Adds
<1>4. TotalSize(q) = f[N]
  <2>1. TotalSize(q) = g[N]
    <3> HIDE DEF g
    <3> QED BY <1>3, TotalIs
  <2> QED BY <1>1, <2>1
<1>5. f[N + 1] = f[N] + Counted(t)
  <2>1. N + 1 \in 1 .. Len(r) /\ (N + 1) - 1 = N
    BY <1>1
  <2> QED BY <1>1, <1>2, <2>1 DEF Adds
<1> QED BY <1>1, <1>2, <1>4, <1>5 DEF r

\* One that is taken out counts no more.
LEMMA TotalRemoved ==
  ASSUME NEW q \in Seq(Texture), NEW i \in 1 .. Len(q)
  PROVE  TotalSize(RemoveAt(q, i)) = TotalSize(q) - Counted(q[i])
<1> DEFINE r == RemoveAt(q, i)
           N == Len(q)
           c == Counted(q[i])
<1>1. /\ r \in Seq(Texture) /\ Len(r) = N - 1
      /\ \A j \in 1 .. N - 1 : r[j] = q[IF j < i THEN j ELSE j + 1]
  BY Removed
<1> HIDE DEF r
<1>2. PICK f : Adds(f, q) /\ TotalSize(q) = f[N]
  BY TotalExists
<1>3. /\ N \in Nat \ {0} /\ i \in 1 .. N
      /\ \A n \in 1 .. N : Counted(q[n]) \in Int
      /\ \A n \in 0 .. N : f[n] \in Int
      /\ \A n \in 1 .. N : f[n] = f[n - 1] + Counted(q[n])
  <2>1. N \in Nat /\ \A n \in 1 .. N : q[n] \in Texture
    BY LenProperties, ElementOfSeq
  <2>2. \A n \in 0 .. N : f[n] \in Int
    BY <1>2, <2>1 DEF Adds
  <2>3. \A n \in 1 .. N : f[n] = f[n - 1] + Counted(q[n])
    BY <1>2 DEF Adds
  <2>4. \A n \in 1 .. N : Counted(q[n]) \in Int
    BY <2>1, CountedRange
  <2>5. N \in Nat \ {0}
    BY <2>1
  <2> HIDE DEF N
  <2> QED BY <2>2, <2>3, <2>4, <2>5 DEF N
<1>4. c \in Int
  BY <1>3
<1>5. f[0] = 0
  BY <1>2 DEF Adds
<1> HIDE DEF N, c
<1> DEFINE g == [n \in 0 .. N - 1 |-> IF n < i THEN f[n] ELSE f[n + 1] - c]
<1>6. \A n \in 0 .. N - 1 : g[n] = IF n < i THEN f[n] ELSE f[n + 1] - c
  OBVIOUS
<1>7. g \in [0 .. N - 1 -> Int] /\ g[0] = 0
  <2>1. \A n \in 0 .. N - 1 : (IF n < i THEN f[n] ELSE f[n + 1] - c) \in Int
    <3> TAKE n \in 0 .. N - 1
    <3>1. n \in 0 .. N /\ n + 1 \in 0 .. N
      BY <1>3
    <3>2. f[n] \in Int /\ f[n + 1] \in Int
      BY <1>3, <3>1
    <3> QED BY <1>4, <3>2
  <2>2. 0 \in 0 .. N - 1 /\ 0 < i
    BY <1>3
  <2> QED BY <1>5, <2>1, <2>2
<1> HIDE DEF g
<1>8. ASSUME NEW n \in 1 .. N - 1 PROVE g[n] = g[n - 1] + Counted(r[n])
  <2>0. n \in 0 .. N - 1 /\ n - 1 \in 0 .. N - 1 /\ n \in 1 .. N /\ n + 1 \in 1 .. N
        /\ (n + 1) - 1 = n /\ (n - 1) + 1 = n
    BY <1>3
  <2>a. /\ r[n] = q[IF n < i THEN n ELSE n + 1]
        /\ g[n] = IF n < i THEN f[n] ELSE f[n + 1] - c
        /\ g[n - 1] = IF n - 1 < i THEN f[n - 1] ELSE f[(n - 1) + 1] - c
    BY <1>1, <1>6, <2>0
  <2>b. n \in Int /\ i \in Int /\ (n - 1 < i <=> n <= i)
    BY <1>3
  <2>1. CASE n < i
    <3>1. r[n] = q[n] /\ g[n] = f[n] /\ g[n - 1] = f[n - 1]
      BY <2>a, <2>b, <2>1
    <3> QED BY <1>3, <2>0, <3>1
  <2>2. CASE n = i
    <3>1. r[n] = q[n + 1] /\ g[n] = f[n + 1] - c /\ g[n - 1] = f[n - 1]
      BY <2>a, <2>b, <2>2
    <3>2. f[n + 1] = f[n] + Counted(q[n + 1]) /\ f[n] = f[n - 1] + c
      BY <1>3, <2>0, <2>2 DEF c
    <3>3. f[n - 1] \in Int /\ Counted(q[n + 1]) \in Int
      BY <1>3, <2>0
    <3> QED BY <1>4, <3>1, <3>2, <3>3
  <2>3. CASE n > i
    <3>1. r[n] = q[n + 1] /\ g[n] = f[n + 1] - c /\ g[n - 1] = f[n] - c
      BY <2>0, <2>a, <2>b, <2>3
    <3>2. f[n + 1] = f[n] + Counted(q[n + 1])
      BY <1>3, <2>0
    <3>3. f[n] \in Int /\ Counted(q[n + 1]) \in Int
      BY <1>3, <2>0
    <3> QED BY <1>4, <3>1, <3>2, <3>3
  <2> QED BY <1>3, <2>1, <2>2, <2>3
<1>9. Adds(g, r)
  BY <1>1, <1>7, <1>8 DEF Adds
<1>10. TotalSize(r) = g[N - 1]
  BY <1>1, <1>9, TotalIs
<1>11. g[N - 1] = f[N] - c
  <2>1. CASE N = i
    <3>1. g[N - 1] = f[N - 1] /\ f[N] = f[N - 1] + c /\ f[N - 1] \in Int
      BY <1>3, <1>6, <2>1 DEF c
    <3> QED BY <1>4, <3>1
  <2>2. CASE N > i
    BY <1>3, <1>6, <2>2
  <2> QED BY <1>3, <2>1, <2>2
<1> QED BY <1>2, <1>10, <1>11 DEF r, c

-----------------------------------------------------------------------------
(* The cache *)

\* The paths of the textures of q, and those of textures that have a task.
PathsOf(q) == {q[i].path : i \in 1 .. Len(q)}
TaskPaths(q) == {q[i].path : i \in {j \in 1 .. Len(q) : q[j].hasTask}}
Unique(q) == \A i, j \in 1 .. Len(q) : q[i].path = q[j].path => i = j

\* What a texture of a list is made of.
LEMMA TextureTypes ==
  ASSUME NEW q \in Seq(Texture)
  PROVE  /\ Len(q) \in Nat
         /\ \A i \in 1 .. Len(q) :
              /\ q[i] \in Texture /\ q[i].path \in Path /\ q[i].size \in Nat
              /\ q[i].hasTask \in BOOLEAN /\ Counted(q[i]) \in Nat
<1>1. Len(q) \in Nat /\ \A i \in 1 .. Len(q) : q[i] \in Texture
  BY LenProperties, ElementOfSeq
<1> QED BY <1>1, CountedRange DEF Texture

\* A cache without the texture of a path.
LEMMA TakenOut ==
  ASSUME NEW q \in Seq(Texture), Unique(q), NEW i \in 1 .. Len(q),
         NEW r, r = RemoveAt(q, i)
  PROVE  /\ r \in Seq(Texture) /\ Unique(r)
         /\ PathsOf(r) = PathsOf(q) \ {q[i].path}
         /\ TaskPaths(r) = TaskPaths(q) \ {q[i].path}
         /\ TotalSize(r) = TotalSize(q) - Counted(q[i])
<1> DEFINE at(j) == IF j < i THEN j ELSE j + 1
           p == q[i].path
<1>1. /\ r \in Seq(Texture) /\ Len(r) = Len(q) - 1
      /\ \A j \in 1 .. Len(q) - 1 : r[j] = q[at(j)]
  BY Removed
<1>2. Len(q) \in Nat
  BY TextureTypes
<1>3. \A j \in 1 .. Len(q) - 1 : at(j) \in (1 .. Len(q)) \ {i}
  BY <1>2
<1>4. \A j, k \in 1 .. Len(q) - 1 : at(j) = at(k) => j = k
  BY <1>2
<1>5. \A k \in (1 .. Len(q)) \ {i} : \E j \in 1 .. Len(q) - 1 : at(j) = k
  <2> TAKE k \in (1 .. Len(q)) \ {i}
  <2>1. CASE k < i
    BY <1>2, <2>1
  <2>2. CASE k > i
    <3>1. k - 1 \in 1 .. Len(q) - 1 /\ at(k - 1) = k
      BY <1>2, <2>2
    <3> HIDE DEF at
    <3> QED BY <3>1
  <2> QED BY <1>2, <2>1, <2>2
<1> HIDE DEF at
<1>6. Unique(r)
  BY <1>1, <1>3, <1>4 DEF Unique
<1>7. \A j \in 1 .. Len(r) :
        r[j].path \in PathsOf(q) \ {p} /\ (r[j].hasTask => r[j].path \in TaskPaths(q) \ {p})
  <2> TAKE j \in 1 .. Len(r)
  <2>1. at(j) \in 1 .. Len(q) /\ at(j) # i /\ r[j] = q[at(j)]
    BY <1>1, <1>3
  <2> QED BY <2>1 DEF PathsOf, TaskPaths, Unique
<1>8. \A k \in 1 .. Len(q) :
        q[k].path # p =>
          q[k].path \in PathsOf(r) /\ (q[k].hasTask => q[k].path \in TaskPaths(r))
  <2> SUFFICES ASSUME NEW k \in 1 .. Len(q), q[k].path # p
               PROVE  /\ q[k].path \in PathsOf(r)
                      /\ q[k].hasTask => q[k].path \in TaskPaths(r)
    OBVIOUS
  <2>1. PICK j \in 1 .. Len(q) - 1 : at(j) = k
    BY <1>5
  <2>2. j \in 1 .. Len(r) /\ r[j] = q[k]
    BY <1>1, <2>1
  <2> QED BY <2>2 DEF PathsOf, TaskPaths
<1>9. PathsOf(r) = PathsOf(q) \ {p}
  BY <1>7, <1>8 DEF PathsOf
<1>10. TaskPaths(r) = TaskPaths(q) \ {p}
  BY <1>7, <1>8 DEF TaskPaths
<1>11. TotalSize(r) = TotalSize(q) - Counted(q[i])
  BY TotalRemoved
<1> QED BY <1>1, <1>6, <1>9, <1>10, <1>11

\* A cache with a texture for a path that had none.
LEMMA PutIn ==
  ASSUME NEW q \in Seq(Texture), Unique(q), NEW t \in Texture,
         t.path \notin PathsOf(q), NEW r, r = Append(q, t)
  PROVE  /\ r \in Seq(Texture) /\ Unique(r)
         /\ PathsOf(r) = PathsOf(q) \cup {t.path}
         /\ TaskPaths(r) = TaskPaths(q) \cup (IF t.hasTask THEN {t.path} ELSE {})
         /\ TotalSize(r) = TotalSize(q) + Counted(t)
<1>1. /\ Len(q) \in Nat /\ r \in Seq(Texture) /\ Len(r) = Len(q) + 1
      /\ r[Len(q) + 1] = t /\ \A j \in 1 .. Len(q) : r[j] = q[j]
  BY Appended
<1>2. Unique(r)
  BY <1>1 DEF Unique, PathsOf
<1>3. PathsOf(r) = PathsOf(q) \cup {t.path}
  BY <1>1 DEF PathsOf
<1>4. TaskPaths(r) \subseteq TaskPaths(q) \cup (IF t.hasTask THEN {t.path} ELSE {})
  <2> SUFFICES ASSUME NEW j \in 1 .. Len(r), r[j].hasTask
               PROVE  r[j].path \in TaskPaths(q) \cup (IF t.hasTask THEN {t.path} ELSE {})
    BY DEF TaskPaths
  <2>1. CASE j = Len(q) + 1
    BY <1>1, <2>1
  <2>2. CASE j \in 1 .. Len(q)
    BY <1>1, <2>2 DEF TaskPaths
  <2> QED BY <1>1, <2>1, <2>2
<1>5. TaskPaths(q) \subseteq TaskPaths(r)
  BY <1>1 DEF TaskPaths
<1>6. t.hasTask => t.path \in TaskPaths(r)
  BY <1>1 DEF TaskPaths
<1>7. TotalSize(r) = TotalSize(q) + Counted(t)
  BY TotalAppended
<1> QED BY <1>1, <1>2, <1>3, <1>4, <1>5, <1>6, <1>7

\* What a state of the cache is.
CacheOK ==
  /\ pathCache \in Seq(Texture) /\ Unique(pathCache)
  /\ cacheSize = TotalSize(pathCache)
  /\ generation \in [Path -> Nat]
  /\ pathTask \in [Path -> {"none", "new", "queued", "done", "dropped"}]
  /\ \A p \in TaskPaths(pathCache) : pathTask[p] # "none"

\* Looking up a path.
LEMMA LookUp ==
  ASSUME CacheOK, NEW p
  PROVE  /\ InCache(p) <=> p \in PathsOf(pathCache)
         /\ p \in PathsOf(pathCache) =>
              /\ PositionOf(p) \in 1 .. Len(pathCache)
              /\ TextureOf(p) = pathCache[PositionOf(p)]
              /\ TextureOf(p) \in Texture /\ TextureOf(p).path = p
              /\ TextureOf(p).hasTask <=> p \in TaskPaths(pathCache)
<1>1. DOMAIN pathCache = 1 .. Len(pathCache)
  BY LenProperties DEF CacheOK
<1>2. InCache(p) <=> p \in PathsOf(pathCache)
  BY <1>1 DEF InCache, PathsOf
<1>3. ASSUME p \in PathsOf(pathCache)
      PROVE  /\ PositionOf(p) \in 1 .. Len(pathCache)
             /\ pathCache[PositionOf(p)].path = p
  <2>1. \E i \in DOMAIN pathCache : pathCache[i].path = p
    BY <1>1, <1>3 DEF PathsOf
  <2> QED BY <1>1, <2>1 DEF PositionOf
<1>4. ASSUME p \in PathsOf(pathCache)
      PROVE  TextureOf(p).hasTask <=> p \in TaskPaths(pathCache)
  BY <1>3, <1>4 DEF TextureOf, TaskPaths, CacheOK, Unique
<1>5. ASSUME p \in PathsOf(pathCache) PROVE TextureOf(p) \in Texture
  BY <1>3, <1>5, TextureTypes DEF TextureOf, CacheOK
<1> QED BY <1>2, <1>3, <1>4, <1>5 DEF TextureOf

\* A path that is looked up becomes the newest; nothing else changes.
LEMMA TouchedOK ==
  ASSUME CacheOK, NEW p, NEW r, r = Touched(p)
  PROVE  /\ r \in Seq(Texture) /\ Unique(r) /\ TotalSize(r) = TotalSize(pathCache)
         /\ PathsOf(r) = PathsOf(pathCache) /\ TaskPaths(r) = TaskPaths(pathCache)
<1>1. CASE ~InCache(p)
  BY <1>1 DEF Touched, CacheOK
<1>2. CASE InCache(p)
  <2> DEFINE t == TextureOf(p)
             w == Without(p)
  <2>1. /\ PositionOf(p) \in 1 .. Len(pathCache) /\ t = pathCache[PositionOf(p)]
        /\ t \in Texture /\ t.path = p /\ p \in PathsOf(pathCache)
        /\ t.hasTask <=> p \in TaskPaths(pathCache)
    BY <1>2, LookUp
  <2>2. w = RemoveAt(pathCache, PositionOf(p)) /\ r = Append(w, t)
    BY <1>2 DEF Without, Touched
  <2> HIDE DEF t, w
  <2>3. /\ w \in Seq(Texture) /\ Unique(w)
        /\ PathsOf(w) = PathsOf(pathCache) \ {p}
        /\ TaskPaths(w) = TaskPaths(pathCache) \ {p}
        /\ TotalSize(w) = TotalSize(pathCache) - Counted(t)
    BY <2>1, <2>2, TakenOut DEF CacheOK
  <2>4. /\ r \in Seq(Texture) /\ Unique(r)
        /\ PathsOf(r) = PathsOf(w) \cup {p}
        /\ TaskPaths(r) = TaskPaths(w) \cup (IF t.hasTask THEN {p} ELSE {})
        /\ TotalSize(r) = TotalSize(w) + Counted(t)
    <3>1. t.path = p /\ t.path \notin PathsOf(w) /\ t \in Texture
      BY <2>1, <2>3
    <3>2. /\ r \in Seq(Texture) /\ Unique(r)
          /\ PathsOf(r) = PathsOf(w) \cup {t.path}
          /\ TaskPaths(r) = TaskPaths(w) \cup (IF t.hasTask THEN {t.path} ELSE {})
          /\ TotalSize(r) = TotalSize(w) + Counted(t)
      BY <2>2, <2>3, <3>1, PutIn
    <3> QED BY <3>1, <3>2
  <2>5. TotalSize(pathCache) \in Int /\ Counted(t) \in Int
    BY <2>1, CountedRange, TotalRange DEF CacheOK
  <2> QED BY <2>1, <2>3, <2>4, <2>5
<1> QED BY <1>1, <1>2

-----------------------------------------------------------------------------
(* What is left to do *)

Step ==
  {<<k, p>> : k \in {"remove", "put", "start", "upload", "purge", "generate"}, p \in Path}
  \cup {<<"addTask", p, w>> : p \in Path, w \in Worker}
  \cup {<<"exit", w>> : w \in Worker} \cup {<<"trim">>, <<"clear">>}
Fills(step) == step[1] \in {"put", "generate"}
Drops(step) == step[1] \in {"purge", "trim", "clear"}

\* What is to be removed or uploaded is in the cache whose paths are P, T of
\* them with a task, and stays there until then; what is to be put into it is
\* not there, or is removed first.
Plan(q, P, T) ==
  /\ q \in Seq(Step)
  /\ \A i \in 1 .. Len(q) :
       /\ q[i][1] = "remove" => q[i][2] \in P
       /\ q[i][1] = "upload" => q[i][2] \in T /\ Len(q) = 1
       /\ Fills(q[i]) /\ q[i][2] \in P => q[1] = <<"remove", q[i][2]>>
       /\ \A j \in 1 .. Len(q) :
            /\ q[i][1] = "remove" /\ q[j] = q[i] => j = i
            /\ Fills(q[i]) /\ Fills(q[j]) => j = i
            /\ Drops(q[i]) /\ i <= j => q[j][1] # "remove"

CInv == CacheOK /\ Plan(todo, PathsOf(pathCache), TaskPaths(pathCache))

\* The steps of a path have one.
LEMMA StepPath ==
  ASSUME NEW s \in Step,
         s[1] \in {"remove", "put", "start", "upload", "purge", "generate", "addTask"}
  PROVE  s[2] \in Path
BY DEF Step

\* The first step has been done: what is left is a plan for the cache it left.
LEMMA PlanTail ==
  ASSUME NEW q, NEW P, NEW T, Plan(q, P, T), q # <<>>, NEW Q, NEW U,
         \/ Q = P /\ U = T /\ q[1][1] \notin {"remove", "put", "generate"}
         \/ q[1][1] = "remove" /\ Q = P \ {q[1][2]}
         \/ Fills(q[1]) /\ Q \in {P, P \cup {q[1][2]}}
         \/ q[1][1] = "upload"
  PROVE  Plan(Tail(q), Q, U)
<1> DEFINE r == Tail(q)
<1>1. /\ q \in Seq(Step) /\ Len(q) \in Nat \ {0}
      /\ \A i \in 1 .. Len(q) : q[i] \in Step
  BY EmptySeq, LenProperties, ElementOfSeq DEF Plan
<1>2. /\ r \in Seq(Step) /\ Len(r) = Len(q) - 1
      /\ \A i \in 1 .. Len(r) : r[i] = q[i + 1]
  BY <1>1, HeadTailProperties
<1> HIDE DEF r
<1>3. ASSUME NEW i \in 1 .. Len(r)
      PROVE  /\ i + 1 \in 1 .. Len(q) /\ 1 \in 1 .. Len(q) /\ i + 1 # 1
             /\ r[i] = q[i + 1] /\ Len(q) # 1
             /\ q[i + 1][1] # "upload"
  BY <1>1, <1>2 DEF Plan
<1>4. q[1][1] # "upload" \/ Len(r) = 0
  BY <1>1, <1>2 DEF Plan
<1>5. ASSUME NEW i \in 1 .. Len(r)
      PROVE  r[i][1] = "remove" => r[i][2] \in Q
  <2> SUFFICES ASSUME r[i][1] = "remove" PROVE r[i][2] \in Q
    OBVIOUS
  <2>1. r[i] = q[i + 1] /\ r[i][2] \in P /\ q[1][1] # "upload"
    BY <1>3, <1>4 DEF Plan
  <2>2. CASE q[1][1] = "remove"
    <3>1. q[i + 1] # q[1]
      BY <1>3, <2>2 DEF Plan
    <3>2. q[1] = <<"remove", q[1][2]>> /\ q[i + 1] = <<"remove", q[i + 1][2]>>
      BY <1>1, <1>3, <2>1, <2>2 DEF Step
    <3>3. q[1][2] # q[i + 1][2]
      BY <3>1, <3>2
    <3> QED BY <2>1, <2>2, <3>3 DEF Fills
  <2>3. CASE q[1][1] # "remove"
    BY <2>1, <2>3
  <2> QED BY <2>2, <2>3
<1>6. ASSUME NEW i \in 1 .. Len(r)
      PROVE  Fills(r[i]) /\ r[i][2] \in Q => r[1] = <<"remove", r[i][2]>>
  <2> SUFFICES ASSUME Fills(r[i]) PROVE r[i][2] \notin Q
    OBVIOUS
  <2>1. /\ r[i] = q[i + 1] /\ q[1][1] # "upload" /\ ~Fills(q[1])
        /\ r[i][2] \in P => q[1] = <<"remove", r[i][2]>>
    BY <1>3, <1>4 DEF Plan
  <2>2. CASE q[1][1] = "remove"
    BY <2>1, <2>2 DEF Fills
  <2>3. CASE q[1][1] # "remove"
    BY <2>1, <2>3 DEF Fills
  <2> QED BY <2>2, <2>3
<1>7. ASSUME NEW i \in 1 .. Len(r), NEW j \in 1 .. Len(r)
      PROVE  /\ r[i][1] = "remove" /\ r[j] = r[i] => j = i
             /\ Fills(r[i]) /\ Fills(r[j]) => j = i
             /\ Drops(r[i]) /\ i <= j => r[j][1] # "remove"
  <2>1. /\ i + 1 \in 1 .. Len(q) /\ j + 1 \in 1 .. Len(q)
        /\ r[i] = q[i + 1] /\ r[j] = q[j + 1]
        /\ (i + 1 = j + 1 => i = j) /\ (i <= j => i + 1 <= j + 1)
    BY <1>3
  <2> QED BY <2>1 DEF Plan
<1>8. Plan(r, Q, U)
  BY <1>2, <1>3, <1>5, <1>6, <1>7 DEF Plan
<1> QED BY <1>8 DEF r

\* Making room takes away what no later step needs.
LEMMA PlanShrinks ==
  ASSUME NEW q, NEW P, NEW T, Plan(q, P, T), q # <<>>, Drops(q[1]),
         NEW Q \in SUBSET P, NEW U
  PROVE  Plan(q, Q, U)
<1>1. 1 \in 1 .. Len(q) /\ Len(q) \in Nat
  BY EmptySeq, LenProperties DEF Plan
<1>2. \A i \in 1 .. Len(q) : q[i][1] # "remove" /\ q[i][1] # "upload" /\ 1 <= i
  <2> TAKE i \in 1 .. Len(q)
  <2>1. 1 <= i
    BY <1>1
  <2>2. q[i][1] # "remove"
    BY <1>1, <2>1 DEF Plan
  <2>3. q[i][1] # "upload"
    <3> SUFFICES ASSUME q[i][1] = "upload" PROVE FALSE
      OBVIOUS
    <3>1. Len(q) = 1
      BY DEF Plan
    <3>2. i = 1
      BY <3>1
    <3> QED BY <3>2 DEF Drops
  <2> QED BY <2>1, <2>2, <2>3
<1>3. \A i \in 1 .. Len(q) : Fills(q[i]) => q[i][2] \notin P
  <2>1. \A i \in 1 .. Len(q) : q[1] # <<"remove", q[i][2]>>
    BY <1>1, <1>2
  <2> QED BY <2>1 DEF Plan
<1> QED BY <1>2, <1>3 DEF Plan

\* A step does not depend on the cache.
LEMMA CacheStays ==
  ASSUME CInv, UNCHANGED <<pathCache, cacheSize, generation>>,
         pathTask' \in [Path -> {"none", "new", "queued", "done", "dropped"}],
         \A p \in Path : pathTask[p] # "none" => pathTask'[p] # "none",
         \/ todo' = todo
         \/ /\ todo # <<>> /\ todo' = Tail(todo)
            /\ todo[1][1] \notin {"remove", "put", "generate"}
  PROVE  CInv'
<1>1. TaskPaths(pathCache) \subseteq Path
  BY TextureTypes DEF CInv, CacheOK, TaskPaths
<1>2. CacheOK'
  BY <1>1 DEF CInv, CacheOK
<1>3. Plan(todo', PathsOf(pathCache), TaskPaths(pathCache))
  <2>1. Plan(todo, PathsOf(pathCache), TaskPaths(pathCache))
    BY DEF CInv
  <2>2. CASE todo' = todo
    BY <2>1, <2>2
  <2>3. CASE /\ todo # <<>> /\ todo' = Tail(todo)
             /\ todo[1][1] \notin {"remove", "put", "generate"}
    BY ONLY <2>1, <2>3, PlanTail
  <2> QED BY <2>2, <2>3
<1> QED BY <1>2, <1>3 DEF CInv

\* The texture of a path goes: with its task, if it has one.
LEMMA TextureRemoved ==
  ASSUME CacheOK, NEW p \in PathsOf(pathCache), removeTexture(TextureOf(p))
  PROVE  /\ CacheOK'
         /\ PathsOf(pathCache') = PathsOf(pathCache) \ {p}
         /\ TaskPaths(pathCache') = TaskPaths(pathCache) \ {p}
<1> DEFINE t == TextureOf(p)
<1>1. /\ PositionOf(p) \in 1 .. Len(pathCache)
      /\ t = pathCache[PositionOf(p)] /\ t.path = p
  BY LookUp
<1>2. /\ cacheSize' = cacheSize - Counted(t)
      /\ pathCache' = RemoveAt(pathCache, PositionOf(p))
      /\ pathTask' = [pathTask EXCEPT ![p] = "none"]
      /\ generation' = generation
  BY <1>1 DEF removeTexture, Without
<1> HIDE DEF t
<1>3. /\ pathCache' \in Seq(Texture) /\ Unique(pathCache')
      /\ PathsOf(pathCache') = PathsOf(pathCache) \ {p}
      /\ TaskPaths(pathCache') = TaskPaths(pathCache) \ {p}
      /\ TotalSize(pathCache') = TotalSize(pathCache) - Counted(t)
  BY <1>1, <1>2, TakenOut DEF CacheOK
<1>4. TaskPaths(pathCache) \subseteq Path
  BY TextureTypes DEF CacheOK, TaskPaths
<1>5. \A x \in TaskPaths(pathCache') : pathTask'[x] # "none"
  BY <1>2, <1>3, <1>4 DEF CacheOK
<1>6. pathTask' \in [Path -> {"none", "new", "queued", "done", "dropped"}]
  BY <1>2 DEF CacheOK
<1>7. cacheSize' = TotalSize(pathCache')
  BY <1>2, <1>3 DEF CacheOK
<1> QED BY <1>2, <1>3, <1>5, <1>6, <1>7 DEF CacheOK

\* A new texture is put into the cache.
LEMMA TexturePut ==
  ASSUME CacheOK, NEW t \in Texture, t.path \notin PathsOf(pathCache),
         pathCache' = Append(pathCache, t), cacheSize' = cacheSize + Counted(t),
         pathTask' \in [Path -> {"none", "new", "queued", "done", "dropped"}],
         \A p \in Path : pathTask[p] # "none" => pathTask'[p] # "none",
         t.hasTask => pathTask'[t.path] # "none",
         generation' = generation
  PROVE  /\ CacheOK'
         /\ PathsOf(pathCache') = PathsOf(pathCache) \cup {t.path}
<1>1. /\ pathCache' \in Seq(Texture) /\ Unique(pathCache')
      /\ PathsOf(pathCache') = PathsOf(pathCache) \cup {t.path}
      /\ TaskPaths(pathCache') = TaskPaths(pathCache) \cup (IF t.hasTask THEN {t.path} ELSE {})
      /\ TotalSize(pathCache') = TotalSize(pathCache) + Counted(t)
  BY PutIn DEF CacheOK
<1>2. TaskPaths(pathCache) \subseteq Path
  BY TextureTypes DEF CacheOK, TaskPaths
<1>3. \A x \in TaskPaths(pathCache') : pathTask'[x] # "none"
  BY <1>1, <1>2 DEF CacheOK
<1>4. cacheSize' = TotalSize(pathCache')
  BY <1>1 DEF CacheOK
<1> QED BY <1>1, <1>3, <1>4 DEF CacheOK

-----------------------------------------------------------------------------
(* Calls *)

\* What is planned for one path by a call.
LEMMA ShortPlans ==
  ASSUME NEW p \in Path, NEW P, NEW T
  PROVE  /\ Plan(<<>>, P, T)
         /\ p \notin P => Plan(<<<<"put", p>>, <<"start", p>>>>, P, T)
         /\ p \in P => Plan(<<<<"remove", p>>, <<"put", p>>, <<"start", p>>>>, P, T)
         /\ p \notin P => Plan(<<<<"purge", p>>, <<"generate", p>>>>, P, T)
         /\ p \in P => Plan(<<<<"remove", p>>, <<"purge", p>>, <<"generate", p>>>>, P, T)
         /\ p \in P => Plan(<<<<"remove", p>>>>, P, T)
         /\ p \in T => Plan(<<<<"upload", p>>>>, P, T)
         /\ Plan(<<<<"trim">>>>, P, T)
<1>1. \A k \in {"remove", "put", "start", "upload", "purge", "generate"} : <<k, p>> \in Step
  BY DEF Step
<1>2. <<"trim">> \in Step
  BY DEF Step
<1>3. Plan(<<>>, P, T)
  BY DEF Plan
<1>4. ASSUME p \notin P PROVE Plan(<<<<"put", p>>, <<"start", p>>>>, P, T)
  BY <1>1, <1>4 DEF Plan, Fills, Drops
<1>5. ASSUME p \in P PROVE Plan(<<<<"remove", p>>, <<"put", p>>, <<"start", p>>>>, P, T)
  BY <1>1, <1>5 DEF Plan, Fills, Drops
<1>6. ASSUME p \notin P PROVE Plan(<<<<"purge", p>>, <<"generate", p>>>>, P, T)
  BY <1>1, <1>6 DEF Plan, Fills, Drops
<1>7. ASSUME p \in P PROVE Plan(<<<<"remove", p>>, <<"purge", p>>, <<"generate", p>>>>, P, T)
  BY <1>1, <1>7 DEF Plan, Fills, Drops
<1>8. ASSUME p \in P PROVE Plan(<<<<"remove", p>>>>, P, T)
  BY <1>1, <1>8 DEF Plan, Fills, Drops
<1>9. ASSUME p \in T PROVE Plan(<<<<"upload", p>>>>, P, T)
  BY <1>1, <1>9 DEF Plan, Fills, Drops
<1>10. Plan(<<<<"trim">>>>, P, T)
  BY <1>2 DEF Plan, Fills, Drops
<1> QED BY <1>3, <1>4, <1>5, <1>6, <1>7, <1>8, <1>9, <1>10

\* A call looks a path up, or not, and plans the rest.
LEMMA Planned ==
  ASSUME CInv, pathCache' = pathCache \/ \E p \in Path : pathCache' = Touched(p),
         UNCHANGED <<cacheSize, pathTask>>, generation' \in [Path -> Nat],
         Plan(todo', PathsOf(pathCache), TaskPaths(pathCache))
  PROVE  CInv'
<1>1. /\ pathCache' \in Seq(Texture) /\ Unique(pathCache')
      /\ TotalSize(pathCache') = TotalSize(pathCache)
      /\ PathsOf(pathCache') = PathsOf(pathCache)
      /\ TaskPaths(pathCache') = TaskPaths(pathCache)
  <2>1. CASE pathCache' = pathCache
    BY <2>1 DEF CInv, CacheOK
  <2>2. CASE \E p \in Path : pathCache' = Touched(p)
    BY <2>2, TouchedOK DEF CInv
  <2> QED BY <2>1, <2>2
<1>2. CacheOK'
  BY <1>1 DEF CInv, CacheOK
<1> QED BY <1>1, <1>2 DEF CInv

\* A path is drawn ahead of its use,
LEMMA Precache ==
  ASSUME CInv, NEW p \in Path, precache(p)
  PROVE  CInv'
<1> DEFINE P == PathsOf(pathCache)
           T == TaskPaths(pathCache)
<1>1. InCache(p) <=> p \in P
  BY LookUp DEF CInv
<1>2. /\ pathCache' = Touched(p) /\ UNCHANGED <<cacheSize, generation, pathTask>>
      /\ todo' = IF ~InCache(p) THEN <<<<"put", p>>, <<"start", p>>>>
             ELSE IF Outdated(p) THEN <<<<"remove", p>>, <<"put", p>>, <<"start", p>>>>
             ELSE <<>>
  BY DEF precache
<1> HIDE DEF P, T
<1>3. Plan(todo', P, T)
  BY <1>1, <1>2, ShortPlans
<1>4. generation' \in [Path -> Nat]
  BY <1>2 DEF CInv, CacheOK
<1> QED BY <1>2, <1>3, <1>4, Planned DEF P, T

\* or used,
LEMMA Get ==
  ASSUME CInv, NEW p \in Path, get(p)
  PROVE  CInv'
<1> DEFINE P == PathsOf(pathCache)
           T == TaskPaths(pathCache)
<1>1. /\ InCache(p) <=> p \in P
      /\ p \in P => (TextureOf(p).hasTask <=> p \in T)
  BY LookUp DEF CInv
<1>2. /\ pathCache' = Touched(p) /\ UNCHANGED <<cacheSize, generation, pathTask>>
      /\ todo' = IF ~InCache(p) THEN AddTexture(p)
                 ELSE IF TextureOf(p).hasTask THEN <<<<"upload", p>>>>
                 ELSE IF Outdated(p) THEN <<<<"remove", p>>>> \o AddTexture(p)
                 ELSE <<>>
  BY DEF get
<1> HIDE DEF P, T
<1>3. \/ AddTexture(p) = <<>> /\ <<<<"remove", p>>>> \o AddTexture(p) = <<<<"remove", p>>>>
      \/ /\ AddTexture(p) = <<<<"purge", p>>, <<"generate", p>>>>
         /\ <<<<"remove", p>>>> \o AddTexture(p)
              = <<<<"remove", p>>, <<"purge", p>>, <<"generate", p>>>>
  <2>1. <<<<"remove", p>>>> \o <<>> = <<<<"remove", p>>>>
    OBVIOUS
  <2>2. <<<<"remove", p>>>> \o <<<<"purge", p>>, <<"generate", p>>>>
          = <<<<"remove", p>>, <<"purge", p>>, <<"generate", p>>>>
    <3> DEFINE a == <<"remove", p>>
               b == <<"purge", p>>
               c == <<"generate", p>>
               u == <<a>> \o <<b, c>>
               v == <<a, b, c>>
    <3>1. a \in Step /\ b \in Step /\ c \in Step
      BY DEF Step
    <3> HIDE DEF a, b, c
    <3>2. /\ v \in Seq(Step) /\ Len(v) = 3 /\ v[1] = a /\ v[2] = b /\ v[3] = c
          /\ <<b, c>> \in Seq(Step) /\ Len(<<b, c>>) = 2
          /\ <<b, c>>[1] = b /\ <<b, c>>[2] = c
      BY <3>1
    <3>3. /\ u \in Seq(Step) /\ Len(u) = 3
          /\ u[1] = a /\ u[2] = b /\ u[3] = c
      <4> HIDE DEF v
      <4> DEFINE w == <<b, c>>
      <4>1. w \in Seq(Step) /\ Len(w) = 2 /\ w[1] = b /\ w[2] = c /\ u = <<a>> \o w
        BY <3>2
      <4> HIDE DEF w, u
      <4> QED BY <3>1, <4>1, Preceded
    <3> HIDE DEF u, v
    <3>4. \A i \in 1 .. 3 : u[i] = v[i]
      BY <3>2, <3>3
    <3>5. u = v
      BY <3>2, <3>3, <3>4, SeqEqual
    <3> QED BY <3>5 DEF a, b, c, u, v
  <2>3. AddTexture(p) \in {<<>>, <<<<"purge", p>>, <<"generate", p>>>>}
    BY DEF AddTexture
  <2> QED BY <2>1, <2>2, <2>3
<1>4. Plan(todo', P, T)
  <2>1. CASE ~InCache(p)
    BY <1>1, <1>2, <1>3, <2>1, ShortPlans
  <2>2. CASE InCache(p) /\ TextureOf(p).hasTask
    BY <1>1, <1>2, <2>2, ShortPlans
  <2>3. CASE InCache(p) /\ ~TextureOf(p).hasTask
    BY <1>1, <1>2, <1>3, <2>3, ShortPlans
  <2> QED BY <2>1, <2>2, <2>3
<1>5. generation' \in [Path -> Nat]
  BY <1>2 DEF CInv, CacheOK
<1> QED BY <1>2, <1>4, <1>5, Planned DEF P, T

\* or gone;
LEMMA ClearGarbage ==
  ASSUME CInv, NEW gone \in SUBSET Path, clearGarbage(gone)
  PROVE  CInv'
<1> DEFINE P == PathsOf(pathCache)
           T == TaskPaths(pathCache)
           Q == {q \in gone : InCache(q)}
           S == {<<"remove", p>> : p \in Q}
<1>1. /\ UNCHANGED <<pathCache, cacheSize, generation, pathTask>>
      /\ todo' = SetToSeq(S)
  BY DEF clearGarbage
<1>2. Q \subseteq Path /\ Q \subseteq P
  BY LookUp DEF CInv
<1> HIDE DEF Q, P, T
<1>3. IsFiniteSet(S)
  <2> DEFINE f == [p \in Q |-> <<"remove", p>>]
  <2>1. f \in Surjection(Q, S)
    BY DEF Surjection
  <2>2. IsFiniteSet(Q)
    BY <1>2, PathCacheBounds, FS_Subset
  <2> HIDE DEF f, S
  <2> QED BY <2>1, <2>2, FS_Surjection
<1>4. S \subseteq Step /\ \A x \in S : x[1] = "remove" /\ x[2] \in P
  BY <1>2 DEF Step
<1> HIDE DEF S
<1>5. /\ todo' \in Seq(S)
      /\ \A i, j \in 1 .. Len(todo') : todo'[i] = todo'[j] => i = j
  BY <1>1, <1>3, Listed
<1>6. /\ todo' \in Seq(Step)
      /\ \A i \in 1 .. Len(todo') : todo'[i][1] = "remove" /\ todo'[i][2] \in P
  <2>1. Len(todo') \in Nat /\ \A i \in 1 .. Len(todo') : todo'[i] \in S
    BY <1>5, LenProperties, ElementOfSeq
  <2>2. todo' \in Seq(Step)
    BY <1>4, <1>5
  <2> QED BY <1>4, <2>1, <2>2
<1>7. Plan(todo', P, T)
  BY <1>5, <1>6 DEF Plan, Fills, Drops
<1>8. generation' \in [Path -> Nat]
  BY <1>1 DEF CInv, CacheOK
<1> QED BY <1>1, <1>7, <1>8, Planned DEF P, T

\* the threads are stopped and the cache is cleared.
LEMMA Flush ==
  ASSUME CInv, flush
  PROVE  CInv'
<1> DEFINE S == {<<"exit", w>> : w \in Worker}
           e == SetToSeq(S)
<1>1. /\ UNCHANGED <<pathCache, cacheSize, generation, pathTask>>
      /\ todo' = Append(e, <<"clear">>)
  BY DEF flush
<1>2. IsFiniteSet(S)
  <2> DEFINE f == [w \in Worker |-> <<"exit", w>>]
  <2>1. f \in Surjection(Worker, S)
    BY DEF Surjection
  <2> HIDE DEF f, S
  <2> QED BY <2>1, PathCacheBounds, FS_Surjection
<1>3. S \subseteq Step /\ (\A x \in S : x[1] = "exit") /\ <<"clear">> \in Step
  BY DEF Step
<1> HIDE DEF S
<1>4. e \in Seq(S)
  BY <1>2, Listed
<1>5. Len(e) \in Nat /\ \A i \in 1 .. Len(e) : e[i] \in S
  BY <1>4, LenProperties, ElementOfSeq
<1> HIDE DEF e
<1>6. e \in Seq(Step)
  BY <1>3, <1>4
<1>7. /\ todo' \in Seq(Step) /\ Len(todo') = Len(e) + 1
      /\ todo'[Len(e) + 1] = <<"clear">> /\ \A i \in 1 .. Len(e) : todo'[i] = e[i]
  BY <1>1, <1>3, <1>6, Appended
<1>8. \A i \in 1 .. Len(todo') : todo'[i][1] \in {"exit", "clear"}
  <2> TAKE i \in 1 .. Len(todo')
  <2>1. CASE i = Len(e) + 1
    BY <1>7, <2>1
  <2>2. CASE i # Len(e) + 1
    <3>1. i \in 1 .. Len(e)
      BY <1>5, <1>7, <2>2
    <3> QED BY <1>3, <1>5, <1>7, <3>1
  <2> QED BY <2>1, <2>2
<1>9. Plan(todo', PathsOf(pathCache), TaskPaths(pathCache))
  BY <1>7, <1>8 DEF Plan, Fills, Drops
<1>10. generation' \in [Path -> Nat]
  BY <1>1 DEF CInv, CacheOK
<1> QED BY <1>1, <1>9, <1>10, Planned

-----------------------------------------------------------------------------
(* What the calls are made of *)

\* The next step of a call.
LEMMA NextStep ==
  ASSUME CInv, NEW k, Does(k)
  PROVE  /\ todo # <<>> /\ todo[1] \in Step /\ todo[1][1] = k
         /\ Head(todo) = todo[1] /\ Arg = todo[1][2]
         /\ 1 \in 1 .. Len(todo) /\ Len(todo) \in Nat \ {0}
<1>1. todo \in Seq(Step) /\ todo # <<>>
  BY DEF CInv, Plan, Does
<1>2. Len(todo) \in Nat \ {0}
  BY <1>1, EmptySeq
<1>3. todo[1] \in Step /\ Head(todo) = todo[1]
  BY <1>1, <1>2, ElementOfSeq, HeadTailProperties
<1> QED BY <1>1, <1>2, <1>3 DEF Does, Arg

\* removeTexture for an entry that is replaced or gone.
LEMMA RemoveEntryOK ==
  ASSUME CInv, RemoveEntry
  PROVE  CInv'
<1> DEFINE p == Arg
<1>1. Does("remove") /\ removeTexture(TextureOf(p)) /\ todo' = Tail(todo)
  BY DEF RemoveEntry
<1>2. /\ todo # <<>> /\ todo[1][1] = "remove" /\ p = todo[1][2]
      /\ 1 \in 1 .. Len(todo)
  BY <1>1, NextStep
<1>3. p \in PathsOf(pathCache)
  BY <1>2 DEF CInv, Plan
<1> HIDE DEF p
<1>4. CacheOK' /\ PathsOf(pathCache') = PathsOf(pathCache) \ {p}
  BY <1>1, <1>3, TextureRemoved DEF CInv
<1>5. Plan(todo', PathsOf(pathCache'), TaskPaths(pathCache'))
  BY <1>1, <1>2, <1>4, PlanTail DEF CInv
<1> QED BY <1>4, <1>5 DEF CInv

\* precache puts a texture that is only a task.
LEMMA PutOK ==
  ASSUME CInv, Put
  PROVE  CInv'
<1> DEFINE p == Arg
           t == [createTexture(p) EXCEPT !.hasTask = TRUE]
<1>1. /\ Does("put") /\ pathCache' = Append(pathCache, t)
      /\ pathTask' = [pathTask EXCEPT ![p] = "new"]
      /\ todo' = Tail(todo) /\ UNCHANGED <<cacheSize, generation>>
  BY DEF Put
<1>2. /\ todo # <<>> /\ todo[1][1] = "put" /\ p = todo[1][2] /\ todo[1] \in Step
      /\ 1 \in 1 .. Len(todo)
  BY <1>1, NextStep
<1>3. p \in Path
  BY <1>2, StepPath
<1>4. p \notin PathsOf(pathCache)
  BY <1>2 DEF CInv, Plan, Fills
<1> HIDE DEF p
<1>5. /\ t \in Texture /\ t.path = p /\ Counted(t) = 0
  BY <1>3 DEF createTexture, Texture, Counted, CInv, CacheOK
<1> HIDE DEF t
<1>6. /\ pathTask' \in [Path -> {"none", "new", "queued", "done", "dropped"}]
      /\ \A x \in Path : pathTask[x] # "none" => pathTask'[x] # "none"
      /\ pathTask'[p] # "none"
  BY <1>1, <1>3 DEF CInv, CacheOK
<1>7. cacheSize' = cacheSize + Counted(t)
  <2>1. cacheSize \in Int
    BY TotalRange DEF CInv, CacheOK
  <2> QED BY <1>1, <1>5, <2>1
<1>8. CacheOK' /\ PathsOf(pathCache') = PathsOf(pathCache) \cup {p}
  BY <1>1, <1>4, <1>5, <1>6, <1>7, TexturePut DEF CInv
<1>9. Plan(todo', PathsOf(pathCache'), TaskPaths(pathCache'))
  BY <1>1, <1>2, <1>8, PlanTail DEF CInv, Fills
<1> QED BY <1>8, <1>9 DEF CInv

\* A step for another that does not touch the cache either.
LEMMA PlanReplaced ==
  ASSUME NEW q, NEW P, NEW T, Plan(q, P, T), q # <<>>, q[1][1] = "start",
         NEW e \in Step, e[1] = "addTask",
         NEW r, r = <<e>> \o Tail(q)
  PROVE  Plan(r, P, T)
<1>1. q \in Seq(Step) /\ Len(q) \in Nat \ {0}
  BY EmptySeq DEF Plan
<1>2. /\ Tail(q) \in Seq(Step) /\ Len(Tail(q)) = Len(q) - 1
      /\ \A i \in 1 .. Len(q) - 1 : Tail(q)[i] = q[i + 1]
  BY <1>1, HeadTailProperties
<1>3. /\ r \in Seq(Step) /\ Len(r) = Len(Tail(q)) + 1 /\ r[1] = e
      /\ \A j \in 1 .. Len(Tail(q)) : r[j + 1] = Tail(q)[j]
  BY <1>2, Preceded
<1>4. Len(r) = Len(q) /\ \A i \in 1 .. Len(q) : i = 1 \/ r[i] = q[i]
  <2>1. Len(r) = Len(q)
    BY <1>1, <1>2, <1>3
  <2>2. ASSUME NEW i \in 1 .. Len(q), i # 1 PROVE r[i] = q[i]
    <3>1. i - 1 \in 1 .. Len(q) - 1 /\ (i - 1) + 1 = i
      BY <1>1, <2>2
    <3>2. r[(i - 1) + 1] = Tail(q)[i - 1] /\ Tail(q)[i - 1] = q[(i - 1) + 1]
      BY <1>2, <1>3, <3>1
    <3> QED BY <3>1, <3>2
  <2> QED BY <2>1, <2>2
<1>5. /\ 1 \in 1 .. Len(q) /\ r[1][1] = "addTask"
      /\ \A i \in 1 .. Len(q) : q[1] # <<"remove", q[i][2]>>
  BY <1>1, <1>3
<1>6. ASSUME NEW i \in 1 .. Len(q)
      PROVE  /\ r[i][1] = "remove" => r[i][2] \in P
             /\ r[i][1] = "upload" => r[i][2] \in T /\ Len(r) = 1
             /\ Fills(r[i]) /\ r[i][2] \in P => r[1] = <<"remove", r[i][2]>>
  <2>1. CASE i = 1
    BY <1>5, <2>1 DEF Fills
  <2>2. CASE i # 1
    <3>1. r[i] = q[i]
      BY <1>4, <2>2
    <3> QED BY <1>4, <1>5, <3>1 DEF Plan
  <2> QED BY <2>1, <2>2
<1>7. ASSUME NEW i \in 1 .. Len(q), NEW j \in 1 .. Len(q)
      PROVE  /\ r[i][1] = "remove" /\ r[j] = r[i] => j = i
             /\ Fills(r[i]) /\ Fills(r[j]) => j = i
             /\ Drops(r[i]) /\ i <= j => r[j][1] # "remove"
  <2>1. CASE i = 1
    BY <1>4, <1>5, <2>1 DEF Fills, Drops
  <2>2. CASE j = 1
    BY <1>4, <1>5, <2>2 DEF Fills, Drops
  <2>3. CASE i # 1 /\ j # 1
    <3>1. r[i] = q[i] /\ r[j] = q[j]
      BY <1>4, <2>3
    <3> QED BY <3>1 DEF Plan
  <2> QED BY <2>1, <2>2, <2>3
<1> QED BY <1>3, <1>4, <1>6, <1>7 DEF Plan

\* A thread is chosen for the task, and started,
LEMMA StartOK ==
  ASSUME CInv, Start
  PROVE  CInv'
<1>1. PICK w \in Worker : todo' = <<<<"addTask", Arg, w>>>> \o Tail(todo)
  BY Zenon DEF Start
<1>2. Does("start") /\ UNCHANGED <<pathCache, cacheSize, generation, pathTask>>
  BY DEF Start
<1>3. /\ todo # <<>> /\ todo[1][1] = "start" /\ todo[1] \in Step /\ Arg = todo[1][2]
  BY <1>2, NextStep
<1> DEFINE a == <<"addTask", Arg, w>>
<1>4. a \in Step /\ a[1] = "addTask"
  <2>1. Arg \in Path
    BY <1>3, StepPath
  <2> QED BY <2>1 DEF Step
<1>5. todo' = <<a>> \o Tail(todo)
  BY <1>1
<1> HIDE DEF a
<1>6. Plan(todo', PathsOf(pathCache), TaskPaths(pathCache))
  BY <1>3, <1>4, <1>5, PlanReplaced DEF CInv
<1> QED BY <1>2, <1>6 DEF CInv, CacheOK

\* and given the task.
LEMMA AddTaskOK ==
  ASSUME CInv, addTask
  PROVE  CInv'
<1>1. /\ Does("addTask") /\ todo' = Tail(todo)
      /\ UNCHANGED <<pathCache, cacheSize, generation>>
      /\ pathTask' = [pathTask EXCEPT ![Arg] = "queued"]
  BY DEF addTask
<1>2. todo # <<>> /\ todo[1][1] = "addTask"
  BY <1>1, NextStep
<1>3. /\ pathTask' \in [Path -> {"none", "new", "queued", "done", "dropped"}]
      /\ \A p \in Path : pathTask[p] # "none" => pathTask'[p] # "none"
  BY <1>1 DEF CInv, CacheOK
<1> QED BY <1>1, <1>2, <1>3, CacheStays

\* The result of a task is uploaded, and only now it counts.
LEMMA UploadOK ==
  ASSUME CInv, Upload
  PROVE  CInv'
<1> DEFINE p == Arg
           t == TextureOf(p)
           size == PathSize[p]
           freed == size >= MaxCacheSize
           done == [t EXCEPT !.hasTask = FALSE, !.size = size, !.freed = freed]
           w == Without(p)
<1>1. /\ Does("upload") /\ todo' = Tail(todo) /\ UNCHANGED generation
      /\ pathTask' = [pathTask EXCEPT ![p] = "none"]
      /\ IF size > MaxTexture
         THEN pathCache' = w /\ UNCHANGED cacheSize
         ELSE pathCache' = Append(w, done) /\ cacheSize' = cacheSize + size
  BY DEF Upload
<1>2. /\ todo # <<>> /\ todo[1][1] = "upload" /\ p = todo[1][2] /\ todo[1] \in Step
      /\ 1 \in 1 .. Len(todo)
  BY <1>1, NextStep
<1>3. p \in Path /\ p \in TaskPaths(pathCache) /\ p \in PathsOf(pathCache)
  <2>1. p \in TaskPaths(pathCache)
    BY <1>2 DEF CInv, Plan
  <2> QED BY <1>2, <2>1, StepPath DEF TaskPaths, PathsOf
<1>4. size \in Nat /\ MaxCacheSize \in Nat
  BY <1>3, PathCacheBounds
<1> HIDE DEF p, size
<1>5. /\ PositionOf(p) \in 1 .. Len(pathCache) /\ t = pathCache[PositionOf(p)]
      /\ t \in Texture /\ t.path = p /\ t.hasTask
  BY <1>3, LookUp DEF CInv
<1>6. w = RemoveAt(pathCache, PositionOf(p))
  BY DEF Without
<1> HIDE DEF t, w
<1>7. /\ done \in Texture /\ done.path = p /\ ~done.hasTask /\ Counted(done) = size
  <2>1. freed \in BOOLEAN
    BY <1>4
  <2> HIDE DEF freed
  <2>2. done \in Texture /\ done.path = p /\ ~done.hasTask /\ done.size = size
    BY <1>4, <1>5, <2>1 DEF Texture
  <2> HIDE DEF done
  <2> QED BY <2>2 DEF Counted
<1> HIDE DEF done
<1>8. Counted(t) = 0 /\ TotalSize(pathCache) \in Int
  BY <1>5, TotalRange DEF Counted, CInv, CacheOK
<1>9. /\ w \in Seq(Texture) /\ Unique(w)
      /\ PathsOf(w) = PathsOf(pathCache) \ {p}
      /\ TaskPaths(w) = TaskPaths(pathCache) \ {p}
      /\ TotalSize(w) = TotalSize(pathCache)
  <2>1. Unique(pathCache) /\ pathCache \in Seq(Texture)
    BY DEF CInv, CacheOK
  <2>2. TotalSize(w) = TotalSize(pathCache) - Counted(t)
    BY <1>5, <1>6, <2>1, TakenOut
  <2> QED BY <1>5, <1>6, <1>8, <2>1, <2>2, TakenOut
<1>10. /\ pathCache' \in Seq(Texture) /\ Unique(pathCache')
       /\ TaskPaths(pathCache') = TaskPaths(pathCache) \ {p}
       /\ cacheSize' = TotalSize(pathCache')
  <2>1. CASE size > MaxTexture
    BY <1>1, <1>9, <2>1 DEF CInv, CacheOK
  <2>2. CASE ~(size > MaxTexture)
    <3> DEFINE r == Append(w, done)
    <3>1. pathCache' = r /\ cacheSize' = cacheSize + size
      BY <1>1, <2>2
    <3>2. done.path \notin PathsOf(w)
      BY <1>7, <1>9
    <3> HIDE DEF r
    <3>3. /\ r \in Seq(Texture) /\ Unique(r)
          /\ TaskPaths(r) = TaskPaths(w) \cup (IF done.hasTask THEN {done.path} ELSE {})
          /\ TotalSize(r) = TotalSize(w) + Counted(done)
      BY <1>7, <1>9, <3>2, PutIn DEF r
    <3>4. TaskPaths(r) = TaskPaths(w)
      BY <1>7, <3>3
    <3> QED BY <1>7, <1>9, <3>1, <3>3, <3>4 DEF CInv, CacheOK
  <2> QED BY <2>1, <2>2
<1>11. /\ pathTask' \in [Path -> {"none", "new", "queued", "done", "dropped"}]
       /\ \A x \in TaskPaths(pathCache') : pathTask'[x] # "none"
  <2>1. TaskPaths(pathCache) \subseteq Path
    BY TextureTypes DEF CInv, CacheOK, TaskPaths
  <2> QED BY <1>1, <1>10, <2>1 DEF CInv, CacheOK
<1>12. CacheOK'
  BY <1>1, <1>10, <1>11 DEF CInv, CacheOK
<1>13. Plan(todo', PathsOf(pathCache'), TaskPaths(pathCache'))
  BY <1>1, <1>2, PlanTail DEF CInv
<1> QED BY <1>12, <1>13 DEF CInv

\* The oldest texture goes, or there is room.
LEMMA RemoveOldestOK ==
  ASSUME CInv, removeOldest
  PROVE  CInv'
<1>1. PICK k \in {"purge", "trim", "clear"} : Does(k)
  BY DEF removeOldest
<1>2. /\ todo # <<>> /\ todo[1][1] = k
  BY <1>1, NextStep
<1>3. CASE pathCache # <<>> /\ removeTexture(Head(pathCache)) /\ UNCHANGED todo
  <2> DEFINE t == Head(pathCache)
             p == t.path
  <2>1. /\ pathCache \in Seq(Texture) /\ Unique(pathCache)
    BY DEF CInv, CacheOK
  <2>2. /\ 1 \in 1 .. Len(pathCache) /\ t = pathCache[1] /\ p = pathCache[1].path
    BY <1>3, <2>1, EmptySeq, HeadTailProperties
  <2>3. p \in PathsOf(pathCache)
    BY <2>2 DEF PathsOf
  <2>4. t = TextureOf(p)
    <3>1. /\ PositionOf(p) \in 1 .. Len(pathCache)
          /\ TextureOf(p) = pathCache[PositionOf(p)] /\ TextureOf(p).path = p
      BY <2>3, LookUp DEF CInv
    <3>2. PositionOf(p) = 1
      BY <2>1, <2>2, <3>1 DEF Unique
    <3> QED BY <2>2, <3>1, <3>2
  <2>5. removeTexture(TextureOf(p))
    BY <1>3, <2>4
  <2> HIDE DEF p, t
  <2>6. CacheOK' /\ PathsOf(pathCache') = PathsOf(pathCache) \ {p}
    BY <2>3, <2>5, TextureRemoved DEF CInv
  <2>7. Plan(todo', PathsOf(pathCache'), TaskPaths(pathCache'))
    BY <1>2, <1>3, <2>6, PlanShrinks DEF CInv, Drops
  <2> QED BY <2>6, <2>7 DEF CInv
<1>4. CASE /\ todo' = Tail(todo)
           /\ UNCHANGED <<pathCache, cacheSize, generation, pathTask>>
  <2>1. pathTask' \in [Path -> {"none", "new", "queued", "done", "dropped"}]
    BY <1>4 DEF CInv, CacheOK
  <2> QED BY <1>2, <1>4, <2>1, CacheStays
<1> QED BY <1>3, <1>4 DEF removeOldest

\* A path is drawn on the render thread.
LEMMA GenerateTextureOK ==
  ASSUME CInv, generateTexture
  PROVE  CInv'
<1> DEFINE p == Arg
           t == [createTexture(p) EXCEPT !.size = PathSize[p]]
<1>1. /\ Does("generate") /\ todo' = Tail(todo) /\ UNCHANGED <<generation, pathTask>>
      /\ \/ pathCache' = Append(pathCache, t) /\ cacheSize' = cacheSize + PathSize[p]
         \/ UNCHANGED <<pathCache, cacheSize>>
  BY DEF generateTexture
<1>2. /\ todo # <<>> /\ todo[1][1] = "generate" /\ p = todo[1][2] /\ todo[1] \in Step
      /\ 1 \in 1 .. Len(todo)
  BY <1>1, NextStep
<1>3. p \in Path
  BY <1>2, StepPath
<1>4. p \notin PathsOf(pathCache)
  BY <1>2 DEF CInv, Plan, Fills
<1> HIDE DEF p
<1>5. /\ t \in Texture /\ t.path = p /\ Counted(t) = PathSize[p] /\ ~t.hasTask
  BY <1>3, PathCacheBounds DEF createTexture, Texture, Counted, CInv, CacheOK
<1> HIDE DEF t
<1>6. pathTask' \in [Path -> {"none", "new", "queued", "done", "dropped"}]
      /\ \A x \in Path : pathTask[x] # "none" => pathTask'[x] # "none"
  BY <1>1 DEF CInv, CacheOK
<1>7. /\ CacheOK'
      /\ PathsOf(pathCache') \in {PathsOf(pathCache), PathsOf(pathCache) \cup {p}}
  <2>1. CASE pathCache' = Append(pathCache, t) /\ cacheSize' = cacheSize + PathSize[p]
    BY <1>1, <1>4, <1>5, <1>6, <2>1, TexturePut DEF CInv
  <2>2. CASE UNCHANGED <<pathCache, cacheSize>>
    BY <1>1, <2>2 DEF CInv, CacheOK
  <2> QED BY <1>1, <2>1, <2>2
<1>8. Plan(todo', PathsOf(pathCache'), TaskPaths(pathCache'))
  BY <1>1, <1>2, <1>7, PlanTail DEF CInv, Fills
<1> QED BY <1>7, <1>8 DEF CInv

\* A thread drops the tasks that it has not taken.
LEMMA ExitOK ==
  ASSUME CInv, exit
  PROVE  CInv'
<1>1. /\ Does("exit") /\ todo' = Tail(todo)
      /\ UNCHANGED <<pathCache, cacheSize, generation>>
      /\ pathTask' = [p \in Path |-> IF p \in ToSet(worker[Arg].tasks)
                                     THEN "dropped" ELSE pathTask[p]]
  BY DEF exit
<1>2. todo # <<>> /\ todo[1][1] = "exit"
  BY <1>1, NextStep
<1>3. /\ pathTask' \in [Path -> {"none", "new", "queued", "done", "dropped"}]
      /\ \A p \in Path : pathTask[p] # "none" => pathTask'[p] # "none"
  BY <1>1 DEF CInv, CacheOK
<1> QED BY <1>1, <1>2, <1>3, CacheStays

\* A worker thread does nothing to the cache but bring tasks to their end.
LEMMA WorkerOK ==
  ASSUME CInv, NEW w \in Worker, WorkerStep(w)
  PROVE  CInv'
<1>1. UNCHANGED <<pathCache, cacheSize, generation, todo>>
  BY DEF WorkerStep, WaitSignal, TakeTasks, Process, ThreadLoop, unchangedRender
<1>2. \/ pathTask' = pathTask
      \/ pathTask' = [pathTask EXCEPT ![Head(worker[w].batch)] = "done"]
  BY DEF WorkerStep, WaitSignal, TakeTasks, Process, ThreadLoop
<1>3. /\ pathTask' \in [Path -> {"none", "new", "queued", "done", "dropped"}]
      /\ \A p \in Path : pathTask[p] # "none" => pathTask'[p] # "none"
  BY <1>2 DEF CInv, CacheOK
<1>4. TaskPaths(pathCache) \subseteq Path
  BY TextureTypes DEF CInv, CacheOK, TaskPaths
<1>5. CacheOK'
  <2>1. \A p \in TaskPaths(pathCache) : pathTask'[p] # "none"
    BY <1>3, <1>4 DEF CInv, CacheOK
  <2> QED BY <1>1, <1>3, <2>1 DEF CInv, CacheOK
<1> QED BY <1>1, <1>5 DEF CInv

-----------------------------------------------------------------------------
(* The theorem *)

\* At first the cache is empty.
LEMMA CInit == PathInit => CInv
<1> SUFFICES ASSUME PathInit PROVE CInv
  OBVIOUS
<1>1. /\ pathCache = <<>> /\ todo = <<>> /\ cacheSize = 0
      /\ generation = [p \in Path |-> 0] /\ pathTask = [p \in Path |-> "none"]
  BY DEF PathInit
<1>2. pathCache \in Seq(Texture) /\ Len(pathCache) = 0
  BY <1>1
<1>3. Unique(pathCache) /\ TaskPaths(pathCache) = {}
  BY <1>2 DEF Unique, TaskPaths
<1>4. TotalSize(pathCache) = 0
  <2>1. PICK f : Adds(f, pathCache) /\ TotalSize(pathCache) = f[Len(pathCache)]
    BY <1>2, TotalExists
  <2> QED BY <1>2, <2>1 DEF Adds
<1>5. CacheOK
  BY <1>1, <1>2, <1>3, <1>4 DEF CacheOK
<1>6. Plan(todo, PathsOf(pathCache), TaskPaths(pathCache))
  BY <1>1 DEF Plan
<1> QED BY <1>5, <1>6 DEF CInv

\* Every step of either kind of thread keeps the invariant.
LEMMA CNext ==
  ASSUME CInv, [PathNext]_pathVars
  PROVE  CInv'
<1>1. CASE UNCHANGED pathVars
  BY <1>1 DEF pathVars, CInv, CacheOK
<1>2. CASE \E p \in Path : precache(p)
  BY <1>2, Precache
<1>3. CASE \E p \in Path : get(p)
  BY <1>3, Get
<1>4. CASE \E p \in Path : ModifyPath(p)
  <2>1. PICK p \in Path : ModifyPath(p)
    BY <1>4
  <2>2. /\ generation' = [generation EXCEPT ![p] = 1]
        /\ UNCHANGED <<pathCache, cacheSize, pathTask, todo>>
    BY <2>1 DEF ModifyPath
  <2>3. generation' \in [Path -> Nat]
    BY <2>2 DEF CInv, CacheOK
  <2> QED BY <2>2, <2>3 DEF CInv, CacheOK
<1>5. CASE finish
  <2>1. todo' = <<<<"trim">>>> /\ UNCHANGED <<pathCache, cacheSize, generation, pathTask>>
    BY <1>5 DEF finish
  <2>2. <<"trim">> \in Step
    BY DEF Step
  <2>3. Plan(todo', PathsOf(pathCache), TaskPaths(pathCache))
    BY <2>1, <2>2 DEF Plan, Fills, Drops
  <2> QED BY <2>1, <2>3 DEF CInv, CacheOK
<1>6. CASE flush
  BY <1>6, Flush
<1>7. CASE \E gone \in SUBSET Path : clearGarbage(gone)
  BY <1>7, ClearGarbage
<1>8. CASE RenderStep
  BY <1>8, RemoveEntryOK, PutOK, StartOK, AddTaskOK, UploadOK, RemoveOldestOK,
     GenerateTextureOK, ExitOK DEF RenderStep
<1>9. CASE \E w \in Worker : WorkerStep(w)
  BY <1>9, WorkerOK
<1> QED BY <1>1, <1>2, <1>3, <1>4, <1>5, <1>6, <1>7, <1>8, <1>9 DEF PathNext

\* The invariant says more than SizeIsAccurate.
LEMMA CInvImplies == CInv => SizeIsAccurate
<1> SUFFICES ASSUME CInv PROVE SizeIsAccurate
  OBVIOUS
<1>1. DOMAIN pathCache = 1 .. Len(pathCache)
  BY LenProperties DEF CInv, CacheOK
<1>2. \A i \in DOMAIN pathCache :
        pathCache[i].hasTask => pathTask[pathCache[i].path] # "none"
  BY <1>1 DEF CInv, CacheOK, TaskPaths
<1> QED BY <1>1, <1>2 DEF SizeIsAccurate, CInv, CacheOK, Unique

(* Whatever paths are drawn, ahead of time or not, changed or dropped, and   *)
(* whenever a worker ends a task: mSize is the sum of the sizes of the       *)
(* textures that have been uploaded (addTexture, get, removeTexture), every  *)
(* path has at most one texture, and one that waits for a task has one.      *)
THEOREM SizesAddUp == PathSpec => []SizeIsAccurate
<1>1. PathInit => CInv
  BY CInit
<1>2. CInv /\ [PathNext]_pathVars => CInv'
  BY CNext
<1>3. CInv => SizeIsAccurate
  BY CInvImplies
<1> QED BY <1>1, <1>2, <1>3, PTL DEF PathSpec
=============================================================================
