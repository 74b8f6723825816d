------------------------ MODULE LineReconcileProofs ------------------------
(***************************************************************************)
(* Theorems about LineReconcile, for any data, texts and edits: what the   *)
(* merge of the human's lines into the Agent text writes means what the    *)
(* human wrote, has no raw lines, and no more symbols than needed.         *)
(*                                                                         *)
(* Texts are resolved and merged by FlattenSeq and mapped by a recursive   *)
(* function; what these compute is proved by looking at the least prefix   *)
(* of which it would be false.                                             *)
(***************************************************************************)
EXTENDS LineReconcile, SequenceTheorems, WellFoundedInduction, TLAPS

---------------------------------------------------------------------------
(*************************************************************************)
(* Induction, as the least counterexample: the theorems of the library   *)
(* that take the induction hypothesis as an operator are not needed.     *)
(*************************************************************************)
\* A nonempty set of naturals has a least member: the induction of this module.
LEMMA Least ==
  ASSUME NEW T, T \subseteq Nat, T # {}
  PROVE  \E n \in T : \A m \in T : n <= m
<1> DEFINE R == OpToRel(<, Nat)
<1>1. IsWellFoundedOn(R, Nat)
  BY NatLessThanWellFounded
<1> HIDE DEF R
<1>2. PICK n \in T : \A m \in T : ~ (<<m, n>> \in R)
  BY <1>1, WFMin
<1>3. \A m \in T : n <= m
  <2> TAKE m \in T
  <2>1. m \in Nat /\ n \in Nat
    OBVIOUS
  <2>2. m < n => <<m, n>> \in R
    BY <2>1, Zenon DEF R, OpToRel
  <2> QED
    BY <2>1, <2>2, <1>2, SMT
<1> QED
  BY <1>3

---------------------------------------------------------------------------
(*************************************************************************)
(* FlattenSeq, which resolves and merges texts.                          *)
(*************************************************************************)
\* The recursive function by which FlattenSeq joins sequences exists.
LEMMA JoinExists ==
  ASSUME NEW s, NEW n \in Nat
  PROVE  \E f : f = [i \in 1 .. n |-> IF i = 1 THEN s[i] ELSE f[i - 1] \o s[i]]
<1> DEFINE Is(f, k) == f = [i \in 1 .. k |-> IF i = 1 THEN s[i] ELSE f[i - 1] \o s[i]]
           Bad == {k \in Nat : ~ \E f : Is(f, k)}
<1> SUFFICES ASSUME Bad # {} PROVE FALSE
  BY Zenon
<1>1. PICK k \in Bad : \A m \in Bad : k <= m
  BY Least, Zenon
<1>2. k # 0
  <2>1. Is([i \in 1 .. 0 |-> <<>>], 0)
    BY SMT
  <2> QED
    BY <2>1, Zenon
<1>3. k - 1 \in Nat /\ k - 1 \notin Bad
  <2> HIDE DEF Is
  <2> QED BY <1>1, <1>2, SMT
<1>4. PICK f : Is(f, k - 1)
  BY <1>3, Zenon
<1> DEFINE g == [i \in 1 .. k |-> IF i < k THEN f[i] ELSE IF i = 1 THEN s[i] ELSE f[i - 1] \o s[i]]
<1>5. ASSUME NEW i \in 1 .. k
      PROVE  g[i] = IF i = 1 THEN s[i] ELSE g[i - 1] \o s[i]
  <2>0. k \in Nat /\ i \in Int
    BY <1>1, SMT
  <2>1. CASE i < k
    <3>1. i \in 1 .. (k - 1)
      BY <2>1, <2>0
    <3>2. f[i] = IF i = 1 THEN s[i] ELSE f[i - 1] \o s[i]
      BY <3>1, <1>4, Zenon
    <3>3. i # 1 => i - 1 \in 1 .. k /\ i - 1 < k
      BY <2>1, <2>0
    <3> HIDE DEF Is
    <3> QED BY <3>2, <3>3, <2>1, <2>0, SMT
  <2>2. CASE i = k
    <3>3. i # 1 => i - 1 \in 1 .. k /\ i - 1 < k
      BY <2>2, <2>0
    <3> QED BY <2>2, <3>3, <2>0
  <2> QED BY <2>1, <2>2, <2>0
<1>6. Is(g, k)
  BY <1>5, Zenon
<1> QED BY <1>6, Zenon

\* FlattenSeq is the last value of that function.
LEMMA FlattenIsJoin ==
  ASSUME NEW s, Len(s) \in Nat \ {0}
  PROVE  \E f : /\ f = [i \in 1 .. Len(s) |-> IF i = 1 THEN s[i] ELSE f[i - 1] \o s[i]]
                /\ FlattenSeq(s) = f[Len(s)]
<1> DEFINE f == CHOOSE g : g = [i \in 1 .. Len(s) |-> IF i = 1 THEN s[i] ELSE g[i - 1] \o s[i]]
<1>1. \E g : g = [i \in 1 .. Len(s) |-> IF i = 1 THEN s[i] ELSE g[i - 1] \o s[i]]
  BY JoinExists
<1>2. f = [i \in 1 .. Len(s) |-> IF i = 1 THEN s[i] ELSE f[i - 1] \o s[i]]
  BY <1>1, Zenon
<1>3. FlattenSeq(s) = f[Len(s)]
  BY SMT DEF FlattenSeq
<1> QED BY <1>2, <1>3, Zenon

\* The first k sequences of s, joined, and how long that is: the offset of what
\* follows.
Upto(s, k) == FlattenSeq(SubSeq(s, 1, k))
Off(s, k) == Len(Upto(s, k))

\* The function joins the first lines of a text as it joins all of them.
LEMMA UptoIsJoin ==
  ASSUME NEW S, NEW s \in Seq(S), NEW f, NEW k \in 1 .. Len(s),
         f = [i \in 1 .. Len(s) |-> IF i = 1 THEN s[i] ELSE f[i - 1] \o s[i]]
  PROVE  Upto(s, k) = f[k]
<1> DEFINE p == SubSeq(s, 1, k)
<1>1. p \in Seq(S) /\ Len(p) = k /\ k \in Nat \ {0} /\ \A i \in 1 .. k : p[i] = s[i]
  BY SMT
<1>2. PICK g : /\ g = [i \in 1 .. k |-> IF i = 1 THEN p[i] ELSE g[i - 1] \o p[i]]
               /\ FlattenSeq(p) = g[k]
  BY <1>1, FlattenIsJoin
<1> HIDE DEF p
<1> DEFINE Bad == {i \in Nat : i \in 1 .. k /\ g[i] # f[i]}
<1>3. Bad = {}
  <2> SUFFICES ASSUME Bad # {} PROVE FALSE
    OBVIOUS
  <2>1. PICK i \in Bad : \A m \in Bad : i <= m
    BY Least, Zenon
  <2>2. i \in 1 .. k /\ i \in 1 .. Len(s) /\ k \in Nat
    BY <2>1, <1>1, SMT
  <2>3. g[i] = IF i = 1 THEN s[i] ELSE g[i - 1] \o s[i]
    <3>1. g[i] = IF i = 1 THEN p[i] ELSE g[i - 1] \o p[i]
      BY <2>2, <1>2, Zenon
    <3> QED BY <3>1, <2>2, <1>1, Zenon
  <2>4. f[i] = IF i = 1 THEN s[i] ELSE f[i - 1] \o s[i]
    BY <2>2, Zenon
  <2>5. i # 1 => g[i - 1] = f[i - 1]
    <3>1. i # 1 => i - 1 \in Nat /\ i - 1 \in 1 .. k /\ ~ i <= i - 1
      BY <2>2
    <3>2. i # 1 => i - 1 \notin Bad
      BY <3>1, <2>1, Zenon
    <3> QED BY <3>1, <3>2, Zenon
  <2> HIDE DEF Bad
  <2>6. g[i] # f[i]
    BY <2>1, Zenon DEF Bad
  <2> QED BY <2>3, <2>4, <2>5, <2>6, Zenon
<1>4. k \in Nat /\ k \in 1 .. k
  BY <1>1
<1>5. g[k] = f[k]
  BY <1>3, <1>4, Zenon
<1> QED BY <1>5, <1>2, Zenon DEF Upto, p

\* Flattening one sequence more appends it.
LEMMA FlattenPrefixes ==
  ASSUME NEW S, NEW s \in Seq(Seq(S))
  PROVE  /\ Upto(s, 0) = <<>>
         /\ \A k \in 1 .. Len(s) : Upto(s, k) = Upto(s, k - 1) \o s[k]
         /\ Upto(s, Len(s)) = FlattenSeq(s)
<1>1. Upto(s, 0) = <<>>
  <2>1. SubSeq(s, 1, 0) = <<>>
    BY SMT
  <2> QED BY <2>1 DEF Upto, FlattenSeq
<1>2. ASSUME NEW k \in 1 .. Len(s)
      PROVE  Upto(s, k) = Upto(s, k - 1) \o s[k]
  <2>0. Len(s) \in Nat \ {0}
    OBVIOUS
  <2>1. PICK f : f = [i \in 1 .. Len(s) |-> IF i = 1 THEN s[i] ELSE f[i - 1] \o s[i]]
    BY <2>0, FlattenIsJoin, Zenon
  <2>2. \A i \in 1 .. Len(s) : Upto(s, i) = f[i]
    BY <2>1, UptoIsJoin
  <2>3. f[k] = IF k = 1 THEN s[k] ELSE f[k - 1] \o s[k]
    BY <2>1, Zenon
  <2>4. k # 1 => k - 1 \in 1 .. Len(s)
    BY <2>0
  <2>5. s[k] \in Seq(S)
    OBVIOUS
  <2>6. s[k] = <<>> \o s[k]
    BY <2>5
  <2>7. k = 1 => k - 1 = 0
    OBVIOUS
  <2> QED BY <2>2, <2>3, <2>4, <2>6, <2>7, <1>1, Zenon
<1>3. Upto(s, Len(s)) = FlattenSeq(s)
  <2>1. SubSeq(s, 1, Len(s)) = s
    BY SubSeqFull
  <2> QED BY <2>1 DEF Upto
<1> QED BY <1>1, <1>2, <1>3

\* A flattened sequence of sequences over S is a sequence over S.
LEMMA FlattenType ==
  ASSUME NEW S, NEW s \in Seq(Seq(S))
  PROVE  /\ \A k \in 0 .. Len(s) : Upto(s, k) \in Seq(S)
         /\ FlattenSeq(s) \in Seq(S)
<1> DEFINE Bad == {k \in Nat : k \in 0 .. Len(s) /\ Upto(s, k) \notin Seq(S)}
<1>1. Bad = {}
  <2> SUFFICES ASSUME Bad # {} PROVE FALSE
    OBVIOUS
  <2>1. PICK k \in Bad : \A m \in Bad : k <= m
    BY Least, Zenon
  <2>2. k # 0
    <3>1. Upto(s, 0) = <<>>
      BY FlattenPrefixes, Zenon
    <3>2. Upto(s, 0) \in Seq(S)
      BY <3>1, EmptySeq, Zenon
    <3> QED BY <3>2, <2>1, Zenon
  <2>3. k \in 1 .. Len(s) /\ k - 1 \in Nat /\ k - 1 \in 0 .. Len(s)
    BY <2>1, <2>2, SMT
  <2>4. Upto(s, k - 1) \in Seq(S)
    BY <2>1, <2>3, SMT
  <2>5. Upto(s, k) = Upto(s, k - 1) \o s[k]
    BY <2>3, FlattenPrefixes
  <2>6. s[k] \in Seq(S)
    BY <2>3
  <2>7. Upto(s, k) \in Seq(S)
    BY <2>4, <2>5, <2>6
  <2> QED BY <2>1, <2>7
<1>2. \A k \in 0 .. Len(s) : Upto(s, k) \in Seq(S)
  BY <1>1
<1>3. Len(s) \in 0 .. Len(s)
  OBVIOUS
<1> QED BY <1>2, <1>3, FlattenPrefixes

\* The offset of an entry is the sum of the lengths before it.
LEMMA OffStep ==
  ASSUME NEW S, NEW s \in Seq(Seq(S))
  PROVE  /\ Off(s, 0) = 0
         /\ \A k \in 0 .. Len(s) : Off(s, k) \in Nat
         /\ \A k \in 1 .. Len(s) : Off(s, k) = Off(s, k - 1) + Len(s[k])
         /\ Off(s, Len(s)) = Len(FlattenSeq(s))
<1>1. Off(s, 0) = 0
  <2>1. Upto(s, 0) = <<>>
    BY FlattenPrefixes, Zenon
  <2> QED BY <2>1 DEF Off
<1>2. ASSUME NEW k \in 0 .. Len(s) PROVE Off(s, k) \in Nat
  <2>1. Upto(s, k) \in Seq(S)
    BY FlattenType
  <2> QED BY <2>1 DEF Off
<1>3. ASSUME NEW k \in 1 .. Len(s) PROVE Off(s, k) = Off(s, k - 1) + Len(s[k])
  <2>1. k - 1 \in 0 .. Len(s) /\ s[k] \in Seq(S)
    OBVIOUS
  <2>2. Upto(s, k - 1) \in Seq(S)
    BY <2>1, FlattenType
  <2>3. Upto(s, k) = Upto(s, k - 1) \o s[k]
    BY FlattenPrefixes
  <2> QED BY <2>1, <2>2, <2>3, ConcatProperties DEF Off
<1>4. Off(s, Len(s)) = Len(FlattenSeq(s))
  BY FlattenPrefixes, Zenon DEF Off
<1> QED BY <1>1, <1>2, <1>3, <1>4

\* Offsets grow.
LEMMA OffMonotone ==
  ASSUME NEW S, NEW s \in Seq(Seq(S)), NEW i \in 0 .. Len(s), NEW k \in 0 .. Len(s), i <= k
  PROVE  Off(s, i) <= Off(s, k)
<1> DEFINE Bad == {n \in Nat : n \in i .. Len(s) /\ ~ Off(s, i) <= Off(s, n)}
<1>1. Bad = {}
  <2> SUFFICES ASSUME Bad # {} PROVE FALSE
    OBVIOUS
  <2>1. PICK n \in Bad : \A m \in Bad : n <= m
    BY Least, Zenon
  <2>2. n # i
    BY <2>1, OffStep
  <2>3. n \in 1 .. Len(s) /\ n - 1 \in i .. Len(s) /\ n - 1 \in 0 .. Len(s)
    BY <2>1, <2>2, SMT
  <2>4. Off(s, i) <= Off(s, n - 1)
    BY <2>1, <2>3, SMT
  <2>5. Off(s, n) = Off(s, n - 1) + Len(s[n]) /\ Len(s[n]) \in Nat
    <3>1. Off(s, n) = Off(s, n - 1) + Len(s[n])
      BY <2>3, OffStep, Zenon
    <3>2. Len(s[n]) \in Nat
      BY <2>3
    <3> QED BY <3>1, <3>2, Zenon
  <2>6. Off(s, i) \in Nat /\ Off(s, n - 1) \in Nat
    BY <2>3, OffStep, Zenon
  <2> QED BY <2>1, <2>4, <2>5, <2>6
<1>2. k \in Nat /\ k \in i .. Len(s)
  OBVIOUS
<1> QED BY <1>1, <1>2

\* The j-th element of the i-th entry is where its offset says.
LEMMA FlattenAt ==
  ASSUME NEW S, NEW s \in Seq(Seq(S)), NEW i \in 1 .. Len(s), NEW j \in 1 .. Len(s[i])
  PROVE  /\ Off(s, i - 1) + j \in 1 .. Len(FlattenSeq(s))
         /\ FlattenSeq(s)[Off(s, i - 1) + j] = s[i][j]
<1> DEFINE m == Off(s, i - 1) + j
           Bad == {k \in Nat : k \in i .. Len(s) /\ ~(m <= Off(s, k) /\ Upto(s, k)[m] = s[i][j])}
<1>0. i - 1 \in 0 .. Len(s) /\ Off(s, i - 1) \in Nat /\ s[i] \in Seq(S) /\ m \in Nat \ {0}
  <2>1. i - 1 \in 0 .. Len(s) /\ s[i] \in Seq(S) /\ Len(s[i]) \in Nat
    OBVIOUS
  <2>2. Off(s, i - 1) \in Nat
    BY <2>1, OffStep
  <2> QED BY <2>1, <2>2
<1> HIDE DEF m
<1>1. Bad = {}
  <2> SUFFICES ASSUME Bad # {} PROVE FALSE
    OBVIOUS
  <2>1. PICK k \in Bad : \A n \in Bad : k <= n
    BY Least, Zenon
  <2>2. k \in 1 .. Len(s) /\ k - 1 \in 0 .. Len(s) /\ k \in Nat /\ k - 1 \in Nat /\ i <= k
    BY <2>1, SMT
  <2> HIDE DEF Bad
  <2>3. Upto(s, k - 1) \in Seq(S) /\ s[k] \in Seq(S) /\ Off(s, k - 1) = Len(Upto(s, k - 1))
    <3>1. Upto(s, k - 1) \in Seq(S)
      BY <2>2, FlattenType, Zenon
    <3>2. s[k] \in Seq(S)
      BY <2>2
    <3> QED BY <3>1, <3>2, Zenon DEF Off
  <2>4. Upto(s, k) = Upto(s, k - 1) \o s[k]
    BY <2>2, FlattenPrefixes, Zenon
  <2>5. Off(s, k) = Off(s, k - 1) + Len(s[k]) /\ Off(s, k - 1) \in Nat /\ Len(s[k]) \in Nat
    <3>1. Off(s, k) = Off(s, k - 1) + Len(s[k]) /\ Off(s, k - 1) \in Nat
      BY <2>2, OffStep, Zenon
    <3>2. Len(s[k]) \in Nat
      BY <2>3
    <3> QED BY <3>1, <3>2
  <2>6. \A n \in 1 .. Off(s, k) : Upto(s, k)[n] =
                     IF n <= Off(s, k - 1) THEN Upto(s, k - 1)[n] ELSE s[k][n - Off(s, k - 1)]
    <3>1. \A n \in 1 .. Len(Upto(s, k - 1)) + Len(s[k]) : (Upto(s, k - 1) \o s[k])[n] =
             IF n <= Len(Upto(s, k - 1)) THEN Upto(s, k - 1)[n] ELSE s[k][n - Len(Upto(s, k - 1))]
      BY <2>3, ConcatProperties, Zenon
    <3> QED BY <3>1, <2>3, <2>4, <2>5, Zenon
  <2>7. CASE k = i
    <3> DEFINE before == Off(s, k - 1)
               whole == Off(s, k)
               n == Len(s[k])
    <3>1. m = before + j /\ whole = before + n /\ before \in Nat /\ n \in Nat /\ j \in 1 .. n
      BY <2>5, <2>7, Zenon DEF m
    <3> HIDE DEF before, whole, n
    <3>2. m \in 1 .. whole /\ ~ m <= before /\ m - before = j /\ m <= whole
      BY <3>1
    <3>3. Upto(s, k)[m] = s[k][m - before]
      BY <2>6, <3>2, Zenon DEF before, whole
    <3>4. Upto(s, k)[m] = s[i][j]
      BY <2>7, <3>2, <3>3, Zenon
    <3> QED BY <2>1, <3>2, <3>4, Zenon DEF Bad, whole
  <2>8. CASE k # i
    <3>1. k - 1 \in i .. Len(s)
      BY <2>8, <2>2
    <3>2. m <= Off(s, k - 1) /\ Upto(s, k - 1)[m] = s[i][j]
      <4>1. ~ k <= k - 1
        BY <2>2
      <4> QED BY <2>1, <2>2, <3>1, <4>1, Zenon DEF Bad
    <3>3. m \in 1 .. Off(s, k) /\ m <= Off(s, k)
      <4> DEFINE before == Off(s, k - 1)
                 whole == Off(s, k)
                 n == Len(s[k])
      <4>1. m <= before /\ whole = before + n /\ before \in Nat /\ n \in Nat /\ m \in Nat \ {0}
        BY <1>0, <2>5, <3>2, Zenon
      <4> HIDE DEF before, whole, n
      <4>2. m \in 1 .. whole /\ m <= whole
        BY <4>1
      <4> QED BY <4>2, Zenon DEF whole
    <3>4. Upto(s, k)[m] = s[i][j]
      BY <3>2, <3>3, <2>6, Zenon
    <3> QED BY <2>1, <3>3, <3>4, Zenon DEF Bad
  <2> QED BY <2>7, <2>8
<1>2. Len(s) \in Nat /\ Len(s) \in i .. Len(s)
  OBVIOUS
<1>3. m <= Off(s, Len(s)) /\ Upto(s, Len(s))[m] = s[i][j]
  BY <1>1, <1>2
<1>4. Off(s, Len(s)) = Len(FlattenSeq(s)) /\ Upto(s, Len(s)) = FlattenSeq(s)
  BY OffStep, FlattenPrefixes, Zenon
<1>5. Off(s, Len(s)) \in Nat
  <2>1. Len(s) \in 0 .. Len(s)
    OBVIOUS
  <2> QED BY <2>1, OffStep
<1> QED BY <1>0, <1>3, <1>4, <1>5 DEF m

\* Each element of the whole is an element of some entry.
LEMMA FlattenFind ==
  ASSUME NEW S, NEW s \in Seq(Seq(S)), NEW m \in 1 .. Len(FlattenSeq(s))
  PROVE  \E i \in 1 .. Len(s) : \E j \in 1 .. Len(s[i]) :
           /\ m = Off(s, i - 1) + j
           /\ FlattenSeq(s)[m] = s[i][j]
<1> DEFINE Reach == {k \in Nat : k \in 0 .. Len(s) /\ m <= Off(s, k)}
<1>1. Len(s) \in Reach
  BY OffStep
<1>2. PICK i \in Reach : \A n \in Reach : i <= n
  BY <1>1, Least, Zenon
<1>3. i # 0
  BY <1>2, OffStep
<1>4. i \in 1 .. Len(s) /\ i - 1 \in 0 .. Len(s) /\ i - 1 \in Nat
  BY <1>2, <1>3, SMT
<1>5. ~ m <= Off(s, i - 1)
  BY <1>2, <1>4, SMT
<1>6. Off(s, i) = Off(s, i - 1) + Len(s[i]) /\ Off(s, i - 1) \in Nat /\ Len(s[i]) \in Nat
  BY <1>4, OffStep
<1> DEFINE j == m - Off(s, i - 1)
<1>7. j \in 1 .. Len(s[i]) /\ m = Off(s, i - 1) + j
  BY <1>2, <1>5, <1>6
<1> HIDE DEF j
<1>8. FlattenSeq(s)[Off(s, i - 1) + j] = s[i][j]
  BY <1>4, <1>7, FlattenAt, Zenon
<1> QED BY <1>4, <1>7, <1>8, Zenon

\* Concatenation is associative, its parts given by name.
LEMMA ConcatThree ==
  ASSUME NEW S, NEW x \in Seq(S), NEW y \in Seq(S), NEW z \in Seq(S)
  PROVE  (x \o y) \o z = x \o (y \o z)
<1> DEFINE xy == x \o y
           yz == y \o z
           l == xy \o z
           r == x \o yz
           a == Len(x)
           b == Len(y)
           c == Len(z)
<1>1. a \in Nat /\ b \in Nat /\ c \in Nat
  OBVIOUS
<1>2. /\ xy \in Seq(S) /\ Len(xy) = a + b
      /\ yz \in Seq(S) /\ Len(yz) = b + c
      /\ \A n \in 1 .. a + b : xy[n] = IF n <= a THEN x[n] ELSE y[n - a]
      /\ \A n \in 1 .. b + c : yz[n] = IF n <= b THEN y[n] ELSE z[n - b]
  BY ConcatProperties, Zenon
<1> HIDE DEF xy, yz
<1>3. /\ l \in Seq(S) /\ Len(l) = (a + b) + c
      /\ r \in Seq(S) /\ Len(r) = a + (b + c)
      /\ \A n \in 1 .. (a + b) + c : l[n] = IF n <= a + b THEN xy[n] ELSE z[n - (a + b)]
      /\ \A n \in 1 .. a + (b + c) : r[n] = IF n <= a THEN x[n] ELSE yz[n - a]
  <2>1. xy \in Seq(S) /\ yz \in Seq(S)
    BY <1>2, Zenon
  <2>2. /\ l \in Seq(S) /\ Len(l) = Len(xy) + c
        /\ \A n \in 1 .. Len(xy) + c : l[n] = IF n <= Len(xy) THEN xy[n] ELSE z[n - Len(xy)]
    BY <2>1, ConcatProperties, Zenon
  <2>3. /\ r \in Seq(S) /\ Len(r) = a + Len(yz)
        /\ \A n \in 1 .. a + Len(yz) : r[n] = IF n <= a THEN x[n] ELSE yz[n - a]
    BY <2>1, ConcatProperties, Zenon
  <2> HIDE DEF l, r, a, b, c
  <2> QED BY <1>2, <2>2, <2>3, Zenon
<1> HIDE DEF l, r, a, b, c
<1>4. (a + b) + c = a + (b + c)
  BY <1>1
<1>5. ASSUME NEW i \in 1 .. (a + b) + c PROVE l[i] = r[i]
  <2>1. i \in 1 .. a + (b + c)
    BY <1>4, Zenon
  <2>2. CASE i <= a
    <3>1. i \in 1 .. a + b /\ i <= a + b
      BY <1>1, <2>2
    <3> QED BY <1>2, <1>3, <2>1, <2>2, <3>1, Zenon
  <2>3. CASE ~ i <= a /\ i <= a + b
    <3>1. i \in 1 .. a + b /\ i - a \in 1 .. b + c /\ i - a <= b
      BY <1>1, <2>3
    <3> QED BY <1>2, <1>3, <2>1, <2>3, <3>1, Zenon
  <2>4. CASE ~ i <= a + b
    <3>1. i - a \in 1 .. b + c /\ ~ i - a <= b /\ ~ i <= a /\ (i - a) - b = i - (a + b)
      BY <1>1, <2>4
    <3> QED BY <1>2, <1>3, <2>1, <2>4, <3>1, Zenon
  <2>5. i <= a + b \/ ~ i <= a + b
    OBVIOUS
  <2> QED BY <2>2, <2>3, <2>4, <2>5, Zenon
<1>6. l = r
  BY <1>3, <1>4, <1>5, SeqEqual, Zenon
<1> QED BY <1>6, Zenon DEF l, r, xy, yz

\* Flattening distributes over concatenation.
LEMMA FlattenConcat ==
  ASSUME NEW S, NEW s \in Seq(Seq(S)), NEW t \in Seq(Seq(S))
  PROVE  FlattenSeq(s \o t) = FlattenSeq(s) \o FlattenSeq(t)
<1> DEFINE u == s \o t
           Bad == {k \in Nat : k \in 0 .. Len(t) /\ Upto(u, Len(s) + k) # FlattenSeq(s) \o Upto(t, k)}
<1>1. /\ u \in Seq(Seq(S)) /\ Len(u) = Len(s) + Len(t)
      /\ \A i \in 1 .. Len(s) : u[i] = s[i]
      /\ \A i \in 1 .. Len(t) : u[Len(s) + i] = t[i]
  BY ConcatProperties
<1>2. Len(s) \in Nat /\ Len(t) \in Nat
  OBVIOUS
<1>3. FlattenSeq(s) \in Seq(S)
  BY FlattenType
<1>4. Upto(u, Len(s) + 0) = FlattenSeq(s) \o Upto(t, 0)
  <2>1. Upto(t, 0) = <<>>
    BY FlattenPrefixes, Zenon
  <2>2. SubSeq(u, 1, Len(s)) = s
    <3> HIDE DEF u
    <3> QED BY <1>1, <1>2, SubSeqProperties, SeqEqual
  <2>3. Upto(u, Len(s)) = FlattenSeq(s)
    BY <2>2, Zenon DEF Upto
  <2>4. FlattenSeq(s) \o <<>> = FlattenSeq(s)
    BY <1>3, ConcatEmptySeq
  <2>5. Len(s) + 0 = Len(s)
    BY <1>2
  <2> QED BY <2>1, <2>3, <2>4, <2>5, Zenon
<1> HIDE DEF u
<1>5. Bad = {}
  <2> SUFFICES ASSUME Bad # {} PROVE FALSE
    OBVIOUS
  <2>1. PICK k \in Bad : \A n \in Bad : k <= n
    BY Least, Zenon
  <2>2. k # 0
    BY <2>1, <1>4
  <2>3. k \in 1 .. Len(t) /\ k - 1 \in 0 .. Len(t) /\ k - 1 \in Nat /\ ~ k <= k - 1
    BY <2>1, <2>2
  <2>4. Upto(u, Len(s) + (k - 1)) = FlattenSeq(s) \o Upto(t, k - 1)
    BY <2>1, <2>3, Zenon
  <2>5. Upto(t, k) = Upto(t, k - 1) \o t[k]
    BY <2>3, FlattenPrefixes
  <2>6. Upto(u, Len(s) + k) = Upto(u, Len(s) + (k - 1)) \o t[k]
    <3>1. Len(s) + k \in 1 .. Len(u) /\ (Len(s) + k) - 1 = Len(s) + (k - 1)
      BY <2>3, <1>2, <1>1
    <3>2. Upto(u, Len(s) + k) = Upto(u, (Len(s) + k) - 1) \o u[Len(s) + k]
      BY <3>1, <1>1, FlattenPrefixes
    <3> QED BY <3>1, <3>2, <1>1, <2>3
  <2>7. Upto(t, k - 1) \in Seq(S) /\ t[k] \in Seq(S)
    <3>1. Upto(t, k - 1) \in Seq(S)
      BY <2>3, FlattenType, Zenon
    <3>2. t[k] \in Seq(S)
      BY <2>3
    <3> QED BY <3>1, <3>2
  <2>8. Upto(u, Len(s) + k) = FlattenSeq(s) \o Upto(t, k)
    <3> DEFINE x == FlattenSeq(s)
               y == Upto(t, k - 1)
               z == t[k]
               xy == Upto(u, Len(s) + (k - 1))
               yz == Upto(t, k)
    <3>1. x \in Seq(S) /\ y \in Seq(S) /\ z \in Seq(S) /\ xy = x \o y /\ yz = y \o z
      BY <2>4, <2>5, <2>7, <1>3, Zenon
    <3>2. Upto(u, Len(s) + k) = xy \o z
      BY <2>6, Zenon
    <3> HIDE DEF x, y, z, xy, yz, Bad
    <3>a. x \in Seq(S) /\ y \in Seq(S) /\ z \in Seq(S)
      BY <3>1, Zenon
    <3>3. (x \o y) \o z = x \o (y \o z)
      BY <3>a, ConcatThree
    <3> QED BY <3>1, <3>2, <3>3, Zenon DEF x, yz
  <2> QED BY <2>1, <2>8, Zenon
<1>6. Upto(u, Len(s) + Len(t)) = FlattenSeq(s) \o Upto(t, Len(t))
  <2>1. Len(t) \in Nat /\ Len(t) \in 0 .. Len(t)
    OBVIOUS
  <2> QED BY <1>5, <2>1, Zenon
<1>7. Upto(u, Len(u)) = FlattenSeq(u) /\ Upto(t, Len(t)) = FlattenSeq(t)
  BY <1>1, FlattenPrefixes, Zenon
<1> QED BY <1>1, <1>6, <1>7, Zenon DEF u

---------------------------------------------------------------------------
(*************************************************************************)
(* Lines, and what they mean.                                            *)
(*************************************************************************)
\* A line of an Agent text in which each symbol is a line of its own.
Line == Own \cup Symbols \cup RawLines

\* What resolveAllSymbols makes of each line of a text.
Meanings(text) == [i \in DOMAIN text |-> Meaning(text[i])]

\* What a symbol consists of: a range of the lines of its datum.
LEMMA SymbolFields ==
  ASSUME NEW s \in Symbols
  PROVE  /\ s.symbol \in Datum
         /\ s.from \in 1 .. Height[s.symbol]
         /\ s.to \in s.from .. Height[s.symbol]
         /\ s = SymbolOf(s.symbol, s.from, s.to)
         /\ Height[s.symbol] \in Nat \ {0}
BY LinesAssumption DEF Symbols, SymbolOf

\* Every range of lines has a symbol.
LEMMA SymbolOfInSymbols ==
  ASSUME NEW d \in Datum, NEW i \in 1 .. Height[d], NEW j \in i .. Height[d]
  PROVE  SymbolOf(d, i, j) \in Symbols
<1>1. j \in 1 .. Height[d] /\ i <= j
  BY LinesAssumption
<1> QED BY <1>1 DEF Symbols, SymbolOf

\* IsSymbol is membership in Symbols.
LEMMA SymbolIsInSymbols == \A l : IsSymbol(l) <=> l \in Symbols
<1>1. ASSUME NEW l, IsSymbol(l) PROVE l \in Symbols
  BY <1>1, SymbolOfInSymbols DEF IsSymbol
<1>2. ASSUME NEW l, l \in Symbols PROVE IsSymbol(l)
  BY <1>2, SymbolFields DEF IsSymbol
<1> QED BY <1>1, <1>2

\* A line is a symbol, a raw line, or one of the agent's or the human's.
LEMMA KindsOfLines ==
  /\ Symbols \cap RawLines = {}
  /\ Own \cap Symbols = {}
  /\ Own \cap RawLines = {}
<1>1. Own \cap Symbols = {} /\ Own \cap RawLines = {}
  BY LinesAssumption, Zenon
<1>2. ASSUME NEW l \in Symbols, l \in RawLines PROVE FALSE
  <2>1. PICK d \in Datum, i \in Nat : l = [raw |-> d, at |-> i]
    BY <1>2, LinesAssumption DEF RawLines, RawLine
  <2>2. l = [symbol |-> l.symbol, from |-> l.from, to |-> l.to]
    BY <1>2, SymbolFields DEF SymbolOf
  <2>3. DOMAIN l = {"raw", "at"}
    BY <2>1
  <2>4. DOMAIN l = {"symbol", "from", "to"}
    BY <2>2
  <2> QED BY <2>3, <2>4
<1> QED BY <1>1, <1>2

\* Such a line has nothing before a symbol or a raw line of it.
LEMMA BareLine ==
  ASSUME NEW l \in Line
  PROVE  /\ l \notin Dressed
         /\ l \notin Mixed
         /\ SymbolIn(l) = l
         /\ Meaning(l) = IF l \in Symbols THEN Value(l) ELSE <<l>>
         /\ IsSegment(l) <=> l \in Symbols /\ l \notin obsolete
         /\ HasSymbol(l) <=> l \in Symbols
<1>1. ASSUME l \in Own PROVE l \notin Dressed /\ l \notin Mixed
  BY <1>1, LinesAssumption, Zenon
<1>2. ASSUME l \in Symbols PROVE l \notin Dressed /\ l \notin Mixed
  <2>1. l = [symbol |-> l.symbol, from |-> l.from, to |-> l.to]
    BY <1>2, SymbolFields DEF SymbolOf
  <2>2. DOMAIN l = {"symbol", "from", "to"}
    BY <2>1
  <2> QED BY <2>2 DEF Dressed, Mixed
<1>3. ASSUME l \in RawLines PROVE l \notin Dressed /\ l \notin Mixed
  <2>1. PICK d \in Datum, i \in Nat : l = [raw |-> d, at |-> i]
    BY <1>3, LinesAssumption DEF RawLines, RawLine
  <2>2. DOMAIN l = {"raw", "at"}
    BY <2>1
  <2> QED BY <2>2 DEF Dressed, Mixed
<1>4. l \notin Dressed /\ l \notin Mixed
  BY <1>1, <1>2, <1>3 DEF Line
<1>5. IsSymbol(l) <=> l \in Symbols
  BY SymbolIsInSymbols
<1>6. SymbolIn(l) = l
  BY <1>4 DEF SymbolIn
<1> QED BY <1>4, <1>5, <1>6, Zenon DEF Meaning, IsSegment, HasSymbol

\* A symbol stands for as many raw lines as its range has, in order.
LEMMA ValueLines ==
  ASSUME NEW s \in Symbols
  PROVE  /\ Value(s) \in Seq(RawLines)
         /\ Len(Value(s)) = s.to + 1 - s.from
         /\ Len(Value(s)) \in Nat \ {0}
         /\ DOMAIN Value(s) = 1 .. Len(Value(s))
         /\ \A k \in 1 .. Len(Value(s)) : Value(s)[k] = RawLine(s.symbol, s.from + k - 1)
<1> DEFINE n == s.to + 1 - s.from
<1>1. /\ s.symbol \in Datum /\ s.from \in 1 .. Height[s.symbol] /\ s.to \in s.from .. Height[s.symbol]
      /\ Height[s.symbol] \in Nat
  BY SymbolFields
<1>2. \A k \in 1 .. n : RawLine(s.symbol, s.from + k - 1) \in RawLines
  <2> TAKE k \in 1 .. n
  <2>1. s.from + k - 1 \in 1 .. Height[s.symbol]
    BY <1>1
  <2> QED BY <2>1, <1>1 DEF RawLines
<1>3. n \in Nat \ {0}
  BY <1>1
<1>4. Value(s) = [k \in 1 .. n |-> RawLine(s.symbol, s.from + k - 1)]
  BY DEF Value
<1> HIDE DEF n
<1>5. Value(s) \in Seq(RawLines) /\ Len(Value(s)) = n
  BY <1>2, <1>3, <1>4
<1>6. DOMAIN Value(s) = 1 .. n
  BY <1>4
<1> QED BY <1>3, <1>4, <1>5, <1>6 DEF n

\* A line means lines without symbols.
LEMMA MeaningType ==
  ASSUME NEW l \in Line
  PROVE  Meaning(l) \in Seq(Own \cup RawLines)
<1>1. CASE l \in Symbols
  BY <1>1, BareLine, ValueLines, SeqMonotonic
<1>2. CASE l \notin Symbols
  <2>1. Meaning(l) = <<l>> /\ l \in Own \cup RawLines
    BY <1>2, BareLine DEF Line
  <2> QED BY <2>1
<1> QED BY <1>1, <1>2

\* A text resolves to the meanings of its lines, one after the other.
LEMMA MeaningsType ==
  ASSUME NEW text \in Seq(Line)
  PROVE  /\ Meanings(text) \in Seq(Seq(Own \cup RawLines))
         /\ Len(Meanings(text)) = Len(text)
         /\ \A i \in 1 .. Len(text) : Meanings(text)[i] = Meaning(text[i])
         /\ Resolve(text) = FlattenSeq(Meanings(text))
         /\ Resolve(text) \in Seq(Own \cup RawLines)
<1>1. Resolve(text) = FlattenSeq(Meanings(text))
  BY DEF Resolve, Meanings
<1>2. Meanings(text) = [i \in 1 .. Len(text) |-> Meaning(text[i])] /\ Len(text) \in Nat
  BY DEF Meanings
<1>3. \A i \in 1 .. Len(text) : Meaning(text[i]) \in Seq(Own \cup RawLines)
  BY MeaningType
<1>4. Meanings(text) \in Seq(Seq(Own \cup RawLines)) /\ Len(Meanings(text)) = Len(text)
  BY <1>2, <1>3
<1> QED BY <1>1, <1>2, <1>4, FlattenType

\* resolveAllSymbols works line by line.
LEMMA ResolveConcat ==
  ASSUME NEW a \in Seq(Line), NEW b \in Seq(Line)
  PROVE  Resolve(a \o b) = Resolve(a) \o Resolve(b)
<1>0. a \o b \in Seq(Line) /\ Len(a \o b) = Len(a) + Len(b) /\ Len(a) \in Nat /\ Len(b) \in Nat
  OBVIOUS
<1>1. Meanings(a \o b) = Meanings(a) \o Meanings(b)
  <2> DEFINE T == Seq(Own \cup RawLines)
  <2>1. /\ Meanings(a) \in Seq(T) /\ Len(Meanings(a)) = Len(a) 
        /\ \A i \in 1 .. Len(a) : Meanings(a)[i] = Meaning(a[i])
    BY MeaningsType
  <2>2. /\ Meanings(b) \in Seq(T) /\ Len(Meanings(b)) = Len(b)
        /\ \A i \in 1 .. Len(b) : Meanings(b)[i] = Meaning(b[i])
    BY MeaningsType
  <2>3. /\ Meanings(a \o b) \in Seq(T) /\ Len(Meanings(a \o b)) = Len(a) + Len(b)
        /\ \A i \in 1 .. Len(a) + Len(b) : Meanings(a \o b)[i] = Meaning((a \o b)[i])
    BY <1>0, MeaningsType
  <2>5. \A i \in 1 .. Len(a) + Len(b) : (a \o b)[i] = IF i <= Len(a) THEN a[i] ELSE b[i - Len(a)]
    BY ConcatProperties
  <2> HIDE DEF T
  <2>6. /\ Meanings(a) \o Meanings(b) \in Seq(T) /\ Len(Meanings(a) \o Meanings(b)) = Len(a) + Len(b)
        /\ \A i \in 1 .. Len(a) + Len(b) : (Meanings(a) \o Meanings(b))[i] =
               IF i <= Len(a) THEN Meanings(a)[i] ELSE Meanings(b)[i - Len(a)]
    <3> DEFINE p == Meanings(a)
               q == Meanings(b)
    <3>1. p \in Seq(T) /\ q \in Seq(T) /\ Len(p) = Len(a) /\ Len(q) = Len(b)
      BY <2>1, <2>2, Zenon
    <3> HIDE DEF p, q
    <3>2. /\ p \o q \in Seq(T) /\ Len(p \o q) = Len(p) + Len(q)
          /\ \A i \in 1 .. Len(p) + Len(q) : (p \o q)[i] = IF i <= Len(p) THEN p[i] ELSE q[i - Len(p)]
      BY <3>1, ConcatProperties, Zenon
    <3> QED BY <3>1, <3>2, Zenon DEF p, q
  <2>7. ASSUME NEW i \in 1 .. Len(a) + Len(b)
        PROVE  Meanings(a \o b)[i] = (Meanings(a) \o Meanings(b))[i]
    <3>1. CASE i <= Len(a)
      <4>1. i \in 1 .. Len(a)
        BY <3>1, <1>0
      <4> QED BY <4>1, <3>1, <2>1, <2>3, <2>5, <2>6
    <3>2. CASE ~ i <= Len(a)
      <4>1. i - Len(a) \in 1 .. Len(b)
        BY <3>2, <1>0
      <4> QED BY <4>1, <3>2, <2>2, <2>3, <2>5, <2>6
    <3> QED BY <3>1, <3>2
  <2> QED BY <2>3, <2>6, <2>7, SeqEqual
<1>2. Meanings(a) \in Seq(Seq(Own \cup RawLines)) /\ Meanings(b) \in Seq(Seq(Own \cup RawLines))
  BY MeaningsType
<1>3. Resolve(a \o b) = FlattenSeq(Meanings(a \o b))
  BY <1>0, MeaningsType
<1>4. Resolve(a) = FlattenSeq(Meanings(a)) /\ Resolve(b) = FlattenSeq(Meanings(b))
  BY MeaningsType
<1>5. FlattenSeq(Meanings(a) \o Meanings(b)) = FlattenSeq(Meanings(a)) \o FlattenSeq(Meanings(b))
  BY <1>2, FlattenConcat, Zenon
<1> QED BY <1>1, <1>3, <1>4, <1>5, Zenon

\* An empty text means an empty text.
LEMMA ResolveEmpty == Resolve(<<>>) = <<>>
BY DEF Resolve, FlattenSeq

\* A text that is put together means what its parts mean, put together.
LEMMA ResolveFlatten ==
  ASSUME NEW s \in Seq(Seq(Line)),
         NEW r \in Seq(Seq(Own \cup RawLines)), Len(r) = Len(s),
         \A i \in 1 .. Len(s) : r[i] = Resolve(s[i])
  PROVE  /\ \A k \in 0 .. Len(s) : Resolve(Upto(s, k)) = Upto(r, k)
         /\ Resolve(FlattenSeq(s)) = FlattenSeq(r)
<1> DEFINE Bad == {k \in Nat : k \in 0 .. Len(s) /\ Resolve(Upto(s, k)) # Upto(r, k)}
<1>1. Bad = {}
  <2> SUFFICES ASSUME Bad # {} PROVE FALSE
    OBVIOUS
  <2>1. PICK k \in Bad : \A m \in Bad : k <= m
    BY Least, Zenon
  <2>2. k # 0
    <3>1. Upto(s, 0) = <<>> /\ Upto(r, 0) = <<>>
      BY FlattenPrefixes, Zenon
    <3> QED BY <3>1, <2>1, ResolveEmpty, Zenon
  <2>3. k \in 1 .. Len(s) /\ k - 1 \in Nat /\ k - 1 \in 0 .. Len(s) /\ ~ k <= k - 1
    BY <2>1, <2>2
  <2>4. Resolve(Upto(s, k - 1)) = Upto(r, k - 1)
    BY <2>1, <2>3, Zenon
  <2>5. Upto(s, k) = Upto(s, k - 1) \o s[k] /\ Upto(r, k) = Upto(r, k - 1) \o r[k]
    BY <2>3, FlattenPrefixes, Zenon
  <2>6. s[k] \in Seq(Line) /\ Upto(s, k - 1) \in Seq(Line)
    BY <2>3, FlattenType
  <2>7. Resolve(Upto(s, k)) = Upto(r, k)
    BY <2>3, <2>4, <2>5, <2>6, ResolveConcat
  <2> QED BY <2>1, <2>7, Zenon
<1>2. \A k \in 0 .. Len(s) : Resolve(Upto(s, k)) = Upto(r, k)
  BY <1>1
<1>3. Upto(s, Len(s)) = FlattenSeq(s) /\ Upto(r, Len(r)) = FlattenSeq(r) 
  BY FlattenPrefixes, Zenon
<1>4. Len(s) \in 0 .. Len(s)
  OBVIOUS
<1> QED BY <1>2, <1>3, <1>4

\* A text without symbols means itself.
LEMMA ResolveLiterals ==
  ASSUME NEW text \in Seq(Line), \A i \in 1 .. Len(text) : text[i] \notin Symbols
  PROVE  Resolve(text) = text
<1> DEFINE m == Meanings(text)
           Bad == {k \in Nat : k \in 0 .. Len(text) /\ Upto(m, k) # SubSeq(text, 1, k)}
<1>1. /\ m \in Seq(Seq(Own \cup RawLines)) /\ Len(m) = Len(text)
      /\ \A i \in 1 .. Len(text) : m[i] = <<text[i]>>
      /\ Resolve(text) = FlattenSeq(m)
  BY MeaningsType, BareLine
<1> HIDE DEF m
<1>2. Bad = {}
  <2> SUFFICES ASSUME Bad # {} PROVE FALSE
    OBVIOUS
  <2>1. PICK k \in Bad : \A n \in Bad : k <= n
    BY Least, Zenon
  <2>2. k # 0
    <3>1. Upto(m, 0) = <<>> /\ SubSeq(text, 1, 0) = <<>>
      <4>1. Upto(m, 0) = <<>>
        BY <1>1, FlattenPrefixes, Zenon
      <4>2. SubSeq(text, 1, 0) = <<>>
        OBVIOUS
      <4> QED BY <4>1, <4>2
    <3> QED BY <3>1, <2>1, Zenon
  <2>3. k \in 1 .. Len(text) /\ k - 1 \in Nat /\ k - 1 \in 0 .. Len(text) /\ ~ k <= k - 1
    BY <2>1, <2>2
  <2>4. Upto(m, k - 1) = SubSeq(text, 1, k - 1)
    BY <2>1, <2>3, Zenon
  <2>5. Upto(m, k) = Upto(m, k - 1) \o m[k]
    BY <1>1, <2>3, FlattenPrefixes
  <2>6. SubSeq(text, 1, k) = SubSeq(text, 1, k - 1) \o <<text[k]>>
    <3>1. 1 \in 1 .. Len(text) /\ k \in 1 .. Len(text)
      BY <2>3
    <3> QED BY <3>1, SubSeqRecursiveSecond
  <2> QED BY <2>1, <2>3, <2>4, <2>5, <2>6, <1>1
<1>3. Upto(m, Len(text)) = SubSeq(text, 1, Len(text))
  <2>1. Len(text) \in Nat /\ Len(text) \in 0 .. Len(text)
    OBVIOUS
  <2> QED BY <1>2, <2>1
<1>4. Upto(m, Len(m)) = FlattenSeq(m)
  BY <1>1, FlattenPrefixes, Zenon
<1> QED BY <1>1, <1>3, <1>4, SubSeqFull

---------------------------------------------------------------------------
(*************************************************************************)
(* buildLineMap.                                                         *)
(*************************************************************************)
\* The recursive function of HumanStart exists.
LEMMA StartExists ==
  ASSUME NEW n \in Nat
  PROVE  \E f : f = [k \in 1 .. n |-> IF k = 1 THEN 1 ELSE f[k - 1] + Span(agent[k - 1])]
<1> DEFINE Is(f, m) == f = [k \in 1 .. m |-> IF k = 1 THEN 1 ELSE f[k - 1] + Span(agent[k - 1])]
           Bad == {m \in Nat : ~ \E f : Is(f, m)}
<1> SUFFICES ASSUME Bad # {} PROVE FALSE
  BY Zenon
<1>1. PICK k \in Bad : \A m \in Bad : k <= m
  BY Least, Zenon
<1>2. k # 0
  <2>1. Is([i \in 1 .. 0 |-> <<>>], 0)
    BY SMT
  <2> QED
    BY <2>1, Zenon
<1>3. k - 1 \in Nat /\ k - 1 \notin Bad
  <2> HIDE DEF Is
  <2> QED BY <1>1, <1>2, SMT
<1>4. PICK f : Is(f, k - 1)
  BY <1>3, Zenon
<1> DEFINE g == [i \in 1 .. k |-> IF i < k THEN f[i] ELSE IF i = 1 THEN 1 ELSE f[i - 1] + Span(agent[i - 1])]
<1>5. ASSUME NEW i \in 1 .. k
      PROVE  g[i] = IF i = 1 THEN 1 ELSE g[i - 1] + Span(agent[i - 1])
  <2>0. k \in Nat /\ i \in Int
    BY <1>1, SMT
  <2>1. CASE i < k
    <3>1. i \in 1 .. (k - 1)
      BY <2>1, <2>0
    <3>2. f[i] = IF i = 1 THEN 1 ELSE f[i - 1] + Span(agent[i - 1])
      BY <3>1, <1>4, Zenon
    <3>3. i # 1 => i - 1 \in 1 .. k /\ i - 1 < k
      BY <2>1, <2>0
    <3> HIDE DEF Is
    <3> QED BY <3>2, <3>3, <2>1, <2>0, SMT
  <2>2. CASE i = k
    <3>3. i # 1 => i - 1 \in 1 .. k /\ i - 1 < k
      BY <2>2, <2>0
    <3> QED BY <2>2, <3>3, <2>0
  <2> QED BY <2>1, <2>2, <2>0
<1>6. Is(g, k)
  BY <1>5, Zenon
<1> QED BY <1>6, Zenon

\* Where it starts does not depend on how far it goes.
LEMMA StartOfEach ==
  ASSUME NEW f, NEW n \in Nat, NEW k \in 1 .. n,
         f = [i \in 1 .. n |-> IF i = 1 THEN 1 ELSE f[i - 1] + Span(agent[i - 1])]
  PROVE  HumanStart(k) = f[k]
<1> DEFINE g == CHOOSE start : start = [i \in 1 .. k |-> IF i = 1 THEN 1 ELSE start[i - 1] + Span(agent[i - 1])]
           Bad == {i \in Nat : i \in 1 .. k /\ g[i] # f[i]}
<1>1. \E start : start = [i \in 1 .. k |-> IF i = 1 THEN 1 ELSE start[i - 1] + Span(agent[i - 1])]
  <2>1. k \in Nat
    OBVIOUS
  <2> QED BY <2>1, StartExists, Zenon
<1>2. g = [i \in 1 .. k |-> IF i = 1 THEN 1 ELSE g[i - 1] + Span(agent[i - 1])]
  BY <1>1, Zenon
<1>3. HumanStart(k) = g[k]
  BY SMT DEF HumanStart
<1> HIDE DEF g
<1>4. Bad = {}
  <2> SUFFICES ASSUME Bad # {} PROVE FALSE
    OBVIOUS
  <2>1. PICK i \in Bad : \A m \in Bad : i <= m
    BY Least, Zenon
  <2>2. i \in 1 .. k /\ i \in 1 .. n
    BY <2>1
  <2>3. g[i] = IF i = 1 THEN 1 ELSE g[i - 1] + Span(agent[i - 1])
    BY <2>2, <1>2, Zenon
  <2>4. f[i] = IF i = 1 THEN 1 ELSE f[i - 1] + Span(agent[i - 1])
    BY <2>2, Zenon
  <2>5. i # 1 => g[i - 1] = f[i - 1]
    <3>1. i # 1 => i - 1 \in Nat /\ i - 1 \in 1 .. k /\ ~ i <= i - 1
      BY <2>2
    <3>2. i # 1 => i - 1 \notin Bad
      BY <3>1, <2>1, Zenon
    <3> QED BY <3>1, <3>2, Zenon
  <2>6. g[i] # f[i]
    BY <2>1, Zenon
  <2> QED BY <2>3, <2>4, <2>5, <2>6, Zenon
<1>5. k \in Nat /\ k \in 1 .. k
  OBVIOUS
<1>6. g[k] = f[k]
  BY <1>4, <1>5, Zenon
<1> QED BY <1>3, <1>6, Zenon

\* buildLineMap: a line starts where the one before it ends.
LEMMA HumanStartStep ==
  /\ HumanStart(1) = 1
  /\ \A i \in Nat \ {0} : HumanStart(i + 1) = HumanStart(i) + Span(agent[i])
<1>1. ASSUME NEW n \in Nat \ {0}
      PROVE  /\ HumanStart(1) = 1
             /\ HumanStart(n + 1) = HumanStart(n) + Span(agent[n])
  <2>0. n + 1 \in Nat
    OBVIOUS
  <2>1. PICK f : f = [k \in 1 .. n + 1 |-> IF k = 1 THEN 1 ELSE f[k - 1] + Span(agent[k - 1])]
    BY <2>0, StartExists, Zenon
  <2>2. n + 1 \in Nat /\ n + 1 \in 1 .. n + 1 /\ n \in 1 .. n + 1 /\ 1 \in 1 .. n + 1
        /\ (n + 1) - 1 = n /\ n + 1 # 1
    OBVIOUS
  <2>3. HumanStart(n + 1) = f[n + 1] /\ HumanStart(n) = f[n] /\ HumanStart(1) = f[1]
    BY <2>1, <2>2, StartOfEach
  <2>4. f[n + 1] = f[(n + 1) - 1] + Span(agent[(n + 1) - 1])
    BY <2>1, <2>2, Zenon
  <2>5. f[1] = 1
    BY <2>1, <2>2, Zenon
  <2> QED BY <2>2, <2>3, <2>4, <2>5
<1>2. 1 \in Nat \ {0}
  OBVIOUS
<1> QED BY <1>1, <1>2

\* Every line spans at least one line of the human's text.
LEMMA SpanType ==
  ASSUME NEW l
  PROVE  Span(l) \in Nat \ {0}
<1>1. CASE IsSegment(l)
  <2>1. SymbolIn(l) \in Symbols
    BY <1>1, SymbolIsInSymbols DEF IsSegment, SymbolIn, Dressed
  <2> QED BY <1>1, <2>1, ValueLines, Zenon DEF Span
<1> QED BY <1>1 DEF Span

\* Line numbers start with 1.
LEMMA HumanStartType ==
  ASSUME NEW i \in Nat \ {0}
  PROVE  HumanStart(i) \in Nat \ {0}
<1> DEFINE Bad == {k \in Nat : k # 0 /\ HumanStart(k) \notin Nat \ {0}}
<1> SUFFICES ASSUME Bad # {} PROVE FALSE
  OBVIOUS
<1>1. PICK k \in Bad : \A m \in Bad : k <= m
  BY Least, Zenon
<1>2. k # 1
  BY <1>1, HumanStartStep
<1>3. k - 1 \in Nat \ {0} /\ ~ k <= k - 1 /\ (k - 1) + 1 = k
  BY <1>1, <1>2
<1>4. HumanStart(k - 1) \in Nat \ {0}
  BY <1>1, <1>3, Zenon
<1>5. HumanStart((k - 1) + 1) = HumanStart(k - 1) + Span(agent[k - 1])
  BY <1>3, HumanStartStep
<1>6. HumanStart(k) \in Nat \ {0}
  BY <1>3, <1>4, <1>5, SpanType
<1> QED BY <1>1, <1>6

\* Every symbol of the text is active: the line map is that of its meaning.
LEMMA HumanStartIsOffset ==
  ASSUME agent \in Seq(Line), SymbolsActive, NEW i \in 1 .. Len(agent)
  PROVE  /\ HumanStart(i) = Off(Meanings(agent), i - 1) + 1
         /\ Span(agent[i]) = Len(Meaning(agent[i]))
<1> DEFINE m == Meanings(agent)
           Bad == {k \in Nat : k \in 1 .. Len(agent) /\ HumanStart(k) # Off(m, k - 1) + 1}
<1>1. /\ m \in Seq(Seq(Own \cup RawLines)) /\ Len(m) = Len(agent)
      /\ \A k \in 1 .. Len(agent) : m[k] = Meaning(agent[k])
  BY MeaningsType
<1>2. ASSUME NEW k \in 1 .. Len(agent) PROVE Span(agent[k]) = Len(Meaning(agent[k]))
  <2>1. agent[k] \in Line /\ agent[k] \notin obsolete
    BY DEF SymbolsActive
  <2>2. CASE agent[k] \in Symbols
    BY <2>1, <2>2, BareLine, Zenon DEF Span
  <2>3. CASE agent[k] \notin Symbols
    <3>1. Meaning(agent[k]) = <<agent[k]>> /\ ~IsSegment(agent[k])
      BY <2>1, <2>3, BareLine, Zenon
    <3>2. Span(agent[k]) = 1
      BY <3>1, Zenon DEF Span
    <3>3. Len(<<agent[k]>>) = 1
      OBVIOUS
    <3> QED BY <3>1, <3>2, <3>3, Zenon
  <2> QED BY <2>2, <2>3
<1> HIDE DEF m
<1>3. Bad = {}
  <2> SUFFICES ASSUME Bad # {} PROVE FALSE
    OBVIOUS
  <2>1. PICK k \in Bad : \A n \in Bad : k <= n
    BY Least, Zenon
  <2>2. k # 1
    <3>1. Off(m, 0) = 0
      BY <1>1, OffStep, Zenon
    <3> QED BY <3>1, <2>1, HumanStartStep
  <2>3. k - 1 \in Nat /\ k - 1 # 0 /\ k - 1 \in 1 .. Len(agent) /\ ~ k <= k - 1 /\ (k - 1) + 1 = k
        /\ k - 1 \in 1 .. Len(m) /\ (k - 1) - 1 \in 0 .. Len(m)
    BY <2>1, <2>2, <1>1
  <2>4. HumanStart(k - 1) = Off(m, (k - 1) - 1) + 1
    BY <2>1, <2>3, Zenon
  <2>5. HumanStart((k - 1) + 1) = HumanStart(k - 1) + Span(agent[k - 1])
    BY <2>3, HumanStartStep
  <2>6. Off(m, k - 1) = Off(m, (k - 1) - 1) + Len(m[k - 1]) /\ Off(m, (k - 1) - 1) \in Nat
    BY <1>1, <2>3, OffStep, Zenon
  <2>7. Span(agent[k - 1]) = Len(m[k - 1]) /\ Span(agent[k - 1]) \in Nat
    <3>1. Span(agent[k - 1]) = Len(m[k - 1])
      BY <1>1, <1>2, <2>3, Zenon
    <3> QED BY <3>1, SpanType
  <2>8. HumanStart(k) = Off(m, k - 1) + 1
    <3>1. HumanStart(k) = (Off(m, (k - 1) - 1) + 1) + Span(agent[k - 1])
      BY <2>3, <2>4, <2>5, Zenon
    <3>2. Off(m, k - 1) = Off(m, (k - 1) - 1) + Span(agent[k - 1])
      BY <2>6, <2>7, Zenon
    <3> DEFINE x == Off(m, (k - 1) - 1)
               y == Span(agent[k - 1])
    <3>3. x \in Nat /\ y \in Nat
      BY <2>6, <2>7, Zenon
    <3> HIDE DEF x, y
    <3>4. (x + 1) + y = (x + y) + 1
      BY <3>3
    <3> QED BY <3>1, <3>2, <3>4, Zenon DEF x, y
  <2> QED BY <2>1, <2>8
<1>4. i \in Nat
  OBVIOUS
<1> QED BY <1>2, <1>3, <1>4 DEF m

---------------------------------------------------------------------------
(*************************************************************************)
(* splitSymbol.  The operators below are the ones local to Split.        *)
(*************************************************************************)
\* A line of a symbol that the human has left as it was.
Kept(s, slice, k) == k \in DOMAIN Value(s) /\ slice[k] = Value(s)[k]

\* The last line of a run of them that begins with the k-th.
RunEnd(s, slice, k) ==
  CHOOSE e \in DOMAIN Value(s) :
    /\ e >= k
    /\ \A j \in k .. e : Kept(s, slice, j)
    /\ ~Kept(s, slice, e + 1)

\* What the k-th line becomes.
Pieces(s, slice) ==
  [k \in DOMAIN Value(s) |->
    IF ~Kept(s, slice, k) THEN <<slice[k]>>
    ELSE IF Kept(s, slice, k - 1) THEN <<>>
    ELSE <<SymbolOf(s.symbol, s.from + k - 1, s.from + RunEnd(s, slice, k) - 1)>>]

\* splitSymbol puts the pieces together.
LEMMA SplitIsPieces ==
  ASSUME NEW s, NEW slice
  PROVE  Split(s, slice) = FlattenSeq(Pieces(s, slice))
BY DEF Split, Pieces, RunEnd, Kept

\* A run of kept lines has an end, and ends where a line is not kept.
LEMMA RunEndProperties ==
  ASSUME NEW s \in Symbols, NEW slice, NEW k \in 1 .. Len(Value(s)), Kept(s, slice, k)
  PROVE  /\ RunEnd(s, slice, k) \in k .. Len(Value(s))
         /\ \A j \in k .. RunEnd(s, slice, k) : Kept(s, slice, j)
         /\ ~Kept(s, slice, RunEnd(s, slice, k) + 1)
<1> DEFINE n == Len(Value(s))
           Ends == {e \in Nat : e >= k /\ ~Kept(s, slice, e + 1)}
<1>1. n \in Nat \ {0} /\ DOMAIN Value(s) = 1 .. n
  BY ValueLines
<1> HIDE DEF n
<1>2. n \in Ends
  <2>1. n >= k /\ n + 1 \notin 1 .. n
    BY <1>1 DEF n
  <2> QED BY <1>1, <2>1 DEF Kept
<1>3. PICK e \in Ends : \A m \in Ends : e <= m
  BY <1>2, Least, Zenon
<1>4. e \in k .. n /\ k \in Nat
  BY <1>1, <1>2, <1>3 DEF n
<1>5. ASSUME NEW j \in k .. e PROVE Kept(s, slice, j)
  <2>1. CASE j = k
    BY <2>1
  <2>2. CASE j # k
    <3>1. j - 1 \in Nat /\ j - 1 >= k /\ ~ e <= j - 1 /\ (j - 1) + 1 = j
      BY <2>2, <1>4
    <3>2. j - 1 \notin Ends
      BY <1>3, <3>1, Zenon
    <3> QED BY <3>1, <3>2
  <2> QED BY <2>1, <2>2
<1>6. e \in DOMAIN Value(s) /\ e >= k /\ ~Kept(s, slice, e + 1)
  BY <1>1, <1>3, <1>4 DEF n
<1>7. /\ RunEnd(s, slice, k) \in DOMAIN Value(s)
      /\ RunEnd(s, slice, k) >= k
      /\ \A j \in k .. RunEnd(s, slice, k) : Kept(s, slice, j)
      /\ ~Kept(s, slice, RunEnd(s, slice, k) + 1)
  BY <1>5, <1>6, Zenon DEF RunEnd
<1> QED BY <1>1, <1>7, <1>4 DEF n

\* A line is replaced, in a run that began before it, or begins a run.
LEMMA PiecesOver ==
  ASSUME NEW T, NEW s \in Symbols, NEW slice \in Seq(T), Len(slice) = Len(Value(s))
  PROVE  /\ Pieces(s, slice) \in Seq(Seq(T \cup Symbols))
         /\ Len(Pieces(s, slice)) = Len(Value(s))
         /\ \A k \in 1 .. Len(Value(s)) :
              /\ ~Kept(s, slice, k) => Pieces(s, slice)[k] = <<slice[k]>>
              /\ Kept(s, slice, k) /\ Kept(s, slice, k - 1) => Pieces(s, slice)[k] = <<>>
              /\ Kept(s, slice, k) /\ ~Kept(s, slice, k - 1) =>
                   /\ Pieces(s, slice)[k] =
                        <<SymbolOf(s.symbol, s.from + k - 1, s.from + RunEnd(s, slice, k) - 1)>>
                   /\ SymbolOf(s.symbol, s.from + k - 1, s.from + RunEnd(s, slice, k) - 1) \in Symbols
<1> DEFINE n == Len(Value(s))
           p == Pieces(s, slice)
           run(k) == SymbolOf(s.symbol, s.from + k - 1, s.from + RunEnd(s, slice, k) - 1)
<1>1. n \in Nat \ {0} /\ DOMAIN Value(s) = 1 .. n /\ n = s.to + 1 - s.from
  BY ValueLines
<1>2. /\ s.symbol \in Datum /\ s.from \in 1 .. Height[s.symbol] /\ s.to \in s.from .. Height[s.symbol]
      /\ Height[s.symbol] \in Nat
  BY SymbolFields
<1>3. ASSUME NEW k \in 1 .. n, Kept(s, slice, k) PROVE run(k) \in Symbols
  <2>1. RunEnd(s, slice, k) \in k .. n
    BY <1>3, RunEndProperties
  <2>2. s.from + k - 1 \in 1 .. Height[s.symbol]
    BY <1>1, <1>2
  <2>3. s.from + RunEnd(s, slice, k) - 1 \in s.from + k - 1 .. Height[s.symbol]
    <3> DEFINE e == RunEnd(s, slice, k)
               from == s.from
               to == s.to
               height == Height[s.symbol]
    <3>1. /\ e \in k .. n /\ n = to + 1 - from /\ from \in 1 .. height /\ to \in from .. height
          /\ height \in Nat /\ k \in 1 .. n
      BY <1>1, <1>2, <2>1, Zenon
    <3> HIDE DEF e, from, to, height, n
    <3>2. from + e - 1 \in from + k - 1 .. height
      BY <3>1
    <3> QED BY <3>2, Zenon DEF e, from, height
  <2> QED BY <1>2, <2>2, <2>3, SymbolOfInSymbols
<1> DEFINE L == T \cup Symbols
<1>4. ASSUME NEW k \in 1 .. n PROVE slice[k] \in L
  OBVIOUS
<1>5. p = [k \in 1 .. n |->
            IF ~Kept(s, slice, k) THEN <<slice[k]>>
            ELSE IF Kept(s, slice, k - 1) THEN <<>> ELSE <<run(k)>>]
  BY <1>1, Zenon DEF Pieces
<1>b. Symbols \subseteq L
  OBVIOUS
<1> HIDE DEF n, p, run, L
<1>6. ASSUME NEW k \in 1 .. n PROVE p[k] \in Seq(L)
  <2>1. CASE ~Kept(s, slice, k)
    <3>1. p[k] = <<slice[k]>>
      BY <1>5, <2>1, Zenon
    <3> QED BY <3>1, <1>4
  <2>2. CASE Kept(s, slice, k) /\ Kept(s, slice, k - 1)
    <3>1. p[k] = <<>>
      BY <1>5, <2>2, Zenon
    <3> QED BY <3>1
  <2>3. CASE Kept(s, slice, k) /\ ~Kept(s, slice, k - 1)
    <3>1. p[k] = <<run(k)>>
      BY <1>5, <2>3, Zenon
    <3>2. run(k) \in L
      BY <1>b, <1>3, <2>3
    <3> QED BY <3>1, <3>2
  <2> QED BY <2>1, <2>2, <2>3
<1>7. p \in Seq(Seq(L)) /\ Len(p) = n
  <2>1. n \in Nat
    BY <1>1
  <2>2. p \in [1 .. n -> Seq(L)]
    <3> SUFFICES ASSUME TRUE PROVE p = [k \in 1 .. n |-> p[k]]
      BY <1>6, Zenon
    <3> QED BY <1>5, Zenon
  <2> QED BY <2>1, <2>2
<1>8. ASSUME NEW k \in 1 .. n
      PROVE  /\ ~Kept(s, slice, k) => p[k] = <<slice[k]>>
             /\ Kept(s, slice, k) /\ Kept(s, slice, k - 1) => p[k] = <<>>
             /\ Kept(s, slice, k) /\ ~Kept(s, slice, k - 1) => p[k] = <<run(k)>> /\ run(k) \in Symbols
  BY <1>3, <1>5, Zenon
<1> QED BY <1>7, <1>8, Zenon DEF n, p, run, L

\* The pieces of a slice of lines without symbols.
LEMMA PiecesType ==
  ASSUME NEW s \in Symbols, NEW slice \in Seq(Own \cup RawLines), Len(slice) = Len(Value(s))
  PROVE  /\ Pieces(s, slice) \in Seq(Seq(Line))
         /\ Len(Pieces(s, slice)) = Len(Value(s))
         /\ \A k \in 1 .. Len(Value(s)) :
              /\ ~Kept(s, slice, k) => Pieces(s, slice)[k] = <<slice[k]>>
              /\ Kept(s, slice, k) /\ Kept(s, slice, k - 1) => Pieces(s, slice)[k] = <<>>
              /\ Kept(s, slice, k) /\ ~Kept(s, slice, k - 1) =>
                   /\ Pieces(s, slice)[k] =
                        <<SymbolOf(s.symbol, s.from + k - 1, s.from + RunEnd(s, slice, k) - 1)>>
                   /\ SymbolOf(s.symbol, s.from + k - 1, s.from + RunEnd(s, slice, k) - 1) \in Symbols
<1>1. (Own \cup RawLines) \cup Symbols = Line
  BY DEF Line
<1> DEFINE T == Own \cup RawLines
<1>2. slice \in Seq(T) /\ T \cup Symbols = Line
  BY <1>1, Zenon
<1> HIDE DEF T
<1> QED BY <1>2, PiecesOver, Zenon

\* A symbol of some of the lines of another, not all.
StrictlyInside(t, s) ==
  /\ t.symbol = s.symbol
  /\ s.from <= t.from
  /\ t.to <= s.to
  /\ t # s

\* What each line of a split symbol is: a symbol of fewer lines, or one the
\* human has changed; and the symbols leave a gap between them.
LEMMA SplitElements ==
  ASSUME NEW s \in Symbols, NEW slice \in Seq(Own \cup RawLines),
         Len(slice) = Len(Value(s)), slice # Value(s)
  PROVE  /\ Split(s, slice) \in Seq(Line)
         /\ \A a \in 1 .. Len(Split(s, slice)) :
              \/ /\ Split(s, slice)[a] \in Symbols
                 /\ StrictlyInside(Split(s, slice)[a], s)
              \/ \E k \in 1 .. Len(slice) :
                   Split(s, slice)[a] = slice[k] /\ slice[k] # Value(s)[k]
         /\ \A a, b \in 1 .. Len(Split(s, slice)) :
              /\ a < b
              /\ Split(s, slice)[a] \in Symbols
              /\ Split(s, slice)[b] \in Symbols
              => Split(s, slice)[a].to + 1 < Split(s, slice)[b].from
<1> DEFINE n == Len(Value(s))
           p == Pieces(s, slice)
           q == Split(s, slice)
           end(k) == RunEnd(s, slice, k)
           run(k) == SymbolOf(s.symbol, s.from + k - 1, s.from + end(k) - 1)
           kept(k) == Kept(s, slice, k)
<1>1. /\ p \in Seq(Seq(Line)) /\ Len(p) = n
      /\ \A k \in 1 .. n :
              /\ ~kept(k) => p[k] = <<slice[k]>>
              /\ kept(k) /\ kept(k - 1) => p[k] = <<>>
              /\ kept(k) /\ ~kept(k - 1) => p[k] = <<run(k)>> /\ run(k) \in Symbols
  BY PiecesType, Zenon
<1>2. q = FlattenSeq(p)
  BY SplitIsPieces
<1>3. /\ n \in Nat \ {0} /\ DOMAIN Value(s) = 1 .. n /\ n = s.to + 1 - s.from
      /\ s.from \in Nat /\ s.to \in Nat
  BY ValueLines, SymbolFields
<1>4. \A k \in 1 .. n : kept(k) => /\ end(k) \in k .. n
                                   /\ \A j \in k .. end(k) : kept(j)
                                   /\ ~kept(end(k) + 1)
  BY RunEndProperties, Zenon
<1>5. \A k : kept(k) <=> k \in 1 .. n /\ slice[k] = Value(s)[k]
  BY <1>3 DEF Kept
<1> HIDE DEF n, p, q, end, kept
<1>6. q \in Seq(Line)
  BY <1>1, <1>2, FlattenType
<1>7. ASSUME NEW a \in 1 .. Len(q)
      PROVE  \E k \in 1 .. n : /\ a = Off(p, k - 1) + 1
                               /\ Len(p[k]) = 1
                               /\ \/ kept(k) /\ ~kept(k - 1) /\ q[a] = run(k) /\ q[a] \in Symbols
                                  \/ ~kept(k) /\ q[a] = slice[k]
  <2>1. PICK k \in 1 .. Len(p) : \E j \in 1 .. Len(p[k]) : a = Off(p, k - 1) + j /\ q[a] = p[k][j]
    <3>1. p \in Seq(Seq(Line))
      BY <1>1, Zenon
    <3>2. a \in 1 .. Len(FlattenSeq(p))
      BY <1>2, Zenon
    <3>3. \E i \in 1 .. Len(p) : \E j \in 1 .. Len(p[i]) :
            a = Off(p, i - 1) + j /\ FlattenSeq(p)[a] = p[i][j]
      BY <3>1, <3>2, FlattenFind, Zenon
    <3> QED BY <1>2, <3>3, Zenon
  <2>2. PICK j \in 1 .. Len(p[k]) : a = Off(p, k - 1) + j /\ q[a] = p[k][j]
    BY <2>1
  <2>3. k \in 1 .. n
    BY <1>1
  <2>4. CASE ~kept(k)
    <3>1. p[k] = <<slice[k]>>
      BY <2>3, <2>4, <1>1, Zenon
    <3>2. j = 1 /\ Len(p[k]) = 1 /\ p[k][1] = slice[k]
      BY <3>1
    <3> QED BY <2>2, <2>3, <2>4, <3>2, Zenon
  <2>5. CASE kept(k) /\ kept(k - 1)
    <3>1. p[k] = <<>>
      BY <2>3, <2>5, <1>1, Zenon
    <3> QED BY <3>1
  <2>6. CASE kept(k) /\ ~kept(k - 1)
    <3>1. p[k] = <<run(k)>> /\ run(k) \in Symbols
      BY <2>3, <2>6, <1>1, Zenon
    <3> HIDE DEF run
    <3>2. j = 1 /\ Len(p[k]) = 1 /\ p[k][1] = run(k)
      BY <3>1
    <3> QED BY <2>2, <2>3, <2>6, <3>1, <3>2, Zenon
  <2> QED BY <2>4, <2>5, <2>6
<1>8. ASSUME NEW k \in 1 .. n, kept(k), ~kept(k - 1)
      PROVE  StrictlyInside(run(k), s)
  <2>1. end(k) \in k .. n
    BY <1>4, <1>8, Zenon
  <2>2. /\ run(k).symbol = s.symbol /\ run(k).from = s.from + k - 1
        /\ run(k).to = s.from + end(k) - 1
    BY DEF SymbolOf
  <2> DEFINE from == s.from
             to == s.to
             e == end(k)
  <2>a. n \in Nat \ {0} /\ n = to + 1 - from /\ from \in Nat /\ to \in Nat /\ e \in k .. n
    BY <1>3, <2>1, Zenon
  <2> HIDE DEF from, to, e
  <2>3. s.from <= run(k).from /\ run(k).to <= s.to
    <3>1. from <= from + k - 1 /\ from + e - 1 <= to
      BY <2>a
    <3> QED BY <2>2, <3>1, Zenon DEF from, to, e
  <2>4. run(k) # s
    <3> SUFFICES ASSUME run(k) = s PROVE FALSE
      OBVIOUS
    <3>1. k = 1 /\ end(k) = n
      <4>1. from = from + k - 1 /\ to = from + e - 1
        BY <2>2, Zenon DEF from, to, e
      <4>2. k = 1 /\ e = n
        BY <2>a, <4>1
      <4> QED BY <4>2, Zenon DEF e
    <3>2. \A j \in 1 .. n : kept(j)
      BY <3>1, <1>4, <1>8, Zenon
    <3>3. \A j \in 1 .. n : slice[j] = Value(s)[j]
      BY <3>2, <1>5, Zenon
    <3>4. Value(s) \in Seq(Own \cup RawLines)
      BY ValueLines, SeqMonotonic
    <3>5. slice = Value(s)
      BY <3>3, <3>4, SeqEqual DEF n
    <3> QED BY <3>5
  <2> QED BY <2>2, <2>3, <2>4 DEF StrictlyInside
<1>9. ASSUME NEW a \in 1 .. Len(q)
      PROVE  \/ q[a] \in Symbols /\ StrictlyInside(q[a], s)
             \/ \E k \in 1 .. Len(slice) : q[a] = slice[k] /\ slice[k] # Value(s)[k]
  <2>1. PICK k \in 1 .. n : \/ kept(k) /\ ~kept(k - 1) /\ q[a] = run(k) /\ q[a] \in Symbols
                            \/ ~kept(k) /\ q[a] = slice[k]
    BY <1>7, Zenon
  <2>2. k \in 1 .. Len(slice)
    BY DEF n
  <2>3. CASE kept(k) /\ ~kept(k - 1) /\ q[a] = run(k) /\ q[a] \in Symbols
    BY <2>3, <1>8, Zenon
  <2>4. CASE ~kept(k) /\ q[a] = slice[k]
    BY <2>2, <2>4, <1>5, Zenon
  <2> QED BY <2>1, <2>3, <2>4
<1>10. \A k \in 1 .. n : slice[k] \notin Symbols
  <2> TAKE k \in 1 .. n
  <2>1. slice[k] \in Own \cup RawLines
    BY DEF n
  <2> QED BY <2>1, KindsOfLines
<1>11. ASSUME NEW a \in 1 .. Len(q), NEW b \in 1 .. Len(q), a < b, q[a] \in Symbols, q[b] \in Symbols
       PROVE  q[a].to + 1 < q[b].from
  <2>1. PICK k \in 1 .. n : /\ a = Off(p, k - 1) + 1 /\ Len(p[k]) = 1
                            /\ kept(k) /\ ~kept(k - 1) /\ q[a] = run(k)
    BY <1>7, <1>10, <1>11, Zenon
  <2>2. PICK h \in 1 .. n : /\ b = Off(p, h - 1) + 1 /\ Len(p[h]) = 1
                            /\ kept(h) /\ ~kept(h - 1) /\ q[b] = run(h)
    BY <1>7, <1>10, <1>11, Zenon
  <2>3. k < h
    <3> SUFFICES ASSUME h <= k PROVE FALSE
      OBVIOUS
    <3>1. h - 1 \in 0 .. Len(p) /\ k - 1 \in 0 .. Len(p) /\ h - 1 <= k - 1
      BY <1>1, <1>3
    <3>2. Off(p, h - 1) <= Off(p, k - 1)
      BY <3>1, <1>1, OffMonotone
    <3>3. Off(p, h - 1) \in Nat /\ Off(p, k - 1) \in Nat
      BY <3>1, <1>1, OffStep
    <3> QED BY <3>2, <3>3, <2>1, <2>2, <1>11
  <2>4. end(k) \in k .. n /\ (\A j \in k .. end(k) : kept(j)) /\ ~kept(end(k) + 1)
    BY <2>1, <1>4, Zenon
  <2>5. h > end(k)
    <3> SUFFICES ASSUME h <= end(k) PROVE FALSE
      BY <2>4
    <3>1. h - 1 \in k .. end(k)
      BY <2>3, <2>4
    <3> QED BY <3>1, <2>2, <2>4, Zenon
  <2>6. h # end(k) + 1
    BY <2>2, <2>4, Zenon
  <2>7. q[a].to = s.from + end(k) - 1 /\ q[b].from = s.from + h - 1
    BY <2>1, <2>2 DEF SymbolOf
  <2> DEFINE from == s.from
             e == end(k)
  <2>8. e \in k .. n /\ e < h /\ h # e + 1 /\ from \in Nat /\ n \in Nat
    <3>1. e < h
      BY <2>5
    <3> QED BY <1>3, <2>4, <2>6, <3>1, Zenon
  <2> HIDE DEF from, e
  <2>9. (from + e - 1) + 1 < from + h - 1
    BY <2>8
  <2> QED BY <2>7, <2>9, Zenon DEF from, e
<1> QED BY <1>6, <1>9, <1>11, Zenon DEF q

\* A symbol of some of the lines of another has those lines for its value.
LEMMA ValueOfPart ==
  ASSUME NEW s \in Symbols, NEW k \in 1 .. Len(Value(s)), NEW e \in k .. Len(Value(s)),
         NEW t \in Symbols, t = SymbolOf(s.symbol, s.from + k - 1, s.from + e - 1)
  PROVE  Value(t) = SubSeq(Value(s), k, e)
<1> DEFINE v == Value(s)
           w == Value(t)
           u == SubSeq(v, k, e)
<1>1. /\ v \in Seq(RawLines) /\ Len(v) \in Nat /\ s.from \in Nat
      /\ \A i \in 1 .. Len(v) : v[i] = RawLine(s.symbol, s.from + i - 1)
  BY ValueLines, SymbolFields
<1>2. t.symbol = s.symbol /\ t.from = s.from + k - 1 /\ t.to = s.from + e - 1
  BY DEF SymbolOf
<1>3. /\ w \in Seq(RawLines) /\ Len(w) = t.to + 1 - t.from
      /\ \A i \in 1 .. Len(w) : w[i] = RawLine(t.symbol, t.from + i - 1)
  BY ValueLines
<1> HIDE DEF v, w
<1>4. k \in Nat /\ e \in Nat /\ k <= e /\ e <= Len(v) /\ 1 <= k
  BY <1>1 DEF v
<1>5. Len(w) = e - k + 1
  BY <1>1, <1>2, <1>3, <1>4
<1>6. /\ u \in Seq(RawLines) /\ Len(u) = e - k + 1
      /\ \A i \in 1 .. e - k + 1 : u[i] = v[k + i - 1]
  <2>1. k \in Int /\ e \in Int /\ k <= e
    BY <1>4
  <2>2. \A i \in k .. e : v[i] \in RawLines
    <3> TAKE i \in k .. e
    <3>1. i \in 1 .. Len(v)
      BY <1>1, <1>4
    <3> QED BY <1>1, <3>1
  <2>3. /\ u \in Seq(RawLines) /\ Len(u) = IF k <= e THEN e - k + 1 ELSE 0
        /\ \A i \in 1 .. e - k + 1 : u[i] = v[k + i - 1]
    BY <2>1, <2>2, SubSeqProperties
  <2> QED BY <2>1, <2>3, Zenon
<1> HIDE DEF u
<1>7. ASSUME NEW i \in 1 .. Len(w) PROVE w[i] = u[i]
  <2>1. k + i - 1 \in 1 .. Len(v) /\ i \in 1 .. e - k + 1
    BY <1>4, <1>5, <1>1
  <2>2. w[i] = RawLine(s.symbol, t.from + i - 1)
    BY <1>2, <1>3
  <2>3. u[i] = RawLine(s.symbol, s.from + (k + i - 1) - 1)
    BY <2>1, <1>1, <1>6
  <2>4. t.from + i - 1 = s.from + (k + i - 1) - 1
    BY <1>1, <1>2, <1>4, <1>5
  <2> QED BY <2>2, <2>3, <2>4
<1>8. Len(w) = Len(u)
  BY <1>5, <1>6
<1>9. w = u
  BY <1>3, <1>6, <1>7, <1>8, SeqEqual
<1> QED BY <1>9 DEF u, v, w

\* A text of one line means what the line means.
LEMMA ResolveOne ==
  ASSUME NEW l \in Line
  PROVE  Resolve(<<l>>) = Meaning(l)
<1>1. <<l>> \in Seq(Line) /\ Len(<<l>>) = 1 /\ <<l>>[1] = l
  OBVIOUS
<1> DEFINE m == Meanings(<<l>>)
<1>2. m \in Seq(Seq(Own \cup RawLines)) /\ Len(m) = 1 /\ m[1] = Meaning(l) /\ Resolve(<<l>>) = FlattenSeq(m)
  <2>1. 1 \in 1 .. Len(<<l>>)
    OBVIOUS
  <2> QED BY <1>1, <2>1, MeaningsType
<1> HIDE DEF m
<1>3. Upto(m, 1) = Upto(m, 0) \o m[1]
  <2>1. 1 \in 1 .. Len(m) /\ 1 - 1 = 0
    BY <1>2
  <2> QED BY <1>2, <2>1, FlattenPrefixes
<1>4. Upto(m, 0) = <<>> /\ Upto(m, Len(m)) = FlattenSeq(m)
  BY <1>2, FlattenPrefixes, Zenon
<1>5. Meaning(l) \in Seq(Own \cup RawLines)
  BY MeaningType
<1>6. <<>> \o Meaning(l) = Meaning(l)
  BY <1>5
<1> QED BY <1>2, <1>3, <1>4, <1>6

\* splitSymbol and findEditRanges: the lines a symbol is split into mean just
\* what the human wrote in its place, for any symbol and any lines.
THEOREM SplitMeaning ==
  ASSUME NEW s \in Symbols, NEW slice \in Seq(Own \cup RawLines), Len(slice) = Len(Value(s))
  PROVE  Resolve(Split(s, slice)) = slice
<1> DEFINE n == Len(Value(s))
           p == Pieces(s, slice)
           end(k) == RunEnd(s, slice, k)
           run(k) == SymbolOf(s.symbol, s.from + k - 1, s.from + end(k) - 1)
           kept(k) == Kept(s, slice, k)
           reach(k) == IF kept(k) THEN end(k) ELSE k
           Good(k) == Resolve(Upto(p, k)) = SubSeq(slice, 1, reach(k))
           Bad == {k \in Nat : k \in 0 .. n /\ ~Good(k)}
<1>1. /\ p \in Seq(Seq(Line)) /\ Len(p) = n
      /\ \A k \in 1 .. n :
              /\ ~kept(k) => p[k] = <<slice[k]>>
              /\ kept(k) /\ kept(k - 1) => p[k] = <<>>
              /\ kept(k) /\ ~kept(k - 1) => p[k] = <<run(k)>> /\ run(k) \in Symbols
  BY PiecesType, Zenon
<1>2. /\ n \in Nat \ {0} /\ DOMAIN Value(s) = 1 .. n /\ Len(slice) = n
      /\ slice \in Seq(Line) /\ Value(s) \in Seq(Line)
  BY ValueLines, SeqMonotonic DEF Line
<1>3. \A k \in 1 .. n : kept(k) => /\ end(k) \in k .. n
                                   /\ \A j \in k .. end(k) : kept(j)
                                   /\ ~kept(end(k) + 1)
  BY RunEndProperties, Zenon
<1>4. \A k : kept(k) <=> k \in 1 .. n /\ slice[k] = Value(s)[k]
  BY <1>2 DEF Kept
<1>5. \A k \in 1 .. n : kept(k) /\ ~kept(k - 1) => Value(run(k)) = SubSeq(slice, k, end(k))
  <2> SUFFICES ASSUME NEW k \in 1 .. n, kept(k), ~kept(k - 1)
               PROVE  Value(run(k)) = SubSeq(slice, k, end(k))
    OBVIOUS
  <2>1. end(k) \in k .. n /\ run(k) \in Symbols
    BY <1>1, <1>3, Zenon
  <2>2. Value(run(k)) = SubSeq(Value(s), k, end(k))
    BY <2>1, ValueOfPart, Zenon
  <2>3. SubSeq(Value(s), k, end(k)) = SubSeq(slice, k, end(k))
    <3>1. \A j \in k .. end(k) : Value(s)[j] = slice[j]
      BY <1>3, <1>4, Zenon
    <3> DEFINE v == Value(s)
               e == end(k)
    <3>2. v \in Seq(Line) /\ slice \in Seq(Line) /\ Len(v) = n /\ Len(slice) = n
      BY <1>2
    <3>3. e \in k .. n /\ k \in 1 .. n /\ n \in Nat /\ \A j \in k .. e : v[j] = slice[j]
      BY <2>1, <3>1, <1>2, Zenon
    <3> HIDE DEF v, e, n, end, kept, Bad, Good
    <3>4. SubSeq(v, k, e) = SubSeq(slice, k, e)
      BY <3>2, <3>3
    <3> QED BY <3>4, Zenon DEF v, e
  <2> QED BY <2>2, <2>3, Zenon
<1> HIDE DEF n, p, end, kept
<1>6. Good(0)
  <2>1. Upto(p, 0) = <<>>
    BY <1>1, FlattenPrefixes, Zenon
  <2>2. ~kept(0)
    BY <1>4, <1>2
  <2>3. SubSeq(slice, 1, 0) = <<>>
    BY <1>2
  <2> QED BY <2>1, <2>2, <2>3, ResolveEmpty, Zenon
<1>7. ASSUME NEW k \in 1 .. n, Good(k - 1) PROVE Good(k)
  <2>0. k - 1 \in 0 .. n /\ k - 1 \in 0 .. Len(p) /\ k \in 1 .. Len(p) /\ k \in 1 .. Len(slice)
    BY <1>1, <1>2
  <2>1. Upto(p, k) = Upto(p, k - 1) \o p[k]
    BY <1>1, <2>0, FlattenPrefixes, Zenon
  <2>2. Upto(p, k - 1) \in Seq(Line) /\ p[k] \in Seq(Line)
    BY <1>1, <2>0, FlattenType
  <2>3. Resolve(Upto(p, k)) = Resolve(Upto(p, k - 1)) \o Resolve(p[k])
    BY <2>1, <2>2, ResolveConcat, Zenon
  <2>4. ~kept(k) => reach(k - 1) = k - 1
    <3> SUFFICES ASSUME ~kept(k), kept(k - 1) PROVE end(k - 1) = k - 1
      BY Zenon
    <3>1. k - 1 \in 1 .. n
      BY <1>4
    <3>2. end(k - 1) \in k - 1 .. n /\ \A j \in k - 1 .. end(k - 1) : kept(j)
      BY <3>1, <1>3, Zenon
    <3>3. k \notin k - 1 .. end(k - 1)
      BY <3>2, Zenon
    <3> QED BY <3>2, <3>3, <1>2
  <2>5. CASE ~kept(k)
    <3>1. Resolve(Upto(p, k - 1)) = SubSeq(slice, 1, k - 1)
      BY <2>4, <2>5, <1>7, Zenon
    <3>2. slice[k] \in Own \cup RawLines /\ slice[k] \in Line /\ slice[k] \notin Symbols
      <4>1. slice[k] \in Own \cup RawLines
        BY <2>0
      <4> QED BY <4>1, KindsOfLines DEF Line
    <3>3. p[k] = <<slice[k]>>
      BY <1>1, <2>5, Zenon
    <3>4. Resolve(p[k]) = <<slice[k]>>
      BY <3>2, <3>3, ResolveOne, BareLine
    <3>5. SubSeq(slice, 1, k) = SubSeq(slice, 1, k - 1) \o <<slice[k]>>
      <4>1. 1 \in 1 .. Len(slice)
        BY <2>0
      <4> QED BY <4>1, <2>0, SubSeqRecursiveSecond
    <3> QED BY <2>3, <2>5, <3>1, <3>4, <3>5, Zenon
  <2>6. CASE kept(k) /\ ~kept(k - 1)
    <3>1. Resolve(Upto(p, k - 1)) = SubSeq(slice, 1, k - 1)
      BY <2>6, <1>7, Zenon
    <3>2. p[k] = <<run(k)>> /\ run(k) \in Symbols
      BY <1>1, <2>6, Zenon
    <3>3. Resolve(p[k]) = Value(run(k))
      <4> HIDE DEF run
      <4>1. run(k) \in Line
        BY <3>2 DEF Line
      <4> QED BY <4>1, <3>2, ResolveOne, BareLine
    <3>4. Value(run(k)) = SubSeq(slice, k, end(k))
      BY <1>5, <2>6, Zenon
    <3>5. end(k) \in k .. n
      BY <1>3, <2>6, Zenon
    <3> DEFINE e == end(k)
    <3>6. SubSeq(slice, 1, k - 1) \o SubSeq(slice, k, e) = SubSeq(slice, 1, e)
      <4>1. /\ 1 \in 1 .. Len(slice) + 1 /\ k - 1 \in 1 - 1 .. Len(slice)
            /\ e \in k - 1 .. Len(slice) /\ (k - 1) + 1 = k
        BY <3>5, <1>2
      <4> HIDE DEF e
      <4>2. SubSeq(slice, 1, k - 1) \o SubSeq(slice, (k - 1) + 1, e) = SubSeq(slice, 1, e)
        BY <4>1, ConcatAdjacentSubSeq, Zenon
      <4> QED BY <4>1, <4>2
    <3> QED BY <2>3, <2>6, <3>1, <3>3, <3>4, <3>6, Zenon
  <2>7. CASE kept(k) /\ kept(k - 1)
    <3>1. p[k] = <<>>
      BY <1>1, <2>7, Zenon
    <3>2. Upto(p, k) = Upto(p, k - 1)
      BY <2>1, <2>2, <3>1
    <3>3. k - 1 \in 1 .. n
      BY <2>7, <1>4
    <3>4. /\ end(k - 1) \in k - 1 .. n /\ (\A j \in k - 1 .. end(k - 1) : kept(j)) /\ ~kept(end(k - 1) + 1)
          /\ end(k) \in k .. n /\ (\A j \in k .. end(k) : kept(j)) /\ ~kept(end(k) + 1)
      BY <1>3, <2>7, <3>3, Zenon
    <3>5. end(k - 1) \in Nat /\ end(k) \in Nat /\ k \in Nat
      BY <3>4, <1>2
    <3>6. ~ end(k - 1) < end(k)
      <4> SUFFICES ASSUME end(k - 1) < end(k) PROVE FALSE
        OBVIOUS
      <4>1. end(k - 1) + 1 \in k .. end(k)
        BY <3>4, <3>5
      <4> QED BY <4>1, <3>4, Zenon
    <3>7. ~ end(k) < end(k - 1)
      <4> SUFFICES ASSUME end(k) < end(k - 1) PROVE FALSE
        OBVIOUS
      <4>1. end(k) + 1 \in k - 1 .. end(k - 1)
        BY <3>4, <3>5
      <4> QED BY <4>1, <3>4, Zenon
    <3>8. end(k - 1) = end(k)
      BY <3>5, <3>6, <3>7
    <3> QED BY <2>7, <3>2, <3>8, <1>7, Zenon
  <2> QED BY <2>5, <2>6, <2>7, Zenon
<1> HIDE DEF Good
<1>8. Bad = {}
  <2> SUFFICES ASSUME Bad # {} PROVE FALSE
    OBVIOUS
  <2>1. PICK k \in Bad : \A m \in Bad : k <= m
    BY Least, Zenon
  <2>2. k # 0
    BY <2>1, <1>6, Zenon
  <2>3. k \in 1 .. n /\ k - 1 \in Nat /\ k - 1 \in 0 .. n /\ ~ k <= k - 1
    BY <2>1, <2>2, <1>2
  <2>4. Good(k - 1)
    BY <2>1, <2>3, Zenon
  <2>5. Good(k)
    BY <2>3, <2>4, <1>7, Zenon
  <2> QED BY <2>1, <2>5, Zenon
<1>9. n \in Nat /\ n \in 0 .. n /\ n \in 1 .. n
  BY <1>2
<1>10. Good(n)
  BY <1>8, <1>9, Zenon
<1>11. reach(n) = n
  <2> SUFFICES ASSUME kept(n) PROVE end(n) = n
    BY Zenon
  <2>1. end(n) \in n .. n
    BY <1>3, <1>9, Zenon
  <2> QED BY <2>1, <1>2
<1>12. Upto(p, n) = FlattenSeq(p)
  BY <1>1, FlattenPrefixes, Zenon
<1>13. SubSeq(slice, 1, n) = slice
  BY <1>2, SubSeqFull
<1>14. Split(s, slice) = FlattenSeq(p)
  BY SplitIsPieces DEF p
<1> QED BY <1>10, <1>11, <1>12, <1>13, <1>14, Zenon DEF Good

\* What a text of one line means, for a symbol and for any other line.
LEMMA ResolveMeaning ==
  ASSUME NEW l \in Line
  PROVE  /\ l \in Symbols => Resolve(<<l>>) = Value(l)
         /\ l \notin Symbols => Resolve(<<l>>) = <<l>>
BY ResolveOne, BareLine

---------------------------------------------------------------------------
(*************************************************************************)
(* reconcileFile.                                                        *)
(*************************************************************************)
\* The human lines of a line of the Agent text: as many as it spans, fewer
\* where the text ends.
LEMMA SliceLines ==
  ASSUME agent \in Seq(Line), human \in Seq(Own \cup RawLines), NEW i \in 1 .. Len(agent)
  PROVE  /\ HumanSlice(i) \in Seq(Own \cup RawLines)
         /\ Len(HumanSlice(i)) <= Span(agent[i])
         /\ HumanStart(i) + Span(agent[i]) - 1 <= Len(human) => Len(HumanSlice(i)) = Span(agent[i])
         /\ HumanStart(i) <= Len(human) <=> Len(HumanSlice(i)) >= 1
         /\ \A j \in 1 .. Len(HumanSlice(i)) : /\ HumanStart(i) + j - 1 \in 1 .. Len(human)
                                               /\ HumanSlice(i)[j] = human[HumanStart(i) + j - 1]
         /\ \A j \in 1 .. Len(HumanSlice(i)) : HumanSlice(i)[j] \in Line \ Symbols
<1> DEFINE m == HumanStart(i)
           w == Span(agent[i])
           e == IF m + w - 1 <= Len(human) THEN m + w - 1 ELSE Len(human)
           T == Own \cup RawLines
           q == HumanSlice(i)
<1>1. m \in Nat \ {0} /\ w \in Nat \ {0} /\ Len(human) \in Nat
  BY HumanStartType, SpanType
<1>2. q = SubSeq(human, m, e)
  BY DEF HumanSlice
<1>3. T \cap Symbols = {} /\ T \subseteq Line
  BY KindsOfLines DEF Line
<1> HIDE DEF m, w, T, q
<1>4. e \in Nat /\ e <= Len(human) /\ \A k \in m .. e : human[k] \in T
  BY <1>1 DEF T
<1>5. /\ q \in Seq(T) /\ Len(q) = IF m <= e THEN e - m + 1 ELSE 0
      /\ \A j \in 1 .. e - m + 1 : q[j] = human[m + j - 1]
  <2> HIDE DEF e
  <2>1. m \in Int /\ e \in Int
    BY <1>1, <1>4
  <2>2. \A k \in m .. e : human[k] \in T
    BY <1>4, Zenon
  <2>3. /\ SubSeq(human, m, e) \in Seq(T)
        /\ Len(SubSeq(human, m, e)) = IF m <= e THEN e - m + 1 ELSE 0
        /\ \A j \in 1 .. e - m + 1 : SubSeq(human, m, e)[j] = human[m + j - 1]
    BY <2>1, <2>2, SubSeqProperties
  <2> QED BY <1>2, <2>3, Zenon
<1>6. \A j \in 1 .. Len(q) : j \in 1 .. e - m + 1 /\ m + j - 1 \in 1 .. Len(human)
  <2> HIDE DEF e
  <2> QED BY <1>1, <1>4, <1>5
<1>7. \A j \in 1 .. Len(q) : q[j] \in Line \ Symbols
  BY <1>3, <1>5
<1>8. /\ Len(q) <= w
      /\ m + w - 1 <= Len(human) => Len(q) = w
      /\ m <= Len(human) <=> Len(q) >= 1
  BY <1>1, <1>5
<1> QED BY <1>5, <1>6, <1>7, <1>8, Zenon DEF m, w, q, T

\* What reconcileFile puts in the place of a line: a symbol there is the old
\* one, untouched, or a part of it, with a gap to the next part.
LEMMA ReconciledShape ==
  ASSUME agent \in Seq(Line), human \in Seq(Own \cup RawLines), NEW i \in 1 .. Len(agent)
  PROVE  /\ Reconciled(i) \in Seq(Line)
         /\ \A a \in 1 .. Len(Reconciled(i)) :
              Reconciled(i)[a] \in Symbols =>
                \/ Reconciled(i)[a] = agent[i] /\ ~Promoted(i)
                \/ StrictlyInside(Reconciled(i)[a], agent[i]) /\ IsSegment(agent[i])
         /\ \A a, b \in 1 .. Len(Reconciled(i)) :
              a < b /\ Reconciled(i)[a] \in Symbols /\ Reconciled(i)[b] \in Symbols
              => Reconciled(i)[a].to + 1 < Reconciled(i)[b].from
<1> DEFINE line == agent[i]
           slice == HumanSlice(i)
           r == Reconciled(i)
<1>1. /\ line \in Line /\ slice \in Seq(Own \cup RawLines) /\ slice \in Seq(Line)
      /\ \A j \in 1 .. Len(slice) : slice[j] \notin Symbols
  BY SliceLines, SeqMonotonic DEF Line
<1>2. (IsSegment(line) => line \in Symbols) /\ SymbolIn(line) = line
  BY <1>1, BareLine, Zenon
<1>3. \/ /\ r = <<line>> /\ ~Promoted(i)
      \/ r = slice
      \/ /\ r = Split(line, slice) /\ IsSegment(line)
         /\ slice # Value(line) /\ Len(slice) = Len(Value(line))
  BY <1>2, Zenon DEF Reconciled, Promoted
<1> HIDE DEF line, slice, r
<1>4. CASE r = <<line>> /\ ~Promoted(i)
  <2>1. r \in Seq(Line) /\ Len(r) = 1 /\ r[1] = line
    BY <1>1, <1>4
  <2>2. \A a \in 1 .. Len(r) : a = 1
    BY <2>1
  <2>3. \A a, b \in 1 .. Len(r) : ~ a < b
    <3> TAKE a, b \in 1 .. Len(r)
    <3>1. a = 1 /\ b = 1
      BY <2>2, Zenon
    <3> QED BY <3>1
  <2> QED BY <1>4, <2>1, <2>2, <2>3, Zenon DEF line, r
<1>5. CASE r = slice
  BY <1>1, <1>5, Zenon DEF r
<1>6. CASE /\ r = Split(line, slice) /\ IsSegment(line)
           /\ slice # Value(line) /\ Len(slice) = Len(Value(line))
  <2>1. line \in Symbols
    BY <1>2, <1>6
  <2>2. /\ r \in Seq(Line)
        /\ \A a \in 1 .. Len(r) :
              \/ r[a] \in Symbols /\ StrictlyInside(r[a], line)
              \/ \E k \in 1 .. Len(slice) : r[a] = slice[k] /\ slice[k] # Value(line)[k]
        /\ \A a, b \in 1 .. Len(r) :
              a < b /\ r[a] \in Symbols /\ r[b] \in Symbols => r[a].to + 1 < r[b].from
    <3> DEFINE q == Split(line, slice)
    <3>1. /\ q \in Seq(Line)
          /\ \A a \in 1 .. Len(q) :
                \/ q[a] \in Symbols /\ StrictlyInside(q[a], line)
                \/ \E k \in 1 .. Len(slice) : q[a] = slice[k] /\ slice[k] # Value(line)[k]
          /\ \A a, b \in 1 .. Len(q) :
                a < b /\ q[a] \in Symbols /\ q[b] \in Symbols => q[a].to + 1 < q[b].from
      BY <1>1, <1>6, <2>1, SplitElements, Zenon
    <3> HIDE DEF q
    <3>2. r = q
      BY <1>6, Zenon DEF q
    <3> QED BY <3>1, <3>2, Zenon
  <2>3. ASSUME NEW a \in 1 .. Len(r), r[a] \in Symbols
        PROVE  StrictlyInside(r[a], line)
    BY <1>1, <2>2, <2>3, Zenon
  <2> QED BY <1>6, <2>2, <2>3, Zenon DEF line, r
<1> QED BY <1>3, <1>4, <1>5, <1>6

\* The text that reconcileFile writes, line by line of the Agent's.
Merged == [i \in DOMAIN agent |-> Reconciled(i)]

\* The merged text is a text.
LEMMA MergedType ==
  ASSUME agent \in Seq(Line), human \in Seq(Own \cup RawLines)
  PROVE  /\ Merged \in Seq(Seq(Line))
         /\ Len(Merged) = Len(agent)
         /\ \A i \in 1 .. Len(agent) : Merged[i] = Reconciled(i)
         /\ FlattenSeq(Merged) \in Seq(Line)
<1>1. \A i \in 1 .. Len(agent) : Reconciled(i) \in Seq(Line)
  BY ReconciledShape
<1>2. Merged = [i \in 1 .. Len(agent) |-> Reconciled(i)] /\ Len(agent) \in Nat
  BY DEF Merged
<1>3. Merged \in Seq(Seq(Line)) /\ Len(Merged) = Len(agent)
  BY <1>1, <1>2
<1> QED BY <1>2, <1>3, FlattenType

\* Positions in the whole are in the order of the entries.
LEMMA FlattenOrder ==
  ASSUME NEW S, NEW s \in Seq(Seq(S)),
         NEW i \in 1 .. Len(s), NEW j \in 1 .. Len(s[i]),
         NEW h \in 1 .. Len(s), NEW k \in 1 .. Len(s[h]),
         Off(s, i - 1) + j < Off(s, h - 1) + k
  PROVE  i < h \/ (i = h /\ j < k)
<1>1. /\ i - 1 \in 0 .. Len(s) /\ h - 1 \in 0 .. Len(s) /\ i \in 0 .. Len(s) /\ h \in 0 .. Len(s)
      /\ s[h] \in Seq(S) /\ s[i] \in Seq(S)
  OBVIOUS
<1>2. /\ Off(s, i - 1) \in Nat /\ Off(s, h - 1) \in Nat /\ Off(s, h) \in Nat
      /\ Off(s, h) = Off(s, h - 1) + Len(s[h])
  BY <1>1, OffStep
<1>3. ~ h < i
  <2> SUFFICES ASSUME h < i PROVE FALSE
    OBVIOUS
  <2>1. Off(s, h) <= Off(s, i - 1)
    <3>1. h <= i - 1
      OBVIOUS
    <3> QED BY <3>1, <1>1, OffMonotone
  <2>2. k <= Len(s[h]) /\ Len(s[h]) \in Nat /\ k \in Nat /\ j \in Nat \ {0}
    BY <1>1
  <2>3. Off(s, h - 1) + k <= Off(s, h)
    <3> DEFINE x == Off(s, h - 1)
               n == Len(s[h])
    <3>1. Off(s, h) = x + n /\ x \in Nat /\ n \in Nat /\ k \in Nat /\ k <= n
      BY <1>2, <2>2, Zenon
    <3> HIDE DEF x, n
    <3>2. x + k <= x + n
      BY <3>1
    <3> QED BY <3>1, <3>2, Zenon DEF x
  <2>4. Off(s, h - 1) + k <= Off(s, i - 1)
    BY <1>2, <2>1, <2>2, <2>3
  <2> QED BY <1>2, <2>2, <2>4
<1>4. CASE i = h
  BY <1>2, <1>4
<1> QED BY <1>3, <1>4

\* Offsets depend on lengths alone.
LEMMA SameOffsets ==
  ASSUME NEW S, NEW s \in Seq(Seq(S)), NEW t \in Seq(Seq(S)), Len(s) = Len(t),
         \A i \in 1 .. Len(s) : Len(s[i]) = Len(t[i])
  PROVE  \A k \in 0 .. Len(s) : Off(s, k) = Off(t, k)
<1> DEFINE Bad == {k \in Nat : k \in 0 .. Len(s) /\ Off(s, k) # Off(t, k)}
<1>1. Bad = {}
  <2> SUFFICES ASSUME Bad # {} PROVE FALSE
    OBVIOUS
  <2>1. PICK k \in Bad : \A n \in Bad : k <= n
    BY Least, Zenon
  <2>2. k # 0
    <3>1. Off(s, 0) = 0 /\ Off(t, 0) = 0
      BY OffStep, Zenon
    <3> QED BY <3>1, <2>1, Zenon
  <2>3. k \in 1 .. Len(s) /\ k \in 1 .. Len(t) /\ k - 1 \in Nat /\ k - 1 \in 0 .. Len(s) /\ ~ k <= k - 1
    BY <2>1, <2>2
  <2>4. Off(s, k - 1) = Off(t, k - 1)
    BY <2>1, <2>3, Zenon
  <2>5. Off(s, k) = Off(s, k - 1) + Len(s[k]) /\ Off(t, k) = Off(t, k - 1) + Len(t[k])
    BY <2>3, OffStep, Zenon
  <2>6. Off(s, k) = Off(t, k)
    BY <2>3, <2>4, <2>5, Zenon
  <2> QED BY <2>1, <2>6, Zenon
<1> QED BY <1>1

---------------------------------------------------------------------------
(*************************************************************************)
(* The invariant.                                                        *)
(*************************************************************************)
\* The symbols of the Agent text have no line in common.
SymbolsApart ==
  \A i, j \in DOMAIN agent :
    i # j /\ IsSymbol(agent[i]) /\ IsSymbol(agent[j]) => Disjoint(agent[i], agent[j])

\* One that has been split shares no line with them, or contains them.
ObsoleteApart ==
  \A i \in DOMAIN agent, o \in obsolete :
    IsSymbol(agent[i]) => Disjoint(agent[i], o) \/ StrictlyInside(agent[i], o)

\* The raw lines of the human's text are where the Agent text has them.
InPlace ==
  shifted # "above" =>
    /\ NoRawLines
    /\ \A m \in DOMAIN human : human[m] \in RawLines =>
         m \in DOMAIN Resolve(agent) /\ Resolve(agent)[m] = human[m]
    /\ \A m \in DOMAIN Resolve(agent) : Resolve(agent)[m] \in RawLines => m \in DOMAIN human

\* The Agent text means the text both branches were committed with.
MeansCommitted ==
  shifted = "no" =>
    /\ Resolve(agent) = committed
    /\ HasSymbols => Len(human) = Len(committed)

\* A symbol, or one split from it.
Within(t, s) == t = s \/ StrictlyInside(t, s)

\* The bounds of a symbol are numbers, in order.
LEMMA SymbolNumbers ==
  ASSUME NEW s \in Symbols
  PROVE  s.from \in Nat /\ s.to \in Nat /\ s.from <= s.to
BY SymbolFields

\* A symbol is its datum and its bounds.
LEMMA SymbolEqual ==
  ASSUME NEW s \in Symbols, NEW t \in Symbols, s.symbol = t.symbol, s.from = t.from, s.to = t.to
  PROVE  s = t
BY SymbolFields

\* Parts of symbols without common lines have none.
LEMMA DisjointWithin ==
  ASSUME NEW s \in Symbols, NEW t \in Symbols, NEW x \in Symbols, NEW y \in Symbols,
         Disjoint(s, t), Within(x, s), Within(y, t)
  PROVE  Disjoint(x, y)
<1>1. x.symbol = s.symbol /\ s.from <= x.from /\ x.to <= s.to
  BY SymbolNumbers DEF Within, StrictlyInside
<1>2. y.symbol = t.symbol /\ t.from <= y.from /\ y.to <= t.to
  BY SymbolNumbers DEF Within, StrictlyInside
<1> QED BY <1>1, <1>2, SymbolNumbers DEF Disjoint

\* A part of a part is a part.
LEMMA InsideTransitive ==
  ASSUME NEW x \in Symbols, NEW s \in Symbols, NEW o \in Symbols, Within(x, s), StrictlyInside(s, o)
  PROVE  StrictlyInside(x, o)
<1>1. CASE x = s
  BY <1>1
<1>2. CASE StrictlyInside(x, s)
  <2>1. /\ x.symbol = s.symbol /\ s.from <= x.from /\ x.to <= s.to
        /\ s.symbol = o.symbol /\ o.from <= s.from /\ s.to <= o.to
    BY <1>2 DEF StrictlyInside
  <2>2. ASSUME x = o PROVE FALSE
    <3>1. s.from = o.from /\ s.to = o.to
      BY <2>1, <2>2, SymbolNumbers
    <3>2. s = o
      BY <2>1, <3>1, SymbolEqual
    <3> QED BY <3>2 DEF StrictlyInside
  <2>3. o.from <= x.from /\ x.to <= o.to
    BY <2>1, SymbolNumbers
  <2> QED BY <2>1, <2>2, <2>3 DEF StrictlyInside
<1> QED BY <1>1, <1>2 DEF Within

\* A symbol is not inside itself, so none in the Agent text is obsolete.
LEMMA ActiveFromApart ==
  ASSUME agent \in Seq(Line), obsolete \subseteq Symbols, ObsoleteApart
  PROVE  SymbolsActive
<1> SUFFICES ASSUME NEW i \in DOMAIN agent, agent[i] \in obsolete PROVE FALSE
  BY DEF SymbolsActive
<1>1. agent[i] \in Symbols /\ IsSymbol(agent[i])
  BY SymbolIsInSymbols
<1>2. Disjoint(agent[i], agent[i]) \/ StrictlyInside(agent[i], agent[i])
  BY <1>1 DEF ObsoleteApart
<1>3. agent[i].from <= agent[i].to /\ agent[i].from \in Nat /\ agent[i].to \in Nat
  BY <1>1, SymbolNumbers
<1>4. ~Disjoint(agent[i], agent[i])
  BY <1>3 DEF Disjoint
<1>5. ~StrictlyInside(agent[i], agent[i])
  BY DEF StrictlyInside
<1> QED BY <1>2, <1>4, <1>5

---------------------------------------------------------------------------
(*************************************************************************)
(* The merged text: its symbols, and what it means.                      *)
(*************************************************************************)
\* Where a line of the merged text comes from.
LEMMA MergedLine ==
  ASSUME agent \in Seq(Line), human \in Seq(Own \cup RawLines),
         NEW m \in 1 .. Len(FlattenSeq(Merged))
  PROVE  \E i \in 1 .. Len(agent) : \E j \in 1 .. Len(Reconciled(i)) :
           /\ m = Off(Merged, i - 1) + j
           /\ FlattenSeq(Merged)[m] = Reconciled(i)[j]
<1>1. Merged \in Seq(Seq(Line)) /\ Len(Merged) = Len(agent) /\ \A i \in 1 .. Len(agent) : Merged[i] = Reconciled(i)
  BY MergedType
<1>2. \E i \in 1 .. Len(Merged) : \E j \in 1 .. Len(Merged[i]) :
           m = Off(Merged, i - 1) + j /\ FlattenSeq(Merged)[m] = Merged[i][j]
  BY <1>1, FlattenFind, Zenon
<1> QED BY <1>1, <1>2, Zenon

\* A symbol of the merged text is one of the Agent text or a part of one, and
\* a part if the old one is obsoleted.
LEMMA MergedSymbol ==
  ASSUME agent \in Seq(Line), human \in Seq(Own \cup RawLines),
         NEW i \in 1 .. Len(agent), NEW j \in 1 .. Len(Reconciled(i)),
         Reconciled(i)[j] \in Symbols
  PROVE  /\ agent[i] \in Symbols /\ IsSymbol(agent[i])
         /\ Within(Reconciled(i)[j], agent[i])
         /\ Promoted(i) => StrictlyInside(Reconciled(i)[j], agent[i])
<1>1. \/ Reconciled(i)[j] = agent[i] /\ ~Promoted(i)
      \/ StrictlyInside(Reconciled(i)[j], agent[i]) /\ IsSegment(agent[i])
  BY ReconciledShape
<1>2. IsSegment(agent[i]) => agent[i] \in Symbols
  BY BareLine
<1> QED BY <1>1, <1>2, SymbolIsInSymbols DEF Within

\* Symbols of the merged text, in order: they are apart, and do not continue
\* each other within the place of one line.
LEMMA MergedOrder ==
  ASSUME agent \in Seq(Line), human \in Seq(Own \cup RawLines), SymbolsApart,
         NEW i \in 1 .. Len(agent), NEW j \in 1 .. Len(Reconciled(i)),
         NEW h \in 1 .. Len(agent), NEW k \in 1 .. Len(Reconciled(h)),
         Off(Merged, i - 1) + j < Off(Merged, h - 1) + k,
         Reconciled(i)[j] \in Symbols, Reconciled(h)[k] \in Symbols
  PROVE  /\ Disjoint(Reconciled(i)[j], Reconciled(h)[k])
         /\ i < h \/ Reconciled(i)[j].to + 1 < Reconciled(h)[k].from
<1>1. /\ Merged \in Seq(Seq(Line)) /\ Len(Merged) = Len(agent)
      /\ Merged[i] = Reconciled(i) /\ Merged[h] = Reconciled(h)
  BY MergedType
<1>2. i < h \/ (i = h /\ j < k)
  BY <1>1, FlattenOrder
<1>3. CASE i < h
  <2>1. /\ agent[i] \in Symbols /\ IsSymbol(agent[i]) /\ Within(Reconciled(i)[j], agent[i])
        /\ agent[h] \in Symbols /\ IsSymbol(agent[h]) /\ Within(Reconciled(h)[k], agent[h])
    BY MergedSymbol
  <2>2. Disjoint(agent[i], agent[h])
    BY <1>3, <2>1 DEF SymbolsApart
  <2> QED BY <1>3, <2>1, <2>2, DisjointWithin
<1>4. CASE i = h /\ j < k
  <2>1. Reconciled(i)[j].to + 1 < Reconciled(i)[k].from
    BY <1>4, ReconciledShape
  <2>2. Reconciled(i)[j].to \in Nat /\ Reconciled(i)[k].from \in Nat
    BY <1>4, SymbolNumbers
  <2> QED BY <1>4, <2>1, <2>2 DEF Disjoint
<1> QED BY <1>2, <1>3, <1>4

\* With every symbol active and in its place, the merged lines of a line mean
\* the human's lines at that place, or, past the end of the text, the line.
LEMMA ReconciledMeaning ==
  ASSUME agent \in Seq(Line), human \in Seq(Own \cup RawLines), SymbolsActive, InPlace,
         shifted # "above", NEW i \in 1 .. Len(agent)
  PROVE  /\ Resolve(Reconciled(i)) \in Seq(Own \cup RawLines)
         /\ Len(Resolve(Reconciled(i))) = Len(Meaning(agent[i]))
         /\ \A j \in 1 .. Len(Meaning(agent[i])) :
              Resolve(Reconciled(i))[j] =
                IF Off(Meanings(agent), i - 1) + j <= Len(human)
                THEN human[Off(Meanings(agent), i - 1) + j]
                ELSE Meaning(agent[i])[j]
         /\ \A j \in 1 .. Len(Reconciled(i)) : Reconciled(i)[j] \notin RawLines
<1> DEFINE m == Meanings(agent)
           off == Off(m, i - 1)
           line == agent[i]
           slice == HumanSlice(i)
           r == Reconciled(i)
           n == Len(Meaning(line))
           T == Own \cup RawLines
           whole == Resolve(agent)
<1>1. /\ m \in Seq(Seq(T)) /\ Len(m) = Len(agent) /\ m[i] = Meaning(line)
      /\ whole = FlattenSeq(m) /\ whole \in Seq(T)
  BY MeaningsType
<1>2. off \in Nat /\ n \in Nat /\ Len(human) \in Nat
  <2>1. i - 1 \in 0 .. Len(m)
    BY <1>1
  <2>2. Meaning(line) \in Seq(T)
    BY MeaningType
  <2> QED BY <1>1, <2>1, <2>2, OffStep
<1>3. HumanStart(i) = off + 1 /\ Span(line) = n
  BY HumanStartIsOffset
<1>4. /\ slice \in Seq(T)
      /\ HumanStart(i) + Span(line) - 1 <= Len(human) => Len(slice) = Span(line)
      /\ HumanStart(i) <= Len(human) <=> Len(slice) >= 1
      /\ Len(slice) <= Span(line)
      /\ \A j \in 1 .. Len(slice) : /\ HumanStart(i) + j - 1 \in 1 .. Len(human)
                                    /\ slice[j] = human[HumanStart(i) + j - 1]
      /\ \A j \in 1 .. Len(slice) : slice[j] \in Line \ Symbols
  BY SliceLines, Zenon
<1>5. \A j \in 1 .. n : off + j \in 1 .. Len(whole) /\ whole[off + j] = Meaning(line)[j]
  <2> TAKE j \in 1 .. n
  <2>1. i \in 1 .. Len(m) /\ j \in 1 .. Len(m[i])
    BY <1>1, Zenon
  <2> HIDE DEF m, T, whole
  <2>2. Off(m, i - 1) + j \in 1 .. Len(FlattenSeq(m)) /\ FlattenSeq(m)[Off(m, i - 1) + j] = m[i][j]
    BY <1>1, <2>1, FlattenAt
  <2> QED BY <1>1, <2>2, Zenon
<1>6. /\ \A k \in 1 .. Len(agent) : agent[k] \notin RawLines
      /\ \A k \in 1 .. Len(human) : human[k] \in RawLines => whole[k] = human[k]
      /\ \A k \in 1 .. Len(whole) : whole[k] \in RawLines => k \in 1 .. Len(human)
  <2>1. DOMAIN human = 1 .. Len(human) /\ DOMAIN whole = 1 .. Len(whole) /\ DOMAIN agent = 1 .. Len(agent)
    BY <1>1
  <2> QED BY <2>1 DEF InPlace, NoRawLines
<1>7. \A j \in 1 .. Len(slice) : off + j \in 1 .. Len(human) /\ slice[j] = human[off + j]
  <2> TAKE j \in 1 .. Len(slice)
  <2>1. HumanStart(i) + j - 1 = off + j
    BY <1>2, <1>3
  <2> QED BY <1>4, <2>1
<1>8. line \in Line /\ (IsSegment(line) <=> line \in Symbols) /\ SymbolIn(line) = line
  <2>1. line \notin obsolete
    BY DEF SymbolsActive
  <2> QED BY <2>1, BareLine
<1> HIDE DEF m, off, whole, slice, line, T, n
<1>9. CASE line \in Symbols
  <2>1. /\ Meaning(line) = Value(line) /\ n = Len(Value(line)) /\ n \in Nat \ {0}
        /\ Value(line) \in Seq(RawLines)
    BY <1>8, <1>9, ValueLines, BareLine DEF n
  <2>2. off + n <= Len(human)
    <3>1. n \in 1 .. n /\ n \in 1 .. Len(Value(line))
      BY <2>1
    <3>2. Value(line)[n] \in RawLines
      BY <2>1, <3>1
    <3>3. whole[off + n] \in RawLines /\ off + n \in 1 .. Len(whole)
      BY <1>5, <2>1, <3>1, <3>2
    <3>4. off + n \in 1 .. Len(human)
      BY <1>6, <3>3, Zenon
    <3> QED BY <3>4
  <2>3. Len(slice) = n
    <3>1. (off + 1) + n - 1 <= Len(human)
      BY <1>2, <2>2
    <3> QED BY <1>3, <1>4, <3>1, Zenon
  <2>4. \A j \in 1 .. n : off + j <= Len(human) /\ slice[j] = human[off + j]
    <3> TAKE j \in 1 .. n
    <3>1. off + j <= Len(human)
      BY <1>2, <2>1, <2>2
    <3> QED BY <3>1, <1>7, <2>3, Zenon
  <2>5. Resolve(r) = slice /\ \A j \in 1 .. Len(r) : r[j] \notin RawLines
    <3>1. CASE slice = Value(line)
      <4>1. r = <<line>>
        BY <1>8, <1>9, <3>1 DEF Reconciled, line, slice
      <4>2. Resolve(r) = Value(line)
        BY <1>8, <1>9, <4>1, ResolveMeaning, Zenon
      <4>3. line \notin RawLines
        BY <1>9, KindsOfLines
      <4> QED BY <3>1, <4>1, <4>2, <4>3
    <3>2. CASE slice # Value(line)
      <4>1. r = Split(line, slice)
        BY <1>8, <1>9, <2>1, <2>3, <3>2 DEF Reconciled, line, slice
      <4>2. Resolve(r) = slice
        BY <1>4, <1>9, <2>1, <2>3, <4>1, SplitMeaning, Zenon DEF T
      <4>3. \A a \in 1 .. Len(r) :
              \/ r[a] \in Symbols
              \/ \E k \in 1 .. Len(slice) : r[a] = slice[k] /\ slice[k] # Value(line)[k]
        <5>1. Len(slice) = Len(Value(line)) /\ slice \in Seq(Own \cup RawLines)
          BY <1>4, <2>1, <2>3, Zenon DEF T
        <5> HIDE DEF r
        <5> QED BY <1>9, <3>2, <4>1, <5>1, SplitElements
      <4>4. \A k \in 1 .. Len(slice) : slice[k] \in RawLines => slice[k] = Value(line)[k]
        <5> SUFFICES ASSUME NEW k \in 1 .. Len(slice), slice[k] \in RawLines
                     PROVE  slice[k] = Value(line)[k]
          OBVIOUS
        <5>1. off + k \in 1 .. Len(human) /\ slice[k] = human[off + k] /\ k \in 1 .. n
          BY <1>7, <2>3, Zenon
        <5>2. whole[off + k] = human[off + k]
          BY <1>6, <5>1, Zenon
        <5>3. whole[off + k] = Value(line)[k]
          BY <1>5, <2>1, <5>1, Zenon
        <5> QED BY <5>1, <5>2, <5>3, Zenon
      <4>5. \A a \in 1 .. Len(r) : r[a] \notin RawLines
        <5> TAKE a \in 1 .. Len(r)
        <5>1. CASE r[a] \in Symbols
          BY <5>1, KindsOfLines
        <5>2. CASE \E k \in 1 .. Len(slice) : r[a] = slice[k] /\ slice[k] # Value(line)[k]
          BY <5>2, <4>4, Zenon
        <5> QED BY <4>3, <5>1, <5>2, Zenon
      <4> QED BY <4>2, <4>5, Zenon
    <3> QED BY <3>1, <3>2
  <2>6. \A j \in 1 .. n : slice[j] = IF off + j <= Len(human) THEN human[off + j] ELSE Meaning(line)[j]
    BY <2>4, Zenon
  <2> QED BY <1>4, <2>3, <2>5, <2>6, Zenon DEF off, m, line, n, T
<1>10. CASE line \notin Symbols
  <2>1. Meaning(line) = <<line>> /\ n = 1
    BY <1>8, <1>10, BareLine DEF n
  <2>2. line \in T /\ line \notin RawLines
    BY <1>6, <1>8, <1>10 DEF Line, T, line
  <2>3. r = IF slice = <<>> THEN <<line>> ELSE slice
    BY <1>8, <1>10 DEF Reconciled, line, slice
  <2>4. CASE off + 1 <= Len(human)
    <3>1. Len(slice) = 1
      <4>1. HumanStart(i) + Span(line) - 1 <= Len(human)
        BY <1>2, <1>3, <2>1, <2>4
      <4> QED BY <1>3, <1>4, <2>1, <4>1, Zenon
    <3>2. slice[1] = human[off + 1] /\ slice[1] \in Line \ Symbols /\ off + 1 \in 1 .. Len(human)
      <4>1. 1 \in 1 .. Len(slice)
        BY <3>1
      <4> QED BY <1>4, <1>7, <4>1
    <3>3. slice = <<slice[1]>>
      BY <1>4, <3>1
    <3>4. r = slice
      <4>1. slice # <<>>
        <5> SUFFICES ASSUME slice = <<>> PROVE FALSE
          OBVIOUS
        <5>1. Len(slice) = Len(<<>>) /\ Len(<<>>) = 0
          OBVIOUS
        <5> QED BY <3>1, <5>1
      <4> QED BY <2>3, <4>1
    <3>5. Resolve(r) = slice
      <4> DEFINE l == slice[1]
      <4>1. l \in Line /\ l \notin Symbols /\ r = <<l>> /\ slice = <<l>>
        BY <3>2, <3>3, <3>4, Zenon
      <4> HIDE DEF l, r
      <4> QED BY <4>1, ResolveMeaning
    <3>6. slice[1] \notin RawLines
      <4> SUFFICES ASSUME slice[1] \in RawLines PROVE FALSE
        OBVIOUS
      <4>1. whole[off + 1] = slice[1]
        BY <1>6, <3>2, Zenon
      <4>2. whole[off + 1] = Meaning(line)[1]
        <5>1. 1 \in 1 .. n
          BY <2>1
        <5> QED BY <1>5, <5>1, Zenon
      <4>3. Meaning(line)[1] = line
        BY <2>1
      <4> QED BY <2>2, <4>1, <4>2, <4>3, Zenon
    <3>7. \A j \in 1 .. Len(r) : r[j] \notin RawLines
      <4>1. \A j \in 1 .. Len(r) : j = 1
        <5>1. Len(r) = 1
          BY <3>1, <3>4, Zenon
        <5> HIDE DEF r
        <5> QED BY <5>1
      <4> QED BY <3>4, <3>6, <4>1, Zenon
    <3>8. \A j \in 1 .. n : slice[j] = IF off + j <= Len(human) THEN human[off + j] ELSE Meaning(line)[j]
      <4>1. \A j \in 1 .. n : j = 1
        BY <2>1
      <4> QED BY <2>4, <3>2, <4>1, Zenon
    <3> QED BY <1>4, <2>1, <3>1, <3>5, <3>7, <3>8, Zenon DEF off, m, line, n, T
  <2>5. CASE ~ off + 1 <= Len(human)
    <3>1. slice = <<>>
      <4>1. ~ Len(slice) >= 1
        BY <1>2, <1>3, <1>4, <2>5
      <4>2. Len(slice) \in Nat
        BY <1>4
      <4> QED BY <1>4, <4>1, <4>2
    <3>2. r = <<line>>
      BY <2>3, <3>1
    <3>3. Resolve(r) = <<line>>
      BY <1>8, <1>10, <3>2, ResolveMeaning, Zenon
    <3>4. \A j \in 1 .. n : <<line>>[j] = IF off + j <= Len(human) THEN human[off + j] ELSE Meaning(line)[j]
      <4>1. \A j \in 1 .. n : j = 1
        BY <2>1
      <4> QED BY <2>1, <2>5, <4>1, Zenon
    <3>5. \A j \in 1 .. Len(r) : r[j] \notin RawLines
      BY <2>2, <3>2
    <3>6. <<line>> \in Seq(T) /\ Len(<<line>>) = n
      BY <2>1, <2>2
    <3> QED BY <3>3, <3>4, <3>5, <3>6, Zenon DEF off, m, line, n, T
  <2> QED BY <2>4, <2>5
<1> QED BY <1>9, <1>10

\* What the merged text means, in a text whose symbols are lines of their own:
\* the human's lines where there are any.
THEOREM MergeMeans ==
  ASSUME agent \in Seq(Line), human \in Seq(Own \cup RawLines), SymbolsActive, InPlace,
         shifted # "above"
  PROVE  LET text == FlattenSeq(Merged) IN
         /\ Len(Resolve(text)) = Len(Resolve(agent))
         /\ \A k \in 1 .. Len(Resolve(agent)) :
              Resolve(text)[k] = IF k <= Len(human) THEN human[k] ELSE Resolve(agent)[k]
         /\ \A k \in 1 .. Len(text) : text[k] \notin RawLines
<1> DEFINE m == Meanings(agent)
           T == Own \cup RawLines
           text == FlattenSeq(Merged)
           whole == Resolve(agent)
           rr == [i \in 1 .. Len(agent) |-> Resolve(Reconciled(i))]
<1>1. /\ m \in Seq(Seq(T)) /\ Len(m) = Len(agent)
      /\ \A i \in 1 .. Len(agent) : m[i] = Meaning(agent[i])
      /\ whole = FlattenSeq(m)
  BY MeaningsType
<1>2. /\ Merged \in Seq(Seq(Line)) /\ Len(Merged) = Len(agent) /\ text \in Seq(Line)
      /\ \A i \in 1 .. Len(agent) : Merged[i] = Reconciled(i)
  BY MergedType
<1>3. ASSUME NEW i \in 1 .. Len(agent)
      PROVE  /\ Resolve(Reconciled(i)) \in Seq(T)
             /\ Len(Resolve(Reconciled(i))) = Len(m[i])
             /\ \A j \in 1 .. Len(m[i]) :
                  Resolve(Reconciled(i))[j] =
                    IF Off(m, i - 1) + j <= Len(human) THEN human[Off(m, i - 1) + j] ELSE m[i][j]
             /\ \A j \in 1 .. Len(Reconciled(i)) : Reconciled(i)[j] \notin RawLines
  BY <1>1, ReconciledMeaning, Zenon
<1> HIDE DEF m, T
<1>4. /\ rr \in Seq(Seq(T)) /\ Len(rr) = Len(agent)
      /\ \A i \in 1 .. Len(agent) : rr[i] = Resolve(Reconciled(i))
  <2>1. Len(agent) \in Nat
    OBVIOUS
  <2> QED BY <1>3, <2>1
<1> HIDE DEF rr
<1>5. Resolve(text) = FlattenSeq(rr)
  <2>1. \A i \in 1 .. Len(Merged) : rr[i] = Resolve(Merged[i])
    BY <1>2, <1>4, Zenon
  <2>2. Len(rr) = Len(Merged) /\ rr \in Seq(Seq(Own \cup RawLines)) /\ Merged \in Seq(Seq(Line))
    BY <1>2, <1>4, Zenon DEF T
  <2> QED BY <2>1, <2>2, ResolveFlatten, Zenon
<1> HIDE DEF text, whole
<1>6. \A k \in 0 .. Len(m) : Off(m, k) = Off(rr, k)
  <2>1. Len(m) = Len(rr) /\ \A i \in 1 .. Len(m) : Len(m[i]) = Len(rr[i])
    BY <1>1, <1>3, <1>4, Zenon
  <2> QED BY <1>1, <1>4, <2>1, SameOffsets, Zenon
<1>7. Len(Resolve(text)) = Len(whole)
  <2>1. Len(m) \in 0 .. Len(m)
    BY <1>1
  <2>2. Off(m, Len(m)) = Len(FlattenSeq(m)) /\ Off(rr, Len(rr)) = Len(FlattenSeq(rr))
    BY <1>1, <1>4, OffStep, Zenon
  <2> QED BY <1>1, <1>4, <1>5, <1>6, <2>1, <2>2, Zenon
<1>8. ASSUME NEW k \in 1 .. Len(whole)
      PROVE  Resolve(text)[k] = IF k <= Len(human) THEN human[k] ELSE whole[k]
  <2>1. PICK i \in 1 .. Len(m) : \E j \in 1 .. Len(m[i]) : k = Off(m, i - 1) + j /\ whole[k] = m[i][j]
    BY <1>1, FlattenFind, Zenon
  <2>2. PICK j \in 1 .. Len(m[i]) : k = Off(m, i - 1) + j /\ whole[k] = m[i][j]
    BY <2>1, Zenon
  <2>3. i \in 1 .. Len(agent) /\ i \in 1 .. Len(rr) /\ i - 1 \in 0 .. Len(m)
    BY <1>1, <1>4
  <2>4. j \in 1 .. Len(rr[i])
    BY <1>3, <1>4, <2>3, Zenon
  <2>5. FlattenSeq(rr)[Off(rr, i - 1) + j] = rr[i][j]
    BY <1>4, <2>3, <2>4, FlattenAt, Zenon
  <2>6. Resolve(text)[k] = Resolve(Reconciled(i))[j]
    BY <1>4, <1>5, <1>6, <2>2, <2>3, <2>5, Zenon
  <2> QED BY <1>3, <2>2, <2>3, <2>6, Zenon
<1>9. ASSUME NEW k \in 1 .. Len(text) PROVE text[k] \notin RawLines
  <2>1. \E i \in 1 .. Len(agent) : \E j \in 1 .. Len(Reconciled(i)) : text[k] = Reconciled(i)[j]
    BY MergedLine, Zenon DEF text
  <2> QED BY <1>3, <2>1, Zenon
<1> QED BY <1>7, <1>8, <1>9, Zenon DEF text, whole

\* Two neighbouring symbols of the merged text come from the same line or from
\* two neighbouring ones: what lies between is gone only past the human's text.
LEMMA MergedNeighbours ==
  ASSUME agent \in Seq(Line), human \in Seq(Own \cup RawLines), SymbolsActive,
         NEW i \in 1 .. Len(agent), NEW j \in 1 .. Len(Reconciled(i)),
         NEW h \in 1 .. Len(agent), NEW k \in 1 .. Len(Reconciled(h)),
         (Off(Merged, i - 1) + j) + 1 = Off(Merged, h - 1) + k,
         i < h, Reconciled(h)[k] \in Symbols
  PROVE  h = i + 1
<1> SUFFICES ASSUME h # i + 1 PROVE FALSE
  OBVIOUS
<1> DEFINE c == i + 1
<1>1. /\ Merged \in Seq(Seq(Line)) /\ Len(Merged) = Len(agent)
      /\ \A n \in 1 .. Len(agent) : Merged[n] = Reconciled(n) /\ Reconciled(n) \in Seq(Line)
  BY MergedType, ReconciledShape
<1>2. c \in 1 .. Len(agent) /\ i <= c - 1 /\ c <= h - 1 /\ c - 1 = i /\ c < h
  OBVIOUS
<1>3. Merged[c] = Reconciled(c) /\ Reconciled(c) \in Seq(Line) /\ Reconciled(i) \in Seq(Line)
      /\ Merged[i] = Reconciled(i)
  BY <1>1, <1>2
<1> HIDE DEF c
<1>4. /\ Off(Merged, i) = Off(Merged, i - 1) + Len(Reconciled(i))
      /\ Off(Merged, c) = Off(Merged, i) + Len(Reconciled(c))
      /\ Off(Merged, c) <= Off(Merged, h - 1)
      /\ Off(Merged, i - 1) \in Nat /\ Off(Merged, i) \in Nat /\ Off(Merged, h - 1) \in Nat
  <2>1. /\ i - 1 \in 0 .. Len(Merged) /\ i \in 0 .. Len(Merged) /\ c \in 0 .. Len(Merged)
        /\ h - 1 \in 0 .. Len(Merged) /\ i \in 1 .. Len(Merged) /\ c \in 1 .. Len(Merged)
    <3>1. /\ i - 1 \in 0 .. Len(agent) /\ i \in 0 .. Len(agent) /\ c \in 0 .. Len(agent)
          /\ h - 1 \in 0 .. Len(agent) /\ i \in 1 .. Len(agent) /\ c \in 1 .. Len(agent)
      BY <1>2
    <3> QED BY <1>1, <3>1, Zenon
  <2>2. Off(Merged, c) <= Off(Merged, h - 1)
    BY <1>1, <1>2, <2>1, OffMonotone
  <2>3. Off(Merged, c) = Off(Merged, c - 1) + Len(Merged[c]) /\ Off(Merged, i) = Off(Merged, i - 1) + Len(Merged[i])
    BY <1>1, <2>1, OffStep, Zenon
  <2>4. Off(Merged, i - 1) \in Nat /\ Off(Merged, i) \in Nat /\ Off(Merged, h - 1) \in Nat
    BY <1>1, <2>1, OffStep, Zenon
  <2> QED BY <1>2, <1>3, <2>2, <2>3, <2>4, Zenon
<1>5. Reconciled(c) = <<>>
  <2> DEFINE n == Len(Reconciled(c))
             x == Off(Merged, i)
             y == Off(Merged, h - 1)
             z == Off(Merged, i - 1)
             l == Len(Reconciled(i))
  <2>1. n \in Nat /\ j <= l /\ l \in Nat /\ j \in Nat /\ k \in Nat \ {0}
    BY <1>3
  <2>2. /\ x = z + l /\ x + n <= y /\ x \in Nat /\ y \in Nat /\ z \in Nat
        /\ (z + j) + 1 = y + k
    BY <1>4, Zenon
  <2>3. n = 0
    <3> HIDE DEF n, x, y, z, l
    <3> QED BY <2>1, <2>2
  <2> QED BY <1>3, <2>3
<1>6. /\ agent[c] \in Line /\ agent[h] \in Line /\ SymbolsActive
      /\ SymbolIn(agent[c]) = agent[c] /\ SymbolIn(agent[h]) = agent[h]
  BY <1>2, BareLine
<1>7. HumanSlice(c) = <<>>
  <2>1. CASE ~IsSegment(agent[c])
    BY <1>5, <2>1 DEF Reconciled
  <2>2. CASE IsSegment(agent[c])
    <3>1. Value(agent[c]) \in Seq(RawLines) /\ Len(Value(agent[c])) \in Nat \ {0}
          /\ HumanSlice(c) \in Seq(Own \cup RawLines)
      BY <1>2, <1>6, <2>2, ValueLines, SliceLines, BareLine
    <3>2. \/ HumanSlice(c) = Value(agent[c]) /\ Reconciled(c) = <<agent[c]>>
          \/ HumanSlice(c) # Value(agent[c]) /\ Len(HumanSlice(c)) = Len(Value(agent[c]))
               /\ Reconciled(c) = Split(agent[c], HumanSlice(c))
          \/ Reconciled(c) = HumanSlice(c)
      BY <1>6, <2>2, Zenon DEF Reconciled
    <3>3. Reconciled(c) # <<agent[c]>>
      BY <1>5
    <3>4. CASE /\ Len(HumanSlice(c)) = Len(Value(agent[c]))
               /\ Reconciled(c) = Split(agent[c], HumanSlice(c))
      <4>1. agent[c] \in Symbols
        BY <1>6, <2>2, BareLine
      <4>2. Resolve(Reconciled(c)) = HumanSlice(c)
        BY <3>1, <3>4, <4>1, SplitMeaning, Zenon
      <4> QED BY <1>5, <4>2, ResolveEmpty, Zenon
    <3> QED BY <1>5, <3>2, <3>3, <3>4
  <2> QED BY <2>1, <2>2
<1>8. ~ HumanStart(c) <= Len(human)
  BY <1>2, <1>7, SliceLines
<1>9. HumanStart(c) <= HumanStart(h)
  <2>1. HumanStart(c) = Off(Meanings(agent), c - 1) + 1 /\ HumanStart(h) = Off(Meanings(agent), h - 1) + 1
    BY <1>2, HumanStartIsOffset
  <2>2. Meanings(agent) \in Seq(Seq(Own \cup RawLines)) /\ Len(Meanings(agent)) = Len(agent)
    BY MeaningsType
  <2>3. c - 1 \in 0 .. Len(Meanings(agent)) /\ h - 1 \in 0 .. Len(Meanings(agent)) /\ c - 1 <= h - 1
    BY <1>2, <2>2
  <2>4. Off(Meanings(agent), c - 1) <= Off(Meanings(agent), h - 1)
    BY <2>2, <2>3, OffMonotone, Zenon
  <2>5. Off(Meanings(agent), c - 1) \in Nat /\ Off(Meanings(agent), h - 1) \in Nat
    BY <2>2, <2>3, OffStep, Zenon
  <2> DEFINE x == Off(Meanings(agent), c - 1)
             y == Off(Meanings(agent), h - 1)
  <2>6. x <= y /\ x \in Nat /\ y \in Nat
    BY <2>4, <2>5, Zenon
  <2> HIDE DEF x, y
  <2>7. x + 1 <= y + 1
    BY <2>6
  <2> QED BY <2>1, <2>7, Zenon DEF x, y
<1>10. HumanSlice(h) = <<>>
  <2>1. c \in Nat \ {0} /\ h \in Nat \ {0}
    BY <1>2
  <2>2. HumanStart(c) \in Nat /\ HumanStart(h) \in Nat /\ Len(human) \in Nat
    <3>1. HumanStart(c) \in Nat \ {0} /\ HumanStart(h) \in Nat \ {0}
      BY <2>1, HumanStartType, Zenon
    <3>2. Len(human) \in Nat
      OBVIOUS
    <3> QED BY <3>1, <3>2
  <2>3. ~ HumanStart(h) <= Len(human)
    BY <1>8, <1>9, <2>2
  <2>4. HumanSlice(h) \in Seq(Own \cup RawLines) /\ ~ Len(HumanSlice(h)) >= 1
    BY <2>3, SliceLines
  <2> QED BY <2>4
<1>11. CASE IsSegment(agent[h])
  <2>1. agent[h] \in Symbols
    BY <1>6, <1>11, BareLine
  <2>2. Len(Value(agent[h])) # 0 /\ Len(<<>>) = 0
    BY <2>1, ValueLines
  <2>3. HumanSlice(h) # Value(agent[h]) /\ Len(HumanSlice(h)) # Len(Value(agent[h]))
    BY <1>10, <2>2
  <2>4. Reconciled(h) = <<>>
    BY <1>6, <1>10, <1>11, <2>3, Zenon DEF Reconciled
  <2> QED BY <2>4
<1>12. CASE ~IsSegment(agent[h])
  <2>1. Reconciled(h) = <<agent[h]>>
    BY <1>10, <1>12 DEF Reconciled
  <2>2. agent[h] \in Symbols
    BY <2>1
  <2>3. agent[h] \in obsolete
    BY <1>6, <1>12, <2>2, BareLine
  <2> QED BY <2>3 DEF SymbolsActive
<1> QED BY <1>11, <1>12

---------------------------------------------------------------------------
(*************************************************************************)
(* The human's edits.                                                    *)
(*************************************************************************)
\* The texts to begin with have no raw lines.
LEMMA DocumentLines ==
  ASSUME EachBare, NEW text \in Documents
  PROVE  text \in Seq(Line) /\ \A i \in 1 .. Len(text) : text[i] \notin RawLines
<1>1. text \in Seq(Own \cup Symbols)
  <2>1. text \in Seq(Own \cup Symbols \cup Dressed)
    BY LinesAssumption
  <2>2. \A i \in 1 .. Len(text) : text[i] \in Own \cup Symbols
    BY <2>1 DEF EachBare
  <2> QED BY <2>1, <2>2
<1>2. (Own \cup Symbols) \cap RawLines = {} /\ Own \cup Symbols \subseteq Line
  BY KindsOfLines DEF Line
<1> QED BY <1>1, <1>2

\* What InsertAt does to the lines of a text.
LEMMA InsertLines ==
  ASSUME NEW S, NEW s \in Seq(S), NEW e \in S, NEW i \in 1 .. Len(s) + 1
  PROVE  /\ InsertAt(s, i, e) \in Seq(S)
         /\ InsertAt(s, i, e) =
              [k \in 1 .. Len(s) + 1 |-> IF k < i THEN s[k] ELSE IF k = i THEN e ELSE s[k - 1]]
<1> DEFINE a == SubSeq(s, 1, i - 1)
           b == SubSeq(s, i, Len(s))
           c == a \o <<e>>
<1>1. a \in Seq(S) /\ Len(a) = i - 1 /\ \A k \in 1 .. i - 1 : a[k] = s[k]
  OBVIOUS
<1>2. b \in Seq(S) /\ Len(b) = Len(s) - i + 1 /\ \A k \in 1 .. Len(s) - i + 1 : b[k] = s[i + k - 1]
  OBVIOUS
<1>3. InsertAt(s, i, e) = c \o b
  BY DEF InsertAt
<1> HIDE DEF a, b
<1>4. c \in Seq(S) /\ Len(c) = i /\ \A k \in 1 .. i : c[k] = IF k < i THEN s[k] ELSE e
  BY <1>1
<1> HIDE DEF c
<1>5. /\ c \o b \in Seq(S) /\ Len(c \o b) = Len(s) + 1
      /\ \A k \in 1 .. Len(s) + 1 : (c \o b)[k] = IF k <= i THEN c[k] ELSE b[k - i]
  <2>1. /\ c \o b \in Seq(S) /\ Len(c \o b) = Len(c) + Len(b)
        /\ \A k \in 1 .. Len(c) + Len(b) : (c \o b)[k] = IF k <= Len(c) THEN c[k] ELSE b[k - Len(c)]
    BY <1>2, <1>4, ConcatProperties, Zenon
  <2>2. Len(c) = i /\ Len(c) + Len(b) = Len(s) + 1
    BY <1>2, <1>4
  <2> QED BY <2>1, <2>2, Zenon
<1>6. ASSUME NEW k \in 1 .. Len(s) + 1
      PROVE  (c \o b)[k] = IF k < i THEN s[k] ELSE IF k = i THEN e ELSE s[k - 1]
  <2>1. CASE k <= i
    BY <1>4, <1>5, <2>1
  <2>2. CASE ~ k <= i
    <3>1. k - i \in 1 .. Len(s) - i + 1 /\ i + (k - i) - 1 = k - 1 /\ ~ k < i /\ k # i
      BY <2>2
    <3>2. b[k - i] = s[k - 1]
      BY <1>2, <3>1
    <3> QED BY <1>5, <2>2, <3>1, <3>2
  <2> QED BY <2>1, <2>2
<1>7. c \o b = [k \in 1 .. Len(s) + 1 |-> IF k < i THEN s[k] ELSE IF k = i THEN e ELSE s[k - 1]]
  <2> DEFINE q == c \o b
             n == Len(s) + 1
  <2>1. q \in Seq(S) /\ Len(q) = n
    BY <1>5, Zenon
  <2> HIDE DEF q
  <2>2. q = [k \in 1 .. n |-> q[k]]
    BY <2>1
  <2> QED BY <1>6, <2>2, Zenon DEF q
<1> QED BY <1>3, <1>5, <1>7, Zenon

\* What RemoveAt does.
LEMMA RemoveLines ==
  ASSUME NEW S, NEW s \in Seq(S), NEW i \in 1 .. Len(s)
  PROVE  /\ RemoveAt(s, i) \in Seq(S)
         /\ RemoveAt(s, i) = [k \in 1 .. Len(s) - 1 |-> IF k < i THEN s[k] ELSE s[k + 1]]
<1> DEFINE a == SubSeq(s, 1, i - 1)
           b == SubSeq(s, i + 1, Len(s))
<1>1. a \in Seq(S) /\ Len(a) = i - 1 /\ \A k \in 1 .. i - 1 : a[k] = s[k]
  OBVIOUS
<1>2. b \in Seq(S) /\ Len(b) = Len(s) - i /\ \A k \in 1 .. Len(s) - i : b[k] = s[i + k]
  OBVIOUS
<1>3. RemoveAt(s, i) = a \o b
  BY DEF RemoveAt
<1> HIDE DEF a, b
<1>4. /\ a \o b \in Seq(S) /\ Len(a \o b) = Len(s) - 1
      /\ \A k \in 1 .. Len(s) - 1 : (a \o b)[k] = IF k < i THEN a[k] ELSE b[k - (i - 1)]
  <2>1. /\ a \o b \in Seq(S) /\ Len(a \o b) = Len(a) + Len(b)
        /\ \A k \in 1 .. Len(a) + Len(b) : (a \o b)[k] = IF k <= Len(a) THEN a[k] ELSE b[k - Len(a)]
    BY <1>1, <1>2, ConcatProperties, Zenon
  <2>2. Len(a) = i - 1 /\ Len(a) + Len(b) = Len(s) - 1
    BY <1>1, <1>2
  <2>3. \A k \in 1 .. Len(s) - 1 : k <= i - 1 <=> k < i
    OBVIOUS
  <2> QED BY <2>1, <2>2, <2>3, Zenon
<1>5. ASSUME NEW k \in 1 .. Len(s) - 1
      PROVE  (a \o b)[k] = IF k < i THEN s[k] ELSE s[k + 1]
  <2>1. CASE k < i
    BY <1>1, <1>4, <2>1
  <2>2. CASE ~ k < i
    <3>1. k - (i - 1) \in 1 .. Len(s) - i /\ i + (k - (i - 1)) = k + 1
      BY <2>2
    <3>2. b[k - (i - 1)] = s[k + 1]
      BY <1>2, <3>1
    <3> QED BY <1>4, <2>2, <3>2
  <2> QED BY <2>1, <2>2
<1>6. a \o b = [k \in 1 .. Len(s) - 1 |-> IF k < i THEN s[k] ELSE s[k + 1]]
  <2> DEFINE q == a \o b
             n == Len(s) - 1
  <2>1. q \in Seq(S) /\ Len(q) = n
    BY <1>4, Zenon
  <2> HIDE DEF q
  <2>2. q = [k \in 1 .. n |-> q[k]]
    BY <2>1
  <2> QED BY <1>5, <2>2, Zenon DEF q
<1> QED BY <1>3, <1>4, <1>6, Zenon

\* A line that is added or deleted where Shift says so is below all symbols.
LEMMA ShiftIsBelow ==
  ASSUME agent \in Seq(Line), SymbolsActive, InPlace, NEW i \in Nat, Shift(i) # "above"
  PROVE  /\ shifted # "above"
         /\ \A p \in 1 .. Len(Resolve(agent)) : Resolve(agent)[p] \in RawLines => p < i
         /\ HasSymbols => Shift(i) # "no"
<1>1. shifted # "above" /\ (HasSymbols => Shift(i) # "no")
  BY DEF Shift
<1>2. ASSUME NEW p \in 1 .. Len(Resolve(agent)), Resolve(agent)[p] \in RawLines
      PROVE  p < i
  <2> DEFINE m == Meanings(agent)
  <2>1. /\ m \in Seq(Seq(Own \cup RawLines)) /\ Len(m) = Len(agent)
        /\ \A k \in 1 .. Len(agent) : m[k] = Meaning(agent[k])
        /\ Resolve(agent) = FlattenSeq(m)
    BY MeaningsType
  <2> HIDE DEF m
  <2>2. PICK k \in 1 .. Len(m) : \E j \in 1 .. Len(m[k]) : p = Off(m, k - 1) + j /\ Resolve(agent)[p] = m[k][j]
    <3>1. p \in 1 .. Len(FlattenSeq(m))
      BY <2>1, Zenon
    <3>2. \E k \in 1 .. Len(m) : \E j \in 1 .. Len(m[k]) : p = Off(m, k - 1) + j /\ FlattenSeq(m)[p] = m[k][j]
      BY <2>1, <3>1, FlattenFind
    <3> QED BY <2>1, <3>2, Zenon
  <2>3. PICK j \in 1 .. Len(m[k]) : p = Off(m, k - 1) + j /\ Resolve(agent)[p] = m[k][j]
    BY <2>2, Zenon
  <2>4. k \in 1 .. Len(agent) /\ m[k] = Meaning(agent[k]) /\ agent[k] \notin RawLines
    <3>1. k \in 1 .. Len(agent) /\ k \in DOMAIN agent
      BY <2>1
    <3> QED BY <1>1, <2>1, <3>1, Zenon DEF InPlace, NoRawLines
  <2>5. IsSymbol(agent[k])
    <3> SUFFICES ASSUME ~IsSymbol(agent[k]) PROVE FALSE
      OBVIOUS
    <3>1. m[k] = <<agent[k]>>
      <4>1. agent[k] \in Line /\ agent[k] \notin Symbols
        BY <2>4, SymbolIsInSymbols
      <4> QED BY <2>4, <4>1, BareLine, Zenon
    <3>2. j = 1 /\ m[k][1] = agent[k]
      BY <3>1
    <3> QED BY <1>2, <2>3, <2>4, <3>2, Zenon
  <2>6. ~ i < HumanStart(k) + Span(agent[k])
    <3>1. k \in DOMAIN agent
      BY <2>4
    <3>2. HasSymbols
      BY <2>5, <3>1 DEF HasSymbols, HasSymbol
    <3>3. (\E l \in DOMAIN agent : HasSymbol(agent[l]) /\ i < HumanStart(l) + Span(agent[l]))
             => Shift(i) = "above"
      BY <3>2, Zenon DEF Shift
    <3> QED BY <2>5, <3>1, <3>3, Zenon DEF HasSymbol
  <2>7. /\ HumanStart(k) = Off(m, k - 1) + 1 /\ Span(agent[k]) = Len(m[k])
    BY <2>4, HumanStartIsOffset DEF m
  <2>8. Off(m, k - 1) \in Nat /\ Len(m[k]) \in Nat
    <3>1. k - 1 \in 0 .. Len(m) /\ m[k] \in Seq(Own \cup RawLines)
      BY <2>1
    <3>2. Off(m, k - 1) \in Nat
      BY <2>1, <3>1, OffStep, Zenon
    <3>3. Len(m[k]) \in Nat
      BY <3>1
    <3> QED BY <3>2, <3>3
  <2> DEFINE x == Off(m, k - 1)
             n == Len(m[k])
  <2>9. ~ i < (x + 1) + n /\ x \in Nat /\ n \in Nat /\ p = x + j /\ j \in 1 .. n
    BY <2>3, <2>6, <2>7, <2>8, Zenon
  <2> HIDE DEF x, n
  <2> QED BY <2>9
<1> QED BY <1>1, <1>2

---------------------------------------------------------------------------
(*************************************************************************)
(* The types.                                                            *)
(*************************************************************************)
\* Any line of an Agent text, and of a human's.
AnyLine == Own \cup Symbols \cup Dressed \cup RawLines \cup Mixed
Shown == Own \cup RawLines \cup Mixed

\* Any line means lines without symbols.
LEMMA AnyMeaning ==
  ASSUME NEW l \in AnyLine
  PROVE  Meaning(l) \in Seq(Shown)
<1>1. RawLines \subseteq Shown /\ Mixed \subseteq Shown
  BY DEF Shown
<1>2. CASE IsSymbol(l)
  <2>1. Value(l) \in Seq(RawLines)
    BY <1>2, SymbolIsInSymbols, ValueLines
  <2>2. Value(l) \in Seq(Shown)
    BY <1>1, <2>1, SeqMonotonic
  <2> QED BY <1>2, <2>2, Zenon DEF Meaning
<1>3. CASE ~IsSymbol(l) /\ l \in Dressed
  <2> DEFINE v == Value(l.symbol)
             first == [beside |-> l.beside, raw |-> v[1]]
  <2>1. l.symbol \in Symbols /\ l.beside \in {"space", "text"}
    BY <1>3 DEF Dressed
  <2>2. v \in Seq(RawLines) /\ Len(v) \in Nat \ {0}
    BY <2>1, ValueLines, Zenon
  <2> HIDE DEF v
  <2>3. v[1] \in RawLines /\ 1 \in 1 .. Len(v)
    BY <2>2
  <2>4. first \in Shown
    <3>1. first \in Mixed
      BY <2>1, <2>3 DEF Mixed
    <3> QED BY <1>1, <3>1
  <2> HIDE DEF first
  <2>5. v \in Seq(Shown)
    BY <1>1, <2>2, SeqMonotonic
  <2>6. [v EXCEPT ![1] = first] \in Seq(Shown)
    BY <2>3, <2>4, <2>5, ExceptSeq
  <2>7. Meaning(l) = [v EXCEPT ![1] = first]
    BY <1>3 DEF Meaning, v, first
  <2> QED BY <2>6, <2>7
<1>4. CASE ~IsSymbol(l) /\ l \notin Dressed
  <2>1. l \in Shown
    BY <1>4, SymbolIsInSymbols DEF AnyLine, Shown
  <2>2. Meaning(l) = <<l>>
    BY <1>4, Zenon DEF Meaning
  <2> QED BY <2>1, <2>2
<1> QED BY <1>2, <1>3, <1>4

\* Any text resolves to lines without symbols.
LEMMA AnyResolve ==
  ASSUME NEW text \in Seq(AnyLine)
  PROVE  Resolve(text) \in Seq(Shown)
<1> DEFINE m == [i \in DOMAIN text |-> Meaning(text[i])]
<1>1. m \in Seq(Seq(Shown))
  <2>1. m = [i \in 1 .. Len(text) |-> Meaning(text[i])] /\ Len(text) \in Nat
    OBVIOUS
  <2>2. \A i \in 1 .. Len(text) : Meaning(text[i]) \in Seq(Shown)
    BY AnyMeaning
  <2> QED BY <2>1, <2>2
<1>2. Resolve(text) = FlattenSeq(m)
  BY DEF Resolve
<1> HIDE DEF m
<1> QED BY <1>1, <1>2, FlattenType

\* The human lines of any line are lines without symbols.
LEMMA AnySlice ==
  ASSUME human \in Seq(Shown), NEW i \in Nat \ {0}
  PROVE  HumanSlice(i) \in Seq(Shown)
<1> DEFINE m == HumanStart(i)
           w == Span(agent[i])
           e == IF m + w - 1 <= Len(human) THEN m + w - 1 ELSE Len(human)
<1>1. m \in Nat \ {0} /\ w \in Nat \ {0} /\ Len(human) \in Nat
  BY HumanStartType, SpanType
<1>2. HumanSlice(i) = SubSeq(human, m, e)
  BY DEF HumanSlice
<1> HIDE DEF m, w
<1>3. m \in Int /\ e \in Int /\ \A k \in m .. e : human[k] \in Shown
  BY <1>1
<1> HIDE DEF e
<1> QED BY <1>2, <1>3, SubSeqProperties

\* What reconcileFile puts in the place of any line are lines.
LEMMA AnyReconciled ==
  ASSUME agent \in Seq(AnyLine), human \in Seq(Shown), NEW i \in 1 .. Len(agent)
  PROVE  Reconciled(i) \in Seq(AnyLine)
<1> DEFINE line == agent[i]
           slice == HumanSlice(i)
           s == SymbolIn(line)
<1>1. line \in AnyLine
  OBVIOUS
<1>2. slice \in Seq(Shown)
  BY AnySlice
<1>3. Shown \subseteq AnyLine /\ Shown \cup Symbols \subseteq AnyLine
  BY DEF Shown, AnyLine
<1>4. slice \in Seq(AnyLine)
  BY <1>2, <1>3, SeqMonotonic
<1>5. <<line>> \in Seq(AnyLine)
  BY <1>1
<1>6. \/ Reconciled(i) = <<line>>
      \/ Reconciled(i) = slice
      \/ /\ Reconciled(i) = Split(s, slice) /\ IsSegment(line)
         /\ Len(slice) = Len(Value(s))
  BY Zenon DEF Reconciled
<1>7. IsSegment(line) => s \in Symbols
  BY SymbolIsInSymbols DEF IsSegment, SymbolIn, Dressed
<1> HIDE DEF line, slice, s
<1>8. CASE /\ Reconciled(i) = Split(s, slice) /\ IsSegment(line)
           /\ Len(slice) = Len(Value(s))
  <2>1. Pieces(s, slice) \in Seq(Seq(Shown \cup Symbols))
    BY <1>2, <1>7, <1>8, PiecesOver, Zenon
  <2>2. Split(s, slice) = FlattenSeq(Pieces(s, slice))
    BY SplitIsPieces
  <2>3. Split(s, slice) \in Seq(Shown \cup Symbols)
    BY <2>1, <2>2, FlattenType
  <2> QED BY <1>3, <1>8, <2>3, SeqMonotonic
<1> QED BY <1>4, <1>5, <1>6, <1>8

\* Shift is one of the values of shifted.
LEMMA ShiftType ==
  ASSUME NEW i, shifted \in {"no", "below", "above"}
  PROVE  Shift(i) \in {"no", "below", "above"}
BY DEF Shift

\* The human writes lines of their own into a text of any lines.
LEMMA EditedText ==
  ASSUME NEW T, Own \subseteq T, human \in Seq(T),
         HumanReplaces \/ HumanInserts \/ HumanDeletes
  PROVE  human' \in Seq(T)
<1>1. CASE HumanReplaces
  <2>1. PICK i \in DOMAIN human, o \in Own : human' = [human EXCEPT ![i] = o]
    BY <1>1 DEF HumanReplaces
  <2>2. i \in 1 .. Len(human) /\ o \in T
    OBVIOUS
  <2> QED BY <2>1, <2>2, ExceptSeq
<1>2. CASE HumanInserts
  <2>1. PICK i \in 1 .. Len(human) + 1, o \in Own : human' = InsertAt(human, i, o)
    BY <1>2 DEF HumanInserts
  <2>2. o \in T
    OBVIOUS
  <2> QED BY <2>1, <2>2, InsertLines
<1>3. CASE HumanDeletes
  <2>1. PICK i \in 1 .. Len(human) : human' = RemoveAt(human, i)
    BY <1>3 DEF HumanDeletes
  <2> QED BY <2>1, RemoveLines
<1> QED BY <1>1, <1>2, <1>3

\* An edit leaves the rest as it is, but for the history of where it was.
LEMMA EditsLeave ==
  ASSUME HumanReplaces \/ HumanInserts \/ HumanDeletes, shifted \in {"no", "below", "above"}
  PROVE  /\ UNCHANGED <<agent, committed, obsolete>>
         /\ shifted' \in {"no", "below", "above"}
BY ShiftType DEF HumanReplaces, HumanInserts, HumanDeletes

\* The types hold at the beginning.
THEOREM TypeInit == Init => TypeOK
<1> SUFFICES ASSUME Init PROVE TypeOK
  OBVIOUS
<1>1. agent \in Seq(AnyLine)
  <2>1. agent \in Seq(Own \cup Symbols \cup Dressed)
    BY LinesAssumption DEF Init
  <2>2. Own \cup Symbols \cup Dressed \subseteq AnyLine
    BY DEF AnyLine
  <2> QED BY <2>1, <2>2, SeqMonotonic
<1>2. Resolve(agent) \in Seq(Shown)
  BY <1>1, AnyResolve
<1>3. human \in Seq(Shown) /\ committed \in Seq(Shown)
  BY <1>2, Zenon DEF Init
<1> QED BY <1>1, <1>3 DEF Init, TypeOK, AnyLine, Shown

\* Every step keeps the types: what reconcileFile and splitSymbol write are
\* lines, and what they obsolete are symbols.
THEOREM TypeStep == TypeOK /\ [Next]_vars => TypeOK'
<1> SUFFICES ASSUME TypeOK, [Next]_vars PROVE TypeOK'
  OBVIOUS
<1>0. /\ agent \in Seq(AnyLine) /\ human \in Seq(Shown) /\ committed \in Seq(Shown)
      /\ obsolete \in SUBSET Symbols /\ shifted \in {"no", "below", "above"}
  BY DEF TypeOK, AnyLine, Shown
<1>1. CASE HumanReplaces \/ HumanInserts \/ HumanDeletes
  <2>1. human' \in Seq(Shown)
    <3>1. Own \subseteq Shown
      BY DEF Shown
    <3> QED BY <1>0, <1>1, <3>1, EditedText
  <2>2. UNCHANGED <<agent, committed, obsolete>> /\ shifted' \in {"no", "below", "above"}
    BY <1>0, <1>1, EditsLeave
  <2> QED BY <2>1, <2>2 DEF TypeOK, Shown
<1>2. CASE Reconcile
  <2>1. Shown \subseteq AnyLine
    BY DEF Shown, AnyLine
  <2>2. FlattenSeq([i \in DOMAIN agent |-> Reconciled(i)]) \in Seq(AnyLine)
    <3> DEFINE m == [i \in 1 .. Len(agent) |-> Reconciled(i)]
    <3>1. m = [i \in DOMAIN agent |-> Reconciled(i)] /\ Len(agent) \in Nat
      BY <1>0
    <3>2. \A i \in 1 .. Len(agent) : Reconciled(i) \in Seq(AnyLine)
      BY <1>0, AnyReconciled
    <3>3. m \in Seq(Seq(AnyLine))
      BY <3>1, <3>2
    <3> QED BY <3>1, <3>3, FlattenType, Zenon
  <2>3. agent' \in Seq(AnyLine)
    <3>1. human \in Seq(AnyLine)
      BY <1>0, <2>1, SeqMonotonic
    <3> QED BY <1>2, <2>2, <3>1, Zenon DEF Reconcile
  <2>4. obsolete' \in SUBSET Symbols
    <3>1. \A k \in DOMAIN agent : Promoted(k) => SymbolIn(agent[k]) \in Symbols
      BY SymbolIsInSymbols DEF Promoted, IsSegment, SymbolIn, Dressed
    <3>2. obsolete' = obsolete
            \cup {SymbolIn(agent[i]) : i \in {k \in DOMAIN agent : Promoted(k)}}
      BY <1>2 DEF Reconcile
    <3> QED BY <1>0, <3>1, <3>2
  <2>5. human' = human /\ committed' = human /\ shifted' = shifted
    BY <1>2 DEF Reconcile
  <2> QED BY <1>0, <2>3, <2>4, <2>5 DEF TypeOK, AnyLine, Shown
<1>3. CASE UNCHANGED vars
  BY <1>3 DEF vars, TypeOK
<1> QED BY <1>1, <1>2, <1>3 DEF Next

\* The types hold always; in particular a human's text never holds a symbol,
\* and each symbol reconcileFile writes stands for lines its datum has.
THEOREM TypeCorrect == Spec => []TypeOK
BY TypeInit, TypeStep, PTL DEF Spec

---------------------------------------------------------------------------
(*************************************************************************)
(* The types of texts whose symbols are lines of their own.              *)
(*************************************************************************)
\* Nothing is before a symbol or a raw line of it.
Plain ==
  /\ agent \in Seq(Line)
  /\ human \in Seq(Own \cup RawLines)
  /\ committed \in Seq(Own \cup RawLines)
  /\ obsolete \in SUBSET Symbols
  /\ shifted \in {"no", "below", "above"}

\* The reconciliation in terms of Merged.
LEMMA ReconcileText ==
  ASSUME Plain, Reconcile
  PROVE  /\ HasSymbols => agent' = FlattenSeq(Merged)
         /\ ~HasSymbols => agent' = human
         /\ human' = human /\ committed' = human /\ shifted' = shifted
         /\ obsolete' = obsolete \cup {agent[i] : i \in {k \in DOMAIN agent : Promoted(k)}}
<1>1. \A i \in DOMAIN agent : SymbolIn(agent[i]) = agent[i]
  <2> TAKE i \in DOMAIN agent
  <2>1. agent[i] \in Line
    BY DEF Plain
  <2> QED BY <2>1, BareLine
<1>2. {SymbolIn(agent[i]) : i \in {k \in DOMAIN agent : Promoted(k)}}
        = {agent[i] : i \in {k \in DOMAIN agent : Promoted(k)}}
  BY <1>1
<1> QED BY <1>2, Zenon DEF Reconcile, Merged

\* Symbols that are lines of their own to begin with ...
LEMMA PlainInit == EachBare /\ Init => Plain
<1> SUFFICES ASSUME EachBare, Init PROVE Plain
  OBVIOUS
<1>1. agent \in Seq(Line)
  BY DocumentLines DEF Init
<1>2. Resolve(agent) \in Seq(Own \cup RawLines)
  BY <1>1, MeaningsType
<1>3. human \in Seq(Own \cup RawLines) /\ committed \in Seq(Own \cup RawLines)
  BY <1>2, Zenon DEF Init
<1> QED BY <1>1, <1>3 DEF Init, Plain

\* ... stay so.
LEMMA PlainStep == Plain /\ [Next]_vars => Plain'
<1> SUFFICES ASSUME Plain, [Next]_vars PROVE Plain'
  OBVIOUS
<1>0. /\ agent \in Seq(Line) /\ human \in Seq(Own \cup RawLines)
      /\ obsolete \in SUBSET Symbols /\ shifted \in {"no", "below", "above"}
  BY DEF Plain
<1>1. CASE HumanReplaces \/ HumanInserts \/ HumanDeletes
  <2>1. human' \in Seq(Own \cup RawLines)
    <3>1. Own \subseteq Own \cup RawLines
      OBVIOUS
    <3> QED BY <1>0, <1>1, <3>1, EditedText
  <2>2. UNCHANGED <<agent, committed, obsolete>> /\ shifted' \in {"no", "below", "above"}
    BY <1>0, <1>1, EditsLeave
  <2> QED BY <2>1, <2>2 DEF Plain
<1>2. CASE Reconcile
  <2>1. /\ HasSymbols => agent' = FlattenSeq(Merged)
        /\ ~HasSymbols => agent' = human
        /\ human' = human /\ committed' = human /\ shifted' = shifted
        /\ obsolete' = obsolete \cup {agent[i] : i \in {k \in DOMAIN agent : Promoted(k)}}
    BY <1>2, ReconcileText
  <2>2. agent' \in Seq(Line)
    <3>1. human \in Seq(Line)
      BY <1>0, SeqMonotonic DEF Line
    <3>2. FlattenSeq(Merged) \in Seq(Line)
      BY <1>0, MergedType
    <3> QED BY <2>1, <3>1, <3>2, Zenon
  <2>3. obsolete' \in SUBSET Symbols
    <3>1. \A k \in DOMAIN agent : Promoted(k) => agent[k] \in Symbols
      BY <1>0, BareLine DEF Promoted
    <3> QED BY <1>0, <2>1, <3>1
  <2> QED BY <1>0, <2>1, <2>2, <2>3 DEF Plain
<1>3. CASE UNCHANGED vars
  BY <1>3 DEF vars, Plain
<1> QED BY <1>1, <1>2, <1>3 DEF Next

---------------------------------------------------------------------------
(*************************************************************************)
(* The invariant is inductive.                                           *)
(*************************************************************************)
\* The inductive invariant.
Inv ==
  /\ Plain
  /\ SymbolsApart
  /\ ObsoleteApart
  /\ InPlace
  /\ MeansCommitted

\* In particular every symbol of the Agent text is active.
LEMMA InvActive == Inv => SymbolsActive
BY ActiveFromApart DEF Inv, Plain

\* The invariant holds of documents with each symbol on a line of its own and
\* no line of untrusted data twice.
LEMMA InvInit == EachBare /\ EachUsedOnce /\ Init => Inv
<1> SUFFICES ASSUME EachBare, EachUsedOnce, Init PROVE Inv
  OBVIOUS
<1>1. Plain /\ agent \in Seq(Line) /\ \A i \in 1 .. Len(agent) : agent[i] \notin RawLines
  BY PlainInit, DocumentLines DEF Init
<1>2. SymbolsApart
  BY DEF SymbolsApart, EachUsedOnce, Init
<1>3. ObsoleteApart
  BY DEF ObsoleteApart, Init
<1>4. InPlace
  <2>1. NoRawLines
    BY <1>1, BareLine DEF NoRawLines
  <2> QED BY <2>1 DEF InPlace, Init
<1>5. MeansCommitted
  BY DEF MeansCommitted, Init
<1> QED BY <1>1, <1>2, <1>3, <1>4, <1>5 DEF Inv

\* The human's edits: the Agent text and its symbols stay as they are.
LEMMA EditKeeps ==
  ASSUME Inv, UNCHANGED <<agent, committed, obsolete>>
  PROVE  /\ SymbolsApart' /\ ObsoleteApart' /\ (HasSymbols' <=> HasSymbols)
         /\ Resolve(agent)' = Resolve(agent) /\ (NoRawLines => NoRawLines')
BY DEF Inv, SymbolsApart, ObsoleteApart, HasSymbols, HasSymbol, Resolve, Meaning, NoRawLines

\* The human writes a line over another: it is no raw line, so the raw lines
\* that are left are where they were.
LEMMA InvReplaces == Inv /\ Plain' /\ HumanReplaces => Inv'
<1> SUFFICES ASSUME Inv, Plain', HumanReplaces PROVE Inv'
  OBVIOUS
<1>1. human \in Seq(Own \cup RawLines) /\ DOMAIN human = 1 .. Len(human)
  BY DEF Inv, Plain
<1>2. PICK i \in 1 .. Len(human), o \in Own : human' = [human EXCEPT ![i] = o]
  BY <1>1 DEF HumanReplaces
<1>3. UNCHANGED <<agent, committed, obsolete, shifted>>
  BY DEF HumanReplaces
<1>4. o \notin RawLines
  BY KindsOfLines
<1>5. DOMAIN human' = DOMAIN human /\ Len(human') = Len(human)
      /\ \A k \in DOMAIN human : human'[k] = IF k = i THEN o ELSE human[k]
  BY <1>1, <1>2
<1>6. InPlace'
  <2> SUFFICES ASSUME shifted # "above"
               PROVE  /\ NoRawLines'
                      /\ \A m \in DOMAIN human' : human'[m] \in RawLines =>
                           m \in DOMAIN Resolve(agent) /\ Resolve(agent)[m] = human'[m]
                      /\ \A m \in DOMAIN Resolve(agent) : Resolve(agent)[m] \in RawLines => m \in DOMAIN human'
    BY <1>3, EditKeeps DEF InPlace
  <2> QED BY <1>3, <1>4, <1>5, EditKeeps DEF Inv, InPlace
<1>7. MeansCommitted'
  BY <1>3, <1>5, EditKeeps DEF Inv, MeansCommitted
<1> QED BY <1>3, <1>6, <1>7, EditKeeps DEF Inv

\* The human adds a line: below all symbols it moves no raw line.
LEMMA InvInserts == Inv /\ Plain' /\ HumanInserts => Inv'
<1> SUFFICES ASSUME Inv, Plain', HumanInserts PROVE Inv'
  OBVIOUS
<1>1. agent \in Seq(Line) /\ human \in Seq(Own \cup RawLines) /\ DOMAIN human = 1 .. Len(human) /\ Len(human) \in Nat
  BY DEF Inv, Plain
<1>2. PICK i \in 1 .. Len(human) + 1, o \in Own : human' = InsertAt(human, i, o) /\ shifted' = Shift(i)
  BY DEF HumanInserts
<1>3. UNCHANGED <<agent, committed, obsolete>>
  BY DEF HumanInserts
<1>4. o \notin RawLines /\ o \in Own \cup RawLines
  BY KindsOfLines
<1>5. /\ DOMAIN human' = 1 .. Len(human) + 1
      /\ \A k \in 1 .. Len(human) + 1 :
           human'[k] = IF k < i THEN human[k] ELSE IF k = i THEN o ELSE human[k - 1]
  <2> DEFINE T == Own \cup RawLines
  <2>1. human \in Seq(T) /\ o \in T /\ i \in 1 .. Len(human) + 1
    BY <1>1, <1>4, Zenon
  <2> HIDE DEF T
  <2>2. InsertAt(human, i, o) =
          [k \in 1 .. Len(human) + 1 |-> IF k < i THEN human[k] ELSE IF k = i THEN o ELSE human[k - 1]]
    BY <2>1, InsertLines
  <2>3. human' = [k \in 1 .. Len(human) + 1 |->
                    IF k < i THEN human[k] ELSE IF k = i THEN o ELSE human[k - 1]]
    BY <1>2, <2>2, Zenon
  <2> QED BY <2>3, Zenon
<1>6. Shift(i) # "above" =>
        /\ shifted # "above"
        /\ \A p \in 1 .. Len(Resolve(agent)) : Resolve(agent)[p] \in RawLines => p < i
  BY <1>1, InvActive, ShiftIsBelow DEF Inv
<1>7. HasSymbols => Shift(i) # "no"
  BY DEF Shift
<1>8. Resolve(agent) \in Seq(Own \cup RawLines)
  BY <1>1, MeaningsType
<1>9. InPlace'
  <2> DEFINE r == Resolve(agent)
  <2> SUFFICES ASSUME Shift(i) # "above"
               PROVE  /\ NoRawLines'
                      /\ \A m \in DOMAIN human' : human'[m] \in RawLines =>
                           m \in DOMAIN r /\ r[m] = human'[m]
                      /\ \A m \in DOMAIN r : r[m] \in RawLines => m \in DOMAIN human'
    BY <1>2, <1>3, EditKeeps DEF InPlace
  <2>1. NoRawLines'
    BY <1>3, <1>6, EditKeeps DEF Inv, InPlace
  <2>2. /\ \A m \in DOMAIN human : human[m] \in RawLines => m \in DOMAIN r /\ r[m] = human[m]
        /\ \A m \in DOMAIN r : r[m] \in RawLines => m \in DOMAIN human
    BY <1>6 DEF Inv, InPlace
  <2>3. DOMAIN r = 1 .. Len(r) /\ Len(r) \in Nat
    BY <1>8
  <2>4. \A m \in DOMAIN r : r[m] \in RawLines => m < i
    BY <1>6, <2>3
  <2> HIDE DEF r
  <2>5. ASSUME NEW m \in DOMAIN human', human'[m] \in RawLines
        PROVE  m \in DOMAIN r /\ r[m] = human'[m]
    <3>1. m \in 1 .. Len(human) + 1
      BY <1>5, <2>5
    <3>2. CASE m < i
      BY <1>1, <1>5, <2>2, <2>5, <3>1, <3>2
    <3>3. CASE m = i
      BY <1>4, <1>5, <2>5, <3>1, <3>3
    <3>4. CASE m > i
      <4>1. m - 1 \in DOMAIN human /\ human'[m] = human[m - 1] /\ ~ m - 1 < i
        BY <1>1, <1>5, <3>1, <3>4
      <4>2. m - 1 \in DOMAIN r /\ r[m - 1] \in RawLines
        BY <2>2, <2>5, <4>1
      <4> QED BY <2>4, <4>1, <4>2
    <3> QED BY <3>1, <3>2, <3>3, <3>4
  <2>6. \A m \in DOMAIN r : r[m] \in RawLines => m \in DOMAIN human'
    BY <1>1, <1>5, <2>2
  <2> QED BY <2>1, <2>5, <2>6
<1>10. MeansCommitted'
  BY <1>2, <1>3, <1>6, <1>7, EditKeeps, InvActive DEF Inv, MeansCommitted, Shift
<1> QED BY <1>3, <1>9, <1>10, EditKeeps DEF Inv

\* The human deletes a line: the same.
LEMMA InvDeletes == Inv /\ Plain' /\ HumanDeletes => Inv'
<1> SUFFICES ASSUME Inv, Plain', HumanDeletes PROVE Inv'
  OBVIOUS
<1>1. agent \in Seq(Line) /\ human \in Seq(Own \cup RawLines) /\ DOMAIN human = 1 .. Len(human) /\ Len(human) \in Nat
  BY DEF Inv, Plain
<1>2. PICK i \in 1 .. Len(human) : human' = RemoveAt(human, i) /\ shifted' = Shift(i)
  BY <1>1 DEF HumanDeletes
<1>3. UNCHANGED <<agent, committed, obsolete>>
  BY DEF HumanDeletes
<1>5. /\ DOMAIN human' = 1 .. Len(human) - 1
      /\ \A k \in 1 .. Len(human) - 1 : human'[k] = IF k < i THEN human[k] ELSE human[k + 1]
  <2>1. RemoveAt(human, i) = [k \in 1 .. Len(human) - 1 |-> IF k < i THEN human[k] ELSE human[k + 1]]
    BY <1>1, RemoveLines, Zenon
  <2>2. human' = [k \in 1 .. Len(human) - 1 |-> IF k < i THEN human[k] ELSE human[k + 1]]
    BY <1>2, <2>1, Zenon
  <2> QED BY <2>2, Zenon
<1>6. Shift(i) # "above" =>
        /\ shifted # "above"
        /\ \A p \in 1 .. Len(Resolve(agent)) : Resolve(agent)[p] \in RawLines => p < i
  BY <1>1, InvActive, ShiftIsBelow DEF Inv
<1>7. HasSymbols => Shift(i) # "no"
  BY DEF Shift
<1>8. Resolve(agent) \in Seq(Own \cup RawLines)
  BY <1>1, MeaningsType
<1>9. InPlace'
  <2> DEFINE r == Resolve(agent)
  <2> SUFFICES ASSUME Shift(i) # "above"
               PROVE  /\ NoRawLines'
                      /\ \A m \in DOMAIN human' : human'[m] \in RawLines =>
                           m \in DOMAIN r /\ r[m] = human'[m]
                      /\ \A m \in DOMAIN r : r[m] \in RawLines => m \in DOMAIN human'
    BY <1>2, <1>3, EditKeeps DEF InPlace
  <2>1. NoRawLines'
    BY <1>3, <1>6, EditKeeps DEF Inv, InPlace
  <2>2. /\ \A m \in DOMAIN human : human[m] \in RawLines => m \in DOMAIN r /\ r[m] = human[m]
        /\ \A m \in DOMAIN r : r[m] \in RawLines => m \in DOMAIN human
    BY <1>6 DEF Inv, InPlace
  <2>3. DOMAIN r = 1 .. Len(r) /\ Len(r) \in Nat
    BY <1>8
  <2>4. \A m \in DOMAIN r : r[m] \in RawLines => m < i
    BY <1>6, <2>3
  <2> HIDE DEF r
  <2>5. ASSUME NEW m \in DOMAIN human', human'[m] \in RawLines
        PROVE  m \in DOMAIN r /\ r[m] = human'[m]
    <3>1. m \in 1 .. Len(human) - 1
      BY <1>5, <2>5
    <3>2. CASE m < i
      BY <1>1, <1>5, <2>2, <2>5, <3>1, <3>2
    <3>3. CASE ~ m < i
      <4>1. m + 1 \in DOMAIN human /\ human'[m] = human[m + 1] /\ ~ m + 1 < i
        BY <1>1, <1>5, <3>1, <3>3
      <4>2. m + 1 \in DOMAIN r /\ r[m + 1] \in RawLines
        BY <2>2, <2>5, <4>1
      <4> QED BY <2>4, <4>1, <4>2
    <3> QED BY <3>2, <3>3
  <2>6. \A m \in DOMAIN r : r[m] \in RawLines => m \in DOMAIN human'
    <3> SUFFICES ASSUME NEW m \in DOMAIN r, r[m] \in RawLines PROVE m \in DOMAIN human'
      OBVIOUS
    <3>1. m < i /\ m \in 1 .. Len(human)
      BY <1>1, <2>2, <2>4
    <3> QED BY <1>1, <1>5, <3>1
  <2> QED BY <2>1, <2>5, <2>6
<1>10. MeansCommitted'
  BY <1>2, <1>3, <1>6, <1>7, EditKeeps, InvActive DEF Inv, MeansCommitted, Shift
<1> QED BY <1>3, <1>9, <1>10, EditKeeps DEF Inv

\* The texts are sequences with indices from 1 to their length.
LEMMA TextsLengths ==
  ASSUME Plain
  PROVE  /\ agent \in Seq(Line) /\ DOMAIN agent = 1 .. Len(agent)
         /\ human \in Seq(Own \cup RawLines) /\ DOMAIN human = 1 .. Len(human) /\ Len(human) \in Nat
         /\ Resolve(agent) \in Seq(Own \cup RawLines)
         /\ DOMAIN Resolve(agent) = 1 .. Len(Resolve(agent)) /\ Len(Resolve(agent)) \in Nat
<1>1. agent \in Seq(Line) /\ human \in Seq(Own \cup RawLines)
  BY DEF Plain
<1>2. Resolve(agent) \in Seq(Own \cup RawLines)
  BY <1>1, MeaningsType
<1> HIDE DEF Resolve
<1> QED BY <1>1, <1>2

\* The human's text has no symbols: copied, it has none and means itself.
LEMMA CopiedText ==
  ASSUME human \in Seq(Own \cup RawLines)
  PROVE  /\ \A i \in 1 .. Len(human) : human[i] \notin Symbols /\ ~IsSymbol(human[i])
         /\ Resolve(human) = human
<1>1. \A i \in 1 .. Len(human) : human[i] \notin Symbols /\ ~IsSymbol(human[i])
  <2> TAKE i \in 1 .. Len(human)
  <2>1. human[i] \in Own \cup RawLines
    OBVIOUS
  <2> QED BY <2>1, KindsOfLines, SymbolIsInSymbols
<1>2. human \in Seq(Line)
  BY SeqMonotonic DEF Line
<1> QED BY <1>1, <1>2, ResolveLiterals

\* A reconciliation keeps the invariant: the parts of a symbol share no line
\* with other symbols, and the merged text means the human's (MergeMeans).
LEMMA InvReconcile == Inv /\ Plain' /\ Reconcile => Inv'
<1> SUFFICES ASSUME Inv, Plain', Reconcile PROVE Inv'
  OBVIOUS
<1> DEFINE text == FlattenSeq(Merged)
           r == Resolve(agent)
<1>1. /\ agent \in Seq(Line) /\ DOMAIN agent = 1 .. Len(agent)
      /\ human \in Seq(Own \cup RawLines) /\ DOMAIN human = 1 .. Len(human) /\ Len(human) \in Nat
      /\ r \in Seq(Own \cup RawLines) /\ DOMAIN r = 1 .. Len(r) /\ Len(r) \in Nat
  BY TextsLengths, Zenon DEF Inv
<1>2. /\ HasSymbols => agent' = text
      /\ ~HasSymbols => agent' = human
      /\ human' = human /\ committed' = human /\ shifted' = shifted
      /\ obsolete' = obsolete \cup {agent[i] : i \in {k \in DOMAIN agent : Promoted(k)}}
  BY ReconcileText, Zenon DEF Inv
<1>3. SymbolsActive
  BY InvActive
<1>4. text \in Seq(Line) /\ DOMAIN text = 1 .. Len(text)
  BY <1>1, MergedType
<1>5. obsolete \subseteq Symbols /\ \A k \in DOMAIN agent : Promoted(k) => agent[k] \in Symbols
  BY <1>1, BareLine DEF Inv, Plain, Promoted
<1>6. SymbolsApart' /\ ObsoleteApart'
  <2>1. CASE HasSymbols
    <3>1. agent' = text
      BY <1>2, <2>1
    <3> HIDE DEF text
    <3>2. ASSUME NEW a \in DOMAIN text
          PROVE  \E i \in 1 .. Len(agent) : \E j \in 1 .. Len(Reconciled(i)) :
                   a = Off(Merged, i - 1) + j /\ text[a] = Reconciled(i)[j]
      BY <1>1, <1>4, MergedLine, Zenon DEF text
    <3>3. ASSUME NEW a \in DOMAIN text, NEW b \in DOMAIN text, a < b,
                 text[a] \in Symbols, text[b] \in Symbols
          PROVE  Disjoint(text[a], text[b])
      <4> DEFINE At(c, i, j) == c = Off(Merged, i - 1) + j /\ text[c] = Reconciled(i)[j]
      <4>a. PICK i \in 1 .. Len(agent) : \E j \in 1 .. Len(Reconciled(i)) : At(a, i, j)
        BY <3>2
      <4>b. PICK h \in 1 .. Len(agent) : \E k \in 1 .. Len(Reconciled(h)) : At(b, h, k)
        BY <3>2
      <4>1. PICK j \in 1 .. Len(Reconciled(i)) : At(a, i, j)
        BY <4>a
      <4>2. PICK k \in 1 .. Len(Reconciled(h)) : At(b, h, k)
        BY <4>b
      <4>3. Off(Merged, i - 1) + j < Off(Merged, h - 1) + k
        BY <3>3, <4>1, <4>2, Zenon
      <4>4. Reconciled(i)[j] \in Symbols /\ Reconciled(h)[k] \in Symbols /\ SymbolsApart
        BY <3>3, <4>1, <4>2, Zenon DEF Inv
      <4>5. Disjoint(Reconciled(i)[j], Reconciled(h)[k])
        BY <1>1, <4>3, <4>4, MergedOrder
      <4> QED BY <4>1, <4>2, <4>5, Zenon
    <3>4. SymbolsApart'
      <4> SUFFICES ASSUME NEW a \in DOMAIN text, NEW b \in DOMAIN text, a # b,
                          IsSymbol(text[a]), IsSymbol(text[b])
                   PROVE  Disjoint(text[a], text[b])
        BY <3>1 DEF SymbolsApart
      <4>1. text[a] \in Symbols /\ text[b] \in Symbols
        BY SymbolIsInSymbols
      <4>2. a < b \/ b < a
        BY <1>4
      <4>3. Disjoint(text[a], text[b]) <=> Disjoint(text[b], text[a])
        BY DEF Disjoint
      <4> QED BY <3>3, <4>1, <4>2, <4>3
    <3>5. ObsoleteApart'
      <4> SUFFICES ASSUME NEW a \in DOMAIN text, NEW o \in obsolete', IsSymbol(text[a])
                   PROVE  Disjoint(text[a], o) \/ StrictlyInside(text[a], o)
        BY <3>1 DEF ObsoleteApart
      <4>1. text[a] \in Symbols
        BY SymbolIsInSymbols
      <4>a. PICK i \in 1 .. Len(agent) : \E j \in 1 .. Len(Reconciled(i)) : text[a] = Reconciled(i)[j]
        BY <3>2
      <4>2. PICK j \in 1 .. Len(Reconciled(i)) : text[a] = Reconciled(i)[j]
        BY <4>a
      <4>3. /\ agent[i] \in Symbols /\ IsSymbol(agent[i]) /\ Within(text[a], agent[i])
            /\ Promoted(i) => StrictlyInside(text[a], agent[i])
        BY <1>1, <4>1, <4>2, MergedSymbol
      <4>4. CASE o \in obsolete
        <5>1. Disjoint(agent[i], o) \/ StrictlyInside(agent[i], o)
          BY <1>1, <4>3, <4>4 DEF Inv, ObsoleteApart
        <5>2. o \in Symbols /\ Within(o, o)
          BY <1>5, <4>4 DEF Within
        <5>3. CASE Disjoint(agent[i], o)
          BY <4>1, <4>3, <5>2, <5>3, DisjointWithin
        <5>4. CASE StrictlyInside(agent[i], o)
          BY <4>1, <4>3, <5>2, <5>4, InsideTransitive
        <5> QED BY <5>1, <5>3, <5>4
      <4>5. CASE \E k \in DOMAIN agent : Promoted(k) /\ o = agent[k]
        <5>1. PICK k \in DOMAIN agent : Promoted(k) /\ o = agent[k]
          BY <4>5
        <5>2. o \in Symbols /\ Within(o, o) /\ IsSymbol(agent[k])
          BY <1>5, <5>1, SymbolIsInSymbols DEF Within
        <5>3. CASE k = i
          BY <4>3, <5>1, <5>3
        <5>4. CASE k # i
          <6>1. Disjoint(agent[i], agent[k])
            BY <1>1, <4>3, <5>2, <5>4 DEF Inv, SymbolsApart
          <6> QED BY <4>1, <4>3, <5>1, <5>2, <6>1, DisjointWithin
        <5> QED BY <5>3, <5>4
      <4> QED BY <1>2, <4>4, <4>5
    <3> QED BY <3>4, <3>5
  <2>2. CASE ~HasSymbols
    <3>1. \A i \in DOMAIN agent' : ~IsSymbol(agent'[i])
      BY <1>1, <1>2, <2>2, CopiedText
    <3> QED BY <3>1 DEF SymbolsApart, ObsoleteApart
  <2> QED BY <2>1, <2>2
<1>7. InPlace'
  <2> SUFFICES ASSUME shifted # "above"
               PROVE  /\ NoRawLines'
                      /\ \A m \in DOMAIN human : human[m] \in RawLines =>
                           m \in DOMAIN Resolve(agent') /\ Resolve(agent')[m] = human[m]
                      /\ \A m \in DOMAIN Resolve(agent') : Resolve(agent')[m] \in RawLines => m \in DOMAIN human
    BY <1>2 DEF InPlace
  <2>1. /\ NoRawLines
        /\ \A m \in DOMAIN human : human[m] \in RawLines => m \in DOMAIN r /\ r[m] = human[m]
        /\ \A m \in DOMAIN r : r[m] \in RawLines => m \in DOMAIN human
    BY DEF Inv, InPlace
  <2>2. CASE HasSymbols
    <3>1. /\ Len(Resolve(text)) = Len(r)
          /\ \A k \in 1 .. Len(r) : Resolve(text)[k] = IF k <= Len(human) THEN human[k] ELSE r[k]
          /\ \A k \in 1 .. Len(text) : text[k] \notin RawLines
      BY <1>1, <1>3, MergeMeans, Zenon DEF Inv
    <3>2. Resolve(text) \in Seq(Own \cup RawLines) /\ DOMAIN Resolve(text) = 1 .. Len(Resolve(text))
      <4>1. Resolve(text) \in Seq(Own \cup RawLines)
        BY <1>4, MeaningsType
      <4> HIDE DEF text
      <4> QED BY <4>1
    <3>3. agent' = text
      BY <1>2, <2>2
    <3>4. NoRawLines'
      BY <1>4, <3>1, <3>3, BareLine DEF NoRawLines
    <3> HIDE DEF r, text
    <3>5. \A m \in DOMAIN human : human[m] \in RawLines =>
             m \in DOMAIN Resolve(text) /\ Resolve(text)[m] = human[m]
      BY <1>1, <2>1, <3>1, <3>2
    <3>6. \A m \in DOMAIN Resolve(text) : Resolve(text)[m] \in RawLines => m \in DOMAIN human
      BY <1>1, <2>1, <3>1, <3>2
    <3> QED BY <3>3, <3>4, <3>5, <3>6, Zenon
  <2>3. CASE ~HasSymbols
    <3>1. \A k \in DOMAIN agent : ~IsSymbol(agent[k]) /\ agent[k] \notin Symbols
      BY <2>3, SymbolIsInSymbols DEF HasSymbols, HasSymbol
    <3>2. r = agent
      BY <1>1, <3>1, ResolveLiterals
    <3>3. Resolve(human) = human /\ agent' = human
      BY <1>1, <1>2, <2>3, CopiedText
    <3>4. \A m \in DOMAIN human : human[m] \notin RawLines
      BY <2>1, <3>2, Zenon DEF NoRawLines
    <3>5. \A m \in DOMAIN human : human[m] \notin Mixed
      <4>1. human \in Seq(Line)
        BY <1>1, SeqMonotonic DEF Line
      <4> QED BY <4>1, BareLine
    <3> QED BY <3>3, <3>4, <3>5 DEF NoRawLines
  <2> QED BY <2>2, <2>3
<1>8. MeansCommitted'
  <2> SUFFICES ASSUME shifted = "no" PROVE Resolve(agent') = human
    BY <1>2 DEF MeansCommitted
  <2>1. CASE HasSymbols
    <3>1. /\ Len(Resolve(text)) = Len(r)
          /\ \A k \in 1 .. Len(r) : Resolve(text)[k] = IF k <= Len(human) THEN human[k] ELSE r[k]
      BY <1>1, <1>3, MergeMeans DEF Inv
    <3>2. r = committed /\ Len(human) = Len(committed)
      BY <2>1 DEF Inv, MeansCommitted
    <3>3. Resolve(text) \in Seq(Own \cup RawLines) /\ agent' = text
      BY <1>2, <1>4, <2>1, MeaningsType
    <3> HIDE DEF r, text
    <3>4. Len(Resolve(text)) = Len(human) /\ \A k \in 1 .. Len(human) : Resolve(text)[k] = human[k]
      BY <1>1, <3>1, <3>2
    <3>5. Resolve(text) = human
      BY <1>1, <3>3, <3>4, SeqEqual
    <3> QED BY <3>3, <3>5, Zenon
  <2>2. CASE ~HasSymbols
    BY <1>1, <1>2, <2>2, CopiedText
  <2> QED BY <2>1, <2>2
<1> QED BY <1>6, <1>7, <1>8 DEF Inv

\* Every step keeps the invariant.
LEMMA InvStep == Inv /\ [Next]_vars => Inv'
<1> SUFFICES ASSUME Inv, [Next]_vars PROVE Inv'
  OBVIOUS
<1>1. Plain'
  BY PlainStep DEF Inv
<1>2. CASE HumanReplaces
  BY <1>1, <1>2, InvReplaces
<1>3. CASE HumanInserts
  BY <1>1, <1>3, InvInserts
<1>4. CASE HumanDeletes
  BY <1>1, <1>4, InvDeletes
<1>5. CASE Reconcile
  BY <1>1, <1>5, InvReconcile
<1>6. CASE UNCHANGED vars
  BY <1>6 DEF vars, Inv, Plain, SymbolsApart, ObsoleteApart, InPlace, MeansCommitted, HasSymbols,
              HasSymbol, NoRawLines
<1> QED BY <1>2, <1>3, <1>4, <1>5, <1>6 DEF Next

---------------------------------------------------------------------------
(*************************************************************************)
(* The theorems.                                                         *)
(*************************************************************************)
\* The invariant holds always, of documents with each symbol on a line of its
\* own and no line of untrusted data twice.
THEOREM InvAlways == ASSUME EachBare, EachUsedOnce PROVE Spec => []Inv
<1>1. Init => Inv
  BY InvInit
<1> QED BY <1>1, InvStep, PTL DEF Spec

\* Untrusted lines never show in the Agent text through reconcileFile, as long
\* as the human edits in place or adds and deletes lines below all symbols, and
\* each symbol of the documents is a line of its own and used once.
THEOREM NoRawLinesInPlaceAlways ==
  ASSUME EachBare, EachUsedOnce
  PROVE  Spec => []NoRawLinesInPlace
<1>1. Inv => NoRawLinesInPlace
  BY DEF Inv, InPlace, NoRawLinesInPlace
<1> QED BY <1>1, InvAlways, PTL

\* No symbol in the Agent text is obsolete: buildLineMap finds every one.  Each
\* symbol of the documents is a line of its own and used once.
THEOREM SymbolsActiveAlways == ASSUME EachBare, EachUsedOnce PROVE Spec => []SymbolsActive
BY InvActive, InvAlways, PTL

\* After a reconciliation the Agent text resolves to the human's text, line by
\* line, over any number of edits in place and any number of splits, if each
\* symbol of the documents is a line of its own and used once.
THEOREM RoundTripAlways == ASSUME EachBare, EachUsedOnce PROVE Spec => []RoundTrip
<1>1. Inv => RoundTrip
  BY DEF Inv, MeansCommitted, RoundTrip, Synced
<1> QED BY <1>1, InvAlways, PTL

\* A part is of the symbol it was cut from, and within its bounds.
LEMMA WithinBounds ==
  ASSUME NEW x \in Symbols, NEW s \in Symbols, Within(x, s)
  PROVE  x.symbol = s.symbol /\ s.from <= x.from /\ x.to <= s.to
<1>1. s.from \in Nat /\ s.to \in Nat
  BY SymbolNumbers
<1>2. CASE x = s
  BY <1>1, <1>2
<1>3. CASE StrictlyInside(x, s)
  BY <1>3 DEF StrictlyInside
<1> QED BY <1>2, <1>3 DEF Within

\* A reconciliation leaves no two neighbouring symbols that continue each
\* other, if there were none.
LEMMA CoarseReconcile ==
  ASSUME Inv, SplitIsCoarsest, Plain', Reconcile
  PROVE  SplitIsCoarsest'
<1> DEFINE text == FlattenSeq(Merged)
<1>1. /\ agent \in Seq(Line) /\ human \in Seq(Own \cup RawLines) /\ SymbolsActive /\ SymbolsApart
  BY TextsLengths, InvActive, Zenon DEF Inv
<1>2. /\ HasSymbols => agent' = text
      /\ ~HasSymbols => agent' = human
  BY ReconcileText, Zenon DEF Inv
<1>3. CASE HasSymbols
  <2>1. text \in Seq(Line)
    BY <1>1, MergedType
  <2> HIDE DEF text
  <2> SUFFICES ASSUME NEW a \in 1 .. Len(text) - 1, IsSymbol(text[a]), IsSymbol(text[a + 1]),
                      text[a].symbol = text[a + 1].symbol, text[a].to + 1 = text[a + 1].from
               PROVE  FALSE
    BY <1>2, <1>3 DEF SplitIsCoarsest
  <2>2. a \in 1 .. Len(text) /\ a + 1 \in 1 .. Len(text) /\ a < a + 1 /\ a \in Nat
    BY <2>1
  <2> DEFINE At(c, i, j) == c = Off(Merged, i - 1) + j /\ text[c] = Reconciled(i)[j]
  <2>a. PICK i \in 1 .. Len(agent) : \E j \in 1 .. Len(Reconciled(i)) : At(a, i, j)
    BY <1>1, <2>2, MergedLine, Zenon DEF text
  <2>b. PICK h \in 1 .. Len(agent) : \E k \in 1 .. Len(Reconciled(h)) : At(a + 1, h, k)
    BY <1>1, <2>2, MergedLine, Zenon DEF text
  <2>3. PICK j \in 1 .. Len(Reconciled(i)) : At(a, i, j)
    BY <2>a
  <2>4. PICK k \in 1 .. Len(Reconciled(h)) : At(a + 1, h, k)
    BY <2>b
  <2> DEFINE x == Reconciled(i)[j]
             y == Reconciled(h)[k]
  <2>5. x \in Symbols /\ y \in Symbols /\ x.symbol = y.symbol /\ x.to + 1 = y.from
    BY <2>3, <2>4, SymbolIsInSymbols
  <2>6. Off(Merged, i - 1) + j < Off(Merged, h - 1) + k /\ (Off(Merged, i - 1) + j) + 1 = Off(Merged, h - 1) + k
    BY <2>2, <2>3, <2>4, Zenon
  <2>7. i < h \/ x.to + 1 < y.from
    BY <1>1, <2>5, <2>6, MergedOrder
  <2>8. x.to \in Nat /\ y.from \in Nat /\ x.from \in Nat /\ y.to \in Nat /\ x.from <= x.to /\ y.from <= y.to
    BY <2>5, SymbolNumbers
  <2>9. i < h
    BY <2>5, <2>7, <2>8
  <2>10. h = i + 1
    BY <1>1, <2>5, <2>6, <2>9, MergedNeighbours
  <2>11. /\ agent[i] \in Symbols /\ IsSymbol(agent[i]) /\ Within(x, agent[i])
         /\ agent[h] \in Symbols /\ IsSymbol(agent[h]) /\ Within(y, agent[h])
    BY <1>1, <2>5, MergedSymbol
  <2> DEFINE s == agent[i]
             t == agent[h]
  <2>12. /\ s.from \in Nat /\ s.to \in Nat /\ t.from \in Nat /\ t.to \in Nat
         /\ s.from <= s.to /\ t.from <= t.to
    BY <2>11, SymbolNumbers
  <2>13. /\ x.symbol = s.symbol /\ s.from <= x.from /\ x.to <= s.to
         /\ y.symbol = t.symbol /\ t.from <= y.from /\ y.to <= t.to
    BY <2>5, <2>11, WithinBounds
  <2>14. s.to < t.from \/ t.to < s.from
    <3>1. Disjoint(s, t)
      <4>1. i # h /\ i \in DOMAIN agent /\ h \in DOMAIN agent
        BY <1>1, <2>9
      <4> QED BY <1>1, <2>11, <4>1, Zenon DEF SymbolsApart
    <3> QED BY <2>5, <2>13, <3>1 DEF Disjoint
  <2>15. s.to + 1 # t.from
    <3>1. i \in 1 .. Len(agent) - 1
      BY <2>10
    <3> QED BY <2>5, <2>10, <2>11, <2>13, <3>1 DEF SplitIsCoarsest
  <2>16. s.to + 1 = t.from
    <3> DEFINE xf == x.from  xt == x.to  yf == y.from  yt == y.to
               sf == s.from  st == s.to  tf == t.from  tt == t.to
    <3>1. /\ xf \in Nat /\ xt \in Nat /\ yf \in Nat /\ yt \in Nat
          /\ sf \in Nat /\ st \in Nat /\ tf \in Nat /\ tt \in Nat
      BY <2>8, <2>12, Zenon
    <3>2. /\ xf <= xt /\ yf <= yt /\ sf <= xf /\ xt <= st /\ tf <= yf /\ yt <= tt
          /\ xt + 1 = yf /\ (st < tf \/ tt < sf)
      BY <2>5, <2>8, <2>13, <2>14, Zenon
    <3> HIDE DEF xf, xt, yf, yt, sf, st, tf, tt
    <3>3. st + 1 = tf
      BY <3>1, <3>2
    <3> QED BY <3>3, Zenon DEF st, tf
  <2> QED BY <2>15, <2>16
<1>4. CASE ~HasSymbols
  <2>1. \A i \in 1 .. Len(human) - 1 : ~IsSymbol(human[i])
    BY <1>1, CopiedText
  <2> QED BY <1>2, <1>4, <2>1 DEF SplitIsCoarsest
<1> QED BY <1>3, <1>4

\* splitSymbol never splits further than the human's lines cut: neighbouring
\* symbols of the Agent text do not continue each other, if those of the
\* documents do not, are lines of their own and used once.
THEOREM SplitIsCoarsestAlways ==
  ASSUME EachBare, EachUsedOnce, EachCoarse
  PROVE  Spec => []SplitIsCoarsest
<1>1. Init => Inv /\ SplitIsCoarsest
  BY InvInit DEF Init, EachCoarse, SplitIsCoarsest
<1>2. Inv /\ SplitIsCoarsest /\ [Next]_vars => (Inv /\ SplitIsCoarsest)'
  <2> SUFFICES ASSUME Inv, SplitIsCoarsest, [Next]_vars PROVE Inv' /\ SplitIsCoarsest'
    OBVIOUS
  <2>1. Inv'
    BY InvStep
  <2>2. CASE Reconcile
    BY <2>1, <2>2, CoarseReconcile DEF Inv
  <2>3. CASE agent' = agent
    BY <2>1, <2>3 DEF SplitIsCoarsest
  <2>4. Reconcile \/ agent' = agent
    BY DEF Next, vars, HumanReplaces, HumanInserts, HumanDeletes
  <2> QED BY <2>1, <2>2, <2>3, <2>4
<1> QED BY <1>1, <1>2, PTL DEF Spec

===========================================================================
