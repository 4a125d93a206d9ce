------------------------------ MODULE Induction ------------------------------
(***************************************************************************)
(* What the other proofs need of induction over the natural numbers and    *)
(* over finite sets, with the operators instantiated: the least number of  *)
(* a set of numbers, a recursive function over the natural numbers,        *)
(* sequences put together, and the sum of a function with a finite domain. *)
(***************************************************************************)
EXTENDS Integers, SequencesExt, FiniteSetTheorems, SequenceTheorems, WellFoundedInduction, TLAPS

----------------------------------------------------------------------------
\* A set of numbers that is not empty has a least one: induction, as a statement
\* about sets

NatLess == {p \in Nat \X Nat : p[1] < p[2]}

LEMMA LeastNumber ==
  ASSUME NEW T \in SUBSET Nat, T # {}
  PROVE  \E n \in T : \A m \in T : n <= m
<1>1. OpToRel(<, Nat) = NatLess
  BY DEF OpToRel, NatLess
<1>2. IsWellFoundedOn(NatLess, Nat)
  BY <1>1, NatLessThanWellFounded
<1>3. PICK n \in T : \A m \in T : <<m, n>> \notin NatLess
  BY <1>2, WFMin
<1>4. ASSUME NEW m \in T PROVE n <= m
  <2>1. m \in Nat /\ n \in Nat
    OBVIOUS
  <2>2. m < n => <<m, n>> \in NatLess
    BY <2>1 DEF NatLess
  <2>3. QED
    BY <1>3, <2>1, <2>2
<1>5. QED
  BY <1>4

\* Induction over the numbers from 0 on, as a statement about a set
LEMMA UpTo ==
  ASSUME NEW last \in Nat, NEW P, 0 \in P, \A n \in 1 .. last : n - 1 \in P => n \in P
  PROVE  \A n \in 0 .. last : n \in P
<1> DEFINE Bad == {n \in 0 .. last : n \notin P}
<1>1. ASSUME NEW n \in Bad, \A m \in Bad : n <= m
      PROVE  FALSE
  <2>1. n \in 1 .. last
    OBVIOUS
  <2>2. n - 1 \notin Bad
    <3> HIDE DEF Bad
    <3>1. ~(n <= n - 1)
      BY <2>1
    <3>2. QED
      BY <1>1, <3>1
  <2>3. QED
    BY <2>1, <2>2
<1>2. Bad = {}
  <2>1. Bad \in SUBSET Nat
    OBVIOUS
  <2> HIDE DEF Bad
  <2>2. QED
    BY <1>1, <2>1, LeastNumber
<1>3. QED
  BY <1>2

\* The greatest and the lesser of numbers
LEMMA GreatestNumber ==
  ASSUME NEW last \in Nat, NEW S \in SUBSET (0 .. last), S # {}
  PROVE  /\ Max(S) \in S /\ \A m \in S : m <= Max(S)
<1> DEFINE Gaps == {k \in Nat : \E m \in S : k = last - m}
<1>1. Gaps \in SUBSET Nat /\ Gaps # {}
  <2>1. PICK m \in S : TRUE
    OBVIOUS
  <2>2. last - m \in Nat
    OBVIOUS
  <2>3. QED
    BY <2>2
<1>2. PICK k \in Gaps : \A l \in Gaps : k <= l
  <2> HIDE DEF Gaps
  <2>1. QED
    BY <1>1, LeastNumber
<1>3. PICK n \in S : k = last - n
  BY <1>2
<1>4. ASSUME NEW m \in S PROVE n >= m
  <2>1. last - m \in Gaps /\ m \in Nat /\ n \in Nat
    OBVIOUS
  <2>2. k <= last - m
    BY <1>2, <2>1
  <2>3. QED
    BY <1>3, <2>1, <2>2
<1>5. Max(S) \in S /\ \A m \in S : Max(S) >= m
  BY <1>4 DEF Max
<1>6. QED
  BY <1>5

LEMMA LesserOfTwo ==
  ASSUME NEW a \in Nat, NEW b \in Nat
  PROVE  Min({a, b}) = IF a <= b THEN a ELSE b
<1>1. \E x \in {a, b} : \A y \in {a, b} : x <= y
  BY DEF Min
<1> DEFINE x == Min({a, b})
<1>2. x \in {a, b} /\ \A y \in {a, b} : x <= y
  BY <1>1 DEF Min
<1>3. QED
  BY <1>2

\* The least and the greatest of the places in a sequence
LEMMA LeastAndGreatest ==
  ASSUME NEW n \in Nat, NEW I \in SUBSET (1 .. n), I # {}
  PROVE  /\ Min(I) \in I /\ \A j \in I : Min(I) <= j
         /\ Max(I) \in I /\ \A j \in I : j <= Max(I)
<1>1. I \subseteq Nat /\ I \subseteq 0 .. n
  OBVIOUS
<1>2. Max(I) \in I /\ \A j \in I : j <= Max(I)
  BY <1>1, GreatestNumber
<1>3. PICK i \in I : \A j \in I : i <= j
  BY <1>1, LeastNumber
<1>4. Min(I) \in I /\ \A j \in I : Min(I) <= j
  BY <1>3 DEF Min
<1>5. QED
  BY <1>2, <1>4

LEMMA MemberOfSeq ==
  ASSUME NEW T, NEW s \in Seq(T), NEW i \in DOMAIN s
  PROVE  s[i] \in T
OBVIOUS

----------------------------------------------------------------------------
\* A function that is given by its value at 0 and by each value's dependence on the
\* one before it exists.

IsTable(f, a, step, last) == f[0] = a /\ \A n \in 1 .. last : f[n] = step[<<n, f[n - 1]>>]

LEMMA TableExists ==
  ASSUME NEW S, NEW a \in S, NEW step \in [Nat \X S -> S], NEW last \in Nat
  PROVE  \E f \in [0 .. last -> S] : IsTable(f, a, step, last)
<1> DEFINE Table(f, k) == f[0] = a /\ \A n \in 1 .. k : f[n] = step[<<n, f[n - 1]>>]
           Bad == {k \in Nat : ~ \E f \in [0 .. k -> S] : Table(f, k)}
<1>1. ASSUME NEW k \in Bad, \A m \in Bad : k <= m
      PROVE  FALSE
  <2>1. CASE k = 0
    <3>1. [n \in 0 .. 0 |-> a] \in [0 .. 0 -> S] /\ Table([n \in 0 .. 0 |-> a], 0)
      OBVIOUS
    <3>2. QED
      BY <2>1, <3>1
  <2>2. CASE k # 0
    <3>1. k \in Nat
      OBVIOUS
    <3>2. k - 1 \in Nat /\ k - 1 \notin Bad
      <4> HIDE DEF Bad
      <4>1. QED
        BY <1>1, <2>2, <3>1
    <3>3. PICK f \in [0 .. k - 1 -> S] : Table(f, k - 1)
      BY <3>2
    <3> DEFINE g == [n \in 0 .. k |-> IF n = k THEN step[<<k, f[k - 1]>>] ELSE f[n]]
    <3>4. \A n \in 0 .. k : n # k => n \in 0 .. k - 1
      BY <3>1
    <3>5. k - 1 \in 0 .. k - 1 /\ step[<<k, f[k - 1]>>] \in S
      BY <3>1, <3>2
    <3>6. g \in [0 .. k -> S]
      BY <3>3, <3>4, <3>5
    <3>7. \A n \in 0 .. k - 1 : n \in 0 .. k /\ g[n] = f[n]
      BY <3>1
    <3>8. g[0] = a /\ 0 \in 0 .. k - 1
      BY <3>2, <3>3, <3>7
    <3>9. ASSUME NEW n \in 1 .. k
          PROVE  g[n] = step[<<n, g[n - 1]>>]
      <4>1. n - 1 \in 0 .. k - 1 /\ g[n - 1] = f[n - 1]
        BY <3>1, <3>7
      <4>2. CASE n = k
        <5>1. g[k] = step[<<k, f[k - 1]>>]
          BY <3>1
        <5> HIDE DEF g
        <5>2. QED
          BY <4>1, <4>2, <5>1
      <4>3. CASE n # k
        <5>1. n \in 1 .. k - 1 /\ n \in 0 .. k - 1
          BY <3>1, <4>3
        <5>2. QED
          BY <3>3, <3>7, <4>1, <5>1
      <4>4. QED
        BY <4>2, <4>3
    <3>10. QED
      BY <3>1, <3>6, <3>8, <3>9
  <2>3. QED
    BY <2>1, <2>2
<1>2. Bad = {}
  <2>1. Bad \in SUBSET Nat
    OBVIOUS
  <2> HIDE DEF Bad
  <2>2. QED
    BY <1>1, <2>1, LeastNumber
<1>3. QED
  BY <1>2 DEF IsTable

\* A function that iterates a step exists.

IteratesTo(f, a, step, k) == f = [n \in 0 .. k |-> IF n = 0 THEN a ELSE step[f[n - 1]]]

LEMMA IterationExists ==
  ASSUME NEW S, NEW a \in S, NEW step \in [S -> S], NEW last \in Nat
  PROVE  \E f \in [0 .. last -> S] : IteratesTo(f, a, step, last)
<1> DEFINE move == [p \in Nat \X S |-> step[p[2]]]
<1>1. move \in [Nat \X S -> S] /\ \A n \in Nat, x \in S : move[<<n, x>>] = step[x]
  OBVIOUS
<1> HIDE DEF move
<1>2. PICK f \in [0 .. last -> S] : IsTable(f, a, move, last)
  BY <1>1, TableExists
<1>3. \A n \in 0 .. last : f[n] = IF n = 0 THEN a ELSE step[f[n - 1]]
  <2>1. SUFFICES ASSUME NEW n \in 0 .. last, n # 0
                 PROVE  f[n] = step[f[n - 1]]
    BY <1>2 DEF IsTable
  <2>2. n \in 1 .. last /\ n - 1 \in 0 .. last /\ n \in Nat
    BY <2>1
  <2>3. f[n - 1] \in S /\ f[n] = move[<<n, f[n - 1]>>]
    BY <1>2, <2>2 DEF IsTable
  <2>4. QED
    BY <1>1, <2>2, <2>3
<1>4. QED
  BY <1>3 DEF IteratesTo

----------------------------------------------------------------------------
\* Sequences put together

IsFlattened(f, seqs) ==
  /\ f[0] = << >> /\ FlattenSeq(seqs) = f[Len(seqs)]
  /\ \A n \in 1 .. Len(seqs) : f[n] = f[n - 1] \o seqs[n]

LEMMA FlattenTable ==
  ASSUME NEW T, NEW seqs \in Seq(Seq(T))
  PROVE  \E f \in [0 .. Len(seqs) -> Seq(T)] : IsFlattened(f, seqs)
<1> DEFINE last == Len(seqs)
<1>1. last \in Nat /\ \A n \in 1 .. last : seqs[n] \in Seq(T)
  OBVIOUS
<1>2. CASE last = 0
  <2>1. seqs = << >> /\ FlattenSeq(seqs) = << >>
    BY <1>2 DEF FlattenSeq
  <2> DEFINE f == [n \in 0 .. 0 |-> << >>]
  <2>2. f \in [0 .. 0 -> Seq(T)] /\ f[0] = << >> /\ \A n \in 1 .. 0 : f[n] = f[n - 1] \o seqs[n]
    OBVIOUS
  <2>3. QED
    <3>1. f \in [0 .. last -> Seq(T)]
      BY <1>2, <2>2
    <3>2. f[0] = << >> /\ FlattenSeq(seqs) = f[Len(seqs)]
      BY <1>2, <2>1, <2>2
    <3>3. \A n \in 1 .. Len(seqs) : FALSE
      BY <1>2
    <3>4. IsFlattened(f, seqs)
      BY <3>2, <3>3 DEF IsFlattened
    <3>5. QED
      BY <3>1, <3>4
<1>3. CASE last # 0
  <2> DEFINE Flat(g) == g = [i \in 1 .. last |-> IF i = 1 THEN seqs[i] ELSE g[i - 1] \o seqs[i]]
             step == [p \in Nat \X Seq(T) |->
                        IF p[1] \in 1 .. last THEN p[2] \o seqs[p[1]] ELSE p[2]]
  <2>1. /\ step \in [Nat \X Seq(T) -> Seq(T)]
        /\ \A n \in 1 .. last, x \in Seq(T) : step[<<n, x>>] = x \o seqs[n]
    <3>1. \A n \in 1 .. last, x \in Seq(T) : x \o seqs[n] \in Seq(T) /\ n \in Nat
      BY <1>1, ConcatProperties
    <3>2. \A p \in Nat \X Seq(T) :
            (IF p[1] \in 1 .. last THEN p[2] \o seqs[p[1]] ELSE p[2]) \in Seq(T)
      <4>1. SUFFICES ASSUME NEW n \in 1 .. last, NEW x \in Seq(T)
                     PROVE  x \o seqs[n] \in Seq(T)
        OBVIOUS
      <4>2. QED
        BY <3>1
    <3>3. \A n \in 1 .. last, x \in Seq(T) : step[<<n, x>>] = x \o seqs[n]
      BY <3>1
    <3>4. QED
      BY <3>2, <3>3
  <2> HIDE DEF step
  <2>2. PICK f \in [0 .. last -> Seq(T)] :
          IsTable(f, << >>, step, last)
    <3>1. << >> \in Seq(T)
      OBVIOUS
    <3> HIDE DEF last
    <3>2. QED
      BY <1>1, <2>1, <3>1, TableExists
  <2>3. ASSUME NEW n \in 1 .. last
        PROVE  n - 1 \in 0 .. last /\ f[n] = f[n - 1] \o seqs[n]
    <3> HIDE DEF last
    <3>1. n - 1 \in 0 .. last
      BY <1>1
    <3>2. f[n - 1] \in Seq(T) /\ f[n] = step[<<n, f[n - 1]>>]
      BY <2>2, <3>1 DEF IsTable
    <3>3. QED
      BY <2>1, <3>1, <3>2
  <2>0. f[0] = << >>
    BY <2>2 DEF IsTable
  <2> DEFINE g == [i \in 1 .. last |-> f[i]]
  <2>4. \A i \in 1 .. last : g[i] = IF i = 1 THEN seqs[i] ELSE g[i - 1] \o seqs[i]
    <3>1. SUFFICES ASSUME NEW i \in 1 .. last
                   PROVE  f[i] = IF i = 1 THEN seqs[i] ELSE g[i - 1] \o seqs[i]
      OBVIOUS
    <3>2. CASE i = 1
      <4>1. seqs[i] \in Seq(T) /\ f[i] = f[i - 1] \o seqs[i]
        BY <1>1, <2>3
      <4>2. << >> \o seqs[i] = seqs[i]
        BY <4>1, ConcatEmptySeq
      <4>3. i - 1 = 0
        BY <3>2
      <4>4. QED
        BY <2>0, <3>2, <4>1, <4>2, <4>3
    <3>3. CASE i # 1
      <4>1. i - 1 \in 1 .. last /\ g[i - 1] = f[i - 1]
        BY <1>1, <3>3
      <4>2. QED
        BY <2>3, <3>3, <4>1
    <3>4. QED
      BY <3>2, <3>3
  <2>5. Flat(g)
    BY <2>4
  <2> DEFINE h == CHOOSE h : Flat(h)
  <2>6. Flat(h) /\ FlattenSeq(seqs) = h[last]
    <3>1. FlattenSeq(seqs) = h[last]
      BY <1>3 DEF FlattenSeq
    <3>2. QED
      BY <2>5, <3>1
  <2> HIDE DEF h
  <2> DEFINE Differ == {i \in 1 .. last : h[i] # f[i]}
  <2>7. ASSUME NEW i \in Differ, \A j \in Differ : i <= j
        PROVE  FALSE
    <3>1. i \in 1 .. last /\ h[i] # f[i] /\ h[i] = IF i = 1 THEN seqs[i] ELSE h[i - 1] \o seqs[i]
      BY <2>6
    <3>2. i # 1
      BY <2>4, <3>1
    <3>3. i - 1 \in 1 .. last /\ i - 1 \notin Differ
      <4>1. i - 1 \in 1 .. last /\ ~(i <= i - 1)
        BY <3>1, <3>2
      <4> HIDE DEF Differ
      <4>2. QED
        BY <2>7, <4>1
    <3>4. h[i - 1] = f[i - 1]
      BY <3>3
    <3>5. QED
      BY <2>3, <3>1, <3>2, <3>4
  <2>8. Differ = {}
    <3>1. Differ \in SUBSET Nat
      OBVIOUS
    <3> HIDE DEF Differ
    <3>2. QED
      BY <2>7, <3>1, LeastNumber
  <2>9. h[last] = f[last]
    BY <1>1, <1>3, <2>8
  <2>10. QED
    BY <2>0, <2>3, <2>6, <2>9 DEF IsFlattened
<1>4. QED
  BY <1>2, <1>3

\* What is in them
LEMMA MembersOfConcat ==
  ASSUME NEW T, NEW s \in Seq(T), NEW t \in Seq(T), NEW x
  PROVE  x \in ToSet(s \o t) <=> x \in ToSet(s) \/ x \in ToSet(t)
<1> DEFINE m == Len(s)
           n == Len(t)
<1>1. /\ m \in Nat /\ n \in Nat /\ DOMAIN s = 1 .. m /\ DOMAIN t = 1 .. n
      /\ DOMAIN (s \o t) = 1 .. m + n
      /\ \A i \in 1 .. m : (s \o t)[i] = s[i]
      /\ \A i \in 1 .. n : (s \o t)[m + i] = t[i]
  <2>1. \A i \in 1 .. n : m + i \in 1 .. m + n /\ ~(m + i <= m) /\ (m + i) - m = i
    OBVIOUS
  <2>2. QED
    BY <2>1
<1> DEFINE u == s \o t
<1> HIDE DEF m, n, u
<1>2. ASSUME x \in ToSet(u)
      PROVE  x \in ToSet(s) \/ x \in ToSet(t)
  <2>1. PICK i \in 1 .. m + n : x = u[i]
    BY <1>1, <1>2 DEF ToSet, u
  <2>2. CASE i <= m
    BY <1>1, <2>1, <2>2 DEF ToSet, u
  <2>3. CASE ~(i <= m)
    <3>1. i - m \in 1 .. n /\ m + (i - m) = i
      BY <1>1, <2>1, <2>3
    <3>2. x = t[i - m]
      BY <1>1, <2>1, <3>1 DEF u
    <3>3. QED
      BY <1>1, <3>1, <3>2 DEF ToSet
  <2>4. QED
    BY <2>2, <2>3
<1>3. ASSUME x \in ToSet(s)
      PROVE  x \in ToSet(u)
  <2>1. PICK i \in 1 .. m : x = s[i]
    BY <1>1, <1>3 DEF ToSet
  <2>2. i \in 1 .. m + n
    BY <1>1
  <2>3. QED
    BY <1>1, <2>1, <2>2 DEF ToSet, u
<1>4. ASSUME x \in ToSet(t)
      PROVE  x \in ToSet(u)
  <2>1. PICK i \in 1 .. n : x = t[i]
    BY <1>1, <1>4 DEF ToSet
  <2>2. m + i \in 1 .. m + n
    BY <1>1
  <2>3. QED
    BY <1>1, <2>1, <2>2 DEF ToSet, u
<1>5. QED
  BY <1>2, <1>3, <1>4 DEF u

LEMMA MembersOfFlattened ==
  ASSUME NEW T, NEW seqs \in Seq(Seq(T))
  PROVE  /\ FlattenSeq(seqs) \in Seq(T)
         /\ \A x : x \in ToSet(FlattenSeq(seqs)) <=> \E i \in DOMAIN seqs : x \in ToSet(seqs[i])
<1>1. PICK f \in [0 .. Len(seqs) -> Seq(T)] : IsFlattened(f, seqs)
  BY FlattenTable
<1> DEFINE last == Len(seqs)
           Told(n) == \A x : x \in ToSet(f[n]) <=> \E i \in 1 .. n : x \in ToSet(seqs[i])
           P == {n \in 0 .. last : Told(n)}
<1>2. last \in Nat /\ DOMAIN seqs = 1 .. last /\ \A i \in 1 .. last : seqs[i] \in Seq(T)
  OBVIOUS
<1>3. 0 \in P
  <2>1. f[0] = << >>
    BY <1>1 DEF IsFlattened
  <2>2. Told(0)
    BY <2>1 DEF ToSet
  <2>3. QED
    BY <1>2, <2>2
<1>4. ASSUME NEW n \in 1 .. last, n - 1 \in P
      PROVE  n \in P
  <2>1. /\ n \in 0 .. last /\ n - 1 \in 0 .. last /\ n \in Nat
        /\ \A i \in 1 .. n : i = n \/ i \in 1 .. n - 1
        /\ \A i \in 1 .. n - 1 : i \in 1 .. n
        /\ n \in 1 .. n
    BY <1>2
  <2>2. f[n] = f[n - 1] \o seqs[n] /\ f[n - 1] \in Seq(T) /\ seqs[n] \in Seq(T)
    BY <1>1, <1>2, <2>1 DEF IsFlattened
  <2>3. \A x : x \in ToSet(f[n]) <=> x \in ToSet(f[n - 1]) \/ x \in ToSet(seqs[n])
    BY <2>2, MembersOfConcat
  <2>4. \A x : x \in ToSet(f[n - 1]) <=> \E i \in 1 .. n - 1 : x \in ToSet(seqs[i])
    BY <1>4
  <2>5. ASSUME NEW x
        PROVE  x \in ToSet(f[n]) <=> \E i \in 1 .. n : x \in ToSet(seqs[i])
    BY <2>1, <2>3, <2>4
  <2>6. QED
    BY <2>1, <2>5
<1>5. last \in P
  <2>1. last \in 0 .. last
    BY <1>2
  <2> HIDE DEF P, last
  <2>2. QED
    BY <1>2, <1>3, <1>4, <2>1, UpTo
<1>6. FlattenSeq(seqs) = f[last] /\ f[last] \in Seq(T)
  BY <1>1, <1>2 DEF IsFlattened
<1>7. QED
  BY <1>2, <1>5, <1>6

----------------------------------------------------------------------------
\* A function of the subsets of a finite set that takes away one member after another

AreFolds(v, R, base, step, pick) ==
  v = [S \in SUBSET R |-> IF S = {} THEN base ELSE step[<<pick[S], v[S \ {pick[S]}]>>]]

LEMMA TakenAway ==
  ASSUME NEW R, IsFiniteSet(R), NEW S \in SUBSET R, NEW x \in S
  PROVE  /\ S \ {x} \in SUBSET R
         /\ Cardinality(S) \in Nat \ {0} /\ Cardinality(S \ {x}) = Cardinality(S) - 1
<1>1. IsFiniteSet(S)
  BY FS_Subset
<1>2. /\ IsFiniteSet(S \ {x}) /\ Cardinality(S \ {x}) = Cardinality(S) - 1
  BY <1>1, FS_RemoveElement
<1>3. Cardinality(S) \in Nat /\ Cardinality(S \ {x}) \in Nat
  BY <1>1, <1>2, FS_CardinalityType
<1>4. QED
  BY <1>2, <1>3

LEMMA FoldsExist ==
  ASSUME NEW R, IsFiniteSet(R), NEW T, NEW base \in T, NEW step \in [R \X T -> T],
         NEW pick, \A S \in SUBSET R : S # {} => pick[S] \in S
  PROVE  \E v \in [SUBSET R -> T] : AreFolds(v, R, base, step, pick)
<1> DEFINE Upto(n) == {S \in SUBSET R : Cardinality(S) <= n}
           Good(v, n) == \A S \in Upto(n) :
                           v[S] = IF S = {} THEN base ELSE step[<<pick[S], v[S \ {pick[S]}]>>]
           Bad == {n \in Nat : ~ \E v \in [Upto(n) -> T] : Good(v, n)}
<1>1. \A S \in SUBSET R : IsFiniteSet(S) /\ Cardinality(S) \in Nat
  BY FS_Subset, FS_CardinalityType
<1>2. ASSUME NEW n \in Bad, \A m \in Bad : n <= m
      PROVE  FALSE
  <2>1. CASE n = 0
    <3> DEFINE v == [S \in Upto(0) |-> base]
    <3>1. \A S \in Upto(0) : S = {}
      <4>1. SUFFICES ASSUME NEW S \in SUBSET R, Cardinality(S) <= 0
                     PROVE  S = {}
        OBVIOUS
      <4>2. IsFiniteSet(S) /\ Cardinality(S) = 0
        BY <1>1, <4>1
      <4>3. QED
        BY <4>2, FS_EmptySet
    <3>2. v \in [Upto(0) -> T] /\ Good(v, 0)
      BY <3>1
    <3>3. QED
      BY <2>1, <3>2
  <2>2. CASE n # 0
    <3>1. n - 1 \in Nat /\ n - 1 \notin Bad
      <4>1. n \in Nat
        OBVIOUS
      <4> HIDE DEF Bad
      <4>2. QED
        BY <1>2, <2>2, <4>1
    <3>2. PICK u \in [Upto(n - 1) -> T] : Good(u, n - 1)
      BY <3>1
    <3> DEFINE v == [S \in Upto(n) |-> IF S = {} THEN base ELSE step[<<pick[S], u[S \ {pick[S]}]>>]]
    <3>3. ASSUME NEW S \in Upto(n), S # {}
          PROVE  /\ pick[S] \in R /\ S \ {pick[S]} \in Upto(n - 1) /\ S \ {pick[S]} \in Upto(n)
      <4>1. /\ pick[S] \in S /\ S \ {pick[S]} \in SUBSET R
            /\ Cardinality(S) \in Nat \ {0} /\ Cardinality(S \ {pick[S]}) = Cardinality(S) - 1
        BY <3>3, TakenAway
      <4>2. n \in Nat /\ Cardinality(S) <= n
        BY <3>3
      <4>3. Cardinality(S \ {pick[S]}) <= n - 1 /\ Cardinality(S \ {pick[S]}) <= n
        BY <4>1, <4>2
      <4>4. QED
        BY <4>1, <4>3
    <3>4. v \in [Upto(n) -> T]
      <4>1. SUFFICES ASSUME NEW S \in Upto(n), S # {}
                     PROVE  step[<<pick[S], u[S \ {pick[S]}]>>] \in T
        OBVIOUS
      <4>2. pick[S] \in R /\ u[S \ {pick[S]}] \in T
        BY <3>2, <3>3, <4>1
      <4>3. QED
        BY <4>2
    <3>5. ASSUME NEW S \in Upto(n - 1)
          PROVE  S \in Upto(n) /\ v[S] = u[S]
      <4>1. S \in Upto(n)
        <5>1. Cardinality(S) \in Nat /\ Cardinality(S) <= n - 1 /\ n \in Nat
          BY <1>1, <3>5
        <5>2. Cardinality(S) <= n
          BY <5>1
        <5>3. QED
          BY <5>2
      <4>2. QED
        BY <3>2, <4>1
    <3>6. Good(v, n)
      BY <3>3, <3>5
    <3>7. QED
      BY <3>4, <3>6
  <2>3. QED
    BY <2>1, <2>2
<1>3. Bad = {}
  <2>1. Bad \in SUBSET Nat
    OBVIOUS
  <2> HIDE DEF Bad
  <2>2. QED
    BY <1>2, <2>1, LeastNumber
<1>4. Cardinality(R) \in Nat /\ Upto(Cardinality(R)) = SUBSET R
  BY <1>1, FS_Subset
<1>5. PICK v \in [SUBSET R -> T] : Good(v, Cardinality(R))
  <2>1. \E v \in [Upto(Cardinality(R)) -> T] : Good(v, Cardinality(R))
    BY <1>3, <1>4
  <2> HIDE DEF Good, Upto
  <2>2. QED
    BY <1>4, <2>1
<1>6. v = [S \in SUBSET R |-> IF S = {} THEN base ELSE step[<<pick[S], v[S \ {pick[S]}]>>]]
  <2>1. ASSUME NEW S \in SUBSET R
        PROVE  v[S] = IF S = {} THEN base ELSE step[<<pick[S], v[S \ {pick[S]}]>>]
    BY <1>4, <1>5
  <2>2. v = [S \in SUBSET R |-> v[S]]
    BY <1>5
  <2>3. QED
    BY <2>1, <2>2
<1>7. QED
  BY <1>5, <1>6 DEF AreFolds

----------------------------------------------------------------------------
\* The sum of a function whose domain is finite

Picked(S) == CHOOSE x \in S : TRUE

\* v[S] is the sum of g over S, as SumFunction computes it.
AreSums(v, g) ==
  v = [S \in SUBSET DOMAIN g |->
         IF S = {} THEN 0 ELSE LET x == CHOOSE x \in S : TRUE IN g[x] + v[S \ {x}]]

SumsOf(g) == CHOOSE v : AreSums(v, g)

LEMMA SumIsOfDomain ==
  ASSUME NEW g
  PROVE  SumFunction(g) = SumsOf(g)[DOMAIN g]
BY DEF SumFunction, SumFunctionOnSet, FoldFunctionOnSet, MapThenFoldSet, SumsOf, AreSums

\* A member fewer
LEMMA PickedTaken ==
  ASSUME NEW R, IsFiniteSet(R), NEW S \in SUBSET R, S # {}
  PROVE  /\ Picked(S) \in S /\ S \ {Picked(S)} \in SUBSET R
         /\ Cardinality(S) \in Nat \ {0} /\ Cardinality(S \ {Picked(S)}) = Cardinality(S) - 1
<1>1. Picked(S) \in S
  BY DEF Picked
<1>2. IsFiniteSet(S)
  BY FS_Subset
<1>3. /\ IsFiniteSet(S \ {Picked(S)}) /\ Cardinality(S \ {Picked(S)}) = Cardinality(S) - 1
  BY <1>1, <1>2, FS_RemoveElement
<1>4. Cardinality(S) \in Nat /\ Cardinality(S \ {Picked(S)}) \in Nat
  BY <1>2, <1>3, FS_CardinalityType
<1>5. QED
  BY <1>1, <1>3, <1>4

LEMMA SumsUnfold ==
  ASSUME NEW v, NEW g
  PROVE  AreSums(v, g) <=>
           v = [S \in SUBSET DOMAIN g |-> IF S = {} THEN 0 ELSE g[Picked(S)] + v[S \ {Picked(S)}]]
BY DEF AreSums, Picked

LEMMA SumsAreUnique ==
  ASSUME NEW g, IsFiniteSet(DOMAIN g), NEW v, AreSums(v, g), NEW w, AreSums(w, g)
  PROVE  v = w
<1>1. /\ v = [S \in SUBSET DOMAIN g |-> IF S = {} THEN 0 ELSE g[Picked(S)] + v[S \ {Picked(S)}]]
      /\ w = [S \in SUBSET DOMAIN g |-> IF S = {} THEN 0 ELSE g[Picked(S)] + w[S \ {Picked(S)}]]
  BY SumsUnfold
<1> DEFINE Differ == {n \in Nat : \E S \in SUBSET DOMAIN g : Cardinality(S) = n /\ v[S] # w[S]}
<1>2. ASSUME Differ # {}
      PROVE  FALSE
  <2>1. PICK n \in Differ : \A m \in Differ : n <= m
    <3>1. Differ \in SUBSET Nat
      OBVIOUS
    <3> HIDE DEF Differ
    <3>2. QED
      BY <1>2, <3>1, LeastNumber
  <2>2. PICK S \in SUBSET DOMAIN g : Cardinality(S) = n /\ v[S] # w[S]
    BY <2>1
  <2>3. S # {}
    BY <1>1, <2>2
  <2>4. /\ S \ {Picked(S)} \in SUBSET DOMAIN g
        /\ n \in Nat \ {0} /\ Cardinality(S \ {Picked(S)}) = n - 1
    BY <2>2, <2>3, PickedTaken
  <2>5. n - 1 \notin Differ /\ n - 1 \in Nat
    BY <2>1, <2>4
  <2>6. v[S \ {Picked(S)}] = w[S \ {Picked(S)}]
    BY <2>4, <2>5
  <2>7. QED
    BY <1>1, <2>2, <2>3, <2>6
<1>3. ASSUME NEW S \in SUBSET DOMAIN g
      PROVE  v[S] = w[S]
  <2>1. Cardinality(S) \in Nat
    BY FS_Subset, FS_CardinalityType
  <2>2. QED
    BY <1>2, <2>1
<1>4. QED
  BY <1>1, <1>3

LEMMA SumsExist ==
  ASSUME NEW R, IsFiniteSet(R), NEW g \in [R -> Int]
  PROVE  \E v \in [SUBSET R -> Int] : AreSums(v, g)
<1> DEFINE pick == [S \in SUBSET R |-> Picked(S)]
           step == [p \in R \X Int |-> g[p[1]] + p[2]]
<1>1. \A S \in SUBSET R : S # {} => pick[S] \in S
  BY DEF Picked
<1>2. /\ step \in [R \X Int -> Int]
      /\ \A r \in R, n \in Int : step[<<r, n>>] = g[r] + n
  OBVIOUS
<1>3. PICK v \in [SUBSET R -> Int] : AreFolds(v, R, 0, step, pick)
  <2> HIDE DEF pick, step
  <2>1. 0 \in Int
    OBVIOUS
  <2>2. QED
    BY <1>1, <1>2, <2>1, FoldsExist
<1>4. ASSUME NEW S \in SUBSET R
      PROVE  v[S] = IF S = {} THEN 0 ELSE g[Picked(S)] + v[S \ {Picked(S)}]
  <2>1. CASE S = {}
    BY <1>3, <2>1 DEF AreFolds
  <2>2. CASE S # {}
    <3>1. pick[S] = Picked(S) /\ Picked(S) \in R /\ S \ {Picked(S)} \in SUBSET R
      BY <1>1, <2>2
    <3>2. v[S \ {Picked(S)}] \in Int
      BY <1>3, <3>1
    <3>3. v[S] = step[<<Picked(S), v[S \ {Picked(S)}]>>]
      <4> HIDE DEF step, pick
      <4>1. QED
        BY <1>3, <2>2, <3>1 DEF AreFolds
    <3>4. QED
      BY <1>2, <2>2, <3>1, <3>2, <3>3
  <2>3. QED
    BY <2>1, <2>2
<1>5. v = [S \in SUBSET R |-> IF S = {} THEN 0 ELSE g[Picked(S)] + v[S \ {Picked(S)}]]
  BY <1>3, <1>4
<1>6. DOMAIN g = R
  OBVIOUS
<1>7. QED
  BY <1>3, <1>5, <1>6, SumsUnfold

\* What witnesses the sums is the sums.
LEMMA SumsAre ==
  ASSUME NEW g, IsFiniteSet(DOMAIN g), NEW v, AreSums(v, g)
  PROVE  SumFunction(g) = v[DOMAIN g]
<1>1. AreSums(SumsOf(g), g)
  BY DEF SumsOf
<1>2. SumsOf(g) = v
  BY <1>1, SumsAreUnique
<1>3. QED
  BY <1>2, SumIsOfDomain

LEMMA SumOfZeros ==
  ASSUME NEW R, IsFiniteSet(R), NEW g, g = [r \in R |-> 0]
  PROVE  SumFunction(g) = 0
<1> DEFINE v == [S \in SUBSET R |-> 0]
<1>1. AreSums(v, g)
  <2>1. \A S \in SUBSET R : S # {} => Picked(S) \in R /\ S \ {Picked(S)} \in SUBSET R
    BY DEF Picked
  <2>2. QED
    BY <2>1, SumsUnfold
<1>2. QED
  BY <1>1, SumsAre

\* One value of a function replaced changes the sum by the difference.
LEMMA SumOfExcept ==
  ASSUME NEW R, IsFiniteSet(R), NEW g \in [R -> Int], NEW r \in R, NEW n \in Int
  PROVE  /\ SumFunction(g) \in Int
         /\ SumFunction([g EXCEPT ![r] = n]) = SumFunction(g) + n - g[r]
<1>1. PICK v \in [SUBSET R -> Int] : AreSums(v, g)
  BY SumsExist
<1> DEFINE h == [g EXCEPT ![r] = n]
           w == [S \in SUBSET R |-> IF r \in S THEN v[S] + n - g[r] ELSE v[S]]
<1>2. \A S \in SUBSET R : S # {} => Picked(S) \in S /\ Picked(S) \in R /\ S \ {Picked(S)} \in SUBSET R
  BY DEF Picked
<1>3. \A S \in SUBSET R : v[S] = IF S = {} THEN 0 ELSE g[Picked(S)] + v[S \ {Picked(S)}]
  BY <1>1, SumsUnfold
<1>4. ASSUME NEW S \in SUBSET R
      PROVE  w[S] = IF S = {} THEN 0 ELSE h[Picked(S)] + w[S \ {Picked(S)}]
  <2>1. CASE S = {}
    BY <1>3, <2>1
  <2>2. CASE S # {} /\ Picked(S) = r
    <3>1. /\ h[r] = n /\ r \in S /\ r \notin S \ {Picked(S)} /\ S \ {Picked(S)} \in SUBSET R
          /\ v[S] = g[r] + v[S \ {Picked(S)}]
      BY <1>2, <1>3, <2>2
    <3>2. w[S] = v[S] + n - g[r] /\ w[S \ {Picked(S)}] = v[S \ {Picked(S)}]
      BY <3>1
    <3>3. v[S \ {Picked(S)}] \in Int /\ g[r] \in Int
      BY <1>1, <3>1
    <3>4. QED
      BY <2>2, <3>1, <3>2, <3>3
  <2>3. CASE S # {} /\ Picked(S) # r
    <3> DEFINE x == Picked(S)
    <3>1. /\ h[x] = g[x] /\ x \in R /\ S \ {x} \in SUBSET R /\ (r \in S <=> r \in S \ {x})
          /\ v[S] = g[x] + v[S \ {x}]
      BY <1>2, <1>3, <2>3
    <3>2. v[S \ {x}] \in Int /\ g[x] \in Int /\ g[r] \in Int
      BY <1>1, <3>1
    <3> HIDE DEF x
    <3>3. CASE r \in S
      <4>1. w[S] = v[S] + n - g[r] /\ w[S \ {x}] = v[S \ {x}] + n - g[r]
        BY <3>1, <3>3
      <4>2. QED
        BY <2>3, <3>1, <3>2, <4>1 DEF x
    <3>4. CASE r \notin S
      <4>1. w[S] = v[S] /\ w[S \ {x}] = v[S \ {x}]
        BY <3>1, <3>4
      <4>2. QED
        BY <2>3, <3>1, <4>1 DEF x
    <3>5. QED
      BY <3>3, <3>4
  <2>4. QED
    BY <2>1, <2>2, <2>3
<1>5. AreSums(w, h)
  <2>1. DOMAIN h = R /\ w = [S \in SUBSET R |-> w[S]]
    OBVIOUS
  <2> HIDE DEF h, w
  <2>2. w = [S \in SUBSET R |-> IF S = {} THEN 0 ELSE h[Picked(S)] + w[S \ {Picked(S)}]]
    BY <1>4, <2>1
  <2>3. QED
    BY <2>1, <2>2, SumsUnfold
<1>6. SumFunction(g) = v[R] /\ SumFunction(h) = w[R]
  <2>1. DOMAIN g = R /\ DOMAIN h = R
    OBVIOUS
  <2> HIDE DEF h, w
  <2>2. QED
    BY <1>1, <1>5, <2>1, SumsAre
<1>7. w[R] = v[R] + n - g[r] /\ v[R] \in Int
  BY <1>1
<1>8. QED
  BY <1>6, <1>7
=============================================================================
