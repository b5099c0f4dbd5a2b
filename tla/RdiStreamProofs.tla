-------------------------- MODULE RdiStreamProofs --------------------------
(***************************************************************************)
(* Proofs about TpReassembler and RdiStream.  The reassembler's list of    *)
(* ranges stays normal whatever segments arrive, and it implements         *)
(* Reassembly.  The stream delivers no mixture of messages, and every      *)
(* message whose segments come in a row, and counts exactly what is lost.  *)
(***************************************************************************)
EXTENDS RdiStream, FiniteSetTheorems, TLAPS

-----------------------------------------------------------------------------
(* Induction and folds *)

(* A set of natural numbers has a smallest, as the intervals up to them do. *)
LEMMA Smallest ==
  ASSUME NEW S \in SUBSET Nat, S # {}
  PROVE  \E m \in S : \A n \in S : m <= n
<1> DEFINE Upto == {1..n : n \in S}
<1>1. IsWellFoundedOn(StrictSubsetOrdering(Nat), FiniteSubsetsOf(Nat))
  BY FS_StrictSubsetOrderingWellFounded
<1>2. Upto \subseteq FiniteSubsetsOf(Nat) /\ Upto # {}
  <2>1. ASSUME NEW n \in Nat
        PROVE  1..n \in FiniteSubsetsOf(Nat)
    <3>1. IsFiniteSet(1..n)
      BY FS_Interval
    <3>2. 1..n \subseteq Nat
      OBVIOUS
    <3>3. QED
      BY <3>1, <3>2, Zenon DEF FiniteSubsetsOf
  <2>2. QED
    BY <2>1
<1> HIDE DEF Upto
<1>3. PICK T \in Upto : \A U \in Upto : <<U, T>> \notin StrictSubsetOrdering(Nat)
  BY <1>1, <1>2, WFMin
<1>4. PICK m \in S : T = 1..m
  BY DEF Upto
<1>5. ASSUME NEW n \in S, n < m
      PROVE  FALSE
  <2>1. /\ 1..n \subseteq 1..m /\ m \in 1..m /\ m \notin 1..n
        /\ 1..n \subseteq Nat /\ 1..m \subseteq Nat
    BY <1>5
  <2>2. <<1..n, 1..m>> \in StrictSubsetOrdering(Nat)
    BY <2>1, Zenon DEF StrictSubsetOrdering
  <2>3. 1..n \in Upto
    BY DEF Upto
  <2>4. QED
    BY <1>3, <1>4, <2>2, <2>3
<1>6. \A n \in S : m <= n
  BY <1>5
<1>7. QED
  BY <1>6

(* A set of natural numbers that holds 0 and every successor holds all.    *)
LEMMA AllNaturals ==
  ASSUME NEW S \in SUBSET Nat, 0 \in S, \A n \in S : n + 1 \in S
  PROVE  \A n \in Nat : n \in S
<1> SUFFICES ASSUME Nat \ S # {}
             PROVE  FALSE
  OBVIOUS
<1>1. PICK m \in Nat \ S : \A n \in Nat \ S : m <= n
  BY Smallest
<1>2. m # 0 /\ m - 1 \in Nat /\ m - 1 \notin S
  BY m \in Nat
<1>3. QED
  BY <1>1, <1>2

(* What FoldLeft computes on the way: the merged list of each set of the   *)
(* first ranges of s.                                                      *)
MergeFn(iter, s, n) ==
  [S \in SUBSET (1..n) |->
     IF S = {} THEN <<>>
     ELSE LET x == Max(S) IN Merge(iter[S \ {x}], s[x])]

MergeIter(s) == CHOOSE iter : iter = MergeFn(iter, s, Len(s))

(* The largest element of a set that has one. *)
LEMMA MaxIs ==
  ASSUME NEW S \in SUBSET Int, NEW m \in S, \A y \in S : m >= y
  PROVE  Max(S) = m
<1>1. \A x \in S : (\A y \in S : x >= y) => x = m
  OBVIOUS
<1>2. QED
  BY <1>1 DEF Max

(* That function exists: it is built up one range at a time. *)
LEMMA MergeIterExists ==
  ASSUME NEW s, NEW m \in Nat
  PROVE  \E iter : iter = MergeFn(iter, s, m)
<1> DEFINE S == {n \in Nat : \E iter : iter = MergeFn(iter, s, n)}
<1>1. 0 \in S
  <2> DEFINE f == [T \in SUBSET (1..0) |-> <<>>]
  <2>1. \A T \in SUBSET (1..0) : T = {}
    OBVIOUS
  <2>2. f = MergeFn(f, s, 0)
    BY <2>1 DEF MergeFn
  <2>3. QED
    BY <2>2
<1>2. ASSUME NEW n \in S
      PROVE  n + 1 \in S
  <2>1. PICK f : f = MergeFn(f, s, n)
    OBVIOUS
  <2> DEFINE g == [T \in SUBSET (1..n + 1) |->
                     IF n + 1 \in T THEN Merge(f[T \ {n + 1}], s[n + 1])
                                    ELSE f[T]]
  <2>2. ASSUME NEW T \in SUBSET (1..n + 1)
        PROVE  g[T] = IF T = {} THEN <<>>
                      ELSE LET x == Max(T) IN Merge(g[T \ {x}], s[x])
    <3>1. CASE n + 1 \in T
      <4>1. Max(T) = n + 1
        BY <3>1, MaxIs
      <4>2. T \ {n + 1} \in SUBSET (1..n) /\ T \ {n + 1} \in SUBSET (1..n + 1)
        BY <2>2
      <4>3. g[T \ {n + 1}] = f[T \ {n + 1}]
        BY <4>2
      <4>4. QED
        BY <3>1, <4>1, <4>3
    <3>2. CASE n + 1 \notin T
      <4>1. T \in SUBSET (1..n)
        BY <2>2, <3>2
      <4>2. CASE T = {}
        BY <2>1, <3>2, <4>1, <4>2 DEF MergeFn
      <4>3. CASE T # {}
        <5>1. f[T] = LET x == Max(T) IN Merge(f[T \ {x}], s[x])
          BY <2>1, <4>1, <4>3 DEF MergeFn
        <5>2. T \ {Max(T)} \in SUBSET (1..n + 1) /\ n + 1 \notin T \ {Max(T)}
          BY <3>2
        <5>3. g[T] = f[T] /\ g[T \ {Max(T)}] = f[T \ {Max(T)}]
          BY <3>2, <5>2
        <5>4. QED
          BY <4>3, <5>1, <5>3
      <4>4. QED
        BY <4>2, <4>3
    <3>3. QED
      BY <3>1, <3>2
  <2>3. g = MergeFn(g, s, n + 1)
    BY <2>2 DEF MergeFn
  <2>4. QED
    BY <2>3
<1> HIDE DEF S
<1>3. m \in S
  BY <1>1, <1>2, AllNaturals DEF S
<1>4. QED
  BY <1>3 DEF S

(* FoldLeft merges one range after the other, as the loop of               *)
(* AddCoveredRange does (someip_tp.cpp:92).                                *)
LEMMA MergeLoop ==
  ASSUME NEW R, NEW s \in Seq(R)
  PROVE  \E m : /\ DOMAIN m = 0..Len(s) /\ m[0] = <<>>
                /\ \A k \in 1..Len(s) : m[k] = Merge(m[k - 1], s[k])
                /\ FoldLeft(Merge, <<>>, s) = m[Len(s)]
<1>1. DOMAIN s = 1..Len(s) /\ Len(s) \in Nat
  OBVIOUS
<1>2. FoldLeft(Merge, <<>>, s) = MergeIter(s)[1..Len(s)]
  BY <1>1 DEF FoldLeft, MapThenFoldSet, MergeIter, MergeFn
<1>3. MergeIter(s) = MergeFn(MergeIter(s), s, Len(s))
  BY <1>1, MergeIterExists DEF MergeIter
<1> DEFINE m == [k \in 0..Len(s) |-> MergeIter(s)[1..k]]
<1>4. m[0] = <<>>
  <2>1. 1..0 = {} /\ 1..0 \in SUBSET (1..Len(s)) /\ 0 \in 0..Len(s)
    BY <1>1
  <2>2. QED
    BY <1>3, <2>1 DEF MergeFn
<1>5. ASSUME NEW k \in 1..Len(s)
      PROVE  m[k] = Merge(m[k - 1], s[k])
  <2>1. /\ k \in 0..Len(s) /\ k - 1 \in 0..Len(s)
        /\ 1..k \in SUBSET (1..Len(s)) /\ 1..k # {}
        /\ (1..k) \ {k} = 1..(k - 1)
    <3>1. ASSUME NEW n \in Nat, NEW j \in 1..n
          PROVE  /\ j \in 0..n /\ j - 1 \in 0..n
                 /\ 1..j \subseteq 1..n /\ j \in 1..j
                 /\ (1..j) \ {j} = 1..(j - 1)
      OBVIOUS
    <3>2. QED
      BY <1>1, <3>1
  <2>2. Max(1..k) = k
    <3>1. 1..k \in SUBSET Int /\ k \in 1..k /\ \A y \in 1..k : k >= y
      BY <1>1
    <3>2. QED
      BY <3>1, MaxIs
  <2>3. MergeIter(s)[1..k] = Merge(MergeIter(s)[(1..k) \ {k}], s[k])
    BY <1>3, <2>1, <2>2 DEF MergeFn
  <2>4. QED
    BY <2>1, <2>3
<1>6. m[Len(s)] = MergeIter(s)[1..Len(s)]
  BY <1>1
<1>7. DOMAIN m = 0..Len(s)
  OBVIOUS
<1> HIDE DEF m
<1>8. QED
  BY <1>2, <1>4, <1>5, <1>6, <1>7
-----------------------------------------------------------------------------
(* The list of ranges *)

Ranges == (0..MaxPayload) \X (0..MaxPayload)

(* Every range is a range; and they are in order and do not touch.         *)
Spans(l) == \A i \in 1..Len(l) : l[i][1] < l[i][2]

Normal(l) == Spans(l) /\ \A i, j \in 1..Len(l) : i < j => l[i][2] < l[j][1]

(* The positions of a range, and of the first k of a list. *)
Bytes(range) == range[1]..range[2] - 1

BytesTo(l, k) == UNION {Bytes(l[i]) : i \in 1..k}

(* The ends of a range are numbers. *)
LEMMA RangeEnds ==
  ASSUME NEW x \in Ranges
  PROVE  /\ x = <<x[1], x[2]>>
         /\ x[1] \in 0..MaxPayload /\ x[2] \in 0..MaxPayload
         /\ x[1] \in Int /\ x[2] \in Int
BY DEF Ranges

(* One round of the loop: a range that begins no sooner than the last one  *)
(* is put behind it or joined with it.                                     *)
LEMMA MergeStep ==
  ASSUME NEW m \in Seq(Ranges), Normal(m), NEW x \in Ranges, x[1] < x[2],
         m # <<>> => Last(m)[1] <= x[1]
  PROVE  /\ Merge(m, x) \in Seq(Ranges) /\ Normal(Merge(m, x))
         /\ Merge(m, x) # <<>> /\ Last(Merge(m, x))[1] <= x[1]
         /\ \A p : p \in BytesTo(Merge(m, x), Len(Merge(m, x))) <=>
                     p \in BytesTo(m, Len(m)) \cup Bytes(x)
<1> DEFINE n == Len(m)
           y == Last(m)
<1>1. x[1] \in Int /\ x[2] \in Int /\ n \in Nat
  BY RangeEnds
<1>2. CASE Apart(m, x)
  <2>1. Merge(m, x) = Append(m, x)
    BY <1>2 DEF Merge
  <2>2. /\ Append(m, x) \in Seq(Ranges) /\ Len(Append(m, x)) = n + 1
        /\ \A i \in 1..n : Append(m, x)[i] = m[i]
        /\ Append(m, x)[n + 1] = x
    OBVIOUS
  <2>3. \A i \in 1..n : m[i] \in Ranges /\ m[i][1] \in Int /\ m[i][2] \in Int
    BY RangeEnds
  <2>4. \A i \in 1..n : m[i][2] < x[1]
    <3>1. SUFFICES ASSUME NEW i \in 1..n
                   PROVE  m[i][2] < x[1]
      OBVIOUS
    <3>2. m # <<>> /\ y = m[n] /\ n \in 1..n /\ y[2] < x[1]
      BY <1>1, <1>2, <2>3 DEF Apart, Last
    <3>3. CASE i = n
      BY <3>2, <3>3
    <3>4. CASE i < n
      <4>1. m[i][2] < m[n][1] /\ m[n][1] < m[n][2]
        BY <3>2, <3>4 DEF Normal, Spans
      <4>2. QED
        BY <1>1, <2>3, <3>2, <4>1
    <3>5. QED
      BY <3>3, <3>4
  <2> DEFINE a == Append(m, x)
  <2> HIDE DEF a
  <2>5. /\ a \in Seq(Ranges) /\ Len(a) = n + 1
        /\ \A i \in 1..n : a[i] = m[i]
        /\ a[n + 1] = x
    BY <2>2 DEF a
  <2>6. Spans(a)
    <3>1. SUFFICES ASSUME NEW i \in 1..n + 1
                   PROVE  a[i][1] < a[i][2]
      BY <2>5 DEF Spans
    <3>2. CASE i = n + 1
      BY <2>5, <3>2
    <3>3. CASE i \in 1..n
      BY <2>5, <3>3 DEF Normal, Spans
    <3>4. QED
      BY <1>1, <3>2, <3>3
  <2>7. \A i, j \in 1..n + 1 : i < j => a[i][2] < a[j][1]
    <3>1. SUFFICES ASSUME NEW i \in 1..n + 1, NEW j \in 1..n + 1, i < j
                   PROVE  a[i][2] < a[j][1]
      OBVIOUS
    <3>2. i \in 1..n
      BY <1>1, <3>1
    <3>3. CASE j = n + 1
      BY <2>4, <2>5, <3>2, <3>3
    <3>4. CASE j \in 1..n
      BY <2>5, <3>1, <3>2, <3>4 DEF Normal
    <3>5. QED
      BY <1>1, <3>3, <3>4
  <2>8. a # <<>> /\ Last(a)[1] <= x[1]
    BY <1>1, <2>5 DEF Last
  <2>9. \A p : p \in BytesTo(a, Len(a)) <=> p \in BytesTo(m, n) \cup Bytes(x)
    <3>1. ASSUME NEW p, NEW i \in 1..n, p \in Bytes(m[i])
          PROVE  p \in BytesTo(a, n + 1)
      BY <1>1, <2>5, <3>1 DEF BytesTo
    <3>2. ASSUME NEW p \in Bytes(x)
          PROVE  p \in BytesTo(a, n + 1)
      BY <1>1, <2>5, <3>2 DEF BytesTo
    <3>3. ASSUME NEW p, NEW i \in 1..n + 1, p \in Bytes(a[i])
          PROVE  p \in BytesTo(m, n) \cup Bytes(x)
      <4>1. CASE i = n + 1
        BY <2>5, <3>3, <4>1
      <4>2. CASE i \in 1..n
        BY <2>5, <3>3, <4>2 DEF BytesTo
      <4>3. QED
        BY <1>1, <4>1, <4>2
    <3>4. QED
      BY <2>5, <3>1, <3>2, <3>3 DEF BytesTo
  <2>10. QED
    BY <2>1, <2>5, <2>6, <2>7, <2>8, <2>9 DEF a, Normal
<1>3. CASE ~Apart(m, x)
  <2>1. m # <<>> /\ x[1] <= y[2] /\ y[1] <= x[1]
    BY <1>1, <1>3, RangeEnds DEF Apart, Last
  <2>2. n \in 1..n /\ y = m[n] /\ y \in Ranges
    BY <1>1, <2>1 DEF Last
  <2>3. y[1] \in Int /\ y[2] \in Int /\ y[1] < y[2]
    BY <2>2, RangeEnds DEF Normal, Spans
  <2> DEFINE e == IF x[2] > y[2] THEN x[2] ELSE y[2]
             z == <<y[1], e>>
             a == [m EXCEPT ![n] = z]
  <2>4. Merge(m, x) = a
    BY <1>3 DEF Merge, ReplaceAt
  <2>5. z \in Ranges /\ z[1] = y[1] /\ z[2] = e /\ e \in Int
    BY <2>2, RangeEnds DEF Ranges
  <2> HIDE DEF z
  <2>6. /\ a \in Seq(Ranges) /\ Len(a) = n /\ a[n] = z
        /\ \A i \in 1..n : i # n => a[i] = m[i]
    BY <2>2, <2>5
  <2> HIDE DEF a
  <2>7. y[2] <= e /\ x[2] <= e /\ (e = y[2] \/ e = x[2])
    BY <1>1, <2>3
  <2> HIDE DEF e
  <2>8. \A i \in 1..n : m[i] \in Ranges /\ m[i][1] \in Int /\ m[i][2] \in Int
    BY RangeEnds
  <2>9. Spans(a)
    <3>1. SUFFICES ASSUME NEW i \in 1..n
                   PROVE  a[i][1] < a[i][2]
      BY <2>6 DEF Spans
    <3>2. CASE i = n
      BY <2>3, <2>5, <2>6, <2>7, <3>2
    <3>3. CASE i # n
      BY <2>6, <3>3 DEF Normal, Spans
    <3>4. QED
      BY <3>2, <3>3
  <2>10. \A i, j \in 1..n : i < j => a[i][2] < a[j][1]
    <3>1. SUFFICES ASSUME NEW i \in 1..n, NEW j \in 1..n, i < j
                   PROVE  a[i][2] < a[j][1]
      OBVIOUS
    <3>2. i # n /\ m[i][2] < m[j][1]
      BY <1>1, <3>1 DEF Normal
    <3>3. a[i] = m[i] /\ a[j][1] = m[j][1]
      BY <2>2, <2>5, <2>6, <3>2
    <3>4. QED
      BY <3>2, <3>3
  <2>11. a # <<>> /\ Last(a)[1] <= x[1]
    BY <1>1, <2>1, <2>2, <2>5, <2>6 DEF Last
  <2>12. \A p : p \in Bytes(z) <=> p \in Bytes(y) \cup Bytes(x)
    BY <1>1, <2>1, <2>3, <2>5, <2>7 DEF Bytes
  <2>13. \A p : p \in BytesTo(a, n) <=> p \in BytesTo(m, n) \cup Bytes(x)
    <3>1. ASSUME NEW p, NEW i \in 1..n, p \in Bytes(m[i])
          PROVE  p \in BytesTo(a, n)
      <4>1. p \in Bytes(a[i])
        BY <2>2, <2>6, <2>12, <3>1
      <4>2. QED
        BY <4>1 DEF BytesTo
    <3>2. ASSUME NEW p \in Bytes(x)
          PROVE  p \in BytesTo(a, n)
      BY <2>2, <2>6, <2>12, <3>2 DEF BytesTo
    <3>3. ASSUME NEW p, NEW i \in 1..n, p \in Bytes(a[i])
          PROVE  p \in BytesTo(m, n) \cup Bytes(x)
      <4>1. p \in Bytes(m[i]) \cup Bytes(x)
        BY <2>2, <2>6, <2>12, <3>3
      <4>2. QED
        BY <4>1 DEF BytesTo
    <3>4. QED
      BY <3>1, <3>2, <3>3 DEF BytesTo
  <2>14. QED
    BY <2>4, <2>6, <2>9, <2>10, <2>11, <2>13 DEF Normal
<1>4. QED
  BY <1>2, <1>3

(* The loop, on a list that is in order. *)
LEMMA MergeAll ==
  ASSUME NEW s \in Seq(Ranges), s # <<>>, Spans(s),
         \A i, j \in 1..Len(s) : i < j => s[i][1] <= s[j][1]
  PROVE  LET m == FoldLeft(Merge, <<>>, s)
         IN  /\ m \in Seq(Ranges) /\ m # <<>> /\ Normal(m)
             /\ BytesTo(m, Len(m)) = BytesTo(s, Len(s))
<1> DEFINE n == Len(s)
<1>1. n \in Nat /\ n >= 1 /\ \A i \in 1..n : s[i] \in Ranges
  OBVIOUS
<1>2. PICK m : /\ DOMAIN m = 0..n /\ m[0] = <<>>
               /\ \A k \in 1..n : m[k] = Merge(m[k - 1], s[k])
               /\ FoldLeft(Merge, <<>>, s) = m[n]
  BY MergeLoop
<1> DEFINE Good(k) ==
             /\ m[k] \in Seq(Ranges) /\ Normal(m[k])
             /\ k > 0 => m[k] # <<>> /\ Last(m[k])[1] <= s[k][1]
             /\ \A p : p \in BytesTo(m[k], Len(m[k])) <=> p \in BytesTo(s, k)
           S == {k \in Nat : k <= n => Good(k)}
<1>3. 0 \in S
  BY <1>2 DEF Normal, Spans, BytesTo
<1>4. ASSUME NEW k \in S
      PROVE  k + 1 \in S
  <2>1. SUFFICES ASSUME k + 1 <= n
                 PROVE  Good(k + 1)
    OBVIOUS
  <2>2. Good(k)
    BY <1>1, <2>1
  <2>3. /\ k + 1 \in 1..n /\ s[k + 1] \in Ranges /\ s[k + 1][1] < s[k + 1][2]
        /\ m[k + 1] = Merge(m[k], s[k + 1])
    <3>1. k + 1 \in 1..n /\ k + 1 - 1 = k
      BY <1>1, <2>1
    <3>2. QED
      BY <1>1, <1>2, <3>1 DEF Spans
  <2>4. m[k] # <<>> => Last(m[k])[1] <= s[k + 1][1]
    <3>1. SUFFICES ASSUME m[k] # <<>>
                   PROVE  Last(m[k])[1] <= s[k + 1][1]
      OBVIOUS
    <3>2. k > 0
      BY <1>2, <3>1
    <3>3. k \in 1..n /\ s[k][1] <= s[k + 1][1] /\ Last(m[k])[1] <= s[k][1]
      BY <1>1, <2>1, <2>2, <2>3, <3>2
    <3>4. Last(m[k]) \in Ranges
      BY <2>2, <3>1 DEF Last
    <3>5. Last(m[k])[1] \in Int /\ s[k][1] \in Int /\ s[k + 1][1] \in Int
      BY <1>1, <2>3, <3>3, <3>4, RangeEnds
    <3>6. QED
      BY <3>3, <3>5
  <2>5. /\ m[k + 1] \in Seq(Ranges) /\ Normal(m[k + 1])
        /\ m[k + 1] # <<>> /\ Last(m[k + 1])[1] <= s[k + 1][1]
        /\ \A p : p \in BytesTo(m[k + 1], Len(m[k + 1])) <=>
                    p \in BytesTo(m[k], Len(m[k])) \cup Bytes(s[k + 1])
    BY <2>2, <2>3, <2>4, MergeStep
  <2>6. \A p : p \in BytesTo(s, k + 1) <=> p \in BytesTo(s, k) \cup Bytes(s[k + 1])
    <3>1. \A i : i \in 1..k + 1 <=> i \in 1..k \/ i = k + 1
      BY <2>3
    <3>2. QED
      BY <3>1 DEF BytesTo
  <2>7. QED
    BY <2>2, <2>5, <2>6
<1> HIDE DEF Good, S
<1>5. n \in S
  <2>1. S \in SUBSET Nat
    BY DEF S
  <2>2. QED
    BY <1>1, <1>3, <1>4, <2>1, AllNaturals
<1>6. Good(n)
  BY <1>1, <1>5 DEF S
<1>7. QED
  BY <1>1, <1>2, <1>6 DEF Good

(* A place for a range in a list in normal form: those before it are       *)
(* before it in the list.                                                  *)
LEMMA InsertPlace ==
  ASSUME NEW l \in Seq(Ranges), Normal(l), NEW x \in Ranges
  PROVE  \E k \in 0..Len(l) :
           /\ \A i \in 1..k : Before(l[i], x)
           /\ \A i \in k + 1..Len(l) : ~Before(l[i], x)
<1> DEFINE n == Len(l)
           T == {i \in 1..n + 1 : i = n + 1 \/ ~Before(l[i], x)}
<1>1. n \in Nat /\ T \in SUBSET Nat /\ n + 1 \in T
  OBVIOUS
<1>2. PICK t \in T : \A i \in T : t <= i
  BY <1>1, Smallest
<1>3. t \in 1..n + 1
  OBVIOUS
<1>4. \A i \in 1..t - 1 : Before(l[i], x)
  BY <1>1, <1>2, <1>3
<1>5. ASSUME NEW i \in t..n
      PROVE  ~Before(l[i], x)
  <2>1. t \in 1..n /\ i \in 1..n /\ ~Before(l[t], x)
    BY <1>1, <1>3, <1>5
  <2>2. /\ l[t][1] \in Int /\ l[t][2] \in Int /\ l[i][1] \in Int
        /\ x[1] \in Int /\ l[t][1] < l[t][2]
    BY <2>1, RangeEnds DEF Normal, Spans
  <2>3. CASE i = t
    BY <2>1, <2>3
  <2>4. CASE i # t
    <3>1. l[t][2] < l[i][1]
      BY <2>1, <2>4, <1>1, <1>3 DEF Normal
    <3>2. x[1] <= l[t][1]
      BY <2>1, <2>2 DEF Before
    <3>3. QED
      BY <2>2, <3>1, <3>2 DEF Before
  <2>5. QED
    BY <2>3, <2>4
<1> HIDE DEF T
<1>6. /\ t - 1 \in 0..n /\ t - 1 + 1 = t
  BY <1>1, <1>3
<1>7. QED
  BY <1>4, <1>5, <1>6

(* So a list in normal form with a range behind it has an order.           *)
LEMMA InsertOrder ==
  ASSUME NEW l \in Seq(Ranges), Normal(l), NEW x \in Ranges
  PROVE  LET a == Append(l, x)
             places == 1..Len(l) + 1
         IN  \E p \in Surjection(places, places) :
               \A i, j \in places : i < j => ~Before(a[p[j]], a[p[i]])
<1> DEFINE n == Len(l)
           a == Append(l, x)
<1>1. n \in Nat /\ a[n + 1] = x /\ \A i \in 1..n : a[i] = l[i]
  OBVIOUS
<1> HIDE DEF a
<1>2. PICK k \in 0..n : /\ \A i \in 1..k : Before(l[i], x)
                        /\ \A i \in k + 1..n : ~Before(l[i], x)
  BY InsertPlace
<1> DEFINE p == [i \in 1..n + 1 |-> IF i <= k THEN i
                                    ELSE IF i = k + 1 THEN n + 1 ELSE i - 1]
<1>3. p \in Surjection(1..n + 1, 1..n + 1)
  <2>1. p \in [1..n + 1 -> 1..n + 1]
    BY <1>1
  <2>2. ASSUME NEW t \in 1..n + 1
        PROVE  \E i \in 1..n + 1 : p[i] = t
    <3>1. CASE t <= k
      BY <1>1, <3>1
    <3>2. CASE t = n + 1
      <4>1. k + 1 \in 1..n + 1 /\ p[k + 1] = t
        BY <1>1, <3>2
      <4>2. QED
        BY <4>1
    <3>3. CASE t > k /\ t # n + 1
      <4>1. t + 1 \in 1..n + 1 /\ p[t + 1] = t
        BY <1>1, <3>3
      <4>2. QED
        BY <4>1
    <3>4. QED
      BY <1>1, <3>1, <3>2, <3>3
  <2>3. QED
    BY <2>1, <2>2 DEF Surjection
<1>4. ASSUME NEW i \in 1..n + 1, NEW j \in 1..n + 1, i < j
      PROVE  ~Before(a[p[j]], a[p[i]])
  <2>0. \A d \in 1..n : /\ l[d][1] \in Int /\ l[d][2] \in Int
                        /\ l[d][1] < l[d][2]
    BY RangeEnds DEF Normal, Spans
  <2>1. CASE i = k + 1
    <3>1. p[i] = n + 1 /\ p[j] = j - 1 /\ j - 1 \in k + 1..n /\ j - 1 \in 1..n
      BY <1>1, <1>4, <2>1
    <3>2. QED
      BY <1>1, <1>2, <3>1
  <2>2. CASE j = k + 1
    <3>1. p[i] = i /\ p[j] = n + 1 /\ i \in 1..k /\ i \in 1..n
      BY <1>1, <1>4, <2>2
    <3>2. Before(l[i], x)
      BY <1>2, <3>1
    <3>3. /\ x[1] \in Int /\ x[2] \in Int
          /\ l[i][1] \in Int /\ l[i][2] \in Int
      BY <2>0, <3>1, RangeEnds
    <3>4. ~Before(x, l[i])
      BY <3>2, <3>3 DEF Before
    <3>5. QED
      BY <1>1, <3>1, <3>4
  <2>3. CASE i # k + 1 /\ j # k + 1
    <3>1. p[i] \in 1..n /\ p[j] \in 1..n /\ p[i] < p[j]
      BY <1>1, <1>4, <2>3
    <3> HIDE DEF p
    <3>2. l[p[i]][2] < l[p[j]][1]
      BY <3>1 DEF Normal
    <3>3. /\ l[p[i]][1] \in Int /\ l[p[i]][2] \in Int
          /\ l[p[j]][1] \in Int /\ l[p[i]][1] < l[p[i]][2]
      BY <2>0, <3>1
    <3>4. ~Before(l[p[j]], l[p[i]])
      BY <3>2, <3>3 DEF Before
    <3>5. QED
      BY <1>1, <3>1, <3>4
  <2>4. QED
    BY <2>1, <2>2, <2>3
<1>5. QED
  BY <1>3, <1>4 DEF a

(* The new range is sorted in and merged (someip_tp.cpp:86).               *)
LEMMA AddedRange ==
  ASSUME NEW l \in Seq(Ranges), Normal(l),
         NEW b \in 0..MaxPayload, NEW e \in 0..MaxPayload, b < e
  PROVE  LET m == AddCoveredRange(l, b, e)
         IN  /\ m \in Seq(Ranges) /\ m # <<>> /\ Normal(m)
             /\ BytesTo(m, Len(m)) = BytesTo(l, Len(l)) \cup b..e - 1
<1> DEFINE x == <<b, e>>
           a == Append(l, x)
           n == Len(l)
           ord == CHOOSE p \in Surjection(1..n + 1, 1..n + 1) :
                    \A i, j \in 1..n + 1 : i < j => ~Before(a[p[j]], a[p[i]])
           s == [i \in 1..n + 1 |-> a[ord[i]]]
<1>1. /\ x \in Ranges /\ n \in Nat /\ a[n + 1] = x
      /\ \A i \in 1..n : a[i] = l[i]
      /\ DOMAIN a = 1..n + 1 /\ a \in Seq(Ranges)
  BY DEF Ranges
<1>2. /\ ord \in Surjection(1..n + 1, 1..n + 1)
      /\ \A i, j \in 1..n + 1 : i < j => ~Before(a[ord[j]], a[ord[i]])
  <2>1. \E p \in Surjection(1..n + 1, 1..n + 1) :
          \A i, j \in 1..n + 1 : i < j => ~Before(a[p[j]], a[p[i]])
    BY <1>1, InsertOrder
  <2> HIDE DEF a
  <2>2. QED
    BY <2>1
<1>3. Sorted(a) = s
  <2>1. DOMAIN a = 1..n + 1
    BY <1>1
  <2> HIDE DEF a
  <2>2. QED
    BY <2>1 DEF Sorted
<1> HIDE DEF ord
<1>4. \A i \in 1..n + 1 : ord[i] \in 1..n + 1
  BY <1>2 DEF Surjection
<1>5. \A i \in 1..n + 1 : \E j \in 1..n + 1 : ord[j] = i
  BY <1>2 DEF Surjection
<1> HIDE DEF a
<1>6. s \in Seq(Ranges) /\ Len(s) = n + 1 /\ \A i \in 1..n + 1 : s[i] = a[ord[i]]
  BY <1>1, <1>4
<1> HIDE DEF s
<1>7. \A i \in 1..n + 1 : a[i][1] < a[i][2] /\ a[i][1] \in Int
  <2>1. SUFFICES ASSUME NEW i \in 1..n + 1
                 PROVE  a[i][1] < a[i][2] /\ a[i][1] \in Int
    OBVIOUS
  <2>2. CASE i = n + 1
    BY <1>1, <2>2
  <2>3. CASE i \in 1..n
    <3>1. l[i] \in Ranges /\ l[i][1] < l[i][2]
      BY <2>3 DEF Normal, Spans
    <3>2. a[i] = l[i] /\ l[i][1] \in Int
      BY <1>1, <2>3, <3>1, RangeEnds
    <3>3. QED
      BY <3>1, <3>2
  <2>4. QED
    BY <1>1, <2>2, <2>3
<1>8. Spans(s) /\ s # <<>>
  BY <1>1, <1>4, <1>6, <1>7 DEF Spans
<1>9. \A i, j \in 1..n + 1 : i < j => s[i][1] <= s[j][1]
  <2>1. SUFFICES ASSUME NEW i \in 1..n + 1, NEW j \in 1..n + 1, i < j
                 PROVE  s[i][1] <= s[j][1]
    OBVIOUS
  <2>2. ~Before(a[ord[j]], a[ord[i]])
    BY <1>2, <2>1
  <2>3. a[ord[i]][1] \in Int /\ a[ord[j]][1] \in Int
    BY <1>4, <1>7
  <2>4. QED
    BY <1>6, <2>2, <2>3 DEF Before
<1>10. BytesTo(s, n + 1) = BytesTo(l, n) \cup b..e - 1
  <2>1. Bytes(x) = b..e - 1
    BY DEF Bytes
  <2>2. ASSUME NEW p, NEW i \in 1..n, p \in Bytes(l[i])
        PROVE  p \in BytesTo(s, n + 1)
    <3>1. PICK j \in 1..n + 1 : ord[j] = i
      BY <1>1, <1>5
    <3>2. s[j] = l[i]
      BY <1>1, <1>6, <3>1
    <3>3. QED
      BY <2>2, <3>2 DEF BytesTo
  <2>3. ASSUME NEW p \in Bytes(x)
        PROVE  p \in BytesTo(s, n + 1)
    <3>1. PICK j \in 1..n + 1 : ord[j] = n + 1
      BY <1>1, <1>5
    <3>2. s[j] = x
      BY <1>1, <1>6, <3>1
    <3>3. QED
      BY <2>3, <3>2 DEF BytesTo
  <2>4. ASSUME NEW p, NEW j \in 1..n + 1, p \in Bytes(s[j])
        PROVE  p \in BytesTo(l, n) \cup Bytes(x)
    <3>1. CASE ord[j] = n + 1
      BY <1>1, <1>6, <2>4, <3>1
    <3>2. CASE ord[j] \in 1..n
      BY <1>1, <1>6, <2>4, <3>2 DEF BytesTo
    <3>3. QED
      BY <1>1, <1>4, <3>1, <3>2
  <2>5. QED
    BY <2>1, <2>2, <2>3, <2>4 DEF BytesTo
<1>11. AddCoveredRange(l, b, e) = FoldLeft(Merge, <<>>, s)
  BY <1>3 DEF AddCoveredRange, a, s
<1>12. QED
  BY <1>6, <1>8, <1>9, <1>10, <1>11, MergeAll

(* IsFullyCovered may look at the first range only: a list in normal form  *)
(* within a size covers it exactly when it is one range from 0 to its end  *)
(* (someip_tp.cpp:103).                                                    *)
LEMMA FullyCovered ==
  ASSUME NEW l \in Seq(Ranges), Normal(l), NEW size \in Nat \ {0},
         BytesTo(l, Len(l)) \subseteq 0..size - 1
  PROVE  (Len(l) = 1 /\ l[1][1] = 0 /\ l[1][2] >= size) <=>
           BytesTo(l, Len(l)) = 0..size - 1
<1> DEFINE n == Len(l)
<1>1. n \in Nat /\ \A i \in 1..n : /\ l[i][1] \in Nat /\ l[i][2] \in Nat
                                   /\ l[i][1] < l[i][2]
  BY RangeEnds DEF Normal, Spans
<1>2. ASSUME n = 1, l[1][1] = 0, l[1][2] >= size
      PROVE  0..size - 1 \subseteq BytesTo(l, n)
  <2>1. 1 \in 1..n /\ 0..size - 1 \subseteq Bytes(l[1])
    BY <1>1, <1>2 DEF Bytes
  <2>2. QED
    BY <2>1 DEF BytesTo
<1>3. ASSUME BytesTo(l, n) = 0..size - 1
      PROVE  n = 1 /\ l[1][1] = 0 /\ l[1][2] >= size
  <2>1. PICK i \in 1..n : 0 \in Bytes(l[i])
    <3>1. 0 \in 0..size - 1
      OBVIOUS
    <3>2. QED
      BY <1>3, <3>1 DEF BytesTo
  <2>2. n >= 1 /\ 1 \in 1..n
    BY <1>1
  <2>3. ASSUME n > 1
        PROVE  FALSE
    <3>1. 2 \in 1..n /\ l[1][2] < l[2][1]
      BY <1>1, <2>3 DEF Normal
    <3>2. l[2][1] \in BytesTo(l, n)
      <4>1. l[2][1] \in Bytes(l[2])
        BY <1>1, <3>1 DEF Bytes
      <4>2. QED
        BY <3>1, <4>1 DEF BytesTo
    <3>3. l[1][2] \in BytesTo(l, n)
      <4>1. l[2][1] \in 0..size - 1
        BY <3>2
      <4>2. l[1][2] \in 0..size - 1
        BY <1>1, <2>2, <3>1, <4>1
      <4>3. QED
        BY <1>3, <4>2
    <3>4. PICK j \in 1..n : l[1][2] \in Bytes(l[j])
      BY <3>3 DEF BytesTo
    <3>5. l[j][1] <= l[1][2] /\ l[1][2] < l[j][2]
      BY <1>1, <2>2, <3>4 DEF Bytes
    <3>6. j # 1
      BY <1>1, <2>2, <3>5
    <3>7. l[1][2] < l[j][1]
      BY <1>1, <2>2, <3>6 DEF Normal
    <3>8. QED
      BY <1>1, <2>2, <3>5, <3>7
  <2>4. n = 1
    <3> HIDE DEF n
    <3>1. \A k \in Nat : k >= 1 /\ ~(k > 1) => k = 1
      OBVIOUS
    <3>2. QED
      BY <1>1, <2>2, <2>3, <3>1
  <2>5. size - 1 \in Bytes(l[1])
    <3>1. size - 1 \in BytesTo(l, n)
      BY <1>3
    <3>2. QED
      BY <2>4, <3>1 DEF BytesTo
  <2>6. QED
    BY <1>1, <2>1, <2>2, <2>4, <2>5 DEF Bytes
<1>4. QED
  BY <1>2, <1>3

-----------------------------------------------------------------------------
(* The methods of the reassembler *)

Reassemblers ==
  [buffer : Seq(Origins \cup {0}), ranges : Seq(Ranges),
   expected : 0..MaxPayload, total : 0..MaxPayload,
   session : Sessions \cup {0}, inProgress : BOOLEAN, complete : BOOLEAN]

(* The invariant, of any reassembler.                                      *)
Sound(r) ==
  /\ r \in Reassemblers /\ Normal(r.ranges)
  /\ r.total <= Len(r.buffer)
  /\ Covered(r) \subseteq 0..Len(r.buffer) - 1
  /\ r.expected # 0 => Covered(r) \subseteq 0..r.expected - 1
  /\ r.session = 0 => r.ranges = <<>> /\ r.expected = 0 /\ ~r.complete

(* What a reassembler covers.                                              *)
LEMMA CoveredIs ==
  ASSUME NEW r, NEW R, r.ranges \in Seq(R)
  PROVE  Covered(r) = BytesTo(r.ranges, Len(r.ranges))
<1>1. DOMAIN r.ranges = 1..Len(r.ranges)
  OBVIOUS
<1>2. QED
  BY <1>1 DEF Covered, BytesTo, Bytes

(* The invariant of the specification is that of its reassembler.          *)
LEMMA SoundIsInv == TpInv <=> Sound(tp)
<1>1. ASSUME TpInv
      PROVE  Sound(tp)
  <2>1. tp \in Reassemblers
    BY <1>1 DEF TpInv, TpTypeOK, Reassemblers, Ranges
  <2>2. DOMAIN tp.ranges = 1..Len(tp.ranges)
    BY <2>1 DEF Reassemblers
  <2>3. Normal(tp.ranges)
    BY <1>1, <2>2 DEF TpInv, TpTypeOK, RangesNormal, Normal, Spans
  <2>4. QED
    BY <1>1, <2>1, <2>3 DEF TpInv, TpTypeOK, PayloadInBuffer, Sound
<1>2. ASSUME Sound(tp)
      PROVE  TpInv
  <2>1. tp \in Reassemblers /\ Normal(tp.ranges)
    BY <1>2 DEF Sound
  <2>2. DOMAIN tp.ranges = 1..Len(tp.ranges) /\ Len(tp.ranges) \in Nat
    BY <2>1 DEF Reassemblers
  <2>3. RangesNormal
    <3>1. \A i \in 1..Len(tp.ranges) - 1 :
            i \in 1..Len(tp.ranges) /\ i + 1 \in 1..Len(tp.ranges) /\ i < i + 1
      BY <2>2
    <3>2. QED
      BY <2>1, <2>2, <3>1 DEF RangesNormal, Normal, Spans
  <2>4. TpTypeOK
    BY <1>2, <2>1, <2>3 DEF Sound, TpTypeOK, PayloadInBuffer, Reassemblers, Ranges
  <2>5. QED
    BY <1>2, <2>1, <2>2, <2>4 DEF Sound, TpInv, Normal
<1>3. QED
  BY <1>1, <1>2

(* The fields of a reassembler that was reset.                             *)
LEMMA ResetIs ==
  ASSUME NEW r \in Reassemblers
  PROVE  LET f == Reset(r)
         IN  /\ Sound(f) /\ f.session = 0 /\ f.ranges = <<>> /\ f.expected = 0
             /\ ~f.complete /\ ~f.inProgress /\ f.buffer = r.buffer
             /\ Covered(f) = {}
<1> DEFINE f == Reset(r)
<1>1. /\ f.session = 0 /\ f.ranges = <<>> /\ f.expected = 0 /\ f.total = 0
      /\ f.complete = FALSE /\ f.inProgress = FALSE /\ f.buffer = r.buffer
  BY DEF Reset, Fresh
<1>2. f \in Reassemblers
  <2>1. <<>> \in Seq(Ranges) /\ 0 \in 0..MaxPayload
    BY ReassemblerAssumption
  <2>2. QED
    BY <2>1 DEF Reset, Fresh, Reassemblers
<1>3. Covered(f) = {}
  BY <1>1 DEF Covered
<1>4. Normal(f.ranges)
  BY <1>1 DEF Normal, Spans
<1>5. f.total <= Len(f.buffer)
  BY <1>1, <1>2 DEF Reassemblers
<1> HIDE DEF f
<1>6. Sound(f)
  BY <1>1, <1>2, <1>3, <1>4, <1>5, Zenon DEF Sound
<1>7. QED
  BY <1>1, <1>3, <1>6 DEF f

(* Nothing below depends on the places a segment may begin at.             *)
AnySegments == [session : Sessions, len : Nat, more : BOOLEAN,
                from : Origins, begin : Nat]

(* The segments of the specification are such.                             *)
LEMMA SegmentsAreAny == Segments \subseteq AnySegments
BY ReassemblerAssumption DEF Segments, AnySegments

(* A segment goes with the bytes of its session, or starts anew.           *)
Same(r, s) == r.session = s.session /\ ~r.complete

(* What is left of a reassembler when a segment joins it.                  *)
LEMMA JoinedIs ==
  ASSUME NEW r, Sound(r), NEW s \in AnySegments
  PROVE  LET j == Joined(r, s)
         IN  /\ Sound(j) /\ j.session = s.session /\ j.complete = FALSE
             /\ j.buffer = r.buffer
             /\ j.expected = IF Same(r, s) THEN r.expected ELSE 0
             /\ Covered(j) = IF Same(r, s) THEN Covered(r) ELSE {}
<1> DEFINE f == Reset(r)
           j == Joined(r, s)
<1>1. r \in Reassemblers /\ s.session \in Sessions /\ s.session # 0
  BY ReassemblerAssumption DEF Sound, AnySegments
<1>2. /\ Sound(f) /\ f.session = 0 /\ f.ranges = <<>> /\ f.expected = 0
      /\ f.complete = FALSE /\ f.buffer = r.buffer /\ Covered(f) = {}
  BY <1>1, ResetIs
<1> HIDE DEF f
<1>3. ASSUME NEW q, Sound(q)
      PROVE  LET k == [q EXCEPT !.session = s.session]
             IN  /\ Sound(k) /\ k.session = s.session
                 /\ k.complete = q.complete /\ k.buffer = q.buffer
                 /\ k.expected = q.expected /\ Covered(k) = Covered(q)
  <2> DEFINE k == [q EXCEPT !.session = s.session]
  <2>1. /\ k \in Reassemblers /\ k.session = s.session /\ k.ranges = q.ranges
        /\ k.complete = q.complete /\ k.buffer = q.buffer
        /\ k.expected = q.expected /\ k.total = q.total
    BY <1>1, <1>3 DEF Sound, Reassemblers
  <2> HIDE DEF k
  <2>2. Covered(k) = Covered(q)
    BY <2>1 DEF Covered
  <2>3. Sound(k)
    BY <1>1, <1>3, <2>1, <2>2, Zenon DEF Sound
  <2>4. QED
    BY <2>1, <2>2, <2>3 DEF k
<1>4. CASE r.complete \/ r.session \notin {0, s.session}
  <2>1. j = [f EXCEPT !.session = s.session] /\ ~Same(r, s)
    BY <1>4 DEF Joined, f, Same
  <2>2. QED
    BY <1>2, <1>3, <2>1
<1>5. CASE ~r.complete /\ r.session \in {0, s.session}
  <2>1. j = [r EXCEPT !.session = s.session] /\ r.complete = FALSE
    BY <1>1, <1>5 DEF Joined, Reassemblers
  <2>2. CASE r.session = 0
    <3>1. r.ranges = <<>> /\ r.expected = 0 /\ ~Same(r, s)
      BY <1>1, <2>2 DEF Sound, Same
    <3>2. Covered(r) = {}
      BY <3>1 DEF Covered
    <3>3. QED
      BY <1>3, <2>1, <3>1, <3>2
  <2>3. CASE r.session = s.session
    BY <1>3, <1>5, <2>1, <2>3 DEF Same
  <2>4. QED
    BY <1>5, <2>2, <2>3
<1>6. QED
  BY <1>4, <1>5

(* What a segment that fits adds, in the buffer and in the list.           *)
LEMMA WrittenIs ==
  ASSUME NEW j, Sound(j), NEW s \in AnySegments, s.len # 0,
         j.session = s.session, j.complete = FALSE, ~TooLong(j, s)
  PROVE  LET w == Written(j, s)
         IN  /\ Sound(w) /\ w.session = s.session /\ w.complete = FALSE
             /\ w.inProgress = TRUE /\ w.ranges # <<>> /\ w.expected = j.expected
             /\ w.buffer = Copied(j.buffer, s)
             /\ Covered(w) = Covered(j) \cup s.begin..End(s) - 1
             /\ End(s) <= Len(w.buffer)
<1> DEFINE w == Written(j, s)
           b == s.begin
           e == End(s)
           m == AddCoveredRange(j.ranges, b, e)
           c == Copied(j.buffer, s)
           n == IF e > Len(j.buffer) THEN e ELSE Len(j.buffer)
<1>1. /\ j \in Reassemblers /\ Normal(j.ranges)
      /\ s.len \in Nat /\ b \in Nat /\ s.from \in Origins
      /\ s.session \in Sessions /\ s.session # 0
  BY ReassemblerAssumption DEF Sound, AnySegments
<1>2. /\ b \in 0..MaxPayload /\ e \in 0..MaxPayload /\ b < e
      /\ j.expected # 0 => e <= j.expected
  <2>1. /\ b <= MaxPayload /\ s.len <= MaxPayload - b /\ MaxPayload \in Nat
        /\ j.expected # 0 => ~(e > j.expected)
    BY <1>1, ReassemblerAssumption DEF TooLong
  <2>2. j.expected \in Int
    BY <1>1 DEF Reassemblers
  <2>3. QED
    BY <1>1, <2>1, <2>2 DEF End
<1>3. /\ m \in Seq(Ranges) /\ m # <<>> /\ Normal(m)
      /\ BytesTo(m, Len(m)) = BytesTo(j.ranges, Len(j.ranges)) \cup b..e - 1
  <2>1. j.ranges \in Seq(Ranges)
    BY <1>1 DEF Reassemblers
  <2>2. QED
    BY <1>1, <1>2, <2>1, AddedRange
<1> HIDE DEF m
<1>4. /\ c \in Seq(Origins \cup {0}) /\ Len(c) = n /\ n \in Nat
      /\ e <= n /\ Len(j.buffer) <= n
  <2>1. j.buffer \in Seq(Origins \cup {0}) /\ Len(j.buffer) \in Nat
    BY <1>1 DEF Reassemblers
  <2>2. n \in Nat /\ e <= n /\ Len(j.buffer) <= n
    BY <1>2, <2>1
  <2>3. \A i \in 1..n : c[i] \in Origins \cup {0}
    <3>1. SUFFICES ASSUME NEW i \in 1..n
                   PROVE  c[i] \in Origins \cup {0}
      OBVIOUS
    <3>2. CASE i \in b + 1..e
      BY <1>1, <3>2 DEF Copied
    <3>3. CASE i \notin b + 1..e /\ i <= Len(j.buffer)
      <4>1. j.buffer[i] \in Origins \cup {0}
        BY <2>1, <2>2, <3>3
      <4>2. QED
        BY <3>3, <4>1 DEF Copied
    <3>4. CASE i \notin b + 1..e /\ ~(i <= Len(j.buffer))
      BY <3>4 DEF Copied
    <3>5. QED
      BY <3>2, <3>3, <3>4
  <2>4. c = [i \in 1..n |-> c[i]]
    BY DEF Copied
  <2> HIDE DEF c, n
  <2>5. QED
    BY <2>2, <2>3, <2>4
<1> HIDE DEF c, n
<1>5. /\ w \in Reassemblers /\ w.session = s.session /\ w.complete = FALSE
      /\ w.inProgress = TRUE
      /\ w.ranges = m /\ w.expected = j.expected /\ w.buffer = c
      /\ w.total = j.total
  BY <1>1, <1>3, <1>4 DEF Written, Reassemblers, m, c
<1> HIDE DEF w
<1>6. Covered(w) = Covered(j) \cup b..e - 1
  <2>1. j.ranges \in Seq(Ranges) /\ w.ranges \in Seq(Ranges)
    BY <1>1, <1>5 DEF Reassemblers
  <2>2. QED
    BY <1>3, <1>5, <2>1, CoveredIs
<1>7. w.total <= Len(w.buffer) /\ Covered(w) \subseteq 0..Len(w.buffer) - 1
  <2>1. /\ j.total <= Len(j.buffer) /\ Len(j.buffer) \in Nat /\ j.total \in Int
        /\ Covered(j) \subseteq 0..Len(j.buffer) - 1
    BY <1>1 DEF Sound, Reassemblers
  <2>2. /\ 0..Len(j.buffer) - 1 \subseteq 0..n - 1
        /\ b..e - 1 \subseteq 0..n - 1
    BY <1>1, <1>2, <1>4, <2>1
  <2>3. QED
    BY <1>4, <1>5, <1>6, <2>1, <2>2
<1>8. w.expected # 0 => Covered(w) \subseteq 0..w.expected - 1
  <2>1. SUFFICES ASSUME j.expected # 0
                 PROVE  Covered(w) \subseteq 0..j.expected - 1
    BY <1>5
  <2>2. Covered(j) \subseteq 0..j.expected - 1 /\ j.expected \in Int
    BY <1>1, <2>1 DEF Sound, Reassemblers
  <2>3. b..e - 1 \subseteq 0..j.expected - 1
    BY <1>1, <1>2, <2>1, <2>2
  <2>4. QED
    BY <1>6, <2>2, <2>3
<1>9. Sound(w)
  BY <1>1, <1>3, <1>5, <1>7, <1>8 DEF Sound
<1>10. QED
  BY <1>3, <1>4, <1>5, <1>6, <1>9 DEF w, c

(* What a final segment adds: the size of the message.                     *)
LEMMA EndedIs ==
  ASSUME NEW w, Sound(w), NEW s \in AnySegments, ~s.more, ~Conflicting(w, s),
         w.ranges # <<>>, End(s) \in 1..MaxPayload, w.session # 0
  PROVE  LET d == [w EXCEPT !.expected = End(s)]
         IN  /\ Sound(d) /\ d.session = w.session /\ d.complete = w.complete
             /\ d.inProgress = w.inProgress
             /\ d.buffer = w.buffer /\ d.expected = End(s)
             /\ Covered(d) = Covered(w)
             /\ w.expected # 0 => w.expected = End(s)
<1> DEFINE d == [w EXCEPT !.expected = End(s)]
           n == Len(w.ranges)
           e == End(s)
<1>1. w \in Reassemblers /\ Normal(w.ranges) /\ w.ranges \in Seq(Ranges)
  BY DEF Sound, Reassemblers
<1>2. n \in Nat /\ n \in 1..n /\ Last(w.ranges) = w.ranges[n]
  BY <1>1 DEF Last
<1>3. w.ranges[n][2] <= e /\ (w.expected # 0 => w.expected = e)
  <2>1. w.ranges[n][2] \in Int
    BY <1>1, <1>2, RangeEnds
  <2>2. QED
    BY <1>2, <2>1 DEF Conflicting
<1>4. /\ d \in Reassemblers /\ d.session = w.session /\ d.ranges = w.ranges
      /\ d.complete = w.complete /\ d.buffer = w.buffer /\ d.expected = e
      /\ d.total = w.total /\ d.inProgress = w.inProgress
  BY <1>1 DEF Reassemblers
<1> HIDE DEF d
<1>5. Covered(d) = Covered(w)
  BY <1>4 DEF Covered
<1>6. Covered(w) \subseteq 0..e - 1
  <2>1. \A i \in 1..n : /\ w.ranges[i][1] \in Nat /\ w.ranges[i][2] \in Nat
                        /\ w.ranges[i][1] < w.ranges[i][2]
    BY <1>1, RangeEnds DEF Normal, Spans
  <2>2. \A i \in 1..n : w.ranges[i][2] <= e
    <3>1. SUFFICES ASSUME NEW i \in 1..n
                   PROVE  w.ranges[i][2] <= e
      OBVIOUS
    <3>2. CASE i = n
      BY <1>3, <3>2
    <3>3. CASE i < n
      <4>1. w.ranges[i][2] < w.ranges[n][1]
        BY <1>1, <1>2, <3>3 DEF Normal
      <4>2. QED
        BY <1>2, <1>3, <2>1, <4>1
    <3>4. QED
      BY <1>2, <3>2, <3>3
  <2>3. ASSUME NEW i \in 1..n
        PROVE  Bytes(w.ranges[i]) \subseteq 0..e - 1
    <3>1. /\ w.ranges[i][1] \in Nat /\ w.ranges[i][2] \in Nat
          /\ w.ranges[i][2] <= e
      BY <2>1, <2>2
    <3>2. QED
      BY <3>1 DEF Bytes
  <2>4. Covered(w) = BytesTo(w.ranges, n)
    BY <1>1, CoveredIs
  <2>5. QED
    BY <2>3, <2>4 DEF BytesTo
<1>7. Sound(d)
  BY <1>4, <1>5, <1>6 DEF Sound
<1>8. QED
  BY <1>3, <1>4, <1>5, <1>7 DEF d

(* A reassembler completes exactly when it covers the whole message.       *)
LEMMA CompletedIs ==
  ASSUME NEW r, Sound(r), r.session # 0, r.complete = FALSE
  PROVE  LET f == Completed(r)
         IN  /\ Sound(f) /\ f.session = r.session /\ f.buffer = r.buffer
             /\ f.expected = r.expected /\ Covered(f) = Covered(r)
             /\ f.complete = (/\ r.expected # 0
                              /\ Covered(r) = 0..r.expected - 1)
             /\ f.complete => f.total = r.expected
             /\ f.inProgress = (r.inProgress /\ ~f.complete)
<1> DEFINE f == Completed(r)
<1>1. /\ r \in Reassemblers /\ r.ranges \in Seq(Ranges) /\ Normal(r.ranges)
      /\ r.expected \in Nat /\ Len(r.buffer) \in Nat
  BY ReassemblerAssumption DEF Sound, Reassemblers
<1>2. Covered(r) = BytesTo(r.ranges, Len(r.ranges))
  BY <1>1, CoveredIs
<1>3. IsFullyCovered(r) <=> r.expected # 0 /\ Covered(r) = 0..r.expected - 1
  <2>1. CASE r.expected = 0
    BY <2>1 DEF IsFullyCovered
  <2>2. CASE r.expected # 0
    <3>1. r.expected \in Nat \ {0} /\ Covered(r) \subseteq 0..r.expected - 1
      BY <1>1, <2>2 DEF Sound
    <3>2. QED
      BY <1>1, <1>2, <2>2, <3>1, FullyCovered DEF IsFullyCovered
  <2>3. QED
    BY <2>1, <2>2
<1>4. CASE ~IsFullyCovered(r)
  <2>1. f = r /\ r.inProgress \in BOOLEAN
    BY <1>1, <1>4 DEF Completed, Reassemblers
  <2> HIDE DEF f
  <2>2. f.inProgress = (r.inProgress /\ ~f.complete)
    BY <2>1
  <2>3. QED
    BY <1>3, <1>4, <2>1, <2>2 DEF f
<1>5. CASE IsFullyCovered(r)
  <2>1. /\ f \in Reassemblers /\ f.session = r.session /\ f.ranges = r.ranges
        /\ f.complete = TRUE /\ f.buffer = r.buffer /\ f.expected = r.expected
        /\ f.total = r.expected /\ f.inProgress = FALSE
    BY <1>1, <1>5 DEF Completed, Reassemblers
  <2> HIDE DEF f
  <2>2. Covered(f) = Covered(r)
    BY <2>1 DEF Covered
  <2>3. f.total <= Len(f.buffer)
    <3>1. 0..r.expected - 1 \subseteq 0..Len(r.buffer) - 1
      BY <1>3, <1>5 DEF Sound
    <3>2. r.expected - 1 \in 0..r.expected - 1
      BY <1>1, <1>3, <1>5
    <3>3. r.expected - 1 \in 0..Len(r.buffer) - 1
      BY <3>1, <3>2
    <3>4. QED
      BY <1>1, <2>1, <3>3
  <2>4. Sound(f)
    BY <2>1, <2>2, <2>3 DEF Sound
  <2>5. QED
    BY <1>3, <1>5, <2>1, <2>2, <2>4 DEF f
<1>6. QED
  BY <1>4, <1>5

(* A segment that is put with the bytes of its session.                    *)
Puts(r, s, f) ==
  /\ f.session = s.session
  /\ f.buffer = Copied(r.buffer, s)
  /\ Covered(f) = (IF Same(r, s) THEN Covered(r) ELSE {}) \cup s.begin..End(s) - 1
  /\ f.expected = IF ~s.more THEN End(s)
                  ELSE IF Same(r, s) THEN r.expected ELSE 0
  /\ Same(r, s) /\ r.expected # 0 => f.expected = r.expected
  /\ f.complete = (f.expected # 0 /\ Covered(f) = 0..f.expected - 1)
  /\ f.complete => f.total = f.expected
  /\ f.inProgress = ~f.complete

(* A segment that fits is put with the bytes of its session, and may       *)
(* complete the message, unless it contradicts the bytes there are.        *)
LEMMA FeedFits ==
  ASSUME NEW r, Sound(r), NEW s \in AnySegments,
         s.len # 0, ~Malformed(s), ~TooLong(Joined(r, s), s)
  PROVE  LET f == Feed(r, s)
             w == Written(Joined(r, s), s)
         IN  /\ End(s) \in 1..MaxPayload /\ s.begin < End(s)
             /\ IF Conflicting(w, s)
                THEN w \in Reassemblers /\ f = Reset(w)
                ELSE Sound(f) /\ Puts(r, s, f)
<1> DEFINE f == Feed(r, s)
           j == Joined(r, s)
           w == Written(j, s)
           d == [w EXCEPT !.expected = End(s)]
<1>1. s.session # 0 /\ s.more \in BOOLEAN
  BY ReassemblerAssumption DEF AnySegments
<1>2. /\ Sound(j) /\ j.session = s.session /\ j.complete = FALSE
      /\ j.buffer = r.buffer
      /\ j.expected = IF Same(r, s) THEN r.expected ELSE 0
      /\ Covered(j) = IF Same(r, s) THEN Covered(r) ELSE {}
  BY JoinedIs
<1>3. /\ Sound(w) /\ w.session = s.session /\ w.complete = FALSE
      /\ w.inProgress = TRUE /\ w.ranges # <<>> /\ w.expected = j.expected
      /\ w.buffer = Copied(j.buffer, s)
      /\ Covered(w) = Covered(j) \cup s.begin..End(s) - 1
  BY <1>2, WrittenIs
<1>4. End(s) \in 1..MaxPayload /\ s.begin < End(s)
  BY ReassemblerAssumption DEF TooLong, End, AnySegments
<1>5. f = IF Conflicting(w, s) THEN Reset(w)
          ELSE IF s.more THEN Completed(w) ELSE Completed(d)
  BY DEF Feed
<1> HIDE DEF f, w, j
<1>6. CASE Conflicting(w, s)
  BY <1>3, <1>4, <1>5, <1>6 DEF Sound, f, w, j
<1>7. CASE ~Conflicting(w, s) /\ s.more
  <2>1. f = Completed(w)
    BY <1>5, <1>7
  <2>2. /\ Sound(f) /\ f.session = w.session /\ f.buffer = w.buffer
        /\ f.expected = w.expected /\ Covered(f) = Covered(w)
        /\ f.complete = (w.expected # 0 /\ Covered(w) = 0..w.expected - 1)
        /\ f.complete => f.total = w.expected
        /\ f.inProgress = (w.inProgress /\ ~f.complete)
    BY <1>1, <1>3, <2>1, CompletedIs
  <2>3. Puts(r, s, f)
    <3>1. f.inProgress = ~f.complete
      BY <1>3, <2>2
    <3>2. QED
      BY <1>2, <1>3, <1>7, <2>2, <3>1, Zenon DEF Puts
  <2>4. QED
    BY <1>4, <1>7, <2>2, <2>3 DEF f, w, j
<1>8. CASE ~Conflicting(w, s) /\ ~s.more
  <2>1. /\ Sound(d) /\ d.session = w.session /\ d.complete = w.complete
        /\ d.inProgress = w.inProgress
        /\ d.buffer = w.buffer /\ d.expected = End(s)
        /\ Covered(d) = Covered(w)
        /\ w.expected # 0 => w.expected = End(s)
    BY <1>1, <1>3, <1>4, <1>8, EndedIs
  <2> HIDE DEF d
  <2>2. f = Completed(d)
    BY <1>5, <1>8
  <2>3. /\ Sound(f) /\ f.session = d.session /\ f.buffer = d.buffer
        /\ f.expected = d.expected /\ Covered(f) = Covered(d)
        /\ f.complete = (d.expected # 0 /\ Covered(d) = 0..d.expected - 1)
        /\ f.complete => f.total = d.expected
        /\ f.inProgress = (d.inProgress /\ ~f.complete)
    BY <1>1, <1>3, <2>1, <2>2, CompletedIs
  <2>4. Same(r, s) /\ r.expected # 0 => f.expected = r.expected
    BY <1>2, <1>3, <2>1, <2>3
  <2>5. /\ f.session = s.session /\ f.buffer = Copied(r.buffer, s)
        /\ Covered(f) = (IF Same(r, s) THEN Covered(r) ELSE {})
                          \cup s.begin..End(s) - 1
        /\ f.expected = End(s)
    BY <1>2, <1>3, <2>1, <2>3
  <2>6. /\ f.complete = (f.expected # 0 /\ Covered(f) = 0..f.expected - 1)
        /\ f.complete => f.total = f.expected
        /\ f.inProgress = ~f.complete
    BY <1>3, <2>1, <2>3
  <2>7. Puts(r, s, f)
    BY <1>8, <2>4, <2>5, <2>6, Zenon DEF Puts
  <2>8. QED
    BY <1>4, <1>8, <2>3, <2>7 DEF f, w, j
<1>9. QED
  BY <1>1, <1>6, <1>7, <1>8

(* Feed, by its outcomes: an empty segment changes nothing, a bad one ends *)
(* the message under way, and any other is put with the bytes of its       *)
(* session (someip_tp.cpp:10).                                             *)
LEMMA FeedIs ==
  ASSUME NEW r, Sound(r), NEW s \in AnySegments
  PROVE  LET f == Feed(r, s)
         IN  /\ Sound(f)
             /\ \/ s.len = 0 /\ f = r
                \/ \E q \in Reassemblers : f = Reset(q)
                \/ /\ s.len # 0 /\ End(s) \in 1..MaxPayload /\ s.begin < End(s)
                   /\ Puts(r, s, f)
<1> DEFINE f == Feed(r, s)
           j == Joined(r, s)
           w == Written(j, s)
<1>1. r \in Reassemblers
  BY DEF Sound
<1>2. CASE s.len = 0
  BY <1>2 DEF Feed
<1>3. CASE s.len # 0 /\ Malformed(s)
  <2>1. f = Reset(r)
    BY <1>3 DEF Feed
  <2>2. QED
    BY <1>1, <2>1, ResetIs
<1>4. CASE s.len # 0 /\ ~Malformed(s) /\ TooLong(j, s)
  <2>1. Sound(j)
    BY JoinedIs
  <2>2. f = Reset(j) /\ j \in Reassemblers
    BY <1>4, <2>1 DEF Feed, Sound
  <2>3. QED
    BY <2>2, ResetIs
<1>5. CASE s.len # 0 /\ ~Malformed(s) /\ ~TooLong(j, s)
  <2> HIDE DEF f, w, j
  <2>1. /\ End(s) \in 1..MaxPayload /\ s.begin < End(s)
        /\ IF Conflicting(w, s) THEN w \in Reassemblers /\ f = Reset(w)
                                ELSE Sound(f) /\ Puts(r, s, f)
    BY <1>5, FeedFits DEF f, w, j
  <2>2. QED
    BY <1>5, <2>1, ResetIs DEF f
<1>6. QED
  BY <1>2, <1>3, <1>4, <1>5

-----------------------------------------------------------------------------
(* The specification *)

(* A reassembler that was never used is sound.                             *)
LEMMA FreshSound == Sound(Fresh)
<1>1. Fresh \in Reassemblers
  BY ReassemblerAssumption DEF Fresh, Reassemblers
<1>2. Reset(Fresh) = Fresh
  BY DEF Reset, Fresh
<1>3. QED
  BY <1>1, <1>2, ResetIs

(* The invariant of the reassembler holds after any segments, and after    *)
(* any Reset.                                                              *)
LEMMA TpInvariant == TpSpec => []TpInv
<1>1. TpInit => TpInv
  BY FreshSound, SoundIsInv DEF TpInit
<1>2. TpInv /\ [TpNext]_tp => TpInv'
  <2>0. (TpInv <=> Sound(tp))'
    BY SoundIsInv, PTL
  <2> SUFFICES ASSUME Sound(tp), [TpNext]_tp
               PROVE  Sound(tp)'
    BY <2>0, SoundIsInv
  <2>1. CASE UNCHANGED tp
    BY <2>1
  <2>2. CASE tp' = Reset(tp)
    BY <2>2, ResetIs DEF Sound
  <2>3. ASSUME NEW s \in Segments, tp' = Feed(tp, s)
        PROVE  Sound(tp)'
    BY <2>3, FeedIs, SegmentsAreAny
  <2>4. QED
    BY <2>1, <2>2, <2>3 DEF TpNext
<1>3. QED
  BY <1>1, <1>2, PTL DEF TpSpec

(* The members have their types, the ranges stay apart and in order, and   *)
(* every payload lies in the buffer (someip_tp.cpp:68, 86, 103), for every *)
(* payload and segment size and after any sequence of segments.            *)
THEOREM ReassemblerTypeCorrect == TpSpec => []TpTypeOK
<1>1. TpInv => TpTypeOK
  BY DEF TpInv
<1>2. QED
  BY <1>1, TpInvariant, PTL

(* The bytes that are covered after a segment are the covered bytes of its *)
(* session and the segment's, though the buffer holds older ones as well.  *)
LEMMA HeldAfter ==
  ASSUME NEW r, Sound(r), NEW s \in AnySegments, NEW f, Sound(f), Puts(r, s, f)
  PROVE  [p \in Covered(f) |-> f.buffer[p + 1]] =
           [p \in (IF Same(r, s) THEN Covered(r) ELSE {}) \cup s.begin..End(s) - 1 |->
              IF p \in s.begin..End(s) - 1 THEN s.from ELSE r.buffer[p + 1]]
<1> DEFINE b == s.begin
           e == End(s)
           n == IF e > Len(r.buffer) THEN e ELSE Len(r.buffer)
<1>1. /\ b \in Nat /\ e \in Nat /\ Len(r.buffer) \in Nat
      /\ Covered(r) \subseteq 0..Len(r.buffer) - 1
  BY ReassemblerAssumption DEF AnySegments, End, Sound, Reassemblers
<1>2. /\ f.buffer = Copied(r.buffer, s)
      /\ Covered(f) = (IF Same(r, s) THEN Covered(r) ELSE {}) \cup b..e - 1
  BY DEF Puts
<1>3. ASSUME NEW p \in Covered(f)
      PROVE  f.buffer[p + 1] = IF p \in b..e - 1 THEN s.from ELSE r.buffer[p + 1]
  <2>1. p \in 0..Len(r.buffer) - 1 \/ p \in b..e - 1
    BY <1>1, <1>2, <1>3
  <2>2. p \in Int /\ p + 1 \in 1..n
    BY <1>1, <2>1
  <2>3. p + 1 \in b + 1..e <=> p \in b..e - 1
    BY <1>1, <2>2
  <2>4. p \notin b..e - 1 => p + 1 <= Len(r.buffer)
    BY <1>1, <2>1
  <2>5. f.buffer[p + 1] = IF p + 1 \in b + 1..e THEN s.from
                          ELSE IF p + 1 <= Len(r.buffer) THEN r.buffer[p + 1]
                          ELSE 0
    BY <1>2, <2>2 DEF Copied
  <2>6. QED
    BY <2>3, <2>4, <2>5
<1>4. QED
  BY <1>2, <1>3

(* The reassembler implements the abstract one: every segment puts its     *)
(* bytes with those of its session, gives up or changes nothing, and a     *)
(* payload comes out exactly when all its bytes have arrived since the     *)
(* last one (SomeipTpReassembler::Feed), for every size of payload and     *)
(* segment and any sequence of segments.                                   *)
THEOREM ReassemblerImplementsReassembly == TpSpec => ImplementsReassembly
<1>1. TpInit => Abstract!Init
  <2>1. Covered(Fresh) = {}
    BY DEF Covered, Fresh
  <2>2. QED
    BY <2>1 DEF TpInit, Fresh, Abstract!Init, Abstract!Nothing
<1>2. TpInv /\ [TpNext]_tp => [Abstract!Next]_(Abstract!assembly)
  <2> SUFFICES ASSUME Sound(tp), [TpNext]_tp
               PROVE  [Abstract!Next]_(Abstract!assembly)
    BY SoundIsInv
  <2>1. ASSUME UNCHANGED tp
        PROVE  UNCHANGED Abstract!assembly
    BY <2>1 DEF Abstract!assembly, Covered
  <2>2. ASSUME NEW q \in Reassemblers, tp' = Reset(q)
        PROVE  Abstract!GiveUp
    <3>1. /\ tp'.session = 0 /\ tp'.expected = 0 /\ tp'.complete = FALSE
          /\ Covered(tp') = {}
      BY <2>2, ResetIs
    <3>2. Covered(tp)' = {}
      BY <3>1 DEF Covered
    <3>3. QED
      BY <3>1, <3>2 DEF Abstract!GiveUp, Abstract!Nothing
  <2>3. ASSUME NEW s \in Segments, tp' = Feed(tp, s)
        PROVE  Abstract!Next \/ UNCHANGED Abstract!assembly
    <3>1. /\ Sound(tp')
          /\ \/ tp' = tp
             \/ \E q \in Reassemblers : tp' = Reset(q)
             \/ /\ s.len # 0 /\ End(s) \in 1..MaxPayload /\ s.begin < End(s)
                /\ Puts(tp, s, tp')
      BY <2>3, FeedIs, SegmentsAreAny
    <3>2. CASE /\ End(s) \in 1..MaxPayload /\ s.begin < End(s)
               /\ Puts(tp, s, tp')
      <4> DEFINE segment == s.begin..End(s) - 1
                 place   == (IF Same(tp, s) THEN Covered(tp) ELSE {}) \cup segment
                 bytes   == [p \in place |-> IF p \in segment THEN s.from
                                             ELSE tp.buffer[p + 1]]
      <4>1. [p \in Covered(tp') |-> tp'.buffer[p + 1]] = bytes
        BY <3>1, <3>2, HeldAfter, SegmentsAreAny
      <4>2. Covered(tp)' = Covered(tp')
        BY DEF Covered
      <4>3. [p \in Covered(tp) |-> tp.buffer[p + 1]]' = bytes
        BY <4>1, <4>2
      <4>4. /\ tp'.session = s.session
            /\ tp'.expected = IF ~s.more THEN End(s)
                              ELSE IF Same(tp, s) THEN tp.expected ELSE 0
            /\ Same(tp, s) /\ tp.expected # 0 => tp'.expected = tp.expected
            /\ Covered(tp') = place
            /\ tp'.complete = (tp'.expected # 0 /\ place = 0..tp'.expected - 1)
        BY <3>2 DEF Puts
      <4>5. tp'.expected # 0 => \A p \in place : p < tp'.expected
        <5>1. tp'.expected # 0 => place \subseteq 0..tp'.expected - 1
          BY <3>1, <4>4 DEF Sound
        <5>2. tp'.expected \in Nat
          BY <3>1, ReassemblerAssumption DEF Sound, Reassemblers
        <5>3. QED
          BY <5>1, <5>2
      <4>6. Abstract!Put(s.session, s.begin, End(s), s.from, ~s.more)
        <5> DEFINE held == [p \in Covered(tp) |-> tp.buffer[p + 1]]
                   same == tp.session = s.session /\ ~tp.complete
        <5>1. bytes = [p \in (IF same THEN DOMAIN held ELSE {}) \cup segment |->
                         IF p \in segment THEN s.from ELSE held[p]]
          BY DEF Same
        <5>2. DOMAIN bytes = place
          OBVIOUS
        <5> HIDE DEF bytes
        <5>3. QED
          BY <4>3, <4>4, <4>5, <5>1, <5>2 DEF Abstract!Put, Same
      <4>7. /\ s.session \in Sessions /\ s.from \in Origins
            /\ s.begin \in 0..MaxPayload /\ End(s) \in 0..MaxPayload
        <5>1. s.session \in Sessions /\ s.from \in Origins /\ s.begin \in Nat
          BY ReassemblerAssumption DEF Segments
        <5>2. QED
          BY <3>2, <5>1, ReassemblerAssumption
      <4>8. (~s.more) \in BOOLEAN
        OBVIOUS
      <4> DEFINE final == ~s.more
      <4> HIDE DEF final
      <4>9. final \in BOOLEAN /\ Abstract!Put(s.session, s.begin, End(s), s.from, final)
        BY <4>6, <4>8 DEF final
      <4>10. QED
        BY <3>2, <4>7, <4>9 DEF Abstract!Next
    <3>3. QED
      BY <2>1, <2>2, <3>1, <3>2 DEF Abstract!Next
  <2>4. CASE tp' = Reset(tp)
    BY <2>2, <2>4 DEF Sound, Abstract!Next
  <2>5. QED
    BY <2>1, <2>3, <2>4 DEF TpNext
<1>3. QED
  BY <1>1, <1>2, TpInvariant, PTL DEF TpSpec, ImplementsReassembly, Abstract!Spec

-----------------------------------------------------------------------------
(* The stream: types *)

(* What is known of the network the receiver was put before.               *)
LEMMA NetIs ==
  ASSUME net \in Networks
  PROVE  /\ net.maxSession \in Nat \ {0} /\ 1..net.maxSession \subseteq Sessions
         /\ net.window \in 1..net.maxSession - 1 /\ net.reorders \in BOOLEAN
         /\ net.sizes \subseteq 1..MaxPayload
         /\ net.firstSlots \subseteq Nat /\ net.maxSkip \in Nat
         /\ net.maxBoot \in Nat \ {0} /\ net.maxArrival \in Nat
         /\ net.validate \subseteq BOOLEAN /\ net.strict \subseteq BOOLEAN
         /\ net.intact \subseteq BOOLEAN
BY StreamAssumption

(* The element of a list is one of its set.                                *)
LEMMA ElementIs ==
  ASSUME NEW R, NEW q \in Seq(R), NEW i \in DOMAIN q
  PROVE  q[i] \in R /\ i \in 1..Len(q)
OBVIOUS

(* What a list with one more element holds.                                *)
LEMMA AppendIs ==
  ASSUME NEW R, NEW q \in Seq(R), NEW e
  PROVE  /\ Len(Append(q, e)) = Len(q) + 1
         /\ DOMAIN Append(q, e) = 1..Len(q) + 1
         /\ \A i \in DOMAIN q : /\ i \in DOMAIN Append(q, e)
                              /\ Append(q, e)[i] = q[i]
         /\ Append(q, e)[Len(q) + 1] = e
OBVIOUS

(* A message the sensor has sent.                                          *)
LEMMA SentIs ==
  ASSUME StreamInv, NEW m \in DOMAIN sent
  PROVE  /\ m \in 1..Len(sent) /\ m \in Origins
         /\ sent[m].session \in 1..net.maxSession /\ sent[m].session \in Sessions
         /\ sent[m].session # 0
         /\ sent[m].size \in 1..MaxPayload /\ sent[m].size \in net.sizes
         /\ sent[m].intact \in BOOLEAN
         /\ sent[m].slot \in Nat /\ sent[m].counter \in 0..CounterMod - 1
<1>1. /\ net \in Networks /\ Len(sent) <= MaxMessage
      /\ sent \in Seq([session : 1..net.maxSession, size : net.sizes,
                       intact : net.intact, slot : Nat,
                       counter : 0..CounterMod - 1])
  BY DEF StreamInv, TypeOK, HistoryInv
<1>2. m \in 1..Len(sent) /\ m \in 1..MaxMessage
  BY <1>1, StreamAssumption
<1>3. sent[m] \in [session : 1..net.maxSession, size : net.sizes,
                   intact : net.intact, slot : Nat, counter : 0..CounterMod - 1]
  BY <1>1, ElementIs
<1>4. /\ sent[m].session \in 1..net.maxSession /\ sent[m].size \in net.sizes
      /\ sent[m].intact \in net.intact
      /\ sent[m].slot \in Nat /\ sent[m].counter \in 0..CounterMod - 1
  BY <1>3
<1>5. /\ net.maxSession \in Nat \ {0} /\ 1..net.maxSession \subseteq Sessions
      /\ net.sizes \subseteq 1..MaxPayload /\ net.intact \subseteq BOOLEAN
  BY <1>1, NetIs
<1>6. sent[m].session # 0
  BY <1>4, <1>5
<1>7. m \in Origins
  BY <1>2, StreamAssumption
<1>8. QED
  BY <1>2, <1>4, <1>5, <1>6, <1>7, Zenon

(* A segment of a message is one Feed takes for what it is.                *)
LEMMA SegmentIs ==
  ASSUME StreamInv, NEW m \in DOMAIN sent, NEW i \in Datagrams(m)
  PROVE  LET s == Segment(m, i)
         IN  /\ s \in AnySegments /\ s.session = sent[m].session /\ s.from = m
             /\ s.begin = (i - 1) * MaxSegment /\ s.begin \in Nat
             /\ s.len # 0 /\ ~Malformed(s)
             /\ End(s) \in 1..sent[m].size
             /\ s.begin < End(s)
             /\ ~s.more => End(s) = sent[m].size
             /\ s.more => End(s) = s.begin + MaxSegment /\ End(s) < sent[m].size
<1> DEFINE s == Segment(m, i)
           begin == (i - 1) * MaxSegment
           size == sent[m].size
<1>1. /\ size \in 1..MaxPayload /\ MaxPayload \in Nat /\ MaxSegment \in Nat \ {0}
      /\ m \in Origins /\ sent[m].session \in Sessions
  BY SentIs, ReassemblerAssumption
<1>2. i \in 1..size /\ begin < size
  BY DEF Datagrams
<1>3. begin \in Nat
  <2>1. i - 1 \in Nat
    BY <1>1, <1>2
  <2>2. QED
    BY <1>1, <2>1
<1>4. /\ s.session = sent[m].session /\ s.from = m /\ s.begin = begin
      /\ s.more = (begin + MaxSegment < size)
      /\ s.len = IF begin + MaxSegment < size THEN MaxSegment ELSE size - begin
  BY DEF Segment
<1> HIDE DEF begin
<1>5. s \in AnySegments
  <2>1. s.len \in Nat /\ s.more \in BOOLEAN
    BY <1>1, <1>2, <1>3, <1>4
  <2>2. s = [session |-> s.session, begin |-> s.begin, more |-> s.more,
             from |-> s.from, len |-> s.len]
    BY DEF Segment
  <2> HIDE DEF s
  <2>3. QED
    BY <1>1, <1>3, <1>4, <2>1, <2>2 DEF AnySegments
<1> HIDE DEF s, size
<1>6. /\ s.len # 0 /\ s.len \in Nat /\ s.len <= MaxSegment
      /\ s.more => s.len = MaxSegment /\ begin + s.len < size
      /\ ~s.more => begin + s.len = size
      /\ begin + s.len \in 1..size
  <2>1. CASE begin + MaxSegment < size
    <3>1. s.more /\ s.len = MaxSegment
      BY <1>4, <2>1
    <3>2. QED
      BY <1>1, <1>3, <2>1, <3>1
  <2>2. CASE ~(begin + MaxSegment < size)
    <3>1. ~s.more /\ s.len = size - begin
      BY <1>4, <2>2
    <3>2. QED
      BY <1>1, <1>2, <1>3, <2>2, <3>1
  <2>3. QED
    BY <2>1, <2>2
<1>7. ~Malformed(s)
  BY <1>1, <1>6, StreamAssumption DEF Malformed
<1>8. QED
  BY <1>3, <1>4, <1>5, <1>6, <1>7 DEF End, s, begin, size

(* A message that needs no segments has one datagram.                      *)
LEMMA WholeIs ==
  ASSUME StreamInv, NEW m \in DOMAIN sent
  PROVE  /\ Whole(m) \in Seq({m}) /\ Len(Whole(m)) = sent[m].size
         /\ Whole(m)[1] = m
<1>1. sent[m].size \in 1..MaxPayload
  BY SentIs
<1>2. QED
  BY <1>1, ReassemblerAssumption DEF Whole

(* Delivery and loss keep the types, whatever payload is consumed.         *)
LEMMA ConsumeTypes ==
  ASSUME StreamInv, NEW payload, Len(payload) \in Nat,
         Len(payload) > 0 => payload[1] \in DOMAIN sent,
         Consume(payload)
  PROVE  /\ firstRdi' \in BOOLEAN /\ lastCounter' \in 0..CounterMod - 1
         /\ streamGeneration' \in {Generation, "unknown"}
         /\ total' \in 0..arrivals + 1 /\ lost' \in Nat
         /\ failures' \in 0..arrivals + 1
         /\ delivered' \in Seq([msg : Origins, whole : BOOLEAN, valid : BOOLEAN])
         /\ Len(delivered') <= arrivals + 1
<1>1. /\ firstRdi \in BOOLEAN /\ lastCounter \in 0..CounterMod - 1
      /\ streamGeneration \in {Generation, "unknown"}
      /\ total \in 0..arrivals /\ lost \in Nat /\ failures \in 0..arrivals
      /\ delivered \in Seq([msg : Origins, whole : BOOLEAN, valid : BOOLEAN])
      /\ Len(delivered) <= arrivals /\ arrivals \in Nat
  <2>1. net.maxArrival \in Nat
    BY NetIs DEF StreamInv, TypeOK
  <2>2. QED
    BY <2>1 DEF StreamInv, TypeOK, HistoryInv
<1>2. CASE Len(payload) < HeaderSize
  BY <1>1, <1>2 DEF Consume, loss
<1>3. CASE ~(Len(payload) < HeaderSize)
  <2> DEFINE m == payload[1]
             r == [msg |-> m, whole |-> payload = Whole(m),
                   valid |-> config.validate /\ E2eOk(payload)]
  <2>1. m \in DOMAIN sent
    BY <1>3, StreamAssumption
  <2>2. m \in Origins /\ sent[m].counter \in 0..CounterMod - 1
    BY <2>1, SentIs
  <2>3. r \in [msg : Origins, whole : BOOLEAN, valid : BOOLEAN]
    BY <2>2
  <2>4. /\ streamGeneration' \in {Generation, "unknown"}
        /\ failures' \in 0..arrivals + 1
    BY <1>1, <1>3 DEF Consume
  <2>5. CASE config.strict /\ ~E2eOk(payload)
    BY <1>1, <1>3, <2>4, <2>5 DEF Consume, loss
  <2>6. CASE ~(config.strict /\ ~E2eOk(payload))
    <3>1. delivered' = Append(delivered, r)
      BY <1>3, <2>6 DEF Consume
    <3>2. /\ delivered' \in Seq([msg : Origins, whole : BOOLEAN, valid : BOOLEAN])
          /\ Len(delivered') <= arrivals + 1
      BY <1>1, <2>3, <3>1
    <3>3. CASE ~TracksLoss(payload)
      BY <1>1, <1>3, <2>4, <2>6, <3>2, <3>3 DEF Consume, loss
    <3>4. CASE TracksLoss(payload)
      <4>1. TrackRdiLoss(sent[m].counter)
        BY <1>3, <2>6, <3>4 DEF Consume
      <4>2. Missed(sent[m].counter) \in Nat
        <5>1. (sent[m].counter - lastCounter) % CounterMod \in 0..CounterMod - 1
          <6>1. sent[m].counter - lastCounter \in Int
            BY <1>1, <2>2
          <6>2. QED
            BY <6>1, StreamAssumption
        <5>2. QED
          BY <5>1 DEF Missed
      <4>3. /\ total' = total + 1 /\ firstRdi' = FALSE
            /\ lastCounter' = sent[m].counter
            /\ lost' = IF firstRdi THEN lost ELSE lost + Missed(sent[m].counter)
        BY <4>1 DEF TrackRdiLoss
      <4>4. lost' \in Nat
        BY <1>1, <4>2, <4>3
      <4>5. total' \in 0..arrivals + 1
        BY <1>1, <4>3
      <4>6. QED
        BY <2>2, <2>4, <3>2, <4>3, <4>4, <4>5
    <3>5. QED
      BY <3>3, <3>4
  <2>7. QED
    BY <2>5, <2>6
<1>4. QED
  BY <1>2, <1>3

(* Where the bytes held come from, after a segment of one of these.        *)
LEMMA FedBytes ==
  ASSUME NEW r, Sound(r), NEW s \in AnySegments, s.len # 0, NEW D, s.from \in D,
         Same(r, s) => \A p \in Covered(r) : r.buffer[p + 1] \in D
  PROVE  \A p \in Covered(Feed(r, s)) : Feed(r, s).buffer[p + 1] \in D
<1> DEFINE f == Feed(r, s)
<1>1. /\ Sound(f)
      /\ \/ \E q \in Reassemblers : f = Reset(q)
         \/ Puts(r, s, f)
  BY FeedIs
<1> HIDE DEF f
<1>2. ASSUME NEW q \in Reassemblers, f = Reset(q)
      PROVE  Covered(f) = {}
  BY <1>2, ResetIs
<1>3. CASE Puts(r, s, f)
  <2> DEFINE held  == [p \in Covered(f) |-> f.buffer[p + 1]]
             place == (IF Same(r, s) THEN Covered(r) ELSE {}) \cup s.begin..End(s) - 1
             bytes == [p \in place |-> IF p \in s.begin..End(s) - 1
                                       THEN s.from ELSE r.buffer[p + 1]]
  <2>1. held = bytes
    BY <1>1, <1>3, HeldAfter
  <2>2. \A p \in place : bytes[p] \in D
    OBVIOUS
  <2>3. Covered(f) = place
    BY <1>3 DEF Puts
  <2>4. \A p \in Covered(f) : held[p] = f.buffer[p + 1]
    OBVIOUS
  <2> HIDE DEF held, bytes, place
  <2>5. QED
    BY <2>1, <2>2, <2>3, <2>4 DEF f
<1>4. QED
  BY <1>1, <1>2, <1>3 DEF f

(* The payload of a completed message is the bytes that are covered.       *)
LEMMA PayloadIs ==
  ASSUME NEW r, NEW s, NEW f, Sound(f), Puts(r, s, f), f.complete
  PROVE  LET payload == SubSeq(f.buffer, 1, f.total)
         IN  /\ f.expected \in 1..MaxPayload
             /\ payload \in Seq(Origins \cup {0}) /\ Len(payload) = f.expected
             /\ \A i \in 1..f.expected : /\ payload[i] = f.buffer[i]
                                         /\ i - 1 \in Covered(f)
<1>1. /\ f.buffer \in Seq(Origins \cup {0}) /\ f.total <= Len(f.buffer)
      /\ f.expected \in 0..MaxPayload /\ f.expected # 0 /\ f.total = f.expected
      /\ Covered(f) = 0..f.expected - 1
  BY DEF Sound, Reassemblers, Puts
<1>2. f.expected \in 1..MaxPayload /\ f.expected \in Nat
  BY <1>1, ReassemblerAssumption
<1>3. QED
  BY <1>1, <1>2

(* The state of the stream keeps its types, the histories theirs, and      *)
(* every byte held is one that was sent: whatever datagram arrives.        *)
LEMMA ArriveKeepsStreamInv ==
  ASSUME StreamInv, NEW m \in DOMAIN sent, NEW i \in Datagrams(m), Arrive(m, i)
  PROVE  StreamInv'
<1> DEFINE s   == Segment(m, i)
           fed == Feed(tp, s)
<1>1. Sound(tp)
  BY SoundIsInv DEF StreamInv
<1>2. s \in AnySegments /\ s.from = m /\ s.len # 0
  BY SegmentIs
<1>3. /\ Sound(fed)
      /\ \/ \E q \in Reassemblers : fed = Reset(q)
         \/ Puts(tp, s, fed)
  BY <1>1, <1>2, FeedIs
<1>4. \A p \in Covered(fed) : fed.buffer[p + 1] \in DOMAIN sent
  BY <1>1, <1>2, FedBytes DEF StreamInv, HeldInv
<1>5. /\ tp \in Reassemblers /\ fed \in Reassemblers
      /\ net \in Networks /\ net.maxArrival \in Nat /\ arrivals \in Nat
  BY <1>1, <1>3, NetIs DEF Sound, StreamInv, TypeOK
<1>6. /\ arrivals < net.maxArrival /\ arrivals' = arrivals + 1
      /\ last' = <<m, i>> /\ UNCHANGED <<net, config, sensor>>
      /\ m > Len(sent) - net.window
      /\ ProcessRdiDatagram(m, i)
  BY DEF Arrive
<1> HIDE DEF fed, s
<1>7. /\ Sound(tp')
      /\ \A p \in Covered(tp') : tp'.buffer[p + 1] \in DOMAIN sent
      /\ \/ UNCHANGED <<loss, streamGeneration, failures, delivered>>
         \/ \E payload : /\ Len(payload) \in Nat
                         /\ Len(payload) > 0 => payload[1] \in DOMAIN sent
                         /\ Consume(payload)
  <2>1. CASE /\ ~Segmented(m)
             /\ tp' = IF tp.inProgress THEN Reset(tp) ELSE tp
             /\ Consume(Whole(m))
    <3>1. /\ Sound(tp')
          /\ \A p \in Covered(tp') : tp'.buffer[p + 1] \in DOMAIN sent
      BY <1>1, <1>5, <2>1, ResetIs DEF StreamInv, HeldInv
    <3>2. Len(Whole(m)) \in Nat /\ Whole(m)[1] \in DOMAIN sent
      <4>1. sent[m].size \in Nat
        BY SentIs, ReassemblerAssumption
      <4>2. QED
        BY <4>1, WholeIs
    <3>3. QED
      BY <2>1, <3>1, <3>2
  <2>2. CASE /\ fed.complete /\ tp' = Reset(fed)
             /\ Consume(SubSeq(fed.buffer, 1, fed.total))
    <3>1. Sound(tp') /\ Covered(tp') = {}
      BY <1>5, <2>2, ResetIs
    <3>2. Puts(tp, s, fed)
      BY <1>3, <2>2, ResetIs
    <3> DEFINE payload == SubSeq(fed.buffer, 1, fed.total)
    <3>3. /\ fed.expected \in 1..MaxPayload /\ Len(payload) = fed.expected
          /\ \A k \in 1..fed.expected : /\ payload[k] = fed.buffer[k]
                                        /\ k - 1 \in Covered(fed)
      BY <1>3, <2>2, <3>2, PayloadIs
    <3> HIDE DEF payload
    <3>4. Len(payload) \in Nat /\ payload[1] \in DOMAIN sent
      <4>1. 1 \in 1..fed.expected /\ fed.expected \in Nat
        BY <3>3, ReassemblerAssumption
      <4>2. payload[1] = fed.buffer[0 + 1] /\ 0 \in Covered(fed)
        BY <3>3, <4>1
      <4>3. QED
        BY <1>4, <3>3, <4>1, <4>2
    <3>5. Consume(payload)
      BY <2>2 DEF payload
    <3>6. QED
      BY <3>1, <3>4, <3>5
  <2>3. CASE /\ tp' = fed
             /\ UNCHANGED <<loss, streamGeneration, failures, delivered>>
    BY <1>3, <1>4, <2>3
  <2>4. QED
    BY <1>6, <2>1, <2>2, <2>3 DEF ProcessRdiDatagram, fed, s
<1>8. /\ firstRdi' \in BOOLEAN /\ lastCounter' \in 0..CounterMod - 1
      /\ streamGeneration' \in {Generation, "unknown"}
      /\ total' \in 0..arrivals + 1 /\ lost' \in Nat
      /\ failures' \in 0..arrivals + 1
      /\ delivered' \in Seq([msg : Origins, whole : BOOLEAN, valid : BOOLEAN])
      /\ Len(delivered') <= arrivals + 1
  <2>1. CASE UNCHANGED <<loss, streamGeneration, failures, delivered>>
    BY <1>5, <2>1 DEF StreamInv, TypeOK, HistoryInv, loss
  <2>2. QED
    BY <1>7, <2>1, ConsumeTypes
<1>9. TypeOK'
  <2>1. /\ net' = net /\ config' = config /\ sent' = sent /\ session' = session
        /\ slot' = slot /\ bootSlot' = bootSlot /\ boot' = boot
    BY <1>6 DEF sensor
  <2>2. tp'.expected \in 0..MaxPayload /\ tp'.session \in Sessions \cup {0}
    BY <1>7 DEF Sound, Reassemblers
  <2>3. \A k \in DOMAIN delivered' :
          delivered'[k] \in [msg : Origins, whole : BOOLEAN, valid : BOOLEAN]
    BY <1>8, ElementIs
  <2>4. arrivals' \in 0..net.maxArrival
    BY <1>5, <1>6
  <2>5. QED
    BY <1>6, <1>8, <2>1, <2>2, <2>3, <2>4 DEF StreamInv, TypeOK
<1>10. HistoryInv'
  <2>1. /\ net' = net /\ sent' = sent /\ session' = session
    BY <1>6 DEF sensor
  <2>2. /\ last' \in (0..Len(sent)) \X Nat /\ last'[1] = m
        /\ Len(sent) - m < net.maxSession
    <3>1. /\ m \in 1..Len(sent) /\ Len(sent) \in Nat /\ i \in Nat
          /\ net.maxSession \in Nat /\ net.window \in 1..net.maxSession - 1
      <4>1. m \in 1..Len(sent)
        BY SentIs
      <4>2. i \in Nat
        BY DEF Datagrams
      <4>3. net.maxSession \in Nat /\ net.window \in 1..net.maxSession - 1
        BY <1>5, NetIs
      <4>4. QED
        BY <4>1, <4>2, <4>3
    <3>2. QED
      BY <1>6, <3>1
  <2>3. QED
    BY <1>6, <1>8, <2>1, <2>2 DEF StreamInv, HistoryInv
<1>11. TpInv'
  <2>1. Sound(tp)'
    BY <1>7 DEF Sound, Covered
  <2>2. (TpInv <=> Sound(tp))'
    BY SoundIsInv, PTL
  <2>3. QED
    BY <2>1, <2>2
<1>12. HeldInv'
  BY <1>6, <1>7 DEF HeldInv, Covered, sensor
<1>13. QED
  BY <1>9, <1>10, <1>11, <1>12 DEF StreamInv

(* A message that is sent, and the sensor's counters, have their types.    *)
LEMMA SendKeepsStreamInv ==
  ASSUME StreamInv, NEW size \in net.sizes, NEW skipped \in 0..net.maxSkip,
         NEW intact \in net.intact, SendMessage(size, skipped, intact)
  PROVE  StreamInv'
<1> DEFINE Msgs == [session : 1..net.maxSession, size : net.sizes,
                    intact : net.intact, slot : Nat, counter : 0..CounterMod - 1]
           new == [session |-> session', size |-> size, intact |-> intact,
                   slot |-> slot + skipped,
                   counter |-> (slot + skipped - bootSlot) % CounterMod]
<1>1. /\ net \in Networks /\ net.maxSession \in Nat \ {0} /\ net.maxSkip \in Nat
      /\ 1..net.maxSession \subseteq Sessions
  BY NetIs DEF StreamInv, TypeOK
<1>2. /\ sent \in Seq(Msgs) /\ session \in 0..net.maxSession
      /\ slot \in Nat /\ bootSlot \in 0..slot /\ Len(sent) <= MaxMessage
      /\ last \in (0..Len(sent)) \X Nat
  BY DEF StreamInv, TypeOK, HistoryInv
<1>3. /\ Len(sent) < MaxMessage /\ NotSilent
      /\ session' = IF session = net.maxSession THEN 1 ELSE session + 1
      /\ sent' = Append(sent, new) /\ slot' = slot + skipped + 1
      /\ UNCHANGED <<bootSlot, boot, stream, network>>
  BY DEF SendMessage
<1>4. /\ session' \in 1..net.maxSession /\ session' \in Sessions
      /\ slot' \in Nat /\ bootSlot \in 0..slot'
  <2>1. session' \in 1..net.maxSession
    <3>1. \A M \in Nat \ {0} : \A n \in 0..M :
            (IF n = M THEN 1 ELSE n + 1) \in 1..M
      OBVIOUS
    <3>2. QED
      BY <1>1, <1>2, <1>3, <3>1
  <2>2. slot' \in Nat /\ bootSlot \in 0..slot'
    BY <1>1, <1>2, <1>3
  <2>3. QED
    BY <1>1, <2>1, <2>2
<1>5. new \in Msgs
  <2>1. slot + skipped - bootSlot \in Int /\ slot + skipped \in Nat
    BY <1>1, <1>2
  <2>2. (slot + skipped - bootSlot) % CounterMod \in 0..CounterMod - 1
    BY <2>1, StreamAssumption
  <2>3. QED
    BY <1>4, <2>1, <2>2
<1> HIDE DEF new, Msgs
<1>6. /\ sent' \in Seq(Msgs) /\ Len(sent') = Len(sent) + 1 /\ Len(sent) \in Nat
      /\ DOMAIN sent \subseteq DOMAIN sent'
  BY <1>2, <1>3, <1>5
<1>7. /\ net' = net /\ config' = config /\ tp' = tp /\ firstRdi' = firstRdi
      /\ lastCounter' = lastCounter /\ total' = total /\ lost' = lost
      /\ streamGeneration' = streamGeneration /\ failures' = failures
      /\ delivered' = delivered /\ arrivals' = arrivals /\ last' = last
      /\ bootSlot' = bootSlot /\ boot' = boot /\ together' = together
  BY <1>3 DEF stream, loss, network
<1>8. TypeOK'
  <2>1. Len(sent') <= MaxMessage
    BY <1>2, <1>3, <1>6, StreamAssumption
  <2>2. QED
    BY <1>4, <1>7, <2>1 DEF StreamInv, TypeOK
<1>9. HistoryInv'
  <2>1. last \in (0..Len(sent')) \X Nat
    BY <1>2, <1>6
  <2>2. last[1] # 0 => Len(sent') - last[1] < net.maxSession
    BY <1>2, <1>3, <1>6 DEF NotSilent
  <2>3. session' \in 0..net.maxSession
    BY <1>1, <1>4
  <2>4. QED
    BY <1>6, <1>7, <2>1, <2>2, <2>3 DEF StreamInv, HistoryInv, Msgs
<1>10. TpInv'
  BY <1>7 DEF StreamInv, TpInv, TpTypeOK, RangesNormal, PayloadInBuffer, Covered
<1>11. HeldInv'
  BY <1>6, <1>7 DEF StreamInv, HeldInv, Covered
<1>12. QED
  BY <1>8, <1>9, <1>10, <1>11 DEF StreamInv

(* The types, the histories and the reassembler's invariant hold at the    *)
(* start.                                                                  *)
LEMMA InitStreamInv == Init => StreamInv
<1> SUFFICES ASSUME Init
             PROVE  StreamInv
  OBVIOUS
<1>1. /\ net.maxSession \in Nat \ {0} /\ net.maxBoot \in Nat \ {0}
      /\ net.maxArrival \in Nat /\ net.firstSlots \subseteq Nat
  BY NetIs DEF Init
<1>2. /\ Sound(tp) /\ tp = Fresh
  BY FreshSound DEF Init
<1>3. TypeOK
  <2>1. tp.expected \in 0..MaxPayload /\ tp.session \in Sessions \cup {0}
    BY <1>2 DEF Sound, Reassemblers
  <2>2. 0 \in 0..CounterMod - 1 /\ Len(<<>>) = 0 /\ MaxMessage \in Nat
    BY StreamAssumption
  <2>3. /\ 0 \in 0..arrivals /\ slot \in Nat /\ 0 \in 0..slot
        /\ 1 \in 1..net.maxBoot /\ 0 \in 0..net.maxArrival
    BY <1>1 DEF Init
  <2>4. DOMAIN delivered = {} /\ Len(delivered) = 0 /\ Len(sent) = 0
    BY DEF Init
  <2>5. QED
    BY <2>1, <2>2, <2>3, <2>4 DEF Init, TypeOK
<1>4. HistoryInv
  <2>1. \A R : <<>> \in Seq(R)
    OBVIOUS
  <2>2. <<0, 0>> \in (0..Len(sent)) \X Nat
    BY DEF Init
  <2>3. QED
    BY <1>1, <2>1, <2>2 DEF Init, HistoryInv
<1>5. HeldInv
  <2>1. Covered(tp) = {}
    BY <1>2 DEF Covered, Fresh
  <2>2. QED
    BY <2>1 DEF HeldInv
<1>6. QED
  BY <1>2, <1>3, <1>4, <1>5, SoundIsInv DEF StreamInv

(* Every step keeps them.                                                  *)
LEMMA NextStreamInv == StreamInv /\ [Next]_vars => StreamInv'
<1> SUFFICES ASSUME StreamInv, [Next]_vars
             PROVE  StreamInv'
  OBVIOUS
<1>1. Sound(tp) /\ tp \in Reassemblers
  BY SoundIsInv DEF StreamInv, Sound
<1>2. (TpInv <=> Sound(tp))'
  BY SoundIsInv, PTL
<1>3. ASSUME NEW size \in net.sizes, NEW skipped \in 0..net.maxSkip,
             NEW intact \in net.intact, SendMessage(size, skipped, intact)
      PROVE  StreamInv'
  BY <1>3, SendKeepsStreamInv
<1>4. ASSUME NEW m \in DOMAIN sent, NEW i \in Datagrams(m), Arrive(m, i)
      PROVE  StreamInv'
  BY <1>4, ArriveKeepsStreamInv
<1>5. CASE InvalidTpHeader
  <2>1. Sound(tp') /\ Covered(tp') = {}
    BY <1>1, <1>5, ResetIs DEF InvalidTpHeader
  <2>2. /\ net' = net /\ config' = config /\ firstRdi' = firstRdi
        /\ lastCounter' = lastCounter /\ total' = total /\ lost' = lost
        /\ streamGeneration' = streamGeneration /\ failures' = failures
        /\ delivered' = delivered /\ last' = last /\ sent' = sent
        /\ session' = session /\ slot' = slot /\ bootSlot' = bootSlot
        /\ boot' = boot /\ arrivals' = arrivals + 1 /\ arrivals < net.maxArrival
    BY <1>5 DEF InvalidTpHeader, loss, sensor
  <2>3. TypeOK'
    <3>1. tp'.expected \in 0..MaxPayload /\ tp'.session \in Sessions \cup {0}
      BY <2>1 DEF Sound, Reassemblers
    <3>2. /\ arrivals \in Nat /\ net.maxArrival \in Nat /\ total \in 0..arrivals
          /\ failures \in 0..arrivals /\ Len(delivered) <= arrivals
          /\ Len(delivered) \in Nat
      BY NetIs DEF StreamInv, TypeOK, HistoryInv
    <3>3. /\ arrivals' \in 0..net.maxArrival /\ total \in 0..arrivals'
          /\ failures \in 0..arrivals' /\ Len(delivered) <= arrivals'
      BY <2>2, <3>2
    <3>4. QED
      BY <2>2, <3>1, <3>3 DEF StreamInv, TypeOK
  <2>4. HistoryInv' /\ HeldInv'
    BY <2>1, <2>2 DEF StreamInv, HistoryInv, HeldInv, Covered
  <2>5. Sound(tp)'
    BY <2>1 DEF Sound, Covered
  <2>6. QED
    BY <1>2, <2>3, <2>4, <2>5 DEF StreamInv
<1>6. CASE StopAndInit
  BY <1>6 DEF StopAndInit, sensor, network, loss, StreamInv, TypeOK, HistoryInv,
    HeldInv, TpInv, TpTypeOK, RangesNormal, PayloadInBuffer, Covered
<1>7. CASE Restart
  <2>1. slot \in Nat /\ slot \in 0..slot /\ boot + 1 \in 1..net.maxBoot
    BY <1>7, NetIs DEF Restart, StreamInv, TypeOK
  <2>2. 0 \in 0..net.maxSession
    BY NetIs DEF StreamInv, TypeOK
  <2>3. /\ net' = net /\ config' = config /\ tp' = tp /\ firstRdi' = firstRdi
        /\ lastCounter' = lastCounter /\ total' = total /\ lost' = lost
        /\ streamGeneration' = streamGeneration /\ failures' = failures
        /\ delivered' = delivered /\ arrivals' = arrivals /\ last' = last
        /\ slot' = slot /\ sent' = sent
        /\ bootSlot' = slot /\ boot' = boot + 1 /\ session' = 0
    BY <1>7 DEF Restart, stream, loss, network
  <2>4. TypeOK'
    BY <2>1, <2>3 DEF StreamInv, TypeOK
  <2>5. HistoryInv' /\ HeldInv'
    BY <2>2, <2>3 DEF StreamInv, HistoryInv, HeldInv, Covered
  <2>6. TpInv'
    BY <2>3 DEF StreamInv, TpInv, TpTypeOK, RangesNormal, PayloadInBuffer, Covered
  <2>7. QED
    BY <2>4, <2>5, <2>6 DEF StreamInv
<1>8. CASE UNCHANGED vars
  BY <1>8 DEF vars, stream, sensor, network, loss, StreamInv, TypeOK, HistoryInv,
    HeldInv, TpInv, TpTypeOK, RangesNormal, PayloadInBuffer, Covered
<1>9. QED
  BY <1>3, <1>4, <1>5, <1>6, <1>7, <1>8 DEF Next

(* The types, the histories and the reassembler's invariant hold in every  *)
(* state, whatever the network and the sensor do.                          *)
LEMMA StreamInvariant == Spec => []StreamInv
BY InitStreamInv, NextStreamInv, PTL DEF Spec

(* The types hold in every state: the loss is never negative and no total  *)
(* passes the datagrams received (TrackRdiLoss), whatever arrives.         *)
THEOREM StreamTypeCorrect == Spec => []TypeOK
<1>1. StreamInv => TypeOK
  BY DEF StreamInv
<1>2. QED
  BY <1>1, StreamInvariant, PTL

-----------------------------------------------------------------------------
(* One message at a time *)

(* What FeedFits asks, in terms of what is kept of the session: the        *)
(* segment of a message is put when nothing held says another size.        *)
LEMMA FeedPuts ==
  ASSUME NEW r, Sound(r), NEW s \in AnySegments, s.len # 0, ~Malformed(s),
         NEW size \in 1..MaxPayload, End(s) \in 1..size, ~s.more => End(s) = size,
         Same(r, s) => /\ r.expected \in {0, size}
                       /\ \A p \in Covered(r) : p < size
  PROVE  Sound(Feed(r, s)) /\ Puts(r, s, Feed(r, s))
<1> DEFINE f == Feed(r, s)
           j == Joined(r, s)
           w == Written(j, s)
           n == Len(w.ranges)
<1>1. /\ Sound(j) /\ j.session = s.session /\ j.complete = FALSE
      /\ j.expected = IF Same(r, s) THEN r.expected ELSE 0
      /\ Covered(j) = IF Same(r, s) THEN Covered(r) ELSE {}
  BY JoinedIs
<1>2. /\ s.begin \in Nat /\ s.len \in Nat /\ MaxPayload \in Nat
      /\ End(s) = s.begin + s.len /\ size \in Nat /\ size # 0
  BY ReassemblerAssumption DEF AnySegments, End
<1>3. ~TooLong(j, s)
  <2>1. s.begin <= MaxPayload /\ s.len <= MaxPayload - s.begin
    BY <1>2
  <2>2. j.expected # 0 => End(s) <= j.expected
    BY <1>1, <1>2
  <2>3. QED
    BY <1>1, <1>2, <2>1, <2>2 DEF TooLong
<1>4. /\ Sound(w) /\ w.ranges # <<>> /\ w.expected = j.expected
      /\ Covered(w) = Covered(j) \cup s.begin..End(s) - 1
  BY <1>1, <1>3, WrittenIs
<1> HIDE DEF w, j
<1>5. ~Conflicting(w, s)
  <2>1. SUFFICES ASSUME ~s.more
                 PROVE  ~(w.expected # 0 /\ w.expected # End(s)) /\ ~(Last(w.ranges)[2] > End(s))
    BY DEF Conflicting
  <2>2. w.expected # 0 => w.expected = End(s)
    BY <1>1, <1>4, <2>1
  <2>3. w.ranges \in Seq(Ranges) /\ Normal(w.ranges) /\ n \in 1..n
        /\ Last(w.ranges) = w.ranges[n]
    BY <1>4 DEF Sound, Reassemblers, Last
  <2>4. /\ w.ranges[n][1] \in Int /\ w.ranges[n][2] \in Int
        /\ w.ranges[n][1] < w.ranges[n][2]
    <3>1. w.ranges[n] \in Ranges /\ w.ranges[n][1] < w.ranges[n][2]
      BY <2>3 DEF Normal, Spans
    <3>2. QED
      BY <3>1, RangeEnds
  <2>5. w.ranges[n][2] - 1 \in Covered(w)
    <3>1. w.ranges[n][2] - 1 \in Bytes(w.ranges[n])
      BY <2>4 DEF Bytes
    <3>2. Covered(w) = BytesTo(w.ranges, n)
      BY <2>3, CoveredIs
    <3>3. QED
      BY <2>3, <3>1, <3>2 DEF BytesTo
  <2>6. \A p \in Covered(w) : p < size
    BY <1>1, <1>2, <1>4
  <2>7. w.ranges[n][2] - 1 < size
    BY <2>5, <2>6
  <2>8. QED
    BY <1>2, <2>1, <2>2, <2>3, <2>4, <2>7
<1>6. QED
  BY <1>3, <1>5, FeedFits DEF w, j

(* A segmented message and a restart of the sensor do not come together: a *)
(* restart begins the session ids anew, and only a CRC tells the halves of *)
(* two messages of one session apart.                                      *)
RestartsBetween ==
  \A n \in Networks : n.maxBoot = 1 \/ n.sizes \subseteq 1..MaxSegment

(* Two messages of one session that arrive after each other are the same.  *)
LEMMA SameMessage ==
  ASSUME StreamInv, RoundInv, net.maxBoot = 1,
         NEW m \in DOMAIN sent, NEW k \in DOMAIN sent,
         sent[m].session = sent[k].session,
         Len(sent) - m < net.maxSession, Len(sent) - k < net.maxSession
  PROVE  m = k
<1>1. /\ m \in 1..Len(sent) /\ k \in 1..Len(sent) /\ Len(sent) \in Nat
      /\ net.maxSession \in Nat \ {0} /\ sent[m].session \in 1..net.maxSession
      /\ sent[k].session \in 1..net.maxSession
  <2>1. net.maxSession \in Nat \ {0}
    BY NetIs DEF StreamInv, TypeOK
  <2>2. Len(sent) \in Nat
    BY DEF StreamInv, HistoryInv
  <2>3. QED
    BY <2>1, <2>2, SentIs
<1>2. ASSUME NEW a \in DOMAIN sent, NEW b \in DOMAIN sent, a < b,
             a \in 1..Len(sent), b \in 1..Len(sent),
             Len(sent) - a < net.maxSession,
             sent[a].session = sent[b].session, sent[a].session \in 1..net.maxSession
      PROVE  FALSE
  <2>1. b - a < net.maxSession /\ b - a # 0
    BY <1>1, <1>2
  <2>2. sent[b].session - sent[a].session \in {b - a, b - a - net.maxSession}
    BY <1>2, <2>1 DEF RoundInv
  <2>3. sent[b].session - sent[a].session = 0
    BY <1>2
  <2>4. a \in Int /\ b \in Int /\ net.maxSession \in Int
    BY <1>1, <1>2
  <2>5. 0 \in {b - a, b - a - net.maxSession}
    BY <2>2, <2>3
  <2>6. QED
    BY <2>1, <2>4, <2>5
<1>3. QED
  BY <1>1, <1>2

(* A message that is consumed in one piece is delivered in one piece.      *)
LEMMA ConsumeWhole ==
  ASSUME StreamInv, NEW m \in DOMAIN sent, Consume(Whole(m))
  PROVE  /\ DeliveredIsOneMessage => DeliveredIsOneMessage'
         /\ \A k \in DOMAIN delivered :
              k \in DOMAIN delivered' /\ delivered'[k] = delivered[k]
         /\ Due(m) => \E k \in DOMAIN delivered' : delivered'[k].msg = m
<1> DEFINE payload == Whole(m)
           r == [msg |-> m, whole |-> TRUE,
                 valid |-> config.validate /\ E2eOk(payload)]
<1>1. /\ Len(payload) = sent[m].size /\ payload[1] = m
      /\ delivered \in Seq([msg : Origins, whole : BOOLEAN, valid : BOOLEAN])
  BY WholeIs DEF StreamInv, HistoryInv
<1>2. CASE UNCHANGED delivered /\ ~Due(m)
  BY <1>2 DEF DeliveredIsOneMessage
<1>3. CASE delivered' = Append(delivered, r)
  <2>1. /\ DOMAIN delivered' = 1..Len(delivered) + 1 /\ Len(delivered) \in Nat
        /\ DOMAIN delivered = 1..Len(delivered)
        /\ \A k \in 1..Len(delivered) : delivered'[k] = delivered[k]
        /\ delivered'[Len(delivered) + 1] = r
    BY <1>1, <1>3
  <2> HIDE DEF r
  <2>2. r.whole = TRUE /\ r.msg = m
    BY DEF r
  <2>3. \A k \in DOMAIN delivered' : k \in DOMAIN delivered \/ k = Len(delivered) + 1
    BY <2>1
  <2>4. DeliveredIsOneMessage => DeliveredIsOneMessage'
    BY <2>1, <2>2, <2>3 DEF DeliveredIsOneMessage
  <2>5. Len(delivered) + 1 \in DOMAIN delivered'
    BY <2>1
  <2>6. \A k \in DOMAIN delivered :
          k \in DOMAIN delivered' /\ delivered'[k] = delivered[k]
    BY <2>1
  <2>7. QED
    BY <2>1, <2>2, <2>4, <2>5, <2>6
<1>4. CASE sent[m].size < HeaderSize
  <2>1. UNCHANGED delivered
    BY <1>1, <1>4 DEF Consume
  <2>2. ~Due(m)
    BY <1>4, SentIs, StreamAssumption, ReassemblerAssumption DEF Due
  <2>3. QED
    BY <1>2, <2>1, <2>2
<1>5. CASE ~(sent[m].size < HeaderSize)
  <2>1. CASE config.strict /\ ~E2eOk(payload)
    <3>1. UNCHANGED delivered
      BY <1>1, <1>5, <2>1 DEF Consume
    <3>2. ~Due(m)
      BY <1>1, <2>1 DEF E2eOk, Due
    <3>3. QED
      BY <1>2, <3>1, <3>2
  <2>2. CASE ~(config.strict /\ ~E2eOk(payload))
    <3>1. delivered' = Append(delivered, r)
      BY <1>1, <1>5, <2>2 DEF Consume
    <3>2. QED
      BY <1>3, <3>1
  <2>3. QED
    BY <2>1, <2>2
<1>6. QED
  BY <1>4, <1>5

(* What a datagram does: it ends the message under way, or it is put with  *)
(* the bytes of its own message, and the last one hands that message out.  *)
LEMMA ArriveIs ==
  ASSUME RestartsBetween, StreamInv, OneMessageInv,
         NEW m \in DOMAIN sent, NEW i \in Datagrams(m), Arrive(m, i)
  PROVE  LET s   == Segment(m, i)
             fed == Feed(tp, s)
         IN  \/ ~Segmented(m) /\ tp'.session = 0 /\ Consume(Whole(m))
             \/ /\ Segmented(m) /\ net.maxBoot = 1
                /\ Sound(fed) /\ Puts(tp, s, fed)
                /\ Same(tp, s) => last[1] = m
                /\ \A p \in Covered(fed) : /\ fed.buffer[p + 1] = m
                                           /\ p < sent[m].size
                /\ fed.expected \in {0, sent[m].size}
                /\ \/ fed.complete /\ tp' = Reset(fed) /\ Consume(Whole(m))
                   \/ /\ ~fed.complete /\ tp' = fed
                      /\ UNCHANGED <<loss, delivered>>
<1> DEFINE s    == Segment(m, i)
           fed  == Feed(tp, s)
           size == sent[m].size
<1>1. /\ Sound(tp) /\ tp \in Reassemblers /\ net \in Networks
  BY SoundIsInv DEF StreamInv, TypeOK, Sound
<1>2. /\ s \in AnySegments /\ s.session = sent[m].session /\ s.from = m
      /\ s.len # 0 /\ ~Malformed(s) /\ End(s) \in 1..size
      /\ ~s.more => End(s) = size
  BY SegmentIs
<1>3. /\ size \in 1..MaxPayload /\ size \in net.sizes /\ MaxPayload \in Nat
      /\ sent[m].session # 0 /\ MaxSegment \in Nat
  BY SentIs, ReassemblerAssumption
<1>4. ProcessRdiDatagram(m, i) /\ m > Len(sent) - net.window
  BY DEF Arrive
<1> HIDE DEF s
<1>5. CASE ~Segmented(m)
  <2>1. /\ tp' = IF tp.inProgress THEN Reset(tp) ELSE tp
        /\ Consume(Whole(m))
    BY <1>4, <1>5 DEF ProcessRdiDatagram
  <2>2. tp'.session = 0
    <3>1. CASE tp.inProgress
      BY <1>1, <2>1, <3>1, ResetIs
    <3>2. CASE ~tp.inProgress
      BY <2>1, <3>2 DEF OneMessageInv, UnderWayInv
    <3>3. QED
      BY <3>1, <3>2
  <2>3. QED
    BY <1>5, <2>1, <2>2
<1>6. CASE Segmented(m)
  <2>1. net.maxBoot = 1
    <3>1. ~(net.sizes \subseteq 1..MaxSegment)
      BY <1>3, <1>6 DEF Segmented
    <3>2. QED
      BY <1>1, <3>1 DEF RestartsBetween
  <2>2. Same(tp, s) => /\ last[1] = m /\ tp.expected \in {0, size}
                       /\ \A p \in Covered(tp) : tp.buffer[p + 1] = m /\ p < size
    <3>1. SUFFICES ASSUME Same(tp, s)
                   PROVE  /\ last[1] = m /\ tp.expected \in {0, size}
                          /\ \A p \in Covered(tp) : tp.buffer[p + 1] = m /\ p < size
      OBVIOUS
    <3>2. tp.session = sent[m].session /\ tp.session # 0
      BY <1>2, <1>3, <3>1 DEF Same
    <3>3. /\ last[1] \in DOMAIN sent /\ sent[m].session = sent[last[1]].session
          /\ \A p \in Covered(tp) : /\ tp.buffer[p + 1] = last[1]
                                    /\ p < sent[last[1]].size
          /\ tp.expected \in {0, sent[last[1]].size}
      BY <3>2 DEF OneMessageInv, UnderWayInv
    <3>4. /\ Len(sent) - last[1] < net.maxSession
      <4>1. last[1] # 0
        BY <3>3, SentIs
      <4>2. QED
        BY <4>1 DEF StreamInv, HistoryInv
    <3>5. Len(sent) - m < net.maxSession
      <4>1. /\ Len(sent) \in Nat /\ m \in 1..Len(sent)
            /\ net.maxSession \in Nat /\ net.window \in 1..net.maxSession - 1
        BY <1>1, NetIs, SentIs DEF StreamInv, HistoryInv
      <4>2. QED
        BY <1>4, <4>1
    <3>6. last[1] = m
      BY <2>1, <3>3, <3>4, <3>5, SameMessage DEF OneMessageInv
    <3>7. QED
      BY <3>3, <3>6
  <2>3. Sound(fed) /\ Puts(tp, s, fed)
    BY <1>1, <1>2, <1>3, <2>2, FeedPuts
  <2>4. \A p \in Covered(fed) : fed.buffer[p + 1] = m
    <3>1. s.from \in {m}
      BY <1>2
    <3>2. \A p \in Covered(fed) : fed.buffer[p + 1] \in {m}
      BY <1>1, <1>2, <2>2, <3>1, FedBytes
    <3>3. QED
      BY <3>2
  <2> HIDE DEF fed
  <2>5. \A p \in Covered(fed) : p < size
    <3>1. \A p \in s.begin..End(s) - 1 : p < size
      BY <1>2, <1>3 DEF AnySegments
    <3>2. QED
      BY <2>2, <2>3, <3>1 DEF Puts
  <2>6. fed.expected \in {0, size}
    BY <1>2, <2>2, <2>3 DEF Puts
  <2>7. CASE fed.complete
    <3>1. /\ tp' = Reset(fed)
          /\ Consume(SubSeq(fed.buffer, 1, fed.total))
      BY <1>4, <1>6, <2>7 DEF ProcessRdiDatagram, fed, s
    <3> DEFINE payload == SubSeq(fed.buffer, 1, fed.total)
    <3>2. /\ fed.expected \in 1..MaxPayload
          /\ payload \in Seq(Origins \cup {0}) /\ Len(payload) = fed.expected
          /\ \A k \in 1..fed.expected : /\ payload[k] = fed.buffer[k]
                                        /\ k - 1 \in Covered(fed)
      BY <2>3, <2>7, PayloadIs
    <3> HIDE DEF payload
    <3>3. fed.expected = size
      BY <2>6, <3>2
    <3>4. \A k \in 1..size : payload[k] = m
      <4>1. SUFFICES ASSUME NEW k \in 1..size
                     PROVE  payload[k] = m
        OBVIOUS
      <4>2. k - 1 \in Covered(fed) /\ k - 1 + 1 = k
        BY <3>2, <3>3
      <4>3. QED
        BY <2>4, <3>2, <3>3, <4>2
    <3>5. payload = Whole(m)
      BY <3>2, <3>3, <3>4 DEF Whole
    <3>6. QED
      BY <1>6, <2>1, <2>2, <2>3, <2>4, <2>5, <2>6, <2>7, <3>1, <3>5
      DEF fed, s, payload
  <2>8. CASE ~fed.complete
    <3>1. tp' = fed /\ UNCHANGED <<loss, delivered>>
      BY <1>4, <1>6, <2>8 DEF ProcessRdiDatagram, fed, s
    <3>2. QED
      BY <1>6, <2>1, <2>2, <2>3, <2>4, <2>5, <2>6, <2>8, <3>1 DEF fed, s
  <2>9. QED
    BY <2>7, <2>8
<1>7. QED
  BY <1>5, <1>6

(* The message under way stays that of the last datagram.                  *)
LEMMA ArriveKeepsOneMessage ==
  ASSUME RestartsBetween, StreamInv, OneMessageInv,
         NEW m \in DOMAIN sent, NEW i \in Datagrams(m), Arrive(m, i)
  PROVE  OneMessageInv'
<1> DEFINE s   == Segment(m, i)
           fed == Feed(tp, s)
<1>1. /\ net' = net /\ sent' = sent /\ session' = session
      /\ last' = <<m, i>>
  BY DEF Arrive, sensor
<1>2. RoundInv'
  BY <1>1 DEF OneMessageInv, RoundInv
<1>3. s.session = sent[m].session
  BY SegmentIs
<1>4. \/ ~Segmented(m) /\ tp'.session = 0 /\ Consume(Whole(m))
      \/ /\ Segmented(m) /\ Sound(fed) /\ Puts(tp, s, fed)
         /\ \A p \in Covered(fed) : /\ fed.buffer[p + 1] = m
                                    /\ p < sent[m].size
         /\ fed.expected \in {0, sent[m].size}
         /\ \/ fed.complete /\ tp' = Reset(fed) /\ Consume(Whole(m))
            \/ ~fed.complete /\ tp' = fed /\ UNCHANGED delivered
  BY ArriveIs
<1> HIDE DEF fed, s
<1>5. DeliveredIsOneMessage'
  <2>1. Consume(Whole(m)) \/ UNCHANGED delivered
    BY <1>4
  <2>2. QED
    BY <2>1, ConsumeWhole DEF OneMessageInv, DeliveredIsOneMessage
<1>6. UnderWayInv'
  <2>1. CASE ~Segmented(m) /\ tp'.session = 0
    BY <2>1 DEF UnderWayInv
  <2>2. CASE Sound(fed) /\ tp' = Reset(fed)
    <3>1. tp'.session = 0
      BY <2>2, ResetIs DEF Sound
    <3>2. QED
      BY <3>1 DEF UnderWayInv
  <2>3. CASE /\ Puts(tp, s, fed)
             /\ \A p \in Covered(fed) : /\ fed.buffer[p + 1] = m
                                        /\ p < sent[m].size
             /\ fed.expected \in {0, sent[m].size}
             /\ ~fed.complete /\ tp' = fed
    <3>1. /\ tp'.inProgress /\ ~tp'.complete /\ tp'.session = sent[m].session
          /\ tp'.expected # 0 => Covered(tp') # 0..tp'.expected - 1
      BY <1>3, <2>3 DEF Puts
    <3>2. last'[1] = m
      BY <1>1
    <3>3. Covered(tp)' = Covered(tp')
      BY DEF Covered
    <3>4. QED
      BY <1>1, <2>3, <3>1, <3>2, <3>3 DEF UnderWayInv
  <2>4. QED
    BY <1>4, <2>1, <2>2, <2>3
<1>7. QED
  BY <1>2, <1>5, <1>6 DEF OneMessageInv

(* The next session id goes on from the last: less than a round apart, no  *)
(* two messages have the same.                                             *)
LEMMA SendKeepsRound ==
  ASSUME StreamInv, RoundInv, NEW size \in net.sizes,
         NEW skipped \in 0..net.maxSkip, NEW intact \in net.intact,
         SendMessage(size, skipped, intact)
  PROVE  RoundInv'
<1> DEFINE n == Len(sent)
           M == net.maxSession
<1>1. /\ M \in Nat \ {0} /\ n \in Nat /\ DOMAIN sent = 1..n /\ net' = net
      /\ session' = IF session = M THEN 1 ELSE session + 1
  <2>1. net' = net
    BY DEF SendMessage, stream
  <2>2. net.maxSession \in Nat \ {0}
    BY NetIs DEF StreamInv, TypeOK
  <2>3. QED
    BY <2>1, <2>2 DEF SendMessage, StreamInv, HistoryInv
<1>2. \A m \in 1..n : sent[m].session \in 1..M
  BY <1>1, SentIs
<1>3. /\ DOMAIN sent' = 1..n + 1 /\ Len(sent') = n + 1 /\ sent' # <<>>
      /\ \A m \in 1..n : sent'[m] = sent[m]
      /\ sent'[n + 1].session = session'
  BY <1>1 DEF SendMessage, StreamInv, HistoryInv
<1> SUFFICES ASSUME net.maxBoot = 1
             PROVE  /\ \A m, k \in DOMAIN sent' :
                         m < k /\ k - m < M =>
                           sent'[k].session - sent'[m].session
                             \in {k - m, k - m - M}
                    /\ session' = sent'[Len(sent')].session
  BY <1>1, <1>3 DEF RoundInv
<1>4. /\ \A m, k \in 1..n : m < k /\ k - m < M =>
           sent[k].session - sent[m].session \in {k - m, k - m - M}
      /\ n # 0 => session = sent[n].session
      /\ n = 0 => session = 0
  BY <1>1 DEF RoundInv
<1> HIDE DEF n, M
<1>5. ASSUME NEW m \in 1..n, n + 1 - m < M
      PROVE  session' - sent[m].session \in {n + 1 - m, n + 1 - m - M}
  <2>1. n # 0 /\ session = sent[n].session /\ n \in 1..n
    BY <1>1, <1>4, <1>5
  <2>2. session \in 1..M /\ sent[m].session \in 1..M
    BY <1>2, <2>1
  <2>3. session - sent[m].session \in {n - m, n - m - M}
    <3>1. CASE m = n
      BY <1>1, <2>1, <2>2, <3>1
    <3>2. CASE m # n
      <4>1. m < n /\ n - m < M
        BY <1>1, <1>5, <3>2
      <4>2. QED
        BY <1>4, <2>1, <4>1
    <3>3. QED
      BY <3>1, <3>2
  <2> DEFINE u == session
             v == sent[m].session
  <2>4. u \in 1..M /\ v \in 1..M /\ u - v \in {n - m, n - m - M}
    BY <2>2, <2>3
  <2>5. session' = IF u = M THEN 1 ELSE u + 1
    BY <1>1
  <2> HIDE DEF u, v
  <2>6. (IF u = M THEN 1 ELSE u + 1) - v \in {n + 1 - m, n + 1 - m - M}
    <3>1. CASE u = M
      BY <1>1, <1>5, <2>4, <3>1
    <3>2. CASE u # M
      BY <1>1, <1>5, <2>4, <3>2
    <3>3. QED
      BY <3>1, <3>2
  <2>7. QED
    BY <2>5, <2>6 DEF v
<1>6. ASSUME NEW m \in 1..n + 1, NEW k \in 1..n + 1, m < k, k - m < M
      PROVE  sent'[k].session - sent'[m].session \in {k - m, k - m - M}
  <2>1. m \in 1..n
    BY <1>1, <1>6
  <2>2. CASE k = n + 1
    <3>1. sent'[k].session = session' /\ sent'[m].session = sent[m].session
      BY <1>3, <2>1, <2>2
    <3>2. n + 1 - m < M /\ n + 1 \in Int
      BY <1>1, <1>6, <2>2
    <3>3. session' - sent[m].session \in {n + 1 - m, n + 1 - m - M}
      BY <1>5, <2>1, <3>2
    <3>4. QED
      BY <1>1, <2>1, <2>2, <3>1, <3>2, <3>3
  <2>3. CASE k # n + 1
    <3>1. k \in 1..n
      BY <1>1, <1>6, <2>3
    <3>2. QED
      BY <1>3, <1>4, <1>6, <2>1, <3>1
  <2>4. QED
    BY <2>2, <2>3
<1>7. QED
  BY <1>3, <1>6

(* One message at a time, at the start and after every step.               *)
LEMMA NextOneMessage ==
  ASSUME RestartsBetween
  PROVE  /\ Init => OneMessageInv
         /\ StreamInv /\ OneMessageInv /\ [Next]_vars => OneMessageInv'
<1>1. ASSUME Init
      PROVE  OneMessageInv
  BY <1>1 DEF Init, Fresh, OneMessageInv, RoundInv, UnderWayInv,
     DeliveredIsOneMessage
<1>2. ASSUME StreamInv, OneMessageInv, [Next]_vars
      PROVE  OneMessageInv'
  <2>1. ASSUME NEW size \in net.sizes, NEW skipped \in 0..net.maxSkip,
               NEW intact \in net.intact, SendMessage(size, skipped, intact)
        PROVE  OneMessageInv'
    <3>1. RoundInv'
      BY <1>2, <2>1, SendKeepsRound DEF OneMessageInv
    <3>2. tp' = tp /\ last' = last /\ delivered' = delivered
      BY <2>1 DEF SendMessage, stream, network
    <3>3. \A m \in DOMAIN sent : m \in DOMAIN sent' /\ sent'[m] = sent[m]
      <4>1. PICK e : sent' = Append(sent, e)
        BY <2>1 DEF SendMessage
      <4>2. PICK R : sent \in Seq(R)
        BY <1>2 DEF StreamInv, HistoryInv
      <4>3. QED
        BY <4>1, <4>2, AppendIs
    <3>4. UnderWayInv'
      BY <1>2, <3>2, <3>3 DEF OneMessageInv, UnderWayInv, Covered
    <3>5. QED
      BY <1>2, <3>1, <3>2, <3>4 DEF OneMessageInv, DeliveredIsOneMessage
  <2>2. ASSUME NEW m \in DOMAIN sent, NEW i \in Datagrams(m), Arrive(m, i)
        PROVE  OneMessageInv'
    BY <1>2, <2>2, ArriveKeepsOneMessage
  <2>3. CASE InvalidTpHeader
    <3>1. tp \in Reassemblers
      BY <1>2, SoundIsInv DEF StreamInv, Sound
    <3>2. tp'.session = 0
      BY <2>3, <3>1, ResetIs DEF InvalidTpHeader
    <3>3. QED
      BY <1>2, <2>3, <3>2 DEF InvalidTpHeader, sensor, OneMessageInv, RoundInv,
         UnderWayInv, DeliveredIsOneMessage
  <2>4. CASE StopAndInit
    BY <1>2, <2>4 DEF StopAndInit, sensor, network, OneMessageInv, RoundInv,
       UnderWayInv, DeliveredIsOneMessage, Covered
  <2>5. CASE Restart
    <3>1. net.maxBoot # 1
      BY <1>2, <2>5 DEF Restart, StreamInv, TypeOK
    <3>2. /\ net' = net /\ tp' = tp /\ last' = last /\ delivered' = delivered
          /\ sent' = sent
      BY <2>5 DEF Restart, stream, network
    <3>3. QED
      BY <1>2, <3>1, <3>2 DEF OneMessageInv, RoundInv, UnderWayInv,
         DeliveredIsOneMessage, Covered
  <2>6. CASE UNCHANGED vars
    BY <1>2, <2>6 DEF vars, stream, sensor, network, OneMessageInv, RoundInv,
       UnderWayInv, DeliveredIsOneMessage, Covered
  <2>7. QED
    BY <1>2, <2>1, <2>2, <2>3, <2>4, <2>5, <2>6 DEF Next
<1>3. QED
  BY <1>1, <1>2

(* A frame handed to the callbacks is one message byte for byte            *)
(* (ProcessRdiDatagram), in whatever order and however often the datagrams *)
(* arrive, with any session ids that wrap and no CRC to help.              *)
THEOREM DeliversOneMessage ==
  ASSUME RestartsBetween
  PROVE  Spec => []DeliveredIsOneMessage
<1>1. OneMessageInv => DeliveredIsOneMessage
  BY DEF OneMessageInv
<1>2. QED
  BY <1>1, StreamInvariant, NextOneMessage, PTL DEF Spec

-----------------------------------------------------------------------------
(* A message that arrives uninterrupted *)

(* The segments of a message are all of it.                                *)
LEMMA SegmentsCover ==
  ASSUME StreamInv, NEW m \in DOMAIN sent, NEW p \in 0..sent[m].size - 1
  PROVE  \E i \in Datagrams(m) :
           p \in Segment(m, i).begin..End(Segment(m, i)) - 1
<1> DEFINE size == sent[m].size
           S == {k \in Nat : p < k * MaxSegment}
<1>1. /\ p \in Nat /\ p < size /\ size \in Nat /\ MaxSegment \in Nat \ {0}
  BY SentIs, ReassemblerAssumption
<1>2. p + 1 \in S
  <2>1. \A a, b \in Nat : b # 0 => a <= a * b
    OBVIOUS
  <2>2. p + 1 <= (p + 1) * MaxSegment
    BY <1>1, <2>1
  <2>3. QED
    BY <1>1, <2>2
<1>3. PICK k \in S : \A n \in S : k <= n
  BY <1>2, Smallest
<1>4. /\ k \in Nat /\ p < k * MaxSegment /\ k <= p + 1
  BY <1>2, <1>3
<1>5. k # 0 /\ k - 1 \in Nat
  <2>1. 0 * MaxSegment = 0
    BY <1>1
  <2>2. k # 0
    BY <1>1, <1>4, <2>1
  <2>3. QED
    BY <1>4, <2>2
<1>6. (k - 1) * MaxSegment <= p
  <2>1. k - 1 \notin S
    BY <1>3, <1>4, <1>5
  <2>2. (k - 1) * MaxSegment \in Nat
    BY <1>1, <1>5
  <2>3. QED
    BY <1>1, <1>5, <2>1, <2>2
<1>7. k \in Datagrams(m)
  <2>1. k \in 1..size /\ (k - 1) * MaxSegment \in Nat
    BY <1>1, <1>4, <1>5
  <2>2. (k - 1) * MaxSegment < size
    BY <1>1, <1>6, <2>1
  <2>3. QED
    BY <2>1, <2>2 DEF Datagrams
<1>8. (k - 1) * MaxSegment + MaxSegment = k * MaxSegment
  BY <1>1, <1>4
<1>9. /\ Segment(m, k).begin = (k - 1) * MaxSegment
      /\ Segment(m, k).begin \in Nat
      /\ End(Segment(m, k)) \in 1..size
      /\ ~Segment(m, k).more => End(Segment(m, k)) = size
      /\ Segment(m, k).more => End(Segment(m, k)) = Segment(m, k).begin + MaxSegment
  BY <1>7, SegmentIs
<1>10. p \in Segment(m, k).begin..End(Segment(m, k)) - 1
  BY <1>1, <1>4, <1>6, <1>8, <1>9
<1>11. QED
  BY <1>7, <1>10

(* What came of a message in a row is held, until it is delivered.         *)
LEMMA ArriveKeepsTogether ==
  ASSUME RestartsBetween, StreamInv, OneMessageInv, TogetherInv,
         NEW m \in DOMAIN sent, NEW i \in Datagrams(m), Arrive(m, i)
  PROVE  TogetherInv'
<1> DEFINE s   == Segment(m, i)
           fed == Feed(tp, s)
<1>1. /\ net' = net /\ sent' = sent /\ config' = config /\ last' = <<m, i>>
      /\ together' = {d \in together : d[1] = m} \cup {<<m, i>>}
  BY DEF Arrive, sensor
<1>2. \A x : Segmented(x)' = Segmented(x) /\ Datagrams(x)' = Datagrams(x)
  BY <1>1 DEF Segmented, Datagrams
<1>3. \A x, k : Segment(x, k)' = Segment(x, k)
  BY <1>1 DEF Segment
<1>4. Covered(tp)' = Covered(tp')
  BY DEF Covered
<1> SUFFICES ASSUME NEW d \in together'
             PROVE  /\ d[1] = m /\ d[2] \in Datagrams(m)
                    /\ Due(m)' =>
                         LET t == Segment(m, d[2])
                         IN  /\ Segmented(m) /\ tp'.session = t.session
                             /\ t.begin..End(t) - 1 \subseteq Covered(tp')
                             /\ ~t.more => tp'.expected = End(t)
  <2>1. last'[1] = m /\ m \in DOMAIN sent'
    BY <1>1
  <2>2. QED
    BY <1>2, <1>3, <1>4, <2>1 DEF TogetherInv, End
<1>5. d = <<m, i>> \/ (d \in together /\ d[1] = m)
  BY <1>1
<1>6. d[1] = m /\ d[2] \in Datagrams(m)
  BY <1>5 DEF TogetherInv
<1>7. /\ s.session = sent[m].session /\ sent[m].session # 0
      /\ Segment(m, d[2]).session = sent[m].session
      /\ End(Segment(m, d[2])) \in 1..sent[m].size
  BY <1>6, SegmentIs, SentIs
<1>8. \/ ~Segmented(m) /\ Consume(Whole(m))
      \/ Consume(Whole(m))
      \/ /\ Segmented(m) /\ Puts(tp, s, fed)
         /\ tp' = fed /\ UNCHANGED delivered
  BY ArriveIs
<1> HIDE DEF fed, s
<1>9. CASE Consume(Whole(m))
  <2>1. ~Due(m)'
    <3>1. ASSUME Due(m)'
          PROVE  Due(m)
      BY <1>1, <1>9, <3>1, ConsumeWhole DEF Due
    <3>2. Due(m) => \E k \in DOMAIN delivered' : delivered'[k].msg = m
      BY <1>9, ConsumeWhole
    <3>3. QED
      BY <3>1, <3>2 DEF Due
  <2>2. QED
    BY <1>6, <2>1
<1>10. CASE /\ Segmented(m) /\ Puts(tp, s, fed)
            /\ tp' = fed /\ UNCHANGED delivered
  <2>1. SUFFICES ASSUME Due(m)
                 PROVE  LET t == Segment(m, d[2])
                        IN  /\ tp'.session = t.session
                            /\ t.begin..End(t) - 1 \subseteq Covered(tp')
                            /\ ~t.more => tp'.expected = End(t)
    <3>1. Due(m)' = Due(m)
      BY <1>1, <1>10 DEF Due
    <3>2. QED
      BY <1>6, <1>10, <3>1
  <2>2. tp'.session = Segment(m, d[2]).session
    BY <1>7, <1>10 DEF Puts
  <2>3. CASE d = <<m, i>>
    <3>1. Segment(m, d[2]) = s
      BY <2>3 DEF s
    <3>2. QED
      BY <1>10, <2>2, <3>1 DEF Puts
  <2>4. CASE d \in together /\ d[1] = m
    <3> DEFINE t == Segment(m, d[2])
    <3>1. /\ tp.session = t.session
          /\ t.begin..End(t) - 1 \subseteq Covered(tp)
          /\ ~t.more => tp.expected = End(t)
      BY <2>1, <2>4 DEF TogetherInv
    <3>2. Same(tp, s)
      BY <1>7, <3>1 DEF Same, OneMessageInv, UnderWayInv
    <3>3. End(t) # 0
      BY <1>7, SentIs, ReassemblerAssumption
    <3> HIDE DEF t
    <3>4. t.begin..End(t) - 1 \subseteq Covered(tp')
      BY <1>10, <3>1, <3>2 DEF Puts
    <3>5. ~t.more => tp'.expected = End(t)
      BY <1>10, <3>1, <3>2, <3>3 DEF Puts
    <3>6. QED
      BY <2>2, <3>4, <3>5 DEF t
  <2>5. QED
    BY <1>5, <2>3, <2>4
<1>11. QED
  BY <1>8, <1>9, <1>10

(* At the start, and after every step.                                     *)
LEMMA NextTogether ==
  ASSUME RestartsBetween
  PROVE  /\ Init => TogetherInv
         /\ StreamInv /\ OneMessageInv /\ TogetherInv /\ [Next]_vars => TogetherInv'
<1>1. Init => TogetherInv
  BY DEF Init, TogetherInv
<1>2. ASSUME StreamInv, OneMessageInv, TogetherInv, [Next]_vars
      PROVE  TogetherInv'
  <2>1. ASSUME NEW size \in net.sizes, NEW skipped \in 0..net.maxSkip,
               NEW intact \in net.intact, SendMessage(size, skipped, intact)
        PROVE  TogetherInv'
    <3>1. /\ tp' = tp /\ last' = last /\ delivered' = delivered
          /\ config' = config /\ together' = together
      BY <2>1 DEF SendMessage, stream, network
    <3>2. \A m \in DOMAIN sent : m \in DOMAIN sent' /\ sent'[m] = sent[m]
      <4>1. PICK e : sent' = Append(sent, e)
        BY <2>1 DEF SendMessage
      <4>2. PICK R : sent \in Seq(R)
        BY <1>2 DEF StreamInv, HistoryInv
      <4>3. QED
        BY <4>1, <4>2, AppendIs
    <3>3. ASSUME NEW m \in DOMAIN sent
          PROVE  /\ Segmented(m)' = Segmented(m) /\ Datagrams(m)' = Datagrams(m)
                 /\ Due(m)' = Due(m)
      BY <3>1, <3>2 DEF Segmented, Datagrams, Due
    <3>4. ASSUME NEW m \in DOMAIN sent, NEW k
          PROVE  Segment(m, k)' = Segment(m, k)
      BY <3>2 DEF Segment
    <3>5. Covered(tp)' = Covered(tp)
      BY <3>1 DEF Covered
    <3>6. QED
      BY <1>2, <3>1, <3>2, <3>3, <3>4, <3>5 DEF TogetherInv, End
  <2>2. ASSUME NEW m \in DOMAIN sent, NEW i \in Datagrams(m), Arrive(m, i)
        PROVE  TogetherInv'
    BY <1>2, <2>2, ArriveKeepsTogether
  <2>3. CASE InvalidTpHeader
    BY <2>3 DEF InvalidTpHeader, TogetherInv
  <2>4. ASSUME /\ tp' = tp /\ last' = last /\ delivered' = delivered
               /\ config' = config /\ together' = together /\ sent' = sent
        PROVE  TogetherInv'
    BY <1>2, <2>4 DEF TogetherInv, Due, Segmented, Datagrams, Segment, End, Covered
  <2>5. CASE StopAndInit
    BY <2>4, <2>5 DEF StopAndInit, sensor, network
  <2>6. CASE Restart
    BY <2>4, <2>6 DEF Restart, stream, network
  <2>7. CASE UNCHANGED vars
    BY <2>4, <2>7 DEF vars, stream, sensor, network
  <2>8. QED
    BY <1>2, <2>1, <2>2, <2>3, <2>5, <2>6, <2>7 DEF Next
<1>3. QED
  BY <1>1, <1>2

(* A message whose datagrams all arrive with no other among them is        *)
(* delivered (ProcessRdiDatagram, Feed), in whatever order and however     *)
(* often they arrive and whatever was unfinished before, unless strict     *)
(* checking holds a damaged one back.                                      *)
THEOREM DeliversUninterrupted ==
  ASSUME RestartsBetween
  PROVE  Spec => []UninterruptedIsDelivered
<1>1. ASSUME StreamInv, OneMessageInv, TogetherInv
      PROVE  UninterruptedIsDelivered
  <2> SUFFICES ASSUME NEW m \in DOMAIN sent,
                      \A i \in Datagrams(m) : <<m, i>> \in together,
                      Due(m)
               PROVE  FALSE
    BY DEF UninterruptedIsDelivered, Due
  <2> DEFINE size == sent[m].size
  <2>1. size \in 1..MaxPayload /\ size \in Nat \ {0} /\ sent[m].session # 0
    BY <1>1, SentIs, ReassemblerAssumption
  <2>2. ASSUME NEW i \in Datagrams(m)
        PROVE  LET s == Segment(m, i)
               IN  /\ m = last[1] /\ tp.session = s.session
                   /\ s.begin..End(s) - 1 \subseteq Covered(tp)
                   /\ ~s.more => tp.expected = End(s)
    BY <1>1, <2>2 DEF TogetherInv
  <2>3. \A p \in 0..size - 1 : p \in Covered(tp)
    BY <1>1, <2>2, SegmentsCover
  <2>4. PICK i \in Datagrams(m) :
               size - 1 \in Segment(m, i).begin..End(Segment(m, i)) - 1
    <3>1. size - 1 \in 0..size - 1
      BY <2>1
    <3>2. QED
      BY <1>1, <3>1, SegmentsCover
  <2>5. /\ ~Segment(m, i).more /\ End(Segment(m, i)) = size
        /\ Segment(m, i).session # 0
    <3>1. /\ End(Segment(m, i)) \in 1..size /\ Segment(m, i).begin \in Nat
          /\ Segment(m, i).more => End(Segment(m, i)) < size
          /\ ~Segment(m, i).more => End(Segment(m, i)) = size
          /\ Segment(m, i).session = sent[m].session
      BY <1>1, SegmentIs
    <3>2. QED
      BY <2>1, <2>4, <3>1
  <2>6. /\ tp.session # 0 /\ tp.expected = size /\ m = last[1]
    BY <2>2, <2>5
  <2>7. \A p \in Covered(tp) : p \in 0..size - 1
    <3>1. Covered(tp) \subseteq 0..tp.expected - 1
      BY <1>1, <2>1, <2>6, SoundIsInv DEF StreamInv, Sound
    <3>2. QED
      BY <2>6, <3>1
  <2>8. Covered(tp) # 0..tp.expected - 1
    BY <1>1, <2>1, <2>6 DEF OneMessageInv, UnderWayInv
  <2>9. QED
    BY <2>3, <2>6, <2>7, <2>8
<1>2. QED
  BY <1>1, StreamInvariant, NextOneMessage, NextTogether, PTL DEF Spec

-----------------------------------------------------------------------------
(* Loss: the Counter *)

(* The run is shorter than half the range of the Counter (2^31 slots are   *)
(* almost seven years), so that an advance is not taken for a decrease.    *)
BelowHalf ==
  \A n \in Networks : MaxMessage * (n.maxSkip + 1) <= Half

(* Half the range of the Counter is a number, and twice that is in range.  *)
LEMMA HalfIs == Half \in Nat /\ Half + Half <= CounterMod /\ CounterMod \in Nat \ {0}
BY StreamAssumption DEF Half

(* A product grows with its factor.                                        *)
LEMMA Products ==
  ASSUME NEW a \in Nat, NEW b \in Nat, NEW c \in Nat
  PROVE  /\ a * c \in Nat /\ (a + b) * c = a * c + b * c
         /\ a <= b => a * c <= b * c
<1>1. a * c \in Nat /\ (a + b) * c = a * c + b * c
  OBVIOUS
<1>2. ASSUME a <= b
      PROVE  a * c <= b * c
  <2>1. PICK d \in Nat : b = a + d
    <3>1. b - a \in Nat /\ b = a + (b - a)
      BY <1>2
    <3>2. QED
      BY <3>1
  <2>2. (a + d) * c = a * c + d * c /\ d * c \in Nat
    OBVIOUS
  <2>3. QED
    BY <1>1, <2>1, <2>2
<1>3. QED
  BY <1>1, <1>2

(* The remainder of a number that is written as a multiple and a rest.     *)
LEMMA RestIs ==
  ASSUME NEW M \in Nat \ {0}, NEW r \in 0..M - 1, NEW q \in Int
  PROVE  (q * M + r) % M = r
OBVIOUS

(* Every number can be written so.                                         *)
LEMMA Divided ==
  ASSUME NEW M \in Nat \ {0}, NEW x \in Int
  PROVE  \E q \in Int, r \in 0..M - 1 : x = q * M + r /\ x % M = r
<1> DEFINE q == x \div M
           r == x - q * M
<1>1. q \in Int /\ M * q <= x
  OBVIOUS
<1>2. x < M * q + M
  OBVIOUS
<1> HIDE DEF q
<1>3. M * q = q * M /\ q * M \in Int
  BY <1>1
<1>4. r \in 0..M - 1 /\ x = q * M + r
  BY <1>1, <1>2, <1>3
<1>5. x % M = r
  BY <1>1, <1>4, RestIs
<1>6. QED
  BY <1>1, <1>4, <1>5

(* The remainder of what is one period off, or less.                       *)
LEMMA Difference ==
  ASSUME NEW M \in Nat \ {0}, NEW c \in 0..M - 1, NEW d \in 0..M - 1
  PROVE  (d - c) % M = IF d >= c THEN d - c ELSE d - c + M
<1>1. CASE d >= c
  <2>1. d - c \in 0..M - 1 /\ d - c = 0 * M + (d - c)
    BY <1>1
  <2>2. (0 * M + (d - c)) % M = d - c
    BY <2>1, RestIs
  <2>3. QED
    BY <1>1, <2>1, <2>2
<1>2. CASE ~(d >= c)
  <2>1. d - c + M \in 0..M - 1 /\ d - c = (-1) * M + (d - c + M)
    BY <1>2
  <2>2. ((-1) * M + (d - c + M)) % M = d - c + M
    BY <2>1, RestIs
  <2>3. QED
    BY <1>2, <2>1, <2>2
<1>3. QED
  BY <1>1, <1>2

(* Two Counters of one boot differ by the slots between them.              *)
LEMMA OneBoot ==
  ASSUME NEW M \in Nat \ {0}, NEW u \in Nat, NEW g \in 0..M - 1
  PROVE  (((u + g) % M) - (u % M)) % M = g
<1>1. PICK q \in Int, r \in 0..M - 1 : u = q * M + r /\ u % M = r
  <2>1. u \in Int
    OBVIOUS
  <2>2. QED
    BY <2>1, Divided
<1>2. PICK k \in Int, d \in 0..M - 1 : /\ u + g = k * M + d
                                       /\ d = r + g \/ d = r + g - M
  <2>1. CASE r + g < M
    <3>1. r + g \in 0..M - 1 /\ u + g = q * M + (r + g)
      BY <1>1, <2>1
    <3>2. QED
      BY <1>1, <3>1
  <2>2. CASE ~(r + g < M)
    <3>1. r + g - M \in 0..M - 1 /\ q + 1 \in Int
      BY <1>1, <2>2
    <3>2. q * M \in Int /\ (q + 1) * M = q * M + M
      BY <1>1
    <3>3. u + g = (q + 1) * M + (r + g - M)
      BY <1>1, <3>2
    <3>4. QED
      BY <3>1, <3>3
  <2>3. QED
    BY <2>1, <2>2
<1>3. (u + g) % M = d
  <2>1. (k * M + d) % M = d
    BY RestIs
  <2>2. QED
    BY <1>2, <2>1, Zenon
<1>4. (d - r) % M = IF d >= r THEN d - r ELSE d - r + M
  BY <1>2, Difference
<1>5. (IF d >= r THEN d - r ELSE d - r + M) = g
  BY <1>1, <1>2
<1>6. QED
  BY <1>1, <1>3, <1>4, <1>5

(* From a Counter of an earlier boot it advances by less or decreases.     *)
LEMMA LaterBoot ==
  ASSUME NEW M \in Nat \ {0}, NEW h \in Nat, h + h <= M,
         NEW c \in 0..h - 1, NEW d \in 0..h - 1
  PROVE  LET delta == ((d % M) - (c % M)) % M
         IN  delta <= d \/ delta >= h
<1>1. c \in 0..M - 1 /\ d \in 0..M - 1
  OBVIOUS
<1>2. c % M = c /\ d % M = d
  <2>1. ASSUME NEW x \in 0..M - 1
        PROVE  x % M = x
    <3>1. (x - 0) % M = IF x >= 0 THEN x - 0 ELSE x - 0 + M
      BY Difference
    <3>2. QED
      BY <3>1
  <2>2. QED
    BY <1>1, <2>1
<1>3. (d - c) % M = IF d >= c THEN d - c ELSE d - c + M
  BY <1>1, Difference
<1>4. QED
  BY <1>1, <1>2, <1>3

(* The Counter of a number of slots after a boot.                          *)
CounterOf(slots) == slots % CounterMod

(* What the sensor does when it sends.                                     *)
LEMMA SendIs ==
  ASSUME StreamInv, NEW size \in net.sizes, NEW skipped \in 0..net.maxSkip,
         NEW intact \in net.intact, SendMessage(size, skipped, intact)
  PROVE  LET n == Len(sent)
         IN  /\ n \in Nat /\ n + 1 \in 1..MaxMessage
             /\ DOMAIN sent = 1..n /\ DOMAIN sent' = 1..n + 1 /\ Len(sent') = n + 1
             /\ \A m \in 1..n : sent'[m] = sent[m]
             /\ sent'[n + 1].slot = slot + skipped
             /\ sent'[n + 1].counter = CounterOf(slot + skipped - bootSlot)
             /\ slot' = slot + skipped + 1
             /\ net' = net /\ bootSlot' = bootSlot /\ boot' = boot
<1> DEFINE new == [session |-> session', size |-> size, intact |-> intact,
                   slot |-> slot + skipped,
                   counter |-> (slot + skipped - bootSlot) % CounterMod]
<1>1. /\ sent' = Append(sent, new) /\ slot' = slot + skipped + 1
      /\ Len(sent) < MaxMessage
      /\ net' = net /\ bootSlot' = bootSlot /\ boot' = boot
  BY DEF SendMessage, stream
<1>2. /\ new.slot = slot + skipped
      /\ new.counter = (slot + skipped - bootSlot) % CounterMod
  OBVIOUS
<1> HIDE DEF new
<1>3. PICK R : sent \in Seq(R)
  BY DEF StreamInv, HistoryInv
<1>4. /\ Len(sent) \in Nat /\ DOMAIN sent = 1..Len(sent) /\ MaxMessage \in Nat
  BY <1>3, StreamAssumption
<1>5. /\ Len(sent') = Len(sent) + 1 /\ DOMAIN sent' = 1..Len(sent) + 1
      /\ \A i \in DOMAIN sent : sent'[i] = sent[i]
      /\ sent'[Len(sent) + 1] = new
  BY <1>1, <1>3, AppendIs
<1>6. Len(sent) + 1 \in 1..MaxMessage
  BY <1>1, <1>4
<1>7. new.counter = CounterOf(slot + skipped - bootSlot)
  BY <1>2, Zenon DEF CounterOf
<1>8. QED
  BY <1>1, <1>2, <1>4, <1>5, <1>6, <1>7

(* A message goes out in a slot after all others, not half a range later,  *)
(* with the Counter that says so.                                          *)
LEMMA SendKeepsGap ==
  ASSUME BelowHalf, StreamInv, SlotInv, GapInv, NEW size \in net.sizes,
         NEW skipped \in 0..net.maxSkip, NEW intact \in net.intact,
         SendMessage(size, skipped, intact)
  PROVE  SlotInv' /\ GapInv'
<1> DEFINE n == Len(sent)
           K == net.maxSkip + 1
           new == slot + skipped
<1>1. /\ net \in Networks /\ net.maxSkip \in Nat /\ K \in Nat \ {0}
      /\ skipped \in 0..K - 1
      /\ slot \in Nat /\ bootSlot \in 0..slot /\ boot \in Nat
      /\ new \in Nat /\ MaxMessage \in Nat /\ CounterMod \in Nat \ {0}
  BY NetIs, StreamAssumption DEF StreamInv, TypeOK
<1>2. /\ n \in Nat /\ n + 1 \in Nat /\ n + 1 <= MaxMessage
      /\ DOMAIN sent = 1..n /\ DOMAIN sent' = 1..n + 1 /\ Len(sent') = n + 1
  BY SendIs
<1>3. /\ \A m \in 1..n : sent'[m] = sent[m]
      /\ sent'[n + 1].slot = new
      /\ sent'[n + 1].counter = (new - bootSlot) % CounterMod
      /\ slot' = new + 1
      /\ net' = net /\ bootSlot' = bootSlot /\ boot' = boot
  <2>1. sent'[n + 1].counter = CounterOf(slot + skipped - bootSlot)
    BY SendIs
  <2>2. slot + skipped - bootSlot = new - bootSlot
    BY <1>1
  <2>3. QED
    BY <2>1, <2>2, SendIs DEF CounterOf
<1>4. \A m \in 1..n : sent[m].slot \in Nat
  BY <1>2, SentIs
<1>5. /\ boot = 1 => bootSlot = 0
      /\ \A m \in 1..n :
           /\ sent[m].slot < slot
           /\ slot - sent[m].slot <= (n + 1 - m) * K
           /\ \E b \in 0..bootSlot :
                /\ b <= sent[m].slot
                /\ sent[m].counter = (sent[m].slot - b) % CounterMod
                /\ b # bootSlot =>
                     sent[m].slot < bootSlot /\ sent[m].slot - b < Half
  BY <1>2 DEF SlotInv
<1>6. MaxMessage * K <= Half /\ Half \in Nat /\ Half + Half <= CounterMod
  BY <1>1, HalfIs DEF BelowHalf
<1> HIDE DEF n, K
<1>7. ASSUME NEW m \in 1..n
      PROVE  /\ (new + 1) - sent[m].slot <= (n + 2 - m) * K
             /\ (new + 1) - sent[m].slot <= Half
             /\ new - sent[m].slot \in 1..Half - 1
  <2> DEFINE a == n + 1 - m
  <2>1. /\ a \in Nat /\ a + 1 \in Nat /\ a + 1 <= MaxMessage /\ n + 2 - m = a + 1
    BY <1>1, <1>2
  <2> HIDE DEF a
  <2>2. (n + 2 - m) * K = a * K + K /\ a * K \in Nat
    <3>1. (a + 1) * K = a * K + 1 * K /\ a * K \in Nat
      BY <1>1, <2>1, Products
    <3>2. 1 * K = K
      BY <1>1
    <3>3. QED
      BY <2>1, <3>1, <3>2
  <2>3. (n + 2 - m) * K <= MaxMessage * K /\ MaxMessage * K \in Nat
    BY <1>1, <2>1, Products
  <2>4. /\ sent[m].slot \in Nat /\ sent[m].slot < slot
        /\ slot - sent[m].slot <= a * K
    BY <1>4, <1>5 DEF a
  <2>5. (new + 1) - sent[m].slot <= (n + 2 - m) * K
    BY <1>1, <2>2, <2>4
  <2>6. QED
    BY <1>1, <1>6, <2>2, <2>3, <2>4, <2>5
<1> HIDE DEF new
<1>8. SlotInv'
  <2>1. ASSUME NEW m \in 1..n + 1
        PROVE  /\ sent'[m].slot < new + 1
               /\ (new + 1) - sent'[m].slot <= (n + 1 + 1 - m) * K
               /\ \E b \in 0..bootSlot :
                    /\ b <= sent'[m].slot
                    /\ sent'[m].counter = (sent'[m].slot - b) % CounterMod
                    /\ b # bootSlot =>
                         sent'[m].slot < bootSlot /\ sent'[m].slot - b < Half
    <3>1. CASE m \in 1..n
      <4>1. sent'[m] = sent[m] /\ sent[m].slot \in Nat
        BY <1>3, <1>4, <3>1
      <4>2. sent[m].slot < new + 1
        BY <1>1, <1>7, <3>1, <4>1
      <4>3. n + 1 + 1 - m = n + 2 - m
        BY <1>2, <3>1
      <4>4. QED
        BY <1>5, <1>7, <3>1, <4>1, <4>2, <4>3
    <3>2. CASE m = n + 1
      <4>1. (n + 1 + 1 - m) * K = K
        <5>1. n + 1 + 1 - m = 1
          BY <1>2, <3>2
        <5>2. 1 * K = K
          BY <1>1
        <5>3. QED
          BY <5>1, <5>2
      <4>2. bootSlot \in 0..bootSlot /\ bootSlot <= new
        BY <1>1 DEF new
      <4>3. /\ sent'[m].slot = new
            /\ sent'[m].counter = (sent'[m].slot - bootSlot) % CounterMod
        BY <1>3, <3>2
      <4>4. new < new + 1 /\ (new + 1) - new <= K
        BY <1>1
      <4>5. QED
        BY <4>1, <4>2, <4>3, <4>4
    <3>3. QED
      BY <1>2, <3>1, <3>2
  <2>2. net'.maxSkip + 1 = K
    BY <1>3 DEF K
  <2>3. ASSUME NEW m \in DOMAIN sent'
        PROVE  /\ sent'[m].slot < slot'
               /\ slot' - sent'[m].slot
                    <= (Len(sent') + 1 - m) * (net'.maxSkip + 1)
               /\ \E b \in 0..bootSlot' :
                    /\ b <= sent'[m].slot
                    /\ sent'[m].counter = (sent'[m].slot - b) % CounterMod
                    /\ b # bootSlot' =>
                         sent'[m].slot < bootSlot' /\ sent'[m].slot - b < Half
    <3>1. Len(sent') = n + 1 /\ m \in 1..n + 1
      BY <1>2
    <3>2. slot' = new + 1 /\ bootSlot' = bootSlot
      BY <1>3
    <3>3. slot' - sent'[m].slot <= (n + 1 + 1 - m) * K
      BY <2>1, <3>1, <3>2
    <3>4. slot' - sent'[m].slot <= (Len(sent') + 1 - m) * K
      BY <3>1, <3>3, Zenon
    <3>5. slot' - sent'[m].slot <= (Len(sent') + 1 - m) * (net'.maxSkip + 1)
      BY <2>2, <3>4, Zenon
    <3>6. QED
      BY <2>1, <3>1, <3>2, <3>5
  <2>4. QED
    BY <1>3, <1>5, <2>3 DEF SlotInv
<1>9. ASSUME NEW m \in 1..n
      PROVE  LET gap   == new - sent[m].slot
                 delta == (((new - bootSlot) % CounterMod) - sent[m].counter)
                            % CounterMod
             IN  /\ boot = 1 => delta = gap
                 /\ delta <= gap \/ delta >= Half
  <2> DEFINE gap == new - sent[m].slot
             c   == sent[m].slot
  <2>1. PICK b \in 0..bootSlot :
               /\ b <= c /\ sent[m].counter = (c - b) % CounterMod
               /\ b # bootSlot => c < bootSlot /\ c - b < Half
    BY <1>5
  <2>2. /\ c \in Nat /\ gap \in 1..Half - 1 /\ new = c + gap
        /\ bootSlot \in Nat /\ b \in Nat /\ bootSlot <= new
        /\ CounterMod \in Nat \ {0} /\ gap \in 0..CounterMod - 1
    <3>1. bootSlot <= new
      BY <1>1 DEF new
    <3>2. QED
      BY <1>1, <1>4, <1>6, <1>7, <3>1, HalfIs
  <2> HIDE DEF gap, c
  <2>3. CASE b = bootSlot
    <3>1. c - b \in Nat /\ new - bootSlot = (c - b) + gap
      BY <2>1, <2>2, <2>3
    <3>2. ((((c - b) + gap) % CounterMod) - ((c - b) % CounterMod)) % CounterMod
            = gap
      BY <2>2, <3>1, OneBoot
    <3>3. QED
      BY <2>1, <2>2, <3>1, <3>2 DEF gap, c
  <2>4. CASE b # bootSlot
    <3>1. c - b \in 0..Half - 1 /\ new - bootSlot \in 0..Half - 1
          /\ new - bootSlot <= gap
      BY <1>6, <2>1, <2>2, <2>4
    <3> DEFINE delta == (((new - bootSlot) % CounterMod) - ((c - b) % CounterMod))
                          % CounterMod
    <3>2. delta <= new - bootSlot \/ delta >= Half
      BY <1>6, <2>2, <3>1, LaterBoot
    <3>3. boot # 1
      BY <1>5, <2>1, <2>4
    <3>4. delta \in Int
      <4>1. ((new - bootSlot) % CounterMod) - ((c - b) % CounterMod) \in Int
        BY <2>2, <3>1
      <4>2. QED
        BY <2>2, <4>1
    <3>5. delta <= gap \/ delta >= Half
      BY <2>2, <3>1, <3>2, <3>4
    <3>6. QED
      BY <2>1, <3>3, <3>5 DEF gap, c
  <2>5. QED
    BY <2>3, <2>4
<1>10. GapInv'
  <2>1. ASSUME NEW m \in 1..n + 1, NEW k \in 1..n + 1, m < k
        PROVE  LET gap   == sent'[k].slot - sent'[m].slot
                   delta == (sent'[k].counter - sent'[m].counter) % CounterMod
               IN  /\ gap \in 1..Half - 1
                   /\ boot = 1 => delta = gap
                   /\ delta <= gap \/ delta >= Half
    <3>1. m \in 1..n /\ sent'[m] = sent[m]
      BY <1>2, <1>3, <2>1
    <3>2. CASE k = n + 1
      BY <1>2, <1>3, <1>7, <1>9, <3>1, <3>2
    <3>3. CASE k # n + 1
      <4>1. k \in 1..n /\ sent'[k] = sent[k]
        BY <1>2, <1>3, <3>3
      <4>2. QED
        BY <1>2, <2>1, <3>1, <4>1 DEF GapInv
    <3>4. QED
      BY <3>2, <3>3
  <2>2. QED
    BY <1>2, <1>3, <2>1 DEF GapInv
<1>11. QED
  BY <1>8, <1>10

(* Slots and Counters, at the start and after every step.                  *)
LEMMA NextGap ==
  ASSUME BelowHalf
  PROVE  /\ Init => SlotInv /\ GapInv
         /\ StreamInv /\ SlotInv /\ GapInv /\ [Next]_vars => SlotInv' /\ GapInv'
<1>1. Init => SlotInv /\ GapInv
  BY DEF Init, SlotInv, GapInv
<1>2. ASSUME StreamInv, SlotInv, GapInv, [Next]_vars
      PROVE  SlotInv' /\ GapInv'
  <2>1. ASSUME NEW size \in net.sizes, NEW skipped \in 0..net.maxSkip,
               NEW intact \in net.intact, SendMessage(size, skipped, intact)
        PROVE  SlotInv' /\ GapInv'
    BY <1>2, <2>1, SendKeepsGap
  <2>2. CASE Restart
    <3>1. /\ sent' = sent /\ slot' = slot /\ net' = net
          /\ bootSlot' = slot /\ boot' = boot + 1 /\ slot - bootSlot < Half
      BY <2>2 DEF Restart, stream
    <3>2. /\ slot \in Nat /\ bootSlot \in 0..slot /\ boot \in Nat \ {0}
          /\ boot + 1 # 1 /\ Half \in Nat
      BY <1>2, NetIs, HalfIs DEF StreamInv, TypeOK
    <3>3. ASSUME NEW m \in DOMAIN sent
          PROVE  \E b \in 0..slot :
                   /\ b <= sent[m].slot
                   /\ sent[m].counter = (sent[m].slot - b) % CounterMod
                   /\ b # slot => sent[m].slot < slot /\ sent[m].slot - b < Half
      <4>1. PICK b \in 0..bootSlot :
                   /\ b <= sent[m].slot
                   /\ sent[m].counter = (sent[m].slot - b) % CounterMod
                   /\ b # bootSlot =>
                        sent[m].slot < bootSlot /\ sent[m].slot - b < Half
        BY <1>2 DEF SlotInv
      <4>2. sent[m].slot < slot /\ sent[m].slot \in Nat
        BY <1>2, SentIs DEF SlotInv
      <4>3. b \in 0..slot /\ sent[m].slot - b < Half
        BY <3>1, <3>2, <4>1, <4>2
      <4>4. QED
        BY <4>1, <4>2, <4>3
    <3>4. SlotInv'
      BY <1>2, <3>1, <3>2, <3>3 DEF SlotInv
    <3>5. GapInv'
      BY <1>2, <3>1, <3>2 DEF GapInv
    <3>6. QED
      BY <3>4, <3>5
  <2>3. ASSUME /\ sent' = sent /\ slot' = slot /\ net' = net
               /\ bootSlot' = bootSlot /\ boot' = boot
        PROVE  SlotInv' /\ GapInv'
    BY <1>2, <2>3 DEF SlotInv, GapInv
  <2>4. ASSUME NEW m \in DOMAIN sent, NEW i \in Datagrams(m), Arrive(m, i)
        PROVE  SlotInv' /\ GapInv'
    BY <2>3, <2>4 DEF Arrive, sensor
  <2>5. CASE InvalidTpHeader
    BY <2>3, <2>5 DEF InvalidTpHeader, sensor
  <2>6. CASE StopAndInit
    BY <2>3, <2>6 DEF StopAndInit, sensor
  <2>7. CASE UNCHANGED vars
    BY <2>3, <2>7 DEF vars, stream, sensor
  <2>8. QED
    BY <1>2, <2>1, <2>2, <2>4, <2>5, <2>6, <2>7 DEF Next
<1>3. QED
  BY <1>1, <1>2

-----------------------------------------------------------------------------
(* Loss: what is counted *)

(* A message consumed in one piece is not delivered, or it is and counts   *)
(* if it need not be valid or is.                                          *)
LEMMA ConsumeIs ==
  ASSUME StreamInv, NEW m \in DOMAIN sent, Consume(Whole(m))
  PROVE  \/ UNCHANGED <<loss, delivered>>
         \/ \E valid \in BOOLEAN :
              /\ delivered' = Append(delivered,
                                [msg |-> m, whole |-> TRUE, valid |-> valid])
              /\ \/ (config.validate => valid) /\ TrackRdiLoss(sent[m].counter)
                 \/ ~(config.validate => valid) /\ UNCHANGED loss
<1> DEFINE payload == Whole(m)
           ok      == E2eOk(payload)
           v       == config.validate /\ ok
<1>1. payload[1] = m /\ config.validate \in BOOLEAN
  <2>1. config.validate \in BOOLEAN
    BY NetIs DEF StreamInv, TypeOK
  <2>2. QED
    BY <2>1, WholeIs
<1>2. CASE UNCHANGED <<loss, delivered>>
  BY <1>2
<1>3. CASE ~UNCHANGED <<loss, delivered>>
  <2>1. /\ delivered' = Append(delivered, [msg   |-> payload[1],
                                           whole |-> payload = Whole(payload[1]),
                                           valid |-> v])
        /\ IF TracksLoss(payload) THEN TrackRdiLoss(sent[payload[1]].counter)
                                  ELSE UNCHANGED loss
    BY <1>3 DEF Consume
  <2>2. TracksLoss(payload) <=> (config.validate => v)
    BY DEF TracksLoss
  <2>3. v \in BOOLEAN
    BY DEF E2eOk
  <2>4. (payload = Whole(payload[1])) = TRUE
    BY <1>1
  <2> HIDE DEF payload, v
  <2>5. delivered' = Append(delivered, [msg |-> m, whole |-> TRUE, valid |-> v])
    BY <1>1, <2>1, <2>4
  <2>6. \/ (config.validate => v) /\ TrackRdiLoss(sent[m].counter)
        \/ ~(config.validate => v) /\ UNCHANGED loss
    BY <1>1, <2>1, <2>2
  <2>7. QED
    BY <2>3, <2>5, <2>6
<1>4. QED
  BY <1>2, <1>3

(* In order, a datagram is of a message after all that were delivered.     *)
LEMMA ArrivesAfter ==
  ASSUME StreamInv, InOrderInv, ~net.reorders,
         NEW m \in DOMAIN sent, NEW i \in Datagrams(m), Arrive(m, i)
  PROVE  /\ \A k \in DOMAIN delivered : delivered[k].msg < m
         /\ last[1] = m => last[2] * MaxSegment <= (i - 1) * MaxSegment
<1>1. /\ m \in Nat /\ i \in 1..sent[m].size /\ (i - 1) * MaxSegment < sent[m].size
      /\ sent[m].size \in Nat /\ MaxSegment \in Nat
  BY SentIs, ReassemblerAssumption DEF Datagrams
<1>2. /\ last[1] \in Nat /\ last[2] \in Nat
      /\ m > last[1] \/ (m = last[1] /\ i > last[2])
  <2>1. last[1] \in Nat /\ last[2] \in Nat
    BY DEF StreamInv, HistoryInv
  <2>2. After(<<m, i>>, last)
    BY DEF Arrive
  <2>3. QED
    BY <2>1, <2>2 DEF After
<1>3. last[1] = m => last[2] * MaxSegment <= (i - 1) * MaxSegment
  <2>1. SUFFICES ASSUME last[1] = m
                 PROVE  last[2] * MaxSegment <= (i - 1) * MaxSegment
    OBVIOUS
  <2>2. i - 1 \in Nat /\ last[2] <= i - 1
    BY <1>1, <1>2, <2>1
  <2>3. QED
    BY <1>1, <1>2, <2>2, Products
<1>4. ASSUME NEW k \in DOMAIN delivered
      PROVE  delivered[k].msg < m
  <2> DEFINE d == delivered[k].msg
  <2>1. /\ d \in DOMAIN sent /\ d <= last[1]
        /\ d = last[1] => sent[d].size <= last[2] * MaxSegment
    BY DEF InOrderInv
  <2>2. d \in Nat
    BY <2>1, SentIs
  <2> HIDE DEF d
  <2>3. CASE d = m
    <3>1. last[1] = m
      BY <1>1, <1>2, <2>1, <2>3
    <3>2. sent[m].size <= (i - 1) * MaxSegment
      <4>1. /\ sent[m].size <= last[2] * MaxSegment /\ sent[m].size \in Nat
            /\ last[2] * MaxSegment <= (i - 1) * MaxSegment
            /\ last[2] * MaxSegment \in Nat
        BY <1>1, <1>2, <1>3, <2>1, <2>3, <3>1, Products
      <4>2. (i - 1) * MaxSegment \in Int
        BY <1>1
      <4>3. QED
        BY <4>1, <4>2
    <3>3. (i - 1) * MaxSegment \in Int
      BY <1>1
    <3>4. QED
      BY <1>1, <3>2, <3>3
  <2>4. CASE d # m
    BY <1>1, <1>2, <2>1, <2>2, <2>4 DEF d
  <2>5. QED
    BY <2>3, <2>4
<1>5. QED
  BY <1>3, <1>4

(* The list of deliveries, when it grows.                                  *)
LEMMA DeliveredIs ==
  ASSUME StreamInv, NEW r, delivered' = Append(delivered, r)
  PROVE  \A k \in DOMAIN delivered' :
           \/ k \in DOMAIN delivered /\ delivered'[k] = delivered[k]
           \/ delivered'[k] = r
<1>1. PICK R : delivered \in Seq(R)
  BY DEF StreamInv, HistoryInv
<1>2. /\ DOMAIN delivered' = 1..Len(delivered) + 1
      /\ DOMAIN delivered = 1..Len(delivered) /\ Len(delivered) \in Nat
      /\ \A k \in DOMAIN delivered : delivered'[k] = delivered[k]
      /\ delivered'[Len(delivered) + 1] = r
  BY <1>1, AppendIs
<1>3. QED
  BY <1>2

(* What is held still lies before the last datagram, and a message that is *)
(* delivered has no datagram to come.                                      *)
LEMMA ArriveKeepsOrder ==
  ASSUME RestartsBetween, StreamInv, OneMessageInv, InOrderInv,
         NEW m \in DOMAIN sent, NEW i \in Datagrams(m), Arrive(m, i)
  PROVE  InOrderInv'
<1> DEFINE s   == Segment(m, i)
           fed == Feed(tp, s)
           size == sent[m].size
<1>1. /\ net' = net /\ sent' = sent /\ last' = <<m, i>>
  BY DEF Arrive, sensor
<1> SUFFICES ASSUME ~net.reorders
             PROVE  InOrderInv'
  BY <1>1 DEF InOrderInv
<1>2. /\ i \in Nat \ {0} /\ MaxSegment \in Nat /\ m \in Nat
      /\ size \in Nat \ {0} /\ sent[m].session # 0
  BY SentIs, ReassemblerAssumption DEF Datagrams
<1>3. /\ (i - 1) * MaxSegment \in Nat /\ i * MaxSegment \in Nat
      /\ i * MaxSegment = (i - 1) * MaxSegment + MaxSegment
  <2>1. i - 1 \in Nat /\ i = (i - 1) + 1 /\ 1 * MaxSegment = MaxSegment
    BY <1>2
  <2>2. ((i - 1) + 1) * MaxSegment = (i - 1) * MaxSegment + 1 * MaxSegment
    BY <1>2, <2>1, Products
  <2>3. (i - 1) * MaxSegment \in Nat /\ i * MaxSegment \in Nat
    BY <1>2, <2>1, Products
  <2>4. QED
    BY <2>1, <2>2, <2>3
<1>4. /\ End(s) \in 1..size /\ s.begin \in Nat /\ s.session = sent[m].session
      /\ End(s) <= i * MaxSegment
      /\ ~s.more => size <= i * MaxSegment
  <2>1. /\ s.begin = (i - 1) * MaxSegment /\ End(s) \in 1..size
        /\ s.session = sent[m].session
        /\ ~s.more => End(s) = size
        /\ s.more => End(s) = s.begin + MaxSegment
    BY SegmentIs
  <2>2. ~s.more => (i - 1) * MaxSegment + MaxSegment >= size
    <3>1. s.more <=> (i - 1) * MaxSegment + MaxSegment < size
      BY DEF Segment
    <3> HIDE DEF s
    <3> DEFINE begin == (i - 1) * MaxSegment
    <3>2. begin \in Nat /\ (s.more <=> begin + MaxSegment < size)
      BY <1>3, <3>1
    <3> HIDE DEF begin
    <3>3. ~s.more => begin + MaxSegment >= size
      BY <1>2, <3>2
    <3>4. QED
      BY <3>3 DEF begin
  <2> HIDE DEF s
  <2>3. QED
    BY <1>2, <1>3, <2>1, <2>2
<1>5. \/ ~Segmented(m) /\ tp'.session = 0 /\ Consume(Whole(m))
      \/ /\ Segmented(m) /\ Sound(fed) /\ Puts(tp, s, fed)
         /\ Same(tp, s) => last[1] = m
         /\ fed.expected \in {0, size}
         /\ \/ fed.complete /\ tp' = Reset(fed) /\ Consume(Whole(m))
            \/ ~fed.complete /\ tp' = fed /\ UNCHANGED delivered
  BY ArriveIs
<1>6. /\ \A k \in DOMAIN delivered :
           delivered[k].msg < m /\ delivered[k].msg \in DOMAIN sent
      /\ last[1] = m => last[2] * MaxSegment <= (i - 1) * MaxSegment
  BY ArrivesAfter DEF InOrderInv
<1> HIDE DEF fed, s
<1>7. ASSUME Puts(tp, s, fed), Same(tp, s) => last[1] = m, NEW p \in Covered(fed)
      PROVE  p < i * MaxSegment
  <2>1. CASE p \in s.begin..End(s) - 1
    BY <1>2, <1>3, <1>4, <2>1
  <2>2. CASE p \notin s.begin..End(s) - 1
    <3>1. Same(tp, s) /\ p \in Covered(tp)
      BY <1>7, <2>2 DEF Puts
    <3>2. tp.session # 0
      BY <1>2, <1>4, <3>1 DEF Same
    <3>3. p < last[2] * MaxSegment /\ last[2] * MaxSegment <= (i - 1) * MaxSegment
      BY <1>6, <1>7, <3>1, <3>2 DEF InOrderInv
    <3>4. p \in Int /\ last[2] * MaxSegment \in Int
      <4>1. last[2] \in Nat
        BY DEF StreamInv, HistoryInv
      <4>2. p \in Nat
        BY <3>1, SoundIsInv DEF StreamInv, Sound
      <4>3. QED
        BY <1>2, <4>1, <4>2, Products
    <3>5. QED
      BY <1>2, <1>3, <3>3, <3>4
  <2>3. QED
    BY <2>1, <2>2
<1>8. tp'.session # 0 => \A p \in Covered(tp') : p < i * MaxSegment
  <2>1. CASE ~Segmented(m) /\ tp'.session = 0
    BY <2>1
  <2>2. CASE Sound(fed) /\ tp' = Reset(fed)
    <3>1. tp'.session = 0
      BY <2>2, ResetIs DEF Sound
    <3>2. QED
      BY <3>1
  <2>3. CASE Puts(tp, s, fed) /\ (Same(tp, s) => last[1] = m) /\ tp' = fed
    BY <1>7, <2>3
  <2>4. QED
    BY <1>5, <2>1, <2>2, <2>3
<1>9. Consume(Whole(m)) /\ delivered' # delivered => size <= i * MaxSegment
  <2>1. CASE ~Segmented(m)
    BY <1>2, <1>3, <2>1 DEF Segmented
  <2>2. CASE /\ Puts(tp, s, fed) /\ (Same(tp, s) => last[1] = m)
             /\ fed.expected \in {0, size} /\ fed.complete
    <3>1. fed.expected = size /\ Covered(fed) = 0..size - 1
      BY <2>2 DEF Puts
    <3>2. size - 1 \in Covered(fed)
      BY <1>2, <3>1
    <3>3. size - 1 < i * MaxSegment
      BY <1>7, <2>2, <3>2
    <3>4. QED
      BY <1>2, <1>3, <3>3
  <2>3. CASE UNCHANGED delivered
    BY <2>3
  <2>4. QED
    BY <1>5, <2>1, <2>2, <2>3
<1>10. ASSUME NEW k \in DOMAIN delivered'
       PROVE  LET x == delivered'[k].msg
              IN  /\ x \in DOMAIN sent /\ x <= m
                  /\ x = m => sent[x].size <= i * MaxSegment
  <2>1. CASE k \in DOMAIN delivered /\ delivered'[k] = delivered[k]
    <3>1. delivered[k].msg \in Nat /\ delivered[k].msg < m
      BY <1>6, <2>1, SentIs
    <3>2. QED
      BY <1>2, <1>6, <2>1, <3>1
  <2>2. CASE delivered' # delivered /\ delivered'[k].msg = m /\ Consume(Whole(m))
    BY <1>2, <1>9, <2>2
  <2>3. CASE UNCHANGED delivered
    BY <1>10, <2>1, <2>3
  <2>4. CASE Consume(Whole(m)) /\ delivered' # delivered
    <3>1. PICK valid \in BOOLEAN :
            delivered' = Append(delivered,
                                [msg |-> m, whole |-> TRUE, valid |-> valid])
      BY <2>4, ConsumeIs
    <3>2. \/ k \in DOMAIN delivered /\ delivered'[k] = delivered[k]
          \/ delivered'[k] = [msg |-> m, whole |-> TRUE, valid |-> valid]
      BY <3>1, DeliveredIs
    <3>3. QED
      BY <2>1, <2>2, <2>4, <3>2
  <2>5. QED
    BY <1>5, <2>3, <2>4
<1>11. last'[1] = m /\ last'[2] = i
  BY <1>1
<1>12. Covered(tp)' = Covered(tp')
  BY DEF Covered
<1>13. QED
  BY <1>1, <1>8, <1>10, <1>11, <1>12 DEF InOrderInv

(* Each frame that counts adds one and the slots between it and the last.  *)
LEMMA ArriveKeepsCount ==
  ASSUME RestartsBetween, StreamInv, OneMessageInv, InOrderInv, GapInv, CountInv,
         NEW m \in DOMAIN sent, NEW i \in Datagrams(m), Arrive(m, i)
  PROVE  CountInv'
<1>1. /\ net' = net /\ config' = config /\ sent' = sent /\ boot' = boot
  BY DEF Arrive, sensor
<1> SUFFICES ASSUME ~net.reorders
             PROVE  CountInv'
  BY <1>1 DEF CountInv
<1>2. \A k \in DOMAIN delivered : delivered[k].msg < m
  BY ArrivesAfter
<1>3. UNCHANGED <<loss, delivered>> \/ Consume(Whole(m))
  BY ArriveIs
<1>4. ASSUME Counted' = Counted, UNCHANGED loss
      PROVE  CountInv'
  BY <1>1, <1>4 DEF CountInv, loss
<1>5. CASE UNCHANGED <<loss, delivered>>
  <2>1. Counted' = Counted
    BY <1>1, <1>5 DEF Counted
  <2>2. QED
    BY <1>4, <1>5, <2>1
<1>6. ASSUME NEW valid \in BOOLEAN,
             delivered' = Append(delivered,
                            [msg |-> m, whole |-> TRUE, valid |-> valid])
      PROVE  Counted' = IF config.validate => valid THEN Counted \cup {m}
                                                    ELSE Counted
  <2> DEFINE r == [msg |-> m, whole |-> TRUE, valid |-> valid]
             n == Len(delivered) + 1
  <2>1. r.msg = m /\ r.valid = valid
    OBVIOUS
  <2>2. PICK R : delivered \in Seq(R)
    BY DEF StreamInv, HistoryInv
  <2> HIDE DEF r
  <2>3. /\ \A k \in DOMAIN delivered :
             k \in DOMAIN delivered' /\ delivered'[k] = delivered[k]
        /\ n \in DOMAIN delivered' /\ delivered'[n] = r
    <3>1. Len(delivered) \in Nat
      BY <2>2
    <3>2. delivered' = Append(delivered, r)
      BY <1>6 DEF r
    <3>3. QED
      BY <2>2, <3>1, <3>2, AppendIs
  <2>4. \A k \in DOMAIN delivered' :
          \/ k \in DOMAIN delivered /\ delivered'[k] = delivered[k]
          \/ delivered'[k] = r
    BY <1>6, DeliveredIs DEF r
  <2> HIDE DEF n
  <2>5. ASSUME NEW x
        PROVE  x \in Counted' <=> x \in Counted \/ (x = m /\ (config.validate => valid))
    BY <1>1, <2>1, <2>3, <2>4 DEF Counted
  <2>6. QED
    BY <2>5
<1>7. ASSUME TrackRdiLoss(sent[m].counter), Counted' = Counted \cup {m}
      PROVE  CountInv'
  <2>1. /\ total' = total + 1 /\ firstRdi' = FALSE
        /\ lastCounter' = sent[m].counter
        /\ lost' = IF firstRdi THEN lost ELSE lost + Missed(sent[m].counter)
    BY <1>7 DEF TrackRdiLoss
  <2>2. \A x \in Counted : x \in DOMAIN sent /\ x \in Nat /\ x < m
    <3>1. \A x \in Counted : x \in DOMAIN sent /\ x < m
      BY <1>2 DEF Counted
    <3>2. QED
      BY <3>1, SentIs
  <2>3. m \in Nat /\ sent[m].slot \in Nat
    BY SentIs
  <2>4. /\ total \in Nat /\ lost \in Nat /\ boot \in Nat
    BY NetIs DEF StreamInv, TypeOK
  <2>5. CASE Counted = {} /\ firstRdi /\ total = 0 /\ lost = 0
    <3>1. Counted' = {m} /\ Cardinality(Counted') = 1
      <4>1. Counted' = {} \cup {m} /\ Counted' = {m}
        BY <1>7, <2>5
      <4>2. QED
        BY <4>1, FS_Singleton
    <3>2. /\ total' = 1 /\ lost' = 0 /\ firstRdi' = FALSE
      BY <2>1, <2>5
    <3>3. /\ sent'[m].slot - sent'[m].slot + 1 = 1
      BY <1>1, <2>3
    <3>4. QED
      BY <1>1, <2>1, <2>3, <3>1, <3>2, <3>3 DEF CountInv
  <2>6. CASE ~firstRdi /\ total = Cardinality(Counted) /\ Counted # {}
    <3>1. PICK a, b \in Counted :
            LET span == sent[b].slot - sent[a].slot + 1
            IN  /\ \A x \in Counted : a <= x /\ x <= b
                /\ lastCounter = sent[b].counter
                /\ lost <= span - total
                /\ boot = 1 => lost = span - total
      BY <2>6 DEF CountInv
    <3> DEFINE gap   == sent[m].slot - sent[b].slot
               delta == (sent[m].counter - sent[b].counter) % CounterMod
    <3>2. /\ gap \in 1..Half - 1
          /\ boot = 1 => delta = gap
          /\ delta <= gap \/ delta >= Half
      BY <2>2 DEF GapInv
    <3>3. delta \in Nat /\ Half \in Nat
      <4>1. /\ sent[m].counter - sent[b].counter \in Int
            /\ CounterMod \in Nat \ {0}
        BY <2>2, SentIs, HalfIs
      <4>2. QED
        BY <4>1, HalfIs
    <3>4. Missed(sent[m].counter) = IF delta = 0 \/ delta >= Half THEN 0 ELSE delta - 1
      BY <3>1 DEF Missed
    <3>5. sent[a].slot \in Nat /\ sent[b].slot \in Nat
      BY <2>2, SentIs
    <3>6. Cardinality(Counted') = total + 1
      <4>1. IsFiniteSet(Counted)
        <5>1. DOMAIN sent = 1..Len(sent) /\ Len(sent) \in Int
          BY DEF StreamInv, HistoryInv
        <5>2. IsFiniteSet(DOMAIN sent)
          BY <5>1, FS_Interval
        <5>3. QED
          BY <5>2, FS_Subset DEF Counted
      <4>2. m \notin Counted
        BY <2>2, <2>3
      <4>3. QED
        BY <1>7, <2>6, <4>1, <4>2, FS_AddElement
    <3> HIDE DEF gap, delta
    <3>7. lost' = lost + (IF delta = 0 \/ delta >= Half THEN 0 ELSE delta - 1)
      BY <2>1, <2>6, <3>4
    <3>8. sent[m].slot = sent[b].slot + gap /\ gap \in Int
      BY <2>3, <3>5 DEF gap
    <3>9. LET span == sent[m].slot - sent[a].slot + 1
          IN  /\ lost' <= span - total'
              /\ boot = 1 => lost' = span - total'
      <4> DEFINE missed == IF delta = 0 \/ delta >= Half THEN 0 ELSE delta - 1
      <4>1. missed \in Int /\ missed <= gap - 1 /\ (boot = 1 => missed = gap - 1)
        BY <3>2, <3>3
      <4>2. lost' = lost + missed /\ total' = total + 1
        BY <2>1, <3>7
      <4> HIDE DEF missed
      <4>3. QED
        BY <2>4, <3>1, <3>5, <3>8, <4>1, <4>2
    <3>10. \A x \in Counted' : a <= x /\ x <= m
      <4>1. a <= m
        BY <2>2, <2>3
      <4>2. QED
        BY <1>7, <2>2, <2>3, <3>1, <4>1
    <3>11. a \in Counted' /\ m \in Counted'
      BY <1>7
    <3>12. QED
      BY <1>1, <2>1, <3>6, <3>9, <3>10, <3>11 DEF CountInv
  <2>7. QED
    BY <2>5, <2>6 DEF CountInv
<1>8. CASE Consume(Whole(m)) /\ ~UNCHANGED <<loss, delivered>>
  <2>1. PICK valid \in BOOLEAN :
          /\ delivered' = Append(delivered,
                            [msg |-> m, whole |-> TRUE, valid |-> valid])
          /\ \/ (config.validate => valid) /\ TrackRdiLoss(sent[m].counter)
             \/ ~(config.validate => valid) /\ UNCHANGED loss
    BY <1>8, ConsumeIs
  <2>2. Counted' = IF config.validate => valid THEN Counted \cup {m} ELSE Counted
    BY <1>6, <2>1
  <2>3. QED
    BY <1>4, <1>7, <2>1, <2>2
<1>9. QED
  BY <1>3, <1>5, <1>8

(* The order and the counts, at the start and after every step.            *)
LEMMA NextLoss ==
  ASSUME RestartsBetween, BelowHalf
  PROVE  /\ Init => LossInv
         /\ StreamInv /\ OneMessageInv /\ LossInv /\ [Next]_vars => LossInv'
<1>1. Init => LossInv
  <2>1. ASSUME Init
        PROVE  InOrderInv /\ CountInv
    BY <2>1 DEF Init, Fresh, InOrderInv, CountInv, Counted
  <2>2. QED
    BY <2>1, NextGap DEF LossInv
<1>2. ASSUME StreamInv, OneMessageInv, LossInv, [Next]_vars
      PROVE  LossInv'
  <2>1. SlotInv' /\ GapInv'
    BY <1>2, NextGap DEF LossInv
  <2>2. InOrderInv /\ CountInv /\ GapInv
    BY <1>2 DEF LossInv
  <2> SUFFICES InOrderInv' /\ CountInv'
    BY <2>1 DEF LossInv
  <2>3. ASSUME NEW size \in net.sizes, NEW skipped \in 0..net.maxSkip,
               NEW intact \in net.intact, SendMessage(size, skipped, intact)
        PROVE  InOrderInv' /\ CountInv'
    <3>1. /\ tp' = tp /\ last' = last /\ delivered' = delivered
          /\ config' = config /\ net' = net /\ boot' = boot
          /\ firstRdi' = firstRdi /\ lastCounter' = lastCounter
          /\ total' = total /\ lost' = lost
      BY <2>3 DEF SendMessage, stream, loss, network
    <3>2. \A m \in DOMAIN sent : m \in DOMAIN sent' /\ sent'[m] = sent[m]
      <4>1. PICK e : sent' = Append(sent, e)
        BY <2>3 DEF SendMessage
      <4>2. PICK R : sent \in Seq(R)
        BY <1>2 DEF StreamInv, HistoryInv
      <4>3. QED
        BY <4>1, <4>2, AppendIs
    <3>3. Covered(tp)' = Covered(tp)
      BY <3>1 DEF Covered
    <3>4. InOrderInv'
      BY <2>2, <3>1, <3>2, <3>3 DEF InOrderInv
    <3>5. ~net.reorders => Counted' = Counted
      BY <2>2, <3>1, <3>2 DEF InOrderInv, Counted
    <3>6. \A m \in Counted : sent'[m] = sent[m]
      BY <3>2 DEF Counted
    <3>7. CountInv'
      BY <2>2, <3>1, <3>5, <3>6 DEF CountInv
    <3>8. QED
      BY <3>4, <3>7
  <2>4. ASSUME NEW m \in DOMAIN sent, NEW i \in Datagrams(m), Arrive(m, i)
        PROVE  InOrderInv' /\ CountInv'
    BY <1>2, <2>2, <2>4, ArriveKeepsOrder, ArriveKeepsCount
  <2>5. ASSUME /\ net' = net /\ config' = config
               /\ firstRdi' = firstRdi /\ lastCounter' = lastCounter
               /\ total' = total /\ lost' = lost
               /\ delivered' = delivered /\ last' = last /\ sent' = sent
               /\ boot' # 1 \/ boot' = boot
               /\ tp' = tp \/ tp'.session = 0
        PROVE  InOrderInv' /\ CountInv'
    <3>1. Counted' = Counted
      BY <2>5 DEF Counted
    <3>2. CountInv'
      BY <2>2, <2>5, <3>1 DEF CountInv
    <3>3. tp' = tp => Covered(tp)' = Covered(tp)
      BY DEF Covered
    <3>4. InOrderInv'
      BY <2>2, <2>5, <3>3 DEF InOrderInv
    <3>5. QED
      BY <3>2, <3>4
  <2>6. CASE InvalidTpHeader
    <3>1. tp'.session = 0
      BY <1>2, <2>6, ResetIs, SoundIsInv DEF InvalidTpHeader, StreamInv, Sound
    <3>2. QED
      BY <2>5, <2>6, <3>1 DEF InvalidTpHeader, loss, sensor
  <2>7. CASE StopAndInit
    BY <2>5, <2>7 DEF StopAndInit, loss, sensor, network
  <2>8. CASE Restart
    <3>1. boot' # 1
      BY <1>2, <2>8, NetIs DEF Restart, StreamInv, TypeOK
    <3>2. QED
      BY <2>5, <2>8, <3>1 DEF Restart, stream, loss, network
  <2>9. CASE UNCHANGED vars
    BY <2>5, <2>9 DEF vars, stream, loss, sensor, network
  <2>10. QED
    BY <1>2, <2>3, <2>4, <2>6, <2>7, <2>8, <2>9 DEF Next
<1>3. QED
  BY <1>1, <1>2

(* While the network keeps the order and the sensor does not restart, the  *)
(* loss statistics (TrackRdiLoss) are exact across the wrap of the Counter *)
(* and across Stop and Init; with restarts they never count a slot whose   *)
(* frame was delivered.                                                    *)
THEOREM CountsLossExactly ==
  ASSUME RestartsBetween, BelowHalf
  PROVE  Spec => []LossIsExact
<1>1. ASSUME StreamInv, LossInv
      PROVE  LossIsExact
  <2> SUFFICES ASSUME ~net.reorders, Counted # {}
               PROVE  /\ boot = 1 => /\ total = Cardinality(Counted)
                                     /\ lost = Span - Cardinality(Counted)
                      /\ lost <= Span - Cardinality(Counted)
    BY DEF LossIsExact
  <2>1. total = Cardinality(Counted)
    BY <1>1 DEF LossInv, CountInv
  <2>2. PICK a, b \in Counted :
          LET span == sent[b].slot - sent[a].slot + 1
          IN  /\ \A x \in Counted : a <= x /\ x <= b
              /\ lost <= span - total
              /\ boot = 1 => lost = span - total
    BY <1>1 DEF LossInv, CountInv
  <2> DEFINE slots == {sent[x].slot : x \in Counted}
  <2>3. \A x \in Counted : x \in DOMAIN sent /\ x \in Nat /\ sent[x].slot \in Nat
    <3>1. Counted \subseteq DOMAIN sent
      BY DEF Counted
    <3>2. QED
      BY <1>1, <3>1, SentIs
  <2>4. \A x, y \in Counted : x <= y => sent[x].slot <= sent[y].slot
    <3>1. ASSUME NEW x \in Counted, NEW y \in Counted, x <= y
          PROVE  sent[x].slot <= sent[y].slot
      <4>1. CASE x = y
        BY <2>3, <4>1
      <4>2. CASE x < y
        <5>1. sent[y].slot - sent[x].slot \in 1..Half - 1
          BY <1>1, <2>3, <4>2 DEF LossInv, GapInv
        <5>2. QED
          BY <2>3, <5>1
      <4>3. QED
        BY <2>3, <3>1, <4>1, <4>2
    <3>2. QED
      BY <3>1
  <2>5. /\ slots \in SUBSET Int /\ sent[a].slot \in slots /\ sent[b].slot \in slots
        /\ \A y \in slots : sent[a].slot <= y /\ sent[b].slot >= y
    BY <2>2, <2>3, <2>4
  <2>6. Max(slots) = sent[b].slot
    BY <2>5, MaxIs
  <2>7. Min(slots) = sent[a].slot
    <3>1. \A x \in slots : (\A y \in slots : x =< y) => x = sent[a].slot
      BY <2>3, <2>5
    <3>2. QED
      BY <2>5, <3>1 DEF Min
  <2>8. Span = sent[b].slot - sent[a].slot + 1
    BY <2>6, <2>7 DEF Span
  <2>9. QED
    BY <2>1, <2>2, <2>8
<1>2. QED
  BY <1>1, StreamInvariant, NextOneMessage, NextLoss, PTL DEF Spec
=============================================================================
