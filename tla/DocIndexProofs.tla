--------------------------- MODULE DocIndexProofs ---------------------------
(***************************************************************************)
(* Proofs about DocIndex, for any contents, inodes, paths, ids and any     *)
(* number of changes: what is committed can be decoded, an overlay record  *)
(* stays with its doc, no file is found twice, and merges are invisible.   *)
(* And that the index comes to show the disk as it is: what a plan of      *)
(* reconcile says of every file and every doc, that a record with the stat *)
(* of a file tells what is in it, and from the two that an update which    *)
(* finds nothing to do has nothing to do, and that two undisturbed updates *)
(* repair what a disturbed one left behind.                                *)
(***************************************************************************)
EXTENDS DocIndex, FiniteSetTheorems, FunctionTheorems, WellFoundedInduction, TLAPS

-----------------------------------------------------------------------------
(* Induction, and functions defined by recursion over 0 .. N.              *)

LEMMA Least ==
    ASSUME NEW T \in SUBSET Nat, T # {}
    PROVE  \E m \in T : \A n \in T : m <= n
<1> DEFINE R == OpToRel(<, Nat)
<1>1. IsWellFoundedOn(R, Nat)
  BY NatLessThanWellFounded
<1>2. \A x, y \in Nat : <<x, y>> \in R <=> x < y
  BY DEF OpToRel
<1> HIDE DEF R
<1>3. PICK m \in T : \A n \in T : ~ (<<n, m>> \in R)
  <2>1. \E m \in T : \A n \in T : ~ (<<n, m>> \in R)
    BY <1>1, WFMin
  <2> QED
    BY <2>1
<1>4. \A n \in T : ~(n < m)
  BY <1>2, <1>3
<1>5. \A n \in T : m <= n
  BY <1>4
<1> QED
  BY <1>5

LEMMA Induction ==
    ASSUME NEW S \in SUBSET Nat, 0 \in S, \A n \in S : n + 1 \in S
    PROVE  \A n \in Nat : n \in S
<1> SUFFICES ASSUME Nat \ S # {} PROVE FALSE
  OBVIOUS
<1>1. PICK m \in Nat \ S : \A n \in Nat \ S : m <= n
  BY Least
<1>2. m # 0 /\ m - 1 \in Nat /\ m - 1 < m
  BY <1>1
<1>3. m - 1 \in S
  BY <1>1, <1>2
<1> QED
  BY <1>1, <1>2, <1>3

\* A step on a set V can be iterated.
Iterates(f, N, V, start, step) ==
    /\ f \in [0 .. N -> V]
    /\ f[0] = start
    /\ \A i \in 1 .. N : f[i] = step[i][f[i - 1]]

LEMMA Recursion ==
    ASSUME NEW N \in Nat, NEW V, NEW start \in V, NEW step \in [1 .. N -> [V -> V]]
    PROVE  \E f : Iterates(f, N, V, start, step)
<1> DEFINE Good(f, n) == Iterates(f, n, V, start, step)
           S == {n \in Nat : n <= N => \E f : Good(f, n)}
<1>1. 0 \in S
  <2>1. Good([i \in 0 .. 0 |-> start], 0)
    BY DEF Iterates
  <2> QED
    BY <2>1
<1>2. ASSUME NEW n \in S PROVE n + 1 \in S
  <2> SUFFICES ASSUME n + 1 <= N PROVE \E f : Good(f, n + 1)
    OBVIOUS
  <2>1. n \in Nat /\ n <= N /\ n + 1 \in 1 .. N
    OBVIOUS
  <2>2. PICK f : Good(f, n)
    BY <2>1
  <2>3. f \in [0 .. n -> V] /\ f[n] \in V /\ step[n + 1][f[n]] \in V
    BY <2>1, <2>2 DEF Iterates
  <2> DEFINE g == [i \in 0 .. (n + 1) |-> IF i = n + 1 THEN step[n + 1][f[n]] ELSE f[i]]
  <2>4. g \in [0 .. (n + 1) -> V] /\ g[0] = start
    BY <2>1, <2>2, <2>3 DEF Iterates
  <2>5. \A i \in 0 .. n : g[i] = f[i]
    BY <2>1
  <2>6. g[n + 1] = step[n + 1][f[n]]
    BY <2>1
  <2> HIDE DEF g
  <2>7. ASSUME NEW i \in 1 .. (n + 1) PROVE g[i] = step[i][g[i - 1]]
    <3>1. CASE i = n + 1
      BY <2>1, <2>5, <2>6, <3>1
    <3>2. CASE i # n + 1
      BY <2>1, <2>2, <2>5, <3>2 DEF Iterates
    <3> QED
      BY <3>1, <3>2
  <2>8. Good(g, n + 1)
    BY <2>4, <2>7 DEF Iterates
  <2> QED
    BY <2>8
<1> HIDE DEF S
<1>3. N \in S
  <2>1. S \in SUBSET Nat
    BY DEF S
  <2> QED
    BY <1>1, <1>2, <2>1, Induction
<1> QED
  BY <1>3 DEF S

-----------------------------------------------------------------------------
(* Subsequences.                                                           *)

\* h maps the positions of r to those of s it was taken from: those in keep,
\* in their order.
Takes(h, r, s, keep) ==
    /\ h \in [DOMAIN r -> keep \cap DOMAIN s]
    /\ \A i \in DOMAIN r : r[i] = s[h[i]]
    /\ \A i, j \in DOMAIN r : i < j => h[i] < h[j]
    /\ \A k \in keep \cap DOMAIN s : \E i \in DOMAIN r : h[i] = k

LEMMA SubFacts ==
    ASSUME NEW T, NEW s \in Seq(T), NEW keep
    PROVE  /\ Sub(s, keep) \in Seq(T)
           /\ \E h : Takes(h, Sub(s, keep), s, keep)
<1> DEFINE N == Len(s)
           step == [i \in 1 .. N |-> [x \in Seq(T) |-> IF i \in keep THEN Append(x, s[i]) ELSE x]]
           Rec(f) == f = [i \in 0 .. N |->
                            IF i = 0 THEN << >>
                            ELSE IF i \in keep THEN Append(f[i - 1], s[i]) ELSE f[i - 1]]
<1>1. N \in Nat /\ DOMAIN s = 1 .. N /\ \A i \in 1 .. N : s[i] \in T
  OBVIOUS
<1> HIDE DEF N
<1>2. \E f : Rec(f)
  <2>1. step \in [1 .. N -> [Seq(T) -> Seq(T)]]
    BY <1>1
  <2>2. << >> \in Seq(T)
    OBVIOUS
  <2>3. \A i \in 1 .. N, x \in Seq(T) : step[i][x] = IF i \in keep THEN Append(x, s[i]) ELSE x
    OBVIOUS
  <2> HIDE DEF step
  <2>4. PICK g : Iterates(g, N, Seq(T), << >>, step)
    BY <1>1, <2>1, <2>2, Recursion
  <2>5. ASSUME NEW i \in 0 .. N
        PROVE  g[i] = IF i = 0 THEN << >>
                      ELSE IF i \in keep THEN Append(g[i - 1], s[i]) ELSE g[i - 1]
    <3>1. CASE i = 0
      BY <2>4, <3>1 DEF Iterates
    <3>2. CASE i # 0
      <4>1. i \in 1 .. N /\ i - 1 \in 0 .. N
        BY <1>1, <3>2
      <4>2. g[i - 1] \in Seq(T)
        BY <2>4, <4>1 DEF Iterates
      <4>3. g[i] = step[i][g[i - 1]]
        BY <2>4, <4>1 DEF Iterates
      <4> QED
        BY <2>3, <3>2, <4>1, <4>2, <4>3
    <3> QED
      BY <3>1, <3>2
  <2>6. Rec(g)
    <3>1. g = [i \in 0 .. N |-> g[i]]
      BY <2>4 DEF Iterates
    <3> QED
      BY <2>5, <3>1
  <2> QED
    BY <2>6
<1> HIDE DEF step
<1> DEFINE f == CHOOSE f : Rec(f)
<1>3. Rec(f) /\ Sub(s, keep) = f[N]
  BY <1>2 DEF Sub, N
<1> HIDE DEF f
<1>4. /\ f[0] = << >>
      /\ \A n \in Nat : n + 1 \in 1 .. N =>
            f[n + 1] = IF n + 1 \in keep THEN Append(f[n], s[n + 1]) ELSE f[n]
  <2>1. \A i \in 0 .. N : f[i] = IF i = 0 THEN << >>
                               ELSE IF i \in keep THEN Append(f[i - 1], s[i]) ELSE f[i - 1]
    BY <1>3
  <2>2. 0 \in 0 .. N /\ \A n \in Nat : n + 1 # 0 /\ (n + 1) - 1 = n
    BY <1>1
  <2>3. \A n \in Nat : n + 1 \in 1 .. N => n + 1 \in 0 .. N
    BY <1>1
  <2> QED
    BY <2>1, <2>2, <2>3
<1> DEFINE Q(n) == f[n] \in Seq(T) /\ \E h : Takes(h, f[n], s, keep \cap (1 .. n))
           S == {n \in Nat : n <= N => Q(n)}
<1> HIDE DEF Q
<1>5. 0 \in S
  <2> DEFINE h == [i \in {} |-> 0]
  <2>1. DOMAIN << >> = {}
    OBVIOUS
  <2>2. Takes(h, << >>, s, keep \cap (1 .. 0))
    BY <2>1 DEF Takes
  <2>3. Q(0)
    BY <1>4, <2>2 DEF Q
  <2> QED
    BY <2>3
<1>6. ASSUME NEW n \in S PROVE n + 1 \in S
  <2> SUFFICES ASSUME n + 1 <= N PROVE Q(n + 1)
    OBVIOUS
  <2>1. n \in Nat /\ n + 1 \in 1 .. N /\ n + 1 \in DOMAIN s
    BY <1>1
  <2>2. f[n] \in Seq(T) /\ \E h : Takes(h, f[n], s, keep \cap (1 .. n))
    <3>1. Q(n)
      BY <1>1, <2>1
    <3> QED
      BY <3>1 DEF Q
  <2>3. PICK h : Takes(h, f[n], s, keep \cap (1 .. n))
    BY <2>2
  <2>4. CASE n + 1 \notin keep
    <3>1. f[n + 1] = f[n]
      BY <1>4, <2>1, <2>4
    <3>2. keep \cap (1 .. (n + 1)) = keep \cap (1 .. n)
      BY <2>1, <2>4
    <3> QED
      BY <2>2, <3>1, <3>2 DEF Q
  <2>5. CASE n + 1 \in keep
    <3> DEFINE r == f[n]
               t == f[n + 1]
               m == Len(r) + 1
               g == [i \in 1 .. m |-> IF i = m THEN n + 1 ELSE h[i]]
    <3>1. t = Append(r, s[n + 1]) /\ s[n + 1] \in T
      BY <1>1, <1>4, <2>1, <2>5
    <3> HIDE DEF r, t
    <3>2. r \in Seq(T) /\ Takes(h, r, s, keep \cap (1 .. n))
      BY <2>2, <2>3 DEF r
    <3>3. /\ t \in Seq(T) /\ DOMAIN t = 1 .. m /\ DOMAIN r = 1 .. (m - 1) /\ m \in Nat \ {0}
          /\ t[m] = s[n + 1] /\ \A i \in 1 .. (m - 1) : t[i] = r[i]
      BY <3>1, <3>2
    <3>4. \A i \in 1 .. (m - 1) : h[i] \in keep /\ h[i] \in DOMAIN s /\ h[i] \in 1 .. n
      BY <3>2, <3>3 DEF Takes
    <3>5. \A i \in 1 .. (m - 1) : g[i] = h[i] /\ g[m] = n + 1
      BY <3>3
    <3>6. g[m] = n + 1 /\ DOMAIN g = 1 .. m /\ g = [i \in 1 .. m |-> g[i]]
      BY <3>3
    <3> HIDE DEF g, m
    <3>7. \A i \in 1 .. m : i = m \/ i \in 1 .. (m - 1)
      BY <3>3
    <3>8. g \in [DOMAIN t -> (keep \cap (1 .. (n + 1))) \cap DOMAIN s]
      <4>1. \A i \in 1 .. m : g[i] \in (keep \cap (1 .. (n + 1))) \cap DOMAIN s
        <5>1. \A i \in 1 .. (m - 1) : g[i] \in (keep \cap (1 .. (n + 1))) \cap DOMAIN s
          BY <2>1, <3>4, <3>5
        <5>2. n + 1 \in (keep \cap (1 .. (n + 1))) \cap DOMAIN s
          BY <2>1, <2>5
        <5> QED
          BY <3>6, <3>7, <5>1, <5>2
      <4> QED
        BY <3>3, <3>6, <4>1
    <3>9. \A i \in DOMAIN t : t[i] = s[g[i]]
      BY <3>2, <3>3, <3>5, <3>6, <3>7 DEF Takes
    <3>10. \A i, j \in DOMAIN t : i < j => g[i] < g[j]
      <4> SUFFICES ASSUME NEW i \in 1 .. m, NEW j \in 1 .. m, i < j PROVE g[i] < g[j]
        BY <3>3
      <4>1. i \in 1 .. (m - 1)
        BY <3>3
      <4>2. g[i] = h[i] /\ h[i] \in 1 .. n
        BY <3>4, <3>5, <4>1
      <4>3. CASE j = m
        BY <2>1, <3>6, <4>2, <4>3
      <4>4. CASE j # m
        <5>1. j \in 1 .. (m - 1)
          BY <3>7, <4>4
        <5>2. h[i] < h[j] /\ g[j] = h[j]
          BY <3>2, <3>3, <3>5, <4>1, <5>1 DEF Takes
        <5> QED
          BY <4>2, <5>2
      <4> QED
        BY <4>3, <4>4
    <3>11. ASSUME NEW k \in (keep \cap (1 .. (n + 1))) \cap DOMAIN s
           PROVE  \E i \in DOMAIN t : g[i] = k
      <4>1. CASE k = n + 1
        BY <3>3, <3>6, <4>1
      <4>2. CASE k # n + 1
        <5>1. k \in (keep \cap (1 .. n)) \cap DOMAIN s
          BY <2>1, <4>2
        <5>2. PICK i \in DOMAIN r : h[i] = k
          BY <3>2, <5>1 DEF Takes
        <5> QED
          BY <3>3, <3>5, <5>2
      <4> QED
        BY <4>1, <4>2
    <3>12. Takes(g, t, s, keep \cap (1 .. (n + 1)))
      BY <3>8, <3>9, <3>10, <3>11 DEF Takes
    <3> QED
      BY <3>3, <3>12 DEF t, Q
  <2> QED
    BY <2>4, <2>5
<1> HIDE DEF S
<1>7. N \in S
  <2>1. S \in SUBSET Nat
    BY DEF S
  <2> QED
    BY <1>1, <1>5, <1>6, <2>1, Induction
<1>8. f[N] \in Seq(T) /\ \E h : Takes(h, f[N], s, keep \cap (1 .. N))
  <2>1. Q(N)
    BY <1>1, <1>7 DEF S
  <2> QED
    BY <2>1 DEF Q
<1>9. PICK h : Takes(h, f[N], s, keep \cap (1 .. N))
  BY <1>8
<1>10. (keep \cap (1 .. N)) \cap DOMAIN s = keep \cap DOMAIN s
  BY <1>1
<1>11. Takes(h, f[N], s, keep)
  BY <1>9, <1>10 DEF Takes
<1> QED
  BY <1>3, <1>8, <1>11

-----------------------------------------------------------------------------
(* Segments in a row, as a manifest has them.                              *)

Row(S) ==
    /\ S \in Seq(Segment)
    /\ \A i \in DOMAIN S : S[i].dead \subseteq DOMAIN S[i].docs
    /\ \A i, j \in DOMAIN S : i < j => /\ end_doc(S[i]) <= S[j].base_doc
                                       /\ S[i].segment_id # S[j].segment_id

\* LiveIds, Recorded, SegmentById and id_bound, of any row.
Live(S) == UNION {{IdOf(s, l) : l \in LiveLocals(s)} : s \in {S[i] : i \in DOMAIN S}}
With(S, id) == CHOOSE s \in {S[i] : i \in DOMAIN S} : id \in s.base_doc .. (end_doc(s) - 1)
RecordIn(S, id) == LET s == With(S, id) IN s.docs[id - s.base_doc + 1]
ById(S, n) == CHOOSE seg \in {S[i] : i \in DOMAIN S} : seg.segment_id = n
Bound(S) == Max({0} \cup {end_doc(S[i]) : i \in DOMAIN S})

LEMMA Rows ==
    /\ LiveIds = Live(segments)
    /\ \A id : Recorded(id) = RecordIn(segments, id)
    /\ \A n : SegmentById(n) = ById(segments, n)
    /\ id_bound = Bound(segments)
BY DEF LiveIds, Live, Recorded, RecordIn, SegmentWith, With, SegmentById, ById, id_bound, Bound

LEMMA RowFacts ==
    ASSUME NEW S, Row(S), NEW i \in DOMAIN S
    PROVE  /\ S[i] \in Segment /\ S[i].segment_id \in Nat /\ S[i].base_doc \in Nat
           /\ S[i].docs \in Seq(Doc) /\ Len(S[i].docs) \in Nat
           /\ DOMAIN S[i].docs = 1 .. Len(S[i].docs)
           /\ end_doc(S[i]) \in Nat /\ S[i].base_doc <= end_doc(S[i])
           /\ i \in Nat
           /\ LiveLocals(S[i]) \subseteq DOMAIN S[i].docs
<1>1. S[i] \in Segment /\ i \in Nat
  BY DEF Row
<1>2. S[i].segment_id \in Nat /\ S[i].base_doc \in Nat /\ S[i].docs \in Seq(Doc)
  BY <1>1 DEF Segment
<1>3. Len(S[i].docs) \in Nat /\ DOMAIN S[i].docs = 1 .. Len(S[i].docs)
  BY <1>2
<1> QED
  BY <1>1, <1>2, <1>3 DEF end_doc, LiveLocals

\* The ids of a doc lie in the range of its segment.
LEMMA InRange ==
    ASSUME NEW S, Row(S), NEW i \in DOMAIN S, NEW l \in DOMAIN S[i].docs
    PROVE  /\ IdOf(S[i], l) \in Nat /\ l \in Nat
           /\ S[i].base_doc <= IdOf(S[i], l) /\ IdOf(S[i], l) < end_doc(S[i])
           /\ IdOf(S[i], l) \in S[i].base_doc .. (end_doc(S[i]) - 1)
           /\ IdOf(S[i], l) - S[i].base_doc + 1 = l
<1>1. S[i].base_doc \in Nat /\ Len(S[i].docs) \in Nat /\ l \in 1 .. Len(S[i].docs)
  BY RowFacts
<1> QED
  BY <1>1 DEF IdOf, end_doc

\* An id is in the range of one segment.
LEMMA OneRange ==
    ASSUME NEW S, Row(S), NEW i \in DOMAIN S, NEW j \in DOMAIN S, NEW id,
           id \in S[i].base_doc .. (end_doc(S[i]) - 1),
           id \in S[j].base_doc .. (end_doc(S[j]) - 1)
    PROVE  i = j
<1>1. /\ S[i].base_doc \in Nat /\ end_doc(S[i]) \in Nat /\ i \in Nat
      /\ S[j].base_doc \in Nat /\ end_doc(S[j]) \in Nat /\ j \in Nat
  BY RowFacts
<1>2. S[i].base_doc <= id /\ id < end_doc(S[i]) /\ S[j].base_doc <= id /\ id < end_doc(S[j]) /\ id \in Int
  BY <1>1
<1>3. ~(i < j)
  BY <1>1, <1>2 DEF Row
<1>4. ~(j < i)
  BY <1>1, <1>2 DEF Row
<1> QED
  BY <1>1, <1>3, <1>4

\* An id belongs to one doc.
LEMMA OneDoc ==
    ASSUME NEW S, Row(S), NEW i \in DOMAIN S, NEW l \in DOMAIN S[i].docs,
           NEW j \in DOMAIN S, NEW m \in DOMAIN S[j].docs,
           IdOf(S[i], l) = IdOf(S[j], m)
    PROVE  i = j /\ l = m
<1>1. i = j
  BY InRange, OneRange
<1> QED
  BY <1>1, InRange

LEMMA RecordAt ==
    ASSUME NEW S, Row(S), NEW i \in DOMAIN S, NEW l \in DOMAIN S[i].docs
    PROVE  RecordIn(S, IdOf(S[i], l)) = S[i].docs[l]
<1> DEFINE id == IdOf(S[i], l)
           Here(s) == id \in s.base_doc .. (end_doc(s) - 1)
           All == {S[k] : k \in DOMAIN S}
<1>1. S[i] \in All /\ Here(S[i])
  BY InRange
<1>2. With(S, id) = CHOOSE s \in All : Here(s)
  BY DEF With
<1>3. With(S, id) \in All /\ Here(With(S, id))
  <2> HIDE DEF All, Here
  <2> QED
    BY <1>1, <1>2
<1>4. PICK k \in DOMAIN S : With(S, id) = S[k]
  BY <1>3
<1>5. k = i
  BY <1>1, <1>3, <1>4, OneRange
<1> QED
  BY <1>4, <1>5, InRange DEF RecordIn

LEMMA ByIdAt ==
    ASSUME NEW S, Row(S), NEW i \in DOMAIN S
    PROVE  ById(S, S[i].segment_id) = S[i]
<1> DEFINE n == S[i].segment_id
           All == {S[k] : k \in DOMAIN S}
<1>1. ById(S, n) \in All /\ ById(S, n).segment_id = n
  BY DEF ById
<1>2. PICK k \in DOMAIN S : ById(S, n) = S[k]
  BY <1>1
<1>3. i \in Nat /\ k \in Nat
  BY RowFacts
<1>4. k = i
  BY <1>1, <1>2, <1>3 DEF Row
<1> QED
  BY <1>2, <1>4

LEMMA LiveAt ==
    ASSUME NEW S, NEW id
    PROVE  id \in Live(S) <=> \E i \in DOMAIN S : \E l \in LiveLocals(S[i]) : id = IdOf(S[i], l)
BY DEF Live

LEMMA MaxOf ==
    ASSUME NEW S \in SUBSET Int, NEW m \in S, \A y \in S : m >= y
    PROVE  Max(S) = m
<1>1. Max(S) \in S /\ \A y \in S : Max(S) >= y
  <2>1. \E x \in S : \A y \in S : x >= y
    OBVIOUS
  <2> QED
    BY <2>1 DEF Max
<1>2. Max(S) \in Int
  BY <1>1
<1>3. Max(S) >= m /\ m >= Max(S)
  BY <1>1
<1> QED
  BY <1>2, <1>3

\* The bound is where the last segment ends.
LEMMA BoundIs ==
    ASSUME NEW S, Row(S)
    PROVE  /\ S = << >> => Bound(S) = 0
           /\ S # << >> => Len(S) \in DOMAIN S /\ Bound(S) = end_doc(S[Len(S)])
           /\ Bound(S) \in Nat
           /\ \A i \in DOMAIN S : end_doc(S[i]) <= Bound(S)
<1> DEFINE n == Len(S)
           E == {0} \cup {end_doc(S[i]) : i \in DOMAIN S}
<1>1. S \in Seq(Segment) /\ n \in Nat /\ DOMAIN S = 1 .. n
  BY DEF Row
<1>2. Bound(S) = Max(E)
  BY DEF Bound
<1>3. E \in SUBSET Int
  BY RowFacts
<1>4. CASE S = << >>
  <2>1. DOMAIN S = {}
    BY <1>4
  <2>2. 0 \in E /\ \A y \in E : 0 >= y
    BY <2>1
  <2> HIDE DEF E
  <2>3. Max(E) = 0
    BY <1>3, <2>2, MaxOf
  <2> QED
    BY <1>2, <1>4, <2>1, <2>3
<1>5. CASE S # << >>
  <2>1. n \in DOMAIN S
    BY <1>1, <1>5
  <2>2. \A i \in DOMAIN S : end_doc(S[i]) <= end_doc(S[n])
    <3> SUFFICES ASSUME NEW i \in DOMAIN S, i # n PROVE end_doc(S[i]) <= end_doc(S[n])
      BY <2>1, RowFacts
    <3>1. i < n
      BY <1>1
    <3>2. end_doc(S[i]) <= S[n].base_doc
      BY <2>1, <3>1 DEF Row
    <3>3. /\ end_doc(S[i]) \in Nat /\ end_doc(S[n]) \in Nat
          /\ S[n].base_doc \in Nat /\ S[n].base_doc <= end_doc(S[n])
      BY <2>1, RowFacts
    <3> QED
      BY <3>2, <3>3
  <2>3. end_doc(S[n]) \in E /\ end_doc(S[n]) \in Nat
    BY <2>1, RowFacts
  <2>4. \A y \in E : end_doc(S[n]) >= y
    BY <2>2, <2>3, RowFacts
  <2> HIDE DEF E
  <2>5. Max(E) = end_doc(S[n])
    BY <1>3, <2>3, <2>4, MaxOf
  <2> QED
    BY <1>2, <1>5, <2>1, <2>2, <2>3, <2>5
<1> QED
  BY <1>4, <1>5

-----------------------------------------------------------------------------
(* Rows made of rows.                                                      *)

\* A segment with a new id, past the end of all others.
LEMMA AppendRow ==
    ASSUME NEW S, Row(S), NEW s \in Segment, s.dead \subseteq DOMAIN s.docs,
           Bound(S) <= s.base_doc, \A i \in DOMAIN S : S[i].segment_id # s.segment_id
    PROVE  /\ Row(Append(S, s))
           /\ Len(Append(S, s)) = Len(S) + 1
           /\ DOMAIN Append(S, s) = DOMAIN S \cup {Len(S) + 1}
           /\ Len(S) + 1 \notin DOMAIN S
           /\ Append(S, s)[Len(S) + 1] = s
           /\ \A i \in DOMAIN S : Append(S, s)[i] = S[i]
<1> DEFINE n == Len(S) + 1
           R == Append(S, s)
<1>1. S \in Seq(Segment) /\ n \in Nat /\ DOMAIN S = 1 .. (n - 1) /\ Len(S) \in Nat
  BY DEF Row
<1>2. R \in Seq(Segment) /\ Len(R) = n /\ DOMAIN R = 1 .. n /\ R[n] = s
  BY <1>1
<1>3. \A i \in DOMAIN S : R[i] = S[i]
  BY <1>1
<1>4. DOMAIN R = DOMAIN S \cup {n} /\ n \notin DOMAIN S
  BY <1>1, <1>2
<1> HIDE DEF R, n
<1>5. \A i \in DOMAIN R : R[i].dead \subseteq DOMAIN R[i].docs
  BY <1>2, <1>3, <1>4 DEF Row
<1>6. ASSUME NEW i \in DOMAIN R, NEW j \in DOMAIN R, i < j
      PROVE  end_doc(R[i]) <= R[j].base_doc /\ R[i].segment_id # R[j].segment_id
  <2>1. i \in DOMAIN S /\ i \in Nat
    BY <1>1, <1>2, <1>4, <1>6
  <2>2. CASE j \in DOMAIN S
    BY <1>3, <1>6, <2>1, <2>2 DEF Row
  <2>3. CASE j = n
    <3>1. end_doc(S[i]) \in Nat /\ end_doc(S[i]) <= Bound(S) /\ Bound(S) \in Nat /\ s.base_doc \in Nat
      BY <2>1, RowFacts, BoundIs DEF Segment
    <3>2. end_doc(S[i]) <= s.base_doc
      BY <3>1
    <3> QED
      BY <1>2, <1>3, <2>1, <2>3, <3>2
  <2> QED
    BY <1>4, <2>2, <2>3
<1>7. Row(R)
  BY <1>2, <1>5, <1>6 DEF Row
<1> QED
  BY <1>2, <1>3, <1>4, <1>7 DEF R, n

LEMMA SubRow ==
    ASSUME NEW S, Row(S), NEW keep
    PROVE  /\ Row(Sub(S, keep))
           /\ Bound(Sub(S, keep)) <= Bound(S)
           /\ \A j \in DOMAIN Sub(S, keep) : \E i \in keep \cap DOMAIN S : Sub(S, keep)[j] = S[i]
           /\ \A i \in keep \cap DOMAIN S : \E j \in DOMAIN Sub(S, keep) : Sub(S, keep)[j] = S[i]
<1> DEFINE R == Sub(S, keep)
<1>1. S \in Seq(Segment)
  BY DEF Row
<1>2. R \in Seq(Segment) /\ \E h : Takes(h, R, S, keep)
  BY <1>1, SubFacts
<1> HIDE DEF R
<1>3. PICK h : Takes(h, R, S, keep)
  BY <1>2
<1>4. \A j \in DOMAIN R : h[j] \in DOMAIN S /\ h[j] \in keep /\ R[j] = S[h[j]]
  BY <1>3 DEF Takes
<1>5. \A i \in DOMAIN R : R[i].dead \subseteq DOMAIN R[i].docs
  BY <1>4 DEF Row
<1>6. ASSUME NEW i \in DOMAIN R, NEW j \in DOMAIN R, i < j
      PROVE  end_doc(R[i]) <= R[j].base_doc /\ R[i].segment_id # R[j].segment_id
  <2>1. h[i] < h[j]
    BY <1>3, <1>6 DEF Takes
  <2> QED
    BY <1>4, <2>1 DEF Row
<1>7. Row(R)
  BY <1>2, <1>5, <1>6 DEF Row
<1>8. Bound(R) <= Bound(S)
  <2>1. Bound(S) \in Nat
    BY BoundIs
  <2>2. CASE R = << >>
    BY <1>7, <2>1, <2>2, BoundIs
  <2>3. CASE R # << >>
    <3>1. Len(R) \in DOMAIN R /\ Bound(R) = end_doc(R[Len(R)])
      BY <1>7, <2>3, BoundIs
    <3> QED
      BY <1>4, <3>1, BoundIs
  <2> QED
    BY <2>2, <2>3
<1>9. \A j \in DOMAIN R : \E i \in keep \cap DOMAIN S : R[j] = S[i]
  BY <1>4
<1>10. ASSUME NEW i \in keep \cap DOMAIN S PROVE \E j \in DOMAIN R : R[j] = S[i]
  <2>1. PICK j \in DOMAIN R : h[j] = i
    BY <1>3 DEF Takes
  <2> QED
    BY <1>4, <2>1
<1> QED
  BY <1>7, <1>8, <1>9, <1>10 DEF R

\* The same segments, with other docs dead.
SameButDead(S, R) ==
    /\ R \in Seq(Segment)
    /\ DOMAIN R = DOMAIN S
    /\ \A i \in DOMAIN S : /\ R[i].segment_id = S[i].segment_id
                           /\ R[i].base_doc = S[i].base_doc
                           /\ R[i].docs = S[i].docs
                           /\ R[i].dead \subseteq DOMAIN S[i].docs

LEMMA DeadRow ==
    ASSUME NEW S, Row(S), NEW R, SameButDead(S, R)
    PROVE  Row(R) /\ Bound(R) = Bound(S) /\ \A i \in DOMAIN S : end_doc(R[i]) = end_doc(S[i])
<1>1. \A i \in DOMAIN S : end_doc(R[i]) = end_doc(S[i])
  BY DEF SameButDead, end_doc
<1>2. Row(R)
  BY <1>1 DEF Row, SameButDead
<1>3. {end_doc(R[i]) : i \in DOMAIN R} = {end_doc(S[i]) : i \in DOMAIN S}
  BY <1>1 DEF SameButDead
<1> QED
  BY <1>1, <1>2, <1>3 DEF Bound

\* The bound of a row that has grown.
LEMMA AppendBound ==
    ASSUME NEW S, Row(S), NEW s \in Segment, s.dead \subseteq DOMAIN s.docs,
           Bound(S) <= s.base_doc, \A i \in DOMAIN S : S[i].segment_id # s.segment_id
    PROVE  Bound(Append(S, s)) = end_doc(s)
<1> DEFINE R == Append(S, s)
<1>1. Row(R) /\ Len(R) = Len(S) + 1 /\ R[Len(S) + 1] = s /\ DOMAIN R # {}
  BY AppendRow
<1> HIDE DEF R
<1>2. R # << >>
  BY <1>1
<1>3. Bound(R) = end_doc(R[Len(R)])
  BY <1>1, <1>2, BoundIs
<1> QED
  BY <1>1, <1>3 DEF R

-----------------------------------------------------------------------------
(* The inductive invariant.                                                *)

\* Patches were made for docs of the index, though these may be dead by now.
PatchesInRange == \A id \in DOMAIN overlay : id < id_bound

\* The plan gives no path to two docs, and none to a doc and a file that is
\* indexed anew.
Apart(view, todo) ==
    /\ \A i, j \in DOMAIN todo.reindex : todo.reindex[i].path = todo.reindex[j].path => i = j
    /\ \A a, b \in DOMAIN todo.patches : todo.patches[a].path = todo.patches[b].path => a = b
    /\ \A i \in DOMAIN todo.reindex, a \in DOMAIN todo.patches :
          todo.reindex[i].path # todo.patches[a].path
    /\ \A i \in DOMAIN todo.reindex, id \in DOMAIN view :
          todo.reindex[i].path = view[id].path => id \in todo.deletes
    /\ \A a \in DOMAIN todo.patches, id \in DOMAIN view :
          todo.patches[a].path = view[id].path => a = id

\* What an update has decided is about docs that are live.
PlanFits ==
    pc = "update" =>
        /\ plan.deletes \cup DOMAIN plan.patches \subseteq LiveIds
        /\ ~patch_lost => Apart(View, plan)

\* A prepared merge has what was live in its sources when it was prepared.
\* Those that still are in the index have lost docs since then, at most.
Kept(m, s) ==
    LET live == DOMAIN s.docs \ m.dead[s.segment_id]
    IN /\ m.dead[s.segment_id] \subseteq s.dead
       /\ \A l \in live : \E i \in DOMAIN m.origin : m.origin[i] = <<s.segment_id, l>>
       /\ \A i \in DOMAIN m.origin : m.origin[i][1] = s.segment_id =>
             /\ m.origin[i][2] \in live
             /\ Bytes(m.docs[i]) = Bytes(s.docs[m.origin[i][2]])

MergeFollows ==
    /\ merge.sources \subseteq 0 .. (next_id - 1)
    /\ DOMAIN merge.docs = DOMAIN merge.origin
    /\ \A i, j \in DOMAIN merge.origin : merge.origin[i] = merge.origin[j] => i = j
    /\ \A i \in DOMAIN merge.origin : merge.origin[i][1] \in merge.sources
    /\ \A k \in DOMAIN segments :
          segments[k].segment_id \in merge.sources => Kept(merge, segments[k])

IInv == /\ TypeOK /\ Decodable /\ PatchesInRange /\ PlanFits /\ MergeFollows
        /\ OneDocPerPath

-----------------------------------------------------------------------------
(* reconcile().                                                            *)

LEMMA MaxId ==
    ASSUME NEW T \in SUBSET DocId, T # {}
    PROVE  Max(T) \in T /\ \A x \in T : x <= Max(T)
<1> DEFINE U == {n \in Nat : \E x \in T : n = MaxDoc - x}
<1>1. MaxDoc \in Nat /\ \A x \in T : x \in Int /\ MaxDoc - x \in Nat
  BY ContentAssumption DEF DocId
<1>2. U \in SUBSET Nat /\ U # {}
  BY <1>1
<1>3. PICK n \in U : \A m \in U : n <= m
  BY <1>2, Least
<1>4. PICK x \in T : n = MaxDoc - x
  BY <1>3
<1>5. \A y \in T : x >= y
  <2> SUFFICES ASSUME NEW y \in T PROVE x >= y
    OBVIOUS
  <2>1. MaxDoc - y \in U
    BY <1>1
  <2>2. n <= MaxDoc - y
    BY <1>3, <2>1
  <2> QED
    BY <1>1, <1>4, <2>2
<1>6. Max(T) = x
  BY <1>1, <1>5, MaxOf
<1> QED
  BY <1>1, <1>4, <1>5, <1>6

LEMMA Lookups ==
    ASSUME NEW D \in SUBSET DocId, NEW prev \in [D -> Doc]
    PROVE  /\ \A p : HasPath(prev, p) => by_path(prev, p) \in D /\ prev[by_path(prev, p)].path = p
           /\ \A i : HasInode(prev, i) => by_inode(prev, i) \in Path /\ HasPath(prev, by_inode(prev, i))
<1>1. ASSUME NEW p, HasPath(prev, p)
      PROVE  by_path(prev, p) \in D /\ prev[by_path(prev, p)].path = p
  <2> DEFINE T == {id \in DOMAIN prev : prev[id].path = p}
  <2>1. T \in SUBSET DocId /\ T # {}
    BY <1>1 DEF HasPath
  <2> HIDE DEF T
  <2>2. Max(T) \in T
    BY <2>1, MaxId
  <2>3. by_path(prev, p) = Max(T)
    BY DEF by_path, T
  <2> QED
    BY <2>2, <2>3 DEF T
<1>2. ASSUME NEW i, HasInode(prev, i)
      PROVE  by_inode(prev, i) \in Path /\ HasPath(prev, by_inode(prev, i))
  <2> DEFINE T == {id \in DOMAIN prev : prev[id].inode = i}
  <2>1. T \in SUBSET DocId /\ T # {}
    BY <1>2 DEF HasInode
  <2> HIDE DEF T
  <2>2. Max(T) \in T
    BY <2>1, MaxId
  <2>3. by_inode(prev, i) = prev[Max(T)].path
    BY DEF by_inode, T
  <2>4. Max(T) \in D /\ Max(T) \in DOMAIN prev
    BY <2>2 DEF T
  <2>5. prev[Max(T)] \in Doc
    BY <2>4
  <2> QED
    BY <2>3, <2>4, <2>5 DEF HasPath, Doc
<1> QED
  BY <1>1, <1>2

\* A plan about docs among ids.
PlanFor(ids) == [deletes : SUBSET ids,
                 patches : UNION {[some -> Patch] : some \in SUBSET ids},
                 reindex : Seq([path : Path, file : File])]

\* What the visit of a path may do to the plan.
Visits(prev, todo, f, p, after) ==
    \/ after = todo
    \/ \E id \in DOMAIN prev :
          /\ HasPath(prev, p) => id = by_path(prev, p)
          /\ f \in File
          /\ \/ after = Delete(todo, id)
             \/ after = PatchDoc(todo, id, f, p)
             \/ after = Reindex(Delete(todo, id), f, p)
    \/ f \in File /\ ~HasPath(prev, p) /\ after = Reindex(todo, f, p)

LEMMA VisitFacts ==
    ASSUME NEW D \in SUBSET DocId, NEW prev \in [D -> Doc],
           NEW seen \in Disk, NEW now \in Disk, NEW p \in Path,
           NEW acc \in [plan : PlanFor(D), seen : SUBSET Path, consumed : SUBSET Path]
    PROVE  LET after == Visit(prev, seen, now, acc, p)
           IN /\ Visits(prev, acc.plan, seen[p], p, after.plan)
              /\ after = [plan |-> after.plan, seen |-> after.seen, consumed |-> after.consumed]
              /\ after.seen \in SUBSET Path /\ after.consumed \in SUBSET Path
<1> DEFINE f == seen[p]
           old == by_inode(prev, f.inode)
           after == Visit(prev, seen, now, acc, p)
           candidate == HasInode(prev, f.inode) /\ old \notin acc.consumed
           moving == candidate /\ ~UnreadableRename(prev, f, now, p, old)
<1> HIDE DEF f
<1>1. f # NoFile => f \in File
  BY DEF Disk, f
<1>2. CASE f = NoFile
  <2>1. after = acc
    BY <1>2 DEF Visit, f
  <2> QED
    BY <2>1 DEF Visits, f
<1>3. CASE f # NoFile /\ HasPath(prev, p)
  <2>1. after = [[acc EXCEPT !.seen = @ \cup {p}] EXCEPT !.plan = KnownPath(prev, f, now, @, p)]
    BY <1>3 DEF Visit, f
  <2>2. after = [plan |-> KnownPath(prev, f, now, acc.plan, p),
                 seen |-> acc.seen \cup {p}, consumed |-> acc.consumed]
    BY <2>1
  <2> HIDE DEF after
  <2>3. by_path(prev, p) \in DOMAIN prev
    BY <1>3, Lookups
  <2>4. Visits(prev, acc.plan, f, p, KnownPath(prev, f, now, acc.plan, p))
    BY <1>1, <1>3, <2>3 DEF Visits, KnownPath
  <2> QED
    BY <2>2, <2>4 DEF f, after
<1>4. CASE f # NoFile /\ ~HasPath(prev, p) /\ moving
  <2>1. after = [[acc EXCEPT !.seen = @ \cup {p}]
                    EXCEPT !.plan = RenamedFrom(prev, f, now, @, p, old), !.consumed = @ \cup {old}]
    BY <1>4 DEF Visit, f
  <2>2. after = [plan |-> RenamedFrom(prev, f, now, acc.plan, p, old),
                 seen |-> acc.seen \cup {p}, consumed |-> acc.consumed \cup {old}]
    BY <2>1
  <2> HIDE DEF after
  <2>3. old \in Path /\ by_path(prev, old) \in DOMAIN prev
    BY <1>4, Lookups
  <2> HIDE DEF old
  <2>4. Visits(prev, acc.plan, f, p, RenamedFrom(prev, f, now, acc.plan, p, old))
    BY <1>1, <1>4, <2>3 DEF Visits, RenamedFrom
  <2> QED
    BY <2>2, <2>3, <2>4 DEF f, after
<1>5. CASE f # NoFile /\ ~HasPath(prev, p) /\ ~moving
  <2>1. after = [[acc EXCEPT !.seen = @ \cup {p}] EXCEPT !.plan = Reindex(@, f, p)]
    BY <1>5 DEF Visit, f
  <2>2. after = [plan |-> Reindex(acc.plan, f, p),
                 seen |-> acc.seen \cup {p}, consumed |-> acc.consumed]
    BY <2>1
  <2> HIDE DEF after
  <2>3. Visits(prev, acc.plan, f, p, Reindex(acc.plan, f, p))
    BY <1>1, <1>5 DEF Visits
  <2> QED
    BY <2>2, <2>3 DEF f, after
<1> QED
  BY <1>2, <1>3, <1>4, <1>5

LEMMA DeleteFacts ==
    ASSUME NEW D, NEW todo \in PlanFor(D), NEW id \in D
    PROVE  /\ Delete(todo, id) \in PlanFor(D)
           /\ Delete(todo, id).deletes = todo.deletes \cup {id}
           /\ Delete(todo, id).patches = todo.patches
           /\ Delete(todo, id).reindex = todo.reindex
BY DEF Delete, PlanFor

LEMMA ReindexFacts ==
    ASSUME NEW D, NEW todo \in PlanFor(D), NEW f \in File, NEW p \in Path
    PROVE  /\ Reindex(todo, f, p) \in PlanFor(D)
           /\ Reindex(todo, f, p).deletes = todo.deletes
           /\ Reindex(todo, f, p).patches = todo.patches
           /\ Reindex(todo, f, p).reindex = Append(todo.reindex, [path |-> p, file |-> f])
<1>1. todo.reindex \in Seq([path : Path, file : File])
  BY DEF PlanFor
<1>2. Append(todo.reindex, [path |-> p, file |-> f]) \in Seq([path : Path, file : File])
  BY <1>1
<1> QED
  BY <1>2 DEF Reindex, PlanFor

LEMMA PatchFacts ==
    ASSUME NEW D, NEW todo \in PlanFor(D), NEW f \in File, NEW p \in Path, NEW id \in D
    PROVE  LET after == PatchDoc(todo, id, f, p)
           IN /\ after \in PlanFor(D)
              /\ after.deletes = todo.deletes
              /\ after.reindex = todo.reindex
              /\ DOMAIN after.patches = DOMAIN todo.patches \cup {id}
              /\ after.patches[id] = patch(f, p)
              /\ \A x \in DOMAIN todo.patches : x # id => after.patches[x] = todo.patches[x]
<1> DEFINE new == [x \in DOMAIN todo.patches \cup {id} |-> IF x = id THEN patch(f, p) ELSE todo.patches[x]]
           after == PatchDoc(todo, id, f, p)
<1>1. PICK some \in SUBSET D : todo.patches \in [some -> Patch]
  BY DEF PlanFor
<1>2. patch(f, p) \in Patch
  BY DEF patch, Patch, File
<1>3. new \in [some \cup {id} -> Patch]
  BY <1>1, <1>2
<1>4. DOMAIN new = DOMAIN todo.patches \cup {id} /\ new[id] = patch(f, p)
  OBVIOUS
<1>5. \A x \in DOMAIN todo.patches : x # id => new[x] = todo.patches[x]
  OBVIOUS
<1>6. new \in UNION {[ids -> Patch] : ids \in SUBSET D}
  <2>1. some \cup {id} \in SUBSET D
    OBVIOUS
  <2> QED
    BY <1>3, <2>1
<1>7. after = [todo EXCEPT !.patches = new]
  BY DEF PatchDoc
<1> HIDE DEF new, after
<1>8. after = [deletes |-> todo.deletes, patches |-> new, reindex |-> todo.reindex]
  BY <1>7 DEF PlanFor
<1>9. after \in PlanFor(D)
  BY <1>6, <1>8 DEF PlanFor
<1> QED
  BY <1>4, <1>5, <1>8, <1>9 DEF after

LEMMA Elements ==
    ASSUME NEW T, NEW s \in Seq(T)
    PROVE  \A i \in DOMAIN s : s[i] \in T
OBVIOUS

LEMMA PlanTyped ==
    ASSUME NEW D, NEW todo \in PlanFor(D)
    PROVE  /\ todo.deletes \subseteq D /\ DOMAIN todo.patches \subseteq D
           /\ todo.reindex \in Seq([path : Path, file : File])
           /\ \A i \in DOMAIN todo.reindex : /\ todo.reindex[i].path \in Path
                                             /\ todo.reindex[i].file \in File
           /\ \A a \in DOMAIN todo.patches : /\ todo.patches[a] \in Patch
                                             /\ todo.patches[a].path \in Path
<1>1. todo.reindex \in Seq([path : Path, file : File]) /\ todo.deletes \subseteq D
  BY DEF PlanFor
<1>2. \A i \in DOMAIN todo.reindex : todo.reindex[i] \in [path : Path, file : File]
  BY <1>1, Elements
<1>3. PICK some \in SUBSET D : todo.patches \in [some -> Patch]
  BY DEF PlanFor
<1> QED
  BY <1>1, <1>2, <1>3 DEF Patch

LEMMA VisitsTyped ==
    ASSUME NEW D, NEW prev \in [D -> Doc], NEW todo \in PlanFor(D), NEW p \in Path, NEW f,
           NEW after, Visits(prev, todo, f, p, after)
    PROVE  after \in PlanFor(D)
<1>1. ASSUME NEW id \in D, f \in File
      PROVE  /\ Delete(todo, id) \in PlanFor(D)
             /\ PatchDoc(todo, id, f, p) \in PlanFor(D)
             /\ Reindex(Delete(todo, id), f, p) \in PlanFor(D)
  <2>1. Delete(todo, id) \in PlanFor(D)
    BY DeleteFacts
  <2>2. Reindex(Delete(todo, id), f, p) \in PlanFor(D)
    BY <1>1, <2>1, ReindexFacts
  <2>3. PatchDoc(todo, id, f, p) \in PlanFor(D)
    BY <1>1, PatchFacts
  <2> QED
    BY <2>1, <2>2, <2>3
<1>2. f \in File => Reindex(todo, f, p) \in PlanFor(D)
  BY ReindexFacts
<1>3. \/ after = todo
      \/ \E id \in D : /\ f \in File
                      /\ after \in {Delete(todo, id), PatchDoc(todo, id, f, p), Reindex(Delete(todo, id), f, p)}
      \/ f \in File /\ after = Reindex(todo, f, p)
  BY DEF Visits
<1> QED
  BY <1>1, <1>2, <1>3

\* Nothing is planned for a path that was not visited yet.
PathsUpTo(todo, n) ==
    /\ \A i \in DOMAIN todo.reindex : todo.reindex[i].path <= n
    /\ \A a \in DOMAIN todo.patches : todo.patches[a].path <= n

LEMMA PathsBelow ==
    ASSUME NEW D, NEW todo \in PlanFor(D), NEW p \in Path, PathsUpTo(todo, p - 1)
    PROVE  /\ PathsUpTo(todo, p)
           /\ \A i \in DOMAIN todo.reindex : todo.reindex[i].path # p
           /\ \A a \in DOMAIN todo.patches : todo.patches[a].path # p
<1>1. \A q \in Path : q <= p - 1 => q <= p /\ q # p
  BY ContentAssumption DEF Path
<1>2. \A i \in DOMAIN todo.reindex : todo.reindex[i].path <= p /\ todo.reindex[i].path # p
  BY <1>1, PlanTyped DEF PathsUpTo
<1>3. \A a \in DOMAIN todo.patches : todo.patches[a].path <= p /\ todo.patches[a].path # p
  BY <1>1, PlanTyped DEF PathsUpTo
<1> QED
  BY <1>2, <1>3 DEF PathsUpTo

\* The docs of prev have a path each.
Once(prev) == \A id, other \in DOMAIN prev : prev[id].path = prev[other].path => id = other

LEMMA DeleteApart ==
    ASSUME NEW D, NEW prev, DOMAIN prev = D, NEW todo \in PlanFor(D), NEW id \in D, NEW n \in Nat,
           Apart(prev, todo), PathsUpTo(todo, n)
    PROVE  Apart(prev, Delete(todo, id)) /\ PathsUpTo(Delete(todo, id), n)
BY DeleteFacts DEF Apart, PathsUpTo

LEMMA ReindexApart ==
    ASSUME NEW D, NEW prev, DOMAIN prev = D, NEW todo \in PlanFor(D), NEW f \in File, NEW p \in Path,
           Apart(prev, todo), PathsUpTo(todo, p - 1),
           \A id \in D : prev[id].path = p => id \in todo.deletes
    PROVE  Apart(prev, Reindex(todo, f, p)) /\ PathsUpTo(Reindex(todo, f, p), p)
<1> DEFINE after == Reindex(todo, f, p)
           n == Len(todo.reindex) + 1
           File2 == [path : Path, file : File]
           x == [path |-> p, file |-> f]
<1>1. p \in Nat /\ \A q \in Path : q \in Nat
  BY ContentAssumption DEF Path
<1>2. todo.reindex \in Seq(File2)
  BY DEF PlanFor
<1>3. /\ after.deletes = todo.deletes /\ after.patches = todo.patches
      /\ after.reindex = Append(todo.reindex, x)
  BY ReindexFacts
<1> HIDE DEF after
<1>4. /\ n \in Nat /\ DOMAIN after.reindex = DOMAIN todo.reindex \cup {n}
      /\ n \notin DOMAIN todo.reindex
      /\ after.reindex[n] = x
      /\ \A i \in DOMAIN todo.reindex : after.reindex[i] = todo.reindex[i]
  BY <1>2, <1>3
<1> HIDE DEF n
<1>5. after.reindex[n].path = p
  BY <1>4
<1>6. /\ PathsUpTo(todo, p)
      /\ \A i \in DOMAIN todo.reindex : todo.reindex[i].path # p
      /\ \A a \in DOMAIN todo.patches : todo.patches[a].path # p
  BY PathsBelow
<1>7. Apart(prev, after)
  BY <1>3, <1>4, <1>5, <1>6 DEF Apart
<1>8. PathsUpTo(after, p)
  BY <1>1, <1>3, <1>4, <1>5, <1>6 DEF PathsUpTo
<1> QED
  BY <1>7, <1>8 DEF after

LEMMA PatchApart ==
    ASSUME NEW D, NEW prev, DOMAIN prev = D, NEW todo \in PlanFor(D), NEW f \in File, NEW p \in Path,
           NEW id \in D, Apart(prev, todo), PathsUpTo(todo, p - 1),
           \A other \in D : prev[other].path = p => other = id
    PROVE  Apart(prev, PatchDoc(todo, id, f, p)) /\ PathsUpTo(PatchDoc(todo, id, f, p), p)
<1> DEFINE after == PatchDoc(todo, id, f, p)
<1>1. p \in Nat /\ \A q \in Path : q \in Nat
  BY ContentAssumption DEF Path
<1>2. /\ after.deletes = todo.deletes /\ after.reindex = todo.reindex
      /\ DOMAIN after.patches = DOMAIN todo.patches \cup {id}
      /\ after.patches[id] = patch(f, p)
      /\ \A x \in DOMAIN todo.patches : x # id => after.patches[x] = todo.patches[x]
  BY PatchFacts
<1> HIDE DEF after
<1>3. after.patches[id].path = p
  BY <1>2 DEF patch
<1>4. /\ PathsUpTo(todo, p)
      /\ \A i \in DOMAIN todo.reindex : todo.reindex[i].path # p
      /\ \A a \in DOMAIN todo.patches : todo.patches[a].path # p
  BY PathsBelow
<1>5. Apart(prev, after)
  BY <1>2, <1>3, <1>4 DEF Apart
<1>6. PathsUpTo(after, p)
  BY <1>1, <1>2, <1>3, <1>4 DEF PathsUpTo
<1> QED
  BY <1>5, <1>6 DEF after

LEMMA VisitsApart ==
    ASSUME NEW D \in SUBSET DocId, NEW prev \in [D -> Doc], Once(prev),
           NEW todo \in PlanFor(D), NEW p \in Path, NEW f,
           NEW after, Visits(prev, todo, f, p, after),
           Apart(prev, todo), PathsUpTo(todo, p - 1)
    PROVE  Apart(prev, after) /\ PathsUpTo(after, p)
<1>1. p - 1 \in Nat
  BY ContentAssumption DEF Path
<1>2. CASE after = todo
  BY <1>2, PathsBelow
<1>3. ASSUME NEW id \in D, HasPath(prev, p) => id = by_path(prev, p), f \in File
      PROVE  /\ Apart(prev, Delete(todo, id)) /\ PathsUpTo(Delete(todo, id), p)
             /\ Apart(prev, PatchDoc(todo, id, f, p)) /\ PathsUpTo(PatchDoc(todo, id, f, p), p)
             /\ Apart(prev, Reindex(Delete(todo, id), f, p))
             /\ PathsUpTo(Reindex(Delete(todo, id), f, p), p)
  <2>1. ASSUME NEW other \in D, prev[other].path = p PROVE other = id
    <3>1. HasPath(prev, p)
      BY <2>1 DEF HasPath
    <3>2. prev[id].path = p
      BY <1>3, <3>1, Lookups
    <3> QED
      BY <2>1, <3>2 DEF Once
  <2>2. /\ Delete(todo, id) \in PlanFor(D) /\ id \in Delete(todo, id).deletes
        /\ Apart(prev, Delete(todo, id)) /\ PathsUpTo(Delete(todo, id), p - 1)
    BY <1>1, DeleteFacts, DeleteApart
  <2>3. PathsUpTo(Delete(todo, id), p)
    BY <2>2, PathsBelow
  <2>4. Apart(prev, PatchDoc(todo, id, f, p)) /\ PathsUpTo(PatchDoc(todo, id, f, p), p)
    BY <1>3, <2>1, PatchApart
  <2>5. \A other \in D : prev[other].path = p => other \in Delete(todo, id).deletes
    BY <2>1, <2>2
  <2>6. /\ Apart(prev, Reindex(Delete(todo, id), f, p))
        /\ PathsUpTo(Reindex(Delete(todo, id), f, p), p)
    BY <1>3, <2>2, <2>5, ReindexApart
  <2> QED
    BY <2>2, <2>3, <2>4, <2>6
<1>4. ASSUME f \in File, ~HasPath(prev, p)
      PROVE  Apart(prev, Reindex(todo, f, p)) /\ PathsUpTo(Reindex(todo, f, p), p)
  BY <1>4, ReindexApart DEF HasPath
<1> QED
  BY <1>2, <1>3, <1>4 DEF Visits

Accs(ids) == [plan : PlanFor(ids), seen : SUBSET Path, consumed : SUBSET Path]
Start == [plan |-> NoPlan, seen |-> {}, consumed |-> {}]

LEMMA NoPlanFacts ==
    ASSUME NEW D, NEW prev, NEW n \in Nat
    PROVE  NoPlan \in PlanFor(D) /\ Apart(prev, NoPlan) /\ PathsUpTo(NoPlan, n)
<1>1. DOMAIN << >> = {} /\ << >> \in Seq([path : Path, file : File]) /\ << >> \in [{} -> Patch]
  OBVIOUS
<1>2. << >> \in UNION {[some -> Patch] : some \in SUBSET D}
  BY <1>1
<1>3. NoPlan \in PlanFor(D)
  BY <1>1, <1>2 DEF NoPlan, PlanFor
<1>4. DOMAIN NoPlan.reindex = {} /\ DOMAIN NoPlan.patches = {}
  BY <1>1 DEF NoPlan
<1> QED
  BY <1>3, <1>4 DEF Apart, PathsUpTo

\* The visits, one by one.
LEMMA VisitedFacts ==
    ASSUME NEW D \in SUBSET DocId, NEW prev \in [D -> Doc], NEW seen \in Disk, NEW now \in Disk
    PROVE  LET upto == Visited(prev, seen, now)
           IN /\ upto \in [0 .. MaxPath -> Accs(D)]
              /\ upto[0] = Start
              /\ \A p \in Path : upto[p] = Visit(prev, seen, now, upto[p - 1], p)
<1> DEFINE step == [p \in 1 .. MaxPath |-> [acc \in Accs(D) |-> Visit(prev, seen, now, acc, p)]]
           Rec(f) == f = [p \in 0 .. MaxPath |->
                            IF p = 0 THEN [plan |-> NoPlan, seen |-> {}, consumed |-> {}]
                            ELSE Visit(prev, seen, now, f[p - 1], p)]
<1>1. MaxPath \in Nat /\ Path = 1 .. MaxPath
  BY ContentAssumption DEF Path
<1>2. Start \in Accs(D)
  BY <1>1, NoPlanFacts DEF Start, Accs
<1>3. ASSUME NEW p \in Path, NEW acc \in Accs(D)
      PROVE  Visit(prev, seen, now, acc, p) \in Accs(D)
  <2> DEFINE after == Visit(prev, seen, now, acc, p)
  <2>1. acc.plan \in PlanFor(D)
    BY DEF Accs
  <2>2. /\ Visits(prev, acc.plan, seen[p], p, after.plan)
        /\ after = [plan |-> after.plan, seen |-> after.seen, consumed |-> after.consumed]
        /\ after.seen \in SUBSET Path /\ after.consumed \in SUBSET Path
    BY VisitFacts DEF Accs
  <2> HIDE DEF after
  <2>3. after.plan \in PlanFor(D)
    BY <2>1, <2>2, VisitsTyped
  <2>4. after \in Accs(D)
    BY <2>2, <2>3 DEF Accs
  <2> QED
    BY <2>4 DEF after
<1>4. step \in [1 .. MaxPath -> [Accs(D) -> Accs(D)]]
  BY <1>1, <1>3
<1>5. \A p \in Path, acc \in Accs(D) : step[p][acc] = Visit(prev, seen, now, acc, p)
  BY <1>1
<1> HIDE DEF step
<1>6. PICK g : Iterates(g, MaxPath, Accs(D), Start, step)
  BY <1>1, <1>2, <1>4, Recursion
<1>7. Rec(g)
  <2>1. ASSUME NEW p \in 0 .. MaxPath
        PROVE  g[p] = IF p = 0 THEN [plan |-> NoPlan, seen |-> {}, consumed |-> {}]
                      ELSE Visit(prev, seen, now, g[p - 1], p)
    <3>1. CASE p = 0
      BY <1>6, <3>1 DEF Iterates, Start
    <3>2. CASE p # 0
      <4>1. p \in Path /\ p - 1 \in 0 .. MaxPath
        BY <1>1, <3>2
      <4>2. g[p - 1] \in Accs(D) /\ g[p] = step[p][g[p - 1]]
        BY <1>1, <1>6, <4>1 DEF Iterates
      <4> QED
        BY <1>5, <3>2, <4>1, <4>2
    <3> QED
      BY <3>1, <3>2
  <2>2. g = [p \in 0 .. MaxPath |-> g[p]]
    BY <1>6 DEF Iterates
  <2> QED
    BY <2>1, <2>2
<1> DEFINE upto == Visited(prev, seen, now)
<1>8. Rec(upto)
  BY <1>7 DEF Visited
<1> HIDE DEF upto
<1>9. DOMAIN upto = 0 .. MaxPath /\ upto = [p \in 0 .. MaxPath |-> upto[p]]
  BY <1>8
<1>10. upto[0] = Start /\ \A p \in Path : upto[p] = Visit(prev, seen, now, upto[p - 1], p)
  <2>1. \A p \in 0 .. MaxPath :
           upto[p] = IF p = 0 THEN [plan |-> NoPlan, seen |-> {}, consumed |-> {}]
                     ELSE Visit(prev, seen, now, upto[p - 1], p)
    BY <1>8
  <2>2. 0 \in 0 .. MaxPath /\ \A p \in Path : p \in 0 .. MaxPath /\ p # 0
    BY <1>1
  <2> QED
    BY <2>1, <2>2 DEF Start
<1>11. \A n \in Nat : n \in 0 .. MaxPath => upto[n] \in Accs(D)
  <2> DEFINE S == {n \in Nat : n \in 0 .. MaxPath => upto[n] \in Accs(D)}
  <2>1. 0 \in S
    BY <1>2, <1>10
  <2>2. ASSUME NEW n \in S PROVE n + 1 \in S
    <3> SUFFICES ASSUME n + 1 \in 0 .. MaxPath PROVE upto[n + 1] \in Accs(D)
      OBVIOUS
    <3>1. n \in 0 .. MaxPath /\ n + 1 \in Path /\ (n + 1) - 1 = n
      BY <1>1
    <3>2. upto[n] \in Accs(D)
      BY <3>1
    <3>3. upto[n + 1] = Visit(prev, seen, now, upto[n], n + 1)
      BY <1>10, <3>1
    <3> QED
      BY <1>3, <3>1, <3>2, <3>3
  <2>3. S \in SUBSET Nat
    OBVIOUS
  <2> HIDE DEF S
  <2>4. \A n \in Nat : n \in S
    BY <2>1, <2>2, <2>3, Induction
  <2> QED
    BY <2>4 DEF S
<1>12. upto \in [0 .. MaxPath -> Accs(D)]
  BY <1>1, <1>9, <1>11
<1> QED
  BY <1>10, <1>12 DEF upto

\* The plan of a reconcile names docs of the view and, if these have a path
\* each, keeps it so.
LEMMA ReconcileFacts ==
    ASSUME NEW D \in SUBSET DocId, NEW prev \in [D -> Doc], NEW seen \in Disk, NEW now \in Disk
    PROVE  /\ reconcile(prev, seen, now) \in PlanFor(D)
           /\ Once(prev) => Apart(prev, reconcile(prev, seen, now))
<1> DEFINE upto == Visited(prev, seen, now)
           acc == upto[MaxPath]
           todo == reconcile(prev, seen, now)
<1>1. MaxPath \in Nat /\ Path = 1 .. MaxPath
  BY ContentAssumption DEF Path
<1>2. /\ upto \in [0 .. MaxPath -> Accs(D)]
      /\ upto[0] = Start
      /\ \A p \in Path : upto[p] = Visit(prev, seen, now, upto[p - 1], p)
  BY VisitedFacts
<1>3. todo = [acc.plan EXCEPT !.deletes = @ \cup Gone(prev, acc)]
  BY DEF reconcile
<1> HIDE DEF upto
<1>4. Gone(prev, acc) \subseteq D
  BY Lookups DEF Gone
<1>5. acc.plan \in PlanFor(D)
  BY <1>1, <1>2 DEF Accs
<1>6. todo \in PlanFor(D) /\ todo.patches = acc.plan.patches /\ todo.reindex = acc.plan.reindex
      /\ acc.plan.deletes \subseteq todo.deletes
  <2> HIDE DEF acc, todo
  <2> QED
    BY <1>3, <1>4, <1>5 DEF PlanFor
<1>7. ASSUME Once(prev) PROVE Apart(prev, acc.plan)
  <2> DEFINE P(n) == Apart(prev, upto[n].plan) /\ PathsUpTo(upto[n].plan, n)
             S == {n \in Nat : n \in 0 .. MaxPath => P(n)}
  <2>1. 0 \in S
    BY <1>2, NoPlanFacts DEF Start
  <2>2. ASSUME NEW n \in S PROVE n + 1 \in S
    <3> SUFFICES ASSUME n + 1 \in 0 .. MaxPath PROVE P(n + 1)
      OBVIOUS
    <3> DEFINE p == n + 1
    <3>1. n \in 0 .. MaxPath /\ p \in Path /\ p - 1 = n
      BY <1>1
    <3>2. P(n) /\ upto[n] \in Accs(D) /\ upto[n].plan \in PlanFor(D)
      BY <1>2, <3>1 DEF Accs
    <3>3. upto[p] = Visit(prev, seen, now, upto[n], p)
      BY <1>2, <3>1
    <3>4. Visits(prev, upto[n].plan, seen[p], p, upto[p].plan)
      BY <3>1, <3>2, <3>3, VisitFacts DEF Accs
    <3> HIDE DEF p
    <3>5. Apart(prev, upto[n].plan) /\ PathsUpTo(upto[n].plan, p - 1)
      BY <3>1, <3>2
    <3>6. Apart(prev, upto[p].plan) /\ PathsUpTo(upto[p].plan, p)
      BY <1>7, <3>1, <3>2, <3>4, <3>5, VisitsApart
    <3> QED
      BY <3>6 DEF p
  <2>3. S \in SUBSET Nat
    OBVIOUS
  <2> HIDE DEF S
  <2>4. MaxPath \in S
    BY <1>1, <2>1, <2>2, <2>3, Induction
  <2> QED
    BY <1>1, <2>4 DEF S
<1> QED
  BY <1>6, <1>7 DEF Apart

-----------------------------------------------------------------------------
(* What is shown.                                                          *)

DocIn(S, changes, id) ==
    IF id \in DOMAIN changes THEN Patched(RecordIn(S, id), changes[id]) ELSE RecordIn(S, id)

Patches == UNION {[ids -> Patch] : ids \in SUBSET DocId}

LEMMA ShownDoc ==
    ASSUME NEW S, Row(S), NEW changes \in Patches, NEW id \in Live(S)
    PROVE  /\ RecordIn(S, id) \in Doc
           /\ DocIn(S, changes, id) \in Doc
           /\ Bytes(DocIn(S, changes, id)) = Bytes(RecordIn(S, id))
<1>0. PICK i \in DOMAIN S : \E l \in LiveLocals(S[i]) : id = IdOf(S[i], l)
  BY LiveAt
<1>1. PICK l \in LiveLocals(S[i]) : id = IdOf(S[i], l)
  BY <1>0
<1>2. l \in DOMAIN S[i].docs /\ S[i].docs \in Seq(Doc)
  BY <1>1, RowFacts
<1>3. S[i].docs[l] \in Doc
  BY <1>2, Elements
<1>4. RecordIn(S, id) \in Doc
  BY <1>1, <1>2, <1>3, RecordAt
<1>5. CASE id \in DOMAIN changes
  <2>1. changes[id] \in Patch
    BY <1>5 DEF Patches
  <2>2. Patched(RecordIn(S, id), changes[id]) \in Doc
    BY <1>4, <2>1 DEF Patched, Doc, Patch
  <2>3. Bytes(Patched(RecordIn(S, id), changes[id])) = Bytes(RecordIn(S, id))
    BY <1>4 DEF Patched, Bytes, Doc
  <2> QED
    BY <1>4, <1>5, <2>2, <2>3 DEF DocIn
<1>6. CASE id \notin DOMAIN changes
  BY <1>4, <1>6 DEF DocIn
<1> QED
  BY <1>4, <1>5, <1>6

LEMMA LiveBelow ==
    ASSUME NEW S, Row(S)
    PROVE  \A id \in Live(S) : id \in Nat /\ id < Bound(S)
<1> SUFFICES ASSUME NEW id \in Live(S) PROVE id \in Nat /\ id < Bound(S)
  OBVIOUS
<1>0. PICK i \in DOMAIN S : \E l \in LiveLocals(S[i]) : id = IdOf(S[i], l)
  BY LiveAt
<1>1. PICK l \in LiveLocals(S[i]) : id = IdOf(S[i], l)
  BY <1>0
<1>2. l \in DOMAIN S[i].docs
  BY <1>1, RowFacts
<1>3. id \in Nat /\ id < end_doc(S[i])
  BY <1>1, <1>2, InRange
<1>4. end_doc(S[i]) <= Bound(S) /\ end_doc(S[i]) \in Nat /\ Bound(S) \in Nat
  BY BoundIs, RowFacts
<1> QED
  BY <1>3, <1>4

LEMMA DecodableRow ==
    ASSUME TypeOK, Decodable
    PROVE  Row(segments) /\ Bound(segments) <= MaxDoc /\ LiveIds \in SUBSET DocId
<1>1. Row(segments)
  BY DEF TypeOK, Decodable, Row
<1>2. Bound(segments) <= MaxDoc /\ Bound(segments) \in Nat
  BY <1>1, BoundIs, ContentAssumption DEF Decodable
<1>3. \A id \in LiveIds : id \in DocId
  BY <1>1, <1>2, LiveBelow, Rows, ContentAssumption DEF DocId
<1> QED
  BY <1>1, <1>2, <1>3

LEMMA ViewFacts ==
    ASSUME TypeOK, Decodable
    PROVE  /\ View \in [LiveIds -> Doc]
           /\ \A id \in LiveIds : doc(id) = DocIn(segments, overlay, id) /\ View[id] = doc(id)
           /\ (\A id, other \in LiveIds : doc(id).path = doc(other).path => id = other) <=> Once(View)
<1>1. Row(segments) /\ overlay \in Patches /\ LiveIds = Live(segments)
  BY DecodableRow, Rows DEF TypeOK, Patches
<1>2. \A id : doc(id) = DocIn(segments, overlay, id)
  BY Rows DEF doc, DocIn
<1>3. \A id \in LiveIds : doc(id) \in Doc
  BY <1>1, <1>2, ShownDoc
<1> QED
  BY <1>2, <1>3 DEF View, Once

-----------------------------------------------------------------------------
(* Steps that leave the index as it is.                                    *)

LEMMA IndexUnmoved ==
    ASSUME IInv, UNCHANGED <<index, patch_lost>>
    PROVE  /\ LiveIds' = LiveIds /\ View' = View
           /\ Decodable' /\ PatchesInRange' /\ OneDocPerPath'
<1>1. segments' = segments /\ overlay' = overlay /\ next_id' = next_id /\ patch_lost' = patch_lost
  BY DEF index
<1>2. LiveIds' = LiveIds
  BY <1>1 DEF LiveIds
<1>3. \A id : doc(id)' = doc(id)
  BY <1>1 DEF doc, Recorded, SegmentWith
<1>4. View' = View
  BY <1>2, <1>3 DEF View
<1>5. Decodable'
  BY <1>1 DEF IInv, Decodable
<1>6. PatchesInRange'
  BY <1>1 DEF IInv, PatchesInRange, id_bound
<1>7. OneDocPerPath'
  BY <1>1, <1>2, <1>3 DEF IInv, OneDocPerPath
<1> QED
  BY <1>2, <1>4, <1>5, <1>6, <1>7

LEMMA MergeUnmoved ==
    ASSUME IInv, UNCHANGED <<index, merge>>
    PROVE  MergeFollows'
BY DEF IInv, MergeFollows, index

LEMMA NothingPlanned ==
    ASSUME IInv, UNCHANGED <<index, patch_lost, merge>>, TypeOK', pc' # "update"
    PROVE  IInv'
<1>1. PlanFits'
  BY DEF PlanFits
<1> QED
  BY <1>1, IndexUnmoved, MergeUnmoved DEF IInv

\* Users.
LEMMA ChangeIInv ==
    ASSUME IInv, NEW new \in Disk, Change(new)
    PROVE  IInv'
<1>1. UNCHANGED <<faults, index, patch_lost, merge, pc, plan, crawled, misread, failed>>
  BY DEF Change, update
<1>2. TypeOK'
  <2>1. disk' \in Disk /\ clock' \in 0 .. MaxClock
    BY ContentAssumption DEF Change, IInv, TypeOK
  <2>2. calm' \in 0 .. 2
    BY DEF Change
  <2>3. settled' \in BOOLEAN /\ undisturbed' \in BOOLEAN
    BY Zenon DEF Change
  <2> QED
    BY <1>1, <2>1, <2>2, <2>3 DEF IInv, TypeOK, index
<1>3. PlanFits'
  BY <1>1, IndexUnmoved DEF IInv, PlanFits
<1> QED
  BY <1>1, <1>2, <1>3, IndexUnmoved, MergeUnmoved DEF IInv

LEMMA UserIInv ==
    ASSUME IInv, User
    PROVE  IInv'
<1>1. /\ disk \in Disk /\ clock \in 0 .. MaxClock
      /\ \A p \in Path : disk[p] # NoFile => disk[p] \in File
  BY DEF IInv, TypeOK, Disk
<1>2. clock < MaxClock => clock + 1 \in 1 .. MaxClock
  BY <1>1, ContentAssumption
<1>3. ASSUME NEW p \in Path, Create(p) PROVE IInv'
  <2>1. PICK i \in Inode \ Used, c \in Text \cup Binary :
           Change([disk EXCEPT ![p] = [inode |-> i, mtime |-> clock + 1, content |-> c]])
    BY <1>3 DEF Create
  <2>2. clock < MaxClock
    BY <2>1 DEF Change
  <2>3. [inode |-> i, mtime |-> clock + 1, content |-> c] \in File
    BY <1>2, <2>2 DEF File
  <2>4. [disk EXCEPT ![p] = [inode |-> i, mtime |-> clock + 1, content |-> c]] \in Disk
    BY <1>1, <2>3 DEF Disk
  <2> QED
    BY <2>1, <2>4, ChangeIInv
<1>4. ASSUME NEW p \in Path, Modify(p) PROVE IInv'
  <2>1. PICK c \in Text \cup Binary :
           Change([q \in Path |-> IF disk[q] # NoFile /\ disk[q].inode = disk[p].inode
                                  THEN [disk[q] EXCEPT !.mtime = clock + 1, !.content = c]
                                  ELSE disk[q]])
    BY <1>4 DEF Modify
  <2>2. clock < MaxClock
    BY <2>1 DEF Change
  <2>3. \A q \in Path : disk[q] # NoFile =>
           [disk[q] EXCEPT !.mtime = clock + 1, !.content = c] \in File
    BY <1>1, <1>2, <2>2 DEF File
  <2>4. [q \in Path |-> IF disk[q] # NoFile /\ disk[q].inode = disk[p].inode
                        THEN [disk[q] EXCEPT !.mtime = clock + 1, !.content = c]
                        ELSE disk[q]] \in Disk
    BY <1>1, <2>3 DEF Disk
  <2> QED
    BY <2>1, <2>4, ChangeIInv
<1>5. ASSUME NEW p \in Path, Erase(p) PROVE IInv'
  <2>1. [disk EXCEPT ![p] = NoFile] \in Disk
    BY <1>1 DEF Disk
  <2> QED
    BY <1>5, <2>1, ChangeIInv DEF Erase
<1>6. ASSUME NEW p \in Path, NEW q \in Path, Rename(p, q) PROVE IInv'
  <2>1. [disk EXCEPT ![p] = NoFile, ![q] = disk[p]] \in Disk
    BY <1>1 DEF Disk
  <2> QED
    BY <1>6, <2>1, ChangeIInv DEF Rename
<1>7. ASSUME NEW p \in Path, NEW q \in Path, Link(p, q) PROVE IInv'
  <2>1. [disk EXCEPT ![q] = disk[p]] \in Disk
    BY <1>1 DEF Disk
  <2> QED
    BY <1>7, <2>1, ChangeIInv DEF Link
<1> QED
  BY <1>3, <1>4, <1>5, <1>6, <1>7 DEF User

-----------------------------------------------------------------------------
(* The writer, before it commits.                                          *)

\* Any files may fail to be opened or read: there are finitely many.
LEMMA ReadsTyped ==
    ASSUME TypeOK, NEW failing \in SUBSET Existing
    PROVE  /\ Cardinality(failing) \in Nat
           /\ ReadNow(failing) \in Disk /\ (failing = {} => ReadNow(failing) = disk)
           /\ \A p \in Path : ReadNow(failing)[p] # NoFile => ReadNow(failing)[p] = disk[p]
<1>1. IsFiniteSet(Path) /\ failing \in SUBSET Path
  BY FS_Interval, ContentAssumption DEF Path, Existing
<1>2. Cardinality(failing) \in Nat
  BY <1>1, FS_Subset, FS_CardinalityType
<1>3. disk \in Disk
  BY DEF TypeOK
<1>4. ReadNow(failing) \in Disk
  BY <1>3 DEF ReadNow, Disk
<1>5. failing = {} => ReadNow(failing) = disk
  BY <1>3 DEF ReadNow, Disk
<1>6. \A p \in Path : ReadNow(failing)[p] # NoFile => ReadNow(failing)[p] = disk[p]
  BY DEF ReadNow
<1> QED
  BY <1>2, <1>4, <1>5, <1>6

LEMMA FaultsTyped ==
    ASSUME TypeOK, NEW failing \in Failing
    PROVE  /\ failing \in SUBSET Existing
           /\ faults + Cardinality(failing) \in 0 .. MaxFaults
<1>1. failing \in SUBSET Existing /\ faults + Cardinality(failing) <= MaxFaults
  BY DEF Failing
<1>2. Cardinality(failing) \in Nat
  BY <1>1, ReadsTyped
<1>3. faults \in Nat /\ MaxFaults \in Nat
  BY FaultsAssumption DEF TypeOK
<1> QED
  BY <1>1, <1>2, <1>3

LEMMA CrawlSees ==
    ASSUME TypeOK, NEW next, Crawl(next)
    PROVE  /\ clock' \in 0 .. MaxClock /\ clock <= clock'
           /\ crawled' \in Disk /\ undisturbed' \in BOOLEAN /\ (undisturbed' => crawled' = disk)
           /\ \A p \in Path : crawled'[p] # NoFile => crawled'[p] = disk[p]
<1>1. PICK unseen \in SUBSET Existing :
         /\ clock + Cardinality(unseen) <= MaxClock
         /\ clock' = clock + Cardinality(unseen)
         /\ crawled' = ReadNow(unseen)
         /\ undisturbed' = (unseen = {})
  BY DEF Crawl
<1>2. clock \in Nat /\ MaxClock \in Nat
  BY ContentAssumption DEF TypeOK
<1>3. clock' \in 0 .. MaxClock /\ clock <= clock'
  BY <1>1, <1>2, ReadsTyped
<1>4. undisturbed' \in BOOLEAN
  BY <1>1, Zenon
<1> QED
  BY <1>1, <1>3, <1>4, ReadsTyped

LEMMA CrawlIInv ==
    ASSUME IInv, NEW next \in {"build", "reconcile"}, Crawl(next)
    PROVE  IInv'
<1>1. /\ UNCHANGED <<disk, faults, index, plan, merge, calm, settled, patch_lost, misread, failed>>
      /\ pc' = next
  BY DEF Crawl
<1>2. /\ clock' \in 0 .. MaxClock /\ crawled' \in Disk /\ undisturbed' \in BOOLEAN
  BY CrawlSees DEF IInv
<1>3. TypeOK'
  BY <1>1, <1>2 DEF IInv, TypeOK, index
<1> QED
  BY <1>1, <1>3, NothingPlanned

LEMMA FinishTyped ==
    ASSUME TypeOK, NEW ok \in BOOLEAN, NEW nothing \in BOOLEAN, Finish(ok, nothing)
    PROVE  /\ pc' = "idle" /\ crawled' \in Disk /\ plan' \in Plan
           /\ calm' \in 0 .. 2 /\ settled' \in BOOLEAN /\ undisturbed' \in BOOLEAN
<1>1. crawled' \in Disk
  BY DEF Finish, Disk
<1>2. plan' \in Plan
  BY NoPlanFacts DEF Finish, Plan, PlanFor
<1>3. Min({2, calm + 1}) \in 0 .. 2
  <2> DEFINE S == {2, calm + 1}
  <2>1. S \subseteq Nat /\ 2 \in S /\ calm + 1 \in S
    BY DEF TypeOK
  <2>2. \E x \in S : \A y \in S : x =< y
    BY <2>1
  <2> HIDE DEF S
  <2>3. Min(S) \in S /\ \A y \in S : Min(S) =< y
    BY <2>2 DEF Min
  <2>4. Min(S) \in 0 .. 2
    <3>1. Min(S) =< 2
      BY <2>1, <2>3
    <3>2. Min(S) \in Nat
      BY <2>1, <2>3
    <3> QED
      BY <3>1, <3>2
  <2> QED
    BY <2>4 DEF S
<1>4. calm' \in 0 .. 2
  BY <1>3 DEF Finish
<1>5. settled' \in BOOLEAN /\ undisturbed' \in BOOLEAN
  BY Zenon DEF Finish
<1> QED
  BY <1>1, <1>2, <1>4, <1>5 DEF Finish

LEMMA GiveUpIInv ==
    ASSUME IInv, GiveUp
    PROVE  IInv'
<1>1. Finish(FALSE, FALSE) /\ UNCHANGED <<disk, clock, faults, index, merge, patch_lost, misread, failed>>
  BY DEF GiveUp
<1>2. /\ pc' = "idle" /\ crawled' \in Disk /\ plan' \in Plan
      /\ calm' \in 0 .. 2 /\ settled' \in BOOLEAN /\ undisturbed' \in BOOLEAN
  BY <1>1, FinishTyped DEF IInv
<1>3. TypeOK'
  BY <1>1, <1>2 DEF IInv, TypeOK, index
<1> QED
  BY <1>1, <1>2, <1>3, NothingPlanned

\* What an update decides, when reads of the files in failing fail.
Decides(failing) ==
    LET decided == reconcile(View, crawled, ReadNow(failing))
    IN /\ faults' = faults + Cardinality(failing)
       /\ is_empty(decided) => Finish(failing = {}, TRUE) /\ UNCHANGED misread
       /\ ~is_empty(decided) =>
             /\ pc' = "update"
             /\ plan' = decided
             /\ undisturbed' = (undisturbed /\ failing = {})
             /\ misread' = (misread \/ \E id \in DOMAIN decided.patches :
                               ReadAnother(decided.patches[id].path, ReadNow(failing)))
             /\ UNCHANGED <<crawled, calm, settled>>

LEMMA DecideReads ==
    ASSUME Decide
    PROVE  /\ pc = "reconcile" /\ UNCHANGED <<disk, clock, index, merge, patch_lost, failed>>
           /\ \E failing \in Failing : Decides(failing)
BY DEF Decide, Decides

LEMMA DecideIInv ==
    ASSUME IInv, Decide
    PROVE  IInv'
<1>1. UNCHANGED <<disk, clock, index, merge, patch_lost, failed>>
  BY DecideReads
<1>2. PICK failing \in Failing : Decides(failing)
  BY DecideReads
<1> DEFINE now == ReadNow(failing)
           decided == reconcile(View, crawled, now)
<1>3. TypeOK /\ failing \in SUBSET Existing /\ faults + Cardinality(failing) \in 0 .. MaxFaults
  BY FaultsTyped DEF IInv
<1>4. now \in Disk /\ faults' \in 0 .. MaxFaults
  BY <1>2, <1>3, ReadsTyped DEF Decides
<1>5. CASE is_empty(decided)
  <2>1. Finish(failing = {}, TRUE) /\ UNCHANGED misread
    BY <1>2, <1>5 DEF Decides
  <2>2. (failing = {}) \in BOOLEAN
    OBVIOUS
  <2>3. /\ pc' = "idle" /\ crawled' \in Disk /\ plan' \in Plan
        /\ calm' \in 0 .. 2 /\ settled' \in BOOLEAN /\ undisturbed' \in BOOLEAN
    BY <1>3, <2>1, <2>2, FinishTyped
  <2>4. TypeOK'
    BY <1>1, <1>4, <2>1, <2>3 DEF IInv, TypeOK, index
  <2> QED
    BY <1>1, <2>3, <2>4, NothingPlanned
<1>6. CASE ~is_empty(decided)
  <2>1. /\ pc' = "update" /\ plan' = decided
        /\ undisturbed' = (undisturbed /\ failing = {})
        /\ misread' = (misread \/ \E id \in DOMAIN decided.patches :
                          ReadAnother(decided.patches[id].path, now))
        /\ UNCHANGED <<crawled, calm, settled>>
    BY <1>2, <1>6 DEF Decides
  <2>2. /\ LiveIds \in SUBSET DocId /\ View \in [LiveIds -> Doc]
        /\ crawled \in Disk /\ disk \in Disk
    BY DecodableRow, ViewFacts DEF IInv, TypeOK
  <2> HIDE DEF now
  <2>3. plan' \in PlanFor(LiveIds) /\ (Once(View) => Apart(View, plan'))
    BY <1>4, <2>1, <2>2, ReconcileFacts
  <2> HIDE DEF decided
  <2>4. plan' \in Plan
    BY <2>2, <2>3 DEF Plan, PlanFor
  <2>5. misread' \in BOOLEAN /\ undisturbed' \in BOOLEAN
    BY <2>1, Zenon DEF IInv, TypeOK
  <2>6. TypeOK'
    BY <1>1, <1>4, <2>1, <2>4, <2>5 DEF IInv, TypeOK, index
  <2>7. ~patch_lost' => Once(View)
    BY <1>1, ViewFacts DEF IInv, OneDocPerPath
  <2>8. PlanFits'
    BY <1>1, <2>3, <2>7, IndexUnmoved, PlanTyped DEF PlanFits
  <2> QED
    BY <1>1, <2>6, <2>8, IndexUnmoved, MergeUnmoved DEF IInv
<1> QED
  BY <1>5, <1>6

LEMMA NoMergeFits ==
    ASSUME IInv, merge' = NoMerge, next_id' \in Nat
    PROVE  /\ MergeFollows'
           /\ (/\ merge.sources \subseteq 0 .. (MaxSegments - 1)
               /\ merge.dead \in [merge.sources -> SUBSET Nat]
               /\ merge.docs \in Seq(Doc) /\ merge.origin \in Seq(Nat \X Nat))'
<1>1. /\ << >> \in Seq(Doc) /\ << >> \in Seq(Nat \X Nat)
      /\ << >> \in [{} -> SUBSET Nat] /\ DOMAIN << >> = {}
  OBVIOUS
<1>2. /\ merge'.sources = {} /\ merge'.dead = << >>
      /\ merge'.docs = << >> /\ merge'.origin = << >>
  BY DEF NoMerge
<1> QED
  BY <1>1, <1>2 DEF MergeFollows

LEMMA DropMergeIInv ==
    ASSUME IInv, DropMerge
    PROVE  IInv'
<1>1. merge' = NoMerge /\ UNCHANGED <<disk, clock, faults, index, update, history>>
  BY DEF DropMerge
<1>2. UNCHANGED <<segments, overlay, next_id, pc, crawled, plan, patch_lost>>
  BY <1>1 DEF index, update, history
<1>3. next_id' \in Nat
  BY <1>2 DEF IInv, TypeOK
<1>4. TypeOK'
  BY <1>1, <1>2, <1>3, NoMergeFits DEF IInv, TypeOK, history
<1>5. PlanFits'
  BY <1>1, <1>2, IndexUnmoved DEF IInv, PlanFits
<1> QED
  BY <1>1, <1>2, <1>3, <1>4, <1>5, IndexUnmoved, NoMergeFits DEF IInv

-----------------------------------------------------------------------------
(* Commits: what is live afterwards.                                       *)

\* The docs of a new segment have ids that were not given out.
LEMMA AppendLive ==
    ASSUME NEW S, Row(S), NEW s \in Segment, s.dead \subseteq DOMAIN s.docs,
           Bound(S) <= s.base_doc, \A i \in DOMAIN S : S[i].segment_id # s.segment_id
    PROVE  LET R == Append(S, s)
           IN /\ \A id \in Live(S) : id \in Live(R) /\ RecordIn(R, id) = RecordIn(S, id)
              /\ \A l \in LiveLocals(s) : /\ IdOf(s, l) \in Live(R)
                                          /\ RecordIn(R, IdOf(s, l)) = s.docs[l]
                                          /\ IdOf(s, l) >= Bound(S)
                                          /\ IdOf(s, l) - s.base_doc + 1 = l
              /\ \A id \in Live(R) : id \in Live(S) \/ \E l \in LiveLocals(s) : id = IdOf(s, l)
<1> DEFINE R == Append(S, s)
           n == Len(S) + 1
<1>1. /\ Row(R) /\ DOMAIN R = DOMAIN S \cup {n} /\ n \notin DOMAIN S /\ R[n] = s
      /\ \A i \in DOMAIN S : R[i] = S[i]
  BY AppendRow
<1> HIDE DEF R, n
<1>2. ASSUME NEW id \in Live(S) PROVE id \in Live(R) /\ RecordIn(R, id) = RecordIn(S, id)
  <2>1. PICK i \in DOMAIN S : \E l \in LiveLocals(S[i]) : id = IdOf(S[i], l)
    BY LiveAt
  <2>2. PICK l \in LiveLocals(S[i]) : id = IdOf(S[i], l)
    BY <2>1
  <2>3. i \in DOMAIN R /\ R[i] = S[i] /\ l \in DOMAIN S[i].docs
    BY <1>1, RowFacts
  <2>4. id \in Live(R)
    BY <2>2, <2>3, LiveAt
  <2>5. RecordIn(S, id) = S[i].docs[l]
    BY <2>2, <2>3, RecordAt
  <2>6. RecordIn(R, id) = R[i].docs[l]
    BY <1>1, <2>2, <2>3, RecordAt
  <2> QED
    BY <2>3, <2>4, <2>5, <2>6
<1>3. ASSUME NEW l \in LiveLocals(s)
      PROVE  /\ IdOf(s, l) \in Live(R) /\ RecordIn(R, IdOf(s, l)) = s.docs[l]
             /\ IdOf(s, l) >= Bound(S) /\ IdOf(s, l) - s.base_doc + 1 = l
  <2>1. n \in DOMAIN R /\ l \in DOMAIN R[n].docs /\ l \in LiveLocals(R[n])
    BY <1>1 DEF LiveLocals
  <2>2. RecordIn(R, IdOf(s, l)) = s.docs[l] /\ IdOf(s, l) \in Live(R)
    BY <1>1, <2>1, RecordAt, LiveAt
  <2>3. /\ s.base_doc <= IdOf(s, l) /\ IdOf(s, l) \in Nat
        /\ IdOf(s, l) - s.base_doc + 1 = l
    BY <1>1, <2>1, InRange
  <2>4. s.base_doc \in Nat /\ Bound(S) \in Nat
    BY BoundIs DEF Segment
  <2> QED
    BY <2>2, <2>3, <2>4
<1>4. ASSUME NEW id \in Live(R), id \notin Live(S)
      PROVE  \E l \in LiveLocals(s) : id = IdOf(s, l)
  <2>1. PICK i \in DOMAIN R : \E l \in LiveLocals(R[i]) : id = IdOf(R[i], l)
    BY LiveAt
  <2>2. i \notin DOMAIN S
    BY <1>1, <1>4, <2>1, LiveAt
  <2> QED
    BY <1>1, <2>1, <2>2
<1> QED
  BY <1>2, <1>3, <1>4 DEF R

\* A segment of new docs, if there are any.
LEMMA NewRow ==
    ASSUME NEW S, Row(S), NEW docs \in Seq(Doc), NEW base \in Nat, Bound(S) <= base,
           next_id \in Nat, \A i \in DOMAIN S : S[i].segment_id < next_id
    PROVE  LET R == S \o NewSegment(docs, base)
           IN /\ Row(R)
              /\ Bound(S) <= Bound(R) /\ Bound(R) \in {Bound(S), base + Len(docs)}
              /\ \A k \in DOMAIN R : \/ k \in DOMAIN S /\ R[k] = S[k]
                                     \/ docs # << >> /\ R[k].segment_id = next_id
              /\ \A id \in Live(R) :
                    \/ id \in Live(S) /\ RecordIn(R, id) = RecordIn(S, id)
                    \/ /\ id >= Bound(S) /\ id - base + 1 \in DOMAIN docs
                       /\ RecordIn(R, id) = docs[id - base + 1]
              /\ \A id \in Live(S) : id \in Live(R) /\ RecordIn(R, id) = RecordIn(S, id)
              /\ \A i \in DOMAIN docs : \E id \in Live(R) : id >= Bound(S) /\ RecordIn(R, id) = docs[i]
<1> DEFINE R == S \o NewSegment(docs, base)
           s == [segment_id |-> next_id, base_doc |-> base, docs |-> docs, dead |-> {}]
<1>1. S \in Seq(Segment)
  BY DEF Row
<1>2. CASE docs = << >>
  <2>1. R = S
    BY <1>1, <1>2 DEF NewSegment
  <2>2. DOMAIN docs = {}
    BY <1>2
  <2> HIDE DEF R
  <2> QED
    BY <2>1, <2>2, BoundIs DEF R
<1>3. CASE docs # << >>
  <2>1. s \in Segment /\ s.dead \subseteq DOMAIN s.docs /\ LiveLocals(s) = DOMAIN docs
    BY DEF Segment, LiveLocals
  <2>2. NewSegment(docs, base) = <<s>>
    BY <1>3 DEF NewSegment
  <2>3. R = Append(S, s)
    BY <1>1, <2>1, <2>2
  <2>4. \A i \in DOMAIN S : S[i].segment_id # s.segment_id
    BY RowFacts
  <2>5. /\ s.docs = docs /\ s.base_doc = base /\ s.segment_id = next_id
        /\ end_doc(s) = base + Len(docs)
    BY DEF end_doc
  <2> HIDE DEF s, R
  <2>6. /\ Row(R) /\ DOMAIN R = DOMAIN S \cup {Len(S) + 1}
        /\ R[Len(S) + 1] = s /\ \A i \in DOMAIN S : R[i] = S[i]
    BY <2>1, <2>3, <2>4, <2>5, AppendRow
  <2>7. Bound(R) = base + Len(docs)
    BY <2>1, <2>3, <2>4, <2>5, AppendBound
  <2>8. Bound(S) <= Bound(R)
    BY <2>7, BoundIs
  <2>9. \A k \in DOMAIN R : (k \in DOMAIN S /\ R[k] = S[k]) \/ R[k].segment_id = next_id
    BY <2>5, <2>6
  <2>10. ASSUME NEW id \in Live(R)
         PROVE  \/ id \in Live(S) /\ RecordIn(R, id) = RecordIn(S, id)
                \/ /\ id >= Bound(S) /\ id - base + 1 \in DOMAIN docs
                   /\ RecordIn(R, id) = docs[id - base + 1]
    <3>1. CASE id \in Live(S)
      BY <2>1, <2>3, <2>4, <2>5, <3>1, AppendLive
    <3>2. CASE id \notin Live(S)
      <4>1. PICK l \in LiveLocals(s) : id = IdOf(s, l)
        BY <2>1, <2>3, <2>4, <2>5, <3>2, AppendLive
      <4>2. RecordIn(R, id) = docs[l] /\ id >= Bound(S) /\ id - base + 1 = l
        BY <2>1, <2>3, <2>4, <2>5, <4>1, AppendLive
      <4> QED
        BY <2>1, <4>2
    <3> QED
      BY <3>1, <3>2
  <2>11. \A id \in Live(S) : id \in Live(R) /\ RecordIn(R, id) = RecordIn(S, id)
    BY <2>1, <2>3, <2>4, <2>5, AppendLive
  <2>12. \A i \in DOMAIN docs : /\ IdOf(s, i) \in Live(R) /\ RecordIn(R, IdOf(s, i)) = docs[i]
                               /\ IdOf(s, i) >= Bound(S)
    BY <2>1, <2>3, <2>4, <2>5, AppendLive
  <2> QED
    BY <1>3, <2>6, <2>7, <2>8, <2>9, <2>10, <2>11, <2>12 DEF R
<1> QED
  BY <1>2, <1>3

\* Docs that die are not live, the others are what they were.
LEMMA DeadLive ==
    ASSUME NEW S, Row(S), NEW R, SameButDead(S, R),
           \A i \in DOMAIN S : S[i].dead \subseteq R[i].dead
    PROVE  \A id \in Live(R) :
              /\ id \in Live(S) /\ RecordIn(R, id) = RecordIn(S, id)
              /\ \E i \in DOMAIN S : \E l \in LiveLocals(R[i]) : id = IdOf(S[i], l) /\ l \in DOMAIN S[i].docs
<1> SUFFICES ASSUME NEW id \in Live(R)
             PROVE  /\ id \in Live(S) /\ RecordIn(R, id) = RecordIn(S, id)
                    /\ \E i \in DOMAIN S : \E l \in LiveLocals(R[i]) :
                          id = IdOf(S[i], l) /\ l \in DOMAIN S[i].docs
  OBVIOUS
<1>1. Row(R)
  BY DeadRow
<1>2. PICK i \in DOMAIN R : \E l \in LiveLocals(R[i]) : id = IdOf(R[i], l)
  BY LiveAt
<1>3. PICK l \in LiveLocals(R[i]) : id = IdOf(R[i], l)
  BY <1>2
<1>4. i \in DOMAIN S /\ R[i].docs = S[i].docs /\ R[i].base_doc = S[i].base_doc
  BY DEF SameButDead
<1>5. l \in DOMAIN R[i].docs /\ l \in LiveLocals(S[i]) /\ IdOf(R[i], l) = IdOf(S[i], l)
  BY <1>4 DEF LiveLocals, IdOf
<1>6. id \in Live(S)
  BY <1>3, <1>4, <1>5, LiveAt
<1>7. RecordIn(R, id) = R[i].docs[l] /\ RecordIn(S, id) = S[i].docs[l]
  BY <1>1, <1>3, <1>4, <1>5, RecordAt
<1> QED
  BY <1>3, <1>4, <1>5, <1>6, <1>7

LEMMA NewDocTyped ==
    ASSUME NEW f \in File, NEW p \in Path, NEW read \in Disk
    PROVE  NewDoc(f, p, read) \in Doc /\ NewDoc(f, p, read).path = p
<1>1. read[p] # NoFile => read[p].content \in Text \cup Binary
  BY DEF Disk, File
<1>2. f.inode \in Inode /\ f.mtime \in 1 .. MaxClock
  BY DEF File
<1> DEFINE text == f.content \in Text
           content == IF text /\ read[p] # NoFile THEN read[p].content ELSE Unread
<1>3. text \in BOOLEAN
  OBVIOUS
<1>4. content \in Text \cup Binary \cup {Unread}
  BY <1>1
<1>5. NewDoc(f, p, read) = [path |-> p, inode |-> f.inode, mtime |-> f.mtime, was_read |-> text,
                            content |-> content]
  BY Zenon DEF NewDoc
<1> HIDE DEF text, content
<1> QED
  BY <1>2, <1>3, <1>4, <1>5 DEF Doc

\* The docs that are made of the files todo.
DocsOf(todo, read) == [i \in DOMAIN todo |-> NewDoc(todo[i].file, todo[i].path, read)]

LEMMA DocsOfTyped ==
    ASSUME NEW todo \in Seq([path : Path, file : File]), NEW read \in Disk
    PROVE  /\ DocsOf(todo, read) \in Seq(Doc) /\ DOMAIN DocsOf(todo, read) = DOMAIN todo
           /\ Len(DocsOf(todo, read)) = Len(todo)
           /\ DocsOf(todo, read) = << >> <=> todo = << >>
           /\ \A i \in DOMAIN todo : DocsOf(todo, read)[i].path = todo[i].path
           /\ FailedReads(todo, read) \subseteq Inode \X (1 .. MaxClock)
           /\ \A base : Indexed(todo, base, read) = NewSegment(DocsOf(todo, read), base)
<1> DEFINE docs == DocsOf(todo, read)
<1>1. \A i \in DOMAIN todo : todo[i].path \in Path /\ todo[i].file \in File
  <2>1. \A i \in DOMAIN todo : todo[i] \in [path : Path, file : File]
    BY Elements
  <2> QED
    BY <2>1
<1>2. \A i \in DOMAIN todo : docs[i] \in Doc /\ docs[i].path = todo[i].path
  BY <1>1, NewDocTyped DEF DocsOf
<1>3. docs = [i \in 1 .. Len(todo) |-> docs[i]] /\ DOMAIN docs = DOMAIN todo
  BY DEF DocsOf
<1>4. Len(todo) \in Nat /\ DOMAIN todo = 1 .. Len(todo)
  OBVIOUS
<1>5. FailedReads(todo, read) \subseteq Inode \X (1 .. MaxClock)
  BY <1>1 DEF FailedReads, File
<1>6. \A base : Indexed(todo, base, read) = NewSegment(docs, base)
  BY DEF Indexed, DocsOf
<1> HIDE DEF docs
<1>7. docs \in Seq(Doc)
  BY <1>2, <1>3, <1>4
<1>8. Len(docs) = Len(todo)
  BY <1>3, <1>4, <1>7
<1>9. docs = << >> <=> todo = << >>
  BY <1>7, <1>8
<1> QED
  BY <1>2, <1>3, <1>5, <1>6, <1>7, <1>8, <1>9 DEF docs

\* What a commit can read: no bytes that are not there.
Reads(read) == read \in Disk /\ \A p \in Path : read[p] # NoFile => read[p] = disk[p]

-----------------------------------------------------------------------------
(* CommitUpdate.                                                           *)

NewDocs(read) == DocsOf(plan.reindex, read)
Tombstoned == [i \in DOMAIN segments |-> Tombstone(segments[i], plan.deletes)]

\* An update that reads this is committed.
Updates(read) ==
    /\ segments' = Tombstoned \o Indexed(plan.reindex, id_bound, read)
    /\ misread' = (misread \/ \E i \in DOMAIN plan.reindex : ReadAnother(plan.reindex[i].path, read))
    /\ failed' = failed \cup FailedReads(plan.reindex, read)

LEMMA UpdateReads ==
    ASSUME TypeOK, CommitUpdate
    PROVE  \E read : Reads(read) /\ Updates(read) /\ faults' \in 0 .. MaxFaults
<1>1. PICK failing \in Failing :
         /\ Updates(ReadNow(failing)) /\ faults' = faults + Cardinality(failing)
  BY DEF CommitUpdate, Updates, Tombstoned
<1>2. Reads(ReadNow(failing)) /\ faults' \in 0 .. MaxFaults
  BY <1>1, FaultsTyped, ReadsTyped DEF Reads
<1> QED
  BY <1>1, <1>2

LEMMA NewDocsTyped ==
    ASSUME TypeOK, NEW read \in Disk
    PROVE  /\ NewDocs(read) \in Seq(Doc) /\ DOMAIN NewDocs(read) = DOMAIN plan.reindex
           /\ Len(NewDocs(read)) = Len(plan.reindex)
           /\ NewDocs(read) = << >> <=> plan.reindex = << >>
           /\ \A i \in DOMAIN plan.reindex : NewDocs(read)[i].path = plan.reindex[i].path
           /\ FailedReads(plan.reindex, read) \subseteq Inode \X (1 .. MaxClock)
           /\ \A base : Indexed(plan.reindex, base, read) = NewSegment(NewDocs(read), base)
<1>1. plan.reindex \in Seq([path : Path, file : File])
  BY DEF TypeOK, Plan
<1> QED
  BY <1>1, DocsOfTyped DEF NewDocs

LEMMA TombstonedFacts ==
    ASSUME TypeOK, Decodable
    PROVE  /\ SameButDead(segments, Tombstoned)
           /\ \A i \in DOMAIN segments : segments[i].dead \subseteq Tombstoned[i].dead
           /\ Row(Tombstoned) /\ Bound(Tombstoned) = Bound(segments)
           /\ \A i \in DOMAIN Tombstoned : Tombstoned[i].segment_id < next_id
           /\ \A id \in Live(Tombstoned) :
                 /\ id \in LiveIds /\ id \notin plan.deletes
                 /\ RecordIn(Tombstoned, id) = RecordIn(segments, id)
           /\ LiveIds \ plan.deletes \subseteq Live(Tombstoned)
<1> DEFINE Hit(s) == {l \in DOMAIN s.docs : IdOf(s, l) \in plan.deletes}
<1>1. Row(segments) /\ segments \in Seq(Segment) /\ LiveIds = Live(segments)
  BY DecodableRow, Rows DEF Row
<1>2. ASSUME NEW i \in DOMAIN segments
      PROVE  LET t == Tombstone(segments[i], plan.deletes)
             IN /\ t \in Segment /\ t.segment_id = segments[i].segment_id
                /\ t.base_doc = segments[i].base_doc /\ t.docs = segments[i].docs
                /\ t.dead = segments[i].dead \cup Hit(segments[i])
  <2>1. segments[i] \in Segment /\ DOMAIN segments[i].docs \subseteq Nat
    BY <1>1, RowFacts
  <2>2. Hit(segments[i]) \subseteq Nat
    BY <2>1
  <2>3. Tombstone(segments[i], plan.deletes) =
           [segments[i] EXCEPT !.dead = @ \cup Hit(segments[i])]
    BY DEF Tombstone
  <2> HIDE DEF Hit
  <2> QED
    BY <2>1, <2>2, <2>3 DEF Segment
<1>3. \A i \in DOMAIN segments : Tombstoned[i] = Tombstone(segments[i], plan.deletes)
  BY DEF Tombstoned
<1>4. Tombstoned \in Seq(Segment) /\ DOMAIN Tombstoned = DOMAIN segments
  <2>1. Tombstoned = [i \in 1 .. Len(segments) |-> Tombstoned[i]]
    BY <1>1 DEF Tombstoned
  <2>2. \A i \in 1 .. Len(segments) : Tombstoned[i] \in Segment
    BY <1>1, <1>2, <1>3
  <2>3. Len(segments) \in Nat
    BY <1>1
  <2> QED
    BY <1>1, <2>1, <2>2, <2>3 DEF Tombstoned
<1>5. \A i \in DOMAIN segments : segments[i].dead \cup Hit(segments[i]) \subseteq DOMAIN segments[i].docs
  BY <1>1 DEF Row
<1>6. SameButDead(segments, Tombstoned)
  BY <1>2, <1>3, <1>4, <1>5 DEF SameButDead
<1>7. \A i \in DOMAIN segments : segments[i].dead \subseteq Tombstoned[i].dead
  BY <1>2, <1>3
<1>8. \A i \in DOMAIN Tombstoned : Tombstoned[i].segment_id < next_id
  BY <1>2, <1>3, <1>4 DEF Decodable
<1>9. ASSUME NEW id \in Live(Tombstoned)
      PROVE  /\ id \in LiveIds /\ id \notin plan.deletes
             /\ RecordIn(Tombstoned, id) = RecordIn(segments, id)
  <2>1. /\ id \in LiveIds /\ RecordIn(Tombstoned, id) = RecordIn(segments, id)
        /\ \E i \in DOMAIN segments : \E l \in LiveLocals(Tombstoned[i]) :
              id = IdOf(segments[i], l) /\ l \in DOMAIN segments[i].docs
    BY <1>1, <1>6, <1>7, DeadLive
  <2>2. PICK i \in DOMAIN segments : \E l \in LiveLocals(Tombstoned[i]) :
              id = IdOf(segments[i], l) /\ l \in DOMAIN segments[i].docs
    BY <2>1
  <2>3. id \notin plan.deletes
    BY <1>2, <1>3, <2>2 DEF LiveLocals
  <2> QED
    BY <2>1, <2>3
<1>10. ASSUME NEW id \in LiveIds \ plan.deletes PROVE id \in Live(Tombstoned)
  <2>1. PICK i \in DOMAIN segments : \E l \in LiveLocals(segments[i]) : id = IdOf(segments[i], l)
    BY <1>1, LiveAt
  <2>2. PICK l \in LiveLocals(segments[i]) : id = IdOf(segments[i], l)
    BY <2>1
  <2>3. l \in LiveLocals(Tombstoned[i])
    BY <1>2, <1>3, <2>2 DEF LiveLocals
  <2>4. IdOf(Tombstoned[i], l) = id
    BY <1>2, <1>3, <2>2 DEF IdOf
  <2> QED
    BY <1>4, <2>3, <2>4, LiveAt
<1> QED
  BY <1>1, <1>6, <1>7, <1>8, <1>9, <1>10, DeadRow

\* What a doc is after the update, unless it is new, and where it is: as the
\* plan says.
MovedDoc(id) == IF id \in DOMAIN plan.patches THEN Patched(View[id], plan.patches[id]) ELSE View[id]
MovedTo(id) == IF id \in DOMAIN plan.patches THEN plan.patches[id].path ELSE View[id].path

\* The last patch of a doc is the one that shows.
LEMMA LastPatch ==
    ASSUME NEW d \in Doc, NEW a \in Patch, NEW b \in Patch
    PROVE  Patched(Patched(d, a), b) = Patched(d, b)
BY DEF Patched, Doc, Patch

LEMMA UpdateMoves ==
    ASSUME IInv, CommitUpdate, NEW read, Reads(read), Updates(read)
    PROVE  /\ Row(segments') /\ next_id' \in {next_id, next_id + 1} /\ next_id' <= MaxSegments
           /\ Bound(segments) <= Bound(segments') /\ Bound(segments') <= MaxDoc
           /\ \A k \in DOMAIN segments' :
                 \/ k \in DOMAIN segments /\ segments'[k] = Tombstoned[k]
                 \/ next_id' = next_id + 1 /\ segments'[k].segment_id = next_id
           /\ overlay' \in Patches /\ \A id \in DOMAIN overlay' : id < Bound(segments)
           /\ \A id \in Live(segments') :
                 \/ /\ id \in LiveIds \ plan.deletes
                    /\ RecordIn(segments', id) = RecordIn(segments, id)
                    /\ DocIn(segments', overlay', id) = MovedDoc(id)
                    /\ MovedDoc(id).path = MovedTo(id)
                 \/ LET i == id - Bound(segments) + 1
                    IN /\ id >= Bound(segments) /\ i \in DOMAIN plan.reindex
                       /\ DocIn(segments', overlay', id) = NewDocs(read)[i]
                       /\ NewDocs(read)[i].path = plan.reindex[i].path
           /\ \A id \in LiveIds \ plan.deletes : id \in Live(segments')
           /\ \A i \in DOMAIN plan.reindex : \E id \in Live(segments') :
                 DocIn(segments', overlay', id) = NewDocs(read)[i]
<1> DEFINE B == Bound(segments)
           docs == NewDocs(read)
<1>1. TypeOK /\ Decodable /\ PatchesInRange /\ pc = "update"
  BY DEF IInv, CommitUpdate
<1>2. /\ docs \in Seq(Doc) /\ DOMAIN docs = DOMAIN plan.reindex
      /\ \A i \in DOMAIN plan.reindex : docs[i].path = plan.reindex[i].path
  BY <1>1, NewDocsTyped DEF Reads
<1>3. /\ B + Len(docs) <= MaxDoc
      /\ docs # << >> => next_id < MaxSegments
      /\ segments' = Tombstoned \o NewSegment(docs, B)
      /\ next_id' = next_id + (IF docs = << >> THEN 0 ELSE 1)
      /\ overlay' = MergedOverlay
  <2>1. /\ B + Len(plan.reindex) <= MaxDoc
        /\ plan.reindex # << >> => next_id < MaxSegments
        /\ next_id' = next_id + (IF plan.reindex = << >> THEN 0 ELSE 1)
        /\ overlay' = MergedOverlay
    BY Rows DEF CommitUpdate
  <2>2. /\ Len(docs) = Len(plan.reindex) /\ (docs = << >> <=> plan.reindex = << >>)
        /\ Indexed(plan.reindex, B, read) = NewSegment(docs, B)
    BY <1>1, NewDocsTyped DEF Reads
  <2>3. segments' = Tombstoned \o Indexed(plan.reindex, B, read)
    BY Rows DEF Updates
  <2> QED
    BY <2>1, <2>2, <2>3
<1>4. /\ Row(segments) /\ B \in Nat /\ B <= MaxDoc /\ next_id \in Nat /\ next_id <= MaxSegments
      /\ LiveIds = Live(segments) /\ LiveIds \in SUBSET DocId
      /\ MaxDoc \in Nat /\ MaxSegments \in Nat
  BY <1>1, DecodableRow, BoundIs, Rows, ContentAssumption, SegmentsAssumption DEF TypeOK
<1>5. /\ Row(Tombstoned) /\ Bound(Tombstoned) = B
      /\ DOMAIN Tombstoned = DOMAIN segments
      /\ \A i \in DOMAIN Tombstoned : Tombstoned[i].segment_id < next_id
      /\ \A id \in Live(Tombstoned) :
            /\ id \in LiveIds /\ id \notin plan.deletes
            /\ RecordIn(Tombstoned, id) = RecordIn(segments, id)
      /\ LiveIds \ plan.deletes \subseteq Live(Tombstoned)
  BY <1>1, TombstonedFacts DEF SameButDead
<1> HIDE DEF B, docs
<1>6. /\ Row(segments') /\ B <= Bound(segments') /\ Bound(segments') \in {B, B + Len(docs)}
      /\ \A k \in DOMAIN segments' : \/ k \in DOMAIN segments /\ segments'[k] = Tombstoned[k]
                                     \/ docs # << >> /\ segments'[k].segment_id = next_id
      /\ \A id \in Live(segments') :
            \/ id \in Live(Tombstoned) /\ RecordIn(segments', id) = RecordIn(Tombstoned, id)
            \/ /\ id >= B /\ id - B + 1 \in DOMAIN docs
               /\ RecordIn(segments', id) = docs[id - B + 1]
      /\ \A id \in Live(Tombstoned) : id \in Live(segments')
      /\ \A i \in DOMAIN docs : \E id \in Live(segments') : id >= B /\ RecordIn(segments', id) = docs[i]
  BY <1>2, <1>3, <1>4, <1>5, NewRow
<1>7. /\ plan.deletes \subseteq LiveIds /\ DOMAIN plan.patches \subseteq LiveIds
      /\ \A id \in LiveIds : id < B
  BY <1>1, <1>4, LiveBelow DEF IInv, PlanFits, B
<1>8. /\ DOMAIN overlay' = (DOMAIN plan.patches \cup DOMAIN overlay) \ plan.deletes
      /\ \A id \in DOMAIN overlay' :
            overlay'[id] = IF id \in DOMAIN plan.patches THEN plan.patches[id] ELSE overlay[id]
  BY <1>3 DEF MergedOverlay
<1>9. /\ plan.patches \in Patches /\ overlay \in Patches
      /\ \A id \in DOMAIN overlay : id < B
  BY <1>1, Rows DEF TypeOK, Plan, Patches, PatchesInRange, B
<1>10. overlay' \in Patches
  <2>1. \A id \in DOMAIN overlay' : id \in DocId /\ overlay'[id] \in Patch
    BY <1>8, <1>9 DEF Patches
  <2>2. overlay' = [id \in DOMAIN overlay' |-> overlay'[id]]
    BY <1>3 DEF MergedOverlay
  <2> QED
    BY <2>1, <2>2 DEF Patches
<1>11. \A id \in DOMAIN overlay' : id < B
  BY <1>7, <1>8, <1>9
<1>12. ASSUME NEW id \in Live(segments')
       PROVE  \/ /\ id \in LiveIds \ plan.deletes
                 /\ RecordIn(segments', id) = RecordIn(segments, id)
                 /\ DocIn(segments', overlay', id) = MovedDoc(id)
                 /\ MovedDoc(id).path = MovedTo(id)
              \/ LET i == id - B + 1
                 IN /\ id >= B /\ i \in DOMAIN plan.reindex
                    /\ DocIn(segments', overlay', id) = docs[i]
                    /\ docs[i].path = plan.reindex[i].path
  <2>1. CASE id \in Live(Tombstoned) /\ RecordIn(segments', id) = RecordIn(Tombstoned, id)
    <3>1. id \in LiveIds \ plan.deletes /\ RecordIn(segments', id) = RecordIn(segments, id)
      BY <1>5, <2>1
    <3>2. RecordIn(segments, id) \in Doc
      BY <1>4, <1>9, <3>1, ShownDoc
    <3>3. View[id] = DocIn(segments, overlay, id)
      BY <1>1, <3>1, ViewFacts
    <3>4. DocIn(segments', overlay', id) = MovedDoc(id) /\ MovedDoc(id).path = MovedTo(id)
      <4>1. CASE id \in DOMAIN plan.patches
        <5>1. id \in DOMAIN overlay' /\ overlay'[id] = plan.patches[id]
          BY <1>8, <3>1, <4>1
        <5>2. DocIn(segments', overlay', id) = Patched(RecordIn(segments, id), plan.patches[id])
          BY <3>1, <5>1 DEF DocIn
        <5>3. plan.patches[id] \in Patch /\ (id \in DOMAIN overlay => overlay[id] \in Patch)
          BY <1>9, <4>1 DEF Patches
        <5>4. DocIn(segments', overlay', id) = Patched(View[id], plan.patches[id])
          BY <3>2, <3>3, <5>2, <5>3, LastPatch DEF DocIn
        <5>5. Patched(RecordIn(segments, id), plan.patches[id]).path = plan.patches[id].path
          BY <3>2 DEF Patched, Doc
        <5> QED
          BY <4>1, <5>2, <5>4, <5>5 DEF MovedDoc, MovedTo
      <4>2. CASE id \notin DOMAIN plan.patches
        <5>1. id \in DOMAIN overlay' <=> id \in DOMAIN overlay
          BY <1>8, <3>1, <4>2
        <5>2. id \in DOMAIN overlay => overlay'[id] = overlay[id]
          BY <1>8, <4>2, <5>1
        <5>3. DocIn(segments', overlay', id) = DocIn(segments, overlay, id)
          BY <3>1, <5>1, <5>2 DEF DocIn
        <5> QED
          BY <3>3, <4>2, <5>3 DEF MovedDoc, MovedTo
      <4> QED
        BY <4>1, <4>2
    <3> QED
      BY <3>1, <3>4
  <2>2. CASE id >= B /\ id - B + 1 \in DOMAIN docs /\ RecordIn(segments', id) = docs[id - B + 1]
    <3>1. id \in Nat
      BY <1>6, LiveBelow
    <3>2. id \notin DOMAIN overlay'
      BY <1>4, <1>11, <2>2, <3>1
    <3>3. DocIn(segments', overlay', id) = docs[id - B + 1]
      BY <2>2, <3>2 DEF DocIn
    <3> QED
      BY <1>2, <2>2, <3>3
  <2> QED
    BY <1>6, <2>1, <2>2
<1>13. /\ next_id' \in {next_id, next_id + 1} /\ next_id' <= MaxSegments
       /\ docs # << >> => next_id' = next_id + 1
  BY <1>3, <1>4
<1>14. Bound(segments') <= MaxDoc
  BY <1>3, <1>4, <1>6
<1>15. \A id \in LiveIds \ plan.deletes : id \in Live(segments')
  BY <1>5, <1>6
<1>16. ASSUME NEW i \in DOMAIN plan.reindex
       PROVE  \E id \in Live(segments') : DocIn(segments', overlay', id) = docs[i]
  <2>1. PICK id \in Live(segments') : id >= B /\ RecordIn(segments', id) = docs[i]
    BY <1>2, <1>6
  <2>2. id \in Nat
    BY <1>6, LiveBelow
  <2>3. id \notin DOMAIN overlay'
    BY <1>4, <1>11, <2>1, <2>2
  <2> QED
    BY <2>1, <2>3 DEF DocIn
<1> QED
  BY <1>6, <1>10, <1>11, <1>12, <1>13, <1>14, <1>15, <1>16 DEF B, docs

\* What is committed passes the checks of Manifest::decode.
LEMMA RowCodes ==
    ASSUME NEW S, Row(S), Bound(S) <= MaxDoc, NEW n, \A i \in DOMAIN S : S[i].segment_id < n
    PROVE  \A i \in DOMAIN S :
              /\ S[i].segment_id < n
              /\ end_doc(S[i]) <= MaxDoc
              /\ \A j \in DOMAIN S : i < j => /\ end_doc(S[i]) <= S[j].base_doc
                                              /\ S[i].segment_id # S[j].segment_id
<1>1. \A i \in DOMAIN S : end_doc(S[i]) <= Bound(S) /\ end_doc(S[i]) \in Nat
  BY BoundIs, RowFacts
<1>2. Bound(S) \in Nat /\ MaxDoc \in Nat
  BY BoundIs, ContentAssumption
<1>3. \A i \in DOMAIN S : end_doc(S[i]) <= MaxDoc
  BY <1>1, <1>2
<1> QED
  BY <1>3 DEF Row

LEMMA KeptDead ==
    ASSUME NEW m, NEW s, NEW t, Kept(m, s), t.segment_id = s.segment_id, t.docs = s.docs,
           s.dead \subseteq t.dead
    PROVE  Kept(m, t)
BY DEF Kept

LEMMA CommitUpdateIInv ==
    ASSUME IInv, CommitUpdate
    PROVE  IInv'
<1> DEFINE B == Bound(segments)
           S == segments'
           changes == overlay'
<1>1. /\ TypeOK /\ Decodable /\ PlanFits /\ MergeFollows /\ OneDocPerPath /\ pc = "update"
      /\ UNCHANGED <<disk, clock, merge, patch_lost>>
  BY DEF IInv, CommitUpdate
<1>0. PICK read : Reads(read) /\ Updates(read) /\ faults' \in 0 .. MaxFaults
  BY <1>1, UpdateReads
<1>2. /\ Row(S) /\ next_id' \in {next_id, next_id + 1} /\ next_id' <= MaxSegments
      /\ B <= Bound(S) /\ Bound(S) <= MaxDoc
      /\ \A k \in DOMAIN S : \/ k \in DOMAIN segments /\ S[k] = Tombstoned[k]
                             \/ next_id' = next_id + 1 /\ S[k].segment_id = next_id
      /\ changes \in Patches /\ \A id \in DOMAIN changes : id < B
  BY <1>0, UpdateMoves
<1>3. ASSUME NEW id \in Live(S)
      PROVE  \/ id \in LiveIds \ plan.deletes /\ DocIn(S, changes, id).path = MovedTo(id)
             \/ LET i == id - B + 1
                IN /\ i \in DOMAIN plan.reindex
                   /\ DocIn(S, changes, id).path = plan.reindex[i].path
  BY <1>0, UpdateMoves
<1>4. /\ SameButDead(segments, Tombstoned)
      /\ \A i \in DOMAIN segments : segments[i].dead \subseteq Tombstoned[i].dead
      /\ \A i \in DOMAIN Tombstoned : Tombstoned[i].segment_id < next_id
  BY <1>1, TombstonedFacts
<1>5. /\ DOMAIN Tombstoned = DOMAIN segments
      /\ \A i \in DOMAIN segments : /\ Tombstoned[i].segment_id = segments[i].segment_id
                                    /\ Tombstoned[i].docs = segments[i].docs
  BY <1>4 DEF SameButDead
<1>6. next_id \in Nat /\ B \in Nat /\ Row(segments)
  BY <1>1, DecodableRow, BoundIs DEF TypeOK
<1> HIDE DEF S, changes, B
<1>7. \A i \in DOMAIN S : S[i].segment_id < next_id'
  <2> SUFFICES ASSUME NEW i \in DOMAIN S PROVE S[i].segment_id < next_id'
    OBVIOUS
  <2>1. S[i].segment_id \in Nat
    BY <1>2, RowFacts
  <2>2. S[i].segment_id < next_id \/ (next_id' = next_id + 1 /\ S[i].segment_id = next_id)
    BY <1>2, <1>4, <1>5
  <2> QED
    BY <1>2, <1>6, <2>1, <2>2
<1>8. Decodable'
  BY <1>2, <1>7, RowCodes DEF Decodable, S
<1>9. Bound(S) \in Nat
  BY <1>2, BoundIs
<1>10. id_bound' = Bound(S) /\ LiveIds' = Live(S) /\ \A id : doc(id)' = DocIn(S, changes, id)
  BY DEF id_bound, LiveIds, doc, Recorded, SegmentWith, Bound, Live, DocIn, RecordIn, With, S, changes
<1>11. PatchesInRange'
  <2>1. \A id \in DOMAIN changes : id \in Nat
    BY <1>2, ContentAssumption DEF Patches, DocId
  <2>2. \A id \in DOMAIN changes : id < Bound(S)
    BY <1>2, <1>6, <1>9, <2>1
  <2> QED
    BY <1>10, <2>2 DEF PatchesInRange, changes
<1>12. Finish(TRUE, FALSE)
  BY DEF CommitUpdate
<1>13. /\ pc' = "idle" /\ crawled' \in Disk /\ plan' \in Plan
       /\ calm' \in 0 .. 2 /\ settled' \in BOOLEAN /\ undisturbed' \in BOOLEAN
  BY <1>1, <1>12, FinishTyped
<1>14. TypeOK'
  <2>1. misread' \in BOOLEAN
    BY <1>0, <1>1, Zenon DEF Updates, TypeOK
  <2>2. next_id' \in 0 .. MaxSegments
    BY <1>2, <1>6
  <2>3. segments' \in Seq(Segment) /\ \A i \in DOMAIN segments' : segments'[i].dead \subseteq DOMAIN segments'[i].docs
    BY <1>2 DEF Row, S
  <2>4. overlay' \in UNION {[ids -> Patch] : ids \in SUBSET DocId}
    BY <1>2 DEF Patches, changes
  <2>5. failed' \subseteq Inode \X (1 .. MaxClock)
    BY <1>0, <1>1, NewDocsTyped DEF Reads, Updates, TypeOK
  <2> QED
    BY <1>0, <1>1, <1>13, <2>1, <2>2, <2>3, <2>4, <2>5 DEF TypeOK
<1>15. PlanFits'
  BY <1>13 DEF PlanFits
<1>16. MergeFollows'
  <2>1. ASSUME NEW k \in DOMAIN S, S[k].segment_id \in merge.sources PROVE Kept(merge, S[k])
    <3>1. S[k].segment_id # next_id
      BY <1>1, <1>6, <2>1 DEF MergeFollows
    <3>2. k \in DOMAIN segments /\ S[k] = Tombstoned[k]
      BY <1>2, <3>1
    <3>3. segments[k].segment_id \in merge.sources
      BY <1>5, <2>1, <3>2
    <3>4. Kept(merge, segments[k])
      BY <1>1, <3>2, <3>3 DEF MergeFollows
    <3> QED
      BY <1>4, <1>5, <3>2, <3>4, KeptDead
  <2>2. merge.sources \subseteq 0 .. (next_id' - 1)
    BY <1>1, <1>2, <1>6 DEF MergeFollows
  <2> QED
    BY <1>1, <2>1, <2>2 DEF MergeFollows, S
<1>17. OneDocPerPath'
  <2> SUFFICES ASSUME ~patch_lost, NEW a \in Live(S), NEW b \in Live(S),
                      DocIn(S, changes, a).path = DocIn(S, changes, b).path
               PROVE  a = b
    BY <1>1, <1>10 DEF OneDocPerPath
  <2>1. Apart(View, plan) /\ Once(View) /\ DOMAIN View = LiveIds
    BY <1>1, ViewFacts DEF PlanFits, OneDocPerPath
  <2>2. a \in Nat /\ b \in Nat
    BY <1>2, LiveBelow
  <2>3. ASSUME NEW x \in LiveIds \ plan.deletes, NEW y \in LiveIds \ plan.deletes,
               MovedTo(x) = MovedTo(y)
        PROVE  x = y
    BY <2>1, <2>3 DEF Apart, Once, MovedTo
  <2>4. ASSUME NEW x \in LiveIds \ plan.deletes, NEW i \in DOMAIN plan.reindex
        PROVE  MovedTo(x) # plan.reindex[i].path
    BY <2>1 DEF Apart, MovedTo
  <2>5. ASSUME NEW i \in DOMAIN plan.reindex, NEW j \in DOMAIN plan.reindex,
               plan.reindex[i].path = plan.reindex[j].path
        PROVE  i = j
    BY <2>1, <2>5 DEF Apart
  <2>6. a - B + 1 = b - B + 1 => a = b
    BY <1>6, <2>2
  <2> QED
    BY <1>3, <2>3, <2>4, <2>5, <2>6
<1> QED
  BY <1>8, <1>11, <1>14, <1>15, <1>16, <1>17 DEF IInv

-----------------------------------------------------------------------------
(* CommitBuild.                                                            *)

FoundDocs(read) == DocsOf(Found, read)

\* A build that reads this is committed.
Builds(read) ==
    /\ segments' = Indexed(Found, 0, read)
    /\ misread' = \E i \in DOMAIN Found : ReadAnother(Found[i].path, read)
    /\ failed' = FailedReads(Found, read)

LEMMA BuildReads ==
    ASSUME TypeOK, CommitBuild
    PROVE  \E read : Reads(read) /\ Builds(read) /\ faults' \in 0 .. MaxFaults
<1>1. PICK failing \in Failing :
         /\ Builds(ReadNow(failing)) /\ faults' = faults + Cardinality(failing)
  BY DEF CommitBuild, Builds
<1>2. Reads(ReadNow(failing)) /\ faults' \in 0 .. MaxFaults
  BY <1>1, FaultsTyped, ReadsTyped DEF Reads
<1> QED
  BY <1>1, <1>2

LEMMA FoundFacts ==
    ASSUME TypeOK
    PROVE  /\ Found \in Seq([path : Path, file : File])
           /\ \A i, j \in DOMAIN Found : Found[i].path = Found[j].path => i = j
           /\ \A i \in DOMAIN Found : /\ Found[i].path \in Path /\ crawled[Found[i].path] # NoFile
                                      /\ Found[i].file = crawled[Found[i].path]
           /\ \A p \in Path : crawled[p] # NoFile => \E i \in DOMAIN Found : Found[i].path = p
<1> DEFINE all == [p \in Path |-> [path |-> p, file |-> crawled[p]]]
           keep == {p \in Path : crawled[p] # NoFile}
           Entry == [path : Path, file : File \cup {NoFile}]
<1>1. /\ all \in Seq(Entry) /\ DOMAIN all = Path
      /\ \A p \in Path : all[p].path = p /\ all[p].file = crawled[p]
  <2>1. MaxPath \in Nat /\ \A p \in 1 .. MaxPath : crawled[p] \in File \cup {NoFile}
    BY ContentAssumption DEF TypeOK, Disk, Path
  <2> QED
    BY <2>1 DEF Path
<1>2. Found = Sub(all, keep)
  BY DEF Found
<1>3. keep \subseteq Path /\ \A p \in keep : crawled[p] \in File
  BY DEF TypeOK, Disk
<1> HIDE DEF all, keep, Entry
<1>4. Found \in Seq(Entry) /\ \E h : Takes(h, Found, all, keep)
  BY <1>1, <1>2, SubFacts
<1>5. PICK h : Takes(h, Found, all, keep)
  BY <1>4
<1>6. \A i \in DOMAIN Found :
         /\ h[i] \in keep /\ h[i] \in Path
         /\ Found[i].path = h[i] /\ Found[i].file = crawled[h[i]]
  BY <1>1, <1>3, <1>5 DEF Takes
<1>7. ASSUME NEW i \in DOMAIN Found, NEW j \in DOMAIN Found, Found[i].path = Found[j].path
      PROVE  i = j
  <2>1. i \in Nat /\ j \in Nat
    BY <1>4
  <2>2. Path \subseteq Nat
    BY ContentAssumption DEF Path
  <2>3. h[i] \in Nat /\ h[j] \in Nat /\ h[i] = h[j]
    BY <1>6, <1>7, <2>2
  <2>4. ~(i < j) /\ ~(j < i)
    BY <1>5, <2>3 DEF Takes
  <2> QED
    BY <2>1, <2>4
<1>8. \A i \in DOMAIN Found : /\ Found[i].path \in Path /\ crawled[Found[i].path] # NoFile
                              /\ Found[i].file = crawled[Found[i].path]
  BY <1>6 DEF keep
<1>9. Found \in Seq([path : Path, file : File])
  <2>1. ASSUME NEW i \in DOMAIN Found PROVE Found[i] \in [path : Path, file : File]
    <3>1. Found[i] \in Entry
      BY <1>4, Elements
    <3>2. Found[i].file \in File
      BY <1>3, <1>6
    <3> QED
      BY <3>1, <3>2 DEF Entry
  <2> DEFINE T == [path : Path, file : File]
  <2>2. Len(Found) \in Nat /\ DOMAIN Found = 1 .. Len(Found) /\ Found = [i \in 1 .. Len(Found) |-> Found[i]]
    BY <1>4
  <2>3. \A i \in 1 .. Len(Found) : Found[i] \in T
    BY <2>1, <2>2
  <2> HIDE DEF T
  <2>4. Found \in Seq(T)
    BY <2>2, <2>3
  <2> QED
    BY <2>4 DEF T
<1>10. ASSUME NEW p \in Path, crawled[p] # NoFile PROVE \E i \in DOMAIN Found : Found[i].path = p
  <2>1. p \in keep /\ p \in DOMAIN all
    BY <1>1, <1>10 DEF keep
  <2>2. PICK i \in DOMAIN Found : h[i] = p
    BY <1>5, <2>1 DEF Takes
  <2> QED
    BY <1>6, <2>2
<1> QED
  BY <1>7, <1>8, <1>9, <1>10

LEMMA BuildMakes ==
    ASSUME IInv, CommitBuild, NEW read, Reads(read), Builds(read)
    PROVE  /\ Row(segments') /\ next_id' \in {next_id, next_id + 1} /\ next_id' <= MaxSegments
           /\ Bound(segments') <= MaxDoc
           /\ \A k \in DOMAIN segments' : next_id' = next_id + 1 /\ segments'[k].segment_id = next_id
           /\ overlay' = << >>
           /\ \A id \in Live(segments') :
                 /\ id + 1 \in DOMAIN Found
                 /\ RecordIn(segments', id) = FoundDocs(read)[id + 1]
                 /\ FoundDocs(read)[id + 1].path = Found[id + 1].path
           /\ \A i \in DOMAIN Found : \E id \in Live(segments') : RecordIn(segments', id) = FoundDocs(read)[i]
<1> DEFINE docs == FoundDocs(read)
<1>1. TypeOK /\ next_id \in Nat /\ next_id <= MaxSegments /\ MaxSegments \in Nat
  BY SegmentsAssumption DEF IInv, TypeOK
<1>2. /\ docs \in Seq(Doc) /\ DOMAIN docs = DOMAIN Found
      /\ Len(docs) = Len(Found) /\ (docs = << >> <=> Found = << >>)
      /\ \A i \in DOMAIN Found : docs[i].path = Found[i].path
      /\ Indexed(Found, 0, read) = NewSegment(docs, 0)
  <2>1. Found \in Seq([path : Path, file : File]) /\ read \in Disk
    BY <1>1, FoundFacts DEF Reads
  <2> QED
    BY <2>1, DocsOfTyped DEF FoundDocs
<1>3. /\ Len(docs) <= MaxDoc
      /\ docs # << >> => next_id < MaxSegments
      /\ segments' = NewSegment(docs, 0)
      /\ next_id' = next_id + (IF docs = << >> THEN 0 ELSE 1)
      /\ overlay' = << >>
  BY <1>2 DEF CommitBuild, EmptyOverlay, Builds
<1> HIDE DEF docs
<1>4. Row(<< >>) /\ Bound(<< >>) = 0 /\ DOMAIN << >> = {} /\ Live(<< >>) = {}
  <2>1. << >> \in Seq(Segment) /\ DOMAIN << >> = {}
    OBVIOUS
  <2>2. Row(<< >>)
    BY <2>1 DEF Row
  <2>3. \A id : id \notin Live(<< >>)
    BY <2>1, LiveAt
  <2> QED
    BY <2>1, <2>2, <2>3, BoundIs
<1>5. segments' = << >> \o NewSegment(docs, 0)
  <2>1. docs # << >> =>
           [segment_id |-> next_id, base_doc |-> 0, docs |-> docs, dead |-> {}] \in Segment
    BY <1>1, <1>2 DEF Segment
  <2>2. NewSegment(docs, 0) \in Seq(Segment)
    BY <2>1 DEF NewSegment
  <2> QED
    BY <1>3, <2>2
<1>6. /\ Row(segments') /\ Bound(segments') \in {0, 0 + Len(docs)}
      /\ \A k \in DOMAIN segments' : docs # << >> /\ segments'[k].segment_id = next_id
      /\ \A id \in Live(segments') : /\ id - 0 + 1 \in DOMAIN docs
                                     /\ RecordIn(segments', id) = docs[id - 0 + 1]
      /\ \A i \in DOMAIN docs : \E id \in Live(segments') : RecordIn(segments', id) = docs[i]
  <2> DEFINE none == << >>
             first == 0
             R == none \o NewSegment(docs, first)
  <2>1. /\ Row(none) /\ Bound(none) = 0 /\ DOMAIN none = {} /\ Live(none) = {}
        /\ segments' = R /\ first = 0
    BY <1>4, <1>5
  <2> HIDE DEF none, first
  <2>2. /\ Row(none) /\ Bound(none) <= first /\ first \in Nat
        /\ \A i \in DOMAIN none : none[i].segment_id < next_id
        /\ docs \in Seq(Doc) /\ next_id \in Nat
    BY <1>1, <1>2, <2>1
  <2>3. /\ Row(R) /\ Bound(R) \in {Bound(none), first + Len(docs)}
        /\ \A k \in DOMAIN R :
              \/ k \in DOMAIN none /\ R[k] = none[k]
              \/ docs # << >> /\ R[k].segment_id = next_id
        /\ \A id \in Live(R) :
              \/ id \in Live(none) /\ RecordIn(R, id) = RecordIn(none, id)
              \/ /\ id >= Bound(none) /\ id - first + 1 \in DOMAIN docs
                 /\ RecordIn(R, id) = docs[id - first + 1]
        /\ \A i \in DOMAIN docs : \E id \in Live(R) : id >= Bound(none) /\ RecordIn(R, id) = docs[i]
    BY <2>2, NewRow
  <2> HIDE DEF R
  <2> QED
    BY <2>1, <2>3
<1>7. Bound(segments') <= MaxDoc
  <2>1. Len(docs) \in Nat /\ MaxDoc \in Nat
    BY <1>2, ContentAssumption
  <2> QED
    BY <1>3, <1>6, <2>1
<1>8. \A id \in Live(segments') : id - 0 + 1 = id + 1
  BY <1>6, LiveBelow
<1> QED
  BY <1>1, <1>2, <1>3, <1>6, <1>7, <1>8 DEF docs

LEMMA CommitBuildIInv ==
    ASSUME IInv, CommitBuild
    PROVE  IInv'
<1> DEFINE S == segments'
           changes == overlay'
<1>1. /\ TypeOK /\ MergeFollows /\ UNCHANGED <<disk, clock, merge>> /\ patch_lost' = FALSE
      /\ next_id \in Nat
  BY DEF IInv, CommitBuild, TypeOK
<1>0. PICK read : Reads(read) /\ Builds(read) /\ faults' \in 0 .. MaxFaults
  BY <1>1, BuildReads
<1>2. /\ Row(S) /\ next_id' \in {next_id, next_id + 1} /\ next_id' <= MaxSegments
      /\ Bound(S) <= MaxDoc
      /\ \A k \in DOMAIN S : next_id' = next_id + 1 /\ S[k].segment_id = next_id
      /\ changes = << >>
      /\ \A id \in Live(S) : id + 1 \in DOMAIN Found /\ RecordIn(S, id).path = Found[id + 1].path
  BY <1>0, BuildMakes
<1> HIDE DEF S, changes
<1>3. DOMAIN changes = {}
  BY <1>2
<1>4. Decodable'
  <2>1. \A k \in DOMAIN S : S[k].segment_id < next_id'
    BY <1>1, <1>2
  <2> QED
    BY <1>2, <2>1, RowCodes DEF Decodable, S
<1>5. id_bound' = Bound(S) /\ LiveIds' = Live(S) /\ \A id : doc(id)' = DocIn(S, changes, id)
  BY DEF id_bound, LiveIds, doc, Recorded, SegmentWith, Bound, Live, DocIn, RecordIn, With, S, changes
<1>6. PatchesInRange'
  BY <1>3, <1>5 DEF PatchesInRange, changes
<1>7. Finish(TRUE, FALSE)
  BY DEF CommitBuild
<1>8. /\ pc' = "idle" /\ crawled' \in Disk /\ plan' \in Plan
      /\ calm' \in 0 .. 2 /\ settled' \in BOOLEAN /\ undisturbed' \in BOOLEAN
  BY <1>1, <1>7, FinishTyped
<1>9. TypeOK'
  <2>1. misread' \in BOOLEAN /\ patch_lost' \in BOOLEAN
    BY <1>0, <1>1, Zenon DEF Builds
  <2>2. next_id' \in 0 .. MaxSegments
    BY <1>1, <1>2
  <2>3. segments' \in Seq(Segment) /\ \A i \in DOMAIN segments' : segments'[i].dead \subseteq DOMAIN segments'[i].docs
    BY <1>2 DEF Row, S
  <2>4. overlay' \in UNION {[ids -> Patch] : ids \in SUBSET DocId}
    <3>1. << >> \in [{} -> Patch] /\ {} \in SUBSET DocId
      OBVIOUS
    <3> QED
      BY <1>2, <3>1 DEF changes
  <2>5. failed' \subseteq Inode \X (1 .. MaxClock)
    BY <1>0, <1>1, FoundFacts, DocsOfTyped DEF Reads, Builds
  <2> QED
    BY <1>0, <1>1, <1>8, <2>1, <2>2, <2>3, <2>4, <2>5 DEF TypeOK
<1>10. PlanFits'
  BY <1>8 DEF PlanFits
<1>11. MergeFollows'
  <2>1. \A k \in DOMAIN S : S[k].segment_id \notin merge.sources
    BY <1>1, <1>2 DEF MergeFollows
  <2>2. merge.sources \subseteq 0 .. (next_id' - 1)
    BY <1>1, <1>2 DEF MergeFollows
  <2> QED
    BY <1>1, <2>1, <2>2 DEF MergeFollows, S
<1>12. OneDocPerPath'
  <2> SUFFICES ASSUME NEW a \in Live(S), NEW b \in Live(S),
                      DocIn(S, changes, a).path = DocIn(S, changes, b).path
               PROVE  a = b
    BY <1>5 DEF OneDocPerPath
  <2>1. a + 1 \in DOMAIN Found /\ b + 1 \in DOMAIN Found /\ Found[a + 1].path = Found[b + 1].path
    BY <1>2, <1>3 DEF DocIn
  <2>2. a + 1 = b + 1
    BY <1>1, <2>1, FoundFacts
  <2>3. a \in Nat /\ b \in Nat
    BY <1>2, LiveBelow
  <2> QED
    BY <2>2, <2>3
<1> QED
  BY <1>4, <1>6, <1>9, <1>10, <1>11, <1>12 DEF IInv

-----------------------------------------------------------------------------
(* PrepareMerge.                                                           *)

\* r has the members of X, each once.
Lists(r, X) ==
    /\ r \in Seq(Nat \X Nat)
    /\ \A i \in DOMAIN r : r[i] \in X
    /\ \A i, j \in DOMAIN r : r[i] = r[j] => i = j
    /\ \A x \in X : \E i \in DOMAIN r : r[i] = x

LEMMA ListsBoth ==
    ASSUME NEW r, NEW X, Lists(r, X), NEW t, NEW Y, Lists(t, Y), X \cap Y = {}
    PROVE  Lists(r \o t, X \cup Y)
<1> DEFINE both == r \o t
           n == Len(r)
<1>1. /\ r \in Seq(Nat \X Nat) /\ t \in Seq(Nat \X Nat) /\ n \in Nat /\ Len(t) \in Nat
      /\ DOMAIN r = 1 .. n /\ DOMAIN t = 1 .. Len(t)
  BY DEF Lists
<1>2. /\ both \in Seq(Nat \X Nat) /\ DOMAIN both = 1 .. (n + Len(t))
      /\ \A i \in 1 .. n : both[i] = r[i]
      /\ \A i \in 1 .. Len(t) : both[n + i] = t[i]
  BY <1>1
<1>3. \A i \in DOMAIN both : \/ i \in DOMAIN r /\ both[i] = r[i]
                             \/ i - n \in DOMAIN t /\ both[i] = t[i - n] /\ i \notin DOMAIN r
  <2> SUFFICES ASSUME NEW i \in DOMAIN both, i \notin DOMAIN r
               PROVE  i - n \in DOMAIN t /\ both[i] = t[i - n]
    BY <1>1, <1>2
  <2>1. i - n \in 1 .. Len(t) /\ i = n + (i - n)
    BY <1>1, <1>2
  <2> QED
    BY <1>1, <1>2, <2>1
<1>4. \A i \in DOMAIN r : i \in DOMAIN both
  BY <1>1, <1>2
<1>5. \A i \in DOMAIN t : n + i \in DOMAIN both
  BY <1>1, <1>2
<1> HIDE DEF both, n
<1>6. \A i \in DOMAIN both : both[i] \in X \cup Y
  BY <1>3 DEF Lists
<1>7. ASSUME NEW i \in DOMAIN both, NEW j \in DOMAIN both, both[i] = both[j]
      PROVE  i = j
  <2>1. \A k \in DOMAIN r : r[k] \in X /\ r[k] \notin Y
    BY DEF Lists
  <2>2. \A k \in DOMAIN t : t[k] \in Y /\ t[k] \notin X
    BY DEF Lists
  <2>3. CASE i \in DOMAIN r /\ j \in DOMAIN r
    BY <1>3, <1>7, <2>3 DEF Lists
  <2>4. CASE i \notin DOMAIN r /\ j \notin DOMAIN r
    <3>1. i - n = j - n
      BY <1>3, <1>7, <2>4 DEF Lists
    <3> QED
      BY <1>1, <1>2, <3>1
  <2> QED
    BY <1>3, <1>7, <2>1, <2>2, <2>3, <2>4
<1>8. ASSUME NEW x \in X \cup Y PROVE \E i \in DOMAIN both : both[i] = x
  <2>1. CASE x \in X
    <3>1. PICK i \in DOMAIN r : r[i] = x
      BY <2>1 DEF Lists
    <3> QED
      BY <1>1, <1>2, <1>4, <3>1
  <2>2. CASE x \in Y
    <3>1. PICK i \in DOMAIN t : t[i] = x
      BY <2>2 DEF Lists
    <3> QED
      BY <1>1, <1>2, <1>5, <3>1
  <2> QED
    BY <2>1, <2>2
<1> QED
  BY <1>2, <1>6, <1>7, <1>8 DEF Lists, both

\* The live docs of a segment.
Origins(s) == {<<s.segment_id, l>> : l \in LiveLocals(s)}
SurvivorsOf(s) == Sub([l \in DOMAIN s.docs |-> <<s.segment_id, l>>], LiveLocals(s))

LEMMA SurvivorsOfFacts ==
    ASSUME NEW s \in Segment
    PROVE  Lists(SurvivorsOf(s), Origins(s))
<1> DEFINE all == [l \in DOMAIN s.docs |-> <<s.segment_id, l>>]
           r == SurvivorsOf(s)
<1>1. s.segment_id \in Nat /\ Len(s.docs) \in Nat /\ DOMAIN s.docs = 1 .. Len(s.docs)
  BY DEF Segment
<1>2. LiveLocals(s) \subseteq DOMAIN s.docs
  BY DEF LiveLocals
<1>3. all \in Seq(Nat \X Nat)
  <2>1. \A l \in 1 .. Len(s.docs) : <<s.segment_id, l>> \in Nat \X Nat
    BY <1>1
  <2> QED
    BY <1>1, <2>1
<1>4. DOMAIN all = DOMAIN s.docs /\ \A l \in DOMAIN s.docs : all[l] = <<s.segment_id, l>>
  OBVIOUS
<1>5. r = Sub(all, LiveLocals(s))
  BY DEF SurvivorsOf
<1> HIDE DEF all, r
<1>6. r \in Seq(Nat \X Nat) /\ \E h : Takes(h, r, all, LiveLocals(s))
  BY <1>3, <1>5, SubFacts
<1>7. PICK h : Takes(h, r, all, LiveLocals(s))
  BY <1>6
<1>8. \A i \in DOMAIN r : h[i] \in LiveLocals(s) /\ h[i] \in Nat /\ r[i] = <<s.segment_id, h[i]>>
  <2>1. \A i \in DOMAIN r : h[i] \in LiveLocals(s) /\ h[i] \in DOMAIN s.docs /\ r[i] = all[h[i]]
    BY <1>4, <1>7 DEF Takes
  <2>2. DOMAIN s.docs \subseteq Nat
    BY <1>1
  <2> QED
    BY <1>4, <2>1, <2>2
<1>9. \A i \in DOMAIN r : r[i] \in Origins(s)
  BY <1>8 DEF Origins
<1>10. ASSUME NEW i \in DOMAIN r, NEW j \in DOMAIN r, r[i] = r[j] PROVE i = j
  <2>1. h[i] = h[j] /\ h[i] \in Nat /\ i \in Nat /\ j \in Nat
    BY <1>6, <1>8, <1>10
  <2>2. ~(i < j) /\ ~(j < i)
    BY <1>7, <2>1 DEF Takes
  <2> QED
    BY <2>1, <2>2
<1>11. ASSUME NEW x \in Origins(s) PROVE \E i \in DOMAIN r : r[i] = x
  <2>1. PICK l \in LiveLocals(s) : x = <<s.segment_id, l>>
    BY DEF Origins
  <2>2. PICK i \in DOMAIN r : h[i] = l
    BY <1>2, <1>4, <1>7 DEF Takes
  <2> QED
    BY <1>8, <2>1, <2>2
<1> QED
  BY <1>6, <1>9, <1>10, <1>11 DEF Lists, r

\* Those of the segments of a group, up to the n-th.
OriginsUpTo(group, n) ==
    UNION {Origins(segments[k]) : k \in {j \in 1 .. n : segments[j].segment_id \in group}}

LEMMA SurvivorsFacts ==
    ASSUME Row(segments), NEW group
    PROVE  Lists(Survivors(group), OriginsUpTo(group, Len(segments)))
<1> DEFINE N == Len(segments)
           V == Seq(Nat \X Nat)
           step == [i \in 1 .. N |-> [x \in V |->
                      IF segments[i].segment_id \in group THEN x \o SurvivorsOf(segments[i]) ELSE x]]
           Rec(f) == f = [i \in 0 .. N |->
                            IF i = 0 THEN << >>
                            ELSE IF segments[i].segment_id \in group
                                 THEN f[i - 1] \o SurvivorsOf(segments[i])
                                 ELSE f[i - 1]]
<1>1. N \in Nat /\ DOMAIN segments = 1 .. N /\ \A i \in 1 .. N : segments[i] \in Segment
  <2>1. segments \in Seq(Segment)
    BY DEF Row
  <2> QED
    BY <2>1
<1> HIDE DEF N
<1>2. \A i \in 1 .. N : /\ SurvivorsOf(segments[i]) \in V
                        /\ Lists(SurvivorsOf(segments[i]), Origins(segments[i]))
  BY <1>1, SurvivorsOfFacts DEF Lists
<1>3. \E f : Rec(f)
  <2>1. step \in [1 .. N -> [V -> V]]
    BY <1>2
  <2>2. << >> \in V
    OBVIOUS
  <2>3. \A i \in 1 .. N, x \in V :
           step[i][x] = IF segments[i].segment_id \in group THEN x \o SurvivorsOf(segments[i]) ELSE x
    OBVIOUS
  <2> HIDE DEF step, V
  <2>4. PICK g : Iterates(g, N, V, << >>, step)
    BY <1>1, <2>1, <2>2, Recursion
  <2>5. ASSUME NEW i \in 0 .. N
        PROVE  g[i] = IF i = 0 THEN << >>
                      ELSE IF segments[i].segment_id \in group
                           THEN g[i - 1] \o SurvivorsOf(segments[i])
                           ELSE g[i - 1]
    <3>1. CASE i = 0
      BY <2>4, <3>1 DEF Iterates
    <3>2. CASE i # 0
      <4>1. i \in 1 .. N /\ i - 1 \in 0 .. N
        BY <1>1, <3>2
      <4>2. g[i - 1] \in V
        BY <2>4, <4>1 DEF Iterates
      <4>3. g[i] = step[i][g[i - 1]]
        BY <2>4, <4>1 DEF Iterates
      <4> QED
        BY <2>3, <3>2, <4>1, <4>2, <4>3
    <3> QED
      BY <3>1, <3>2
  <2>6. Rec(g)
    <3>1. g = [i \in 0 .. N |-> g[i]]
      BY <2>4 DEF Iterates
    <3> QED
      BY <2>5, <3>1
  <2> QED
    BY <2>6
<1> HIDE DEF step, V
<1> DEFINE f == CHOOSE f : Rec(f)
<1>4. Rec(f) /\ Survivors(group) = f[N]
  BY <1>3 DEF Survivors, SurvivorsOf, N
<1> HIDE DEF f
<1>5. /\ f[0] = << >>
      /\ \A n \in Nat : n + 1 \in 1 .. N =>
            f[n + 1] = IF segments[n + 1].segment_id \in group
                       THEN f[n] \o SurvivorsOf(segments[n + 1]) ELSE f[n]
  <2>1. \A i \in 0 .. N : f[i] = IF i = 0 THEN << >>
                               ELSE IF segments[i].segment_id \in group
                                    THEN f[i - 1] \o SurvivorsOf(segments[i]) ELSE f[i - 1]
    BY <1>4
  <2>2. 0 \in 0 .. N /\ \A n \in Nat : n + 1 # 0 /\ (n + 1) - 1 = n
    BY <1>1
  <2>3. \A n \in Nat : n + 1 \in 1 .. N => n + 1 \in 0 .. N
    BY <1>1
  <2> QED
    BY <2>1, <2>2, <2>3
<1> DEFINE Q(n) == Lists(f[n], OriginsUpTo(group, n))
           S == {n \in Nat : n <= N => Q(n)}
<1> HIDE DEF Q
<1>6. 0 \in S
  <2>1. OriginsUpTo(group, 0) = {}
    BY DEF OriginsUpTo
  <2>2. Lists(<< >>, {})
    BY DEF Lists
  <2>3. Q(0)
    BY <1>5, <2>1, <2>2 DEF Q
  <2> QED
    BY <2>3
<1>7. ASSUME NEW n \in S PROVE n + 1 \in S
  <2> SUFFICES ASSUME n + 1 <= N PROVE Q(n + 1)
    OBVIOUS
  <2>1. n \in Nat /\ n + 1 \in 1 .. N
    BY <1>1
  <2>2. Lists(f[n], OriginsUpTo(group, n))
    <3>1. Q(n)
      BY <1>1, <2>1
    <3> QED
      BY <3>1 DEF Q
  <2>3. CASE segments[n + 1].segment_id \notin group
    <3>1. f[n + 1] = f[n]
      BY <1>5, <2>1, <2>3
    <3>2. {j \in 1 .. (n + 1) : segments[j].segment_id \in group}
             = {j \in 1 .. n : segments[j].segment_id \in group}
      BY <2>1, <2>3
    <3>3. OriginsUpTo(group, n + 1) = OriginsUpTo(group, n)
      BY <3>2 DEF OriginsUpTo
    <3> QED
      BY <2>2, <3>1, <3>3 DEF Q
  <2>4. CASE segments[n + 1].segment_id \in group
    <3>1. f[n + 1] = f[n] \o SurvivorsOf(segments[n + 1])
      BY <1>5, <2>1, <2>4
    <3>2. {j \in 1 .. (n + 1) : segments[j].segment_id \in group}
             = {j \in 1 .. n : segments[j].segment_id \in group} \cup {n + 1}
      BY <2>1, <2>4
    <3>3. OriginsUpTo(group, n + 1) = OriginsUpTo(group, n) \cup Origins(segments[n + 1])
      BY <3>2 DEF OriginsUpTo
    <3>4. OriginsUpTo(group, n) \cap Origins(segments[n + 1]) = {}
      <4> SUFFICES ASSUME NEW x \in OriginsUpTo(group, n), x \in Origins(segments[n + 1])
                   PROVE  FALSE
        OBVIOUS
      <4>1. PICK k \in 1 .. n : x \in Origins(segments[k])
        BY DEF OriginsUpTo
      <4>2. x[1] = segments[k].segment_id /\ x[1] = segments[n + 1].segment_id
        BY <4>1 DEF Origins
      <4>3. k \in DOMAIN segments /\ n + 1 \in DOMAIN segments /\ k < n + 1
        BY <1>1, <2>1
      <4> QED
        BY <4>2, <4>3 DEF Row
    <3>5. Lists(f[n] \o SurvivorsOf(segments[n + 1]),
                OriginsUpTo(group, n) \cup Origins(segments[n + 1]))
      BY <1>2, <2>1, <2>2, <3>4, ListsBoth
    <3> QED
      BY <3>1, <3>3, <3>5 DEF Q
  <2> QED
    BY <2>3, <2>4
<1> HIDE DEF S
<1>8. N \in S
  <2>1. S \in SUBSET Nat
    BY DEF S
  <2> QED
    BY <1>1, <1>6, <1>7, <2>1, Induction
<1> QED
  BY <1>1, <1>4, <1>8 DEF S, Q, N

LEMMA IdAtIs ==
    ASSUME TypeOK, Decodable, NEW k \in DOMAIN segments, NEW l \in DOMAIN segments[k].docs
    PROVE  /\ SegmentById(segments[k].segment_id) = segments[k]
           /\ IdAt(<<segments[k].segment_id, l>>) = IdOf(segments[k], l)
<1>1. SegmentById(segments[k].segment_id) = segments[k]
  BY DecodableRow, ByIdAt, Rows
<1> QED
  BY <1>1 DEF IdAt

\* What is known of each survivor.
LEMMA SurvivorFacts ==
    ASSUME TypeOK, Decodable, NEW group, NEW i \in DOMAIN Survivors(group)
    PROVE  \E k \in DOMAIN segments : \E l \in LiveLocals(segments[k]) :
              /\ segments[k].segment_id \in group
              /\ Survivors(group)[i] = <<segments[k].segment_id, l>>
              /\ doc(IdAt(Survivors(group)[i])) \in Doc
              /\ Bytes(doc(IdAt(Survivors(group)[i]))) = Bytes(segments[k].docs[l])
<1> DEFINE x == Survivors(group)[i]
<1>1. Row(segments) /\ DOMAIN segments = 1 .. Len(segments) /\ overlay \in Patches
  BY DecodableRow DEF TypeOK, Patches
<1>2. x \in OriginsUpTo(group, Len(segments))
  BY <1>1, SurvivorsFacts DEF Lists
<1> HIDE DEF x
<1>3. PICK k \in DOMAIN segments : segments[k].segment_id \in group /\ x \in Origins(segments[k])
  BY <1>1, <1>2 DEF OriginsUpTo
<1>4. PICK l \in LiveLocals(segments[k]) : x = <<segments[k].segment_id, l>>
  BY <1>3 DEF Origins
<1>5. l \in DOMAIN segments[k].docs
  BY <1>1, RowFacts
<1> DEFINE id == IdOf(segments[k], l)
<1>6. IdAt(x) = id
  BY <1>4, <1>5, IdAtIs
<1>7. id \in LiveIds /\ id \in Live(segments)
  BY <1>1, LiveAt, Rows
<1>8. doc(id) = DocIn(segments, overlay, id) /\ RecordIn(segments, id) = segments[k].docs[l]
  BY <1>1, <1>5, <1>7, ViewFacts, RecordAt
<1> HIDE DEF id
<1>9. doc(id) \in Doc /\ Bytes(doc(id)) = Bytes(segments[k].docs[l])
  BY <1>1, <1>7, <1>8, ShownDoc
<1> QED
  BY <1>3, <1>4, <1>6, <1>9 DEF x

LEMMA PrepareMergeIInv ==
    ASSUME IInv, NEW group \in SUBSET segment_ids, PrepareMerge(group)
    PROVE  IInv'
<1> DEFINE R == Survivors(group)
           m == merge'
<1>1. /\ m = [sources |-> group,
              dead |-> [s \in group |-> SegmentById(s).dead],
              origin |-> R,
              docs |-> [i \in DOMAIN R |-> doc(IdAt(R[i]))]]
      /\ UNCHANGED <<disk, clock, faults, index, update, history>>
  BY DEF PrepareMerge
<1>2. /\ m.sources = group /\ m.dead = [s \in group |-> SegmentById(s).dead]
      /\ m.origin = R /\ m.docs = [i \in DOMAIN R |-> doc(IdAt(R[i]))]
  BY <1>1
<1>3. UNCHANGED <<segments, overlay, next_id, pc, crawled, plan, patch_lost>>
  BY <1>1 DEF index, update, history
<1>4. TypeOK /\ Decodable /\ Row(segments) /\ next_id \in Nat /\ next_id <= MaxSegments
  BY DecodableRow, SegmentsAssumption DEF IInv, TypeOK
<1>5. Lists(R, OriginsUpTo(group, Len(segments)))
  BY <1>4, SurvivorsFacts
<1>6. ASSUME NEW i \in DOMAIN R
      PROVE  \E k \in DOMAIN segments : \E l \in LiveLocals(segments[k]) :
                /\ segments[k].segment_id \in group
                /\ R[i] = <<segments[k].segment_id, l>>
                /\ doc(IdAt(R[i])) \in Doc
                /\ Bytes(doc(IdAt(R[i]))) = Bytes(segments[k].docs[l])
  BY <1>4, SurvivorFacts
<1> HIDE DEF R, m
<1>7. group \subseteq 0 .. (next_id - 1)
  <2> SUFFICES ASSUME NEW s \in group PROVE s \in 0 .. (next_id - 1)
    OBVIOUS
  <2>1. PICK k \in DOMAIN segments : s = segments[k].segment_id
    BY DEF segment_ids
  <2>2. s \in Nat /\ s < next_id
    BY <1>4, <2>1, RowFacts DEF Decodable
  <2> QED
    BY <1>4, <2>2
<1>8. \A k \in DOMAIN segments : SegmentById(segments[k].segment_id) = segments[k]
  BY <1>4, ByIdAt, Rows
<1>9. m.dead \in [m.sources -> SUBSET Nat]
  <2>1. ASSUME NEW s \in group PROVE SegmentById(s).dead \in SUBSET Nat
    <3>1. PICK k \in DOMAIN segments : s = segments[k].segment_id
      BY DEF segment_ids
    <3>2. segments[k].dead \subseteq Nat
      BY <1>4, RowFacts DEF Segment
    <3> QED
      BY <1>8, <3>1, <3>2
  <2> QED
    BY <1>2, <2>1
<1>10. m.origin \in Seq(Nat \X Nat)
  BY <1>2, <1>5 DEF Lists
<1>11. m.docs \in Seq(Doc) /\ DOMAIN m.docs = DOMAIN m.origin
  <2>1. Len(R) \in Nat /\ DOMAIN R = 1 .. Len(R)
    BY <1>5 DEF Lists
  <2>2. \A i \in 1 .. Len(R) : doc(IdAt(R[i])) \in Doc
    BY <1>6, <2>1
  <2>3. m.docs = [i \in 1 .. Len(R) |-> doc(IdAt(R[i]))]
    BY <1>2, <2>1
  <2> QED
    BY <1>2, <2>1, <2>2, <2>3
<1>12. TypeOK'
  <2>1. merge'.sources \subseteq 0 .. (MaxSegments - 1)
    BY <1>2, <1>4, <1>7, SegmentsAssumption DEF m
  <2> QED
    BY <1>1, <1>3, <1>4, <1>9, <1>10, <1>11, <2>1 DEF TypeOK, history, m
<1>13. ASSUME NEW k \in DOMAIN segments, segments[k].segment_id \in group
       PROVE  Kept(m, segments[k])
  <2> DEFINE s == segments[k]
  <2>1. m.dead[s.segment_id] = s.dead
    BY <1>2, <1>8, <1>13
  <2>2. DOMAIN s.docs \ m.dead[s.segment_id] = LiveLocals(s)
    BY <2>1 DEF LiveLocals
  <2>3. ASSUME NEW l \in LiveLocals(s)
        PROVE  \E i \in DOMAIN m.origin : m.origin[i] = <<s.segment_id, l>>
    <3>1. DOMAIN segments = 1 .. Len(segments)
      BY <1>4 DEF TypeOK
    <3>2. <<s.segment_id, l>> \in OriginsUpTo(group, Len(segments))
      BY <1>13, <3>1 DEF OriginsUpTo, Origins
    <3> QED
      BY <1>2, <1>5, <3>2 DEF Lists
  <2>4. ASSUME NEW i \in DOMAIN m.origin, m.origin[i][1] = s.segment_id
        PROVE  /\ m.origin[i][2] \in LiveLocals(s)
               /\ Bytes(m.docs[i]) = Bytes(s.docs[m.origin[i][2]])
    <3>0. PICK j \in DOMAIN segments : \E l \in LiveLocals(segments[j]) :
                /\ R[i] = <<segments[j].segment_id, l>>
                /\ Bytes(doc(IdAt(R[i]))) = Bytes(segments[j].docs[l])
      BY <1>2, <1>6
    <3>1. PICK l \in LiveLocals(segments[j]) :
                /\ R[i] = <<segments[j].segment_id, l>>
                /\ Bytes(doc(IdAt(R[i]))) = Bytes(segments[j].docs[l])
      BY <3>0
    <3>2. segments[j] = s
      BY <1>2, <1>8, <2>4, <3>1
    <3>3. m.docs[i] = doc(IdAt(R[i]))
      BY <1>2
    <3> QED
      BY <1>2, <3>1, <3>2, <3>3
  <2> QED
    BY <2>1, <2>2, <2>3, <2>4 DEF Kept
<1>14. MergeFollows'
  <2>1. \A i, j \in DOMAIN m.origin : m.origin[i] = m.origin[j] => i = j
    BY <1>2, <1>5 DEF Lists
  <2>2. \A i \in DOMAIN m.origin : m.origin[i][1] \in m.sources
    BY <1>2, <1>6
  <2> QED
    BY <1>2, <1>3, <1>7, <1>11, <1>13, <2>1, <2>2 DEF MergeFollows, m
<1>15. PlanFits'
  <2>1. UNCHANGED <<index, patch_lost>>
    BY <1>1 DEF history
  <2> QED
    BY <1>3, <2>1, IndexUnmoved DEF IInv, PlanFits
<1> QED
  BY <1>1, <1>12, <1>14, <1>15, IndexUnmoved DEF IInv, history

-----------------------------------------------------------------------------
(* CommitMerge.                                                            *)

\* Dropping segments keeps the docs of the others.
LEMMA SubLive ==
    ASSUME NEW S, Row(S), NEW keep
    PROVE  LET R == Sub(S, keep)
           IN /\ \A id \in Live(R) : /\ id \in Live(S) /\ RecordIn(R, id) = RecordIn(S, id)
                                     /\ \E i \in keep \cap DOMAIN S : \E l \in LiveLocals(S[i]) :
                                           id = IdOf(S[i], l)
              /\ \A i \in keep \cap DOMAIN S : \A l \in LiveLocals(S[i]) : IdOf(S[i], l) \in Live(R)
<1> DEFINE R == Sub(S, keep)
<1>1. /\ Row(R)
      /\ \A j \in DOMAIN R : \E i \in keep \cap DOMAIN S : R[j] = S[i]
      /\ \A i \in keep \cap DOMAIN S : \E j \in DOMAIN R : R[j] = S[i]
  BY SubRow
<1> HIDE DEF R
<1>2. ASSUME NEW id \in Live(R)
      PROVE  /\ id \in Live(S) /\ RecordIn(R, id) = RecordIn(S, id)
             /\ \E i \in keep \cap DOMAIN S : \E l \in LiveLocals(S[i]) : id = IdOf(S[i], l)
  <2>1. PICK j \in DOMAIN R : \E l \in LiveLocals(R[j]) : id = IdOf(R[j], l)
    BY LiveAt
  <2>2. PICK l \in LiveLocals(R[j]) : id = IdOf(R[j], l)
    BY <2>1
  <2>3. PICK i \in keep \cap DOMAIN S : R[j] = S[i]
    BY <1>1
  <2>4. l \in LiveLocals(S[i]) /\ l \in DOMAIN S[i].docs /\ id = IdOf(S[i], l)
    BY <2>2, <2>3, RowFacts
  <2>5. id \in Live(S)
    BY <2>4, LiveAt
  <2>6. RecordIn(S, id) = S[i].docs[l] /\ RecordIn(R, id) = R[j].docs[l]
    BY <1>1, <2>2, <2>3, <2>4, RecordAt
  <2> QED
    BY <2>3, <2>4, <2>5, <2>6
<1>3. ASSUME NEW i \in keep \cap DOMAIN S, NEW l \in LiveLocals(S[i])
      PROVE  IdOf(S[i], l) \in Live(R)
  <2>1. PICK j \in DOMAIN R : R[j] = S[i]
    BY <1>1
  <2> QED
    BY <2>1, LiveAt
<1> QED
  BY <1>2, <1>3 DEF R

\* The docs that a merge brings into the index are those that are live in its
\* sources now.
LEMMA MergedDocs ==
    ASSUME TypeOK, Decodable, MergeFollows, merge.sources \subseteq segment_ids
    PROVE  /\ \A i \in DOMAIN merge.origin \ Carry :
                 \E k \in DOMAIN segments : \E l \in LiveLocals(segments[k]) :
                    /\ segments[k].segment_id \in merge.sources
                    /\ merge.origin[i] = <<segments[k].segment_id, l>>
                    /\ Bytes(merge.docs[i]) = Bytes(segments[k].docs[l])
           /\ \A k \in DOMAIN segments : \A l \in LiveLocals(segments[k]) :
                 segments[k].segment_id \in merge.sources =>
                    \E i \in DOMAIN merge.origin \ Carry :
                       merge.origin[i] = <<segments[k].segment_id, l>>
<1>1. \A k \in DOMAIN segments : SegmentById(segments[k].segment_id) = segments[k]
  BY DecodableRow, ByIdAt, Rows
<1>2. ASSUME NEW i \in DOMAIN merge.origin, i \notin Carry
      PROVE  \E k \in DOMAIN segments : \E l \in LiveLocals(segments[k]) :
                /\ segments[k].segment_id \in merge.sources
                /\ merge.origin[i] = <<segments[k].segment_id, l>>
                /\ Bytes(merge.docs[i]) = Bytes(segments[k].docs[l])
  <2>1. merge.origin[i] \in Nat \X Nat
    BY Elements DEF TypeOK
  <2>2. merge.origin[i][1] \in merge.sources
    BY DEF MergeFollows
  <2>3. PICK k \in DOMAIN segments : segments[k].segment_id = merge.origin[i][1]
    BY <2>2 DEF segment_ids
  <2> DEFINE s == segments[k]
             l == merge.origin[i][2]
  <2>4. Kept(merge, s)
    BY <2>2, <2>3 DEF MergeFollows
  <2>5. /\ l \in DOMAIN s.docs \ merge.dead[s.segment_id]
        /\ Bytes(merge.docs[i]) = Bytes(s.docs[l])
    BY <2>3, <2>4 DEF Kept
  <2>6. SegmentById(merge.origin[i][1]) = s
    BY <1>1, <2>3
  <2>7. ~(s.dead # merge.dead[s.segment_id] /\ l \in s.dead)
    BY <1>2, <2>6 DEF Carry
  <2>8. l \in LiveLocals(s)
    BY <2>5, <2>7 DEF LiveLocals
  <2>9. merge.origin[i] = <<s.segment_id, l>>
    BY <2>1, <2>3
  <2> QED
    BY <2>2, <2>3, <2>5, <2>8, <2>9
<1>3. ASSUME NEW k \in DOMAIN segments, NEW l \in LiveLocals(segments[k]),
             segments[k].segment_id \in merge.sources
      PROVE  \E i \in DOMAIN merge.origin \ Carry : merge.origin[i] = <<segments[k].segment_id, l>>
  <2> DEFINE s == segments[k]
  <2>1. Kept(merge, s)
    BY <1>3 DEF MergeFollows
  <2>2. l \in DOMAIN s.docs \ merge.dead[s.segment_id] /\ l \notin s.dead
    BY <2>1 DEF Kept, LiveLocals
  <2>3. PICK i \in DOMAIN merge.origin : merge.origin[i] = <<s.segment_id, l>>
    BY <2>1, <2>2 DEF Kept
  <2>4. i \notin Carry
    BY <1>1, <2>2, <2>3 DEF Carry
  <2> QED
    BY <2>3, <2>4
<1> QED
  BY <1>2, <1>3

Untouched == {i \in DOMAIN segments : segments[i].segment_id \notin merge.sources}
KeptSegments == Sub(segments, Untouched)
MergedSegment == [segment_id |-> next_id, base_doc |-> id_bound, docs |-> merge.docs, dead |-> Carry]

\* The id that a doc had before the merge.
Before(id) == IF id < id_bound THEN id ELSE IdAt(merge.origin[id - id_bound + 1])

LEMMA MergeMakes ==
    ASSUME IInv, CommitMerge
    PROVE  /\ segments' = Append(KeptSegments, MergedSegment)
           /\ Row(KeptSegments) /\ MergedSegment \in Segment
           /\ MergedSegment.dead \subseteq DOMAIN MergedSegment.docs
           /\ Bound(KeptSegments) <= MergedSegment.base_doc
           /\ \A i \in DOMAIN KeptSegments : /\ KeptSegments[i].segment_id # MergedSegment.segment_id
                                             /\ KeptSegments[i].segment_id < next_id
           /\ LiveLocals(MergedSegment) = DOMAIN merge.origin \ Carry
           /\ Row(segments') /\ Bound(segments') <= MaxDoc /\ id_bound <= Bound(segments')
           /\ \A k \in DOMAIN segments' : segments'[k].segment_id < next_id'
<1>1. /\ TypeOK /\ Decodable /\ MergeFollows /\ Row(segments)
      /\ next_id \in Nat /\ id_bound \in Nat /\ id_bound = Bound(segments)
  BY DecodableRow, BoundIs, Rows DEF IInv, TypeOK
<1>2. /\ id_bound + Len(merge.docs) <= MaxDoc /\ next_id' = next_id + 1
      /\ segments' = Append(KeptSegments, MergedSegment)
  BY DEF CommitMerge, MergedBase, KeptSegments, Untouched, MergedSegment
<1>3. merge.docs \in Seq(Doc) /\ DOMAIN merge.docs = DOMAIN merge.origin
  BY <1>1 DEF TypeOK, MergeFollows
<1>4. Carry \subseteq DOMAIN merge.origin
  BY DEF Carry
<1>5. DOMAIN merge.docs \subseteq Nat /\ Len(merge.docs) \in Nat
  BY <1>3
<1>6. Carry \in SUBSET Nat
  BY <1>3, <1>4, <1>5
<1>7. MergedSegment \in Segment
  BY <1>1, <1>3, <1>6 DEF MergedSegment, Segment
<1>8. /\ MergedSegment.segment_id = next_id /\ MergedSegment.base_doc = id_bound
      /\ MergedSegment.docs = merge.docs /\ MergedSegment.dead = Carry
  BY DEF MergedSegment
<1>9. /\ Row(KeptSegments) /\ Bound(KeptSegments) <= Bound(segments)
      /\ \A j \in DOMAIN KeptSegments : \E i \in DOMAIN segments : KeptSegments[j] = segments[i]
  BY <1>1, SubRow DEF KeptSegments
<1>10. \A j \in DOMAIN KeptSegments : /\ KeptSegments[j].segment_id < next_id
                                      /\ KeptSegments[j].segment_id # next_id
  <2> SUFFICES ASSUME NEW j \in DOMAIN KeptSegments
               PROVE  /\ KeptSegments[j].segment_id < next_id
                      /\ KeptSegments[j].segment_id # next_id
    OBVIOUS
  <2>1. PICK i \in DOMAIN segments : KeptSegments[j] = segments[i]
    BY <1>9
  <2>2. segments[i].segment_id < next_id /\ segments[i].segment_id \in Nat
    BY <1>1, RowFacts DEF Decodable
  <2> QED
    BY <1>1, <2>1, <2>2
<1>11. LiveLocals(MergedSegment) = DOMAIN merge.origin \ Carry
  BY <1>3, <1>8 DEF LiveLocals
<1> HIDE DEF MergedSegment
<1>12. /\ Row(segments') /\ DOMAIN segments' = DOMAIN KeptSegments \cup {Len(KeptSegments) + 1}
       /\ segments'[Len(KeptSegments) + 1] = MergedSegment
       /\ \A i \in DOMAIN KeptSegments : segments'[i] = KeptSegments[i]
  BY <1>1, <1>2, <1>3, <1>4, <1>7, <1>8, <1>9, <1>10, AppendRow
<1>13. Bound(segments') = id_bound + Len(merge.docs)
  <2>1. Bound(segments') = end_doc(MergedSegment)
    BY <1>1, <1>2, <1>3, <1>4, <1>7, <1>8, <1>9, <1>10, AppendBound
  <2> QED
    BY <1>8, <2>1 DEF end_doc
<1>14. \A k \in DOMAIN segments' : segments'[k].segment_id < next_id'
  <2>1. next_id < next_id'
    BY <1>1, <1>2
  <2>2. \A k \in DOMAIN KeptSegments : KeptSegments[k].segment_id \in Nat
    BY <1>9, RowFacts
  <2>3. \A k \in DOMAIN KeptSegments : KeptSegments[k].segment_id < next_id'
    BY <1>1, <1>2, <1>10, <2>2
  <2> QED
    BY <1>8, <1>12, <2>1, <2>3
<1> QED
  BY <1>1, <1>2, <1>3, <1>4, <1>5, <1>7, <1>8, <1>9, <1>10, <1>11, <1>12, <1>13, <1>14

\* What is live afterwards is what was live before, each doc once.
LEMMA MergeMoves ==
    ASSUME IInv, CommitMerge
    PROVE  /\ \A id \in Live(segments') :
                 LET now == DocIn(segments', overlay', id)
                 IN /\ Before(id) \in LiveIds
                    /\ Bytes(now) = Bytes(doc(Before(id)))
                    /\ ~PatchLost => now = doc(Before(id))
           /\ \A a, b \in Live(segments') : Before(a) = Before(b) => a = b
           /\ \A old \in LiveIds : \E id \in Live(segments') : Before(id) = old
<1> DEFINE B == id_bound
           S == segments'
           s == MergedSegment
           R == KeptSegments
<1>1. /\ TypeOK /\ Decodable /\ PatchesInRange /\ MergeFollows
      /\ merge.sources \subseteq segment_ids /\ overlay' = overlay
  BY DEF IInv, CommitMerge
<1>2. /\ Row(segments) /\ B \in Nat /\ B = Bound(segments) /\ LiveIds = Live(segments)
      /\ overlay \in Patches
  BY <1>1, DecodableRow, BoundIs, Rows DEF TypeOK, Patches
<1>3. /\ S = Append(R, s) /\ Row(R) /\ s \in Segment /\ s.dead \subseteq DOMAIN s.docs
      /\ Bound(R) <= s.base_doc /\ \A i \in DOMAIN R : R[i].segment_id # s.segment_id
      /\ LiveLocals(s) = DOMAIN merge.origin \ Carry
      /\ Row(S)
  BY MergeMakes
<1>4. s.base_doc = B /\ s.docs = merge.docs
  BY DEF MergedSegment
<1>5. /\ \A id \in Live(R) : /\ id \in LiveIds /\ RecordIn(R, id) = RecordIn(segments, id)
                             /\ \E i \in Untouched : \E l \in LiveLocals(segments[i]) :
                                   id = IdOf(segments[i], l)
      /\ \A i \in Untouched : \A l \in LiveLocals(segments[i]) : IdOf(segments[i], l) \in Live(R)
  <2>1. Untouched \cap DOMAIN segments = Untouched
    BY DEF Untouched
  <2> QED
    BY <1>2, <2>1, SubLive DEF KeptSegments
<1>6. /\ \A i \in DOMAIN merge.origin \ Carry :
            \E k \in DOMAIN segments : \E l \in LiveLocals(segments[k]) :
               /\ segments[k].segment_id \in merge.sources
               /\ merge.origin[i] = <<segments[k].segment_id, l>>
               /\ Bytes(merge.docs[i]) = Bytes(segments[k].docs[l])
      /\ \A k \in DOMAIN segments : \A l \in LiveLocals(segments[k]) :
            segments[k].segment_id \in merge.sources =>
               \E i \in DOMAIN merge.origin \ Carry :
                  merge.origin[i] = <<segments[k].segment_id, l>>
  BY <1>1, MergedDocs
<1>7. \A id \in LiveIds : id \in Nat /\ id < B
  BY <1>2, LiveBelow
<1>8. \A id \in DOMAIN overlay : id < B
  BY <1>1 DEF PatchesInRange
<1> HIDE DEF S, s, R, B
\* The docs of the segments that stay.
<1>9. ASSUME NEW id \in Live(R)
      PROVE  /\ id \in Live(S) /\ Before(id) = id /\ id \in LiveIds
             /\ DocIn(S, overlay, id) = doc(id)
             /\ \E i \in Untouched : \E l \in LiveLocals(segments[i]) : id = IdOf(segments[i], l)
  <2>1. id \in Live(S) /\ RecordIn(S, id) = RecordIn(R, id)
    BY <1>3, AppendLive
  <2>2. DocIn(S, overlay, id) = DocIn(segments, overlay, id)
    BY <1>5, <2>1 DEF DocIn
  <2>3. DocIn(S, overlay, id) = doc(id)
    BY <1>1, <1>5, <2>2, ViewFacts
  <2> QED
    BY <1>5, <1>7, <2>1, <2>3 DEF Before, B
\* Those of the new one.
<1>10. ASSUME NEW i \in DOMAIN merge.origin \ Carry
       PROVE  /\ IdOf(s, i) \in Live(S) /\ Before(IdOf(s, i)) = IdAt(merge.origin[i])
              /\ DocIn(S, overlay, IdOf(s, i)) = merge.docs[i]
  <2>1. /\ IdOf(s, i) \in Live(S) /\ RecordIn(S, IdOf(s, i)) = merge.docs[i]
        /\ IdOf(s, i) - B + 1 = i
    BY <1>3, <1>4, AppendLive
  <2>2. IdOf(s, i) \in Nat /\ i \in Nat /\ i >= 1
    <3>1. i \in DOMAIN s.docs
      BY <1>3 DEF LiveLocals
    <3>2. s.docs \in Seq(Doc)
      BY <1>3 DEF Segment
    <3>3. i \in Nat /\ i >= 1
      BY <3>1, <3>2
    <3> QED
      BY <1>3, <2>1, <3>3, LiveBelow
  <2>3. ~(IdOf(s, i) < B)
    BY <1>2, <2>1, <2>2
  <2>4. IdOf(s, i) \notin DOMAIN overlay
    BY <1>8, <2>3
  <2>5. DocIn(S, overlay, IdOf(s, i)) = merge.docs[i]
    BY <2>1, <2>4 DEF DocIn
  <2> QED
    BY <2>1, <2>3, <2>5 DEF Before, B
<1>11. ASSUME NEW i \in DOMAIN merge.origin \ Carry
       PROVE  /\ IdAt(merge.origin[i]) \in LiveIds
              /\ Bytes(merge.docs[i]) = Bytes(doc(IdAt(merge.origin[i])))
              /\ \E k \in DOMAIN segments : \E l \in DOMAIN segments[k].docs :
                    /\ segments[k].segment_id \in merge.sources
                    /\ IdAt(merge.origin[i]) = IdOf(segments[k], l)
                    /\ merge.origin[i] = <<segments[k].segment_id, l>>
  <2>0. PICK k \in DOMAIN segments : \E l \in LiveLocals(segments[k]) :
               /\ segments[k].segment_id \in merge.sources
               /\ merge.origin[i] = <<segments[k].segment_id, l>>
               /\ Bytes(merge.docs[i]) = Bytes(segments[k].docs[l])
    BY <1>6
  <2>1. PICK l \in LiveLocals(segments[k]) :
               /\ segments[k].segment_id \in merge.sources
               /\ merge.origin[i] = <<segments[k].segment_id, l>>
               /\ Bytes(merge.docs[i]) = Bytes(segments[k].docs[l])
    BY <2>0
  <2>2. l \in DOMAIN segments[k].docs
    BY <1>2, RowFacts
  <2> DEFINE id == IdOf(segments[k], l)
  <2>3. IdAt(merge.origin[i]) = id
    BY <1>1, <2>1, <2>2, IdAtIs
  <2>4. id \in LiveIds /\ RecordIn(segments, id) = segments[k].docs[l]
    BY <1>2, <2>2, LiveAt, RecordAt
  <2>5. doc(id) = DocIn(segments, overlay, id)
    BY <1>1, <2>4, ViewFacts
  <2> HIDE DEF id
  <2>6. Bytes(doc(id)) = Bytes(segments[k].docs[l])
    BY <1>2, <2>4, <2>5, ShownDoc
  <2> QED
    BY <2>1, <2>2, <2>3, <2>4, <2>6 DEF id
<1>12. ASSUME NEW id \in Live(S), id \notin Live(R)
       PROVE  \E i \in DOMAIN merge.origin \ Carry : id = IdOf(s, i)
  <2>1. id \in Live(R) \/ \E l \in LiveLocals(s) : id = IdOf(s, l)
    BY <1>3, AppendLive
  <2> QED
    BY <1>3, <1>12, <2>1
<1>13. ASSUME NEW id \in Live(S)
       PROVE  /\ Before(id) \in LiveIds
              /\ Bytes(DocIn(S, overlay, id)) = Bytes(doc(Before(id)))
              /\ ~PatchLost => DocIn(S, overlay, id) = doc(Before(id))
  <2>1. CASE id \in Live(R)
    BY <1>9, <2>1
  <2>2. CASE id \notin Live(R)
    <3>1. PICK i \in DOMAIN merge.origin \ Carry : id = IdOf(s, i)
      BY <1>12, <2>2
    <3>2. ~PatchLost => doc(IdAt(merge.origin[i])) = merge.docs[i]
      BY DEF PatchLost
    <3> QED
      BY <1>10, <1>11, <3>1, <3>2
  <2> QED
    BY <2>1, <2>2
<1>14. ASSUME NEW a \in Live(R), NEW i \in DOMAIN merge.origin \ Carry
       PROVE  a # IdAt(merge.origin[i])
  <2> SUFFICES ASSUME a = IdAt(merge.origin[i]) PROVE FALSE
    OBVIOUS
  <2>0. PICK j \in Untouched : \E l \in LiveLocals(segments[j]) : a = IdOf(segments[j], l)
    BY <1>9
  <2>1. PICK l \in LiveLocals(segments[j]) : a = IdOf(segments[j], l)
    BY <2>0
  <2>2. j \in DOMAIN segments /\ l \in DOMAIN segments[j].docs
    BY <1>2, RowFacts DEF Untouched
  <2>3. PICK k \in DOMAIN segments : \E m \in DOMAIN segments[k].docs :
           segments[k].segment_id \in merge.sources /\ IdAt(merge.origin[i]) = IdOf(segments[k], m)
    BY <1>11
  <2>4. PICK m \in DOMAIN segments[k].docs :
           segments[k].segment_id \in merge.sources /\ IdAt(merge.origin[i]) = IdOf(segments[k], m)
    BY <2>3
  <2>5. j = k
    BY <1>2, <2>1, <2>2, <2>4, OneDoc
  <2> QED
    BY <2>4, <2>5 DEF Untouched
<1>15. ASSUME NEW i \in DOMAIN merge.origin \ Carry, NEW j \in DOMAIN merge.origin \ Carry,
              IdAt(merge.origin[i]) = IdAt(merge.origin[j])
       PROVE  i = j
  <2>1. PICK k \in DOMAIN segments : \E l \in DOMAIN segments[k].docs :
           /\ IdAt(merge.origin[i]) = IdOf(segments[k], l)
           /\ merge.origin[i] = <<segments[k].segment_id, l>>
    BY <1>11
  <2>2. PICK l \in DOMAIN segments[k].docs :
           /\ IdAt(merge.origin[i]) = IdOf(segments[k], l)
           /\ merge.origin[i] = <<segments[k].segment_id, l>>
    BY <2>1
  <2>3. PICK n \in DOMAIN segments : \E m \in DOMAIN segments[n].docs :
           /\ IdAt(merge.origin[j]) = IdOf(segments[n], m)
           /\ merge.origin[j] = <<segments[n].segment_id, m>>
    BY <1>11
  <2>4. PICK m \in DOMAIN segments[n].docs :
           /\ IdAt(merge.origin[j]) = IdOf(segments[n], m)
           /\ merge.origin[j] = <<segments[n].segment_id, m>>
    BY <2>3
  <2>5. IdOf(segments[k], l) = IdOf(segments[n], m)
    BY <1>15, <2>2, <2>4
  <2>6. k = n /\ l = m
    BY <1>2, <2>5, OneDoc
  <2> QED
    BY <1>1, <2>2, <2>4, <2>6 DEF MergeFollows
<1>16. ASSUME NEW a \in Live(S), NEW b \in Live(S), Before(a) = Before(b) PROVE a = b
  <2>1. CASE a \in Live(R) /\ b \in Live(R)
    BY <1>9, <1>16, <2>1
  <2>2. CASE a \in Live(R) /\ b \notin Live(R)
    BY <1>9, <1>10, <1>12, <1>14, <1>16, <2>2
  <2>3. CASE a \notin Live(R) /\ b \in Live(R)
    BY <1>9, <1>10, <1>12, <1>14, <1>16, <2>3
  <2>4. CASE a \notin Live(R) /\ b \notin Live(R)
    BY <1>10, <1>12, <1>15, <1>16, <2>4
  <2> QED
    BY <2>1, <2>2, <2>3, <2>4
<1>17. ASSUME NEW old \in LiveIds PROVE \E id \in Live(S) : Before(id) = old
  <2>0. PICK k \in DOMAIN segments : \E l \in LiveLocals(segments[k]) : old = IdOf(segments[k], l)
    BY <1>2, LiveAt
  <2>1. PICK l \in LiveLocals(segments[k]) : old = IdOf(segments[k], l)
    BY <2>0
  <2>2. CASE segments[k].segment_id \notin merge.sources
    <3>1. k \in Untouched
      BY <2>2 DEF Untouched
    <3>2. old \in Live(R)
      BY <1>5, <2>1, <3>1
    <3> QED
      BY <1>9, <3>2
  <2>3. CASE segments[k].segment_id \in merge.sources
    <3>1. PICK i \in DOMAIN merge.origin \ Carry : merge.origin[i] = <<segments[k].segment_id, l>>
      BY <1>6, <2>1, <2>3
    <3>2. l \in DOMAIN segments[k].docs
      BY <1>2, RowFacts
    <3>3. IdAt(merge.origin[i]) = old
      BY <1>1, <2>1, <3>1, <3>2, IdAtIs
    <3> QED
      BY <1>10, <3>3
  <2> QED
    BY <2>2, <2>3
<1> QED
  BY <1>1, <1>13, <1>16, <1>17 DEF S

LEMMA CommitMergeIInv ==
    ASSUME IInv, CommitMerge
    PROVE  IInv'
<1> DEFINE S == segments'
<1>1. /\ TypeOK /\ pc = "idle" /\ OneDocPerPath /\ PatchesInRange
      /\ merge' = NoMerge /\ next_id' = next_id + 1 /\ next_id < MaxSegments
      /\ patch_lost' = (patch_lost \/ PatchLost) /\ calm' = 0 /\ settled' = FALSE
      /\ UNCHANGED <<disk, clock, faults, overlay, update, undisturbed, misread, failed>>
  BY DEF IInv, CommitMerge
<1>2. next_id \in Nat /\ next_id' \in 0 .. MaxSegments /\ next_id' \in Nat
  BY <1>1, SegmentsAssumption DEF TypeOK
<1>3. /\ Row(S) /\ Bound(S) <= MaxDoc /\ id_bound <= Bound(S)
      /\ \A k \in DOMAIN S : S[k].segment_id < next_id'
  BY MergeMakes
<1>4. Bound(S) \in Nat /\ id_bound \in Nat
  BY <1>1, <1>3, BoundIs, DecodableRow, Rows DEF IInv
<1> HIDE DEF S
<1>5. Decodable'
  BY <1>3, RowCodes DEF Decodable, S
<1>6. id_bound' = Bound(S) /\ LiveIds' = Live(S) /\ \A id : doc(id)' = DocIn(S, overlay', id)
  BY DEF id_bound, LiveIds, doc, Recorded, SegmentWith, Bound, Live, DocIn, RecordIn, With, S
<1>7. PatchesInRange'
  <2>1. \A id \in DOMAIN overlay : id \in Nat /\ id < id_bound
    <3>1. \A id \in DOMAIN overlay : id \in DocId
      BY <1>1 DEF TypeOK
    <3>2. DocId \subseteq Nat
      BY ContentAssumption DEF DocId
    <3> QED
      BY <1>1, <3>1, <3>2 DEF PatchesInRange
  <2>2. \A id \in DOMAIN overlay : id < Bound(S)
    BY <1>3, <1>4, <2>1
  <2> QED
    BY <1>1, <1>6, <2>2 DEF PatchesInRange
<1>8. TypeOK'
  <2>1. segments' \in Seq(Segment) /\ \A i \in DOMAIN segments' : segments'[i].dead \subseteq DOMAIN segments'[i].docs
    BY <1>3 DEF Row, S
  <2>2. patch_lost' \in BOOLEAN /\ settled' \in BOOLEAN
    BY <1>1, Zenon
  <2>3. calm' \in 0 .. 2
    BY <1>1
  <2>4. UNCHANGED <<pc, crawled, plan>>
    BY <1>1 DEF update
  <2> QED
    BY <1>1, <1>2, <2>1, <2>2, <2>3, <2>4, NoMergeFits DEF TypeOK
<1>9. PlanFits'
  BY <1>1 DEF PlanFits, update
<1>10. OneDocPerPath'
  <2> SUFFICES ASSUME ~patch_lost', NEW a \in Live(S), NEW b \in Live(S),
                      DocIn(S, overlay', a).path = DocIn(S, overlay', b).path
               PROVE  a = b
    BY <1>6 DEF OneDocPerPath
  <2>1. ~patch_lost /\ ~PatchLost
    BY <1>1
  <2>2. /\ Before(a) \in LiveIds /\ DocIn(S, overlay', a) = doc(Before(a))
        /\ Before(b) \in LiveIds /\ DocIn(S, overlay', b) = doc(Before(b))
    BY <2>1, MergeMoves DEF S
  <2>3. Before(a) = Before(b)
    BY <1>1, <2>1, <2>2 DEF OneDocPerPath
  <2> QED
    BY <2>3, MergeMoves DEF S
<1> QED
  BY <1>1, <1>2, <1>5, <1>7, <1>8, <1>9, <1>10, NoMergeFits DEF IInv

-----------------------------------------------------------------------------
(* Theorems.                                                               *)

LEMMA InitIInv ==
    ASSUME Init
    PROVE  IInv
<1>1. /\ << >> \in Seq(Segment) /\ DOMAIN << >> = {}
      /\ << >> \in [{} -> Patch] /\ {} \in SUBSET DocId
      /\ << >> \in Seq(Doc) /\ << >> \in Seq(Nat \X Nat) /\ << >> \in [{} -> SUBSET Nat]
  OBVIOUS
<1>2. /\ merge.sources = {} /\ merge.dead = << >> /\ merge.docs = << >> /\ merge.origin = << >>
      /\ segments = << >> /\ overlay = << >> /\ next_id = 0 /\ pc = "idle"
  BY DEF Init, NoMerge
<1>3. DOMAIN segments = {} /\ DOMAIN overlay = {}
  BY <1>1, <1>2
<1>4. TypeOK
  <2>1. disk \in Disk /\ crawled \in Disk
    BY DEF Init, Disk
  <2>2. plan \in Plan
    BY NoPlanFacts DEF Init, Plan, PlanFor
  <2>3. clock \in 0 .. MaxClock /\ next_id \in 0 .. MaxSegments /\ calm \in 0 .. 2
    BY ContentAssumption, SegmentsAssumption DEF Init
  <2>4. /\ settled \in BOOLEAN /\ undisturbed \in BOOLEAN
        /\ patch_lost \in BOOLEAN /\ misread \in BOOLEAN
    BY DEF Init
  <2>5. overlay \in UNION {[ids -> Patch] : ids \in SUBSET DocId}
    BY <1>1, <1>2
  <2>6. segments \in Seq(Segment) /\ \A i \in DOMAIN segments : segments[i].dead \subseteq DOMAIN segments[i].docs
    BY <1>1, <1>2, <1>3
  <2>7. /\ merge.sources \subseteq 0 .. (MaxSegments - 1)
        /\ merge.dead \in [merge.sources -> SUBSET Nat]
        /\ merge.docs \in Seq(Doc) /\ merge.origin \in Seq(Nat \X Nat)
    BY <1>1, <1>2
  <2>8. pc \in {"idle", "reconcile", "update", "build"}
    BY <1>2
  <2>9. faults \in 0 .. MaxFaults /\ failed \subseteq Inode \X (1 .. MaxClock)
    BY FaultsAssumption DEF Init
  <2> QED
    BY <2>1, <2>2, <2>3, <2>4, <2>5, <2>6, <2>7, <2>8, <2>9 DEF TypeOK
<1>5. Decodable /\ PatchesInRange
  BY <1>3 DEF Decodable, PatchesInRange
<1>6. LiveIds = {}
  BY <1>3 DEF LiveIds
<1>7. PlanFits /\ OneDocPerPath
  BY <1>2, <1>6 DEF PlanFits, OneDocPerPath
<1>8. MergeFollows
  BY <1>1, <1>2, <1>3 DEF MergeFollows
<1> QED
  BY <1>4, <1>5, <1>7, <1>8 DEF IInv

LEMMA StutterIInv ==
    ASSUME IInv, UNCHANGED vars
    PROVE  IInv'
<1>1. /\ UNCHANGED <<disk, clock, faults, index, merge, pc, crawled, plan>>
      /\ UNCHANGED <<calm, settled, undisturbed, patch_lost, misread, failed>>
  BY DEF vars, update, history
<1>2. TypeOK'
  BY <1>1 DEF IInv, TypeOK, index
<1>3. PlanFits'
  BY <1>1, IndexUnmoved DEF IInv, PlanFits
<1> QED
  BY <1>1, <1>2, <1>3, IndexUnmoved, MergeUnmoved DEF IInv

\* The invariant is inductive, whatever users, the writer and the merger do.
THEOREM Invariance == Spec => []IInv
<1>1. Init => IInv
  BY InitIInv
<1>2. IInv /\ [Next]_vars => IInv'
  <2> SUFFICES ASSUME IInv, [Next]_vars PROVE IInv'
    OBVIOUS
  <2>1. CASE User
    BY <2>1, UserIInv
  <2>2. CASE CrawlForBuild
    BY <2>2, CrawlIInv DEF CrawlForBuild
  <2>3. CASE CrawlForUpdate
    BY <2>3, CrawlIInv DEF CrawlForUpdate
  <2>4. CASE Decide
    BY <2>4, DecideIInv
  <2>5. CASE CommitUpdate
    BY <2>5, CommitUpdateIInv
  <2>6. CASE CommitBuild
    BY <2>6, CommitBuildIInv
  <2>7. CASE GiveUp
    BY <2>7, GiveUpIInv
  <2>8. ASSUME NEW group \in SUBSET segment_ids, PrepareMerge(group) PROVE IInv'
    BY <2>8, PrepareMergeIInv
  <2>9. CASE CommitMerge
    BY <2>9, CommitMergeIInv
  <2>10. CASE DropMerge
    BY <2>10, DropMergeIInv
  <2>11. CASE UNCHANGED vars
    BY <2>11, StutterIInv
  <2> QED
    BY <2>1, <2>2, <2>3, <2>4, <2>5, <2>6, <2>7, <2>8, <2>9, <2>10, <2>11 DEF Next, Writer, Merger
<1> QED
  BY <1>1, <1>2, PTL DEF Spec

\* Documents, plans, patches and prepared merges are of their types: the ids of
\* docs stay below MaxDoc, the files that are planned for exist in the crawl.
THEOREM TypeCorrect == Spec => []TypeOK
<1>1. IInv => TypeOK
  BY DEF IInv
<1> QED
  BY <1>1, Invariance, PTL

\* Manifest::decode accepts every manifest that builds, updates and merges
\* commit: the ranges of ids ascend, however merges and deletions rearrange the
\* segments, and no segment id is reused.
THEOREM Decodability == Spec => []Decodable
<1>1. IInv => Decodable
  BY DEF IInv
<1> QED
  BY <1>1, Invariance, PTL

\* Until a merge has undone a patch, the index shows no path twice, whatever
\* hard links, renames and races with users a reconcile has seen.
THEOREM OnePath == Spec => []OneDocPerPath
<1>1. IInv => OneDocPerPath
  BY DEF IInv
<1> QED
  BY <1>1, Invariance, PTL

LEMMA IndexSteps ==
    ASSUME [Next]_vars
    PROVE  UNCHANGED index \/ CommitUpdate \/ CommitBuild \/ CommitMerge
<1>1. CASE User
  BY <1>1 DEF User, Create, Modify, Erase, Rename, Link, Change
<1>2. CASE CrawlForBuild \/ CrawlForUpdate \/ Decide \/ GiveUp
  BY <1>2, DecideReads DEF CrawlForBuild, CrawlForUpdate, Crawl, GiveUp
<1>3. CASE DropMerge \/ \E group \in SUBSET segment_ids : PrepareMerge(group)
  BY <1>3 DEF DropMerge, PrepareMerge
<1>4. CASE UNCHANGED vars
  BY <1>4 DEF vars
<1> QED
  BY <1>1, <1>2, <1>3, <1>4 DEF Next, Writer, Merger

\* An id that the overlay has a patch for is never given to another doc: not by
\* an update that appends, not by a merge that moves docs, and a build, which
\* starts the ids over, drops the overlay.
THEOREM PatchesStay == Spec => PatchesStayWithTheirDoc
<1> DEFINE A == \A id \in LiveIds' \cap DOMAIN overlay' :
                   id \in LiveIds /\ Recorded(id)' = Recorded(id)
<1>1. IInv /\ [Next]_vars => [A]_vars
  <2> SUFFICES ASSUME IInv, [Next]_vars, NEW id \in LiveIds', id \in DOMAIN overlay'
               PROVE  id \in LiveIds /\ Recorded(id)' = Recorded(id)
    OBVIOUS
  <2>1. CASE UNCHANGED index
    BY <2>1 DEF index, LiveIds, Recorded, SegmentWith
  <2>2. id \in Live(segments') /\ Recorded(id)' = RecordIn(segments', id)
    BY DEF LiveIds, Live, Recorded, SegmentWith, RecordIn, With
  <2>3. Recorded(id) = RecordIn(segments, id) /\ LiveIds = Live(segments)
    BY Rows
  <2>4. id_bound = Bound(segments) /\ Bound(segments) \in Nat
    BY Rows, DecodableRow, BoundIs DEF IInv
  <2>5. CASE CommitUpdate
    <3>0. PICK read : Reads(read) /\ Updates(read)
      BY <2>5, UpdateReads DEF IInv
    <3>1. id < Bound(segments)
      BY <2>5, <3>0, UpdateMoves
    <3>2. id \in Nat
      BY <2>2, <2>5, <3>0, UpdateMoves, LiveBelow
    <3>3. ~(id >= Bound(segments))
      BY <2>4, <3>1, <3>2
    <3>4. id \in LiveIds \ plan.deletes /\ RecordIn(segments', id) = RecordIn(segments, id)
      BY <2>2, <2>5, <3>0, <3>3, UpdateMoves
    <3> QED
      BY <2>2, <2>3, <3>4
  <2>6. CASE CommitBuild
    <3>1. overlay' = << >>
      BY <2>6 DEF CommitBuild, EmptyOverlay
    <3> QED
      BY <3>1
  <2>7. CASE CommitMerge
    <3>1. id < id_bound
      BY <2>7 DEF CommitMerge, IInv, PatchesInRange
    <3>2. id \in Nat
      BY <2>2, <2>7, MergeMakes, LiveBelow
    <3>3. \A l \in LiveLocals(MergedSegment) : IdOf(MergedSegment, l) # id
      <4> SUFFICES ASSUME NEW l \in LiveLocals(MergedSegment), IdOf(MergedSegment, l) = id
                   PROVE  FALSE
        OBVIOUS
      <4>1. id = id_bound + l - 1
        BY DEF IdOf, MergedSegment
      <4>2. l \in DOMAIN merge.docs /\ merge.docs \in Seq(Doc)
        BY <2>7, MergeMakes DEF IInv, TypeOK, MergeFollows
      <4>3. l \in Nat /\ l >= 1
        BY <4>2
      <4> QED
        BY <2>4, <3>1, <4>1, <4>3
    <3>4. /\ segments' = Append(KeptSegments, MergedSegment)
          /\ Row(KeptSegments) /\ MergedSegment \in Segment
          /\ MergedSegment.dead \subseteq DOMAIN MergedSegment.docs
          /\ Bound(KeptSegments) <= MergedSegment.base_doc
          /\ \A i \in DOMAIN KeptSegments : KeptSegments[i].segment_id # MergedSegment.segment_id
      BY <2>7, MergeMakes
    <3>5. id \in Live(KeptSegments)
      BY <2>2, <3>3, <3>4, AppendLive
    <3>6. RecordIn(segments', id) = RecordIn(KeptSegments, id)
      BY <3>4, <3>5, AppendLive
    <3>7. Row(segments)
      BY DecodableRow DEF IInv
    <3>8. id \in Live(segments) /\ RecordIn(KeptSegments, id) = RecordIn(segments, id)
      BY <3>5, <3>7, SubLive DEF KeptSegments
    <3> QED
      BY <2>2, <2>3, <3>6, <3>8
  <2> QED
    BY <2>1, <2>5, <2>6, <2>7, IndexSteps
<1> QED
  BY <1>1, Invariance, PTL DEF Spec, PatchesStayWithTheirDoc

\* Views between which docs move, one to one, and stay what they are.
LEMMA SameDocsMoved ==
    ASSUME NEW D, IsFiniteSet(D), NEW E, NEW old, DOMAIN old = D, NEW new, DOMAIN new = E,
           NEW from \in [E -> D],
           \A a, b \in E : from[a] = from[b] => a = b,
           \A x \in D : \E e \in E : from[e] = x,
           \A e \in E : new[e] = old[from[e]]
    PROVE  SameDocs(old, new)
<1> SUFFICES ASSUME NEW d PROVE Times(old, d) = Times(new, d)
  BY DEF SameDocs
<1> DEFINE X == {x \in D : old[x] = d}
           Y == {e \in E : new[e] = d}
           f == [e \in Y |-> from[e]]
<1>1. f \in [Y -> X]
  OBVIOUS
<1>2. \A a, b \in Y : f[a] = f[b] => a = b
  OBVIOUS
<1>3. \A x \in X : \E e \in Y : f[e] = x
  <2> SUFFICES ASSUME NEW x \in X PROVE \E e \in Y : f[e] = x
    OBVIOUS
  <2>1. PICK e \in E : from[e] = x
    OBVIOUS
  <2>2. e \in Y
    BY <2>1
  <2> QED
    BY <2>1, <2>2
<1> HIDE DEF f, X, Y
<1>4. f \in Bijection(Y, X)
  BY <1>1, <1>2, <1>3, Fun_IsBij
<1>5. ExistsBijection(X, Y)
  BY <1>4, Fun_ExistsBijSymmetric DEF ExistsBijection
<1>6. IsFiniteSet(X)
  BY FS_Subset DEF X
<1>7. Cardinality(X) = Cardinality(Y)
  BY <1>5, <1>6, FS_Bijection
<1> QED
  BY <1>7 DEF Times, X, Y

\* No reader can tell that a merge was committed: each live doc is there once,
\* with its bytes, and unless a patch was lost with its path and metadata; docs
\* that were deleted while the merge was under way stay deleted.
THEOREM MergeKeeps == Spec => MergeKeepsDocs
<1> DEFINE A == CommitMerge =>
                  /\ SameDocs([id \in LiveIds |-> Bytes(doc(id))], [id \in LiveIds |-> Bytes(doc(id))]')
                  /\ ~PatchLost => SameDocs(View, View')
<1>1. IInv /\ [Next]_vars => [A]_vars
  <2> SUFFICES ASSUME IInv, CommitMerge
               PROVE  /\ SameDocs([id \in LiveIds |-> Bytes(doc(id))],
                                  [id \in LiveIds |-> Bytes(doc(id))]')
                      /\ ~PatchLost => SameDocs(View, View')
    OBVIOUS
  <2> DEFINE S == segments'
             E == Live(S)
             now(id) == DocIn(S, overlay', id)
             from == [id \in E |-> Before(id)]
             old == [id \in LiveIds |-> Bytes(doc(id))]
             new == [id \in E |-> Bytes(now(id))]
             view == [id \in E |-> now(id)]
  <2>1. new = [id \in LiveIds |-> Bytes(doc(id))]'
    BY DEF LiveIds, Live, doc, Recorded, SegmentWith, DocIn, RecordIn, With
  <2>2. view = View'
    BY DEF View, LiveIds, Live, doc, Recorded, SegmentWith, DocIn, RecordIn, With
  <2>3. /\ \A id \in E : /\ Before(id) \in LiveIds
                         /\ Bytes(now(id)) = Bytes(doc(Before(id)))
                         /\ ~PatchLost => now(id) = doc(Before(id))
        /\ \A a, b \in E : Before(a) = Before(b) => a = b
        /\ \A x \in LiveIds : \E id \in E : Before(id) = x
    BY MergeMoves
  <2>4. IsFiniteSet(LiveIds)
    <3>1. LiveIds \in SUBSET DocId
      BY DecodableRow DEF IInv
    <3>2. IsFiniteSet(DocId)
      BY ContentAssumption, FS_Interval DEF DocId
    <3> QED
      BY <3>1, <3>2, FS_Subset
  <2> HIDE DEF E, now
  <2>5. /\ from \in [E -> LiveIds]
        /\ \A a, b \in E : from[a] = from[b] => a = b
        /\ \A x \in LiveIds : \E e \in E : from[e] = x
    BY <2>3
  <2>6. DOMAIN old = LiveIds /\ DOMAIN new = E /\ \A e \in E : new[e] = old[from[e]]
    BY <2>3
  <2>7. DOMAIN View = LiveIds /\ DOMAIN view = E /\ (~PatchLost => \A e \in E : view[e] = View[from[e]])
    BY <2>3 DEF View
  <2> HIDE DEF from, old, new, view
  <2>8. SameDocs(old, new)
    BY <2>4, <2>5, <2>6, SameDocsMoved
  <2>9. ~PatchLost => SameDocs(View, view)
    BY <2>4, <2>5, <2>7, SameDocsMoved
  <2>10. SameDocs([id \in LiveIds |-> Bytes(doc(id))], [id \in LiveIds |-> Bytes(doc(id))]')
    BY <2>1, <2>8 DEF old
  <2>11. ~PatchLost => SameDocs(View, View')
    BY <2>2, <2>9
  <2> QED
    BY <2>10, <2>11
<1> QED
  BY <1>1, Invariance, PTL DEF Spec, MergeKeepsDocs

-----------------------------------------------------------------------------
(* What a visit does, for docs prev that have a path each.                 *)

\* Why a doc recorded as prior may be patched to be the file f, crawled at p.
Fits(prior, f, now, p) ==
    \/ SameStat(prior, f)
    \/ f.content \in Text /\ prior.was_read /\ now[p] # NoFile /\ now[p].content = prior.content

\* The doc id becomes the file f, crawled at p: it is patched, or replaced, or
\* the file is gone already.
Handles(prev, now, todo, id, f, p, after) ==
    \/ after = PatchDoc(todo, id, f, p) /\ Fits(prev[id], f, now, p)
    \/ after = Reindex(Delete(todo, id), f, p)
    \/ after = Delete(todo, id) /\ now[p] = NoFile

\* The three ways in which a file is visited: at a known path, as a rename, as
\* a new one.
Known(prev, now, acc, f, p, after) ==
    LET id == by_path(prev, p)
    IN /\ HasPath(prev, p)
       /\ after.consumed = acc.consumed
       /\ \/ after.plan = acc.plan /\ SameStat(prev[id], f)
          \/ Handles(prev, now, acc.plan, id, f, p, after.plan)

Renamed(prev, now, acc, f, p, after) ==
    LET old == by_inode(prev, f.inode)
    IN /\ ~HasPath(prev, p) /\ HasInode(prev, f.inode)
       /\ old \notin acc.consumed
       /\ after.consumed = acc.consumed \cup {old}
       /\ Handles(prev, now, acc.plan, by_path(prev, old), f, p, after.plan)

Added(prev, acc, f, p, after) ==
    /\ ~HasPath(prev, p)
    /\ after.consumed = acc.consumed
    /\ after.plan = Reindex(acc.plan, f, p)

VisitIs(prev, now, acc, f, p, after) ==
    \/ f = NoFile /\ after = acc
    \/ /\ f \in File \ {NoFile}
       /\ after.seen = acc.seen \cup {p}
       /\ \/ Known(prev, now, acc, f, p, after)
          \/ Renamed(prev, now, acc, f, p, after)
          \/ Added(prev, acc, f, p, after)

\* by_path and by_inode find the same doc.
LEMMA InodeLookup ==
    ASSUME NEW D \in SUBSET DocId, NEW prev \in [D -> Doc], Once(prev), NEW i, HasInode(prev, i)
    PROVE  prev[by_path(prev, by_inode(prev, i))].inode = i
<1> DEFINE T == {id \in DOMAIN prev : prev[id].inode = i}
           m == Max(T)
<1>1. T \in SUBSET DocId /\ T # {}
  BY DEF HasInode
<1> HIDE DEF T
<1>2. m \in T
  BY <1>1, MaxId
<1>3. by_inode(prev, i) = prev[m].path
  BY DEF by_inode, T
<1>4. m \in DOMAIN prev /\ prev[m].inode = i
  BY <1>2 DEF T
<1> HIDE DEF m
<1>5. HasPath(prev, prev[m].path)
  BY <1>4 DEF HasPath
<1>6. by_path(prev, prev[m].path) \in D /\ prev[by_path(prev, prev[m].path)].path = prev[m].path
  BY <1>5, Lookups
<1>7. by_path(prev, prev[m].path) = m
  BY <1>4, <1>6 DEF Once
<1> QED
  BY <1>3, <1>4, <1>7

LEMMA KnownHandles ==
    ASSUME NEW prev, NEW now, NEW todo, NEW f, NEW p, NEW after,
           after = KnownPath(prev, f, now, todo, p)
    PROVE  LET id == by_path(prev, p)
           IN \/ after = todo /\ SameStat(prev[id], f)
              \/ Handles(prev, now, todo, id, f, p, after)
<1> DEFINE id == by_path(prev, p)
<1>1. CASE SameStat(prev[id], f)
  BY <1>1 DEF KnownPath, Unchanged
<1>2. CASE ~SameStat(prev[id], f) /\ f.content \in Text /\ prev[id].was_read
  BY <1>2 DEF KnownPath, Unchanged, Handles, Fits
<1>3. CASE ~SameStat(prev[id], f) /\ ~(f.content \in Text /\ prev[id].was_read)
  BY <1>3 DEF KnownPath, Unchanged, Handles
<1> QED
  BY <1>1, <1>2, <1>3

LEMMA RenameHandles ==
    ASSUME NEW prev, NEW now, NEW todo, NEW f, NEW p, NEW old, NEW after,
           prev[by_path(prev, old)].inode = f.inode,
           ~UnreadableRename(prev, f, now, p, old),
           after = RenamedFrom(prev, f, now, todo, p, old)
    PROVE  Handles(prev, now, todo, by_path(prev, old), f, p, after)
<1> DEFINE prior == prev[by_path(prev, old)]
<1>1. CASE prior.mtime = f.mtime
  BY <1>1 DEF RenamedFrom, Handles, Fits, SameStat
<1>2. CASE prior.mtime # f.mtime /\ f.content \in Text /\ prior.was_read
  <2>1. now[p] # NoFile
    BY <1>2 DEF UnreadableRename
  <2> QED
    BY <1>2, <2>1 DEF RenamedFrom, Handles, Fits
<1>3. CASE prior.mtime # f.mtime /\ ~(f.content \in Text /\ prior.was_read)
  BY <1>3 DEF RenamedFrom, Handles
<1> QED
  BY <1>1, <1>2, <1>3


LEMMA VisitCases ==
    ASSUME NEW D \in SUBSET DocId, NEW prev \in [D -> Doc], Once(prev),
           NEW seen \in Disk, NEW now, NEW p \in Path, NEW acc \in Accs(D)
    PROVE  VisitIs(prev, now, acc, seen[p], p, Visit(prev, seen, now, acc, p))
<1> DEFINE f == seen[p]
           old == by_inode(prev, f.inode)
           after == Visit(prev, seen, now, acc, p)
           moving == /\ HasInode(prev, f.inode) /\ old \notin acc.consumed
                     /\ ~UnreadableRename(prev, f, now, p, old)
           id == by_path(prev, old)
<1>1. f # NoFile => f \in File
  BY DEF Disk
<1>2. CASE f = NoFile
  BY <1>2 DEF Visit, VisitIs
<1>3. CASE f # NoFile /\ HasPath(prev, p)
  <2> DEFINE then == KnownPath(prev, f, now, acc.plan, p)
  <2>1. after = [[acc EXCEPT !.seen = @ \cup {p}] EXCEPT !.plan = KnownPath(prev, f, now, @, p)]
    BY <1>3 DEF Visit
  <2>2. after = [plan |-> then, seen |-> acc.seen \cup {p}, consumed |-> acc.consumed]
    BY <2>1 DEF Accs
  <2> HIDE DEF after, f
  <2>3. \/ then = acc.plan /\ SameStat(prev[by_path(prev, p)], f)
        \/ Handles(prev, now, acc.plan, by_path(prev, p), f, p, then)
    BY KnownHandles
  <2> HIDE DEF then
  <2>4. /\ after.plan = then /\ after.seen = acc.seen \cup {p} /\ after.consumed = acc.consumed
    BY <2>2
  <2>5. VisitIs(prev, now, acc, f, p, after)
    BY <1>1, <1>3, <2>3, <2>4 DEF VisitIs, Known
  <2> QED
    BY <2>5 DEF after, f
<1>4. CASE f # NoFile /\ ~HasPath(prev, p) /\ moving
  <2> DEFINE then == RenamedFrom(prev, f, now, acc.plan, p, old)
  <2>1. after = [[acc EXCEPT !.seen = @ \cup {p}]
                    EXCEPT !.plan = RenamedFrom(prev, f, now, @, p, old), !.consumed = @ \cup {old}]
    BY <1>4 DEF Visit
  <2>2. after = [plan |-> then, seen |-> acc.seen \cup {p}, consumed |-> acc.consumed \cup {old}]
    BY <2>1 DEF Accs
  <2> HIDE DEF after, f
  <2>3. prev[id].inode = f.inode
    BY <1>4, InodeLookup
  <2>4. Handles(prev, now, acc.plan, id, f, p, then)
    BY <1>4, <2>3, RenameHandles
  <2> HIDE DEF then
  <2>5. /\ after.plan = then /\ after.seen = acc.seen \cup {p}
        /\ after.consumed = acc.consumed \cup {old}
    BY <2>2
  <2>6. VisitIs(prev, now, acc, f, p, after)
    BY <1>1, <1>4, <2>4, <2>5 DEF VisitIs, Renamed
  <2> QED
    BY <2>6 DEF after, f
<1>5. CASE f # NoFile /\ ~HasPath(prev, p) /\ ~moving
  <2> DEFINE then == Reindex(acc.plan, f, p)
  <2>1. after = [[acc EXCEPT !.seen = @ \cup {p}] EXCEPT !.plan = Reindex(@, f, p)]
    BY <1>5 DEF Visit
  <2>2. after = [plan |-> then, seen |-> acc.seen \cup {p}, consumed |-> acc.consumed]
    BY <2>1 DEF Accs
  <2> HIDE DEF after, f, then
  <2>3. after.plan = then /\ after.seen = acc.seen \cup {p} /\ after.consumed = acc.consumed
    BY <2>2
  <2>4. VisitIs(prev, now, acc, f, p, after)
    BY <1>1, <1>5, <2>3 DEF VisitIs, Added, then
  <2> QED
    BY <2>4 DEF after, f
<1> QED
  BY <1>2, <1>3, <1>4, <1>5

-----------------------------------------------------------------------------
(* What is added to a plan.                                                *)

Touched(todo) == todo.deletes \cup DOMAIN todo.patches

\* The plan after is todo with the docs in new handled for the file f at p.
Adds(prev, now, todo, after, new, f, p) ==
    /\ Touched(after) = Touched(todo) \cup new
    /\ after.deletes \subseteq todo.deletes \cup new
    /\ \A a \in DOMAIN todo.patches \ new :
          a \in DOMAIN after.patches /\ after.patches[a] = todo.patches[a]
    /\ \A a \in DOMAIN after.patches :
          \/ a \in DOMAIN todo.patches /\ after.patches[a] = todo.patches[a]
          \/ a \in new /\ after.patches[a] = patch(f, p) /\ Fits(prev[a], f, now, p)
    /\ \A i \in DOMAIN todo.reindex :
          i \in DOMAIN after.reindex /\ after.reindex[i] = todo.reindex[i]
    /\ \A i \in DOMAIN after.reindex :
          \/ i \in DOMAIN todo.reindex /\ after.reindex[i] = todo.reindex[i]
          \/ after.reindex[i] = [path |-> p, file |-> f]
    /\ now[p] # NoFile =>
          \/ \E i \in DOMAIN after.reindex : after.reindex[i] = [path |-> p, file |-> f]
          \/ \E a \in new : /\ a \in DOMAIN after.patches /\ after.patches[a] = patch(f, p)
                            /\ a \in after.deletes => a \in todo.deletes
    /\ new = {} => \E i \in DOMAIN after.reindex : after.reindex[i] = [path |-> p, file |-> f]

LEMMA ReindexAdds ==
    ASSUME NEW D, NEW todo \in PlanFor(D), NEW f \in File, NEW p \in Path, NEW prev, NEW now
    PROVE  Adds(prev, now, todo, Reindex(todo, f, p), {}, f, p)
<1> DEFINE after == Reindex(todo, f, p)
           x == [path |-> p, file |-> f]
           n == Len(todo.reindex) + 1
<1>1. /\ after.deletes = todo.deletes /\ after.patches = todo.patches
      /\ after.reindex = Append(todo.reindex, x)
  BY ReindexFacts
<1>2. todo.reindex \in Seq([path : Path, file : File])
  BY DEF PlanFor
<1> HIDE DEF after, x
<1>3. /\ DOMAIN after.reindex = DOMAIN todo.reindex \cup {n} /\ after.reindex[n] = x
      /\ \A i \in DOMAIN todo.reindex : after.reindex[i] = todo.reindex[i]
  <2> DEFINE s == todo.reindex
  <2> HIDE DEF s
  <2>1. s \in Seq([path : Path, file : File]) /\ after.reindex = Append(s, x)
    BY <1>1, <1>2 DEF s
  <2>2. /\ DOMAIN Append(s, x) = DOMAIN s \cup {Len(s) + 1} /\ Append(s, x)[Len(s) + 1] = x
        /\ \A i \in DOMAIN s : Append(s, x)[i] = s[i]
    BY <2>1
  <2> QED
    BY <2>1, <2>2 DEF s
<1> HIDE DEF n
<1>4. Adds(prev, now, todo, after, {}, f, p)
  BY <1>1, <1>3 DEF Adds, Touched, x
<1> QED
  BY <1>4 DEF after

LEMMA HandlesAdds ==
    ASSUME NEW D, NEW todo \in PlanFor(D), NEW f \in File, NEW p \in Path, NEW id \in D,
           NEW prev, NEW now, NEW after, Handles(prev, now, todo, id, f, p, after)
    PROVE  Adds(prev, now, todo, after, {id}, f, p) /\ after \in PlanFor(D)
<1>1. CASE after = PatchDoc(todo, id, f, p) /\ Fits(prev[id], f, now, p)
  <2>1. /\ after \in PlanFor(D)
        /\ after.deletes = todo.deletes
        /\ after.reindex = todo.reindex
        /\ DOMAIN after.patches = DOMAIN todo.patches \cup {id}
        /\ after.patches[id] = patch(f, p)
        /\ \A x \in DOMAIN todo.patches : x # id => after.patches[x] = todo.patches[x]
    BY <1>1, PatchFacts
  <2> QED
    BY <1>1, <2>1 DEF Adds, Touched
<1>2. /\ Delete(todo, id) \in PlanFor(D)
      /\ Delete(todo, id).deletes = todo.deletes \cup {id}
      /\ Delete(todo, id).patches = todo.patches
      /\ Delete(todo, id).reindex = todo.reindex
  BY DeleteFacts
<1>3. CASE after = Delete(todo, id) /\ now[p] = NoFile
  BY <1>2, <1>3 DEF Adds, Touched
<1>4. CASE after = Reindex(Delete(todo, id), f, p)
  <2>1. Adds(prev, now, Delete(todo, id), after, {}, f, p) /\ after \in PlanFor(D)
    BY <1>2, <1>4, ReindexAdds, ReindexFacts
  <2> QED
    BY <1>2, <2>1 DEF Adds, Touched
<1> QED
  BY <1>1, <1>3, <1>4 DEF Handles


-----------------------------------------------------------------------------
(* What the plan says of the files and the docs that were visited.         *)

\* Every entry of the plan is about a crawled file.
Explains(prev, seen, now, todo) ==
    /\ \A i \in DOMAIN todo.reindex : \E p \in Path :
          seen[p] # NoFile /\ todo.reindex[i] = [path |-> p, file |-> seen[p]]
    /\ \A a \in DOMAIN todo.patches : \E p \in Path :
          /\ seen[p] # NoFile
          /\ todo.patches[a] = patch(seen[p], p)
          /\ Fits(prev[a], seen[p], now, p)

\* A doc is passed over only if its file is as it was; a new file never is.
Accounts(prev, seen, acc) ==
    /\ \A q \in acc.seen : HasPath(prev, q) =>
          \/ SameStat(prev[by_path(prev, q)], seen[q])
          \/ by_path(prev, q) \in Touched(acc.plan)
    /\ \A q \in acc.consumed : by_path(prev, q) \in Touched(acc.plan)
    /\ \A q \in acc.seen : ~HasPath(prev, q) =>
          Touched(acc.plan) # {} \/ DOMAIN acc.plan.reindex # {}

\* A visit leaves the plan as it is, or adds to it: it handles the doc at the
\* path, or one that was at the path taken, or no doc.
Passes(prev, acc, f, p, after) ==
    /\ f \in File \ {NoFile} /\ after.seen = acc.seen \cup {p}
    /\ after.plan = acc.plan /\ after.consumed = acc.consumed
    /\ HasPath(prev, p) /\ SameStat(prev[by_path(prev, p)], f)

Extends(prev, now, acc, f, p, after, new, taken) ==
    /\ f \in File \ {NoFile} /\ after.seen = acc.seen \cup {p}
    /\ after.consumed = acc.consumed \cup taken
    /\ Adds(prev, now, acc.plan, after.plan, new, f, p)
    /\ \/ HasPath(prev, p) /\ new = {by_path(prev, p)} /\ taken = {}
       \/ LET old == by_inode(prev, f.inode)
          IN /\ ~HasPath(prev, p) /\ HasInode(prev, f.inode)
             /\ old \notin acc.consumed /\ taken = {old} /\ new = {by_path(prev, old)}
       \/ ~HasPath(prev, p) /\ new = {} /\ taken = {}

LEMMA VisitAdds ==
    ASSUME NEW D \in SUBSET DocId, NEW prev \in [D -> Doc], NEW f, NEW now, NEW p \in Path,
           NEW acc \in Accs(D), NEW after, VisitIs(prev, now, acc, f, p, after)
    PROVE  \/ f = NoFile /\ after = acc
           \/ Passes(prev, acc, f, p, after)
           \/ \E new, taken : Extends(prev, now, acc, f, p, after, new, taken)
<1>1. acc.plan \in PlanFor(D)
  BY DEF Accs
<1>2. CASE f = NoFile /\ after = acc
  BY <1>2
<1>3. CASE f \in File \ {NoFile} /\ after.seen = acc.seen \cup {p} /\ Known(prev, now, acc, f, p, after)
  <2>1. by_path(prev, p) \in D /\ HasPath(prev, p) /\ after.consumed = acc.consumed \cup {}
    BY <1>3, Lookups DEF Known
  <2>2. \/ after.plan = acc.plan /\ SameStat(prev[by_path(prev, p)], f)
        \/ Adds(prev, now, acc.plan, after.plan, {by_path(prev, p)}, f, p)
    BY <1>1, <1>3, <2>1, HandlesAdds DEF Known
  <2>3. Passes(prev, acc, f, p, after)
        \/ Extends(prev, now, acc, f, p, after, {by_path(prev, p)}, {})
    BY <1>3, <2>1, <2>2 DEF Passes, Extends
  <2> QED
    BY <2>3
<1>4. CASE f \in File \ {NoFile} /\ after.seen = acc.seen \cup {p} /\ Renamed(prev, now, acc, f, p, after)
  <2> DEFINE old == by_inode(prev, f.inode)
  <2>1. by_path(prev, old) \in D
    BY <1>4, Lookups DEF Renamed
  <2>2. Adds(prev, now, acc.plan, after.plan, {by_path(prev, old)}, f, p)
    BY <1>1, <1>4, <2>1, HandlesAdds DEF Renamed
  <2>3. Extends(prev, now, acc, f, p, after, {by_path(prev, old)}, {old})
    BY <1>4, <2>2 DEF Extends, Renamed
  <2> QED
    BY <2>3
<1>5. CASE f \in File \ {NoFile} /\ after.seen = acc.seen \cup {p} /\ Added(prev, acc, f, p, after)
  <2>1. Adds(prev, now, acc.plan, after.plan, {}, f, p)
    BY <1>1, <1>5, ReindexAdds DEF Added
  <2>2. Extends(prev, now, acc, f, p, after, {}, {})
    BY <1>5, <2>1 DEF Extends, Added
  <2> QED
    BY <2>2
<1> QED
  BY <1>2, <1>3, <1>4, <1>5 DEF VisitIs

LEMMA AddsExplains ==
    ASSUME NEW prev, NEW seen, NEW now, NEW todo, NEW after, NEW new, NEW p \in Path,
           seen[p] # NoFile, Explains(prev, seen, now, todo),
           Adds(prev, now, todo, after, new, seen[p], p)
    PROVE  Explains(prev, seen, now, after)
BY DEF Explains, Adds

LEMMA AddsAccounts ==
    ASSUME NEW prev, NEW seen, NEW now, NEW acc, NEW after, NEW new, NEW p,
           Accounts(prev, seen, acc),
           Adds(prev, now, acc.plan, after.plan, new, seen[p], p),
           after.seen = acc.seen \cup {p},
           \A q \in after.consumed : q \in acc.consumed \/ by_path(prev, q) \in new,
           HasPath(prev, p) => by_path(prev, p) \in new
    PROVE  Accounts(prev, seen, after)
<1>1. Touched(after.plan) = Touched(acc.plan) \cup new
  BY DEF Adds
<1>2. DOMAIN acc.plan.reindex \subseteq DOMAIN after.plan.reindex
  BY DEF Adds
<1>3. new # {} \/ DOMAIN after.plan.reindex # {}
  BY DEF Adds
<1> HIDE DEF Touched
<1> QED
  BY <1>1, <1>2, <1>3 DEF Accounts

LEMMA VisitAccounts ==
    ASSUME NEW D \in SUBSET DocId, NEW prev \in [D -> Doc], NEW seen, NEW now, NEW p \in Path,
           NEW acc \in Accs(D), NEW after, VisitIs(prev, now, acc, seen[p], p, after),
           Explains(prev, seen, now, acc.plan), Accounts(prev, seen, acc)
    PROVE  Explains(prev, seen, now, after.plan) /\ Accounts(prev, seen, after)
<1> DEFINE f == seen[p]
<1>1. CASE after = acc
  BY <1>1
<1>2. CASE Passes(prev, acc, f, p, after)
  BY <1>2 DEF Accounts, Passes
<1>3. ASSUME NEW new, NEW taken, Extends(prev, now, acc, f, p, after, new, taken)
      PROVE  Explains(prev, seen, now, after.plan) /\ Accounts(prev, seen, after)
  <2>1. /\ f # NoFile /\ after.seen = acc.seen \cup {p}
        /\ Adds(prev, now, acc.plan, after.plan, new, f, p)
        /\ \A q \in after.consumed : q \in acc.consumed \/ by_path(prev, q) \in new
        /\ HasPath(prev, p) => by_path(prev, p) \in new
    BY <1>3 DEF Extends
  <2> QED
    BY <2>1, AddsExplains, AddsAccounts
<1>4. \/ after = acc
      \/ Passes(prev, acc, f, p, after)
      \/ \E new, taken : Extends(prev, now, acc, f, p, after, new, taken)
  BY VisitAdds
<1> QED
  BY <1>1, <1>2, <1>3, <1>4


\* A property of what each visit leaves holds after the last one.
LEMMA AfterVisits ==
    ASSUME NEW D \in SUBSET DocId, NEW prev \in [D -> Doc], Once(prev),
           NEW seen \in Disk, NEW now \in Disk, NEW G \in SUBSET (Nat \X Accs(D)),
           <<0, Start>> \in G,
           \A p \in Path, acc \in Accs(D), after \in Accs(D) :
              /\ <<p - 1, acc>> \in G
              /\ VisitIs(prev, now, acc, seen[p], p, after)
              => <<p, after>> \in G
    PROVE  <<MaxPath, Visited(prev, seen, now)[MaxPath]>> \in G
<1> DEFINE upto == Visited(prev, seen, now)
           S == {n \in Nat : n \in 0 .. MaxPath => <<n, upto[n]>> \in G}
<1>1. MaxPath \in Nat /\ Path = 1 .. MaxPath
  BY ContentAssumption DEF Path
<1>2. /\ upto \in [0 .. MaxPath -> Accs(D)]
      /\ upto[0] = Start
      /\ \A p \in Path : upto[p] = Visit(prev, seen, now, upto[p - 1], p)
  BY VisitedFacts
<1> HIDE DEF upto
<1>3. 0 \in S
  BY <1>2
<1>4. ASSUME NEW n \in S PROVE n + 1 \in S
  <2> DEFINE p == n + 1
  <2> SUFFICES ASSUME p \in 0 .. MaxPath PROVE <<p, upto[p]>> \in G
    OBVIOUS
  <2>1. n \in 0 .. MaxPath /\ p \in Path /\ p - 1 = n
    BY <1>1
  <2>2. <<p - 1, upto[p - 1]>> \in G /\ upto[p - 1] \in Accs(D) /\ upto[p] \in Accs(D)
    BY <1>2, <2>1
  <2> HIDE DEF p
  <2>3. VisitIs(prev, now, upto[p - 1], seen[p], p, upto[p])
    BY <1>2, <2>1, <2>2, VisitCases
  <2> QED
    BY <2>1, <2>2, <2>3
<1>5. S \in SUBSET Nat
  OBVIOUS
<1> HIDE DEF S
<1>6. MaxPath \in S
  BY <1>1, <1>3, <1>4, <1>5, Induction
<1> QED
  BY <1>1, <1>6 DEF S, upto

SeenUpTo(seen, acc, n) == acc.seen = {q \in Path : q <= n /\ seen[q] # NoFile}

LEMMA NothingSeen ==
    ASSUME NEW seen
    PROVE  SeenUpTo(seen, Start, 0) /\ Start.consumed = {} /\ Touched(Start.plan) = {}
<1>1. Start.seen = {} /\ Start.consumed = {} /\ Start.plan = NoPlan
  BY DEF Start
<1>2. DOMAIN << >> = {}
  OBVIOUS
<1>3. \A q \in Path : ~(q <= 0)
  BY ContentAssumption DEF Path
<1> QED
  BY <1>1, <1>2, <1>3 DEF SeenUpTo, Touched, NoPlan

LEMMA SeesMore ==
    ASSUME NEW D \in SUBSET DocId, NEW prev \in [D -> Doc], NEW seen, NEW now, NEW p \in Path,
           NEW acc \in Accs(D), NEW after, VisitIs(prev, now, acc, seen[p], p, after),
           SeenUpTo(seen, acc, p - 1)
    PROVE  SeenUpTo(seen, after, p)
<1>1. p \in Nat /\ \A q \in Path : q \in Nat
  BY ContentAssumption DEF Path
<1>2. \A q \in Path : q <= p <=> q <= p - 1 \/ q = p
  BY <1>1
<1>3. \/ seen[p] = NoFile /\ after = acc
      \/ seen[p] # NoFile /\ after.seen = acc.seen \cup {p}
  BY DEF VisitIs
<1> QED
  BY <1>2, <1>3 DEF SeenUpTo

LEMMA VisitedAccounts ==
    ASSUME NEW D \in SUBSET DocId, NEW prev \in [D -> Doc], Once(prev),
           NEW seen \in Disk, NEW now \in Disk
    PROVE  LET acc == Visited(prev, seen, now)[MaxPath]
           IN /\ acc \in Accs(D)
              /\ acc.seen = {q \in Path : seen[q] # NoFile}
              /\ Explains(prev, seen, now, acc.plan) /\ Accounts(prev, seen, acc)
<1> DEFINE last == Visited(prev, seen, now)[MaxPath]
           Fine(n, acc) == /\ SeenUpTo(seen, acc, n)
                           /\ Explains(prev, seen, now, acc.plan) /\ Accounts(prev, seen, acc)
           G == {pair \in Nat \X Accs(D) : Fine(pair[1], pair[2])}
<1>1. MaxPath \in Nat /\ Path = 1 .. MaxPath
  BY ContentAssumption DEF Path
<1>2. Start \in Accs(D)
  BY <1>1, NoPlanFacts DEF Start, Accs
<1>3. DOMAIN NoPlan.reindex = {} /\ DOMAIN NoPlan.patches = {}
  BY DEF NoPlan
<1>4. Fine(0, Start)
  BY <1>3, NothingSeen DEF Explains, Accounts, Start
<1>5. ASSUME NEW p \in Path, NEW acc \in Accs(D), NEW after \in Accs(D),
             Fine(p - 1, acc), VisitIs(prev, now, acc, seen[p], p, after)
      PROVE  Fine(p, after)
  BY <1>5, SeesMore, VisitAccounts
<1> HIDE DEF Fine
<1>6. <<MaxPath, last>> \in G
  <2>1. <<0, Start>> \in G
    BY <1>2, <1>4
  <2>2. \A p \in Path, acc \in Accs(D), after \in Accs(D) :
           /\ <<p - 1, acc>> \in G
           /\ VisitIs(prev, now, acc, seen[p], p, after)
           => <<p, after>> \in G
    <3>1. \A p \in Path : p \in Nat
      BY <1>1
    <3> QED
      BY <1>5, <3>1
  <2>3. G \in SUBSET (Nat \X Accs(D))
    OBVIOUS
  <2> HIDE DEF G
  <2> QED
    BY <2>1, <2>2, <2>3, AfterVisits
<1>7. last \in Accs(D) /\ Fine(MaxPath, last)
  BY <1>6
<1>8. \A q \in Path : q <= MaxPath
  BY <1>1
<1> QED
  BY <1>7, <1>8 DEF Fine, SeenUpTo

\* A reconcile patches and reindexes for crawled files, leaves a doc alone only
\* if its file is as recorded, and plans something if there is a new file.
LEMMA ReconcilePlans ==
    ASSUME NEW D \in SUBSET DocId, NEW prev \in [D -> Doc], Once(prev),
           NEW seen \in Disk, NEW now \in Disk
    PROVE  LET todo == reconcile(prev, seen, now)
           IN /\ Explains(prev, seen, now, todo)
              /\ \A id \in D : id \notin Touched(todo) =>
                    seen[prev[id].path] # NoFile /\ SameStat(prev[id], seen[prev[id].path])
              /\ is_empty(todo) => \A p \in Path : seen[p] # NoFile => HasPath(prev, p)
<1> DEFINE acc == Visited(prev, seen, now)[MaxPath]
           todo == reconcile(prev, seen, now)
<1>1. /\ acc \in Accs(D)
      /\ acc.seen = {q \in Path : seen[q] # NoFile}
      /\ Explains(prev, seen, now, acc.plan) /\ Accounts(prev, seen, acc)
  BY VisitedAccounts
<1>2. todo = [acc.plan EXCEPT !.deletes = @ \cup Gone(prev, acc)]
  BY DEF reconcile
<1> HIDE DEF acc, todo
<1>3. /\ todo.patches = acc.plan.patches /\ todo.reindex = acc.plan.reindex
      /\ todo.deletes = acc.plan.deletes \cup Gone(prev, acc)
  BY <1>1, <1>2 DEF Accs, PlanFor
<1>4. Touched(todo) = Touched(acc.plan) \cup Gone(prev, acc)
  BY <1>3 DEF Touched
<1>5. Explains(prev, seen, now, todo)
  BY <1>1, <1>3 DEF Explains
<1>6. ASSUME NEW id \in D, id \notin Touched(todo)
      PROVE  seen[prev[id].path] # NoFile /\ SameStat(prev[id], seen[prev[id].path])
  <2> DEFINE q == prev[id].path
  <2>1. q \in Path /\ HasPath(prev, q)
    BY DEF Doc, HasPath
  <2>2. by_path(prev, q) = id
    BY <2>1, Lookups DEF Once
  <2> HIDE DEF q
  <2>3. q \in acc.seen \cup acc.consumed
    BY <1>4, <1>6, <2>1, <2>2 DEF Gone
  <2>4. id \notin Touched(acc.plan)
    BY <1>4, <1>6
  <2>5. q \in acc.seen
    BY <1>1, <2>2, <2>3, <2>4 DEF Accounts
  <2>6. SameStat(prev[id], seen[q])
    BY <1>1, <2>1, <2>2, <2>4, <2>5 DEF Accounts
  <2> QED
    BY <1>1, <2>5, <2>6 DEF q
<1>7. ASSUME is_empty(todo), NEW p \in Path, seen[p] # NoFile PROVE HasPath(prev, p)
  <2>1. DOMAIN << >> = {}
    OBVIOUS
  <2>2. Touched(acc.plan) = {} /\ DOMAIN acc.plan.reindex = {}
    BY <1>3, <1>7, <2>1 DEF is_empty, Touched
  <2>3. p \in acc.seen
    BY <1>1, <1>7
  <2> QED
    BY <1>1, <2>2, <2>3 DEF Accounts
<1> QED
  BY <1>5, <1>6, <1>7 DEF todo


-----------------------------------------------------------------------------
(* What the plan leaves of every file, if no rename is ambiguous.          *)

\* The plan provides a doc for the file f at q: a new one, one that is patched,
\* or one that is left alone.
Serves(prev, todo, f, q) ==
    \/ \E i \in DOMAIN todo.reindex : todo.reindex[i] = [path |-> q, file |-> f]
    \/ \E a \in DOMAIN todo.patches \ todo.deletes : todo.patches[a] = patch(f, q)
    \/ /\ HasPath(prev, q) /\ by_path(prev, q) \notin Touched(todo)
       /\ SameStat(prev[by_path(prev, q)], f)

\* Unambiguous, of any docs and any crawl.
Distinct(prev, seen) ==
    \A p \in Path :
        /\ seen[p] # NoFile
        /\ ~HasPath(prev, p)
        /\ HasInode(prev, seen[p].inode)
        => seen[by_inode(prev, seen[p].inode)] = NoFile

\* Each doc is handled once: under its path, or as the source of one rename.
Settles(prev, seen, acc) ==
    /\ \A q \in acc.consumed : seen[q] = NoFile
    /\ \A id \in Touched(acc.plan) : prev[id].path \in acc.seen \cup acc.consumed
    /\ \A q \in acc.seen : Serves(prev, acc.plan, seen[q], q)

LEMMA ServesStays ==
    ASSUME NEW D \in SUBSET DocId, NEW prev \in [D -> Doc], NEW now, NEW todo, NEW after,
           NEW new, NEW f, NEW p, NEW g, NEW q,
           Adds(prev, now, todo, after, new, f, p),
           new \cap Touched(todo) = {}, \A a \in new : prev[a].path # q,
           Serves(prev, todo, g, q)
    PROVE  Serves(prev, after, g, q)
<1>1. CASE \E i \in DOMAIN todo.reindex : todo.reindex[i] = [path |-> q, file |-> g]
  BY <1>1 DEF Adds, Serves
<1>2. ASSUME NEW a \in DOMAIN todo.patches \ todo.deletes, todo.patches[a] = patch(g, q)
      PROVE  Serves(prev, after, g, q)
  <2>1. a \notin new
    BY DEF Touched
  <2>2. a \in DOMAIN after.patches \ after.deletes /\ after.patches[a] = todo.patches[a]
    BY <2>1 DEF Adds
  <2> QED
    BY <1>2, <2>2 DEF Serves
<1>3. CASE /\ HasPath(prev, q) /\ by_path(prev, q) \notin Touched(todo)
           /\ SameStat(prev[by_path(prev, q)], g)
  <2>1. by_path(prev, q) \notin new
    BY <1>3, Lookups
  <2>2. Touched(after) = Touched(todo) \cup new
    BY DEF Adds
  <2> QED
    BY <1>3, <2>1, <2>2 DEF Serves
<1> QED
  BY <1>1, <1>2, <1>3 DEF Serves

\* The entry for the file that is visited serves it.
LEMMA ServesNow ==
    ASSUME NEW prev, NEW now, NEW todo, NEW after, NEW new, NEW f, NEW p,
           Adds(prev, now, todo, after, new, f, p),
           new \cap Touched(todo) = {}, now[p] # NoFile
    PROVE  Serves(prev, after, f, p)
<1>1. CASE \E i \in DOMAIN after.reindex : after.reindex[i] = [path |-> p, file |-> f]
  BY <1>1 DEF Serves
<1>2. ASSUME NEW a \in new, a \in DOMAIN after.patches, after.patches[a] = patch(f, p),
             a \in after.deletes => a \in todo.deletes
      PROVE  Serves(prev, after, f, p)
  <2>1. a \notin after.deletes
    BY <1>2 DEF Touched
  <2> QED
    BY <1>2, <2>1 DEF Serves
<1> QED
  BY <1>1, <1>2 DEF Adds

LEMMA VisitSettles ==
    ASSUME NEW D \in SUBSET DocId, NEW prev \in [D -> Doc], NEW seen, NEW p \in Path,
           Distinct(prev, seen), NEW acc \in Accs(D), NEW after,
           VisitIs(prev, seen, acc, seen[p], p, after),
           acc.seen \subseteq {q \in Path : seen[q] # NoFile}, p \notin acc.seen,
           Settles(prev, seen, acc)
    PROVE  Settles(prev, seen, after)
<1> DEFINE f == seen[p]
<1>1. CASE after = acc
  BY <1>1
<1>2. CASE Passes(prev, acc, f, p, after)
  <2>1. p \notin acc.consumed
    BY <1>2 DEF Passes, Settles
  <2>2. by_path(prev, p) \notin Touched(acc.plan)
    BY <1>2, <2>1, Lookups DEF Passes, Settles
  <2>3. Serves(prev, acc.plan, f, p)
    BY <1>2, <2>2 DEF Passes, Serves
  <2> QED
    BY <1>2, <2>3 DEF Passes, Settles
<1>3. ASSUME NEW new, NEW taken, Extends(prev, seen, acc, f, p, after, new, taken)
      PROVE  Settles(prev, seen, after)
  <2>1. /\ f # NoFile /\ after.seen = acc.seen \cup {p} /\ after.consumed = acc.consumed \cup taken
        /\ Adds(prev, seen, acc.plan, after.plan, new, f, p)
    BY <1>3 DEF Extends
  <2>2. /\ \A q \in taken : seen[q] = NoFile
        /\ \A a \in new : /\ prev[a].path \in {p} \cup taken
                          /\ prev[a].path \notin acc.seen \cup acc.consumed
    <3>1. CASE HasPath(prev, p) /\ new = {by_path(prev, p)} /\ taken = {}
      <4>1. p \notin acc.consumed
        BY <2>1 DEF Settles
      <4> QED
        BY <3>1, <4>1, Lookups
    <3>2. CASE LET old == by_inode(prev, f.inode)
               IN /\ ~HasPath(prev, p) /\ HasInode(prev, f.inode)
                  /\ old \notin acc.consumed /\ taken = {old} /\ new = {by_path(prev, old)}
      <4> DEFINE old == by_inode(prev, f.inode)
      <4>1. seen[old] = NoFile
        BY <2>1, <3>2 DEF Distinct
      <4>2. HasPath(prev, old) /\ prev[by_path(prev, old)].path = old
        BY <3>2, Lookups
      <4>3. old \notin acc.seen
        BY <4>1
      <4> HIDE DEF old
      <4> QED
        BY <3>2, <4>1, <4>2, <4>3 DEF old
    <3>3. CASE new = {} /\ taken = {}
      BY <3>3
    <3> QED
      BY <1>3, <3>1, <3>2, <3>3 DEF Extends
  <2>3. new \cap Touched(acc.plan) = {}
    BY <2>2 DEF Settles
  <2>4. Touched(after.plan) = Touched(acc.plan) \cup new
    BY <2>1 DEF Adds
  <2>5. Serves(prev, after.plan, f, p)
    BY <2>1, <2>3, ServesNow
  <2>6. ASSUME NEW q \in acc.seen PROVE Serves(prev, after.plan, seen[q], q)
    <3>1. \A a \in new : prev[a].path # q
      BY <2>2
    <3>2. Serves(prev, acc.plan, seen[q], q)
      BY DEF Settles
    <3> QED
      BY <2>1, <2>3, <3>1, <3>2, ServesStays
  <2> HIDE DEF Touched
  <2> QED
    BY <2>1, <2>2, <2>4, <2>5, <2>6 DEF Settles
<1> QED
  BY <1>1, <1>2, <1>3, VisitAdds


\* If no rename is ambiguous and the files are read as they were crawled, the
\* plan provides a doc for every file.
LEMMA ReconcileServes ==
    ASSUME NEW D \in SUBSET DocId, NEW prev \in [D -> Doc], Once(prev),
           NEW seen \in Disk, Distinct(prev, seen)
    PROVE  \A q \in Path : seen[q] # NoFile => Serves(prev, reconcile(prev, seen, seen), seen[q], q)
<1> DEFINE last == Visited(prev, seen, seen)[MaxPath]
           todo == reconcile(prev, seen, seen)
           Fine(n, acc) == SeenUpTo(seen, acc, n) /\ Settles(prev, seen, acc)
           G == {pair \in Nat \X Accs(D) : Fine(pair[1], pair[2])}
<1>1. MaxPath \in Nat /\ Path = 1 .. MaxPath
  BY ContentAssumption DEF Path
<1>2. Start \in Accs(D)
  BY <1>1, NoPlanFacts DEF Start, Accs
<1>3. Fine(0, Start)
  BY NothingSeen DEF Settles, Start
<1>4. ASSUME NEW p \in Path, NEW acc \in Accs(D), NEW after \in Accs(D),
             Fine(p - 1, acc), VisitIs(prev, seen, acc, seen[p], p, after)
      PROVE  Fine(p, after)
  <2>1. SeenUpTo(seen, after, p)
    BY <1>4, SeesMore
  <2>2. ~(p <= p - 1)
    BY <1>1
  <2>3. acc.seen \subseteq {q \in Path : seen[q] # NoFile} /\ p \notin acc.seen
    BY <1>4, <2>2 DEF SeenUpTo
  <2> QED
    BY <1>4, <2>1, <2>3, VisitSettles
<1> HIDE DEF Fine
<1>5. <<MaxPath, last>> \in G
  <2>1. <<0, Start>> \in G
    BY <1>2, <1>3
  <2>2. \A p \in Path, acc \in Accs(D), after \in Accs(D) :
           /\ <<p - 1, acc>> \in G
           /\ VisitIs(prev, seen, acc, seen[p], p, after)
           => <<p, after>> \in G
    <3>1. \A p \in Path : p \in Nat
      BY <1>1
    <3> QED
      BY <1>4, <3>1
  <2>3. G \in SUBSET (Nat \X Accs(D))
    OBVIOUS
  <2> HIDE DEF G
  <2> QED
    BY <2>1, <2>2, <2>3, AfterVisits
<1>6. last \in Accs(D) /\ Fine(MaxPath, last)
  BY <1>5
<1>7. todo = [last.plan EXCEPT !.deletes = @ \cup Gone(prev, last)]
  BY DEF reconcile
<1> HIDE DEF last, todo
<1>8. /\ todo.patches = last.plan.patches /\ todo.reindex = last.plan.reindex
      /\ todo.deletes = last.plan.deletes \cup Gone(prev, last)
  BY <1>6, <1>7 DEF Accs, PlanFor
<1>9. ASSUME NEW q \in Path, seen[q] # NoFile PROVE Serves(prev, todo, seen[q], q)
  <2>1. q \in last.seen /\ Settles(prev, seen, last)
    BY <1>1, <1>6, <1>9 DEF Fine, SeenUpTo
  <2>2. Serves(prev, last.plan, seen[q], q)
    BY <2>1 DEF Settles
  <2>3. \A id \in Gone(prev, last) : prev[id].path \notin last.seen \cup last.consumed
    BY Lookups DEF Gone
  <2>4. CASE \E i \in DOMAIN last.plan.reindex : last.plan.reindex[i] = [path |-> q, file |-> seen[q]]
    BY <1>8, <2>4 DEF Serves
  <2>5. ASSUME NEW a \in DOMAIN last.plan.patches \ last.plan.deletes,
               last.plan.patches[a] = patch(seen[q], q)
        PROVE  Serves(prev, todo, seen[q], q)
    <3>1. a \notin Gone(prev, last)
      BY <2>1, <2>3 DEF Settles, Touched
    <3> QED
      BY <1>8, <2>5, <3>1 DEF Serves
  <2>6. CASE /\ HasPath(prev, q) /\ by_path(prev, q) \notin Touched(last.plan)
             /\ SameStat(prev[by_path(prev, q)], seen[q])
    <3>1. by_path(prev, q) \notin Gone(prev, last)
      BY <2>1, <2>3, <2>6, Lookups
    <3> QED
      BY <1>8, <2>6, <3>1 DEF Serves, Touched
  <2> QED
    BY <2>2, <2>4, <2>5, <2>6 DEF Serves
<1> QED
  BY <1>9 DEF todo


-----------------------------------------------------------------------------
(* Records, and the stat of a file.                                        *)

\* The record d is right about what is in the file f, or says that it could not
\* be read, as the files with their stats in lost could not.
Tells(d, f, lost) ==
    /\ d.was_read = (f.content \in Text)
    /\ d.was_read => \/ d.content = f.content
                     \/ d.content = Unread /\ <<f.inode, f.mtime>> \in lost

\* d is right about every file that has its stat, and about those to come.
Coherent(files, time, lost, d) ==
    /\ d.mtime <= time
    /\ \A q \in Path : files[q] # NoFile /\ SameStat(d, files[q]) => Tells(d, files[q], lost)

LEMMA StaysCoherent ==
    ASSUME NEW files, NEW time \in Nat, NEW later \in Nat, time <= later,
           NEW lost, NEW more, lost \subseteq more,
           NEW d \in Doc, Coherent(files, time, lost, d)
    PROVE  Coherent(files, later, more, d)
<1>1. d.mtime \in Nat /\ d.mtime <= time
  BY ContentAssumption DEF Doc, Coherent
<1>2. d.mtime <= later
  BY <1>1
<1> QED
  BY <1>2 DEF Coherent, Tells

\* No file is from the future, and the stat of a file tells what is in it.
Past(files, time) == \A p \in Path : files[p] # NoFile => files[p].mtime <= time
Alike(some, others) ==
    \A p, q \in Path :
        some[p] # NoFile /\ others[q] # NoFile /\ SameStat(some[p], others[q])
        => some[p].content = others[q].content

\* What a user may do: files stay, under any names, or are written just now.
Rewrites(old, new, time) ==
    \E c : \A q \in Path : new[q] # NoFile =>
        \/ \E r \in Path : old[r] # NoFile /\ new[q] = old[r]
        \/ new[q].mtime = time + 1 /\ new[q].content = c

LEMMA RewritesTell ==
    ASSUME NEW old \in Disk, NEW new \in Disk, NEW time \in Nat, Rewrites(old, new, time),
           Past(old, time), Alike(old, old)
    PROVE  /\ Past(new, time + 1) /\ Alike(new, new)
           /\ \A some \in Disk : Past(some, time) /\ Alike(some, old) =>
                 Past(some, time + 1) /\ Alike(some, new)
           /\ \A lost : \A d \in Doc : Coherent(old, time, lost, d) => Coherent(new, time + 1, lost, d)
<1>1. PICK c : \A q \in Path : new[q] # NoFile =>
                  \/ \E r \in Path : old[r] # NoFile /\ new[q] = old[r]
                  \/ new[q].mtime = time + 1 /\ new[q].content = c
  BY DEF Rewrites
<1>2. \A files \in Disk, q \in Path : files[q] # NoFile => files[q].mtime \in Nat
  BY ContentAssumption DEF Disk, File
<1>3. \A n \in Nat : n <= time => n <= time + 1 /\ n # time + 1
  OBVIOUS
<1>4. Past(new, time + 1)
  BY <1>1, <1>2, <1>3 DEF Past
<1>5. Alike(new, new)
  <2> SUFFICES ASSUME NEW p \in Path, NEW q \in Path, new[p] # NoFile, new[q] # NoFile,
                      SameStat(new[p], new[q])
               PROVE  new[p].content = new[q].content
    BY DEF Alike
  <2>1. new[p].mtime = new[q].mtime
    BY DEF SameStat
  <2>2. CASE new[p].mtime = time + 1
    <3>1. \A r \in Path : old[r] # NoFile => old[r].mtime # time + 1
      BY <1>2, <1>3 DEF Past
    <3> QED
      BY <1>1, <2>1, <2>2, <3>1
  <2>3. CASE new[p].mtime # time + 1
    BY <1>1, <2>1, <2>3 DEF Alike
  <2> QED
    BY <2>2, <2>3
<1>6. ASSUME NEW some \in Disk, Past(some, time), Alike(some, old)
      PROVE  Past(some, time + 1) /\ Alike(some, new)
  <2>1. \A p \in Path : some[p] # NoFile => some[p].mtime <= time + 1 /\ some[p].mtime # time + 1
    BY <1>2, <1>3, <1>6 DEF Past
  <2>2. Alike(some, new)
    BY <1>1, <1>6, <2>1 DEF Alike, SameStat
  <2> QED
    BY <2>1, <2>2 DEF Past
<1>7. ASSUME NEW lost, NEW d \in Doc, Coherent(old, time, lost, d)
      PROVE  Coherent(new, time + 1, lost, d)
  <2>1. d.mtime \in Nat
    BY ContentAssumption DEF Doc
  <2>2. d.mtime <= time + 1 /\ d.mtime # time + 1
    BY <1>3, <1>7, <2>1 DEF Coherent
  <2>3. ASSUME NEW q \in Path, new[q] # NoFile, SameStat(d, new[q]) PROVE Tells(d, new[q], lost)
    <3>1. PICK r \in Path : old[r] # NoFile /\ new[q] = old[r]
      BY <1>1, <2>2, <2>3 DEF SameStat
    <3> QED
      BY <1>7, <2>3, <3>1 DEF Coherent
  <2> QED
    BY <2>2, <2>3 DEF Coherent
<1> QED
  BY <1>4, <1>5, <1>6, <1>7

\* A patch is made for a doc that has the stat of the file, or its bytes.
LEMMA PatchTells ==
    ASSUME TypeOK, Past(crawled, clock), Alike(crawled, disk), Alike(disk, disk),
           NEW lost, NEW prior \in Doc, Coherent(disk, clock, lost, prior),
           NEW read, Reads(read), NEW p \in Path, crawled[p] # NoFile,
           Fits(prior, crawled[p], read, p), ~ReadAnother(p, read)
    PROVE  Coherent(disk, clock, lost, Patched(prior, patch(crawled[p], p)))
<1> DEFINE f == crawled[p]
           d == Patched(prior, patch(f, p))
<1>1. f \in File
  BY DEF TypeOK, Disk
<1>2. /\ d.inode = f.inode /\ d.mtime = f.mtime
      /\ d.was_read = prior.was_read /\ d.content = prior.content
  BY DEF Patched, patch, Doc
<1> HIDE DEF d
<1>3. d.mtime <= clock
  BY <1>2 DEF Past
<1>4. ASSUME NEW q \in Path, disk[q] # NoFile, SameStat(d, disk[q]) PROVE Tells(d, disk[q], lost)
  <2>1. SameStat(f, disk[q])
    BY <1>2, <1>4 DEF SameStat
  <2>2. f.content = disk[q].content
    BY <1>4, <2>1 DEF Alike
  <2>3. CASE SameStat(prior, f)
    <3>1. SameStat(prior, disk[q])
      BY <2>1, <2>3 DEF SameStat
    <3> QED
      BY <1>2, <1>4, <3>1 DEF Coherent, Tells
  <2>4. CASE /\ f.content \in Text /\ prior.was_read /\ read[p] # NoFile
             /\ read[p].content = prior.content
    <3>1. SameStat(read[p], f)
      BY <1>4, <2>1, <2>4 DEF ReadAnother, SameStat
    <3>2. read[p] = disk[p]
      BY <2>4 DEF Reads
    <3>3. disk[p].content = f.content
      BY <2>4, <3>1, <3>2 DEF Alike, SameStat
    <3> QED
      BY <1>2, <2>2, <2>4, <3>2, <3>3 DEF Tells
  <2> QED
    BY <2>3, <2>4 DEF Fits
<1> QED
  BY <1>3, <1>4 DEF Coherent, d

\* So is a doc that is made from the file's metadata and bytes, or without them
\* when they cannot be read.
LEMMA NewDocTells ==
    ASSUME TypeOK, Past(crawled, clock), Alike(crawled, disk), Alike(disk, disk),
           NEW read, Reads(read), NEW p \in Path, crawled[p] # NoFile, ~ReadAnother(p, read),
           NEW lost, crawled[p].content \in Text /\ read[p] = NoFile
                        => <<crawled[p].inode, crawled[p].mtime>> \in lost
    PROVE  Coherent(disk, clock, lost, NewDoc(crawled[p], p, read))
<1> DEFINE f == crawled[p]
           d == NewDoc(f, p, read)
<1>1. /\ d.inode = f.inode /\ d.mtime = f.mtime /\ d.was_read = (f.content \in Text)
      /\ f.content \in Text /\ read[p] # NoFile => d.content = read[p].content
      /\ read[p] = NoFile => d.content = Unread
  BY DEF NewDoc
<1> HIDE DEF d
<1>2. d.mtime <= clock
  BY <1>1 DEF Past
<1>3. ASSUME NEW q \in Path, disk[q] # NoFile, SameStat(d, disk[q]) PROVE Tells(d, disk[q], lost)
  <2>1. SameStat(f, disk[q])
    BY <1>1, <1>3 DEF SameStat
  <2>2. f.content = disk[q].content
    BY <1>3, <2>1 DEF Alike
  <2>3. CASE read[p] = NoFile
    BY <1>1, <2>1, <2>2, <2>3 DEF Tells, SameStat
  <2>4. CASE read[p] # NoFile
    <3>1. SameStat(read[p], f)
      BY <1>3, <2>1, <2>4 DEF ReadAnother, SameStat
    <3>2. read[p] = disk[p]
      BY <2>4 DEF Reads
    <3>3. disk[p].content = f.content
      BY <2>4, <3>1, <3>2 DEF Alike, SameStat
    <3> QED
      BY <1>1, <2>2, <2>4, <3>2, <3>3 DEF Tells
  <2> QED
    BY <2>3, <2>4
<1> QED
  BY <1>2, <1>3 DEF Coherent, d

-----------------------------------------------------------------------------
(* The inductive invariant.                                                *)

StatsTell == Past(disk, clock) /\ Past(crawled, clock) /\ Alike(disk, disk) /\ Alike(crawled, disk)

\* Whatever happened to the disk since, a record tells what is in the file
\* that still has its stat: else a reconcile would pass over a wrong record.
RecordsTell == Untainted => \A id \in LiveIds : Coherent(disk, clock, failed, View[id])

\* The records that a decided plan will make tell it as well.
PlanTells ==
    pc = "update" =>
        /\ Untainted => \A i \in DOMAIN plan.reindex : \E p \in Path :
              crawled[p] # NoFile /\ plan.reindex[i] = [path |-> p, file |-> crawled[p]]
        /\ Untainted => \A a \in DOMAIN plan.patches :
              Coherent(disk, clock, failed, Patched(View[a], plan.patches[a]))
        /\ undisturbed => plan = reconcile(View, disk, disk)

CrawlIsCurrent == pc # "idle" /\ undisturbed => crawled = disk

\* Each doc has the stat of the file at its path.
Current(view, files) ==
    \A id \in DOMAIN view : files[view[id].path] # NoFile /\ SameStat(view[id], files[view[id].path])

\* One undisturbed update leaves no outdated record, though it may leave a file
\* without one.
CalmIsCurrent == calm >= 1 /\ Untainted => Current(View, disk)

Converges == /\ IInv /\ StatsTell /\ RecordsTell /\ PlanTells /\ CrawlIsCurrent
             /\ CalmIsCurrent /\ SettledIsAccurate /\ TwoUpdatesSuffice

\* Accurate, of any docs and files.
Shows(view, files, lost) ==
    /\ Once(view)
    /\ \A id \in DOMAIN view : files[view[id].path] # NoFile
    /\ \A p \in Path : files[p] # NoFile =>
          \E id \in DOMAIN view : /\ view[id].path = p
                                  /\ SameStat(view[id], files[p]) /\ Tells(view[id], files[p], lost)

LEMMA AccurateShows == Accurate <=> Shows(View, disk, failed)
BY DEF Accurate, Shows, Once, Describes, Tells

LEMMA ViewOnce ==
    ASSUME IInv
    PROVE  /\ LiveIds \in SUBSET DocId /\ View \in [LiveIds -> Doc]
           /\ crawled \in Disk /\ disk \in Disk
           /\ ~patch_lost => Once(View)
  BY DecodableRow, ViewFacts DEF IInv, TypeOK, OneDocPerPath

-----------------------------------------------------------------------------
(* Users, and steps that leave the index and the disk alone.               *)

\* Files are moved, or come with this change's time and bytes.
LEMMA UserRewrites ==
    ASSUME TypeOK, User
    PROVE  /\ Rewrites(disk, disk', clock) /\ clock' = clock + 1
           /\ UNCHANGED <<index, update, merge, patch_lost, misread, failed>>
           /\ calm' = 0 /\ settled' = FALSE /\ undisturbed' = FALSE
<1>1. /\ DOMAIN disk = Path
      /\ \A p \in Path : disk[p] # NoFile => disk[p] \in File
  BY DEF TypeOK, Disk
<1>2. ASSUME NEW new, Change(new)
      PROVE  /\ disk' = new /\ clock' = clock + 1
             /\ UNCHANGED <<index, update, merge, patch_lost, misread, failed>>
             /\ calm' = 0 /\ settled' = FALSE /\ undisturbed' = FALSE
  BY <1>2 DEF Change
<1>3. ASSUME NEW p \in Path, Create(p)
      PROVE  \E new : Change(new) /\ Rewrites(disk, new, clock)
  <2>1. PICK i \in Inode \ Used, c \in Text \cup Binary :
           Change([disk EXCEPT ![p] = [inode |-> i, mtime |-> clock + 1, content |-> c]])
    BY <1>3 DEF Create
  <2>2. Rewrites(disk, [disk EXCEPT ![p] = [inode |-> i, mtime |-> clock + 1, content |-> c]], clock)
    BY <1>1 DEF Rewrites
  <2> QED
    BY <2>1, <2>2
<1>4. ASSUME NEW p \in Path, Modify(p)
      PROVE  \E new : Change(new) /\ Rewrites(disk, new, clock)
  <2>1. PICK c \in Text \cup Binary :
           Change([q \in Path |-> IF disk[q] # NoFile /\ disk[q].inode = disk[p].inode
                                  THEN [disk[q] EXCEPT !.mtime = clock + 1, !.content = c]
                                  ELSE disk[q]])
    BY <1>4 DEF Modify
  <2> DEFINE new == [q \in Path |-> IF disk[q] # NoFile /\ disk[q].inode = disk[p].inode
                                    THEN [disk[q] EXCEPT !.mtime = clock + 1, !.content = c]
                                    ELSE disk[q]]
  <2>2. ASSUME NEW q \in Path, new[q] # NoFile
        PROVE  \/ \E r \in Path : disk[r] # NoFile /\ new[q] = disk[r]
               \/ new[q].mtime = clock + 1 /\ new[q].content = c
    <3>1. CASE disk[q] # NoFile /\ disk[q].inode = disk[p].inode
      <4>1. new[q] = [disk[q] EXCEPT !.mtime = clock + 1, !.content = c] /\ disk[q] \in File
        BY <1>1, <3>1
      <4> HIDE DEF new
      <4> QED
        BY <4>1 DEF File
    <3>2. CASE ~(disk[q] # NoFile /\ disk[q].inode = disk[p].inode)
      BY <2>2, <3>2
    <3> QED
      BY <3>1, <3>2
  <2>3. Rewrites(disk, new, clock)
    BY <2>2 DEF Rewrites
  <2> QED
    BY <2>1, <2>3
<1>5. ASSUME NEW p \in Path, Erase(p)
      PROVE  \E new : Change(new) /\ Rewrites(disk, new, clock)
  <2>1. Rewrites(disk, [disk EXCEPT ![p] = NoFile], clock)
    BY <1>1 DEF Rewrites
  <2> QED
    BY <1>5, <2>1 DEF Erase
<1>6. ASSUME NEW p \in Path, NEW q \in Path, Rename(p, q)
      PROVE  \E new : Change(new) /\ Rewrites(disk, new, clock)
  <2>1. Rewrites(disk, [disk EXCEPT ![p] = NoFile, ![q] = disk[p]], clock)
    BY <1>1 DEF Rewrites
  <2> QED
    BY <1>6, <2>1 DEF Rename
<1>7. ASSUME NEW p \in Path, NEW q \in Path, Link(p, q)
      PROVE  \E new : Change(new) /\ Rewrites(disk, new, clock)
  <2>1. Rewrites(disk, [disk EXCEPT ![q] = disk[p]], clock)
    BY <1>1 DEF Rewrites
  <2> QED
    BY <1>7, <2>1 DEF Link
<1>8. PICK new : Change(new) /\ Rewrites(disk, new, clock)
  BY <1>3, <1>4, <1>5, <1>6, <1>7 DEF User
<1> QED
  BY <1>2, <1>8


LEMMA PatchesTyped ==
    ASSUME IInv, pc = "update"
    PROVE  \A a \in DOMAIN plan.patches :
              a \in LiveIds /\ Patched(View[a], plan.patches[a]) \in Doc
<1> SUFFICES ASSUME NEW a \in DOMAIN plan.patches
             PROVE  a \in LiveIds /\ Patched(View[a], plan.patches[a]) \in Doc
  OBVIOUS
<1>1. a \in LiveIds
  BY DEF IInv, PlanFits
<1>2. View[a] \in Doc
  BY <1>1, ViewOnce
<1>3. plan.patches[a] \in Patch
  BY DEF IInv, TypeOK, Plan
<1> QED
  BY <1>1, <1>2, <1>3 DEF Patched, Patch, Doc

LEMMA UserConverges ==
    ASSUME Converges, User
    PROVE  Converges'
<1>1. /\ IInv /\ StatsTell /\ RecordsTell /\ PlanTells
      /\ TypeOK /\ clock \in Nat /\ disk \in Disk /\ crawled \in Disk
  BY DEF Converges, IInv, TypeOK
<1>2. /\ Rewrites(disk, disk', clock) /\ clock' = clock + 1
      /\ UNCHANGED <<index, crawled, plan, pc, patch_lost, misread, failed>>
      /\ calm' = 0 /\ settled' = FALSE /\ undisturbed' = FALSE
  BY <1>1, UserRewrites DEF update
<1>3. IInv' /\ disk' \in Disk
  BY <1>1, UserIInv DEF IInv, TypeOK
<1>4. LiveIds' = LiveIds /\ View' = View
  BY <1>1, <1>2, IndexUnmoved
<1>5. /\ Past(disk', clock + 1) /\ Alike(disk', disk')
      /\ Past(crawled, clock + 1) /\ Alike(crawled, disk')
      /\ \A d \in Doc : Coherent(disk, clock, failed, d) => Coherent(disk', clock + 1, failed, d)
  BY <1>1, <1>2, <1>3, RewritesTell DEF StatsTell
<1>6. StatsTell'
  BY <1>2, <1>5 DEF StatsTell
<1>7. RecordsTell'
  <2>1. \A id \in LiveIds : View[id] \in Doc
    BY <1>1, ViewOnce
  <2> QED
    BY <1>1, <1>2, <1>4, <1>5, <2>1 DEF RecordsTell, Untainted
<1>8. PlanTells'
  <2> SUFFICES ASSUME pc = "update"
               PROVE  Untainted => \A a \in DOMAIN plan.patches :
                          Coherent(disk', clock + 1, failed, Patched(View[a], plan.patches[a]))
    BY <1>1, <1>2, <1>4 DEF PlanTells, Untainted
  <2> QED
    BY <1>1, <1>5, PatchesTyped DEF PlanTells
<1>9. CrawlIsCurrent' /\ CalmIsCurrent' /\ SettledIsAccurate' /\ TwoUpdatesSuffice'
  BY <1>2 DEF CrawlIsCurrent, CalmIsCurrent, SettledIsAccurate, TwoUpdatesSuffice
<1> QED
  BY <1>3, <1>6, <1>7, <1>8, <1>9 DEF Converges

\* Nothing that is said of the index or the disk changes, though time may pass.
LEMMA StillConverges ==
    ASSUME Converges, IInv', UNCHANGED <<disk, index, patch_lost, misread, failed>>,
           UNCHANGED <<calm, settled>>, clock <= clock'
    PROVE  /\ View' = View /\ LiveIds' = LiveIds /\ Untainted' = Untainted
           /\ RecordsTell' /\ CalmIsCurrent' /\ SettledIsAccurate' /\ TwoUpdatesSuffice'
           /\ Past(disk, clock') /\ \A d \in Doc : Coherent(disk, clock, failed, d)
                                                    => Coherent(disk, clock', failed, d)
<1>1. View' = View /\ LiveIds' = LiveIds
  BY IndexUnmoved DEF Converges
<1>2. Untainted' = Untainted
  BY DEF Untainted
<1>3. IInv /\ clock \in Nat /\ clock' \in Nat
  BY DEF Converges, IInv, TypeOK
<1>4. \A d \in Doc : Coherent(disk, clock, failed, d) => Coherent(disk, clock', failed, d)
  BY <1>3, StaysCoherent
<1>5. \A id \in LiveIds : View[id] \in Doc
  BY <1>3, ViewOnce
<1>6. RecordsTell'
  BY <1>1, <1>2, <1>4, <1>5 DEF Converges, RecordsTell
<1>7. CalmIsCurrent'
  BY <1>1, <1>2 DEF Converges, CalmIsCurrent
<1>8. Accurate' <=> Accurate
  BY <1>1 DEF Accurate, Describes
<1>9. NoHardLinks' <=> NoHardLinks
  BY DEF NoHardLinks
<1>10. SettledIsAccurate' /\ TwoUpdatesSuffice'
  BY <1>2, <1>8, <1>9 DEF Converges, SettledIsAccurate, TwoUpdatesSuffice
<1>11. Past(disk, clock')
  <2>1. \A p \in Path : disk[p] # NoFile => disk[p].mtime \in Nat /\ disk[p].mtime <= clock
    BY <1>3, ContentAssumption DEF Converges, StatsTell, Past, IInv, TypeOK, Disk, File
  <2> QED
    BY <1>3, <2>1 DEF Past
<1> QED
  BY <1>1, <1>2, <1>4, <1>6, <1>7, <1>10, <1>11

\* Steps of a merge before it is committed.
LEMMA MergerConverges ==
    ASSUME Converges, IInv', UNCHANGED <<disk, clock, faults, index, update, history>>
    PROVE  Converges'
<1>1. /\ UNCHANGED <<disk, clock, index, patch_lost, misread, failed>> /\ UNCHANGED <<calm, settled>>
      /\ UNCHANGED <<pc, crawled, plan, undisturbed>> /\ clock <= clock'
  BY DEF update, history, Converges, IInv, TypeOK
<1>2. /\ View' = View /\ LiveIds' = LiveIds /\ Untainted' = Untainted
      /\ RecordsTell' /\ CalmIsCurrent' /\ SettledIsAccurate' /\ TwoUpdatesSuffice'
  BY <1>1, StillConverges
<1>3. StatsTell' /\ CrawlIsCurrent'
  BY <1>1 DEF Converges, StatsTell, CrawlIsCurrent
<1>4. PlanTells'
  BY <1>1, <1>2 DEF Converges, PlanTells
<1> QED
  BY <1>2, <1>3, <1>4 DEF Converges

LEMMA CrawlConverges ==
    ASSUME Converges, NEW next \in {"build", "reconcile"}, Crawl(next)
    PROVE  Converges'
<1>1. /\ UNCHANGED <<disk, index, patch_lost, misread, failed>> /\ UNCHANGED <<calm, settled>>
      /\ pc' = next
  BY DEF Crawl
<1>2. IInv' /\ IInv
  BY CrawlIInv DEF Converges
<1>3. /\ clock <= clock' /\ (undisturbed' => crawled' = disk)
      /\ \A p \in Path : crawled'[p] # NoFile => crawled'[p] = disk[p]
  BY <1>2, CrawlSees DEF IInv
<1>4. /\ RecordsTell' /\ CalmIsCurrent' /\ SettledIsAccurate' /\ TwoUpdatesSuffice'
      /\ Past(disk, clock')
  BY <1>1, <1>2, <1>3, StillConverges
<1>5. StatsTell'
  <2>1. Alike(disk, disk)
    BY DEF Converges, StatsTell
  <2>2. Past(crawled', clock') /\ Alike(crawled', disk)
    BY <1>3, <1>4, <2>1 DEF Past, Alike
  <2> QED
    BY <1>1, <1>4, <2>1, <2>2 DEF StatsTell
<1>6. CrawlIsCurrent' /\ PlanTells'
  BY <1>1, <1>3 DEF CrawlIsCurrent, PlanTells
<1> QED
  BY <1>2, <1>4, <1>5, <1>6 DEF Converges

\* When the writer is through it has no crawl and no plan.
LEMMA FinishTells ==
    ASSUME StatsTell, NEW ok, NEW nothing, Finish(ok, nothing), UNCHANGED <<disk, clock>>
    PROVE  StatsTell' /\ CrawlIsCurrent' /\ PlanTells'
<1>1. pc' = "idle" /\ \A p \in Path : crawled'[p] = NoFile
  BY DEF Finish
<1>2. StatsTell'
  BY <1>1 DEF StatsTell, Past, Alike
<1> QED
  BY <1>1, <1>2 DEF CrawlIsCurrent, PlanTells

\* A count of 2 was 1 before, at least.
LEMMA CalmCounts ==
    ASSUME TypeOK, NEW ok \in BOOLEAN, NEW nothing \in BOOLEAN, Finish(ok, nothing)
    PROVE  /\ calm' # 0 => ok /\ undisturbed
           /\ calm' = 2 => calm >= 1
           /\ settled' => ok /\ undisturbed /\ nothing
<1>1. calm' # 0 => ok /\ undisturbed
  BY DEF Finish
<1>2. settled' => ok /\ undisturbed /\ nothing
  BY DEF Finish
<1>3. ASSUME calm' = 2 PROVE calm >= 1
  <2> DEFINE S == {2, calm + 1}
  <2>1. calm \in Nat /\ S \subseteq Nat /\ 2 \in S /\ calm + 1 \in S
    BY DEF TypeOK
  <2>2. \E x \in S : \A y \in S : x =< y
    BY <2>1
  <2>3. Min(S) = 2
    BY <1>3 DEF Finish
  <2> HIDE DEF S
  <2>4. \A y \in S : Min(S) =< y
    BY <2>2 DEF Min
  <2>5. 2 <= calm + 1
    BY <2>1, <2>3, <2>4
  <2> QED
    BY <2>1, <2>5
<1> QED
  BY <1>1, <1>2, <1>3

LEMMA GiveUpConverges ==
    ASSUME Converges, GiveUp
    PROVE  Converges'
<1>1. /\ Finish(FALSE, FALSE) /\ UNCHANGED <<disk, clock, index, patch_lost, misread, failed>>
      /\ IInv /\ TypeOK /\ IInv' /\ StatsTell /\ RecordsTell
  BY GiveUpIInv DEF Converges, GiveUp, IInv
<1>2. StatsTell' /\ CrawlIsCurrent' /\ PlanTells'
  BY <1>1, FinishTells
<1>3. calm' = 0 /\ settled' = FALSE
  BY <1>1 DEF Finish
<1>4. View' = View /\ LiveIds' = LiveIds
  BY <1>1, IndexUnmoved
<1>5. RecordsTell'
  BY <1>1, <1>4 DEF RecordsTell, Untainted
<1>6. CalmIsCurrent' /\ SettledIsAccurate' /\ TwoUpdatesSuffice'
  BY <1>3 DEF CalmIsCurrent, SettledIsAccurate, TwoUpdatesSuffice
<1> QED
  BY <1>1, <1>2, <1>5, <1>6 DEF Converges


-----------------------------------------------------------------------------
(* The writer decides.                                                     *)

\* Docs that have the stat of the file at their path, each, show the files if
\* these have a doc each.
LEMMA CurrentShows ==
    ASSUME NEW view, NEW files, NEW time, NEW lost, Once(view), Current(view, files),
           \A id \in DOMAIN view : Coherent(files, time, lost, view[id]),
           \A p \in Path : files[p] # NoFile => HasPath(view, p)
    PROVE  Shows(view, files, lost)
<1> SUFFICES ASSUME NEW p \in Path, files[p] # NoFile
             PROVE  \E id \in DOMAIN view : /\ view[id].path = p /\ SameStat(view[id], files[p])
                                            /\ Tells(view[id], files[p], lost)
  BY DEF Shows, Current
<1>1. PICK id \in DOMAIN view : view[id].path = p
  BY DEF HasPath
<1>2. SameStat(view[id], files[p])
  BY <1>1 DEF Current
<1>3. Tells(view[id], files[p], lost)
  BY <1>2 DEF Coherent
<1> QED
  BY <1>1, <1>2, <1>3

\* An update that runs undisturbed and finds nothing to do has nothing to do.
LEMMA NothingToDo ==
    ASSUME Converges, Decide, is_empty(reconcile(View, crawled, disk)), undisturbed, Untainted
    PROVE  Current(View, disk) /\ Accurate
<1> DEFINE decided == reconcile(View, crawled, disk)
<1>1. IInv /\ RecordsTell /\ crawled = disk
  BY DecideReads DEF Converges, CrawlIsCurrent
<1>2. /\ LiveIds \in SUBSET DocId /\ View \in [LiveIds -> Doc] /\ Once(View)
      /\ crawled \in Disk /\ disk \in Disk
  BY <1>1, ViewOnce DEF Untainted
<1>3. /\ \A id \in LiveIds : id \notin Touched(decided) =>
            crawled[View[id].path] # NoFile /\ SameStat(View[id], crawled[View[id].path])
      /\ is_empty(decided) => \A p \in Path : crawled[p] # NoFile => HasPath(View, p)
  BY <1>2, ReconcilePlans
<1> HIDE DEF decided
<1>4. is_empty(decided)
  BY DEF decided
<1>5. DOMAIN << >> = {}
  OBVIOUS
<1>6. Touched(decided) = {}
  BY <1>4, <1>5 DEF is_empty, Touched
<1>7. DOMAIN View = LiveIds
  BY <1>2
<1>8. Current(View, disk)
  BY <1>1, <1>3, <1>6, <1>7 DEF Current
<1>9. \A id \in DOMAIN View : Coherent(disk, clock, failed, View[id])
  BY <1>1, <1>7 DEF RecordsTell
<1>10. Shows(View, disk, failed)
  BY <1>1, <1>2, <1>3, <1>4, <1>8, <1>9, CurrentShows
<1> QED
  BY <1>8, <1>10, AccurateShows

LEMMA DecideConverges ==
    ASSUME Converges, Decide
    PROVE  Converges'
<1>1. /\ IInv /\ TypeOK /\ StatsTell /\ RecordsTell /\ CrawlIsCurrent
      /\ UNCHANGED <<disk, clock, index, merge, patch_lost, failed>> /\ pc = "reconcile"
  BY DecideReads DEF Converges, IInv
<1>0. PICK failing \in Failing : Decides(failing)
  BY DecideReads
<1> DEFINE now == ReadNow(failing)
           decided == reconcile(View, crawled, now)
<1>2. IInv'
  BY <1>1, DecideIInv
<1>3. View' = View /\ LiveIds' = LiveIds
  BY <1>1, IndexUnmoved
<1>4. Accurate' <=> Accurate
  BY <1>1, <1>3 DEF Accurate, Describes
<1>7. Reads(now) /\ now \in Disk /\ (failing = {} => now = disk)
  BY <1>1, FaultsTyped, ReadsTyped DEF Reads
<1> HIDE DEF now
<1>5. CASE is_empty(decided)
  <2> DEFINE all == failing = {}
  <2>1. Finish(all, TRUE) /\ UNCHANGED misread /\ all \in BOOLEAN
    BY <1>0, <1>5 DEF Decides, now
  <2>2. StatsTell' /\ CrawlIsCurrent' /\ PlanTells'
    BY <1>1, <2>1, FinishTells
  <2>3. Untainted' <=> Untainted
    BY <1>1, <2>1 DEF Untainted
  <2>4. RecordsTell'
    BY <1>1, <1>3, <2>3 DEF RecordsTell
  <2>5. calm \in 0 .. 2 /\ calm' \in 0 .. 2
    BY <1>1, <1>2 DEF IInv, TypeOK
  <2>6. (calm' # 0 => all /\ undisturbed) /\ (settled' => all /\ undisturbed)
    BY <1>1, <2>1, CalmCounts
  <2>7. all /\ undisturbed /\ Untainted => Current(View, disk) /\ Accurate
    BY <1>5, <1>7, NothingToDo
  <2> HIDE DEF all
  <2>8. CalmIsCurrent'
    BY <1>1, <1>3, <2>3, <2>5, <2>6, <2>7 DEF CalmIsCurrent
  <2>9. SettledIsAccurate' /\ TwoUpdatesSuffice'
    BY <1>4, <2>3, <2>5, <2>6, <2>7 DEF SettledIsAccurate, TwoUpdatesSuffice
  <2> QED
    BY <1>2, <2>2, <2>4, <2>8, <2>9 DEF Converges
<1>6. CASE ~is_empty(decided)
  <2>1. /\ pc' = "update" /\ plan' = decided
        /\ undisturbed' = (undisturbed /\ failing = {})
        /\ misread' = (misread \/ \E id \in DOMAIN decided.patches :
                                              ReadAnother(decided.patches[id].path, now))
        /\ UNCHANGED <<crawled, calm, settled>>
    BY <1>0, <1>6 DEF Decides, now
  <2>2. Untainted' => Untainted /\ \A id \in DOMAIN decided.patches :
                                        ~ReadAnother(decided.patches[id].path, now)
    BY <1>1, <2>1 DEF Untainted
  <2>3. /\ LiveIds \in SUBSET DocId /\ View \in [LiveIds -> Doc]
        /\ crawled \in Disk /\ disk \in Disk
        /\ Untainted => Once(View)
    BY <1>1, ViewOnce DEF Untainted
  <2>4. decided \in PlanFor(LiveIds) /\ (Untainted => Explains(View, crawled, now, decided))
    BY <1>7, <2>3, ReconcilePlans, ReconcileFacts
  <2>5. undisturbed' => undisturbed /\ decided = reconcile(View, disk, disk)
    BY <1>1, <1>7, <2>1 DEF CrawlIsCurrent
  <2> HIDE DEF decided
  <2>6. StatsTell' /\ CrawlIsCurrent'
    BY <1>1, <2>1 DEF StatsTell, CrawlIsCurrent
  <2>7. RecordsTell'
    BY <1>1, <1>3, <2>2 DEF RecordsTell
  <2>8. CalmIsCurrent' /\ SettledIsAccurate' /\ TwoUpdatesSuffice'
    BY <1>1, <1>3, <1>4, <2>1, <2>2
       DEF Converges, CalmIsCurrent, SettledIsAccurate, TwoUpdatesSuffice, NoHardLinks
  <2>9. ASSUME Untainted', NEW a \in DOMAIN decided.patches
        PROVE  Coherent(disk, clock, failed, Patched(View[a], decided.patches[a]))
    <3>1. PICK p \in Path : /\ crawled[p] # NoFile /\ decided.patches[a] = patch(crawled[p], p)
                            /\ Fits(View[a], crawled[p], now, p)
      BY <2>2, <2>4, <2>9 DEF Explains
    <3>2. a \in LiveIds
      BY <2>4, PlanTyped
    <3>3. View[a] \in Doc /\ Coherent(disk, clock, failed, View[a])
      BY <1>1, <2>2, <2>3, <2>9, <3>2 DEF RecordsTell
    <3>4. patch(crawled[p], p).path = p
      BY DEF patch
    <3>5. ~ReadAnother(p, now)
      BY <2>2, <2>9, <3>1, <3>4
    <3> QED
      BY <1>1, <1>7, <3>1, <3>3, <3>5, PatchTells DEF StatsTell
  <2>10. Untainted' => \A i \in DOMAIN decided.reindex : \E p \in Path :
            crawled[p] # NoFile /\ decided.reindex[i] = [path |-> p, file |-> crawled[p]]
    BY <2>2, <2>4 DEF Explains
  <2>11. PlanTells'
    BY <1>1, <1>3, <2>1, <2>5, <2>9, <2>10 DEF PlanTells
  <2> QED
    BY <1>2, <2>6, <2>7, <2>8, <2>11 DEF Converges
<1> QED
  BY <1>5, <1>6


-----------------------------------------------------------------------------
(* The writer commits an update.                                           *)

LEMMA UpdatedView ==
    ASSUME IInv, CommitUpdate, NEW read, Reads(read), Updates(read)
    PROVE  /\ LiveIds' = Live(segments') /\ DOMAIN View' = LiveIds'
           /\ \A id \in LiveIds' :
                 \/ /\ id \in LiveIds \ plan.deletes
                    /\ View'[id] = MovedDoc(id) /\ MovedDoc(id).path = MovedTo(id)
                 \/ \E i \in DOMAIN plan.reindex : View'[id] = NewDocs(read)[i]
           /\ \A id \in LiveIds \ plan.deletes : id \in LiveIds' /\ View'[id].path = MovedTo(id)
           /\ \A i \in DOMAIN plan.reindex : \E id \in LiveIds' : View'[id] = NewDocs(read)[i]
<1> DEFINE S == segments'
           now(id) == DocIn(segments', overlay', id)
<1>1. LiveIds' = Live(S) /\ View' = [id \in Live(S) |-> now(id)]
  BY DEF View, LiveIds, Live, doc, Recorded, SegmentWith, DocIn, RecordIn, With
<1>2. /\ \A id \in Live(S) :
            \/ /\ id \in LiveIds \ plan.deletes
               /\ now(id) = MovedDoc(id) /\ MovedDoc(id).path = MovedTo(id)
            \/ LET i == id - Bound(segments) + 1
               IN id >= Bound(segments) /\ i \in DOMAIN plan.reindex /\ now(id) = NewDocs(read)[i]
      /\ \A id \in LiveIds \ plan.deletes : id \in Live(S)
      /\ \A i \in DOMAIN plan.reindex : \E id \in Live(S) : now(id) = NewDocs(read)[i]
  BY UpdateMoves
<1>3. \A id \in LiveIds : id \in Nat /\ id < Bound(segments) /\ Bound(segments) \in Nat
  BY DecodableRow, LiveBelow, BoundIs, Rows DEF IInv
<1> HIDE DEF S, now
<1>4. DOMAIN View' = LiveIds' /\ \A id \in LiveIds' : View'[id] = now(id)
  BY <1>1
<1>5. ASSUME NEW id \in LiveIds \ plan.deletes
      PROVE  id \in LiveIds' /\ View'[id].path = MovedTo(id)
  <2>1. ~(id >= Bound(segments))
    BY <1>3
  <2> QED
    BY <1>1, <1>2, <1>4, <2>1
<1>6. LiveIds' = Live(segments')
  BY <1>1 DEF S
<1> QED
  BY <1>1, <1>2, <1>4, <1>5, <1>6

\* What the update reads is what was crawled, unless the record says otherwise.
LEMMA UpdateTells ==
    ASSUME Converges, CommitUpdate, Untainted'
    PROVE  Untainted /\ \A id \in LiveIds' : Coherent(disk, clock, failed', View'[id])
<1>1. /\ IInv /\ TypeOK /\ StatsTell /\ RecordsTell /\ PlanTells /\ pc = "update"
      /\ patch_lost' = patch_lost /\ clock \in Nat
  <2>1. pc = "update" /\ patch_lost' = patch_lost
    BY DEF CommitUpdate
  <2>2. IInv /\ TypeOK /\ StatsTell /\ RecordsTell /\ PlanTells
    BY DEF Converges, IInv
  <2>3. clock \in Nat
    BY <2>2 DEF TypeOK
  <2> QED
    BY <2>1, <2>2, <2>3
<1>0. PICK read : Reads(read) /\ Updates(read)
  BY <1>1, UpdateReads
<1>2. /\ Untainted /\ \A i \in DOMAIN plan.reindex : ~ReadAnother(plan.reindex[i].path, read)
      /\ failed' = failed \cup FailedReads(plan.reindex, read)
  BY <1>0, <1>1 DEF Untainted, Updates
<1>3. ASSUME NEW i \in DOMAIN plan.reindex PROVE Coherent(disk, clock, failed', NewDocs(read)[i])
  <2>1. PICK p \in Path : crawled[p] # NoFile /\ plan.reindex[i] = [path |-> p, file |-> crawled[p]]
    BY <1>1, <1>2 DEF PlanTells
  <2>2. NewDocs(read)[i] = NewDoc(crawled[p], p, read) /\ ~ReadAnother(p, read)
    BY <1>2, <2>1 DEF NewDocs, DocsOf
  <2>3. crawled[p].content \in Text /\ read[p] = NoFile
           => <<crawled[p].inode, crawled[p].mtime>> \in failed'
    BY <1>2, <2>1 DEF FailedReads
  <2> QED
    BY <1>0, <1>1, <2>1, <2>2, <2>3, NewDocTells DEF StatsTell
<1>4. ASSUME NEW id \in LiveIds PROVE Coherent(disk, clock, failed', MovedDoc(id))
  <2>1. Coherent(disk, clock, failed, MovedDoc(id)) /\ MovedDoc(id) \in Doc
    BY <1>1, <1>2, PatchesTyped, ViewOnce DEF MovedDoc, RecordsTell, PlanTells
  <2> QED
    BY <1>1, <1>2, <2>1, StaysCoherent
<1> QED
  BY <1>0, <1>1, <1>2, <1>3, <1>4, UpdatedView

\* An undisturbed update leaves no record of a file as it is not.
LEMMA UpdateCurrent ==
    ASSUME Converges, CommitUpdate, undisturbed, Untainted
    PROVE  Untainted' /\ Current(View', disk)
<1>0. PICK read : Reads(read) /\ Updates(read)
  BY UpdateReads DEF Converges, IInv
<1>1. /\ IInv /\ crawled = disk /\ plan = reconcile(View, disk, disk)
      /\ patch_lost' = patch_lost
      /\ misread' = (misread \/ \E i \in DOMAIN plan.reindex :
                                    ReadAnother(plan.reindex[i].path, read))
  BY <1>0 DEF Converges, CommitUpdate, CrawlIsCurrent, PlanTells, Updates
<1>2. /\ LiveIds \in SUBSET DocId /\ View \in [LiveIds -> Doc] /\ Once(View) /\ disk \in Disk
  BY <1>1, ViewOnce DEF Untainted
<1>3. /\ Explains(View, disk, disk, plan)
      /\ \A id \in LiveIds : id \notin Touched(plan) =>
            disk[View[id].path] # NoFile /\ SameStat(View[id], disk[View[id].path])
  BY <1>1, <1>2, ReconcilePlans
<1>4. ASSUME NEW i \in DOMAIN plan.reindex
      PROVE  /\ ~ReadAnother(plan.reindex[i].path, read)
             /\ disk[NewDocs(read)[i].path] # NoFile /\ SameStat(NewDocs(read)[i], disk[NewDocs(read)[i].path])
  <2>1. PICK p \in Path : disk[p] # NoFile /\ plan.reindex[i] = [path |-> p, file |-> disk[p]]
    BY <1>3 DEF Explains
  <2>2. NewDocs(read)[i] = NewDoc(disk[p], p, read) /\ plan.reindex[i].path = p
    BY <2>1 DEF NewDocs, DocsOf
  <2>3. ~ReadAnother(p, read)
    BY <1>0, <1>1, <2>1 DEF ReadAnother, Reads, SameStat
  <2>4. NewDocs(read)[i].path = p /\ SameStat(NewDocs(read)[i], disk[p])
    BY <2>2 DEF NewDoc, SameStat
  <2> QED
    BY <2>1, <2>2, <2>3, <2>4
<1>5. ASSUME NEW id \in LiveIds \ plan.deletes
      PROVE  disk[MovedDoc(id).path] # NoFile /\ SameStat(MovedDoc(id), disk[MovedDoc(id).path])
  <2>1. CASE id \in DOMAIN plan.patches
    <3>1. PICK p \in Path : disk[p] # NoFile /\ plan.patches[id] = patch(disk[p], p)
      BY <1>3, <2>1 DEF Explains
    <3>2. MovedDoc(id) = Patched(View[id], patch(disk[p], p)) /\ View[id] \in Doc
      BY <1>2, <2>1, <3>1 DEF MovedDoc
    <3>3. MovedDoc(id).path = p /\ SameStat(MovedDoc(id), disk[p])
      BY <3>2 DEF Patched, patch, SameStat, Doc
    <3> QED
      BY <3>1, <3>3
  <2>2. CASE id \notin DOMAIN plan.patches
    BY <1>3, <2>2 DEF MovedDoc, Touched
  <2> QED
    BY <2>1, <2>2
<1>6. Untainted'
  BY <1>1, <1>4 DEF Untainted
<1>7. DOMAIN View' = LiveIds' /\ \A id \in LiveIds' :
         \/ id \in LiveIds \ plan.deletes /\ View'[id] = MovedDoc(id)
         \/ \E i \in DOMAIN plan.reindex : View'[id] = NewDocs(read)[i]
  BY <1>0, <1>1, UpdatedView
<1> QED
  BY <1>4, <1>5, <1>6, <1>7 DEF Current

\* If no rename is ambiguous it leaves none without a record either.
LEMMA UpdateAccurate ==
    ASSUME Converges, CommitUpdate, undisturbed, Untainted, Distinct(View, disk)
    PROVE  Shows(View', disk, failed')
<1>1. /\ IInv /\ IInv' /\ plan = reconcile(View, disk, disk)
  BY CommitUpdateIInv DEF Converges, CommitUpdate, PlanTells
<1>2. /\ LiveIds \in SUBSET DocId /\ View \in [LiveIds -> Doc] /\ Once(View) /\ disk \in Disk
  BY <1>1, ViewOnce DEF Untainted
<1>3. Untainted' /\ Current(View', disk)
  BY UpdateCurrent
<1>4. \A id \in LiveIds' : Coherent(disk, clock, failed', View'[id])
  BY <1>3, UpdateTells
<1>0. PICK read : Reads(read) /\ Updates(read)
  BY <1>1, UpdateReads DEF IInv
<1>5. /\ DOMAIN View' = LiveIds'
      /\ \A id \in LiveIds \ plan.deletes : id \in LiveIds' /\ View'[id].path = MovedTo(id)
      /\ \A i \in DOMAIN plan.reindex : \E id \in LiveIds' : View'[id] = NewDocs(read)[i]
  BY <1>0, <1>1, UpdatedView
<1>6. ASSUME NEW q \in Path, disk[q] # NoFile PROVE HasPath(View', q)
  <2>1. Serves(View, plan, disk[q], q)
    BY <1>1, <1>2, <1>6, ReconcileServes
  <2>2. ASSUME NEW i \in DOMAIN plan.reindex, plan.reindex[i] = [path |-> q, file |-> disk[q]]
        PROVE  HasPath(View', q)
    <3>1. NewDocs(read)[i].path = q
      BY <2>2 DEF NewDocs, DocsOf, NewDoc
    <3> QED
      BY <1>5, <3>1 DEF HasPath
  <2>3. ASSUME NEW a \in DOMAIN plan.patches \ plan.deletes, plan.patches[a] = patch(disk[q], q)
        PROVE  HasPath(View', q)
    <3>1. a \in LiveIds
      BY <1>1 DEF IInv, PlanFits, CommitUpdate
    <3>2. MovedTo(a) = q
      BY <2>3 DEF MovedTo, patch
    <3> QED
      BY <1>5, <3>1, <3>2 DEF HasPath
  <2>4. CASE HasPath(View, q) /\ by_path(View, q) \notin Touched(plan)
    <3> DEFINE a == by_path(View, q)
    <3>1. a \in LiveIds /\ View[a].path = q
      BY <1>2, <2>4, Lookups
    <3>2. a \notin plan.deletes /\ MovedTo(a) = q
      BY <2>4, <3>1 DEF MovedTo, Touched
    <3> HIDE DEF a
    <3> QED
      BY <1>5, <3>1, <3>2 DEF HasPath
  <2> QED
    BY <2>1, <2>2, <2>3, <2>4 DEF Serves
<1>7. Once(View')
  BY <1>1, <1>3, <1>5 DEF IInv, OneDocPerPath, Once, Untainted, View
<1>8. \A id \in DOMAIN View' : Coherent(disk, clock, failed', View'[id])
  BY <1>4, <1>5
<1> QED
  BY <1>3, <1>6, <1>7, <1>8, CurrentShows


\* Docs that have the stat of the file at their path cannot be mistaken for the
\* source of a rename, but under a hard link.
LEMMA CurrentDistinct ==
    ASSUME NEW D \in SUBSET DocId, NEW prev \in [D -> Doc], Once(prev), Current(prev, disk), NoHardLinks
    PROVE  Distinct(prev, disk)
<1> SUFFICES ASSUME NEW p \in Path, disk[p] # NoFile, ~HasPath(prev, p),
                    HasInode(prev, disk[p].inode)
             PROVE  disk[by_inode(prev, disk[p].inode)] = NoFile
  BY DEF Distinct
<1> DEFINE old == by_inode(prev, disk[p].inode)
           id == by_path(prev, old)
<1>1. old \in Path /\ HasPath(prev, old)
  BY Lookups
<1>2. prev[id].inode = disk[p].inode
  BY InodeLookup
<1> HIDE DEF old
<1>3. id \in D /\ prev[id].path = old
  BY <1>1, Lookups
<1> HIDE DEF id
<1>4. disk[old] # NoFile /\ disk[old].inode = disk[p].inode
  BY <1>2, <1>3 DEF Current, SameStat
<1>5. old # p
  BY <1>1
<1> QED
  BY <1>1, <1>4, <1>5 DEF NoHardLinks

LEMMA CommitUpdateConverges ==
    ASSUME Converges, CommitUpdate
    PROVE  Converges'
<1>1. /\ IInv /\ TypeOK /\ StatsTell /\ CrawlIsCurrent /\ CalmIsCurrent
      /\ Finish(TRUE, FALSE) /\ UNCHANGED <<disk, clock, merge, patch_lost>>
  BY DEF Converges, CommitUpdate, IInv
<1>2. IInv'
  BY <1>1, CommitUpdateIInv
<1>3. StatsTell' /\ CrawlIsCurrent' /\ PlanTells'
  BY <1>1, FinishTells
<1>4. calm \in 0 .. 2 /\ calm' \in 0 .. 2
  BY <1>1, <1>2 DEF IInv, TypeOK
<1>5. (calm' # 0 => undisturbed) /\ (calm' = 2 => calm >= 1) /\ ~settled'
  BY <1>1, CalmCounts
<1>6. Untainted' => Untainted
  BY UpdateTells
<1>7. RecordsTell'
  BY <1>1, UpdateTells DEF RecordsTell
<1>8. CalmIsCurrent'
  BY <1>1, <1>4, <1>5, <1>6, UpdateCurrent DEF CalmIsCurrent
<1>9. SettledIsAccurate'
  BY <1>5 DEF SettledIsAccurate
<1>10. ASSUME calm' = 2, NoHardLinks', Untainted' PROVE Accurate'
  <2>1. undisturbed /\ Untainted /\ NoHardLinks /\ calm >= 1
    BY <1>1, <1>5, <1>6, <1>10 DEF NoHardLinks
  <2>2. Current(View, disk)
    BY <1>1, <2>1 DEF CalmIsCurrent
  <2>3. LiveIds \in SUBSET DocId /\ View \in [LiveIds -> Doc] /\ Once(View)
    BY <1>1, <2>1, ViewOnce DEF Untainted
  <2>4. Distinct(View, disk)
    BY <2>1, <2>2, <2>3, CurrentDistinct
  <2>5. Shows(View', disk, failed')
    BY <2>1, <2>4, UpdateAccurate
  <2> QED
    BY <1>1, <2>5 DEF Accurate, Shows, Once, Describes, Tells
<1>11. TwoUpdatesSuffice'
  BY <1>10 DEF TwoUpdatesSuffice
<1> QED
  BY <1>2, <1>3, <1>7, <1>8, <1>9, <1>11 DEF Converges

-----------------------------------------------------------------------------
(* The writer commits a build.                                             *)

LEMMA BuiltView ==
    ASSUME IInv, CommitBuild, NEW read, Reads(read), Builds(read)
    PROVE  /\ DOMAIN View' = LiveIds'
           /\ \A id \in LiveIds' : \E p \in Path :
                 /\ crawled[p] # NoFile /\ View'[id] = NewDoc(crawled[p], p, read)
                 /\ ~misread' => ~ReadAnother(p, read)
                 /\ crawled[p].content \in Text /\ read[p] = NoFile
                       => <<crawled[p].inode, crawled[p].mtime>> \in failed'
           /\ \A p \in Path : crawled[p] # NoFile => HasPath(View', p)
<1> DEFINE S == segments'
           now(id) == DocIn(segments', overlay', id)
<1>1. LiveIds' = Live(S) /\ View' = [id \in Live(S) |-> now(id)]
  BY DEF View, LiveIds, Live, doc, Recorded, SegmentWith, DocIn, RecordIn, With
<1>2. /\ Found \in Seq([path : Path, file : File])
      /\ \A i \in DOMAIN Found : /\ Found[i].path \in Path /\ crawled[Found[i].path] # NoFile
                                 /\ Found[i].file = crawled[Found[i].path]
      /\ \A p \in Path : crawled[p] # NoFile => \E i \in DOMAIN Found : Found[i].path = p
  BY FoundFacts DEF IInv
<1>3. \A i \in DOMAIN Found : FoundDocs(read)[i].path = Found[i].path
  BY <1>2, DocsOfTyped DEF FoundDocs, Reads
<1>4. /\ \A id \in Live(S) : id + 1 \in DOMAIN Found /\ now(id) = FoundDocs(read)[id + 1]
      /\ \A i \in DOMAIN Found : \E id \in Live(S) : now(id) = FoundDocs(read)[i]
  <2>1. DOMAIN << >> = {}
    OBVIOUS
  <2> QED
    BY <2>1, BuildMakes DEF DocIn
<1>5. /\ misread' = \E i \in DOMAIN Found : ReadAnother(Found[i].path, read)
      /\ failed' = FailedReads(Found, read)
  BY DEF Builds
<1> HIDE DEF S, now
<1>6. ASSUME NEW id \in LiveIds'
      PROVE  \E p \in Path : /\ crawled[p] # NoFile /\ View'[id] = NewDoc(crawled[p], p, read)
                             /\ ~misread' => ~ReadAnother(p, read)
                             /\ crawled[p].content \in Text /\ read[p] = NoFile
                                   => <<crawled[p].inode, crawled[p].mtime>> \in failed'
  <2>1. View'[id] = FoundDocs(read)[id + 1] /\ id + 1 \in DOMAIN Found
    BY <1>1, <1>4
  <2> DEFINE i == id + 1
             p == Found[i].path
  <2>2. FoundDocs(read)[i] = NewDoc(crawled[p], p, read)
    BY <1>2, <2>1 DEF FoundDocs, DocsOf
  <2>3. crawled[p].content \in Text /\ read[p] = NoFile
           => <<crawled[p].inode, crawled[p].mtime>> \in failed'
    BY <1>2, <1>5, <2>1 DEF FailedReads
  <2> QED
    BY <1>2, <1>5, <2>1, <2>2, <2>3
<1>7. ASSUME NEW p \in Path, crawled[p] # NoFile PROVE HasPath(View', p)
  <2>1. PICK i \in DOMAIN Found : Found[i].path = p
    BY <1>2, <1>7
  <2>2. PICK id \in Live(S) : now(id) = FoundDocs(read)[i]
    BY <1>4
  <2> QED
    BY <1>1, <1>3, <2>1, <2>2 DEF HasPath
<1> QED
  BY <1>1, <1>6, <1>7

LEMMA CommitBuildConverges ==
    ASSUME Converges, CommitBuild
    PROVE  Converges'
<1>1. /\ IInv /\ TypeOK /\ StatsTell /\ CrawlIsCurrent
      /\ Finish(TRUE, FALSE) /\ UNCHANGED <<disk, clock, merge>> /\ pc = "build"
  BY DEF Converges, CommitBuild, IInv
<1>2. IInv'
  BY <1>1, CommitBuildIInv
<1>0. PICK read : Reads(read) /\ Builds(read)
  BY <1>1, BuildReads
<1>3. StatsTell' /\ CrawlIsCurrent' /\ PlanTells'
  BY <1>1, FinishTells
<1>4. calm \in 0 .. 2 /\ calm' \in 0 .. 2
  BY <1>1, <1>2 DEF IInv, TypeOK
<1>5. (calm' # 0 => undisturbed) /\ ~settled'
  BY <1>1, CalmCounts
<1>6. /\ DOMAIN View' = LiveIds'
      /\ \A id \in LiveIds' : \E p \in Path :
            /\ crawled[p] # NoFile /\ View'[id] = NewDoc(crawled[p], p, read)
            /\ ~misread' => ~ReadAnother(p, read)
            /\ crawled[p].content \in Text /\ read[p] = NoFile
                  => <<crawled[p].inode, crawled[p].mtime>> \in failed'
      /\ \A p \in Path : crawled[p] # NoFile => HasPath(View', p)
  BY <1>0, <1>1, BuiltView
<1>7. Untainted' => \A id \in LiveIds' : Coherent(disk, clock, failed', View'[id])
  <2> SUFFICES ASSUME Untainted', NEW id \in LiveIds' PROVE Coherent(disk, clock, failed', View'[id])
    OBVIOUS
  <2>1. PICK p \in Path : /\ crawled[p] # NoFile /\ View'[id] = NewDoc(crawled[p], p, read)
                          /\ ~misread' => ~ReadAnother(p, read)
                          /\ crawled[p].content \in Text /\ read[p] = NoFile
                                => <<crawled[p].inode, crawled[p].mtime>> \in failed'
    BY <1>6
  <2>2. ~ReadAnother(p, read)
    BY <2>1 DEF Untainted
  <2> QED
    BY <1>0, <1>1, <2>1, <2>2, NewDocTells DEF StatsTell
<1>8. RecordsTell'
  BY <1>1, <1>7 DEF RecordsTell
<1>9. undisturbed => Current(View', disk)
  <2> SUFFICES ASSUME undisturbed, NEW id \in LiveIds'
               PROVE  disk[View'[id].path] # NoFile /\ SameStat(View'[id], disk[View'[id].path])
    BY <1>6 DEF Current
  <2>1. crawled = disk
    BY <1>1 DEF CrawlIsCurrent
  <2>2. PICK p \in Path : disk[p] # NoFile /\ View'[id] = NewDoc(disk[p], p, read)
    BY <1>6, <2>1
  <2>3. View'[id].path = p /\ SameStat(View'[id], disk[p])
    BY <2>2 DEF NewDoc, SameStat
  <2> QED
    BY <2>2, <2>3
<1>10. CalmIsCurrent'
  BY <1>1, <1>4, <1>5, <1>9 DEF CalmIsCurrent
<1>11. SettledIsAccurate'
  BY <1>5 DEF SettledIsAccurate
<1>12. ASSUME undisturbed, Untainted' PROVE Accurate'
  <2>1. Once(View')
    BY <1>2, <1>6, <1>12 DEF IInv, OneDocPerPath, Once, Untainted, View
  <2>2. \A p \in Path : disk[p] # NoFile => HasPath(View', p)
    BY <1>1, <1>6, <1>12 DEF CrawlIsCurrent
  <2>3. Current(View', disk) /\ \A id \in DOMAIN View' : Coherent(disk, clock, failed', View'[id])
    BY <1>6, <1>7, <1>9, <1>12
  <2>4. Shows(View', disk, failed')
    BY <2>1, <2>2, <2>3, CurrentShows
  <2> QED
    BY <1>1, <2>4 DEF Accurate, Shows, Once, Describes, Tells
<1>13. TwoUpdatesSuffice'
  BY <1>4, <1>5, <1>12 DEF TwoUpdatesSuffice
<1> QED
  BY <1>2, <1>3, <1>8, <1>10, <1>11, <1>13 DEF Converges

-----------------------------------------------------------------------------
(* A merge is committed.                                                   *)

LEMMA CommitMergeConverges ==
    ASSUME Converges, CommitMerge
    PROVE  Converges'
<1>1. /\ IInv /\ StatsTell /\ RecordsTell /\ CrawlIsCurrent /\ pc = "idle"
      /\ patch_lost' = (patch_lost \/ PatchLost) /\ calm' = 0 /\ settled' = FALSE
      /\ UNCHANGED <<disk, clock, overlay, update, undisturbed, misread, failed>>
  BY DEF Converges, CommitMerge
<1>2. UNCHANGED <<pc, crawled, plan>>
  BY <1>1 DEF update
<1>3. IInv'
  BY <1>1, CommitMergeIInv
<1>4. LiveIds' = Live(segments') /\ \A id \in LiveIds' : View'[id] = DocIn(segments', overlay', id)
  BY DEF View, LiveIds, Live, doc, Recorded, SegmentWith, DocIn, RecordIn, With
<1>5. \A id \in Live(segments') :
         /\ Before(id) \in LiveIds
         /\ ~PatchLost => DocIn(segments', overlay', id) = doc(Before(id))
  BY <1>1, MergeMoves
<1>6. Untainted' => Untainted /\ ~PatchLost
  BY <1>1 DEF Untainted
<1>7. ASSUME Untainted', NEW id \in LiveIds' PROVE Coherent(disk, clock, failed, View'[id])
  <2>1. Before(id) \in LiveIds /\ View'[id] = doc(Before(id))
    BY <1>4, <1>5, <1>6, <1>7
  <2>2. doc(Before(id)) = View[Before(id)]
    BY <2>1 DEF View
  <2> QED
    BY <1>1, <1>6, <1>7, <2>1, <2>2 DEF RecordsTell
<1>8. RecordsTell'
  BY <1>1, <1>7 DEF RecordsTell
<1>9. StatsTell' /\ CrawlIsCurrent' /\ PlanTells'
  BY <1>1, <1>2 DEF StatsTell, CrawlIsCurrent, PlanTells
<1>10. CalmIsCurrent' /\ SettledIsAccurate' /\ TwoUpdatesSuffice'
  BY <1>1 DEF CalmIsCurrent, SettledIsAccurate, TwoUpdatesSuffice
<1> QED
  BY <1>3, <1>8, <1>9, <1>10 DEF Converges


-----------------------------------------------------------------------------
(* Theorems.                                                               *)

LEMMA InitConverges ==
    ASSUME Init
    PROVE  Converges
<1>1. /\ \A p \in Path : disk[p] = NoFile /\ crawled[p] = NoFile
      /\ pc = "idle" /\ calm = 0 /\ settled = FALSE /\ segments = << >>
  BY DEF Init
<1>2. StatsTell
  BY <1>1 DEF StatsTell, Past, Alike
<1>3. DOMAIN << >> = {}
  OBVIOUS
<1>4. LiveIds = {}
  BY <1>1, <1>3 DEF LiveIds
<1>5. RecordsTell
  BY <1>4 DEF RecordsTell
<1>6. PlanTells /\ CrawlIsCurrent
  BY <1>1 DEF PlanTells, CrawlIsCurrent
<1>7. CalmIsCurrent /\ SettledIsAccurate /\ TwoUpdatesSuffice
  BY <1>1 DEF CalmIsCurrent, SettledIsAccurate, TwoUpdatesSuffice
<1> QED
  BY <1>2, <1>5, <1>6, <1>7, InitIInv DEF Converges

\* The invariant is inductive: users may rename, link, replace and rewrite files
\* between any two steps of the writer and the merger.
THEOREM Convergence == Spec => []Converges
<1>1. Init => Converges
  BY InitConverges
<1>2. Converges /\ [Next]_vars => Converges'
  <2> SUFFICES ASSUME Converges, [Next]_vars PROVE Converges'
    OBVIOUS
  <2>1. IInv
    BY DEF Converges
  <2>2. CASE User
    BY <2>2, UserConverges
  <2>3. CASE CrawlForBuild \/ CrawlForUpdate
    BY <2>3, CrawlConverges DEF CrawlForBuild, CrawlForUpdate
  <2>4. CASE Decide
    BY <2>4, DecideConverges
  <2>5. CASE CommitUpdate
    BY <2>5, CommitUpdateConverges
  <2>6. CASE CommitBuild
    BY <2>6, CommitBuildConverges
  <2>7. CASE GiveUp
    BY <2>7, GiveUpConverges
  <2>8. ASSUME NEW group \in SUBSET segment_ids, PrepareMerge(group) PROVE Converges'
    <3>1. IInv' /\ UNCHANGED <<disk, clock, faults, index, update, history>>
      BY <2>1, <2>8, PrepareMergeIInv DEF PrepareMerge
    <3> QED
      BY <3>1, MergerConverges
  <2>9. CASE CommitMerge
    BY <2>9, CommitMergeConverges
  <2>10. CASE DropMerge
    <3>1. IInv' /\ UNCHANGED <<disk, clock, faults, index, update, history>>
      BY <2>1, <2>10, DropMergeIInv DEF DropMerge
    <3> QED
      BY <3>1, MergerConverges
  <2>11. CASE UNCHANGED vars
    <3>1. IInv' /\ UNCHANGED <<disk, clock, faults, index, update, history>>
      BY <2>1, <2>11, StutterIInv DEF vars
    <3> QED
      BY <3>1, MergerConverges
  <2> QED
    BY <2>2, <2>3, <2>4, <2>5, <2>6, <2>7, <2>8, <2>9, <2>10, <2>11 DEF Next, Writer, Merger
<1> QED
  BY <1>1, <1>2, PTL DEF Spec

\* When update_index ran undisturbed and its reconcile found nothing to do, the
\* index shows the disk as it is: a stale record is never passed over because
\* its stat happens to match, however the record came about, unless it is the
\* record of a file that could not be read (index_shard, DocStatus::Skipped).
THEOREM SettledAccurate == Spec => []SettledIsAccurate
<1>1. Converges => SettledIsAccurate
  BY DEF Converges
<1> QED
  BY <1>1, Convergence, PTL

\* Two undisturbed runs, of update_index or build_index, repair whatever a
\* disturbed one left behind, as long as no file has two names: the first leaves
\* no stale record, the second misses no file.  What they leave unrepaired is
\* the records of files with that stat whose read failed.
THEOREM TwoUpdates == Spec => []TwoUpdatesSuffice
<1>1. Converges => TwoUpdatesSuffice
  BY DEF Converges
<1> QED
  BY <1>1, Convergence, PTL

\* One undisturbed run of update_index is enough when no new path has the inode
\* of a doc whose own path is taken: reconcile then provides a doc for every
\* crawled file, and the commit shows exactly these, the unreadable as skipped.
THEOREM QuietUpdate == Spec => QuietUpdateConverges
<1>1. Converges /\ [Next]_vars => [CommitUpdate /\ undisturbed /\ Unambiguous /\ Untainted' => Accurate']_vars
  <2> SUFFICES ASSUME Converges, CommitUpdate, undisturbed, Unambiguous, Untainted'
               PROVE  Accurate'
    OBVIOUS
  <2>1. crawled = disk /\ disk' = disk
    BY DEF Converges, CommitUpdate, CrawlIsCurrent
  <2>2. Distinct(View, disk)
    BY <2>1 DEF Unambiguous, Distinct
  <2>3. Shows(View', disk, failed')
    BY <2>2, UpdateTells, UpdateAccurate
  <2> QED
    BY <2>1, <2>3 DEF Accurate, Shows, Once, Describes, Tells
<1> QED
  BY <1>1, Convergence, PTL DEF Spec, QuietUpdateConverges
=============================================================================
