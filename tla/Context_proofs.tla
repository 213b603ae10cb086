---------------------------- MODULE Context_proofs ----------------------------
(***************************************************************************)
(* For every workbook, every batch size and any number of builds, faults   *)
(* and kills: the state of a build is well formed, what is published is    *)
(* whole, context.md is the rendering of a published document, shared axes *)
(* and linked timelines never contradict each other, and every part of the *)
(* file that is read back gives what the whole file would give.            *)
(*                                                                         *)
(* The loops of the code are folds and recursive functions of the model.   *)
(* Facts about them are proved from the run of the loop, the list of its   *)
(* intermediate results (the lemmas named ...Run), by induction over its   *)
(* length (UpTo).                                                          *)
(***************************************************************************)
EXTENDS Context, WellFoundedInduction, TLAPS

(***************************************************************************)
(* Lists, induction over numbers, folds                                    *)
(***************************************************************************)

\* A sequence is a list of the elements it has.
LEMMA SeqIsList ==
  ASSUME NEW X, NEW s \in Seq(X)
  PROVE  IsList(s)
  <1>1. s \in [1..Len(s) -> Range(s)] /\ Len(s) \in Nat
    BY DEF Range
  <1> QED BY <1>1 DEF IsList

\* The order of the naturals is well founded.
LEMMA LessRel == IsWellFoundedOn({ss \in Nat \X Nat : ss[1] < ss[2]}, Nat)
  BY NatLessThanWellFounded DEF OpToRel

\* A set of naturals that is not empty has a least element.
LEMMA NatMin ==
  ASSUME NEW S \in SUBSET Nat, S # {}
  PROVE  \E n \in S : \A m \in S : n <= m
  <1> DEFINE R == {ss \in Nat \X Nat : ss[1] < ss[2]}
  <1>0. IsWellFoundedOn(R, Nat)
    BY LessRel
  <1>1. PICK n \in S : \A m \in S : ~(<<m, n>> \in R)
    <2> HIDE DEF R
    <2> QED BY <1>0, WFMin
  <1>2. \A m \in S : n <= m
    <2> TAKE m \in S
    <2>1. <<m, n>> \in Nat \X Nat /\ <<m, n>>[1] = m /\ <<m, n>>[2] = n
      OBVIOUS
    <2>2. ~(m < n)
      BY <2>1, <1>1
    <2> QED BY <2>2
  <1> QED BY <1>2

\* Induction up to n, over a set of numbers.
LEMMA UpTo ==
  ASSUME NEW n \in Nat, NEW P, 0 \in P,
         \A k \in 0..(n - 1) : k \in P => k + 1 \in P
  PROVE  \A k \in 0..n : k \in P
  <1> DEFINE B == {k \in 0..n : k \notin P}
  <1>1. SUFFICES ASSUME B # {} PROVE FALSE
    OBVIOUS
  <1>2. PICK k \in B : \A m \in B : k <= m
    <2>1. B \in SUBSET Nat
      OBVIOUS
    <2> HIDE DEF B
    <2> QED BY <1>1, <2>1, NatMin
  <1>3. k # 0 /\ k - 1 \in 0..(n - 1) /\ k - 1 \in 0..n
    BY <1>2
  <1>4. k - 1 \in P
    BY <1>2, <1>3
  <1> QED BY <1>2, <1>3, <1>4

\* A run of n steps from base exists.
IsRun(r, n, T, base, step) ==
    /\ r \in [0..n -> T] /\ r[0] = base
    /\ \A k \in 1..n : r[k] = step[<<r[k - 1], k>>]

\* There is a run for every base and every step.
LEMMA RunExists ==
  ASSUME NEW n \in Nat, NEW T, NEW base \in T, NEW step \in [T \X (1..n) -> T]
  PROVE  \E r : IsRun(r, n, T, base, step)
  <1> DEFINE Run(r, k) == /\ r \in [0..k -> T] /\ r[0] = base
                          /\ \A i \in 1..k : r[i] = step[<<r[i - 1], i>>]
             P == {k \in 0..n : \E r : Run(r, k)}
  <1>1. 0 \in P
    <2>1. Run([i \in 0..0 |-> base], 0)
      OBVIOUS
    <2> HIDE DEF Run
    <2> QED BY <2>1
  <1>2. \A k \in 0..(n - 1) : k \in P => k + 1 \in P
    <2> SUFFICES ASSUME NEW k \in 0..(n - 1), NEW r, Run(r, k) PROVE k + 1 \in P
      OBVIOUS
    <2> DEFINE q == [i \in 0..(k + 1) |-> IF i <= k THEN r[i] ELSE step[<<r[k], k + 1>>]]
    <2>1. <<r[k], k + 1>> \in T \X (1..n)
      OBVIOUS
    <2>2. step[<<r[k], k + 1>>] \in T
      BY <2>1
    <2>3. q \in [0..(k + 1) -> T]
      BY <2>2
    <2>4. \A i \in 1..(k + 1) : q[i] = step[<<q[i - 1], i>>]
      <3> TAKE i \in 1..(k + 1)
      <3>1. CASE i <= k
        <4>1. i \in 1..k /\ i - 1 \in 0..k /\ i \in 0..(k + 1) /\ i - 1 \in 0..(k + 1)
          BY <3>1
        <4>2. q[i] = r[i] /\ q[i - 1] = r[i - 1]
          BY <4>1
        <4> QED BY <4>1, <4>2
      <3>2. CASE i = k + 1
        <4>1. q[k] = r[k] /\ q[k + 1] = step[<<r[k], k + 1>>] /\ i - 1 = k
          BY <3>2
        <4> HIDE DEF q
        <4> QED BY <3>2, <4>1
      <3> QED BY <3>1, <3>2
    <2>5. q[0] = base
      OBVIOUS
    <2>6. Run(q, k + 1)
      BY <2>3, <2>4, <2>5
    <2> HIDE DEF Run
    <2> QED BY <2>6
  <1>3. n \in P
    <2> HIDE DEF P
    <2> QED BY <1>1, <1>2, UpTo
  <1> QED BY <1>3 DEF IsRun

\* The table a fold over 1..n computes exists: the last number of each set is
\* taken off first.
IsFold(h, n, T, base, step) ==
    /\ h \in [SUBSET (1..n) -> T]
    /\ \A s \in SUBSET (1..n) :
          h[s] = IF s = {} THEN base ELSE step[<<h[s \ {Max(s)}], Max(s)>>]

\* There is a table for every base and every step: what a recursive definition needs.
LEMMA FoldExists ==
  ASSUME NEW n \in Nat, NEW T, NEW base \in T, NEW step \in [T \X (1..n) -> T]
  PROVE  \E h : IsFold(h, n, T, base, step)
  <1> DEFINE Good(h, k) == /\ h \in [SUBSET (1..k) -> T]
                           /\ \A s \in SUBSET (1..k) :
                                h[s] = IF s = {} THEN base ELSE step[<<h[s \ {Max(s)}], Max(s)>>]
             P == {k \in 0..n : \E h : Good(h, k)}
  <1>1. 0 \in P
    <2>1. Good([s \in SUBSET (1..0) |-> base], 0)
      OBVIOUS
    <2> HIDE DEF Good
    <2> QED BY <2>1
  <1>2. \A k \in 0..(n - 1) : k \in P => k + 1 \in P
    <2> SUFFICES ASSUME NEW k \in 0..(n - 1), NEW h, Good(h, k) PROVE k + 1 \in P
      OBVIOUS
    <2> DEFINE q == [s \in SUBSET (1..(k + 1)) |->
                       IF k + 1 \in s THEN step[<<h[s \ {k + 1}], k + 1>>] ELSE h[s]]
    <2>1. ASSUME NEW s \in SUBSET (1..(k + 1)), k + 1 \notin s
          PROVE  s \in SUBSET (1..k) /\ q[s] = h[s]
      BY <2>1
    <2>2. ASSUME NEW s \in SUBSET (1..(k + 1)), k + 1 \in s
          PROVE  /\ s \ {k + 1} \in SUBSET (1..k) /\ Max(s) = k + 1 /\ s # {}
                 /\ q[s] = step[<<h[s \ {k + 1}], k + 1>>]
      <3>1. Max(s) \in s /\ \A y \in s : Max(s) >= y
        <4>1. \E x \in s : \A y \in s : x >= y
          <5>1. \A y \in s : k + 1 >= y
            OBVIOUS
          <5> QED BY <5>1, <2>2
        <4> QED BY <4>1 DEF Max
      <3>2. Max(s) = k + 1
        <4>1. Max(s) \in 1..(k + 1) /\ Max(s) >= k + 1
          BY <3>1, <2>2
        <4> QED BY <4>1
      <3> QED BY <3>2, <2>2
    <2>3. q \in [SUBSET (1..(k + 1)) -> T]
      <3> SUFFICES ASSUME NEW s \in SUBSET (1..(k + 1)) PROVE q[s] \in T
        OBVIOUS
      <3>1. CASE k + 1 \in s
        <4>1. h[s \ {k + 1}] \in T
          BY <3>1, <2>2
        <4>2. <<h[s \ {k + 1}], k + 1>> \in T \X (1..n)
          BY <4>1
        <4> QED BY <4>2, <3>1, <2>2
      <3>2. CASE k + 1 \notin s
        BY <3>2, <2>1
      <3> QED BY <3>1, <3>2
    <2>4. ASSUME NEW s \in SUBSET (1..(k + 1))
          PROVE  q[s] = IF s = {} THEN base ELSE step[<<q[s \ {Max(s)}], Max(s)>>]
      <3>1. CASE k + 1 \in s
        <4>1. q[s \ {k + 1}] = h[s \ {k + 1}]
          <5>1. s \ {k + 1} \in SUBSET (1..(k + 1)) /\ k + 1 \notin s \ {k + 1}
            OBVIOUS
          <5> QED BY <5>1, <2>1
        <4> HIDE DEF q
        <4> QED BY <3>1, <2>2, <4>1
      <3>2. CASE k + 1 \notin s
        <4>1. s \in SUBSET (1..k) /\ q[s] = h[s]
          BY <3>2, <2>1
        <4>2. CASE s = {}
          BY <4>1, <4>2
        <4>3. CASE s # {}
          <5>1. s \ {Max(s)} \in SUBSET (1..(k + 1)) /\ k + 1 \notin s \ {Max(s)}
            BY <3>2
          <5>2. q[s \ {Max(s)}] = h[s \ {Max(s)}]
            BY <5>1, <2>1
          <5> HIDE DEF q
          <5> QED BY <4>1, <4>3, <5>2
        <4> QED BY <4>2, <4>3
      <3> QED BY <3>1, <3>2
    <2>5. Good(q, k + 1)
      BY <2>3, <2>4
    <2> HIDE DEF Good
    <2> QED BY <2>5
  <1>3. n \in P
    <2> HIDE DEF P
    <2> QED BY <1>1, <1>2, UpTo
  <1> QED BY <1>3 DEF IsFold

\* The largest number of a segment, and the segment without it.
LEMMA MaxSegment ==
  ASSUME NEW k \in Nat \ {0}
  PROVE  /\ Max(1..k) = k /\ (1..k) \ {k} = 1..(k - 1) /\ 1..k # {}
  <1>1. k \in 1..k /\ \A y \in 1..k : k >= y
    OBVIOUS
  <1>2. Max(1..k) \in 1..k /\ \A y \in 1..k : Max(1..k) >= y
    BY <1>1 DEF Max
  <1>3. Max(1..k) = k
    <2>1. Max(1..k) >= k /\ Max(1..k) \in Nat /\ Max(1..k) <= k
      BY <1>1, <1>2
    <2> QED BY <2>1
  <1>4. (1..k) \ {k} = 1..(k - 1)
    OBVIOUS
  <1> QED BY <1>1, <1>3, <1>4

\* A set of numbers up to n that is not empty has a largest one.
LEMMA SetMax ==
  ASSUME NEW n \in Nat, NEW s \in SUBSET (1..n), s # {}
  PROVE  \E x \in s : \A y \in s : x >= y
  <1> DEFINE D == {n - x : x \in s}
  <1>1. D \in SUBSET Nat /\ D # {}
    <2>1. \A x \in s : n - x \in Nat /\ n - x \in D
      OBVIOUS
    <2> QED BY <2>1
  <1>2. PICK d \in D : \A e \in D : d <= e
    <2> HIDE DEF D
    <2> QED BY <1>1, NatMin
  <1>3. PICK x \in s : d = n - x
    BY <1>2
  <1>4. \A y \in s : x >= y
    <2> TAKE y \in s
    <2>1. n - y \in D
      OBVIOUS
    <2>2. d <= n - y
      BY <2>1, <1>2
    <2>3. x \in Nat /\ y \in Nat /\ d = n - x
      BY <1>3
    <2> QED BY <2>2, <2>3
  <1> QED BY <1>4

\* The lists the loop of Picked goes through.
PickRun(r, s, K, X) ==
    /\ r \in [0..Len(s) -> Seq(X)]
    /\ r[0] = <<>>
    /\ \A k \in 1..Len(s) : r[k] = IF k \in K THEN Append(r[k - 1], s[k]) ELSE r[k - 1]

\* Picked returns the last list of its loop.
LEMMA PickedRun ==
  ASSUME NEW X, NEW s \in Seq(X), NEW K
  PROVE  \E r : PickRun(r, s, K, X) /\ Picked(s, K) = r[Len(s)]
  <1> DEFINE n == Len(s)
             T == Seq(X)
             base == <<>>
             step == [p \in Seq(X) \X (1..n) |->
                        IF p[2] \in K THEN Append(p[1], s[p[2]]) ELSE p[1]]
             body(r) == [k \in 0..n |-> IF k = 0 THEN <<>>
                           ELSE IF k \in K THEN Append(r[k - 1], s[k]) ELSE r[k - 1]]
  <1>1. n \in Nat /\ <<>> \in Seq(X) /\ \A k \in 1..n : s[k] \in X
    OBVIOUS
  <1>2. step \in [Seq(X) \X (1..n) -> Seq(X)]
    BY <1>1
  <1>3. PICK r : IsRun(r, n, T, base, step)
    <2>1. n \in Nat /\ base \in T /\ step \in [T \X (1..n) -> T]
      BY <1>1, <1>2
    <2> HIDE DEF step, n, T, base
    <2> QED BY <2>1, RunExists
  <1>0. /\ r \in [0..n -> T] /\ r[0] = <<>>
        /\ \A k \in 1..n : r[k] = step[<<r[k - 1], k>>]
    BY <1>3 DEF IsRun
  <1>4. \A k \in 1..n : r[k] = IF k \in K THEN Append(r[k - 1], s[k]) ELSE r[k - 1]
    <2> TAKE k \in 1..n
    <2>1. r[k - 1] \in T
      BY <1>0, <1>1
    <2>2. <<r[k - 1], k>> \in Seq(X) \X (1..n)
      BY <2>1
    <2> QED BY <2>2, <1>0
  <1>5. r = body(r)
    <2>1. ASSUME NEW k \in 0..n PROVE r[k] = body(r)[k]
      <3>1. CASE k = 0
        BY <3>1, <1>0, <1>1
      <3>2. CASE k # 0
        <4>1. k \in 1..n
          BY <3>2, <1>1
        <4> QED BY <4>1, <3>2, <1>4
      <3> QED BY <3>1, <3>2
    <2>2. DOMAIN r = 0..n /\ DOMAIN body(r) = 0..n
      BY <1>0
    <2>3. r = [k \in 0..n |-> r[k]]
      BY <1>0
    <2> HIDE DEF n
    <2> QED BY <2>1, <2>2, <2>3
  <1> DEFINE pick == CHOOSE f : f = body(f)
  <1>6. pick = body(pick)
    <2> HIDE DEF body
    <2> QED BY <1>5
  <1>7. Picked(s, K) = pick[n]
    BY DEF Picked
  <1>8. \A k \in 0..n : pick[k] = r[k]
    <2> DEFINE P == {k \in 0..n : pick[k] = r[k]}
    <2>0. \A k \in 0..n : pick[k] = IF k = 0 THEN <<>>
                           ELSE IF k \in K THEN Append(pick[k - 1], s[k]) ELSE pick[k - 1]
      <3> HIDE DEF pick
      <3> QED BY <1>6
    <2> HIDE DEF pick
    <2>1. 0 \in P
      BY <2>0, <1>0, <1>1
    <2>2. \A k \in 0..(n - 1) : k \in P => k + 1 \in P
      BY <2>0, <1>4, <1>1
    <2> HIDE DEF P
    <2>3. \A k \in 0..n : k \in P
      BY <2>1, <2>2, <1>1, UpTo
    <2> QED BY <2>3 DEF P
  <1>9. Picked(s, K) = r[n]
    BY <1>1, <1>7, <1>8
  <1> HIDE DEF pick, body, step
  <1>10. PickRun(r, s, K, X)
    BY <1>0, <1>4 DEF PickRun
  <1> QED BY <1>9, <1>10

\* What is picked from a sequence over X is a sequence over X.
LEMMA PickedSeq ==
  ASSUME NEW X, NEW s \in Seq(X), NEW K
  PROVE  Picked(s, K) \in Seq(X)
  <1>1. PICK r : PickRun(r, s, K, X) /\ Picked(s, K) = r[Len(s)]
    BY PickedRun
  <1>2. r \in [0..Len(s) -> Seq(X)]
    BY <1>1 DEF PickRun
  <1>3. Len(s) \in 0..Len(s)
    OBVIOUS
  <1> QED BY <1>1, <1>2, <1>3

MappedIdsRunIs(r, ids, alias) ==
    /\ r \in [0..Len(ids) -> Seq({Mapped(alias, id) : id \in Range(ids)})]
    /\ r[0] = <<>>
    /\ \A k \in 1..Len(ids) : r[k] =
          IF Mapped(alias, ids[k]) \in Range(r[k - 1]) THEN r[k - 1]
          ELSE Append(r[k - 1], Mapped(alias, ids[k]))

\* mapped_ids returns the last list of its loop.
LEMMA MappedIdsRun ==
  ASSUME NEW ids,
         IsList(ids),
         NEW alias
  PROVE  \E r : MappedIdsRunIs(r, ids, alias) /\ mapped_ids(ids, alias) = r[Len(ids)]
  <1> DEFINE n == Len(ids)
             T == Seq({Mapped(alias, id) : id \in Range(ids)})
             base == <<>>
             Op(x, k) == IF Mapped(alias, ids[k]) \in Range(x) THEN x ELSE Append(x, Mapped(alias, ids[k]))
             step == [p \in T \X (1..n) |-> Op(p[1], p[2])]
             body(h) == [s \in SUBSET DOMAIN ids |->
                           IF s = {} THEN <<>>
                           ELSE IF Mapped(alias, ids[Max(s)]) \in Range(h[s \ {Max(s)}])
                               THEN h[s \ {Max(s)}]
                               ELSE Append(h[s \ {Max(s)}], Mapped(alias, ids[Max(s)]))]
             iter == CHOOSE h : h = body(h)
  <1>1. n \in Nat /\ DOMAIN ids = 1..n
    BY DEF IsList
  <1>2. base \in T /\ \A x \in T : \A k \in 1..n : Op(x, k) \in T
    BY <1>1 DEF IsList, Range
  <1>3. step \in [T \X (1..n) -> T]
    <2> HIDE DEF T, Op
    <2> QED BY <1>2
  <1>4. PICK h : IsFold(h, n, T, base, step)
    <2> HIDE DEF n, T, base, step
    <2> QED BY <1>1, <1>2, <1>3, FoldExists
  <1>5. PICK r : IsRun(r, n, T, base, step)
    <2> HIDE DEF n, T, base, step
    <2> QED BY <1>1, <1>2, <1>3, RunExists
  <1>6. ASSUME NEW x \in T, NEW k \in 1..n
        PROVE  step[<<x, k>>] = Op(x, k)
    <2> HIDE DEF T, Op
    <2>1. <<x, k>> \in T \X (1..n) /\ <<x, k>>[1] = x /\ <<x, k>>[2] = k
      OBVIOUS
    <2> QED BY <2>1
  <1>7. h = body(h)
    <2>1. h = [s \in SUBSET (1..n) |-> h[s]]
      BY <1>4 DEF IsFold
    <2>2. ASSUME NEW s \in SUBSET (1..n)
          PROVE  h[s] = IF s = {} THEN base ELSE Op(h[s \ {Max(s)}], Max(s))
      <3>1. CASE s = {}
        BY <3>1, <1>4 DEF IsFold
      <3>2. CASE s # {}
        <4>1. Max(s) \in s
          <5>1. \E x \in s : \A y \in s : x >= y
            BY <3>2, <1>1, SetMax
          <5> QED BY <5>1 DEF Max
        <4>2. Max(s) \in 1..n /\ s \ {Max(s)} \in SUBSET (1..n)
          BY <4>1
        <4>3. h[s \ {Max(s)}] \in T /\ h[s] = step[<<h[s \ {Max(s)}], Max(s)>>]
          <5> HIDE DEF T, step, base, n
          <5> QED BY <4>2, <3>2, <1>4 DEF IsFold
        <4> HIDE DEF T, Op, step
        <4> QED BY <4>2, <4>3, <1>6, <3>2
      <3> QED BY <3>1, <3>2
    <2> HIDE DEF n
    <2> QED BY <2>1, <2>2, <1>1
  <1>8. iter = body(iter)
    <2> HIDE DEF body
    <2> QED BY <1>7
  <1>9. mapped_ids(ids, alias) = iter[1..n]
    <2>1. mapped_ids(ids, alias) = iter[DOMAIN ids]
      BY DEF mapped_ids, FoldLeft, MapThenFoldSet
    <2> HIDE DEF iter, n
    <2> QED BY <2>1, <1>1
  <1>10. /\ r \in [0..n -> T] /\ r[0] = base
         /\ \A k \in 1..n : r[k] = Op(r[k - 1], k)
    <2>1. /\ r \in [0..n -> T] /\ r[0] = base
          /\ \A k \in 1..n : r[k] = step[<<r[k - 1], k>>]
      BY <1>5 DEF IsRun
    <2>2. ASSUME NEW k \in 1..n PROVE r[k] = Op(r[k - 1], k)
      <3>1. r[k - 1] \in T
        BY <2>1, <1>1
      <3> HIDE DEF T, Op, step, n
      <3> QED BY <2>1, <3>1, <1>6
    <2> QED BY <2>1, <2>2
  <1>11. \A k \in 0..n : iter[1..k] = r[k]
    <2> DEFINE P == {k \in 0..n : iter[1..k] = r[k]}
    <2>1. 0 \in P
      <3>1. {} \in SUBSET DOMAIN ids /\ 1..0 = {}
        OBVIOUS
      <3>2. iter[{}] = base
        <4> HIDE DEF iter
        <4> QED BY <3>1, <1>8
      <3> HIDE DEF iter
      <3> QED BY <3>1, <3>2, <1>10, <1>1
    <2>2. ASSUME NEW k \in 0..(n - 1), k \in P PROVE k + 1 \in P
      <3>1. /\ 1..(k + 1) \in SUBSET DOMAIN ids /\ 1..(k + 1) # {}
            /\ Max(1..(k + 1)) = k + 1 /\ (1..(k + 1)) \ {k + 1} = 1..k
        BY <1>1, MaxSegment
      <3>2. iter[1..(k + 1)] = Op(iter[1..k], k + 1)
        <4> HIDE DEF iter
        <4> QED BY <3>1, <1>8
      <3>3. iter[1..k] = r[k] /\ r[k + 1] = Op(r[k], k + 1) /\ k + 1 \in 0..n
        BY <2>2, <1>10, <1>1
      <3> HIDE DEF iter, Op
      <3> QED BY <3>2, <3>3
    <2> HIDE DEF P
    <2>3. \A k \in 0..n : k \in P
      BY <2>1, <2>2, <1>1, UpTo
    <2> QED BY <2>3 DEF P
  <1>12. mapped_ids(ids, alias) = r[n]
    <2>1. n \in 0..n
      BY <1>1
    <2> HIDE DEF iter, n
    <2> QED BY <2>1, <1>9, <1>11
  <1> HIDE DEF iter, body, step
  <1>13. MappedIdsRunIs(r, ids, alias)
    BY <1>10 DEF MappedIdsRunIs
  <1> QED BY <1>12, <1>13

Flattened(f, s, n) == /\ f = [i \in 1..n |-> f[i]]
                      /\ \A i \in 1..n : f[i] = IF i = 1 THEN s[i] ELSE f[i - 1] \o s[i]

\* FlattenSeq joins the lists from the left.
LEMMA FlattenIs ==
  ASSUME NEW s, NEW n \in Nat \ {0}, Len(s) = n
  PROVE  \E f : Flattened(f, s, n) /\ FlattenSeq(s) = f[n]
  <1> DEFINE P == {k \in 0..n : \E f : Flattened(f, s, k)}
             body(f) == [i \in 1..n |-> IF i = 1 THEN s[i] ELSE f[i - 1] \o s[i]]
             g == CHOOSE f : f = body(f)
  <1>1. 0 \in P
    <2>1. Flattened([i \in 1..0 |-> i], s, 0)
      BY DEF Flattened
    <2> QED BY <2>1
  <1>2. ASSUME NEW k \in 0..(n - 1), k \in P PROVE k + 1 \in P
    <2>1. PICK f : Flattened(f, s, k)
      BY <1>2
    <2> DEFINE e == [i \in 1..(k + 1) |-> IF i <= k THEN f[i]
                       ELSE IF i = 1 THEN s[i] ELSE f[i - 1] \o s[i]]
    <2>2. ASSUME NEW i \in 1..(k + 1)
          PROVE  e[i] = IF i = 1 THEN s[i] ELSE e[i - 1] \o s[i]
      <3>1. CASE i <= k
        <4>1. i \in 1..k /\ (i # 1 => i - 1 \in 1..k /\ i - 1 \in 1..(k + 1))
          BY <3>1
        <4>2. e[i] = f[i] /\ (i # 1 => e[i - 1] = f[i - 1])
          BY <4>1
        <4> HIDE DEF e
        <4> QED BY <4>1, <4>2, <2>1 DEF Flattened
      <3>2. CASE i = k + 1
        <4>1. i # 1 => i - 1 \in 1..(k + 1) /\ e[i - 1] = f[i - 1]
          BY <3>2
        <4> QED BY <3>2, <4>1
      <3> QED BY <3>1, <3>2
    <2>3. e = [i \in 1..(k + 1) |-> e[i]]
      OBVIOUS
    <2>4. Flattened(e, s, k + 1)
      <3> HIDE DEF e
      <3> QED BY <2>2, <2>3 DEF Flattened
    <2> HIDE DEF e
    <2> QED BY <2>4
  <1>3. n \in P
    <2>0. n \in Nat /\ n \in 0..n
      OBVIOUS
    <2> HIDE DEF P
    <2>1. \A k \in 0..n : k \in P
      BY <1>1, <1>2, <2>0, UpTo
    <2> QED BY <2>0, <2>1
  <1>4. PICK f : Flattened(f, s, n)
    BY <1>3
  <1>5. f = body(f)
    BY <1>4 DEF Flattened
  <1>6. g = body(g)
    <2> HIDE DEF body
    <2> QED BY <1>5
  <1>7. FlattenSeq(s) = g[n]
    BY DEF FlattenSeq
  <1>8. Flattened(g, s, n)
    <2> HIDE DEF g
    <2>1. g = [i \in 1..n |-> g[i]]
      BY <1>6
    <2>2. \A i \in 1..n : g[i] = IF i = 1 THEN s[i] ELSE g[i - 1] \o s[i]
      BY <1>6
    <2> QED BY <2>1, <2>2 DEF Flattened
  <1> HIDE DEF g
  <1> QED BY <1>7, <1>8

\* Nothing joined is nothing.
LEMMA FlattenEmpty ==
  ASSUME NEW s, Len(s) = 0
  PROVE  FlattenSeq(s) = s
  BY DEF FlattenSeq

\* The elements of joined lists are those of the lists.
LEMMA FlattenInto ==
  ASSUME NEW s, IsList(s), \A i \in DOMAIN s : IsList(s[i])
  PROVE  FlattenSeq(s) \in Seq(UNION {Range(s[i]) : i \in DOMAIN s})
  <1> DEFINE X == UNION {Range(s[i]) : i \in DOMAIN s}
             n == Len(s)
  <1>1. n \in Nat /\ DOMAIN s = 1..n
    BY DEF IsList
  <1>2. CASE n = 0
    <2>1. FlattenSeq(s) = s
      BY <1>2, FlattenEmpty
    <2>2. s \in [1..0 -> X] /\ s \in Seq(Range(s))
      BY <1>1, <1>2 DEF IsList
    <2> HIDE DEF X
    <2>3. s \in Seq(X)
      BY <1>1, <1>2, <2>2
    <2> QED BY <2>1, <2>3 DEF X
  <1>3. CASE n # 0
    <2>1. PICK f : Flattened(f, s, n) /\ FlattenSeq(s) = f[n]
      BY <1>1, <1>3, FlattenIs
    <2>2. \A i \in 1..n : s[i] \in Seq(X)
      <3> TAKE i \in 1..n
      <3>1. s[i] \in Seq(Range(s[i])) /\ Range(s[i]) \subseteq X
        BY <1>1 DEF IsList
      <3> QED BY <3>1
    <2> DEFINE P == {k \in 0..n : k # 0 => f[k] \in Seq(X)}
    <2>3. 0 \in P
      BY <1>1
    <2>4. ASSUME NEW k \in 0..(n - 1), k \in P PROVE k + 1 \in P
      <3>1. k + 1 \in 1..n
        BY <1>1
      <3>2. f[k + 1] = IF k + 1 = 1 THEN s[k + 1] ELSE f[k] \o s[k + 1]
        <4>1. (k + 1) - 1 = k
          OBVIOUS
        <4>2. f[k + 1] = IF k + 1 = 1 THEN s[k + 1] ELSE f[(k + 1) - 1] \o s[k + 1]
          <5> HIDE DEF n
          <5> QED BY <3>1, <2>1 DEF Flattened
        <4> QED BY <4>1, <4>2
      <3>3. s[k + 1] \in Seq(X)
        BY <3>1, <2>2
      <3>4. k # 0 => f[k] \in Seq(X)
        BY <2>4
      <3> HIDE DEF X
      <3>5. f[k + 1] \in Seq(X)
        <4>1. CASE k = 0
          BY <4>1, <3>2, <3>3
        <4>2. CASE k # 0
          BY <4>2, <3>2, <3>3, <3>4
        <4> QED BY <4>1, <4>2
      <3> QED BY <3>1, <3>5
    <2>5. n \in P
      <3>0. n \in 0..n
        BY <1>1
      <3> HIDE DEF P, n
      <3>1. \A k \in 0..n : k \in P
        BY <2>3, <2>4, <1>1, UpTo
      <3> QED BY <3>0, <3>1
    <2> QED BY <2>5, <2>1, <1>3
  <1> QED BY <1>2, <1>3

\* Joined lists are a list.
LEMMA FlattenList ==
  ASSUME NEW s, IsList(s), \A i \in DOMAIN s : IsList(s[i])
  PROVE  IsList(FlattenSeq(s))
  BY FlattenInto, SeqIsList

\* A list more is appended to the joined lists.
LEMMA FlattenAppend ==
  ASSUME NEW s, IsList(s), NEW x, IsList(x)
  PROVE  FlattenSeq(Append(s, x)) = FlattenSeq(s) \o x
  <1> DEFINE t == Append(s, x)
             n == Len(s)
  <1>1. n \in Nat /\ Len(t) = n + 1 /\ t[n + 1] = x /\ \A i \in 1..n : t[i] = s[i]
    BY DEF IsList
  <1>2. PICK g : Flattened(g, t, n + 1) /\ FlattenSeq(t) = g[n + 1]
    <2> HIDE DEF t, n
    <2> QED BY <1>1, FlattenIs
  <1>3. CASE n = 0
    <2>1. FlattenSeq(s) = <<>>
      BY <1>3, FlattenEmpty DEF IsList
    <2>2. FlattenSeq(t) = x
      BY <1>1, <1>2, <1>3 DEF Flattened
    <2> QED BY <2>1, <2>2 DEF IsList
  <1>4. CASE n # 0
    <2>1. PICK f : Flattened(f, s, n) /\ FlattenSeq(s) = f[n]
      BY <1>1, <1>4, FlattenIs
    <2> DEFINE P == {k \in 0..n : k # 0 => g[k] = f[k]}
    <2>2. 0 \in P
      BY <1>1
    <2>3. ASSUME NEW k \in 0..(n - 1), k \in P PROVE k + 1 \in P
      <3>1. k + 1 \in 1..n /\ k + 1 \in 1..(n + 1) /\ t[k + 1] = s[k + 1]
        BY <1>1
      <3>2. k \in Nat /\ (k + 1) - 1 = k /\ k + 1 \in 0..n
        BY <1>1
      <3>3. k # 0 => g[k] = f[k]
        BY <2>3
      <3> HIDE DEF t, n
      <3>4. g[k + 1] = IF k + 1 = 1 THEN t[k + 1] ELSE g[(k + 1) - 1] \o t[k + 1]
        BY <3>1, <1>2 DEF Flattened
      <3>5. f[k + 1] = IF k + 1 = 1 THEN s[k + 1] ELSE f[(k + 1) - 1] \o s[k + 1]
        BY <3>1, <2>1 DEF Flattened
      <3>6. g[k + 1] = f[k + 1]
        BY <3>1, <3>2, <3>3, <3>4, <3>5
      <3> QED BY <3>2, <3>6
    <2>4. n \in P
      <3>0. n \in 0..n
        BY <1>1
      <3> HIDE DEF P, n
      <3>1. \A k \in 0..n : k \in P
        BY <2>2, <2>3, <1>1, UpTo
      <3> QED BY <3>0, <3>1
    <2>5. g[n] = f[n]
      BY <2>4, <1>4
    <2>6. g[n + 1] = g[n] \o t[n + 1]
      <3>1. n + 1 \in 1..(n + 1) /\ n + 1 # 1 /\ (n + 1) - 1 = n
        BY <1>1, <1>4
      <3> HIDE DEF t, n
      <3>2. g[n + 1] = IF n + 1 = 1 THEN t[n + 1] ELSE g[(n + 1) - 1] \o t[n + 1]
        BY <3>1, <1>2 DEF Flattened
      <3> QED BY <3>1, <3>2
    <2> QED BY <2>5, <2>6, <2>1, <1>2, <1>1
  <1> QED BY <1>3, <1>4

\* Length, positions and emptiness of a list.
LEMMA ListFacts ==
  ASSUME NEW s, IsList(s)
  PROVE  /\ Len(s) \in Nat /\ DOMAIN s = 1..Len(s)
         /\ s = [i \in 1..Len(s) |-> s[i]]
         /\ s # <<>> => Len(s) # 0
         /\ Len(s) = 0 => s = <<>>
  BY DEF IsList

\* A function on 1..n is a list of length n.
LEMMA FnIsList ==
  ASSUME NEW n \in Nat, NEW f, f = [i \in 1..n |-> f[i]]
  PROVE  IsList(f) /\ Len(f) = n /\ DOMAIN f = 1..n
  <1> DEFINE X == {f[i] : i \in 1..n}
  <1>1. [i \in 1..n |-> f[i]] \in Seq(X) /\ Len([i \in 1..n |-> f[i]]) = n
    OBVIOUS
  <1>2. f \in Seq(X) /\ Len(f) = n
    BY <1>1
  <1> HIDE DEF X
  <1> QED BY <1>2, SeqIsList

\* What Append does to length, positions and elements.
LEMMA AppendList ==
  ASSUME NEW s, IsList(s), NEW x
  PROVE  /\ IsList(Append(s, x)) /\ Len(Append(s, x)) = Len(s) + 1
         /\ DOMAIN Append(s, x) = 1..(Len(s) + 1)
         /\ Append(s, x)[Len(s) + 1] = x
         /\ \A i \in 1..Len(s) : Append(s, x)[i] = s[i]
         /\ Append(s, x) # <<>>
         /\ Range(Append(s, x)) = Range(s) \cup {x}
         /\ Last(Append(s, x)) = x
         /\ Append(s, x) = s \o <<x>>
  <1> DEFINE X == Range(s) \cup {x}
  <1>1. s \in Seq(X) /\ x \in X
    BY DEF IsList
  <1>2. Append(s, x) \in Seq(X) /\ Len(s) \in Nat
    BY <1>1
  <1>3. /\ Len(Append(s, x)) = Len(s) + 1
        /\ DOMAIN Append(s, x) = 1..(Len(s) + 1)
        /\ Append(s, x)[Len(s) + 1] = x
        /\ \A i \in 1..Len(s) : Append(s, x)[i] = s[i]
        /\ DOMAIN s = 1..Len(s)
    BY <1>1
  <1>4. Range(Append(s, x)) = X
    <2>1. Range(Append(s, x)) \subseteq X
      BY <1>2 DEF Range
    <2>2. x \in Range(Append(s, x))
      BY <1>2, <1>3 DEF Range
    <2>3. \A y \in Range(s) : y \in Range(Append(s, x))
      BY <1>2, <1>3 DEF Range
    <2> QED BY <2>1, <2>2, <2>3
  <1>5. Append(s, x) # <<>> /\ Last(Append(s, x)) = x
    BY <1>2, <1>3 DEF Last
  <1>6. Append(s, x) = s \o <<x>>
    BY <1>1
  <1>7. IsList(Append(s, x))
    <2> HIDE DEF X
    <2> QED BY <1>2, SeqIsList
  <1> QED BY <1>3, <1>4, <1>5, <1>6, <1>7

\* What concatenation does to length, positions and elements.
LEMMA ConcatList ==
  ASSUME NEW s, IsList(s), NEW t, IsList(t)
  PROVE  /\ IsList(s \o t) /\ Len(s \o t) = Len(s) + Len(t)
         /\ DOMAIN (s \o t) = 1..(Len(s) + Len(t))
         /\ \A i \in 1..Len(s) : (s \o t)[i] = s[i]
         /\ \A i \in 1..Len(t) : (s \o t)[Len(s) + i] = t[i]
         /\ Range(s \o t) = Range(s) \cup Range(t)
         /\ <<>> \o t = t
  <1> DEFINE X == Range(s) \cup Range(t)
  <1>1. s \in Seq(X) /\ t \in Seq(X)
    BY DEF IsList
  <1>2. s \o t \in Seq(X) /\ Len(s) \in Nat /\ Len(t) \in Nat
    BY <1>1
  <1>3. /\ Len(s \o t) = Len(s) + Len(t)
        /\ DOMAIN (s \o t) = 1..(Len(s) + Len(t))
        /\ \A i \in 1..Len(s) : (s \o t)[i] = s[i]
        /\ \A i \in 1..Len(t) : (s \o t)[Len(s) + i] = t[i]
        /\ DOMAIN s = 1..Len(s) /\ DOMAIN t = 1..Len(t)
        /\ <<>> \o t = t
    <2>1. \A i \in 1..Len(t) : (s \o t)[Len(s) + i] = t[i]
      <3> TAKE i \in 1..Len(t)
      <3>1. Len(s) + i \in 1..(Len(s) + Len(t)) /\ ~(Len(s) + i <= Len(s)) /\ (Len(s) + i) - Len(s) = i
        BY <1>2
      <3> QED BY <3>1, <1>1, <1>2
    <2> QED BY <1>1, <2>1
  <1>4. Range(s \o t) = X
    <2>1. Range(s \o t) \subseteq X
      BY <1>2 DEF Range
    <2>2. \A y \in Range(s) : y \in Range(s \o t)
      BY <1>2, <1>3 DEF Range
    <2>3. ASSUME NEW y \in Range(t) PROVE y \in Range(s \o t)
      <3>1. PICK i \in 1..Len(t) : y = t[i]
        BY <1>3 DEF Range
      <3>2. Len(s) + i \in DOMAIN (s \o t) /\ (s \o t)[Len(s) + i] = y
        BY <3>1, <1>2, <1>3
      <3> QED BY <3>2 DEF Range
    <2> QED BY <2>1, <2>2, <2>3
  <1>5. IsList(s \o t)
    <2> HIDE DEF X
    <2> QED BY <1>2, SeqIsList
  <1> QED BY <1>3, <1>4, <1>5

\* The empty list has no positions and no elements.
LEMMA EmptyList == IsList(<<>>) /\ Len(<<>>) = 0 /\ DOMAIN <<>> = {} /\ Range(<<>>) = {}
  BY DEF IsList, Range

\* A list of one element.
LEMMA OneList ==
  ASSUME NEW x
  PROVE  IsList(<<x>>) /\ Len(<<x>>) = 1 /\ <<x>>[1] = x /\ DOMAIN <<x>> = 1..1
  BY DEF IsList, Range

\* What is picked from a list is a list of elements of it.
LEMMA PickedList ==
  ASSUME NEW s, IsList(s), NEW K
  PROVE  IsList(Picked(s, K)) /\ Range(Picked(s, K)) \subseteq Range(s)
  <1> DEFINE X == Range(s)
  <1>1. s \in Seq(X)
    BY DEF IsList
  <1>2. Picked(s, K) \in Seq(X)
    <2> HIDE DEF X
    <2> QED BY <1>1, PickedSeq
  <1>3. Range(Picked(s, K)) \subseteq X
    BY <1>2 DEF Range
  <1>4. IsList(Picked(s, K))
    <2> HIDE DEF X
    <2> QED BY <1>2, SeqIsList
  <1> QED BY <1>3, <1>4

\* The mapped ids of a list are a list.
LEMMA MappedList ==
  ASSUME NEW ids, IsList(ids), NEW alias
  PROVE  IsList(mapped_ids(ids, alias))
  <1>1. Len(ids) \in Nat
    BY ListFacts
  <1>2. \E X : mapped_ids(ids, alias) \in Seq(X)
    <2> DEFINE X == {Mapped(alias, id) : id \in Range(ids)}
    <2>1. mapped_ids(ids, alias) \in Seq(X)
      <3>1. PICK r : MappedIdsRunIs(r, ids, alias) /\ mapped_ids(ids, alias) = r[Len(ids)]
        BY MappedIdsRun
      <3>2. r \in [0..Len(ids) -> Seq(X)]
        BY <3>1 DEF MappedIdsRunIs
      <3> HIDE DEF X
      <3> QED BY <3>1, <3>2, <1>1
    <2> HIDE DEF X
    <2> QED BY <2>1
  <1> QED BY <1>2, SeqIsList

\* The loop of Picked over a list.
LEMMA PickedLoop ==
  ASSUME NEW s, IsList(s), NEW K
  PROVE  \E r : PickRun(r, s, K, Range(s)) /\ Picked(s, K) = r[Len(s)]
  <1> DEFINE X == Range(s)
  <1>1. s \in Seq(X)
    BY DEF IsList
  <1> HIDE DEF X
  <1>2. \E r : PickRun(r, s, K, X) /\ Picked(s, K) = r[Len(s)]
    BY <1>1, PickedRun
  <1> QED BY <1>2 DEF X

\* No position picks nothing.
LEMMA PickedNone ==
  ASSUME NEW s, IsList(s)
  PROVE  Picked(s, {}) = <<>>
  <1> DEFINE n == Len(s)
             X == Range(s)
             K == {}
  <1>1. n \in Nat /\ s \in Seq(X)
    BY ListFacts DEF IsList
  <1>2. PICK r : /\ r \in [0..n -> Seq(X)] /\ r[0] = <<>> /\ Picked(s, K) = r[n]
                 /\ \A k \in 1..n : r[k] = IF k \in K THEN Append(r[k - 1], s[k]) ELSE r[k - 1]
    <2> HIDE DEF K
    <2>1. PICK r : PickRun(r, s, K, Range(s)) /\ Picked(s, K) = r[Len(s)]
      BY PickedLoop
    <2> QED BY <2>1 DEF PickRun
  <1> DEFINE P == {k \in 0..n : r[k] = <<>>}
  <1>3. 0 \in P
    BY <1>1, <1>2
  <1>4. ASSUME NEW k \in 0..(n - 1), k \in P PROVE k + 1 \in P
    <2>1. k + 1 \in 1..n /\ (k + 1) - 1 = k
      BY <1>1
    <2> QED BY <1>4, <2>1, <1>2
  <1>5. \A k \in 0..n : k \in P
    <2> HIDE DEF P, n
    <2> QED BY <1>1, <1>3, <1>4, UpTo
  <1> QED BY <1>1, <1>2, <1>5

\* A position after all others adds its element at the end.
LEMMA PickedAdd ==
  ASSUME NEW s, IsList(s), NEW n \in Nat, n + 1 \in DOMAIN s, NEW K \in SUBSET (1..n)
  PROVE  Picked(s, K \cup {n + 1}) = Append(Picked(s, K), s[n + 1])
  <1> DEFINE m == Len(s)
             X == Range(s)
             J == K \cup {n + 1}
  <1>1. m \in Nat /\ s \in Seq(X) /\ DOMAIN s = 1..m /\ n + 1 <= m
    BY ListFacts DEF IsList
  <1>2. PICK r : /\ r \in [0..m -> Seq(X)] /\ r[0] = <<>> /\ Picked(s, K) = r[m]
                 /\ \A k \in 1..m : r[k] = IF k \in K THEN Append(r[k - 1], s[k]) ELSE r[k - 1]
    <2>1. PICK r : PickRun(r, s, K, Range(s)) /\ Picked(s, K) = r[Len(s)]
      BY PickedLoop
    <2> QED BY <2>1 DEF PickRun
  <1>3. PICK q : /\ q \in [0..m -> Seq(X)] /\ q[0] = <<>> /\ Picked(s, J) = q[m]
                 /\ \A k \in 1..m : q[k] = IF k \in J THEN Append(q[k - 1], s[k]) ELSE q[k - 1]
    <2> HIDE DEF J
    <2>1. PICK q : PickRun(q, s, J, Range(s)) /\ Picked(s, J) = q[Len(s)]
      BY PickedLoop
    <2> QED BY <2>1 DEF PickRun
  <1> HIDE DEF m
  <1>4. \A k \in 0..n : r[k] = q[k]
    <2> DEFINE P == {k \in 0..n : r[k] = q[k]}
    <2>1. 0 \in P
      BY <1>2, <1>3
    <2>2. ASSUME NEW k \in 0..(n - 1), k \in P PROVE k + 1 \in P
      <3>1. k + 1 \in 1..m /\ (k + 1) - 1 = k /\ k + 1 # n + 1 /\ k + 1 \in 0..n
        BY <1>1
      <3>2. k + 1 \in J <=> k + 1 \in K
        BY <3>1
      <3>3. r[k + 1] = IF k + 1 \in K THEN Append(r[k], s[k + 1]) ELSE r[k]
        BY <3>1, <1>2
      <3>4. q[k + 1] = IF k + 1 \in J THEN Append(q[k], s[k + 1]) ELSE q[k]
        BY <3>1, <1>3
      <3> HIDE DEF J
      <3> QED BY <2>2, <3>1, <3>2, <3>3, <3>4
    <2>3. \A k \in 0..n : k \in P
      <3> HIDE DEF P
      <3> QED BY <2>1, <2>2, UpTo
    <2> QED BY <2>3
  <1>5. r[n + 1] = r[n] /\ q[n + 1] = Append(r[n], s[n + 1])
    <2>1. n + 1 \in 1..m /\ (n + 1) - 1 = n /\ n + 1 \notin K /\ n + 1 \in J /\ n \in 0..n
      BY <1>1
    <2>2. r[n + 1] = r[n]
      BY <2>1, <1>2
    <2>3. q[n + 1] = Append(q[n], s[n + 1])
      <3> HIDE DEF J
      <3> QED BY <2>1, <1>3
    <2> QED BY <2>1, <2>2, <2>3, <1>4
  <1>6. \A j \in 0..(m - (n + 1)) : r[(n + 1) + j] = r[n] /\ q[(n + 1) + j] = q[n + 1]
    <2> DEFINE l == m - (n + 1)
               P == {j \in 0..l : r[(n + 1) + j] = r[n] /\ q[(n + 1) + j] = q[n + 1]}
    <2>0. l \in Nat
      BY <1>1
    <2>1. 0 \in P
      <3>1. (n + 1) + 0 = n + 1 /\ 0 \in 0..l
        BY <2>0
      <3> QED BY <3>1, <1>5
    <2>2. ASSUME NEW j \in 0..(l - 1), j \in P PROVE j + 1 \in P
      <3> DEFINE i == (n + 1) + (j + 1)
      <3>1. i \in 1..m /\ i - 1 = (n + 1) + j /\ i # n + 1 /\ i \notin 1..n /\ j + 1 \in 0..l
        BY <1>1, <2>0
      <3>2. i \notin K /\ i \notin J
        BY <3>1
      <3> HIDE DEF i, J
      <3>3. r[i] = r[i - 1] /\ q[i] = q[i - 1]
        BY <3>1, <3>2, <1>2, <1>3
      <3>4. r[i] = r[n] /\ q[i] = q[n + 1]
        BY <2>2, <3>1, <3>3
      <3> QED BY <3>1, <3>4 DEF i
    <2>3. \A j \in 0..l : j \in P
      <3> HIDE DEF P, l
      <3> QED BY <2>0, <2>1, <2>2, UpTo
    <2> QED BY <2>3
  <1>7. r[m] = r[n] /\ q[m] = q[n + 1]
    <2>1. (m - (n + 1)) \in 0..(m - (n + 1)) /\ (n + 1) + (m - (n + 1)) = m
      BY <1>1
    <2> QED BY <2>1, <1>6
  <1> QED BY <1>2, <1>3, <1>5, <1>7 DEF m

\* What is picked are the elements at the positions.
LEMMA PickedRange ==
  ASSUME NEW s, IsList(s), NEW K
  PROVE  Range(Picked(s, K)) = {s[k] : k \in {j \in DOMAIN s : j \in K}}
  <1> DEFINE n == Len(s)
             X == Range(s)
             Up(k) == {s[j] : j \in {i \in 1..k : i \in K}}
  <1>1. n \in Nat /\ s \in Seq(X) /\ DOMAIN s = 1..n
    BY ListFacts DEF IsList
  <1>2. PICK r : /\ r \in [0..n -> Seq(X)] /\ r[0] = <<>> /\ Picked(s, K) = r[n]
                 /\ \A k \in 1..n : r[k] = IF k \in K THEN Append(r[k - 1], s[k]) ELSE r[k - 1]
    <2>1. PICK r : PickRun(r, s, K, Range(s)) /\ Picked(s, K) = r[Len(s)]
      BY PickedLoop
    <2> QED BY <2>1 DEF PickRun
  <1> DEFINE P == {k \in 0..n : Range(r[k]) = Up(k)}
  <1>3. 0 \in P
    <2>1. Up(0) = {}
      OBVIOUS
    <2>2. Range(r[0]) = {}
      BY <1>2, EmptyList
    <2> HIDE DEF Up
    <2>3. 0 \in 0..n /\ Range(r[0]) = Up(0)
      BY <1>1, <2>1, <2>2
    <2> QED BY <2>3
  <1>4. ASSUME NEW k \in 0..(n - 1), k \in P PROVE k + 1 \in P
    <2>1. k + 1 \in 1..n /\ (k + 1) - 1 = k /\ k + 1 \in 0..n /\ k \in 0..n
      BY <1>1
    <2>2. r[k + 1] = IF k + 1 \in K THEN Append(r[k], s[k + 1]) ELSE r[k]
      BY <2>1, <1>2
    <2>3. Range(r[k]) = Up(k) /\ IsList(r[k])
      <3>1. r[k] \in Seq(X)
        BY <2>1, <1>2
      <3> HIDE DEF X
      <3> QED BY <1>4, <3>1, SeqIsList
    <2>4. CASE k + 1 \in K
      <3>1. Up(k + 1) = Up(k) \cup {s[k + 1]}
        BY <2>4, <2>1
      <3>2. Range(Append(r[k], s[k + 1])) = Range(r[k]) \cup {s[k + 1]}
        BY <2>3, AppendList
      <3> HIDE DEF Up
      <3> QED BY <2>1, <2>2, <2>3, <2>4, <3>1, <3>2
    <2>5. CASE k + 1 \notin K
      <3>1. Up(k + 1) = Up(k)
        BY <2>5, <2>1
      <3> HIDE DEF Up
      <3> QED BY <2>1, <2>2, <2>3, <2>5, <3>1
    <2> QED BY <2>4, <2>5
  <1>5. \A k \in 0..n : k \in P
    <2> HIDE DEF P, n
    <2> QED BY <1>1, <1>3, <1>4, UpTo
  <1>6. Range(r[n]) = Up(n)
    <2>1. n \in 0..n
      BY <1>1
    <2> HIDE DEF Up
    <2> QED BY <2>1, <1>5
  <1> QED BY <1>1, <1>2, <1>6

\* Append to the second of two joined lists.
LEMMA AppendOut ==
  ASSUME NEW u, IsList(u), NEW v, IsList(v), NEW x
  PROVE  Append(u \o v, x) = u \o Append(v, x)
  <1> DEFINE X == Range(u) \cup Range(v) \cup {x}
             l == Append(u \o v, x)
             r == u \o Append(v, x)
  <1>0. u \in Seq(X) /\ v \in Seq(X) /\ x \in X
    BY DEF IsList
  <1> HIDE DEF X
  <1>1. /\ Len(u) \in Nat /\ Len(v) \in Nat /\ u \o v \in Seq(X) /\ Len(u \o v) = Len(u) + Len(v)
        /\ Append(v, x) \in Seq(X) /\ Len(Append(v, x)) = Len(v) + 1
    BY <1>0
  <1>2. l \in Seq(X) /\ r \in Seq(X) /\ Len(l) = Len(u) + Len(v) + 1 /\ Len(r) = Len(u) + Len(v) + 1
    BY <1>0, <1>1
  <1>3. ASSUME NEW i \in 1..(Len(u) + Len(v) + 1) PROVE l[i] = r[i]
    <2>1. CASE i \in 1..Len(u)
      BY <2>1, <1>0, <1>1
    <2>2. CASE i \in (Len(u) + 1)..(Len(u) + Len(v))
      BY <2>2, <1>0, <1>1
    <2>3. CASE i = Len(u) + Len(v) + 1
      BY <2>3, <1>0, <1>1
    <2> QED BY <2>1, <2>2, <2>3, <1>1
  <1> HIDE DEF l, r
  <1>4. l = r
    BY <1>2, <1>3
  <1> QED BY <1>4 DEF l, r

\* t is the part of s after its first b elements; the places of t in s.
Follows(s, t, b) == b + Len(t) <= Len(s) /\ \A i \in 1..Len(t) : t[i] = s[b + i]
Moved(J, b) == {b + j : j \in J}
Joins(s, t, b, K, J) ==
    /\ IsList(s) /\ IsList(t) /\ b \in Nat /\ Follows(s, t, b)
    /\ K \in SUBSET (1..b) /\ J \in SUBSET (1..Len(t))

\* What a continuation adds to what was picked.
LEMMA PickedConcat ==
  ASSUME NEW s, NEW t, NEW b, NEW K, NEW J, Joins(s, t, b, K, J)
  PROVE  Picked(s, K \cup Moved(J, b)) = Picked(s, K) \o Picked(t, J)
  <1> USE DEF Joins
  <1>0. b + Len(t) <= Len(s) /\ \A i \in 1..Len(t) : t[i] = s[b + i]
    BY DEF Follows
  <1> DEFINE m == Len(t)
             JJ(k) == J \cap (1..k)
             KK(k) == K \cup Moved(JJ(k), b)
             P == {k \in 0..m : Picked(s, KK(k)) = Picked(s, K) \o Picked(t, JJ(k))}
  <1>1. m \in Nat /\ DOMAIN t = 1..m /\ Len(s) \in Nat /\ DOMAIN s = 1..Len(s)
    BY ListFacts
  <1>2. IsList(Picked(s, K))
    BY PickedList
  <1>3. 0 \in P
    <2>1. JJ(0) = {}
      OBVIOUS
    <2>2. KK(0) = K
      BY DEF Moved
    <2>3. Picked(t, {}) = <<>>
      BY PickedNone
    <2>4. Picked(s, K) \o <<>> = Picked(s, K)
      <3> DEFINE u == Picked(s, K)
      <3> HIDE DEF u
      <3>1. u \in Seq(Range(u))
        BY <1>2 DEF u, IsList
      <3>2. u \o <<>> = u
        BY <3>1
      <3> QED BY <3>2 DEF u
    <2> HIDE DEF JJ, KK
    <2>5. 0 \in 0..m /\ Picked(s, KK(0)) = Picked(s, K) \o Picked(t, JJ(0))
      <3>1. 0 \in 0..m
        BY <1>1
      <3>2. Picked(s, KK(0)) = Picked(s, K) \o Picked(t, JJ(0))
        BY <2>1, <2>2, <2>3, <2>4, Zenon
      <3> QED BY <3>1, <3>2
    <2> QED BY <2>5
  <1>4. ASSUME NEW k \in 0..(m - 1), k \in P PROVE k + 1 \in P
    <2>1. k \in Nat /\ k + 1 \in 0..m /\ k + 1 \in 1..m /\ (b + k) + 1 \in DOMAIN s /\ b + k \in Nat
          /\ (b + k) + 1 = b + (k + 1)
      BY <1>0, <1>1
    <2>2. JJ(k) \in SUBSET (1..k) /\ KK(k) \in SUBSET (1..(b + k))
      <3>1. JJ(k) \in SUBSET (1..k)
        OBVIOUS
      <3> HIDE DEF JJ
      <3>2. ASSUME NEW x \in KK(k) PROVE x \in 1..(b + k)
        <4>1. CASE x \in K
          BY <4>1, <2>1
        <4>2. CASE x \in Moved(JJ(k), b)
          BY <4>2, <3>1, <2>1 DEF Moved
        <4> QED BY <4>1, <4>2
      <3> QED BY <3>1, <3>2
    <2>3. CASE k + 1 \in J
      <3>1. JJ(k + 1) = JJ(k) \cup {k + 1}
        BY <2>3, <2>1
      <3>2. KK(k + 1) = KK(k) \cup {(b + k) + 1}
        <4> HIDE DEF JJ
        <4> QED BY <3>1, <2>1 DEF Moved
      <3> HIDE DEF JJ, KK
      <3>3. Picked(t, JJ(k) \cup {k + 1}) = Append(Picked(t, JJ(k)), t[k + 1])
        BY <2>1, <2>2, <1>1, PickedAdd
      <3>4. Picked(s, KK(k) \cup {(b + k) + 1}) = Append(Picked(s, KK(k)), s[(b + k) + 1])
        BY <2>1, <2>2, <1>1, PickedAdd
      <3>5. t[k + 1] = s[(b + k) + 1]
        BY <1>0, <2>1
      <3>6. Picked(s, KK(k)) = Picked(s, K) \o Picked(t, JJ(k))
        BY <1>4
      <3>7. Append(Picked(s, K) \o Picked(t, JJ(k)), t[k + 1])
              = Picked(s, K) \o Append(Picked(t, JJ(k)), t[k + 1])
        <4> DEFINE u == Picked(s, K)
                   v == Picked(t, JJ(k))
                   x == t[k + 1]
        <4>1. IsList(u) /\ IsList(v)
          BY <1>2, PickedList
        <4> HIDE DEF u, v, x
        <4>3. Append(u \o v, x) = u \o Append(v, x)
          BY <4>1, AppendOut
        <4> QED BY <4>3 DEF u, v, x
      <3> QED BY <2>1, <3>1, <3>2, <3>3, <3>4, <3>5, <3>6, <3>7
    <2>4. CASE k + 1 \notin J
      <3>1. JJ(k + 1) = JJ(k)
        BY <2>4, <2>1
      <3>2. KK(k + 1) = KK(k)
        <4> HIDE DEF JJ
        <4> QED BY <3>1
      <3> HIDE DEF JJ, KK
      <3> QED BY <1>4, <2>1, <3>1, <3>2
    <2> QED BY <2>3, <2>4
  <1>5. \A k \in 0..m : k \in P
    <2> HIDE DEF P, m
    <2> QED BY <1>1, <1>3, <1>4, UpTo
  <1>6. JJ(m) = J
    OBVIOUS
  <1>7. m \in P
    <2> HIDE DEF P
    <2> QED BY <1>1, <1>5
  <1> HIDE DEF JJ
  <1> QED BY <1>6, <1>7

(***************************************************************************)
(* The document and the markdown: an inductive invariant of a build        *)
(***************************************************************************)

Steps == {"parse", "spill", "share", "link", "relate", "read", "axes", "open", "block",
          "rows", "swap", "render", "clean", "done", "served", "failed"}

Records ==
    /\ pc \in Steps
    /\ DOMAIN layout = {"axes", "blocks", "done"}
    /\ DOMAIN prep = {"switches", "header", "axes", "pairs"}
    /\ DOMAIN rel = {"queue", "bucket", "patterns", "found"}
    /\ DOMAIN disk = {"json", "tmp", "body", "rows", "md", "axis"}
    /\ DOMAIN disk.body = {"there", "lines"}
    /\ DOMAIN share = {"kept", "alias"} /\ IsList(share.kept) /\ IsList(share.alias)

\* Lists that the steps walk; the layout is settled before the first build.
LayoutLists ==
    /\ IsList(layout.axes) /\ IsList(layout.blocks)
    /\ \A b \in DOMAIN layout.blocks :
          DOMAIN layout.blocks[b] = BlockFields /\ IsList(layout.blocks[b].axis_ids)
    /\ pc \in {"parse", "spill", "share", "link"} => docs = <<>>

OutFields == {"id", "sheet", "kind", "axis_ids", "periods", "views", "relations", "rows"}

OutLists ==
    /\ IsList(out)
    /\ \A b \in DOMAIN out : /\ DOMAIN out[b] = OutFields
                             /\ IsList(out[b].rows) /\ IsList(out[b].axis_ids)

WholeTo(blocks, laid, n) == \A b \in 1..n : Len(blocks[b].rows) = Len(laid[b].rows)

\* How far the temporary file is.
Written ==
    /\ pc = "block" => /\ at \in 1..(Len(layout.blocks) + 1)
                       /\ Len(out) = at - 1 /\ WholeTo(out, layout.blocks, at - 1)
    /\ pc = "rows" => /\ at \in 1..Len(layout.blocks)
                      /\ Len(out) = at /\ WholeTo(out, layout.blocks, at - 1)
                      /\ Len(layout.blocks[at].rows) # 0
    /\ pc \in {"swap", "render"} =>
          /\ Len(out) = Len(layout.blocks) /\ WholeTo(out, layout.blocks, Len(out))
          /\ built.blocks = out /\ built.known = KnownAxes /\ built.run = builds
          /\ disk.rows = row_count(out)
    /\ pc = "render" => docs # <<>> /\ Last(docs) = built

PublishedWhole ==
    /\ IsList(docs)
    /\ disk.json = IF docs = <<>> THEN Nothing ELSE Last(docs)
    /\ \A d \in Range(docs) :
          /\ Len(d.blocks) = Len(layout.blocks)
          /\ \A b \in DOMAIN d.blocks : Len(d.blocks[b].rows) = Len(layout.blocks[b].rows)

\* The temporary files and the row files.
TempFiles ==
    /\ disk.tmp \subseteq killed \cup (IF pc \in {"block", "rows", "swap"} THEN {builds} ELSE {})
    /\ IsList(lines) /\ disk.axis \in Nat
    /\ pc \in {"block", "swap", "render", "clean"} => lines = <<>>
    /\ pc = "rows" => Len(lines) <= disk.axis
    /\ killed = {} => disk.axis = IF pc = "rows" THEN Len(lines) ELSE 0

\* The streamed lines are those of the blocks written so far.
Sections(blocks, known, n) == [b \in 1..n |-> block_section(blocks[b], known)]
Tables == markdown_tables(out[Len(out)].axis_ids, KnownAxes)
RowLines(rows, table) == [r \in 1..Len(rows) |-> row_line(rows[r], table)]

Streamed ==
    /\ pc \in {"block", "swap", "render"} =>
          disk.body.lines = FlattenSeq(Sections(out, KnownAxes, Len(out)))
    /\ pc = "rows" => /\ disk.body.lines = FlattenSeq(Sections(out, KnownAxes, Len(out) - 1))
                      /\ IsList(Tables) /\ DOMAIN lines = DOMAIN Tables
                      /\ \A t \in DOMAIN Tables : lines[t] = RowLines(out[Len(out)].rows, Tables[t])
    /\ disk.md # Nothing =>
          \E d \in Range(docs) : d.run = disk.md.run /\ disk.md = render_markdown(d)
    /\ pc \in {"clean", "done"} => disk.md.run = disk.json.run

\* The tables of a block are a list.
LEMMA TablesList ==
  ASSUME NEW ids, IsList(ids), NEW known
  PROVE  IsList(markdown_tables(ids, known)) /\ Len(markdown_tables(ids, known)) \in Nat
  <1> DEFINE K == {k \in DOMAIN ids : ids[k] \in known}
  <1>1. IsList(Picked(ids, K))
    BY PickedList
  <1>2. markdown_tables(ids, known) = IF Picked(ids, K) = <<>> THEN <<"">> ELSE Picked(ids, K)
    BY DEF markdown_tables, Select
  <1> HIDE DEF K
  <1>3. IsList(markdown_tables(ids, known))
    BY <1>1, <1>2, OneList
  <1> QED BY <1>3, ListFacts

TableLines(tables, rows) ==
    [t \in DOMAIN tables |-> <<TableHead(tables[t])>>
                             \o [r \in DOMAIN rows |-> row_line(rows[r], tables[t])]]

\* The lines of the tables of a block are a list.
LEMMA TableLinesList ==
  ASSUME NEW tables, IsList(tables), NEW rows, IsList(rows)
  PROVE  IsList(FlattenSeq(TableLines(tables, rows)))
  <1> DEFINE s == TableLines(tables, rows)
  <1>0. Len(tables) \in Nat /\ DOMAIN tables = 1..Len(tables) /\ Len(rows) \in Nat
        /\ DOMAIN rows = 1..Len(rows)
    BY ListFacts
  <1>1. IsList(s) /\ DOMAIN s = DOMAIN tables
    <2>1. s = [t \in 1..Len(tables) |-> s[t]] /\ DOMAIN s = 1..Len(tables)
      BY <1>0 DEF TableLines
    <2> HIDE DEF s
    <2> QED BY <2>1, <1>0, FnIsList
  <1>2. ASSUME NEW t \in DOMAIN s PROVE IsList(s[t])
    <2> DEFINE q == [r \in DOMAIN rows |-> row_line(rows[r], tables[t])]
    <2>1. q = [r \in 1..Len(rows) |-> q[r]]
      BY <1>0
    <2>2. IsList(q)
      <3> HIDE DEF q
      <3> QED BY <2>1, <1>0, FnIsList
    <2>3. s[t] = <<TableHead(tables[t])>> \o q
      BY <1>1 DEF TableLines
    <2> HIDE DEF q, s
    <2> QED BY <2>2, <2>3, OneList, ConcatList
  <1>3. IsList(FlattenSeq(s))
    <2> HIDE DEF s
    <2> QED BY <1>1, <1>2, FlattenList
  <1> QED BY <1>3

\* A section in the form the stream builds it.
LEMMA SectionForm ==
  ASSUME NEW block, NEW known, IsList(block.rows), IsList(block.axis_ids)
  PROVE  /\ IsList(block_section(block, known))
         /\ Len(block.rows) = 0 => block_section(block, known) = <<Intro(block.id, 0)>>
         /\ Len(block.rows) # 0 =>
               block_section(block, known) =
                  <<Intro(block.id, Len(block.rows))>>
                  \o (FlattenSeq(TableLines(markdown_tables(block.axis_ids, known), block.rows))
                      \o RelationLines(block.relations))
  <1> DEFINE F == FlattenSeq(TableLines(markdown_tables(block.axis_ids, known), block.rows))
             I == <<Intro(block.id, Len(block.rows))>>
             R == RelationLines(block.relations)
  <1>1. IsList(F)
    BY TablesList, TableLinesList
  <1>2. IsList(R) /\ IsList(I)
    <2>1. IsList(R)
      BY EmptyList, OneList DEF RelationLines
    <2> QED BY <2>1, OneList
  <1>3. block_section(block, known) = I \o (IF block.rows = <<>> THEN <<>> ELSE F \o R)
    BY DEF block_section, TableLines
  <1>4. block.rows = <<>> <=> Len(block.rows) = 0
    BY ListFacts, EmptyList
  <1>5. CASE Len(block.rows) = 0
    <2>1. I = <<Intro(block.id, 0)>>
      BY <1>5
    <2> HIDE DEF F, R
    <2>2. block_section(block, known) = I
      <3>1. I \o <<>> = I
        OBVIOUS
      <3> QED BY <3>1, <1>3, <1>4, <1>5
    <2> QED BY <2>1, <2>2, <1>2, <1>5
  <1>6. CASE Len(block.rows) # 0
    <2>1. block_section(block, known) = I \o (F \o R)
      BY <1>3, <1>4, <1>6
    <2> HIDE DEF F, R, I
    <2>2. IsList(I \o (F \o R))
      BY <1>1, <1>2, ConcatList
    <2>3. IsList(block_section(block, known))
      BY <2>1, <2>2
    <2> QED BY <2>1, <2>3, <1>6 DEF F, R, I
  <1> QED BY <1>5, <1>6

\* What the last step of a block appends is the section of the block.
LEMMA AssembleForm ==
  ASSUME NEW block, NEW known, IsList(block.rows), IsList(block.axis_ids),
         Len(block.rows) # 0, NEW held,
         DOMAIN held = DOMAIN markdown_tables(block.axis_ids, known),
         \A t \in DOMAIN held : held[t] = [r \in 1..Len(block.rows) |->
             row_line(block.rows[r], markdown_tables(block.axis_ids, known)[t])]
  PROVE  assemble(block, markdown_tables(block.axis_ids, known), held)
            = block_section(block, known)
  <1> DEFINE tables == markdown_tables(block.axis_ids, known)
             F == FlattenSeq(TableLines(tables, block.rows))
             I == <<Intro(block.id, Len(block.rows))>>
             R == RelationLines(block.relations)
             H == [t \in DOMAIN tables |-> <<TableHead(tables[t])>> \o held[t]]
  <1>0. DOMAIN block.rows = 1..Len(block.rows)
    BY ListFacts
  <1>1. H = TableLines(tables, block.rows)
    BY <1>0 DEF TableLines
  <1>2. assemble(block, tables, held) = (I \o FlattenSeq(H)) \o R
    BY DEF assemble
  <1>3. IsList(F) /\ IsList(I) /\ IsList(R)
    <2>1. IsList(R)
      BY EmptyList, OneList DEF RelationLines
    <2>2. IsList(F)
      BY TablesList, TableLinesList
    <2> QED BY <2>1, <2>2, OneList
  <1>4. (I \o F) \o R = I \o (F \o R)
    <2> HIDE DEF I, F, R
    <2> DEFINE X == Range(I) \cup Range(F) \cup Range(R)
    <2>1. I \in Seq(X) /\ F \in Seq(X) /\ R \in Seq(X)
      BY <1>3 DEF IsList
    <2> QED BY <2>1
  <1>5. block_section(block, known) = I \o (F \o R)
    BY SectionForm
  <1> HIDE DEF H, F, I, R
  <1> QED BY <1>1, <1>2, <1>4, <1>5 DEF F

(***************************************************************************)
(* The invariant is kept by every step                                     *)
(***************************************************************************)

DocInv ==
    /\ book \in Books /\ Records /\ LayoutLists /\ OutLists /\ Written
    /\ PublishedWhole /\ TempFiles /\ Streamed

\* The invariant holds before the first step.
LEMMA DocInit == Init => DocInv
  <1> SUFFICES ASSUME Init PROVE DocInv
    OBVIOUS
  <1>1. book \in Books /\ Records
    BY EmptyList DEF Init, Records, Steps, NoPrep, NoRel, NoBody, NoShare
  <1>2. LayoutLists /\ OutLists /\ Written
    BY EmptyList DEF Init, LayoutLists, OutLists, Written
  <1>3. PublishedWhole /\ TempFiles /\ Streamed
    BY EmptyList DEF Init, PublishedWhole, TempFiles, Streamed, Nothing
  <1> QED BY <1>1, <1>2, <1>3 DEF DocInv

\* Steps outside the row loop that leave the files alone.
Still == {"parse", "spill", "share", "link", "relate", "read", "axes", "open", "done",
          "served", "failed"}

\* A step outside the row loop that leaves the files alone keeps the invariant.
LEMMA DocStill ==
  ASSUME DocInv, pc \in Still, pc' \in Still \ {"done", "failed"},
         pc' \in {"parse", "spill", "share", "link"} =>
            pc \in {"parse", "spill", "share", "link"},
         UNCHANGED <<book, layout, out, lines, built, disk, docs, builds, killed>>,
         Records'
  PROVE  DocInv'
  <1>1. book' \in Books
    BY DEF DocInv
  <1>2. LayoutLists'
    BY DEF DocInv, LayoutLists
  <1>3. OutLists'
    BY DEF DocInv, OutLists
  <1>4. Written'
    BY DEF DocInv, Written, Still
  <1>5. PublishedWhole'
    BY DEF DocInv, PublishedWhole
  <1>6. TempFiles'
    BY DEF DocInv, TempFiles, Still
  <1>7. Streamed'
    BY DEF DocInv, Streamed, Still
  <1> QED BY <1>1, <1>2, <1>3, <1>4, <1>5, <1>6, <1>7 DEF DocInv

\* The layout is settled while nothing is published.
LEMMA DocEarly ==
  ASSUME DocInv, pc \in {"share", "link"}, pc' \in {"share", "link", "relate"},
         UNCHANGED <<book, out, lines, built, disk, docs, builds, killed>>,
         Records', IsList(layout.axes)', IsList(layout.blocks)',
         \A b \in DOMAIN layout'.blocks :
            DOMAIN layout'.blocks[b] = BlockFields /\ IsList(layout'.blocks[b].axis_ids)
  PROVE  DocInv'
  <1>0. docs = <<>> /\ docs' = <<>>
    BY DEF DocInv, LayoutLists
  <1>1. book' \in Books
    BY DEF DocInv
  <1>2. LayoutLists'
    BY <1>0 DEF LayoutLists
  <1>3. OutLists'
    BY DEF DocInv, OutLists
  <1>4. Written'
    BY DEF Written
  <1>5. PublishedWhole'
    BY <1>0, EmptyList DEF DocInv, PublishedWhole
  <1>6. TempFiles'
    BY DEF DocInv, TempFiles
  <1>7. Streamed'
    <2>1. disk.md = Nothing
      BY <1>0, EmptyList DEF DocInv, Streamed
    <2> QED BY <2>1 DEF Streamed
  <1> QED BY <1>1, <1>2, <1>3, <1>4, <1>5, <1>6, <1>7 DEF DocInv

\* share_axis keeps two lists.
LEMMA ShareAxisLists ==
  ASSUME NEW sh, DOMAIN sh = {"kept", "alias"}, IsList(sh.kept), IsList(sh.alias),
         NEW axis, NEW print, NEW d, NEW p, NEW m
  PROVE  LET new == share_axis(sh, axis, print, d, p, m)
         IN  DOMAIN new = {"kept", "alias"} /\ IsList(new.kept) /\ IsList(new.alias)
  <1> DEFINE new == share_axis(sh, axis, print, d, p, m)
             N(k) == sh.alias \o AliasOf(axis, sh.kept[k])
  <1>1. \A k : IsList(N(k))
    BY OneList, ConcatList DEF AliasOf
  <1>2. ASSUME NEW k, NEW e PROVE IsList([sh.kept EXCEPT ![k] = e])
    <2> DEFINE f == [sh.kept EXCEPT ![k] = e]
    <2>1. Len(sh.kept) \in Nat /\ DOMAIN sh.kept = 1..Len(sh.kept)
      BY ListFacts
    <2>2. f = [i \in 1..Len(sh.kept) |-> f[i]]
      BY <2>1
    <2>3. IsList(f)
      <3> HIDE DEF f
      <3> QED BY <2>1, <2>2, FnIsList
    <2> QED BY <2>3
  <1>3. CASE d > 0
    <2>1. new = [sh EXCEPT !.alias = N(d)]
      BY <1>3 DEF share_axis
    <2> HIDE DEF new, N
    <2> QED BY <2>1, <1>1 DEF new
  <1>4. CASE ~(d > 0) /\ p > 0
    <2>1. new = [kept |-> [sh.kept EXCEPT ![p] = remember_flags(sh.kept[p], print)], alias |-> N(p)]
      BY <1>4 DEF share_axis
    <2> HIDE DEF new, N
    <2> QED BY <2>1, <1>1, <1>2 DEF new
  <1>5. CASE ~(d > 0) /\ ~(p > 0) /\ m > 0
    <2>1. new = [kept |-> [sh.kept EXCEPT ![m] = fill_match(sh.kept[m], print)], alias |-> N(m)]
      BY <1>5 DEF share_axis
    <2> HIDE DEF new, N
    <2> QED BY <2>1, <1>1, <1>2 DEF new
  <1>6. CASE ~(d > 0) /\ ~(p > 0) /\ ~(m > 0)
    <2> DEFINE A == Append(sh.kept, [axis |-> axis, print |-> print, cols |-> print])
    <2>1. new = [sh EXCEPT !.kept = A]
      BY <1>6 DEF share_axis
    <2>2. IsList(A)
      BY AppendList
    <2> HIDE DEF new, A
    <2> QED BY <2>1, <2>2 DEF new
  <1> QED BY <1>3, <1>4, <1>5, <1>6

\* The steps that only read, scan, share or link keep the invariant.
LEMMA DocSteady ==
  ASSUME DocInv,
         \/ Parse \/ WriteBatch \/ EndScan \/ ShareAxis \/ EndShare \/ LinkAxis
         \/ RelationCell \/ EndRelations \/ ReadCells \/ BuildAxes \/ GetObservations
         \/ Rebuild
  PROVE  DocInv'
  <1> USE DEF Still, inputs, stream, history
  <1>0. Records
    BY DEF DocInv
  <1>1. ASSUME Parse PROVE DocInv'
    <2>1. Records'
      BY <1>0, <1>1 DEF Parse, Records, Steps
    <2> QED BY <1>1, <2>1, DocStill DEF Parse
  <1>2. ASSUME WriteBatch PROVE DocInv'
    <2>1. Records'
      BY <1>0, <1>2 DEF WriteBatch, Records, Steps
    <2>2. pc = "spill" /\ pc' = "spill"
          /\ UNCHANGED <<book, layout, out, lines, built, disk, docs, builds, killed>>
      BY <1>2 DEF WriteBatch
    <2> QED BY <2>1, <2>2, DocStill
  <1>3. ASSUME EndScan PROVE DocInv'
    <2>1. Records'
      BY <1>0, <1>3 DEF EndScan, Records, Steps
    <2> QED BY <1>3, <2>1, DocStill DEF EndScan
  <1>4. ASSUME ShareAxis PROVE DocInv'
    <2>1. pc = "share" /\ pc' = "share" /\ UNCHANGED <<prep, rel>>
          /\ UNCHANGED <<book, layout, out, lines, built, disk, docs, builds, killed>>
      BY <1>4 DEF ShareAxis
    <2>2. DOMAIN share' = {"kept", "alias"} /\ IsList(share'.kept) /\ IsList(share'.alias)
      BY <1>0, <1>4, ShareAxisLists DEF ShareAxis, Records
    <2>3. Records'
      BY <1>0, <2>1, <2>2 DEF Records, Steps
    <2> QED BY <2>1, <2>3, DocStill
  <1>5. ASSUME EndShare PROVE DocInv'
    <2>1. Records'
      BY <1>0, <1>5 DEF EndShare, Records, Steps
    <2> QED BY <1>5, <2>1, DocStill DEF EndShare
  <1>6. ASSUME LinkAxis PROVE DocInv'
    <2>1. pc = "link" /\ pc' = "link" /\ UNCHANGED <<prep, rel>>
          /\ UNCHANGED share
          /\ UNCHANGED <<book, layout, out, lines, built, disk, docs, builds, killed>>
      BY <1>6 DEF LinkAxis
    <2>2. Records'
      BY <1>0, <2>1 DEF Records, Steps
    <2> QED BY <2>1, <2>2, DocStill
  <1>7. ASSUME RelationCell PROVE DocInv'
    <2>1. pc = "relate" /\ pc' = "relate" /\ UNCHANGED prep
          /\ UNCHANGED share
          /\ UNCHANGED <<book, layout, out, lines, built, disk, docs, builds, killed>>
      BY <1>7 DEF RelationCell
    <2>2. Records'
      BY <1>0, <1>7, <2>1 DEF RelationCell, Records, Steps
    <2> QED BY <2>1, <2>2, DocStill
  <1>8. ASSUME EndRelations PROVE DocInv'
    <2>1. pc = "relate" /\ pc' = "read" /\ UNCHANGED prep
          /\ UNCHANGED share
          /\ UNCHANGED <<book, layout, out, lines, built, disk, docs, builds, killed>>
      BY <1>8 DEF EndRelations
    <2>2. Records'
      BY <1>0, <1>8, <2>1 DEF EndRelations, Records, Steps
    <2> QED BY <2>1, <2>2, DocStill
  <1>9. ASSUME ReadCells PROVE DocInv'
    <2>1. pc = "read" /\ pc' = "axes" /\ UNCHANGED rel
          /\ UNCHANGED share
          /\ UNCHANGED <<book, layout, out, lines, built, disk, docs, builds, killed>>
      BY <1>9 DEF ReadCells
    <2>2. Records'
      BY <1>0, <1>9, <2>1 DEF ReadCells, Records, Steps
    <2> QED BY <2>1, <2>2, DocStill
  <1>10. ASSUME BuildAxes PROVE DocInv'
    <2>1. pc = "axes" /\ pc' = "open" /\ UNCHANGED rel
          /\ UNCHANGED share
          /\ UNCHANGED <<book, layout, out, lines, built, disk, docs, builds, killed>>
      BY <1>10 DEF BuildAxes
    <2>2. Records'
      BY <1>0, <1>10, <2>1 DEF BuildAxes, Records, Steps
    <2> QED BY <2>1, <2>2, DocStill
  <1>11. ASSUME GetObservations PROVE DocInv'
    <2>1. pc = "done" /\ pc' = "served" /\ UNCHANGED <<rel, prep>>
          /\ UNCHANGED share
          /\ UNCHANGED <<book, layout, out, lines, built, disk, docs, builds, killed>>
      BY <1>11 DEF GetObservations
    <2>2. Records'
      BY <1>0, <2>1 DEF Records, Steps
    <2> QED BY <2>1, <2>2, DocStill
  <1>12. ASSUME Rebuild PROVE DocInv'
    <2>1. Records'
      BY <1>0, <1>12 DEF Rebuild, Records, Steps
    <2> QED BY <1>12, <2>1, DocStill DEF Rebuild
  <1> QED BY <1>1, <1>2, <1>3, <1>4, <1>5, <1>6, <1>7, <1>8, <1>9, <1>10, <1>11, <1>12

\* The sheet of a name is one of the book, or empty.
LEMMA SheetWellFormed ==
  ASSUME book \in Books, NEW name
  PROVE  WellFormed(SheetNamed(name)) /\ SheetNamed(name).name = name
  <1> DEFINE S == {s \in Range(book.sheets) : s.name = name}
             E == [name |-> name, axes |-> <<>>, blocks |-> <<>>, plan |-> <<>>]
  <1>1. CASE S = {}
    <2>1. SheetNamed(name) = E
      BY <1>1 DEF SheetNamed, Found
    <2>2. WellFormed(E)
      BY EmptyList DEF WellFormed
    <2> HIDE DEF E
    <2> QED BY <2>1, <2>2 DEF E
  <1>2. CASE S # {}
    <2>1. SheetNamed(name) \in S
      BY <1>2 DEF SheetNamed, Found
    <2> QED BY <2>1, BooksAssumption
  <1> QED BY <1>1, <1>2

\* The blocks of a sheet are a list of complete records.
LEMMA BlocksList ==
  ASSUME NEW sheet, WellFormed(sheet), NEW cells, NEW switches
  PROVE  /\ IsList(blocks_for_sheet(sheet, cells, switches))
         /\ \A b \in DOMAIN blocks_for_sheet(sheet, cells, switches) :
               /\ DOMAIN blocks_for_sheet(sheet, cells, switches)[b] = BlockFields
               /\ IsList(blocks_for_sheet(sheet, cells, switches)[b].axis_ids)
  <1> DEFINE B == blocks_for_sheet(sheet, cells, switches)
  <1>1. CASE sheet.blocks = <<>> /\ sheet.plan # <<>>
    <2>1. PICK plan, name, col, rows, headers : B = params_block(plan, name, col, rows, headers)
      BY <1>1 DEF blocks_for_sheet, detect_params_block
    <2> HIDE DEF B
    <2>2. CASE B = <<>>
      BY <2>2, EmptyList DEF B
    <2>3. CASE B # <<>>
      <3> DEFINE r == [id |-> plan.id, sheet |-> name, kind |-> "params", axis_ids |-> <<>>,
                       timeline_ids |-> <<>>, rows |-> rows, label_col |-> col,
                       header_row |-> plan.header_row, headers |-> headers]
      <3>1. B = <<r>>
        BY <2>1, <2>3 DEF params_block
      <3>2. DOMAIN r = BlockFields /\ r.axis_ids = <<>>
        BY DEF BlockFields
      <3> HIDE DEF r
      <3>3. IsList(B) /\ \A b \in DOMAIN B : B[b] = r
        BY <3>1, OneList
      <3> QED BY <3>2, <3>3, EmptyList DEF B
    <2> QED BY <2>2, <2>3
  <1>2. CASE ~(sheet.blocks = <<>> /\ sheet.plan # <<>>)
    <2>1. IsList(sheet.blocks) /\ Len(sheet.blocks) \in Nat
          /\ DOMAIN sheet.blocks = 1..Len(sheet.blocks)
      BY ListFacts DEF WellFormed
    <2>2. B = [b \in DOMAIN sheet.blocks |-> with_stub_cells(sheet.blocks[b], cells,
                  PeriodCols(sheet.axes, sheet.blocks[b].axis_ids))]
      BY <1>2 DEF blocks_for_sheet
    <2> HIDE DEF B
    <2>3. B = [b \in 1..Len(sheet.blocks) |-> B[b]]
      BY <2>1, <2>2
    <2>4. IsList(B) /\ DOMAIN B = DOMAIN sheet.blocks
      BY <2>1, <2>3, FnIsList
    <2>5. ASSUME NEW b \in DOMAIN B
          PROVE  DOMAIN B[b] = BlockFields /\ IsList(B[b].axis_ids)
      <3>1. DOMAIN sheet.blocks[b] = BlockFields /\ IsList(sheet.blocks[b].axis_ids)
        BY <2>4 DEF WellFormed, Range
      <3>2. DOMAIN B[b] = DOMAIN sheet.blocks[b] /\ B[b].axis_ids = sheet.blocks[b].axis_ids
        BY <2>2, <2>4, <3>1 DEF with_stub_cells, BlockFields
      <3> QED BY <3>1, <3>2
    <2> QED BY <2>4, <2>5 DEF B
  <1> QED BY <1>1, <1>2

\* The blocks and axes of a sheet are added to the layout before anything is published.
LEMMA DocShareBlocks == DocInv /\ ShareBlocks => DocInv'
  <1> SUFFICES ASSUME DocInv, ShareBlocks PROVE DocInv'
    OBVIOUS
  <1> DEFINE name == spill.names[layout.done + 1]
             B == blocks_for_sheet(ThisSheet, spill.parts[ThisSheet.name],
                                   SheetSwitches(spill.parts[ThisSheet.name]))
             A == [k \in DOMAIN share.kept |-> share.kept[k].axis]
             M == [b \in DOMAIN B |->
                     [B[b] EXCEPT !.axis_ids = mapped_ids(@, share.alias),
                                  !.timeline_ids = mapped_ids(B[b].axis_ids, share.alias)]]
  <1>1. /\ pc = "share" /\ pc' = "share" /\ share' = NoShare
        /\ layout' = [axes |-> layout.axes \o A, blocks |-> layout.blocks \o M,
                      done |-> layout.done + 1]
        /\ UNCHANGED <<book, prep, rel, out, lines, built, disk, docs, builds, killed>>
    BY DEF ShareBlocks, stream, history
  <1>2. WellFormed(ThisSheet)
    BY SheetWellFormed DEF DocInv, ThisSheet
  <1>3. IsList(B) /\ \A b \in DOMAIN B : DOMAIN B[b] = BlockFields /\ IsList(B[b].axis_ids)
    BY <1>2, BlocksList
  <1> HIDE DEF B
  <1>4. Len(B) \in Nat /\ DOMAIN B = 1..Len(B) /\ Len(share.kept) \in Nat
        /\ DOMAIN share.kept = 1..Len(share.kept)
    BY <1>3, ListFacts DEF DocInv, Records
  <1>5. IsList(A)
    <2>1. A = [k \in 1..Len(share.kept) |-> A[k]]
      BY <1>4
    <2> HIDE DEF A
    <2> QED BY <2>1, <1>4, FnIsList
  <1>6. IsList(M) /\ DOMAIN M = DOMAIN B
    <2>1. M = [b \in 1..Len(B) |-> M[b]]
      BY <1>4
    <2> HIDE DEF M
    <2> QED BY <2>1, <1>4, FnIsList
  <1>7. ASSUME NEW b \in DOMAIN M
        PROVE  DOMAIN M[b] = BlockFields /\ IsList(M[b].axis_ids)
    <2>1. DOMAIN B[b] = BlockFields /\ IsList(mapped_ids(B[b].axis_ids, share.alias))
      BY <1>3, <1>6, MappedList
    <2>2. M[b] = [B[b] EXCEPT !.axis_ids = mapped_ids(@, share.alias),
                              !.timeline_ids = mapped_ids(B[b].axis_ids, share.alias)]
      BY <1>6
    <2> HIDE DEF M
    <2>3. DOMAIN M[b] = BlockFields
      BY <2>1, <2>2
    <2>4. M[b].axis_ids = mapped_ids(B[b].axis_ids, share.alias)
      BY <2>1, <2>2 DEF BlockFields
    <2> QED BY <2>1, <2>3, <2>4
  <1> HIDE DEF A, M
  <1>8. IsList(layout'.axes) /\ IsList(layout'.blocks)
    BY <1>1, <1>5, <1>6, ConcatList DEF DocInv, LayoutLists
  <1>9. ASSUME NEW b \in DOMAIN layout'.blocks
        PROVE  DOMAIN layout'.blocks[b] = BlockFields /\ IsList(layout'.blocks[b].axis_ids)
    <2> DEFINE L == layout.blocks
    <2>0. IsList(L) /\ (\A c \in DOMAIN L : DOMAIN L[c] = BlockFields /\ IsList(L[c].axis_ids))
          /\ layout'.blocks = L \o M
      BY <1>1 DEF DocInv, LayoutLists
    <2> HIDE DEF L
    <2>1. /\ DOMAIN layout'.blocks = 1..(Len(L) + Len(M))
          /\ \A i \in 1..Len(L) : (L \o M)[i] = L[i]
          /\ \A i \in 1..Len(M) : (L \o M)[Len(L) + i] = M[i]
          /\ DOMAIN L = 1..Len(L) /\ DOMAIN M = 1..Len(M) /\ Len(L) \in Nat /\ Len(M) \in Nat
      <3>1. DOMAIN L = 1..Len(L) /\ Len(L) \in Nat
        BY <2>0, ListFacts
      <3>2. DOMAIN M = 1..Len(M) /\ Len(M) \in Nat
        BY <1>6, ListFacts
      <3>3. /\ DOMAIN (L \o M) = 1..(Len(L) + Len(M))
            /\ \A i \in 1..Len(L) : (L \o M)[i] = L[i]
            /\ \A i \in 1..Len(M) : (L \o M)[Len(L) + i] = M[i]
        BY <1>6, <2>0, ConcatList
      <3> QED BY <2>0, <3>1, <3>2, <3>3
    <2>2. CASE b \in 1..Len(L)
      BY <2>0, <2>1, <2>2
    <2>3. CASE b \notin 1..Len(L)
      <3>1. b - Len(L) \in 1..Len(M) /\ b = Len(L) + (b - Len(L))
        BY <2>1, <2>3
      <3>2. layout'.blocks[b] = M[b - Len(L)]
        BY <3>1, <2>0, <2>1
      <3> QED BY <3>1, <3>2, <2>1, <1>7
    <2> QED BY <2>2, <2>3
  <1>10. Records'
    BY <1>1, EmptyList DEF DocInv, Records, Steps, NoShare
  <1> QED BY <1>1, <1>8, <1>9, <1>10, DocEarly

\* The timelines are written into the blocks before anything is published.
LEMMA DocWriteTimelines == DocInv /\ WriteTimelines => DocInv'
  <1> SUFFICES ASSUME DocInv, WriteTimelines PROVE DocInv'
    OBVIOUS
  <1> DEFINE L == layout.blocks
             M == Linked(L)
  <1>1. /\ pc = "link" /\ pc' = "relate" /\ layout' = [layout EXCEPT !.blocks = M]
        /\ rel' = [NoRel EXCEPT !.queue = RelationCells(layout.blocks)]
        /\ UNCHANGED <<book, share, prep, out, lines, built, disk, docs, builds, killed>>
    BY DEF WriteTimelines, stream, history
  <1>2. IsList(L) /\ Len(L) \in Nat /\ DOMAIN L = 1..Len(L)
        /\ \A b \in DOMAIN L : DOMAIN L[b] = BlockFields /\ IsList(L[b].axis_ids)
    BY ListFacts DEF DocInv, LayoutLists
  <1>3. layout'.axes = layout.axes /\ layout'.blocks = M
    BY <1>1 DEF DocInv, Records
  <1> HIDE DEF L
  <1>4. IsList(M) /\ DOMAIN M = DOMAIN L
    <2>1. M = [b \in 1..Len(L) |-> M[b]]
      BY <1>2 DEF Linked
    <2> QED BY <2>1, <1>2, FnIsList
  <1>5. ASSUME NEW b \in DOMAIN M
        PROVE  DOMAIN M[b] = BlockFields /\ IsList(M[b].axis_ids)
    <2>1. DOMAIN M[b] = DOMAIN L[b] /\ M[b].axis_ids = L[b].axis_ids
      BY <1>2, <1>4 DEF BlockFields, Linked
    <2> QED BY <2>1, <1>2, <1>4
  <1>6. Records'
    BY <1>1 DEF DocInv, Records, Steps, NoRel
  <1>7. IsList(layout'.axes)
    BY <1>3 DEF DocInv, LayoutLists
  <1> QED BY <1>1, <1>3, <1>4, <1>5, <1>6, <1>7, DocEarly

\* Every section written so far is a list, and so is the stream of them.
LEMMA SectionsList ==
  ASSUME OutLists, NEW n \in 0..Len(out), NEW known
  PROVE  /\ IsList(Sections(out, known, n)) /\ Len(Sections(out, known, n)) = n
         /\ IsList(FlattenSeq(Sections(out, known, n)))
  <1>1. Len(out) \in Nat /\ DOMAIN out = 1..Len(out)
    BY ListFacts DEF OutLists
  <1>2. Sections(out, known, n) = [b \in 1..n |-> Sections(out, known, n)[b]] /\ n \in Nat
    BY <1>1 DEF Sections
  <1>3. IsList(Sections(out, known, n)) /\ Len(Sections(out, known, n)) = n
        /\ DOMAIN Sections(out, known, n) = 1..n
    BY <1>2, FnIsList
  <1>4. ASSUME NEW b \in DOMAIN Sections(out, known, n) PROVE IsList(Sections(out, known, n)[b])
    <2>1. b \in DOMAIN out /\ Sections(out, known, n)[b] = block_section(out[b], known)
      BY <1>1, <1>3 DEF Sections
    <2> QED BY <2>1, SectionForm DEF OutLists
  <1> QED BY <1>3, <1>4, FlattenList

\* A build starts with an empty sidecar, whatever an earlier one left in it.
LEMMA DocOpen == DocInv /\ Open => DocInv'
  <1> SUFFICES ASSUME DocInv, Open PROVE DocInv'
    OBVIOUS
  <1>1. /\ disk' = [disk EXCEPT !.body = [there |-> TRUE, lines |-> <<>>],
                                !.tmp = @ \cup {builds + 1}]
        /\ builds' = builds + 1 /\ out' = <<>> /\ lines' = <<>> /\ built' = Nothing
        /\ pc = "open" /\ pc' = "block" /\ at' = 1
        /\ UNCHANGED <<book, share, layout, rel, prep, docs, killed>>
    BY DEF Open, open_body, inputs
  <1>2. /\ disk'.json = disk.json /\ disk'.md = disk.md /\ disk'.axis = disk.axis
        /\ disk'.tmp = disk.tmp \cup {builds + 1} /\ disk'.body.lines = <<>>
    BY <1>1 DEF DocInv, Records
  <1>3. book' \in Books /\ Records' /\ LayoutLists' /\ OutLists'
    BY <1>1, EmptyList DEF DocInv, Records, Steps, LayoutLists, OutLists
  <1>4. Written'
    <2>1. Len(layout.blocks) \in Nat
      BY ListFacts DEF DocInv, LayoutLists
    <2> QED BY <1>1, <2>1, EmptyList DEF Written, WholeTo
  <1>5. PublishedWhole'
    BY <1>1, <1>2 DEF DocInv, PublishedWhole
  <1>6. TempFiles'
    BY <1>1, <1>2, EmptyList DEF DocInv, TempFiles
  <1>7. Streamed'
    <2>1. Sections(out', KnownAxes', Len(out')) = <<>>
      BY <1>1, EmptyList DEF Sections
    <2>2. FlattenSeq(Sections(out', KnownAxes', Len(out'))) = <<>>
      BY <2>1, EmptyList, FlattenEmpty
    <2> QED BY <1>1, <1>2, <2>2 DEF DocInv, Streamed
  <1> QED BY <1>3, <1>4, <1>5, <1>6, <1>7 DEF DocInv

\* The record StartBlock appends.
LEMMA NewBlock ==
  ASSUME DocInv, StartBlock
  PROVE  \E new : /\ out' = Append(out, new) /\ DOMAIN new = OutFields
                  /\ new.rows = <<>> /\ IsList(new.axis_ids) /\ new.id = Block.id
  <1> DEFINE new(views) == [id |-> Block.id, sheet |-> Block.sheet, kind |-> Block.kind,
                              axis_ids |-> IF Block.kind = "params" THEN <<>> ELSE Block.axis_ids,
                              periods |-> PeriodsOf(Block, views), views |-> views,
                              relations |-> relations_for_block(rel.found, Block.id),
                              rows |-> <<>>]
  <1>1. out' = Append(out, new(Views(Block)))
    BY DEF StartBlock
  <1>2. IsList(IF Block.kind = "params" THEN <<>> ELSE Block.axis_ids)
    <2>1. at \in DOMAIN layout.blocks
      BY ListFacts DEF DocInv, LayoutLists, StartBlock, Written
    <2> QED BY <2>1, EmptyList DEF DocInv, LayoutLists, Block
  <1>3. /\ DOMAIN new(Views(Block)) = OutFields /\ new(Views(Block)).rows = <<>>
        /\ IsList(new(Views(Block)).axis_ids) /\ new(Views(Block)).id = Block.id
    BY <1>2 DEF OutFields
  <1> HIDE DEF new
  <1> QED BY <1>1, <1>3

\* The skeleton of a block, with its intro when it has no rows.
LEMMA DocStartBlock == DocInv /\ StartBlock => DocInv'
  <1> SUFFICES ASSUME DocInv, StartBlock PROVE DocInv'
    OBVIOUS
  <1>1. PICK new : /\ out' = Append(out, new) /\ DOMAIN new = OutFields
                   /\ new.rows = <<>> /\ IsList(new.axis_ids) /\ new.id = Block.id
    BY NewBlock
  <1> DEFINE n == Len(out)
  <1>2. /\ n \in Nat /\ DOMAIN out = 1..n /\ IsList(out') /\ Len(out') = n + 1
        /\ DOMAIN out' = 1..(n + 1) /\ out'[n + 1] = new /\ Last(out') = new
        /\ \A i \in 1..n : out'[i] = out[i]
    <2>1. IsList(out)
      BY DEF DocInv, OutLists
    <2>2. n \in Nat /\ DOMAIN out = 1..n
      BY <2>1, ListFacts
    <2> DEFINE new2 == Append(out, new)
    <2>3. IsList(new2) /\ Len(new2) = Len(out) + 1 /\ DOMAIN new2 = 1..(Len(out) + 1)
      BY <2>1, AppendList
    <2>4. new2[Len(out) + 1] = new /\ Last(new2) = new
      BY <2>1, AppendList
    <2>5. \A i \in 1..Len(out) : new2[i] = out[i]
      BY <2>1, AppendList
    <2>6. out' = new2
      BY <1>1
    <2> HIDE DEF new2
    <2> QED BY <2>2, <2>3, <2>4, <2>5, <2>6
  <1>3. /\ pc = "block" /\ at <= Len(layout.blocks)
        /\ UNCHANGED <<book, share, layout, rel, prep, built, docs, builds, killed>>
    BY DEF StartBlock, inputs, history
  <1>4. /\ at \in 1..(Len(layout.blocks) + 1) /\ n = at - 1 /\ WholeTo(out, layout.blocks, at - 1)
        /\ Len(layout.blocks) \in Nat /\ at \in 1..Len(layout.blocks)
    BY <1>3, ListFacts DEF DocInv, Written, LayoutLists
  <1>5. OutLists'
    <2>1. ASSUME NEW b \in DOMAIN out'
          PROVE  DOMAIN out'[b] = OutFields /\ IsList(out'[b].rows) /\ IsList(out'[b].axis_ids)
      <3>1. CASE b = n + 1
        BY <3>1, <1>1, <1>2, EmptyList
      <3>2. CASE b # n + 1
        <4>1. b \in DOMAIN out /\ out'[b] = out[b]
          BY <3>2, <1>2
        <4> QED BY <4>1 DEF DocInv, OutLists
      <3> QED BY <3>1, <3>2
    <2> QED BY <2>1, <1>2 DEF OutLists
  <1>6. KnownAxes' = KnownAxes
    BY <1>3 DEF KnownAxes
  <1> DEFINE S == Sections(out, KnownAxes, n)
  <1>7. Sections(out', KnownAxes', n) = S
    <2>1. \A b \in 1..n : block_section(out'[b], KnownAxes') = block_section(out[b], KnownAxes)
      BY <1>2, <1>6
    <2> QED BY <2>1 DEF Sections
  <1>8. IsList(S) /\ IsList(FlattenSeq(S)) /\ Len(S) = n
    BY <1>2, SectionsList DEF DocInv
  <1>9. disk.body.lines = FlattenSeq(S)
    BY <1>3 DEF DocInv, Streamed
  <1>10. CASE Len(Block.rows) = 0
    <2>1. /\ disk' = [disk EXCEPT !.body.lines = Append(@, Intro(Block.id, 0))]
          /\ at' = at + 1 /\ pc' = pc /\ lines' = lines
      BY <1>10 DEF StartBlock
    <2>2. /\ disk'.json = disk.json /\ disk'.md = disk.md /\ disk'.axis = disk.axis
          /\ disk'.tmp = disk.tmp /\ disk'.rows = disk.rows
          /\ disk'.body.lines = Append(disk.body.lines, Intro(Block.id, 0))
      BY <2>1 DEF DocInv, Records
    <2>3. book' \in Books /\ Records' /\ LayoutLists'
      <3>1. DOMAIN disk' = DOMAIN disk /\ DOMAIN disk'.body = DOMAIN disk.body
        BY <2>1 DEF DocInv, Records
      <3> QED BY <1>3, <2>1, <3>1 DEF DocInv, Records, Steps, LayoutLists
    <2>4. Written'
      <3>1. WholeTo(out', layout'.blocks, at' - 1)
        <4>1. \A b \in 1..(at - 1) : Len(out'[b].rows) = Len(layout'.blocks[b].rows)
          BY <1>2, <1>3, <1>4 DEF WholeTo
        <4>2. Len(out'[at].rows) = Len(layout'.blocks[at].rows)
          BY <1>1, <1>2, <1>3, <1>4, <1>10, EmptyList DEF Block
        <4> QED BY <4>1, <4>2, <1>4, <2>1 DEF WholeTo
      <3> QED BY <3>1, <1>2, <1>3, <1>4, <2>1 DEF Written
    <2>5. PublishedWhole'
      BY <1>3, <2>2 DEF DocInv, PublishedWhole
    <2>6. TempFiles'
      BY <1>3, <2>1, <2>2 DEF DocInv, TempFiles
    <2>7. Streamed'
      <3> DEFINE sec == block_section(new, KnownAxes)
      <3>1. sec = <<Intro(Block.id, 0)>> /\ IsList(sec)
        BY <1>1, SectionForm, EmptyList
      <3>2. Sections(out', KnownAxes', n + 1) = Append(S, sec)
        <4> DEFINE Q == Sections(out', KnownAxes', n + 1)
                   A == Append(S, sec)
        <4>1. Q = [b \in 1..(n + 1) |-> Q[b]] /\ Q[n + 1] = sec
              /\ \A b \in 1..n : Q[b] = S[b]
          BY <1>2, <1>6 DEF Sections
        <4> HIDE DEF sec, S
        <4>2. IsList(A) /\ Len(A) = n + 1 /\ A[n + 1] = sec /\ \A b \in 1..n : A[b] = S[b]
          <5>1. IsList(Append(S, sec)) /\ Len(Append(S, sec)) = Len(S) + 1
            BY <1>8, AppendList
          <5>2. Append(S, sec)[Len(S) + 1] = sec
            BY <1>8, AppendList
          <5>3. \A b \in 1..Len(S) : Append(S, sec)[b] = S[b]
            BY <1>8, AppendList
          <5> HIDE DEF n
          <5> QED BY <5>1, <5>2, <5>3, <1>8
        <4> HIDE DEF A
        <4>3. A = [b \in 1..(n + 1) |-> A[b]]
          BY <4>2, ListFacts
        <4> HIDE DEF Q, n
        <4>4. \A b \in 1..(n + 1) : Q[b] = A[b]
          BY <4>1, <4>2, <1>2
        <4>5. Q = A
          BY <4>1, <4>3, <4>4
        <4> QED BY <4>5 DEF Q, A
      <3>3. FlattenSeq(Append(S, sec)) = FlattenSeq(S) \o sec
        BY <3>1, <1>8, FlattenAppend
      <3>4. disk'.body.lines = FlattenSeq(S) \o sec
        BY <2>2, <1>8, <1>9, <3>1, AppendList
      <3>5. disk'.body.lines = FlattenSeq(Sections(out', KnownAxes', Len(out')))
        <4> HIDE DEF sec, S
        <4> QED BY <1>2, <3>2, <3>3, <3>4
      <3> QED BY <3>5, <1>3, <2>1, <2>2 DEF DocInv, Streamed
    <2> QED BY <1>5, <2>3, <2>4, <2>5, <2>6, <2>7 DEF DocInv
  <1>11. CASE Len(Block.rows) # 0
    <2> DEFINE tables == markdown_tables(new.axis_ids, KnownAxes)
    <2>0. IsList(tables) /\ Len(tables) \in Nat /\ DOMAIN tables = 1..Len(tables)
      BY <1>1, TablesList, ListFacts
    <2>1. /\ lines' = [t \in DOMAIN tables |-> <<>>]
          /\ disk' = [disk EXCEPT !.axis = @ + Len(lines')]
          /\ at' = at /\ pc' = "rows"
      BY <1>11, <1>2 DEF StartBlock
    <2>2. /\ disk'.json = disk.json /\ disk'.md = disk.md /\ disk'.body = disk.body
          /\ disk'.tmp = disk.tmp /\ disk'.rows = disk.rows
          /\ disk'.axis = disk.axis + Len(lines')
      BY <2>1 DEF DocInv, Records
    <2>3. book' \in Books /\ Records' /\ LayoutLists'
      <3>1. DOMAIN disk' = DOMAIN disk
        BY <2>1 DEF DocInv, Records
      <3> QED BY <1>3, <2>1, <2>2, <3>1 DEF DocInv, Records, Steps, LayoutLists
    <2>4. Written'
      <3>1. WholeTo(out', layout'.blocks, at' - 1)
        BY <1>2, <1>3, <1>4, <2>1 DEF WholeTo
      <3> QED BY <3>1, <1>2, <1>3, <1>4, <1>11, <2>1 DEF Written, Block
    <2>5. PublishedWhole'
      BY <1>3, <2>2 DEF DocInv, PublishedWhole
    <2>6. IsList(lines') /\ Len(lines') \in Nat
      <3>1. lines' = [t \in 1..Len(tables) |-> lines'[t]]
        BY <2>0, <2>1
      <3> HIDE DEF tables
      <3> QED BY <3>1, <2>0, FnIsList, ListFacts
    <2>7. TempFiles'
      BY <1>3, <2>1, <2>2, <2>6 DEF DocInv, TempFiles
    <2>8. Streamed'
      <3>1. disk'.body.lines = FlattenSeq(Sections(out', KnownAxes', Len(out') - 1))
        <4>1. Len(out') - 1 = n
          BY <1>2
        <4> HIDE DEF n, S
        <4> QED BY <4>1, <1>7, <1>9, <2>2
      <3>2. Tables' = tables /\ out'[Len(out')] = new
        BY <1>2, <1>6 DEF Tables
      <3>3. ASSUME NEW t \in DOMAIN Tables'
            PROVE  lines'[t] = RowLines(out'[Len(out')].rows, Tables'[t])
        <4>1. RowLines(out'[Len(out')].rows, Tables'[t]) = <<>>
          BY <3>2, <1>1, EmptyList DEF RowLines
        <4> QED BY <4>1, <3>2, <2>1
      <3> QED BY <3>1, <3>2, <3>3, <2>0, <1>3, <2>1, <2>2 DEF DocInv, Streamed
    <2> QED BY <1>5, <2>3, <2>4, <2>5, <2>7, <2>8 DEF DocInv
  <1> QED BY <1>10, <1>11

\* A row more is a line more in a table.
LEMMA RowLinesAppend ==
  ASSUME NEW rows, IsList(rows), NEW line, NEW table
  PROVE  RowLines(Append(rows, line), table) = Append(RowLines(rows, table), row_line(line, table))
  <1> DEFINE n == Len(rows)
             R == Append(rows, line)
             L == RowLines(rows, table)
             A == Append(L, row_line(line, table))
             Q == RowLines(R, table)
  <1>1. n \in Nat
    BY ListFacts
  <1>2. Len(R) = n + 1
    BY AppendList
  <1>3. R[n + 1] = line
    BY AppendList
  <1>4. \A i \in 1..n : R[i] = rows[i]
    BY AppendList
  <1>5. IsList(L) /\ Len(L) = n
    <2>1. L = [r \in 1..n |-> L[r]]
      BY DEF RowLines
    <2> HIDE DEF L, n
    <2> QED BY <2>1, <1>1, FnIsList
  <1> HIDE DEF R
  <1>6. Q = [r \in 1..(n + 1) |-> Q[r]] /\ Q[n + 1] = row_line(line, table)
    BY <1>1, <1>2, <1>3 DEF RowLines
  <1>7. \A i \in 1..n : Q[i] = L[i]
    BY <1>1, <1>2, <1>4 DEF RowLines
  <1> HIDE DEF Q, L
  <1>8. IsList(A) /\ Len(A) = Len(L) + 1
    BY <1>5, AppendList
  <1>9. A[Len(L) + 1] = row_line(line, table)
    BY <1>5, AppendList
  <1>10. \A i \in 1..Len(L) : A[i] = L[i]
    BY <1>5, AppendList
  <1> HIDE DEF A
  <1>11. A = [r \in 1..(n + 1) |-> A[r]]
    <2>1. Len(A) = n + 1
      BY <1>5, <1>8
    <2> QED BY <1>8, <2>1, ListFacts
  <1> HIDE DEF n
  <1>12. \A r \in 1..(n + 1) : Q[r] = A[r]
    <2> TAKE r \in 1..(n + 1)
    <2>1. CASE r = n + 1
      BY <2>1, <1>5, <1>6, <1>9
    <2>2. CASE r # n + 1
      <3>1. r \in 1..n /\ r \in 1..Len(L)
        BY <2>2, <1>1, <1>5
      <3> QED BY <3>1, <1>7, <1>10
    <2> QED BY <2>1, <2>2
  <1>13. Q = A
    BY <1>6, <1>11, <1>12
  <1> QED BY <1>13 DEF Q, A, R, L

\* A row goes to the temporary file and to the lines of every table.
LEMMA DocWriteRow == DocInv /\ WriteRow => DocInv'
  <1> SUFFICES ASSUME DocInv, WriteRow PROVE DocInv'
    OBVIOUS
  <1> DEFINE n == Len(out)
  <1>1. PICK line :
          /\ out' = [out EXCEPT ![Len(out)].rows = Append(@, line)]
          /\ lines' = [t \in DOMAIN lines |-> Append(lines[t],
                          row_line(line, markdown_tables(Last(out).axis_ids, KnownAxes)[t]))]
    BY DEF WriteRow
  <1>2. /\ pc = "rows" /\ pc' = "rows"
        /\ UNCHANGED <<book, at, share, layout, rel, prep, built, disk, docs, builds, killed>>
    BY DEF WriteRow, inputs, history
  <1>3. /\ at \in 1..Len(layout.blocks) /\ n = at /\ WholeTo(out, layout.blocks, at - 1)
        /\ Len(layout.blocks[at].rows) # 0
    BY <1>2 DEF DocInv, Written
  <1>4. IsList(out) /\ DOMAIN out = 1..n /\ n \in 1..n /\ n \in Nat
    <2>1. IsList(out)
      BY DEF DocInv, OutLists
    <2>2. n \in Nat /\ DOMAIN out = 1..n
      BY <2>1, ListFacts
    <2>3. n # 0
      BY <1>3
    <2> HIDE DEF n
    <2> QED BY <2>1, <2>2, <2>3
  <1>5. DOMAIN out[n] = OutFields /\ IsList(out[n].rows) /\ IsList(out[n].axis_ids)
    BY <1>4 DEF DocInv, OutLists
  <1>6. /\ DOMAIN out' = 1..n /\ out' = [b \in 1..n |-> out'[b]]
        /\ \A b \in 1..n : b # n => out'[b] = out[b]
        /\ out'[n] = [out[n] EXCEPT !.rows = Append(@, line)]
    BY <1>1, <1>4
  <1>7. IsList(out') /\ Len(out') = n
    <2> HIDE DEF n
    <2> QED BY <1>4, <1>6, FnIsList
  <1>8. /\ DOMAIN out'[n] = OutFields /\ out'[n].rows = Append(out[n].rows, line)
        /\ out'[n].axis_ids = out[n].axis_ids
    BY <1>5, <1>6 DEF OutFields
  <1>9. IsList(out'[n].rows)
    <2>1. IsList(Append(out[n].rows, line))
      BY <1>5, AppendList
    <2> QED BY <2>1, <1>8
  <1>10. OutLists'
    <2>1. ASSUME NEW b \in DOMAIN out'
          PROVE  DOMAIN out'[b] = OutFields /\ IsList(out'[b].rows) /\ IsList(out'[b].axis_ids)
      <3>1. CASE b = n
        BY <3>1, <1>5, <1>8, <1>9
      <3>2. CASE b # n
        <4>1. b \in DOMAIN out /\ out'[b] = out[b]
          BY <3>2, <1>4, <1>6
        <4> QED BY <4>1 DEF DocInv, OutLists
      <3> QED BY <3>1, <3>2
    <2> QED BY <2>1, <1>7 DEF OutLists
  <1>11. book' \in Books /\ Records' /\ LayoutLists'
    BY <1>2 DEF DocInv, Records, LayoutLists
  <1>12. Written'
    <2>1. WholeTo(out', layout'.blocks, at' - 1)
      BY <1>2, <1>3, <1>4, <1>6 DEF WholeTo
    <2> QED BY <2>1, <1>2, <1>3, <1>7 DEF Written
  <1>13. PublishedWhole'
    BY <1>2 DEF DocInv, PublishedWhole
  <1>14. IsList(lines') /\ Len(lines') = Len(lines) /\ DOMAIN lines' = DOMAIN lines
    <2>1. IsList(lines) /\ Len(lines) \in Nat /\ DOMAIN lines = 1..Len(lines)
      BY ListFacts DEF DocInv, TempFiles
    <2>2. lines' = [t \in 1..Len(lines) |-> lines'[t]]
      BY <1>1, <2>1
    <2> QED BY <2>1, <2>2, FnIsList
  <1>15. TempFiles'
    BY <1>2, <1>14 DEF DocInv, TempFiles
  <1>16. Streamed'
    <2>0. KnownAxes' = KnownAxes
      BY <1>2 DEF KnownAxes
    <2>1. Sections(out', KnownAxes', Len(out') - 1) = Sections(out, KnownAxes, Len(out) - 1)
      <3>1. \A b \in 1..(n - 1) : b \in 1..n /\ b # n
        <4>1. n \in Nat
          BY <1>4
        <4> HIDE DEF n
        <4> QED BY <4>1
      <3>2. \A b \in 1..(n - 1) : block_section(out'[b], KnownAxes') = block_section(out[b], KnownAxes)
        BY <2>0, <3>1, <1>6
      <3> QED BY <3>2, <1>7 DEF Sections
    <2>2. Tables' = Tables /\ Tables = markdown_tables(Last(out).axis_ids, KnownAxes)
      BY <2>0, <1>7, <1>8 DEF Tables, Last
    <2>3. /\ IsList(Tables) /\ DOMAIN lines = DOMAIN Tables
          /\ \A t \in DOMAIN Tables : lines[t] = RowLines(out[Len(out)].rows, Tables[t])
          /\ disk.body.lines = FlattenSeq(Sections(out, KnownAxes, Len(out) - 1))
      BY <1>2 DEF DocInv, Streamed
    <2>4. ASSUME NEW t \in DOMAIN Tables
          PROVE  lines'[t] = RowLines(out'[Len(out')].rows, Tables'[t])
      <3>1. lines'[t] = Append(lines[t], row_line(line, Tables[t]))
        BY <1>1, <2>2, <2>3
      <3>2. RowLines(out'[n].rows, Tables[t])
              = Append(RowLines(out[n].rows, Tables[t]), row_line(line, Tables[t]))
        BY <1>5, <1>8, RowLinesAppend
      <3> QED BY <3>1, <3>2, <2>2, <2>3, <1>7
    <2>5. disk' = disk /\ docs' = docs /\ pc' = "rows"
      BY <1>2
    <2>6. disk'.md # Nothing =>
             \E d \in Range(docs') : d.run = disk'.md.run /\ disk'.md = render_markdown(d)
      BY <2>5 DEF DocInv, Streamed
    <2>7. disk'.body.lines = FlattenSeq(Sections(out', KnownAxes', Len(out') - 1))
      BY <2>1, <2>3, <2>5
    <2> HIDE DEF n
    <2> QED BY <2>2, <2>3, <2>4, <2>5, <2>6, <2>7, <1>14 DEF Streamed
  <1> QED BY <1>10, <1>11, <1>12, <1>13, <1>15, <1>16 DEF DocInv

\* The last step of a block appends the block's section to the sidecar.
LEMMA DocEndBlock == DocInv /\ EndBlock => DocInv'
  <1> SUFFICES ASSUME DocInv, EndBlock PROVE DocInv'
    OBVIOUS
  <1> DEFINE n == Len(out)
             sec == block_section(out[n], KnownAxes)
             S == Sections(out, KnownAxes, n - 1)
  <1>1. /\ pc = "rows" /\ pc' = "block" /\ at' = at + 1 /\ lines' = <<>>
        /\ Len(Last(out).rows) = Len(Block.rows)
        /\ disk' = [disk EXCEPT !.axis = @ - Len(lines),
                                !.body.lines = @ \o assemble(Last(out),
                                   markdown_tables(Last(out).axis_ids, KnownAxes), lines)]
        /\ UNCHANGED <<book, share, layout, rel, prep, out, built, docs, builds, killed>>
    BY DEF EndBlock, inputs, history
  <1>2. /\ disk'.json = disk.json /\ disk'.md = disk.md /\ disk'.axis = disk.axis - Len(lines)
        /\ disk'.tmp = disk.tmp /\ disk'.rows = disk.rows
        /\ disk'.body.lines = disk.body.lines \o assemble(Last(out),
                                   markdown_tables(Last(out).axis_ids, KnownAxes), lines)
        /\ DOMAIN disk' = DOMAIN disk /\ DOMAIN disk'.body = DOMAIN disk.body
    BY <1>1 DEF DocInv, Records
  <1>3. /\ at \in 1..Len(layout.blocks) /\ n = at /\ WholeTo(out, layout.blocks, at - 1)
        /\ Len(layout.blocks[at].rows) # 0 /\ Len(layout.blocks) \in Nat
    BY <1>1, ListFacts DEF DocInv, Written, LayoutLists
  <1>4. IsList(out) /\ DOMAIN out = 1..n /\ n \in 1..n /\ n \in Nat
    <2>1. IsList(out)
      BY DEF DocInv, OutLists
    <2>2. n \in Nat /\ DOMAIN out = 1..n
      BY <2>1, ListFacts
    <2>3. n # 0
      BY <1>3
    <2> HIDE DEF n
    <2> QED BY <2>1, <2>2, <2>3
  <1>5. IsList(out[n].rows) /\ IsList(out[n].axis_ids) /\ Last(out) = out[n]
    BY <1>4 DEF DocInv, OutLists, Last
  <1>6. book' \in Books /\ Records' /\ LayoutLists' /\ OutLists'
    BY <1>1, <1>2 DEF DocInv, Records, Steps, LayoutLists, OutLists
  <1>7. Written'
    <2>1. Len(out[at].rows) = Len(layout.blocks[at].rows)
      BY <1>1, <1>3, <1>5 DEF Block
    <2>2. WholeTo(out, layout.blocks, at)
      BY <2>1, <1>3 DEF WholeTo
    <2> QED BY <2>2, <1>1, <1>3 DEF Written
  <1>8. PublishedWhole'
    BY <1>1, <1>2 DEF DocInv, PublishedWhole
  <1>9. TempFiles'
    <2>1. IsList(lines) /\ Len(lines) \in Nat /\ Len(lines) <= disk.axis /\ disk.axis \in Nat
      BY <1>1, ListFacts DEF DocInv, TempFiles
    <2>2. disk'.axis \in Nat
      BY <2>1, <1>2
    <2> QED BY <2>1, <2>2, <1>1, <1>2, EmptyList DEF DocInv, TempFiles
  <1>10. Streamed'
    <2>1. /\ DOMAIN lines = DOMAIN Tables
          /\ \A t \in DOMAIN Tables : lines[t] = RowLines(out[n].rows, Tables[t])
          /\ disk.body.lines = FlattenSeq(S)
          /\ Tables = markdown_tables(out[n].axis_ids, KnownAxes)
      BY <1>1 DEF DocInv, Streamed, Tables
    <2>2. Len(out[n].rows) # 0
      BY <1>1, <1>3, <1>5 DEF Block
    <2>3. assemble(out[n], markdown_tables(out[n].axis_ids, KnownAxes), lines) = sec
      <3>1. \A t \in DOMAIN lines : lines[t] = [r \in 1..Len(out[n].rows) |->
               row_line(out[n].rows[r], markdown_tables(out[n].axis_ids, KnownAxes)[t])]
        BY <2>1 DEF RowLines
      <3>2. DOMAIN lines = DOMAIN markdown_tables(out[n].axis_ids, KnownAxes)
        BY <2>1
      <3> HIDE DEF n
      <3> QED BY <3>1, <3>2, <2>2, <1>5, AssembleForm
    <2>4. IsList(sec)
      BY <1>5, SectionForm
    <2>5. IsList(S) /\ Len(S) = n - 1
      <3>1. n - 1 \in 0..n
        BY <1>4
      <3> QED BY <3>1, SectionsList DEF DocInv
    <2>6. Sections(out, KnownAxes, n) = Append(S, sec)
      <3> DEFINE Q == Sections(out, KnownAxes, n)
                 A == Append(S, sec)
      <3>1. Q = [b \in 1..n |-> Q[b]] /\ Q[n] = sec
        BY <1>4 DEF Sections
      <3>2. \A b \in 1..(n - 1) : Q[b] = S[b]
        BY <1>4 DEF Sections
      <3> HIDE DEF sec, S, Q
      <3>3. IsList(A) /\ Len(A) = Len(S) + 1
        BY <2>5, AppendList
      <3>4. A[Len(S) + 1] = sec
        BY <2>5, AppendList
      <3>5. \A b \in 1..Len(S) : A[b] = S[b]
        BY <2>5, AppendList
      <3> HIDE DEF A, n
      <3>6. Len(S) + 1 = n /\ Len(A) = n
        BY <2>5, <1>4, <3>3
      <3>7. A = [b \in 1..n |-> A[b]]
        BY <3>3, <3>6, ListFacts
      <3>8. \A b \in 1..n : Q[b] = A[b]
        <4> TAKE b \in 1..n
        <4>1. CASE b = n
          BY <4>1, <3>1, <3>4, <3>6
        <4>2. CASE b # n
          <5>1. b \in 1..(n - 1) /\ b \in 1..Len(S)
            BY <4>2, <2>5, <1>4
          <5> QED BY <5>1, <3>2, <3>5
        <4> QED BY <4>1, <4>2
      <3>9. Q = A
        BY <3>1, <3>7, <3>8
      <3> QED BY <3>9 DEF Q, A
    <2>7. FlattenSeq(Append(S, sec)) = FlattenSeq(S) \o sec
      BY <2>4, <2>5, FlattenAppend
    <2>8. KnownAxes' = KnownAxes
      BY <1>1 DEF KnownAxes
    <2>9. disk'.body.lines = FlattenSeq(Sections(out', KnownAxes', Len(out')))
      <3> HIDE DEF sec, S
      <3> QED BY <2>1, <2>3, <2>6, <2>7, <2>8, <1>1, <1>2, <1>5
    <2>10. disk'.md # Nothing =>
             \E d \in Range(docs') : d.run = disk'.md.run /\ disk'.md = render_markdown(d)
      BY <1>1, <1>2 DEF DocInv, Streamed
    <2> QED BY <2>9, <2>10, <1>1 DEF Streamed
  <1> QED BY <1>6, <1>7, <1>8, <1>9, <1>10 DEF DocInv

\* The document that is built has every row of the layout.
LEMMA DocFinish == DocInv /\ Finish => DocInv'
  <1> SUFFICES ASSUME DocInv, Finish PROVE DocInv'
    OBVIOUS
  <1>1. /\ pc = "block" /\ pc' = "swap" /\ at > Len(layout.blocks)
        /\ disk' = [disk EXCEPT !.rows = row_count(out)]
        /\ UNCHANGED <<book, share, layout, rel, prep, out, lines, docs, builds, killed>>
    BY DEF Finish, inputs, history
  <1>2. built'.blocks = out /\ built'.known = KnownAxes /\ built'.run = builds
    BY DEF Finish
  <1>3. /\ disk'.json = disk.json /\ disk'.md = disk.md /\ disk'.axis = disk.axis
        /\ disk'.tmp = disk.tmp /\ disk'.body = disk.body /\ disk'.rows = row_count(out)
        /\ DOMAIN disk' = DOMAIN disk
    BY <1>1 DEF DocInv, Records
  <1>4. book' \in Books /\ Records' /\ LayoutLists' /\ OutLists'
    BY <1>1, <1>3 DEF DocInv, Records, Steps, LayoutLists, OutLists
  <1>5. Written'
    <2>1. /\ at \in 1..(Len(layout.blocks) + 1) /\ Len(layout.blocks) \in Nat
          /\ Len(out) = at - 1 /\ WholeTo(out, layout.blocks, at - 1)
      BY <1>1, ListFacts DEF DocInv, Written, LayoutLists
    <2>2. Len(out) = Len(layout.blocks)
      BY <2>1, <1>1
    <2>3. KnownAxes' = KnownAxes
      BY <1>1 DEF KnownAxes
    <2> QED BY <2>1, <2>2, <2>3, <1>1, <1>2, <1>3 DEF Written
  <1>6. PublishedWhole'
    BY <1>1, <1>3 DEF DocInv, PublishedWhole
  <1>7. TempFiles'
    BY <1>1, <1>3 DEF DocInv, TempFiles
  <1>8. Streamed'
    <2>1. KnownAxes' = KnownAxes
      BY <1>1 DEF KnownAxes
    <2> QED BY <2>1, <1>1, <1>3 DEF DocInv, Streamed
  <1> QED BY <1>4, <1>5, <1>6, <1>7, <1>8 DEF DocInv

\* The swap publishes the document of this build.
LEMMA DocSwap == DocInv /\ Swap => DocInv'
  <1> SUFFICES ASSUME DocInv, Swap PROVE DocInv'
    OBVIOUS
  <1>1. /\ pc = "swap" /\ pc' = "render" /\ docs' = Append(docs, built)
        /\ disk' = [disk EXCEPT !.json = built, !.tmp = @ \ {builds}]
        /\ UNCHANGED <<book, share, layout, rel, prep, out, lines, built, builds, killed>>
    BY DEF Swap, inputs, stream
  <1>2. /\ disk'.json = built /\ disk'.md = disk.md /\ disk'.axis = disk.axis
        /\ disk'.tmp = disk.tmp \ {builds} /\ disk'.body = disk.body /\ disk'.rows = disk.rows
        /\ DOMAIN disk' = DOMAIN disk
    BY <1>1 DEF DocInv, Records
  <1>3. IsList(docs)
    BY DEF DocInv, PublishedWhole
  <1>4. IsList(docs') /\ docs' # <<>> /\ Last(docs') = built
    <2>1. IsList(Append(docs, built)) /\ Append(docs, built) # <<>> /\ Last(Append(docs, built)) = built
      BY <1>3, AppendList
    <2> QED BY <1>1, <2>1
  <1>5. Range(docs') = Range(docs) \cup {built}
    <2>1. Range(Append(docs, built)) = Range(docs) \cup {built}
      BY <1>3, AppendList
    <2> QED BY <1>1, <2>1
  <1>6. book' \in Books /\ Records' /\ LayoutLists' /\ OutLists'
    BY <1>1, <1>2 DEF DocInv, Records, Steps, LayoutLists, OutLists
  <1>7. KnownAxes' = KnownAxes
    BY <1>1 DEF KnownAxes
  <1>8. Written'
    BY <1>1, <1>2, <1>4, <1>7 DEF DocInv, Written
  <1>9. PublishedWhole'
    <2>1. /\ Len(built.blocks) = Len(layout.blocks)
          /\ \A b \in DOMAIN built.blocks : Len(built.blocks[b].rows) = Len(layout.blocks[b].rows)
      <3>1. built.blocks = out /\ Len(out) = Len(layout.blocks) /\ WholeTo(out, layout.blocks, Len(out))
        BY <1>1 DEF DocInv, Written
      <3>2. DOMAIN out = 1..Len(out)
        BY ListFacts DEF DocInv, OutLists
      <3> QED BY <3>1, <3>2 DEF WholeTo
    <2>2. ASSUME NEW d \in Range(docs')
          PROVE  /\ Len(d.blocks) = Len(layout'.blocks)
                 /\ \A b \in DOMAIN d.blocks : Len(d.blocks[b].rows) = Len(layout'.blocks[b].rows)
      <3>1. CASE d = built
        BY <3>1, <2>1, <1>1
      <3>2. CASE d \in Range(docs)
        BY <3>2, <1>1 DEF DocInv, PublishedWhole
      <3> QED BY <3>1, <3>2, <1>5
    <2> QED BY <2>2, <1>2, <1>4 DEF PublishedWhole
  <1>10. TempFiles'
    BY <1>1, <1>2 DEF DocInv, TempFiles
  <1>11. Streamed'
    <2>1. disk'.md # Nothing =>
             \E d \in Range(docs') : d.run = disk'.md.run /\ disk'.md = render_markdown(d)
      BY <1>2, <1>5 DEF DocInv, Streamed
    <2>2. disk'.body.lines = FlattenSeq(Sections(out', KnownAxes', Len(out')))
      BY <1>1, <1>2, <1>7 DEF DocInv, Streamed
    <2> QED BY <2>1, <2>2, <1>1 DEF Streamed
  <1> QED BY <1>6, <1>8, <1>9, <1>10, <1>11 DEF DocInv

\* The streamed markdown is the rendering of the document that was swapped in.
LEMMA DocPublishMarkdown == DocInv /\ PublishMarkdown => DocInv'
  <1> SUFFICES ASSUME DocInv, PublishMarkdown PROVE DocInv'
    OBVIOUS
  <1> DEFINE md == [run |-> built.run, count |-> disk.rows, lines |-> disk.body.lines]
  <1>1. /\ pc = "render" /\ pc' = "clean" /\ disk' = [disk EXCEPT !.md = md]
        /\ UNCHANGED <<book, share, layout, rel, prep, out, lines, built, docs, builds, killed>>
    BY DEF PublishMarkdown, inputs, stream, history
  <1>2. /\ disk'.json = disk.json /\ disk'.md = md /\ disk'.axis = disk.axis
        /\ disk'.tmp = disk.tmp /\ disk'.body = disk.body /\ disk'.rows = disk.rows
        /\ DOMAIN disk' = DOMAIN disk
    BY <1>1 DEF DocInv, Records
  <1>3. book' \in Books /\ Records' /\ LayoutLists' /\ OutLists' /\ Written' /\ PublishedWhole'
    BY <1>1, <1>2 DEF DocInv, Records, Steps, LayoutLists, OutLists, Written, PublishedWhole
  <1>4. TempFiles'
    BY <1>1, <1>2 DEF DocInv, TempFiles
  <1>5. Streamed'
    <2>1. /\ built.blocks = out /\ built.known = KnownAxes /\ disk.rows = row_count(out)
          /\ docs # <<>> /\ Last(docs) = built
          /\ disk.body.lines = FlattenSeq(Sections(out, KnownAxes, Len(out)))
      BY <1>1 DEF DocInv, Written, Streamed
    <2>2. IsList(docs) /\ disk.json = Last(docs)
      BY <2>1 DEF DocInv, PublishedWhole
    <2>3. built \in Range(docs)
      <3>1. Len(docs) \in DOMAIN docs
        BY <2>1, <2>2, ListFacts
      <3> QED BY <3>1, <2>1 DEF Last, Range
    <2>4. md = render_markdown(built)
      <3>1. DOMAIN out = 1..Len(out)
        BY ListFacts DEF DocInv, OutLists
      <3>2. Sections(out, KnownAxes, Len(out))
              = [b \in DOMAIN built.blocks |-> block_section(built.blocks[b], built.known)]
        BY <2>1, <3>1 DEF Sections
      <3> QED BY <2>1, <3>2 DEF render_markdown
    <2>5. md.run = built.run
      OBVIOUS
    <2> HIDE DEF md
    <2>6. \E d \in Range(docs') : d.run = disk'.md.run /\ disk'.md = render_markdown(d)
      BY <2>3, <2>4, <2>5, <1>1, <1>2
    <2>7. disk'.md.run = disk'.json.run
      BY <2>1, <2>2, <2>5, <1>2
    <2> QED BY <2>6, <2>7, <1>1 DEF Streamed
  <1> QED BY <1>3, <1>4, <1>5 DEF DocInv

\* The sidecars go, the published files stay.
LEMMA DocDropSidecars == DocInv /\ DropSidecars => DocInv'
  <1> SUFFICES ASSUME DocInv, DropSidecars PROVE DocInv'
    OBVIOUS
  <1>1. /\ pc = "clean" /\ pc' = "done" /\ disk' = [disk EXCEPT !.body = NoBody, !.rows = 0]
        /\ UNCHANGED <<book, share, layout, rel, prep, out, lines, built, docs, builds, killed>>
    BY DEF DropSidecars, inputs, stream, history
  <1>2. /\ disk'.json = disk.json /\ disk'.md = disk.md /\ disk'.axis = disk.axis
        /\ disk'.tmp = disk.tmp /\ disk'.body = NoBody
        /\ DOMAIN disk' = DOMAIN disk
    BY <1>1 DEF DocInv, Records
  <1>3. book' \in Books /\ Records' /\ LayoutLists' /\ OutLists' /\ Written' /\ PublishedWhole'
    BY <1>1, <1>2 DEF DocInv, Records, Steps, NoBody, LayoutLists, OutLists, Written, PublishedWhole
  <1>4. TempFiles'
    BY <1>1, <1>2 DEF DocInv, TempFiles
  <1>5. Streamed'
    BY <1>1, <1>2 DEF DocInv, Streamed
  <1> QED BY <1>3, <1>4, <1>5 DEF DocInv

\* An exception cleans up, a kill leaves its files to the list of killed builds.
LEMMA DocFault == DocInv /\ (Raise \/ Kill) => DocInv'
  <1>1. ASSUME DocInv, Kill PROVE DocInv'
    <2>1. /\ pc \in {"block", "rows", "swap", "render", "clean"} /\ pc' = "failed"
          /\ killed' = killed \cup {builds}
          /\ UNCHANGED <<book, share, layout, rel, prep, out, lines, built, disk, docs, builds>>
      BY <1>1 DEF Kill, inputs, stream
    <2>2. book' \in Books /\ Records' /\ LayoutLists' /\ OutLists' /\ Written' /\ PublishedWhole'
      BY <1>1, <2>1 DEF DocInv, Records, Steps, LayoutLists, OutLists, Written, PublishedWhole
    <2>3. TempFiles'
      BY <1>1, <2>1 DEF DocInv, TempFiles
    <2>4. Streamed'
      BY <1>1, <2>1 DEF DocInv, Streamed
    <2> QED BY <2>2, <2>3, <2>4 DEF DocInv
  <1>2. ASSUME DocInv, Raise PROVE DocInv'
    <2>1. /\ pc \in {"block", "rows", "swap", "render"} /\ pc' = "failed"
          /\ disk' = IF pc = "render" THEN disk ELSE cleanup(disk, builds)
          /\ UNCHANGED <<book, share, layout, rel, prep, out, lines, built, docs, builds, killed>>
      BY <1>2 DEF Raise, inputs, stream
    <2>2. /\ disk'.json = disk.json /\ disk'.md = disk.md
          /\ DOMAIN disk' = DOMAIN disk /\ DOMAIN disk'.body = DOMAIN disk.body
          /\ pc # "render" => /\ disk'.axis = disk.axis - Len(lines)
                              /\ disk'.tmp = disk.tmp \ {builds}
          /\ pc = "render" => disk' = disk
      BY <1>2, <2>1 DEF DocInv, Records, cleanup, NoBody
    <2>3. book' \in Books /\ Records' /\ LayoutLists' /\ OutLists' /\ Written' /\ PublishedWhole'
      BY <1>2, <2>1, <2>2 DEF DocInv, Records, Steps, LayoutLists, OutLists, Written, PublishedWhole
    <2>4. TempFiles'
      <3>1. /\ IsList(lines) /\ Len(lines) \in Nat /\ disk.axis \in Nat /\ Len(lines) <= disk.axis
            /\ killed = {} => disk.axis = Len(lines)
        <4>1. IsList(lines) /\ Len(lines) \in Nat /\ disk.axis \in Nat
          BY <1>2, ListFacts DEF DocInv, TempFiles
        <4>2. CASE pc = "rows"
          BY <1>2, <4>1, <4>2 DEF DocInv, TempFiles
        <4>3. CASE pc # "rows"
          BY <1>2, <2>1, <4>1, <4>3, EmptyList DEF DocInv, TempFiles
        <4> QED BY <4>2, <4>3
      <3>2. CASE pc = "render"
        BY <1>2, <2>1, <2>2, <3>2 DEF DocInv, TempFiles
      <3>3. CASE pc # "render"
        <4>1. disk'.axis = disk.axis - Len(lines) /\ disk'.axis \in Nat
          BY <2>2, <3>1, <3>3
        <4>2. disk'.tmp \subseteq killed'
          BY <1>2, <2>1, <2>2, <3>3 DEF DocInv, TempFiles
        <4>3. killed' = {} => disk'.axis = 0
          BY <4>1, <3>1, <2>1
        <4> QED BY <4>1, <4>2, <4>3, <3>1, <2>1 DEF TempFiles
      <3> QED BY <3>2, <3>3
    <2>5. Streamed'
      BY <1>2, <2>1, <2>2 DEF DocInv, Streamed
    <2> QED BY <2>3, <2>4, <2>5 DEF DocInv
  <1> QED BY <1>1, <1>2

\* Every step keeps the invariant.
LEMMA DocNext == DocInv /\ [Next]_vars => DocInv'
  <1> SUFFICES ASSUME DocInv, [Next]_vars PROVE DocInv'
    OBVIOUS
  <1>1. CASE \/ Parse \/ WriteBatch \/ EndScan \/ ShareAxis \/ EndShare \/ LinkAxis
             \/ RelationCell \/ EndRelations \/ ReadCells \/ BuildAxes \/ GetObservations
             \/ Rebuild
    BY <1>1, DocSteady
  <1>2. CASE ShareBlocks \/ WriteTimelines \/ Open
    BY <1>2, DocShareBlocks, DocWriteTimelines, DocOpen
  <1>3. CASE StartBlock \/ WriteRow \/ EndBlock
    BY <1>3, DocStartBlock, DocWriteRow, DocEndBlock
  <1>4. CASE Finish \/ Swap \/ PublishMarkdown \/ DropSidecars
    BY <1>4, DocFinish, DocSwap, DocPublishMarkdown, DocDropSidecars
  <1>5. CASE Raise \/ Kill
    BY <1>5, DocFault
  <1>6. CASE UNCHANGED vars
    <2>1. UNCHANGED <<book, pc, at, share, layout, rel, prep, out, lines, built, disk, docs,
                      builds, killed>>
      BY <1>6 DEF vars
    <2>2. book' \in Books /\ Records' /\ LayoutLists' /\ OutLists'
      BY <2>1 DEF DocInv, Records, LayoutLists, OutLists
    <2>3. Written' /\ PublishedWhole' /\ TempFiles'
      BY <2>1 DEF DocInv, Written, PublishedWhole, TempFiles, KnownAxes
    <2>4. Streamed'
      BY <2>1 DEF DocInv, Streamed, KnownAxes, Tables
    <2> QED BY <2>2, <2>3, <2>4 DEF DocInv
  <1> QED BY <1>1, <1>2, <1>3, <1>4, <1>5, <1>6 DEF Next

\* The invariant holds in every reachable state.
LEMMA DocAlways == Spec => []DocInv
  BY DocInit, DocNext, PTL DEF Spec

\* Whatever builds raise or are killed before it, what is published is a complete
\* document, and only killed builds leave files behind (build_context).
THEOREM WholeDocumentHolds == Spec => []WholeDocument
  <1>1. DocInv => WholeDocument
    <2> SUFFICES ASSUME DocInv PROVE WholeDocument
      OBVIOUS
    <2>1. /\ disk.json = IF docs = <<>> THEN Nothing ELSE Last(docs)
          /\ \A d \in Range(docs) :
                /\ Len(d.blocks) = Len(layout.blocks)
                /\ \A b \in DOMAIN d.blocks : Len(d.blocks[b].rows) = Len(layout.blocks[b].rows)
      BY DEF DocInv, PublishedWhole
    <2>2. pc \in {"done", "failed"} => disk.tmp \subseteq killed /\ (killed = {} => disk.axis = 0)
      BY DEF DocInv, TempFiles
    <2> QED BY <2>1, <2>2 DEF WholeDocument
  <1> QED BY <1>1, DocAlways, PTL

\* context.md is the rendering of a published document, and of the current one when the
\* build is done, although it was streamed block by block (_publish_streamed_markdown).
THEOREM MarkdownSameHolds == Spec => []MarkdownSame
  <1>1. DocInv => MarkdownSame
    BY DEF DocInv, Streamed, MarkdownSame
  <1> QED BY <1>1, DocAlways, PTL

(***************************************************************************)
(* Timelines of the workbook (_timeline_buckets)                           *)
(***************************************************************************)

\* The first position of a loop that looks for one: none, or one that fits.
LEMMA FirstIs ==
  ASSUME NEW K \in SUBSET Nat, NEW k, k = IF K = {} THEN 0 ELSE CHOOSE j \in K : \A l \in K : j <= l
  PROVE  (k = 0 /\ K = {}) \/ k \in K
  BY NatMin

BucketFields == {"signature", "dates", "flags", "members"}
Joined(b) ==
    /\ DOMAIN b = BucketFields /\ IsList(b.members)
    /\ \A m \in Range(b.members) :
          /\ m.signature = b.signature
          /\ m.dates \in {<<>>, b.dates}
          /\ m.flags \in {<<>>, b.flags}
Bucketed(bs) == IsList(bs) /\ \A b \in DOMAIN bs : Joined(bs[b])

\* A bucket with one member agrees with itself.
LEMMA NewJoined ==
  ASSUME NEW member
  PROVE  Joined([signature |-> member.signature, dates |-> member.dates,
                 flags |-> member.flags, members |-> <<member>>])
  <1> DEFINE r == [signature |-> member.signature, dates |-> member.dates,
                   flags |-> member.flags, members |-> <<member>>]
  <1>1. /\ DOMAIN r = BucketFields /\ r.members = <<member>> /\ r.signature = member.signature
        /\ r.dates = member.dates /\ r.flags = member.flags
    BY DEF BucketFields
  <1>2. IsList(<<member>>) /\ Range(<<member>>) = {member}
    BY OneList DEF Range
  <1> HIDE DEF r
  <1>3. Joined(r)
    BY <1>1, <1>2 DEF Joined
  <1> QED BY <1>3 DEF r

\* A member a bucket admits agrees with all members of it, after the bucket took the
\* dates and flags it lacked.
LEMMA FillJoined ==
  ASSUME NEW b, Joined(b), NEW member, Admits(b, member)
  PROVE  Joined(fill_bucket(b, member))
  <1> DEFINE new == fill_bucket(b, member)
             list == b.members
  <1>1. /\ DOMAIN new = BucketFields
        /\ new.members = Append(list, member)
        /\ new.signature = b.signature
        /\ new.dates = IF b.dates = <<>> THEN member.dates ELSE b.dates
        /\ new.flags = IF b.flags = <<>> THEN member.flags ELSE b.flags
    BY DEF fill_bucket, BucketFields, Joined
  <1>2. IsList(list)
    BY DEF Joined
  <1> HIDE DEF new, list
  <1>3. IsList(Append(list, member))
    BY <1>2, AppendList
  <1>4. Range(Append(list, member)) = Range(list) \cup {member}
    BY <1>2, AppendList
  <1>5. ASSUME NEW m \in Range(new.members)
        PROVE  /\ m.signature = new.signature
               /\ m.dates \in {<<>>, new.dates}
               /\ m.flags \in {<<>>, new.flags}
    <2>1. CASE m = member
      BY <2>1, <1>1 DEF Admits, dates_compatible, flags_compatible
    <2>2. CASE m \in Range(list)
      BY <2>2, <1>1 DEF Joined, list
    <2> QED BY <2>1, <2>2, <1>1, <1>4
  <1> QED BY <1>1, <1>3, <1>5 DEF Joined, new

\* Placing a member keeps all buckets in agreement.
LEMMA PlaceKeeps ==
  ASSUME NEW bs, Bucketed(bs), NEW member, NEW k,
         k = 0 \/ (k \in DOMAIN bs /\ Admits(bs[k], member))
  PROVE  Bucketed(place_member(bs, member, k))
  <1> DEFINE r == [signature |-> member.signature, dates |-> member.dates,
                   flags |-> member.flags, members |-> <<member>>]
             new == place_member(bs, member, k)
  <1>1. IsList(bs) /\ Len(bs) \in Nat /\ DOMAIN bs = 1..Len(bs)
    BY ListFacts DEF Bucketed
  <1>3. ASSUME k = 0 PROVE Bucketed(new)
    <2>1. new = Append(bs, r)
      BY <1>3 DEF place_member
    <2>2. Joined(r)
      BY NewJoined
    <2> HIDE DEF r, new
    <2>3. IsList(new)
      BY <2>1, <1>1, AppendList
    <2>4. DOMAIN new = 1..(Len(bs) + 1) /\ new[Len(bs) + 1] = r
      BY <2>1, <1>1, AppendList
    <2>5. \A i \in 1..Len(bs) : new[i] = bs[i]
      BY <2>1, <1>1, AppendList
    <2>6. ASSUME NEW b \in DOMAIN new PROVE Joined(new[b])
      <3>1. CASE b \in 1..Len(bs)
        BY <3>1, <2>5, <1>1 DEF Bucketed
      <3>2. CASE b = Len(bs) + 1
        BY <3>2, <2>2, <2>4
      <3> QED BY <3>1, <3>2, <2>4, <1>1
    <2> QED BY <2>3, <2>6 DEF Bucketed, new
  <1>4. ASSUME k # 0 PROVE Bucketed(new)
    <2>1. k \in DOMAIN bs /\ Admits(bs[k], member) /\ k # 0
      BY <1>4, <1>1
    <2>2. new = [bs EXCEPT ![k] = fill_bucket(bs[k], member)]
      BY <2>1 DEF place_member
    <2>3. Joined(fill_bucket(bs[k], member))
      BY <2>1, FillJoined DEF Bucketed
    <2> HIDE DEF new
    <2>4. DOMAIN new = DOMAIN bs /\ new[k] = fill_bucket(bs[k], member)
          /\ \A j \in DOMAIN bs : j # k => new[j] = bs[j]
      BY <2>1, <2>2
    <2>5. IsList(new)
      <3>1. new = [i \in 1..Len(bs) |-> new[i]]
        BY <2>2, <1>1
      <3> QED BY <3>1, <1>1, FnIsList
    <2>6. ASSUME NEW b \in DOMAIN new PROVE Joined(new[b])
      <3>1. CASE b = k
        BY <3>1, <2>3, <2>4
      <3>2. CASE b # k
        BY <3>2, <2>4 DEF Bucketed
      <3> QED BY <3>1, <3>2
    <2> QED BY <2>5, <2>6 DEF Bucketed, new
  <1> QED BY <1>3, <1>4

\* There are no buckets at first.
LEMMA LinkInit == Init => Bucketed(buckets)
  BY EmptyList DEF Init, Bucketed

\* Every step keeps the buckets in agreement.
LEMMA LinkNext == Bucketed(buckets) /\ [Next]_vars => Bucketed(buckets')
  <1> SUFFICES ASSUME Bucketed(buckets), [Next]_vars PROVE Bucketed(buckets')
    OBVIOUS
  <1>1. CASE LinkAxis
    <2> DEFINE K(m) == {j \in DOMAIN buckets : Admits(buckets[j], m)}
               k(m) == IF K(m) = {} THEN 0 ELSE CHOOSE j \in K(m) : \A l \in K(m) : j <= l
    <2>1. PICK axis, member :
             buckets' = IF ~Linkable(axis) THEN buckets ELSE place_member(buckets, member, k(member))
      BY <1>1 DEF LinkAxis, First
    <2>2. \E n : n = k(member) /\ (n = 0 \/ (n \in DOMAIN buckets /\ Admits(buckets[n], member)))
      <3> DEFINE S == K(member)
                 n == k(member)
      <3>1. S \in SUBSET Nat
        BY ListFacts DEF Bucketed
      <3>2. n = IF S = {} THEN 0 ELSE CHOOSE j \in S : \A l \in S : j <= l
        OBVIOUS
      <3>3. (n = 0 /\ S = {}) \/ n \in S
        <4> HIDE DEF S, n
        <4> QED BY <3>1, <3>2, FirstIs
      <3>4. n = 0 \/ (n \in DOMAIN buckets /\ Admits(buckets[n], member))
        <4> HIDE DEF n
        <4> QED BY <3>3
      <3> HIDE DEF n, k, K
      <3>5. n = k(member)
        BY DEF n
      <3> QED BY <3>4, <3>5
    <2>3. Bucketed(place_member(buckets, member, k(member)))
      <3> HIDE DEF k
      <3>1. PICK n : n = k(member) /\ (n = 0 \/ (n \in DOMAIN buckets /\ Admits(buckets[n], member)))
        BY <2>2
      <3>2. Bucketed(place_member(buckets, member, n))
        BY <3>1, PlaceKeeps
      <3> QED BY <3>1, <3>2
    <2> QED BY <2>1, <2>3
  <1>2. CASE \/ Parse \/ WriteBatch \/ EndScan \/ ShareAxis \/ ShareBlocks \/ EndShare
             \/ WriteTimelines \/ RelationCell \/ EndRelations
    BY <1>2 DEF Parse, WriteBatch, EndScan, ShareAxis, ShareBlocks, EndShare, WriteTimelines,
                RelationCell, EndRelations, inputs
  <1>3. CASE \/ ReadCells \/ BuildAxes \/ Open \/ StartBlock \/ WriteRow \/ EndBlock
             \/ Finish \/ Swap \/ PublishMarkdown \/ DropSidecars
    BY <1>3 DEF ReadCells, BuildAxes, Open, StartBlock, WriteRow, EndBlock, Finish, Swap,
                PublishMarkdown, DropSidecars, inputs
  <1>4. CASE GetObservations \/ Raise \/ Kill \/ Rebuild \/ UNCHANGED vars
    BY <1>4 DEF GetObservations, Raise, Kill, Rebuild, inputs, vars
  <1> QED BY <1>1, <1>2, <1>3, <1>4 DEF Next

\* Buckets in agreement are what LinkedAgree asks for.
LEMMA LinkedCompatible == Bucketed(buckets) => LinkedAgree
  <1> SUFFICES ASSUME Bucketed(buckets), NEW b \in Range(buckets),
                      NEW m \in Range(b.members), NEW n \in Range(b.members)
               PROVE  /\ m.signature = n.signature
                      /\ dates_compatible(m.dates, n.dates)
                      /\ flags_compatible(m.flags, n.flags)
    BY DEF LinkedAgree
  <1>1. PICK j \in DOMAIN buckets : b = buckets[j]
    BY DEF Range
  <1>2. /\ m.signature = b.signature /\ n.signature = b.signature
        /\ m.dates \in {<<>>, b.dates} /\ n.dates \in {<<>>, b.dates}
        /\ m.flags \in {<<>>, b.flags} /\ n.flags \in {<<>>, b.flags}
    BY <1>1 DEF Bucketed, Joined
  <1> QED BY <1>2 DEF dates_compatible, flags_compatible

(***************************************************************************)
(* Axes of one sheet (_share_repeated_axes)                                *)
(***************************************************************************)

PrintIn(sheet, cells, a) ==
    flag_fingerprint(OwnerRows(sheet.blocks, a.id), a.periods, a.sheet, cells)
DerivedIn(kept, cells, a) == \E k \in DOMAIN kept : derived_axis(a, kept[k].axis, cells)

\* Why an axis may stand for another one: it computes from an axis that was kept,
\* or its flags are those of the table that admitted it.
Held(e, a, print, derived) ==
    \/ derived
    \/ /\ ~has_explicit_marker(a) /\ has_explicit_marker(e.axis)
       /\ print \in {<<>>, e.cols}
    \/ axis_signature(e.axis) = axis_signature(a) /\ print \in {<<>>, e.print}

EntryFields == {"axis", "print", "cols"}

KeptTo(kept, axes, n) ==
    /\ \A k \in DOMAIN kept : /\ DOMAIN kept[k] = EntryFields
                              /\ \E j \in 1..n : kept[k].axis = axes[j]
    /\ \A k, l \in DOMAIN kept : kept[k].axis.id = kept[l].axis.id => k = l

AliasTo(alias, axes, n) ==
    /\ \A k \in DOMAIN alias : \E j \in 1..n : alias[k].id = axes[j].id
    /\ \A k, l \in DOMAIN alias : alias[k].id = alias[l].id => k = l

Apart(kept, alias) == \A k \in DOMAIN kept : \A l \in DOMAIN alias : kept[k].axis.id # alias[l].id

StandsIn(kept, alias, sheet, cells, a) ==
    \E k \in DOMAIN kept :
        /\ Mapped(alias, a.id) = kept[k].axis.id
        /\ Held(kept[k], a, PrintIn(sheet, cells, a), DerivedIn(kept, cells, a))

SharedTo(kept, alias, sheet, cells, n) ==
    /\ IsList(kept) /\ IsList(alias)
    /\ KeptTo(kept, sheet.axes, n) /\ AliasTo(alias, sheet.axes, n) /\ Apart(kept, alias)
    /\ \A j \in 1..n : StandsIn(kept, alias, sheet, cells, sheet.axes[j])

\* An alias maps its id.
LEMMA MappedIs ==
  ASSUME NEW alias, \A k, l \in DOMAIN alias : alias[k].id = alias[l].id => k = l,
         NEW k \in DOMAIN alias
  PROVE  Mapped(alias, alias[k].id) = alias[k].of
  <1> DEFINE c == CHOOSE j \in DOMAIN alias : alias[j].id = alias[k].id
  <1>1. c \in DOMAIN alias /\ alias[c].id = alias[k].id
    OBVIOUS
  <1>2. c = k
    <2> HIDE DEF c
    <2> QED BY <1>1
  <1> QED BY <1>2 DEF Mapped

\* A new alias maps its own id and no other.
LEMMA MappedNew ==
  ASSUME NEW alias, IsList(alias), NEW id, NEW of,
         \A k \in DOMAIN alias : alias[k].id # id,
         \A k, l \in DOMAIN alias : alias[k].id = alias[l].id => k = l
  PROVE  LET new == Append(alias, [id |-> id, of |-> of])
         IN  /\ IsList(new)
             /\ \A k, l \in DOMAIN new : new[k].id = new[l].id => k = l
             /\ \A k \in DOMAIN new : new[k].id = id \/ (k \in DOMAIN alias /\ new[k] = alias[k])
             /\ Mapped(new, id) = of
             /\ \A x : x # id => Mapped(new, x) = Mapped(alias, x)
  <1> DEFINE r == [id |-> id, of |-> of]
             new == Append(alias, r)
             n == Len(alias)
  <1>1. n \in Nat /\ DOMAIN alias = 1..n
    BY ListFacts
  <1>2. r.id = id /\ r.of = of
    OBVIOUS
  <1> HIDE DEF r
  <1>3. IsList(new)
    BY AppendList
  <1>4. DOMAIN new = 1..(n + 1) /\ new[n + 1] = r
    BY AppendList
  <1>5. \A i \in 1..n : new[i] = alias[i]
    BY AppendList
  <1> HIDE DEF new, n
  <1>6. \A k, l \in DOMAIN new : new[k].id = new[l].id => k = l
    <2> TAKE k \in DOMAIN new, l \in DOMAIN new
    <2>1. CASE k = n + 1 /\ l = n + 1
      BY <2>1
    <2>2. CASE k = n + 1 /\ l \in 1..n
      BY <2>2, <1>1, <1>2, <1>4, <1>5
    <2>3. CASE k \in 1..n /\ l = n + 1
      BY <2>3, <1>1, <1>2, <1>4, <1>5
    <2>4. CASE k \in 1..n /\ l \in 1..n
      BY <2>4, <1>1, <1>5
    <2> QED BY <2>1, <2>2, <2>3, <2>4, <1>1, <1>4
  <1>7. \A k \in DOMAIN new : new[k].id = id \/ (k \in DOMAIN alias /\ new[k] = alias[k])
    <2> TAKE k \in DOMAIN new
    <2>1. CASE k = n + 1
      <3>1. new[k] = r
        BY <2>1, <1>4
      <3>2. new[k].id = id
        BY <3>1, <1>2
      <3> QED BY <3>2
    <2>2. CASE k \in 1..n
      BY <2>2, <1>1, <1>5
    <2> QED BY <2>1, <2>2, <1>1, <1>4
  <1>8. Mapped(new, id) = of
    <2>1. n + 1 \in DOMAIN new
      BY <1>1, <1>4
    <2>2. Mapped(new, new[n + 1].id) = new[n + 1].of
      BY <2>1, <1>6, MappedIs
    <2> QED BY <2>2, <1>2, <1>4
  <1>9. ASSUME NEW x, x # id PROVE Mapped(new, x) = Mapped(alias, x)
    <2>1. CASE \E k \in DOMAIN alias : alias[k].id = x
      <3>1. PICK k \in DOMAIN alias : alias[k].id = x
        BY <2>1
      <3>2. k \in DOMAIN new /\ new[k] = alias[k]
        BY <1>1, <1>4, <1>5
      <3>3. Mapped(alias, alias[k].id) = alias[k].of
        BY MappedIs
      <3>4. Mapped(new, new[k].id) = new[k].of
        BY <3>2, <1>6, MappedIs
      <3> QED BY <3>1, <3>2, <3>3, <3>4
    <2>2. CASE ~\E k \in DOMAIN alias : alias[k].id = x
      <3>1. ~\E k \in DOMAIN new : new[k].id = x
        BY <2>2, <1>9, <1>7
      <3> QED BY <2>2, <3>1 DEF Mapped
    <2> QED BY <2>1, <2>2
  <1> QED BY <1>3, <1>6, <1>7, <1>8, <1>9 DEF new, r

\* An axis that becomes an alias of an entry, after the entry was filled.
LEMMA ShareAlias ==
  ASSUME NEW sheet, WellFormed(sheet), NEW cells, NEW n \in Nat, n + 1 \in DOMAIN sheet.axes,
         NEW kept, NEW alias, SharedTo(kept, alias, sheet, cells, n),
         NEW filled, IsList(filled), DOMAIN filled = DOMAIN kept,
         \A k \in DOMAIN kept : /\ DOMAIN filled[k] = EntryFields
                                /\ filled[k].axis = kept[k].axis
                                /\ kept[k].print \in {<<>>, filled[k].print}
                                /\ kept[k].cols \in {<<>>, filled[k].cols},
         NEW e \in DOMAIN kept,
         LET a == sheet.axes[n + 1]
         IN  Held(filled[e], a, PrintIn(sheet, cells, a), DerivedIn(filled, cells, a))
  PROVE  SharedTo(filled, alias \o AliasOf(sheet.axes[n + 1], kept[e]), sheet, cells, n + 1)
  <1> DEFINE a == sheet.axes[n + 1]
             new == Append(alias, [id |-> a.id, of |-> kept[e].axis.id])
  <1>1. alias \o AliasOf(a, kept[e]) = new
    <2> DEFINE r == [id |-> a.id, of |-> kept[e].axis.id]
    <2>1. IsList(alias)
      BY DEF SharedTo
    <2>2. Append(alias, r) = alias \o <<r>>
      <3> HIDE DEF r
      <3> QED BY <2>1, AppendList
    <2> QED BY <2>2 DEF AliasOf
  <1>2. \A j \in 1..n : j \in DOMAIN sheet.axes /\ sheet.axes[j].id # a.id
    <2>1. Len(sheet.axes) \in Nat /\ DOMAIN sheet.axes = 1..Len(sheet.axes)
      BY ListFacts DEF WellFormed
    <2> QED BY <2>1 DEF WellFormed
  <1>3. \A k \in DOMAIN alias : alias[k].id # a.id
    BY <1>2 DEF SharedTo, AliasTo
  <1>4. \A k \in DOMAIN kept : kept[k].axis.id # a.id
    BY <1>2 DEF SharedTo, KeptTo
  <1>5. /\ IsList(new)
        /\ \A k, l \in DOMAIN new : new[k].id = new[l].id => k = l
        /\ \A k \in DOMAIN new : new[k].id = a.id \/ (k \in DOMAIN alias /\ new[k] = alias[k])
        /\ Mapped(new, a.id) = kept[e].axis.id
        /\ \A x : x # a.id => Mapped(new, x) = Mapped(alias, x)
    <2> DEFINE id == a.id
               of == kept[e].axis.id
    <2>1. IsList(alias) /\ \A k, l \in DOMAIN alias : alias[k].id = alias[l].id => k = l
      BY DEF SharedTo, AliasTo
    <2>2. \A k \in DOMAIN alias : alias[k].id # id
      BY <1>3
    <2> HIDE DEF a
    <2> QED BY <2>1, <2>2, MappedNew
  <1> HIDE DEF new
  <1>6. KeptTo(filled, sheet.axes, n + 1)
    <2>1. \A k \in DOMAIN filled : \E j \in 1..(n + 1) : filled[k].axis = sheet.axes[j]
      BY DEF SharedTo, KeptTo
    <2> QED BY <2>1 DEF SharedTo, KeptTo
  <1>7. AliasTo(new, sheet.axes, n + 1)
    <2>1. ASSUME NEW k \in DOMAIN new PROVE \E j \in 1..(n + 1) : new[k].id = sheet.axes[j].id
      <3>1. CASE new[k].id = a.id
        BY <3>1
      <3>2. CASE k \in DOMAIN alias /\ new[k] = alias[k]
        BY <3>2 DEF SharedTo, AliasTo
      <3> QED BY <3>1, <3>2, <1>5
    <2> QED BY <2>1, <1>5 DEF AliasTo
  <1>8. Apart(filled, new)
    <2> SUFFICES ASSUME NEW k \in DOMAIN filled, NEW l \in DOMAIN new
                 PROVE  filled[k].axis.id # new[l].id
      BY DEF Apart
    <2>1. CASE new[l].id = a.id
      BY <2>1, <1>4
    <2>2. CASE l \in DOMAIN alias /\ new[l] = alias[l]
      BY <2>2 DEF SharedTo, Apart
    <2> QED BY <2>1, <2>2, <1>5
  <1>9. ASSUME NEW b, DerivedIn(kept, cells, b) PROVE DerivedIn(filled, cells, b)
    BY <1>9 DEF DerivedIn
  <1>10. ASSUME NEW j \in 1..(n + 1) PROVE StandsIn(filled, new, sheet, cells, sheet.axes[j])
    <2>1. CASE j = n + 1
      BY <2>1, <1>5 DEF StandsIn
    <2>2. CASE j \in 1..n
      <3> DEFINE b == sheet.axes[j]
      <3>1. PICK k \in DOMAIN kept :
               /\ Mapped(alias, b.id) = kept[k].axis.id
               /\ Held(kept[k], b, PrintIn(sheet, cells, b), DerivedIn(kept, cells, b))
        BY <2>2 DEF SharedTo, StandsIn
      <3>2. Mapped(new, b.id) = filled[k].axis.id
        BY <2>2, <3>1, <1>2, <1>5
      <3>3. Held(filled[k], b, PrintIn(sheet, cells, b), DerivedIn(filled, cells, b))
        BY <3>1, <1>9 DEF Held
      <3> QED BY <3>2, <3>3 DEF StandsIn
    <2> QED BY <2>1, <2>2
  <1> QED BY <1>1, <1>5, <1>6, <1>7, <1>8, <1>10 DEF SharedTo

\* An axis that is kept.
LEMMA ShareKept ==
  ASSUME NEW sheet, WellFormed(sheet), NEW cells, NEW n \in Nat, n + 1 \in DOMAIN sheet.axes,
         NEW kept, NEW alias, SharedTo(kept, alias, sheet, cells, n), NEW e,
         DOMAIN e = EntryFields, e.axis = sheet.axes[n + 1],
         e.print = PrintIn(sheet, cells, sheet.axes[n + 1])
  PROVE  SharedTo(Append(kept, e), alias, sheet, cells, n + 1)
  <1> DEFINE a == sheet.axes[n + 1]
             new == Append(kept, e)
             m == Len(kept)
  <1>1. IsList(kept) /\ m \in Nat /\ DOMAIN kept = 1..m
    BY ListFacts DEF SharedTo
  <1>2. \A j \in 1..n : j \in DOMAIN sheet.axes /\ sheet.axes[j].id # a.id
    <2>1. Len(sheet.axes) \in Nat /\ DOMAIN sheet.axes = 1..Len(sheet.axes)
      BY ListFacts DEF WellFormed
    <2> QED BY <2>1 DEF WellFormed
  <1>3. \A k \in DOMAIN alias : alias[k].id # a.id
    BY <1>2 DEF SharedTo, AliasTo
  <1>4. \A k \in DOMAIN kept : kept[k].axis.id # a.id
    BY <1>2 DEF SharedTo, KeptTo
  <1>5. IsList(new)
    BY <1>1, AppendList
  <1>6. DOMAIN new = 1..(m + 1) /\ new[m + 1] = e
    BY <1>1, AppendList
  <1>7. \A i \in DOMAIN kept : i \in DOMAIN new /\ new[i] = kept[i]
    <2>1. \A i \in 1..m : new[i] = kept[i]
      BY <1>1, AppendList
    <2> HIDE DEF new
    <2> QED BY <2>1, <1>1, <1>6
  <1>8. \A k \in DOMAIN new : k = m + 1 \/ k \in DOMAIN kept
    <2> HIDE DEF new
    <2> QED BY <1>1, <1>6
  <1> HIDE DEF new, m
  <1>9. KeptTo(new, sheet.axes, n + 1)
    <2>1. ASSUME NEW k \in DOMAIN new
          PROVE  DOMAIN new[k] = EntryFields /\ \E j \in 1..(n + 1) : new[k].axis = sheet.axes[j]
      <3>1. CASE k = m + 1
        BY <3>1, <1>6
      <3>2. CASE k \in DOMAIN kept
        BY <3>2, <1>7 DEF SharedTo, KeptTo
      <3> QED BY <3>1, <3>2, <1>8
    <2>2. ASSUME NEW k \in DOMAIN new, NEW l \in DOMAIN new, new[k].axis.id = new[l].axis.id
          PROVE  k = l
      <3>1. CASE k = m + 1 /\ l = m + 1
        BY <3>1
      <3>2. CASE k = m + 1 /\ l \in DOMAIN kept
        BY <3>2, <2>2, <1>4, <1>6, <1>7
      <3>3. CASE k \in DOMAIN kept /\ l = m + 1
        BY <3>3, <2>2, <1>4, <1>6, <1>7
      <3>4. CASE k \in DOMAIN kept /\ l \in DOMAIN kept
        BY <3>4, <2>2, <1>7 DEF SharedTo, KeptTo
      <3> QED BY <3>1, <3>2, <3>3, <3>4, <1>8
    <2> QED BY <2>1, <2>2 DEF KeptTo
  <1>10. AliasTo(alias, sheet.axes, n + 1)
    <2>1. \A k \in DOMAIN alias : \E j \in 1..(n + 1) : alias[k].id = sheet.axes[j].id
      BY DEF SharedTo, AliasTo
    <2> QED BY <2>1 DEF SharedTo, AliasTo
  <1>11. Apart(new, alias)
    <2> SUFFICES ASSUME NEW k \in DOMAIN new, NEW l \in DOMAIN alias
                 PROVE  new[k].axis.id # alias[l].id
      BY DEF Apart
    <2>1. CASE k = m + 1
      BY <2>1, <1>3, <1>6
    <2>2. CASE k \in DOMAIN kept
      BY <2>2, <1>7 DEF SharedTo, Apart
    <2> QED BY <2>1, <2>2, <1>8
  <1>12. ASSUME NEW b, DerivedIn(kept, cells, b) PROVE DerivedIn(new, cells, b)
    BY <1>12, <1>7 DEF DerivedIn
  <1>13. ASSUME NEW j \in 1..(n + 1) PROVE StandsIn(new, alias, sheet, cells, sheet.axes[j])
    <2>1. CASE j = n + 1
      <3>1. Mapped(alias, a.id) = a.id
        BY <1>3 DEF Mapped
      <3>2. m + 1 \in DOMAIN new
        BY <1>1, <1>6
      <3>3. Held(new[m + 1], a, PrintIn(sheet, cells, a), DerivedIn(new, cells, a))
        BY <1>6 DEF Held
      <3> QED BY <2>1, <3>1, <3>2, <3>3, <1>6 DEF StandsIn
    <2>2. CASE j \in 1..n
      <3> DEFINE b == sheet.axes[j]
      <3>1. PICK k \in DOMAIN kept :
               /\ Mapped(alias, b.id) = kept[k].axis.id
               /\ Held(kept[k], b, PrintIn(sheet, cells, b), DerivedIn(kept, cells, b))
        BY <2>2 DEF SharedTo, StandsIn
      <3>2. k \in DOMAIN new /\ new[k] = kept[k]
        BY <1>7
      <3>3. Held(new[k], b, PrintIn(sheet, cells, b), DerivedIn(new, cells, b))
        BY <3>1, <3>2, <1>12 DEF Held
      <3> QED BY <3>1, <3>2, <3>3 DEF StandsIn
    <2> QED BY <2>1, <2>2
  <1> QED BY <1>5, <1>9, <1>10, <1>11, <1>13 DEF SharedTo, new

\* One turn of the loop over the axes of a sheet.
LEMMA ShareStep ==
  ASSUME NEW sheet, WellFormed(sheet), NEW cells, NEW n \in Nat, n + 1 \in DOMAIN sheet.axes,
         NEW sh, DOMAIN sh = {"kept", "alias"},
         SharedTo(sh.kept, sh.alias, sheet, cells, n),
         NEW axis, axis = sheet.axes[n + 1], NEW print, print = PrintIn(sheet, cells, axis),
         NEW d, d = 0 \/ (d \in DOMAIN sh.kept /\ derived_axis(axis, sh.kept[d].axis, cells)),
         NEW p, p = 0 \/ (p \in DOMAIN sh.kept /\ Painted(sh.kept[p], axis, print)),
         NEW m, m = 0 \/ (m \in DOMAIN sh.kept /\ Matches(sh.kept[m], axis, print))
  PROVE  LET new == share_axis(sh, axis, print, d, p, m)
         IN  SharedTo(new.kept, new.alias, sheet, cells, n + 1)
  <1> DEFINE kept == sh.kept
             alias == sh.alias
             new == share_axis(sh, axis, print, d, p, m)
             Rest(f) == \A k \in DOMAIN kept : /\ DOMAIN f[k] = EntryFields
                                /\ f[k].axis = kept[k].axis
                                /\ kept[k].print \in {<<>>, f[k].print}
                                /\ kept[k].cols \in {<<>>, f[k].cols}
  <1>0. /\ IsList(kept) /\ Len(kept) \in Nat /\ DOMAIN kept = 1..Len(kept)
        /\ \A k \in DOMAIN kept : DOMAIN kept[k] = EntryFields
    BY ListFacts DEF SharedTo, KeptTo
  <1>1. CASE d # 0
    <2>1. d > 0 /\ d \in DOMAIN kept /\ derived_axis(axis, kept[d].axis, cells)
      BY <1>1, <1>0
    <2>2. new.kept = kept /\ new.alias = alias \o AliasOf(axis, kept[d])
      BY <2>1 DEF share_axis
    <2>3. DerivedIn(kept, cells, axis)
      BY <2>1 DEF DerivedIn
    <2>4. Held(kept[d], axis, PrintIn(sheet, cells, axis), DerivedIn(kept, cells, axis))
      BY <2>3 DEF Held
    <2>5. Rest(kept)
      BY <1>0
    <2> HIDE DEF new, kept, alias
    <2>6. SharedTo(kept, alias, sheet, cells, n)
      BY DEF kept, alias
    <2>7. SharedTo(kept, alias \o AliasOf(sheet.axes[n + 1], kept[d]), sheet, cells, n + 1)
      BY <1>0, <2>1, <2>4, <2>5, <2>6, ShareAlias
    <2> QED BY <2>2, <2>7 DEF new
  <1>2. CASE d = 0 /\ p # 0
    <2> DEFINE filled == [kept EXCEPT ![p] = remember_flags(kept[p], print)]
    <2>1. ~(d > 0) /\ p > 0 /\ p \in DOMAIN kept /\ Painted(kept[p], axis, print)
      BY <1>2, <1>0
    <2>2. new.kept = filled /\ new.alias = alias \o AliasOf(axis, kept[p])
      BY <2>1 DEF share_axis
    <2>3. /\ DOMAIN filled = DOMAIN kept /\ filled[p] = remember_flags(kept[p], print)
          /\ \A k \in DOMAIN kept : k # p => filled[k] = kept[k]
      BY <2>1
    <2>4. IsList(filled)
      <3>1. filled = [k \in 1..Len(kept) |-> filled[k]]
        BY <1>0
      <3> HIDE DEF filled
      <3> QED BY <3>1, <1>0, FnIsList
    <2> HIDE DEF filled
    <2>5. /\ DOMAIN filled[p] = EntryFields /\ filled[p].axis = kept[p].axis
          /\ filled[p].print = IF kept[p].print = <<>> THEN print ELSE kept[p].print
          /\ filled[p].cols = IF kept[p].cols = <<>> THEN print ELSE kept[p].cols
      <3>1. DOMAIN kept[p] = EntryFields
        BY <2>1, <1>0
      <3> QED BY <2>3, <3>1 DEF remember_flags, EntryFields
    <2>6. Rest(filled)
      <3> TAKE k \in DOMAIN kept
      <3>1. CASE k = p
        BY <3>1, <2>5
      <3>2. CASE k # p
        BY <3>2, <2>3, <1>0
      <3> QED BY <3>1, <3>2
    <2>7. Held(filled[p], axis, PrintIn(sheet, cells, axis), DerivedIn(filled, cells, axis))
      BY <2>1, <2>5 DEF Held, Painted, flags_compatible
    <2> HIDE DEF new, kept, alias
    <2>8. SharedTo(kept, alias, sheet, cells, n)
      BY DEF kept, alias
    <2>9. SharedTo(filled, alias \o AliasOf(sheet.axes[n + 1], kept[p]), sheet, cells, n + 1)
      BY <1>0, <2>1, <2>3, <2>4, <2>6, <2>7, <2>8, ShareAlias
    <2> QED BY <2>2, <2>9 DEF new
  <1>3. CASE d = 0 /\ p = 0 /\ m # 0
    <2> DEFINE filled == [kept EXCEPT ![m] = fill_match(kept[m], print)]
    <2>1. ~(d > 0) /\ ~(p > 0) /\ m > 0 /\ m \in DOMAIN kept /\ Matches(kept[m], axis, print)
      BY <1>3, <1>0
    <2>2. new.kept = filled /\ new.alias = alias \o AliasOf(axis, kept[m])
      BY <2>1 DEF share_axis
    <2>3. /\ DOMAIN filled = DOMAIN kept /\ filled[m] = fill_match(kept[m], print)
          /\ \A k \in DOMAIN kept : k # m => filled[k] = kept[k]
      BY <2>1
    <2>4. IsList(filled)
      <3>1. filled = [k \in 1..Len(kept) |-> filled[k]]
        BY <1>0
      <3> HIDE DEF filled
      <3> QED BY <3>1, <1>0, FnIsList
    <2> HIDE DEF filled
    <2>5. /\ DOMAIN filled[m] = EntryFields /\ filled[m].axis = kept[m].axis
          /\ filled[m].print = IF kept[m].print = <<>> THEN print ELSE kept[m].print
          /\ filled[m].cols = kept[m].cols
      <3>1. DOMAIN kept[m] = EntryFields
        BY <2>1, <1>0
      <3> QED BY <2>3, <3>1 DEF fill_match, EntryFields
    <2>6. Rest(filled)
      <3> TAKE k \in DOMAIN kept
      <3>1. CASE k = m
        BY <3>1, <2>5
      <3>2. CASE k # m
        BY <3>2, <2>3, <1>0
      <3> QED BY <3>1, <3>2
    <2>7. Held(filled[m], axis, PrintIn(sheet, cells, axis), DerivedIn(filled, cells, axis))
      BY <2>1, <2>5 DEF Held, Matches, flags_compatible
    <2> HIDE DEF new, kept, alias
    <2>8. SharedTo(kept, alias, sheet, cells, n)
      BY DEF kept, alias
    <2>9. SharedTo(filled, alias \o AliasOf(sheet.axes[n + 1], kept[m]), sheet, cells, n + 1)
      BY <1>0, <2>1, <2>3, <2>4, <2>6, <2>7, <2>8, ShareAlias
    <2> QED BY <2>2, <2>9 DEF new
  <1>4. CASE d = 0 /\ p = 0 /\ m = 0
    <2> DEFINE e == [axis |-> axis, print |-> print, cols |-> print]
    <2>1. new.kept = Append(kept, e) /\ new.alias = alias
      BY <1>4 DEF share_axis
    <2>2. DOMAIN e = EntryFields /\ e.axis = axis /\ e.print = print
      BY DEF EntryFields
    <2> HIDE DEF e, new, kept, alias
    <2>3. SharedTo(kept, alias, sheet, cells, n)
      BY DEF kept, alias
    <2>4. SharedTo(Append(kept, e), alias, sheet, cells, n + 1)
      BY <2>2, <2>3, ShareKept
    <2> QED BY <2>1, <2>4 DEF new
  <1> QED BY <1>1, <1>2, <1>3, <1>4

\* The signature holds the markers.
LEMMA MarkersInSignature ==
  ASSUME NEW x, NEW y, axis_signature(x) = axis_signature(y)
  PROVE  has_explicit_marker(x) <=> has_explicit_marker(y)
  <1> DEFINE f == [i \in DOMAIN x.periods |->
                     <<x.periods[i].col, x.periods[i].key, x.periods[i].kind,
                       x.periods[i].variant, x.periods[i].group>>]
             g == [i \in DOMAIN y.periods |->
                     <<y.periods[i].col, y.periods[i].key, y.periods[i].kind,
                       y.periods[i].variant, y.periods[i].group>>]
  <1>1. <<x.grain, f>> = <<y.grain, g>>
    BY DEF axis_signature
  <1>2. f = g
    <2> HIDE DEF f, g
    <2> QED BY <1>1
  <1>3. DOMAIN x.periods = DOMAIN y.periods
    <2>1. DOMAIN f = DOMAIN x.periods /\ DOMAIN g = DOMAIN y.periods
      OBVIOUS
    <2> HIDE DEF f, g
    <2> QED BY <1>2, <2>1
  <1>4. ASSUME NEW i \in DOMAIN x.periods PROVE x.periods[i].variant = y.periods[i].variant
    <2>1. f[i][4] = x.periods[i].variant /\ g[i][4] = y.periods[i].variant
      BY <1>3
    <2> HIDE DEF f, g
    <2> QED BY <1>2, <2>1
  <1> QED BY <1>3, <1>4 DEF has_explicit_marker

\* What the loop ends with.
LEMMA SharedCompatible ==
  ASSUME NEW kept, NEW alias, NEW sheet, NEW cells, IsList(sheet.axes),
         SharedTo(kept, alias, sheet, cells, Len(sheet.axes)),
         NEW a \in Range(sheet.axes), NEW b \in Range(sheet.axes),
         has_explicit_marker(a) <=> has_explicit_marker(b),
         Mapped(alias, a.id) = Mapped(alias, b.id),
         ~DerivedIn(kept, cells, a), ~DerivedIn(kept, cells, b)
  PROVE  flags_compatible(PrintIn(sheet, cells, a), PrintIn(sheet, cells, b))
  <1>1. StandsIn(kept, alias, sheet, cells, a) /\ StandsIn(kept, alias, sheet, cells, b)
    <2>1. DOMAIN sheet.axes = 1..Len(sheet.axes)
      BY ListFacts
    <2> QED BY <2>1 DEF SharedTo, Range
  <1>2. PICK k \in DOMAIN kept :
           /\ Mapped(alias, a.id) = kept[k].axis.id
           /\ Held(kept[k], a, PrintIn(sheet, cells, a), DerivedIn(kept, cells, a))
    BY <1>1 DEF StandsIn
  <1>3. PICK l \in DOMAIN kept :
           /\ Mapped(alias, b.id) = kept[l].axis.id
           /\ Held(kept[l], b, PrintIn(sheet, cells, b), DerivedIn(kept, cells, b))
    BY <1>1 DEF StandsIn
  <1>4. k = l
    BY <1>2, <1>3 DEF SharedTo, KeptTo
  <1>5. axis_signature(kept[k].axis) = axis_signature(a)
          => (has_explicit_marker(kept[k].axis) <=> has_explicit_marker(a))
    BY MarkersInSignature
  <1>6. axis_signature(kept[k].axis) = axis_signature(b)
          => (has_explicit_marker(kept[k].axis) <=> has_explicit_marker(b))
    BY MarkersInSignature
  <1>7. has_explicit_marker(a) <=> has_explicit_marker(b)
    OBVIOUS
  <1> QED BY <1>2, <1>3, <1>4, <1>5, <1>6, <1>7 DEF Held, flags_compatible

AtShare == pc = "share" /\ layout.done < Len(spill.names)
Sharing ==
    IF AtShare
    THEN /\ at \in 1..(Len(ThisSheet.axes) + 1)
         /\ SharedTo(share.kept, share.alias, ThisSheet, spill.parts[ThisSheet.name], at - 1)
    ELSE share = NoShare

\* Before the first axis nothing is shared.
LEMMA ShareEmpty ==
  ASSUME NEW sheet, NEW cells
  PROVE  SharedTo(NoShare.kept, NoShare.alias, sheet, cells, 0)
  BY EmptyList DEF NoShare, SharedTo, KeptTo, AliasTo, Apart

\* Nothing is shared at first.
LEMMA ShareInit == Init => Sharing
  BY DEF Init, Sharing, AtShare

\* A sheet starts with empty tables.
LEMMA ShareStart ==
  ASSUME book' \in Books, at' = 1, share' = NoShare
  PROVE  Sharing'
  <1>1. CASE AtShare'
    <2>1. WellFormed(ThisSheet')
      <3>1. ASSUME NEW name PROVE WellFormed(Found({s \in Range(book'.sheets) : s.name = name},
                          [name |-> name, axes |-> <<>>, blocks |-> <<>>, plan |-> <<>>]))
        <4> DEFINE S == {s \in Range(book'.sheets) : s.name = name}
                   E == [name |-> name, axes |-> <<>>, blocks |-> <<>>, plan |-> <<>>]
        <4>1. WellFormed(E)
          BY EmptyList DEF WellFormed
        <4>2. \A s \in S : WellFormed(s)
          BY BooksAssumption
        <4> HIDE DEF E
        <4>3. WellFormed(Found(S, E))
          BY <4>1, <4>2 DEF Found
        <4> QED BY <4>3 DEF E
      <3> QED BY <3>1 DEF ThisSheet, SheetNamed
    <2>2. Len(ThisSheet'.axes) \in Nat
      BY <2>1, ListFacts DEF WellFormed
    <2>3. SharedTo(NoShare.kept, NoShare.alias, ThisSheet', spill'.parts[ThisSheet'.name], 0)
      BY ShareEmpty
    <2> QED BY <1>1, <2>2, <2>3 DEF Sharing
  <1> QED BY <1>1 DEF Sharing

\* Outside the loop the tables stay empty.
LEMMA ShareStays ==
  ASSUME Sharing, pc # "share", pc' # "share", UNCHANGED share
  PROVE  Sharing'
  BY DEF Sharing, AtShare

\* The step over one axis keeps the tables in agreement with the axes seen so far.
LEMMA ShareShareAxis == DocInv /\ Sharing /\ ShareAxis => Sharing'
  <1> SUFFICES ASSUME DocInv, Sharing, ShareAxis PROVE Sharing'
    OBVIOUS
  <1> DEFINE sheet == ThisSheet
             cells == spill.parts[sheet.name]
             axis == sheet.axes[at]
             print == PrintIn(sheet, cells, axis)
             D == {j \in DOMAIN share.kept : derived_axis(axis, share.kept[j].axis, cells)}
             P == {j \in DOMAIN share.kept : Painted(share.kept[j], axis, print)}
             M == {j \in DOMAIN share.kept : Matches(share.kept[j], axis, print)}
             Least(S) == IF S = {} THEN 0 ELSE CHOOSE k \in S : \A l \in S : k <= l
  <1>1. /\ AtShare /\ AtShare' /\ at <= Len(sheet.axes) /\ at' = at + 1
        /\ ThisSheet' = sheet /\ spill' = spill
    BY DEF ShareAxis, AtShare, ThisSheet, SheetNamed
  <1>2. WellFormed(sheet) /\ IsList(sheet.axes) /\ Len(sheet.axes) \in Nat
        /\ DOMAIN sheet.axes = 1..Len(sheet.axes)
    <2>1. WellFormed(sheet)
      BY SheetWellFormed DEF DocInv, ThisSheet
    <2> HIDE DEF sheet
    <2> QED BY <2>1, ListFacts DEF WellFormed
  <1>3. at \in 1..(Len(sheet.axes) + 1) /\ SharedTo(share.kept, share.alias, sheet, cells, at - 1)
    BY <1>1 DEF Sharing
  <1>4. share' = share_axis(share, axis, print, Least(D), Least(P), Least(M))
    <2>1. \E ax \in {sheet.axes[at]}, ce \in {cells} :
             \E pr \in {PrintIn(sheet, ce, ax)} :
                share' = share_axis(share, ax, pr,
                    Least({j \in DOMAIN share.kept : derived_axis(ax, share.kept[j].axis, ce)}),
                    Least({j \in DOMAIN share.kept : Painted(share.kept[j], ax, pr)}),
                    Least({j \in DOMAIN share.kept : Matches(share.kept[j], ax, pr)}))
      BY Zenon DEF ShareAxis, First, PrintIn
    <2>2. PICK ax \in {sheet.axes[at]}, ce \in {cells} :
             \E pr \in {PrintIn(sheet, ce, ax)} :
                share' = share_axis(share, ax, pr,
                    Least({j \in DOMAIN share.kept : derived_axis(ax, share.kept[j].axis, ce)}),
                    Least({j \in DOMAIN share.kept : Painted(share.kept[j], ax, pr)}),
                    Least({j \in DOMAIN share.kept : Matches(share.kept[j], ax, pr)}))
      BY <2>1
    <2>3. ax = axis /\ ce = cells
      BY <2>2
    <2> HIDE DEF Least, axis, cells, sheet
    <2> QED BY <2>2, <2>3, Zenon
  <1>5. DOMAIN share = {"kept", "alias"} /\ DOMAIN share.kept \subseteq Nat
    <2>1. IsList(share.kept) /\ DOMAIN share = {"kept", "alias"}
      BY DEF DocInv, Records
    <2> QED BY <2>1, ListFacts
  <1>6. D \in SUBSET Nat /\ P \in SUBSET Nat /\ M \in SUBSET Nat
    BY <1>5
  <1>7. ASSUME NEW S \in SUBSET Nat PROVE Least(S) = 0 \/ Least(S) \in S
    <2> DEFINE k == Least(S)
    <2>1. k = IF S = {} THEN 0 ELSE CHOOSE j \in S : \A l \in S : j <= l
      OBVIOUS
    <2> HIDE DEF k, Least
    <2>2. k = 0 \/ k \in S
      BY <2>1, FirstIs
    <2> QED BY <2>2 DEF k
  <1> HIDE DEF sheet, cells, print, Least
  <1>8. \E d, p, m : /\ share' = share_axis(share, axis, print, d, p, m)
                     /\ d = 0 \/ d \in D
                     /\ p = 0 \/ p \in P
                     /\ m = 0 \/ m \in M
    <2> HIDE DEF D, P, M, axis
    <2>1. Least(D) = 0 \/ Least(D) \in D
      BY <1>6, <1>7
    <2>2. Least(P) = 0 \/ Least(P) \in P
      BY <1>6, <1>7
    <2>3. Least(M) = 0 \/ Least(M) \in M
      BY <1>6, <1>7
    <2> QED BY <1>4, <2>1, <2>2, <2>3
  <1>9. PICK d, p, m : /\ share' = share_axis(share, axis, print, d, p, m)
                       /\ d = 0 \/ d \in D
                       /\ p = 0 \/ p \in P
                       /\ m = 0 \/ m \in M
    BY <1>8
  <1>10. at - 1 \in Nat /\ (at - 1) + 1 = at /\ at \in DOMAIN sheet.axes
    BY <1>1, <1>2, <1>3
  <1>11. axis = sheet.axes[(at - 1) + 1] /\ (at - 1) + 1 \in DOMAIN sheet.axes
    BY <1>10
  <1>12. /\ d = 0 \/ (d \in DOMAIN share.kept /\ derived_axis(axis, share.kept[d].axis, cells))
         /\ p = 0 \/ (p \in DOMAIN share.kept /\ Painted(share.kept[p], axis, print))
         /\ m = 0 \/ (m \in DOMAIN share.kept /\ Matches(share.kept[m], axis, print))
    BY <1>9
  <1>13. print = PrintIn(sheet, cells, axis)
    BY DEF print
  <1>14. SharedTo(share'.kept, share'.alias, sheet, cells, (at - 1) + 1)
    <2> DEFINE n == at - 1
               new == share_axis(share, axis, print, d, p, m)
    <2>1. SharedTo(share.kept, share.alias, sheet, cells, n) /\ n \in Nat
      BY <1>3, <1>10
    <2>2. axis = sheet.axes[n + 1] /\ n + 1 \in DOMAIN sheet.axes
      BY <1>11
    <2> HIDE DEF n, axis
    <2>3. SharedTo(new.kept, new.alias, sheet, cells, n + 1)
      BY <1>2, <1>5, <1>12, <1>13, <2>1, <2>2, ShareStep
    <2> QED BY <1>9, <2>3 DEF n
  <1>15. at' \in 1..(Len(sheet.axes) + 1) /\ at' - 1 = (at - 1) + 1
    BY <1>1, <1>2, <1>3
  <1>16. ThisSheet' = sheet /\ spill'.parts[ThisSheet'.name] = cells
    BY <1>1 DEF cells
  <1> QED BY <1>1, <1>14, <1>15, <1>16 DEF Sharing

\* Every step keeps the tables in agreement with the axes seen so far.
LEMMA ShareNext == DocInv /\ Sharing /\ [Next]_vars => Sharing'
  <1> SUFFICES ASSUME DocInv, Sharing, [Next]_vars PROVE Sharing'
    OBVIOUS
  <1>0. book \in Books
    BY DEF DocInv
  <1>1. CASE ShareAxis
    BY <1>1, ShareShareAxis
  <1>2. CASE EndScan
    <2>1. share = NoShare
      BY <1>2 DEF EndScan, Sharing, AtShare
    <2> QED BY <1>0, <1>2, <2>1, ShareStart DEF EndScan, inputs
  <1>3. CASE ShareBlocks
    BY <1>0, <1>3, ShareStart DEF ShareBlocks
  <1>4. CASE EndShare
    BY <1>4 DEF EndShare, Sharing, AtShare, inputs
  <1>5. CASE Parse \/ WriteBatch \/ LinkAxis \/ WriteTimelines \/ RelationCell \/ EndRelations
    <2>1. pc # "share" /\ pc' # "share" /\ UNCHANGED share
      BY <1>5 DEF Parse, WriteBatch, LinkAxis, WriteTimelines, RelationCell, EndRelations
    <2> QED BY <2>1, ShareStays
  <1>6. CASE \/ ReadCells \/ BuildAxes \/ Open \/ StartBlock \/ WriteRow \/ EndBlock
             \/ Finish \/ Swap \/ PublishMarkdown \/ DropSidecars
    <2>1. pc # "share" /\ pc' # "share" /\ UNCHANGED share
      BY <1>6 DEF ReadCells, BuildAxes, Open, StartBlock, WriteRow, EndBlock, Finish, Swap,
                  PublishMarkdown, DropSidecars, inputs
    <2> QED BY <2>1, ShareStays
  <1>7. CASE GetObservations \/ Raise \/ Kill \/ Rebuild
    <2>1. pc # "share" /\ pc' # "share" /\ UNCHANGED share
      BY <1>7 DEF GetObservations, Raise, Kill, Rebuild, inputs
    <2> QED BY <2>1, ShareStays
  <1>8. CASE UNCHANGED vars
    BY <1>8 DEF vars, Sharing, AtShare, ThisSheet, SheetNamed
  <1> QED BY <1>1, <1>2, <1>3, <1>4, <1>5, <1>6, <1>7, <1>8 DEF Next

\* The tables at the end of a sheet are what AlikeHeadersAgree asks for.
LEMMA SharingAgrees == DocInv /\ Sharing => AlikeHeadersAgree
  <1> SUFFICES ASSUME DocInv, Sharing, SheetShared,
                      NEW a \in Range(ThisSheet.axes), NEW b \in Range(ThisSheet.axes),
                      OneAxis(a, b), has_explicit_marker(a) <=> has_explicit_marker(b)
               PROVE  flags_compatible(PrintOf(a), PrintOf(b))
    BY DEF AlikeHeadersAgree
  <1>0. /\ pc = "share" /\ layout.done < Len(spill.names) /\ at > Len(ThisSheet.axes)
        /\ Mapped(share.alias, a.id) = Mapped(share.alias, b.id) /\ ~Derived(a) /\ ~Derived(b)
    BY DEF SheetShared, OneAxis
  <1> DEFINE sheet == ThisSheet
             cells == spill.parts[sheet.name]
             n == Len(sheet.axes)
  <1>1. IsList(sheet.axes) /\ n \in Nat
    <2>1. WellFormed(sheet)
      BY SheetWellFormed DEF DocInv, ThisSheet
    <2> HIDE DEF sheet
    <2> QED BY <2>1, ListFacts DEF WellFormed
  <1>2. at \in 1..(n + 1) /\ SharedTo(share.kept, share.alias, sheet, cells, at - 1)
    BY <1>0 DEF Sharing, AtShare
  <1>3. at - 1 = n
    <2> HIDE DEF n
    <2>1. at > n
      BY <1>0 DEF n
    <2> QED BY <1>1, <1>2, <2>1
  <1>4. ~DerivedIn(share.kept, cells, a) /\ ~DerivedIn(share.kept, cells, b)
    BY <1>0 DEF Derived, DerivedIn, Range
  <1>5. PrintOf(a) = PrintIn(sheet, cells, a) /\ PrintOf(b) = PrintIn(sheet, cells, b)
    BY DEF PrintOf, PrintIn
  <1>6. a \in Range(sheet.axes) /\ b \in Range(sheet.axes)
    OBVIOUS
  <1>7. SharedTo(share.kept, share.alias, sheet, cells, Len(sheet.axes))
    BY <1>2, <1>3
  <1> HIDE DEF sheet, cells, n
  <1>8. flags_compatible(PrintIn(sheet, cells, a), PrintIn(sheet, cells, b))
    BY <1>0, <1>1, <1>4, <1>6, <1>7, SharedCompatible
  <1> QED BY <1>5, <1>8

\* For every workbook: alike headers of a sheet that share an axis (all with markers,
\* or all without), and axes that share a timeline, never contradict each other,
\* whatever came between them, although the code compares each with one entry of a
\* table only (_share_repeated_axes, _timeline_buckets).  Of headers that are not alike
\* this is false: SectionsAgree.
THEOREM AlikeAxesAgreeHolds == Spec => []AlikeAxesAgree
  <1>1. Init => Bucketed(buckets) /\ Sharing
    BY LinkInit, ShareInit
  <1>2. DocInv /\ Bucketed(buckets) /\ Sharing /\ [Next]_vars => (Bucketed(buckets) /\ Sharing)'
    BY LinkNext, ShareNext
  <1>3. DocInv /\ Bucketed(buckets) /\ Sharing => AlikeAxesAgree
    BY LinkedCompatible, SharingAgrees DEF AlikeAxesAgree
  <1> QED BY <1>1, <1>2, <1>3, DocAlways, PTL DEF Spec

(***************************************************************************)
(* The spill of the cells by sheet (_SheetSpill)                           *)
(***************************************************************************)

\* The sheets of the first n cells, in the order they are first named.
Sheets(s, n) == {s[j].sheet : j \in 1..n}
Firsts(s, n) == {k \in 1..n : \A j \in 1..(k - 1) : s[j].sheet # s[k].sheet}
SheetsOf(p) == [j \in DOMAIN p |-> p[j].sheet]
NamesTo(s, n) == SheetsOf(Picked(s, Firsts(s, n)))

\* No cells name no sheet.
LEMMA NamesZero ==
  ASSUME NEW s, IsList(s)
  PROVE  NamesTo(s, 0) = <<>>
  <1>1. Firsts(s, 0) = {}
    BY DEF Firsts
  <1>2. Picked(s, Firsts(s, 0)) = <<>>
    BY <1>1, PickedNone
  <1>3. SheetsOf(<<>>) = <<>>
    BY EmptyList DEF SheetsOf
  <1> QED BY <1>2, <1>3 DEF NamesTo

\* One cell more names its sheet, unless it was named before.
LEMMA NamesStep ==
  ASSUME NEW s, IsList(s), NEW n \in Nat, n + 1 \in DOMAIN s
  PROVE  NamesTo(s, n + 1) = IF s[n + 1].sheet \in Sheets(s, n) THEN NamesTo(s, n)
                             ELSE Append(NamesTo(s, n), s[n + 1].sheet)
  <1>1. CASE s[n + 1].sheet \in Sheets(s, n)
    <2>1. Firsts(s, n + 1) = Firsts(s, n)
      <3>1. n + 1 \notin Firsts(s, n + 1)
        <4>1. PICK j \in 1..n : s[n + 1].sheet = s[j].sheet
          BY <1>1 DEF Sheets
        <4>2. (n + 1) - 1 = n
          OBVIOUS
        <4> QED BY <4>1, <4>2 DEF Firsts
      <3>2. \A k : k \in 1..(n + 1) <=> (k \in 1..n \/ k = n + 1)
        OBVIOUS
      <3> QED BY <3>1, <3>2 DEF Firsts
    <2> QED BY <1>1, <2>1 DEF NamesTo
  <1>2. CASE s[n + 1].sheet \notin Sheets(s, n)
    <2> DEFINE p == Picked(s, Firsts(s, n))
               x == s[n + 1]
    <2>1. Firsts(s, n + 1) = Firsts(s, n) \cup {n + 1}
      <3>1. n + 1 \in Firsts(s, n + 1)
        <4>1. \A j \in 1..n : s[j].sheet # s[n + 1].sheet
          BY <1>2 DEF Sheets
        <4>2. (n + 1) - 1 = n /\ n + 1 \in 1..(n + 1)
          OBVIOUS
        <4> QED BY <4>1, <4>2 DEF Firsts
      <3>2. \A k : k \in 1..(n + 1) <=> (k \in 1..n \/ k = n + 1)
        OBVIOUS
      <3> QED BY <3>1, <3>2 DEF Firsts
    <2>2. Picked(s, Firsts(s, n) \cup {n + 1}) = Append(p, x)
      <3>1. Firsts(s, n) \in SUBSET (1..n)
        BY DEF Firsts
      <3> QED BY <3>1, PickedAdd
    <2>3. IsList(p)
      BY PickedList
    <2> HIDE DEF p, x
    <2>4. SheetsOf(Append(p, x)) = Append(SheetsOf(p), x.sheet)
      <3> DEFINE m == Len(p)
                 l == SheetsOf(Append(p, x))
                 r == Append(SheetsOf(p), x.sheet)
      <3>1. m \in Nat /\ DOMAIN p = 1..m
        BY <2>3, ListFacts
      <3>2. IsList(SheetsOf(p)) /\ Len(SheetsOf(p)) = m
        <4>1. SheetsOf(p) = [i \in 1..m |-> SheetsOf(p)[i]]
          BY <3>1 DEF SheetsOf
        <4> HIDE DEF m
        <4> QED BY <3>1, <4>1, FnIsList
      <3>3. DOMAIN Append(p, x) = 1..(m + 1) /\ Append(p, x)[m + 1] = x
        BY <2>3, AppendList
      <3>4. \A i \in 1..m : Append(p, x)[i] = p[i]
        BY <2>3, AppendList
      <3>5. DOMAIN r = 1..(m + 1) /\ r[m + 1] = x.sheet
        BY <3>2, AppendList
      <3>6. \A i \in 1..m : r[i] = SheetsOf(p)[i]
        BY <3>2, AppendList
      <3>7. IsList(r) /\ Len(r) = m + 1
        BY <3>2, AppendList
      <3>8. r = [i \in 1..(m + 1) |-> r[i]]
        BY <3>7, ListFacts
      <3>9. DOMAIN l = 1..(m + 1) /\ l = [i \in 1..(m + 1) |-> l[i]]
        BY <3>3 DEF SheetsOf
      <3>10. ASSUME NEW i \in 1..(m + 1) PROVE l[i] = r[i]
        <4>1. l[i] = Append(p, x)[i].sheet
          BY <3>3 DEF SheetsOf
        <4>2. CASE i = m + 1
          <5> HIDE DEF l, r
          <5> QED BY <4>1, <4>2, <3>3, <3>5
        <4>3. CASE i \in 1..m
          <5>1. SheetsOf(p)[i] = p[i].sheet
            BY <4>3, <3>1 DEF SheetsOf
          <5> HIDE DEF l, r
          <5> QED BY <4>1, <4>3, <5>1, <3>4, <3>6
        <4>4. i = m + 1 \/ i \in 1..m
          BY <3>1
        <4> HIDE DEF l, r, m
        <4> QED BY <4>2, <4>3, <4>4
      <3> HIDE DEF l, r, m
      <3>11. l = r
        BY <3>8, <3>9, <3>10
      <3> QED BY <3>11 DEF l, r
    <2> QED BY <1>2, <2>1, <2>2, <2>4 DEF NamesTo, p, x
  <1> QED BY <1>1, <1>2

\* The names are a list of the sheets, each once.
LEMMA NamesFacts ==
  ASSUME NEW s, IsList(s), NEW n \in 0..Len(s)
  PROVE  /\ IsList(NamesTo(s, n)) /\ Range(NamesTo(s, n)) = Sheets(s, n)
         /\ \A i, j \in DOMAIN NamesTo(s, n) : NamesTo(s, n)[i] = NamesTo(s, n)[j] => i = j
  <1> DEFINE Good(k) == /\ IsList(NamesTo(s, k)) /\ Range(NamesTo(s, k)) = Sheets(s, k)
                        /\ \A i, j \in DOMAIN NamesTo(s, k) :
                              NamesTo(s, k)[i] = NamesTo(s, k)[j] => i = j
             P == {k \in 0..Len(s) : Good(k)}
  <1>0. Len(s) \in Nat /\ DOMAIN s = 1..Len(s)
    BY ListFacts
  <1>1. 0 \in P
    <2>1. NamesTo(s, 0) = <<>>
      BY NamesZero
    <2>2. Sheets(s, 0) = {}
      BY DEF Sheets
    <2>3. Good(0)
      BY <2>1, <2>2, EmptyList
    <2> HIDE DEF Good
    <2> QED BY <2>3, <1>0
  <1>2. ASSUME NEW k \in 0..(Len(s) - 1), k \in P PROVE k + 1 \in P
    <2> DEFINE p == NamesTo(s, k)
               q == NamesTo(s, k + 1)
               x == s[k + 1].sheet
               m == Len(p)
    <2>1. k \in Nat /\ k + 1 \in DOMAIN s /\ k + 1 \in 0..Len(s) /\ Good(k)
      BY <1>0, <1>2
    <2>2. q = IF x \in Sheets(s, k) THEN p ELSE Append(p, x)
      BY <2>1, NamesStep
    <2>3. Sheets(s, k + 1) = Sheets(s, k) \cup {x}
      <3>1. \A j : j \in 1..(k + 1) <=> (j \in 1..k \/ j = k + 1)
        BY <2>1
      <3> QED BY <3>1 DEF Sheets
    <2>4. IsList(p) /\ Range(p) = Sheets(s, k) /\ \A i, j \in DOMAIN p : p[i] = p[j] => i = j
      BY <2>1
    <2> HIDE DEF p, x, Good
    <2>5. IsList(q) /\ Range(q) = Sheets(s, k + 1) /\ \A i, j \in DOMAIN q : q[i] = q[j] => i = j
      <3> HIDE DEF q
      <3>1. CASE x \in Sheets(s, k)
        BY <3>1, <2>2, <2>3, <2>4
      <3>2. CASE x \notin Sheets(s, k)
        <4>0. m \in Nat /\ DOMAIN p = 1..m
          BY <2>4, ListFacts
        <4>1. q = Append(p, x)
          BY <3>2, <2>2
        <4>2. IsList(q)
          BY <4>1, <2>4, AppendList
        <4>3. Range(q) = Range(p) \cup {x}
          BY <4>1, <2>4, AppendList
        <4>4. DOMAIN q = 1..(m + 1) /\ q[m + 1] = x
          BY <4>1, <2>4, AppendList
        <4>5. \A i \in 1..m : q[i] = p[i]
          BY <4>1, <2>4, AppendList
        <4>6. \A i \in 1..m : q[i] # x
          BY <4>0, <4>5, <3>2, <2>4 DEF Range
        <4>7. \A i, j \in DOMAIN q : q[i] = q[j] => i = j
          <5> TAKE i \in DOMAIN q, j \in DOMAIN q
          <5>1. CASE i = m + 1 /\ j = m + 1
            BY <5>1
          <5>2. CASE i = m + 1 /\ j \in 1..m
            BY <5>2, <4>4, <4>6
          <5>3. CASE i \in 1..m /\ j = m + 1
            BY <5>3, <4>4, <4>6
          <5>4. CASE i \in 1..m /\ j \in 1..m
            BY <5>4, <4>0, <4>5, <2>4
          <5> QED BY <5>1, <5>2, <5>3, <5>4, <4>0, <4>4
        <4> QED BY <4>2, <4>3, <4>7, <2>3, <2>4
      <3> QED BY <3>1, <3>2
    <2>6. Good(k + 1)
      BY <2>5 DEF Good, q
    <2> QED BY <2>1, <2>6
  <1>3. \A k \in 0..Len(s) : k \in P
    <2> HIDE DEF P
    <2> QED BY <1>0, <1>1, <1>2, UpTo
  <1> QED BY <1>3

\* A longer prefix of the cells continues the list of names.
LEMMA NamesPrefix ==
  ASSUME NEW s, IsList(s), NEW n \in 0..Len(s)
  PROVE  \A i \in DOMAIN NamesTo(s, n) : /\ i \in DOMAIN NamesTo(s, Len(s))
                                         /\ NamesTo(s, n)[i] = NamesTo(s, Len(s))[i]
  <1> DEFINE Good(k) == \A i \in DOMAIN NamesTo(s, n) : /\ i \in DOMAIN NamesTo(s, k)
                                                        /\ NamesTo(s, n)[i] = NamesTo(s, k)[i]
             l == Len(s) - n
             P == {k \in 0..l : Good(n + k)}
  <1>0. Len(s) \in Nat /\ DOMAIN s = 1..Len(s) /\ l \in Nat
    BY ListFacts
  <1>1. 0 \in P
    BY <1>0
  <1>2. ASSUME NEW k \in 0..(l - 1), k \in P PROVE k + 1 \in P
    <2> DEFINE a == n + k
    <2>1. a \in Nat /\ a + 1 \in DOMAIN s /\ a \in 0..Len(s) /\ n + (k + 1) = a + 1 /\ k + 1 \in 0..l
      BY <1>0
    <2>2. Good(a)
      BY <1>2
    <2> HIDE DEF a
    <2>3. \A i \in DOMAIN NamesTo(s, a) : /\ i \in DOMAIN NamesTo(s, a + 1)
                                          /\ NamesTo(s, a)[i] = NamesTo(s, a + 1)[i]
      <3> DEFINE p == NamesTo(s, a)
                 x == s[a + 1].sheet
                 q == NamesTo(s, a + 1)
      <3>1. q = IF x \in Sheets(s, a) THEN p ELSE Append(p, x)
        BY <2>1, NamesStep
      <3>2. IsList(p)
        BY <2>1, NamesFacts
      <3> HIDE DEF p, x, q
      <3>3. DOMAIN p = 1..Len(p) /\ Len(p) \in Nat
        BY <3>2, ListFacts
      <3>4. DOMAIN Append(p, x) = 1..(Len(p) + 1)
        BY <3>2, AppendList
      <3>5. \A i \in 1..Len(p) : Append(p, x)[i] = p[i]
        BY <3>2, AppendList
      <3>6. \A i \in DOMAIN p : i \in DOMAIN q /\ p[i] = q[i]
        BY <3>1, <3>3, <3>4, <3>5
      <3> QED BY <3>6 DEF p, q
    <2>4. Good(a + 1)
      BY <2>2, <2>3
    <2> HIDE DEF Good
    <2> QED BY <2>1, <2>4
  <1>3. \A k \in 0..l : k \in P
    <2> HIDE DEF P, l
    <2> QED BY <1>0, <1>1, <1>2, UpTo
  <1>4. Good(n + l) /\ n + l = Len(s)
    <2>1. l \in 0..l /\ n + l = Len(s)
      BY <1>0
    <2> HIDE DEF Good, l
    <2> QED BY <2>1, <1>3
  <1> HIDE DEF l
  <1> QED BY <1>4

SheetsRunIs(r, cells) ==
    /\ r \in [0..Len(cells) -> Seq({c.sheet : c \in Range(cells)})]
    /\ r[0] = <<>>
    /\ \A k \in 1..Len(cells) : r[k] =
          IF cells[k].sheet \in Range(r[k - 1]) THEN r[k - 1]
          ELSE Append(r[k - 1], cells[k].sheet)

\* SheetsIn returns the last list of its loop.
LEMMA SheetsRun ==
  ASSUME NEW cells,
         IsList(cells)
  PROVE  \E r : SheetsRunIs(r, cells) /\ SheetsIn(cells) = r[Len(cells)]
  <1> DEFINE n == Len(cells)
             T == Seq({c.sheet : c \in Range(cells)})
             base == <<>>
             Op(x, k) == IF cells[k].sheet \in Range(x) THEN x ELSE Append(x, cells[k].sheet)
             step == [p \in T \X (1..n) |-> Op(p[1], p[2])]
             body(h) == [s \in SUBSET DOMAIN cells |->
                           IF s = {} THEN <<>>
                           ELSE IF cells[Max(s)].sheet \in Range(h[s \ {Max(s)}])
                               THEN h[s \ {Max(s)}]
                               ELSE Append(h[s \ {Max(s)}], cells[Max(s)].sheet)]
             iter == CHOOSE h : h = body(h)
  <1>1. n \in Nat /\ DOMAIN cells = 1..n
    BY DEF IsList
  <1>2. base \in T /\ \A x \in T : \A k \in 1..n : Op(x, k) \in T
    <2>1. \A k \in 1..n : cells[k].sheet \in {c.sheet : c \in Range(cells)}
      BY <1>1 DEF Range
    <2> DEFINE S == {c.sheet : c \in Range(cells)}
    <2> HIDE DEF S, n
    <2> QED BY <2>1
  <1>3. step \in [T \X (1..n) -> T]
    <2> HIDE DEF T, Op
    <2> QED BY <1>2
  <1>4. PICK h : IsFold(h, n, T, base, step)
    <2> HIDE DEF n, T, base, step
    <2> QED BY <1>1, <1>2, <1>3, FoldExists
  <1>5. PICK r : IsRun(r, n, T, base, step)
    <2> HIDE DEF n, T, base, step
    <2> QED BY <1>1, <1>2, <1>3, RunExists
  <1>6. ASSUME NEW x \in T, NEW k \in 1..n
        PROVE  step[<<x, k>>] = Op(x, k)
    <2> HIDE DEF T, Op
    <2>1. <<x, k>> \in T \X (1..n) /\ <<x, k>>[1] = x /\ <<x, k>>[2] = k
      OBVIOUS
    <2> QED BY <2>1
  <1>7. h = body(h)
    <2>1. h = [s \in SUBSET (1..n) |-> h[s]]
      BY <1>4 DEF IsFold
    <2>2. ASSUME NEW s \in SUBSET (1..n)
          PROVE  h[s] = IF s = {} THEN base ELSE Op(h[s \ {Max(s)}], Max(s))
      <3>1. CASE s = {}
        BY <3>1, <1>4 DEF IsFold
      <3>2. CASE s # {}
        <4>1. Max(s) \in s
          <5>1. \E x \in s : \A y \in s : x >= y
            BY <3>2, <1>1, SetMax
          <5> QED BY <5>1 DEF Max
        <4>2. Max(s) \in 1..n /\ s \ {Max(s)} \in SUBSET (1..n)
          BY <4>1
        <4>3. h[s \ {Max(s)}] \in T /\ h[s] = step[<<h[s \ {Max(s)}], Max(s)>>]
          <5> HIDE DEF T, step, base, n
          <5> QED BY <4>2, <3>2, <1>4 DEF IsFold
        <4> HIDE DEF T, Op, step
        <4> QED BY <4>2, <4>3, <1>6, <3>2
      <3> QED BY <3>1, <3>2
    <2> HIDE DEF n
    <2> QED BY <2>1, <2>2, <1>1
  <1>8. iter = body(iter)
    <2> HIDE DEF body
    <2> QED BY <1>7
  <1>9. SheetsIn(cells) = iter[1..n]
    <2>1. SheetsIn(cells) = iter[DOMAIN cells]
      BY DEF SheetsIn, FoldLeft, MapThenFoldSet
    <2> HIDE DEF iter, n
    <2> QED BY <2>1, <1>1
  <1>10. /\ r \in [0..n -> T] /\ r[0] = base
         /\ \A k \in 1..n : r[k] = Op(r[k - 1], k)
    <2>1. /\ r \in [0..n -> T] /\ r[0] = base
          /\ \A k \in 1..n : r[k] = step[<<r[k - 1], k>>]
      BY <1>5 DEF IsRun
    <2>2. ASSUME NEW k \in 1..n PROVE r[k] = Op(r[k - 1], k)
      <3>1. r[k - 1] \in T
        BY <2>1, <1>1
      <3> HIDE DEF T, Op, step, n
      <3> QED BY <2>1, <3>1, <1>6
    <2> QED BY <2>1, <2>2
  <1>11. \A k \in 0..n : iter[1..k] = r[k]
    <2> DEFINE P == {k \in 0..n : iter[1..k] = r[k]}
    <2>1. 0 \in P
      <3>1. {} \in SUBSET DOMAIN cells /\ 1..0 = {}
        OBVIOUS
      <3>2. iter[{}] = base
        <4> HIDE DEF iter
        <4> QED BY <3>1, <1>8
      <3> HIDE DEF iter
      <3> QED BY <3>1, <3>2, <1>10, <1>1
    <2>2. ASSUME NEW k \in 0..(n - 1), k \in P PROVE k + 1 \in P
      <3>1. /\ 1..(k + 1) \in SUBSET DOMAIN cells /\ 1..(k + 1) # {}
            /\ Max(1..(k + 1)) = k + 1 /\ (1..(k + 1)) \ {k + 1} = 1..k
        BY <1>1, MaxSegment
      <3>2. iter[1..(k + 1)] = Op(iter[1..k], k + 1)
        <4> HIDE DEF iter
        <4> QED BY <3>1, <1>8
      <3>3. iter[1..k] = r[k] /\ r[k + 1] = Op(r[k], k + 1) /\ k + 1 \in 0..n
        BY <2>2, <1>10, <1>1
      <3> HIDE DEF iter, Op
      <3> QED BY <3>2, <3>3
    <2> HIDE DEF P
    <2>3. \A k \in 0..n : k \in P
      BY <2>1, <2>2, <1>1, UpTo
    <2> QED BY <2>3 DEF P
  <1>12. SheetsIn(cells) = r[n]
    <2>1. n \in 0..n
      BY <1>1
    <2> HIDE DEF iter, n
    <2> QED BY <2>1, <1>9, <1>11
  <1> HIDE DEF iter, body, step
  <1>13. SheetsRunIs(r, cells)
    BY <1>10 DEF SheetsRunIs
  <1> QED BY <1>12, <1>13

\* SheetsIn lists the sheets in the order they are first named.
LEMMA SheetsInIs ==
  ASSUME NEW cells, IsList(cells)
  PROVE  SheetsIn(cells) = NamesTo(cells, Len(cells))
  <1> DEFINE n == Len(cells)
  <1>0. n \in Nat /\ DOMAIN cells = 1..n
    BY ListFacts
  <1>1. PICK r : SheetsRunIs(r, cells) /\ SheetsIn(cells) = r[n]
    BY SheetsRun
  <1>2. /\ r[0] = <<>>
        /\ \A k \in 1..n : r[k] = IF cells[k].sheet \in Range(r[k - 1]) THEN r[k - 1]
                                  ELSE Append(r[k - 1], cells[k].sheet)
    BY <1>1 DEF SheetsRunIs
  <1> DEFINE P == {k \in 0..n : r[k] = NamesTo(cells, k)}
  <1>3. 0 \in P
    BY <1>0, <1>2, NamesZero
  <1>4. ASSUME NEW k \in 0..(n - 1), k \in P PROVE k + 1 \in P
    <2>1. k \in Nat /\ k + 1 \in 1..n /\ k \in 0..n /\ (k + 1) - 1 = k /\ k + 1 \in 0..n
      BY <1>0
    <2>2. r[k + 1] = IF cells[k + 1].sheet \in Range(r[k]) THEN r[k]
                     ELSE Append(r[k], cells[k + 1].sheet)
      BY <2>1, <1>2
    <2>3. NamesTo(cells, k + 1) = IF cells[k + 1].sheet \in Sheets(cells, k) THEN NamesTo(cells, k)
                                  ELSE Append(NamesTo(cells, k), cells[k + 1].sheet)
      BY <2>1, <1>0, NamesStep
    <2>4. Range(NamesTo(cells, k)) = Sheets(cells, k) /\ r[k] = NamesTo(cells, k)
      BY <2>1, <1>4, NamesFacts
    <2> HIDE DEF n
    <2> QED BY <2>1, <2>2, <2>3, <2>4
  <1>5. \A k \in 0..n : k \in P
    <2> HIDE DEF P, n
    <2> QED BY <1>0, <1>3, <1>4, UpTo
  <1>6. n \in 0..n
    BY <1>0
  <1> HIDE DEF n
  <1>7. r[n] = NamesTo(cells, n)
    BY <1>5, <1>6
  <1> QED BY <1>1, <1>7 DEF n

\* The cells of a sheet.
PartOf(s, name) == Picked(s, {k \in DOMAIN s : s[k].sheet = name})

PartSets(X, V) == UNION {[D -> Seq(V)] : D \in SUBSET X}
Spills(X, V) == [names : Seq(X), parts : PartSets(X, V)]

\* The sheets of a batch are written one after the other.
SpillArgs(batch, X, V, lst, start) ==
    /\ IsList(batch) /\ Range(batch) \subseteq V
    /\ IsList(lst) /\ \A k \in DOMAIN lst : lst[k] \in X
    /\ start \in Spills(X, V)
Spilled(batch, lst, start) ==
    FoldLeft(LAMBDA got, name : write_part(got, name, Select(batch, LAMBDA c : c.sheet = name)),
             start, lst)

\* What write_part changes and what it keeps.
LEMMA WritePartIn ==
  ASSUME NEW X, NEW V, NEW held \in Spills(X, V), NEW name \in X, NEW part \in Seq(V)
  PROVE  /\ write_part(held, name, part) \in Spills(X, V)
         /\ write_part(held, name, part).names = IF name \in Range(held.names) THEN held.names
                                                 ELSE Append(held.names, name)
         /\ DOMAIN write_part(held, name, part).parts = DOMAIN held.parts \cup {name}
         /\ write_part(held, name, part).parts[name]
               = IF name \in DOMAIN held.parts THEN held.parts[name] \o part ELSE part
         /\ \A n \in DOMAIN held.parts \ {name} :
               write_part(held, name, part).parts[n] = held.parts[n]
  <1> DEFINE p == held.parts
             q == [n \in DOMAIN p \cup {name} |->
                     IF n # name THEN p[n] ELSE IF name \in DOMAIN p THEN p[name] \o part ELSE part]
             ns == IF name \in Range(held.names) THEN held.names ELSE Append(held.names, name)
  <1>1. write_part(held, name, part) = [names |-> ns, parts |-> q]
    BY DEF write_part
  <1>2. PICK D \in SUBSET X : p \in [D -> Seq(V)]
    BY DEF Spills, PartSets
  <1>3. held.names \in Seq(X)
    BY DEF Spills
  <1>4. ns \in Seq(X)
    BY <1>3
  <1> HIDE DEF p
  <1>5. q \in [D \cup {name} -> Seq(V)] /\ D \cup {name} \in SUBSET X
    <2>1. ASSUME NEW n \in D \cup {name}
          PROVE  (IF n # name THEN p[n] ELSE IF name \in DOMAIN p THEN p[name] \o part ELSE part) \in Seq(V)
      BY <1>2
    <2>2. DOMAIN p = D
      BY <1>2
    <2> QED BY <2>1, <2>2
  <1>6. /\ DOMAIN q = DOMAIN p \cup {name}
        /\ q[name] = IF name \in DOMAIN p THEN p[name] \o part ELSE part
        /\ \A n \in DOMAIN p \ {name} : q[n] = p[n]
    OBVIOUS
  <1> HIDE DEF q, ns
  <1>7. q \in PartSets(X, V)
    BY <1>5 DEF PartSets
  <1>8. [names |-> ns, parts |-> q] \in Spills(X, V)
    BY <1>4, <1>7 DEF Spills
  <1>9. [names |-> ns, parts |-> q].names = ns /\ [names |-> ns, parts |-> q].parts = q
    OBVIOUS
  <1> QED BY <1>1, <1>6, <1>8, <1>9 DEF ns, p

SpillRunIs(r, batch, X, V, lst, start) ==
    /\ r \in [0..Len(lst) -> Spills(X, V)]
    /\ r[0] = start
    /\ \A k \in 1..Len(lst) : r[k] = write_part(r[k - 1], lst[k], PartOf(batch, lst[k]))

\* write_batch returns the last spill of its loop over the sheets of the batch.
LEMMA SpillRun ==
  ASSUME NEW batch, NEW X, NEW V, NEW lst, NEW start, SpillArgs(batch, X, V, lst, start)
  PROVE  \E r : SpillRunIs(r, batch, X, V, lst, start) /\ Spilled(batch, lst, start) = r[Len(lst)]
  <1> USE DEF SpillArgs
  <1> DEFINE n == Len(lst)
             T == Spills(X, V)
             base == start
             Op(x, k) == write_part(x, lst[k], PartOf(batch, lst[k]))
             step == [p \in T \X (1..n) |-> Op(p[1], p[2])]
             body(h) == [s \in SUBSET DOMAIN lst |->
                           IF s = {} THEN start
                           ELSE write_part(h[s \ {Max(s)}], lst[Max(s)], PartOf(batch, lst[Max(s)]))]
             iter == CHOOSE h : h = body(h)
  <1>1. n \in Nat /\ DOMAIN lst = 1..n
    BY DEF IsList
  <1>2. base \in T /\ \A x \in T : \A k \in 1..n : Op(x, k) \in T
    <2>1. ASSUME NEW x \in T, NEW k \in 1..n PROVE Op(x, k) \in T
      <3> DEFINE part == PartOf(batch, lst[k])
      <3>1. Op(x, k) = write_part(x, lst[k], part)
        OBVIOUS
      <3>2. part \in Seq(V)
        <4>1. batch \in Seq(V)
          <5>1. batch \in Seq(Range(batch))
            BY DEF IsList
          <5> QED BY <5>1
        <4> QED BY <4>1, PickedSeq DEF PartOf
      <3>3. lst[k] \in X
        BY <1>1
      <3> HIDE DEF part, Op
      <3> QED BY <3>1, <3>2, <3>3, WritePartIn
    <2> QED BY <2>1
  <1>3. step \in [T \X (1..n) -> T]
    <2> HIDE DEF T, Op
    <2> QED BY <1>2
  <1>4. PICK h : IsFold(h, n, T, base, step)
    <2> HIDE DEF n, T, base, step
    <2> QED BY <1>1, <1>2, <1>3, FoldExists
  <1>5. PICK r : IsRun(r, n, T, base, step)
    <2> HIDE DEF n, T, base, step
    <2> QED BY <1>1, <1>2, <1>3, RunExists
  <1>6. ASSUME NEW x \in T, NEW k \in 1..n
        PROVE  step[<<x, k>>] = Op(x, k)
    <2> HIDE DEF T, Op
    <2>1. <<x, k>> \in T \X (1..n) /\ <<x, k>>[1] = x /\ <<x, k>>[2] = k
      OBVIOUS
    <2> QED BY <2>1
  <1>7. h = body(h)
    <2>1. h = [s \in SUBSET (1..n) |-> h[s]]
      BY <1>4 DEF IsFold
    <2>2. ASSUME NEW s \in SUBSET (1..n)
          PROVE  h[s] = IF s = {} THEN base ELSE Op(h[s \ {Max(s)}], Max(s))
      <3>1. CASE s = {}
        BY <3>1, <1>4 DEF IsFold
      <3>2. CASE s # {}
        <4>1. Max(s) \in s
          <5>1. \E x \in s : \A y \in s : x >= y
            BY <3>2, <1>1, SetMax
          <5> QED BY <5>1 DEF Max
        <4>2. Max(s) \in 1..n /\ s \ {Max(s)} \in SUBSET (1..n)
          BY <4>1
        <4>3. h[s \ {Max(s)}] \in T /\ h[s] = step[<<h[s \ {Max(s)}], Max(s)>>]
          <5> HIDE DEF T, step, base, n
          <5> QED BY <4>2, <3>2, <1>4 DEF IsFold
        <4> HIDE DEF T, Op, step
        <4> QED BY <4>2, <4>3, <1>6, <3>2
      <3> QED BY <3>1, <3>2
    <2> HIDE DEF n
    <2> QED BY <2>1, <2>2, <1>1
  <1>8. iter = body(iter)
    <2> HIDE DEF body
    <2> QED BY <1>7
  <1>9. Spilled(batch, lst, start) = iter[1..n]
    <2>1. Spilled(batch, lst, start) = iter[DOMAIN lst]
      BY DEF Spilled, FoldLeft, MapThenFoldSet, Select, PartOf
    <2> HIDE DEF iter, n
    <2> QED BY <2>1, <1>1
  <1>10. /\ r \in [0..n -> T] /\ r[0] = base
         /\ \A k \in 1..n : r[k] = Op(r[k - 1], k)
    <2>1. /\ r \in [0..n -> T] /\ r[0] = base
          /\ \A k \in 1..n : r[k] = step[<<r[k - 1], k>>]
      BY <1>5 DEF IsRun
    <2>2. ASSUME NEW k \in 1..n PROVE r[k] = Op(r[k - 1], k)
      <3>1. r[k - 1] \in T
        BY <2>1, <1>1
      <3> HIDE DEF T, Op, step, n
      <3> QED BY <2>1, <3>1, <1>6
    <2> QED BY <2>1, <2>2
  <1>11. \A k \in 0..n : iter[1..k] = r[k]
    <2> DEFINE P == {k \in 0..n : iter[1..k] = r[k]}
    <2>1. 0 \in P
      <3>1. {} \in SUBSET DOMAIN lst /\ 1..0 = {}
        OBVIOUS
      <3>2. iter[{}] = base
        <4> HIDE DEF iter
        <4> QED BY <3>1, <1>8
      <3> HIDE DEF iter
      <3> QED BY <3>1, <3>2, <1>10, <1>1
    <2>2. ASSUME NEW k \in 0..(n - 1), k \in P PROVE k + 1 \in P
      <3>1. /\ 1..(k + 1) \in SUBSET DOMAIN lst /\ 1..(k + 1) # {}
            /\ Max(1..(k + 1)) = k + 1 /\ (1..(k + 1)) \ {k + 1} = 1..k
        BY <1>1, MaxSegment
      <3>2. iter[1..(k + 1)] = Op(iter[1..k], k + 1)
        <4> HIDE DEF iter
        <4> QED BY <3>1, <1>8
      <3>3. iter[1..k] = r[k] /\ r[k + 1] = Op(r[k], k + 1) /\ k + 1 \in 0..n
        BY <2>2, <1>10, <1>1
      <3> HIDE DEF iter, Op
      <3> QED BY <3>2, <3>3
    <2> HIDE DEF P
    <2>3. \A k \in 0..n : k \in P
      BY <2>1, <2>2, <1>1, UpTo
    <2> QED BY <2>3 DEF P
  <1>12. Spilled(batch, lst, start) = r[n]
    <2>1. n \in 0..n
      BY <1>1
    <2> HIDE DEF iter, n
    <2> QED BY <2>1, <1>9, <1>11
  <1> HIDE DEF iter, body, step
  <1>13. SpillRunIs(r, batch, X, V, lst, start)
    BY <1>10 DEF SpillRunIs
  <1> QED BY <1>12, <1>13

\* The spill after the first n cells.
Upto(cells, n, name) == {k \in 1..n : cells[k].sheet = name}
SpillTo(sp, cells, n) ==
    /\ DOMAIN sp = {"names", "parts"}
    /\ sp.names = NamesTo(cells, n)
    /\ DOMAIN sp.parts = Sheets(cells, n)
    /\ \A name \in Sheets(cells, n) : sp.parts[name] = Picked(cells, Upto(cells, n, name))

\* The names and the parts a batch adds.
LEMMA BatchNames ==
  ASSUME NEW cells, IsList(cells), NEW b \in Nat, NEW batch, IsList(batch),
         Follows(cells, batch, b), NEW X, NEW V, NEW sp, sp.names = NamesTo(cells, b), NEW r,
         SpillArgs(batch, X, V, SheetsIn(batch), sp), SpillRunIs(r, batch, X, V, SheetsIn(batch), sp)
  PROVE  r[Len(SheetsIn(batch))].names = NamesTo(cells, b + Len(batch))
  <1> USE DEF SpillArgs, Follows
  <1> DEFINE l == Len(batch)
             lst == SheetsIn(batch)
             G(m) == r[Len(NamesTo(batch, m))].names = NamesTo(cells, b + m)
             P == {m \in 0..l : G(m)}
  <1>0. /\ l \in Nat /\ DOMAIN batch = 1..l /\ Len(cells) \in Nat /\ DOMAIN cells = 1..Len(cells)
    BY ListFacts
  <1>1. lst = NamesTo(batch, l)
    BY SheetsInIs
  <1>2. IsList(lst) /\ Len(lst) \in Nat /\ DOMAIN lst = 1..Len(lst)
    <2>1. IsList(lst)
      BY <1>0, <1>1, NamesFacts
    <2> HIDE DEF lst
    <2> QED BY <2>1, ListFacts
  <1>3. /\ r \in [0..Len(lst) -> Spills(X, V)] /\ r[0] = sp
        /\ \A k \in 1..Len(lst) : r[k] = write_part(r[k - 1], lst[k], PartOf(batch, lst[k]))
    BY DEF SpillRunIs
  <1>4. ASSUME NEW k \in 1..Len(lst)
        PROVE  r[k].names = IF lst[k] \in Range(r[k - 1].names) THEN r[k - 1].names
                            ELSE Append(r[k - 1].names, lst[k])
    <2>1. r[k - 1] \in Spills(X, V) /\ lst[k] \in X
      BY <1>2, <1>3
    <2>2. PartOf(batch, lst[k]) \in Seq(V)
      <3>1. batch \in Seq(V)
        <4>1. batch \in Seq(Range(batch))
          BY DEF IsList
        <4> QED BY <4>1
      <3> QED BY <3>1, PickedSeq DEF PartOf
    <2> HIDE DEF lst
    <2> QED BY <2>1, <2>2, <1>3, WritePartIn
  <1> HIDE DEF lst
  <1>5. 0 \in P
    <2>1. NamesTo(batch, 0) = <<>>
      BY NamesZero
    <2>2. Len(NamesTo(batch, 0)) = 0 /\ b + 0 = b /\ 0 \in 0..l
      BY <2>1, <1>0, EmptyList
    <2> QED BY <2>2, <1>3
  <1>6. ASSUME NEW m \in 0..(l - 1), m \in P PROVE m + 1 \in P
    <2> DEFINE p == NamesTo(batch, m)
               q == NamesTo(cells, b + m)
               x == batch[m + 1].sheet
    <2>1. /\ m \in Nat /\ m \in 0..l /\ m + 1 \in 0..l /\ m + 1 \in 1..l /\ m + 1 \in DOMAIN batch
          /\ b + m \in Nat /\ (b + m) + 1 \in DOMAIN cells /\ b + m \in 0..Len(cells)
          /\ (b + m) + 1 = b + (m + 1)
      BY <1>0
    <2>2. x = cells[(b + m) + 1].sheet
      BY <2>1
    <2>3. NamesTo(batch, m + 1) = IF x \in Sheets(batch, m) THEN p ELSE Append(p, x)
      BY <2>1, NamesStep
    <2>4. NamesTo(cells, b + (m + 1)) = IF x \in Sheets(cells, b + m) THEN q ELSE Append(q, x)
      BY <2>1, <2>2, NamesStep
    <2>5. IsList(p) /\ Range(q) = Sheets(cells, b + m)
      BY <2>1, NamesFacts
    <2>6. r[Len(p)].names = q
      BY <1>6
    <2>7. Sheets(batch, m) \subseteq Sheets(cells, b + m)
      <3> SUFFICES ASSUME NEW j \in 1..m PROVE batch[j].sheet \in Sheets(cells, b + m)
        BY DEF Sheets
      <3>1. j \in 1..l /\ b + j \in 1..(b + m)
        BY <2>1, <1>0
      <3>2. batch[j] = cells[b + j]
        BY <3>1
      <3> QED BY <3>1, <3>2 DEF Sheets
    <2>8. CASE x \in Sheets(batch, m)
      <3>1. NamesTo(batch, m + 1) = p /\ NamesTo(cells, b + (m + 1)) = q
        BY <2>3, <2>4, <2>7, <2>8
      <3>2. G(m + 1)
        BY <3>1, <2>6
      <3> HIDE DEF G
      <3> QED BY <3>2, <2>1
    <2>9. CASE x \notin Sheets(batch, m)
      <3> DEFINE n == Len(p)
      <3>1. NamesTo(batch, m + 1) = Append(p, x)
        BY <2>3, <2>9
      <3> HIDE DEF p, q, x
      <3>2. Len(Append(p, x)) = n + 1 /\ DOMAIN Append(p, x) = 1..(n + 1)
        BY <2>5, AppendList
      <3>3. Append(p, x)[n + 1] = x
        BY <2>5, AppendList
      <3>4. n \in Nat
        BY <2>5, ListFacts
      <3>5. n + 1 \in DOMAIN lst /\ lst[n + 1] = x
        <4>1. n + 1 \in DOMAIN NamesTo(batch, m + 1)
          BY <3>1, <3>2, <3>4
        <4>2. n + 1 \in DOMAIN NamesTo(batch, l) /\ NamesTo(batch, m + 1)[n + 1] = NamesTo(batch, l)[n + 1]
          BY <4>1, <2>1, NamesPrefix
        <4> QED BY <4>2, <3>1, <3>3, <1>1
      <3>6. r[n + 1].names = IF x \in Range(r[n].names) THEN r[n].names ELSE Append(r[n].names, x)
        <4>1. n + 1 \in 1..Len(lst) /\ (n + 1) - 1 = n
          BY <3>4, <3>5, <1>2
        <4>2. r[n + 1].names = IF lst[n + 1] \in Range(r[(n + 1) - 1].names) THEN r[(n + 1) - 1].names
                               ELSE Append(r[(n + 1) - 1].names, lst[n + 1])
          BY <4>1, <1>4
        <4> QED BY <4>1, <4>2, <3>5
      <3>7. r[n + 1].names = NamesTo(cells, b + (m + 1))
        BY <3>6, <2>4, <2>5, <2>6
      <3>8. G(m + 1)
        BY <3>1, <3>2, <3>7
      <3> HIDE DEF G
      <3> QED BY <3>8, <2>1
    <2> QED BY <2>8, <2>9
  <1>7. \A m \in 0..l : m \in P
    <2> HIDE DEF P, l
    <2> QED BY <1>0, <1>5, <1>6, UpTo
  <1>8. G(l)
    <2>1. l \in 0..l
      BY <1>0
    <2> HIDE DEF G, l
    <2> QED BY <2>1, <1>7
  <1> QED BY <1>1, <1>8 DEF lst

Distinct(lst) == \A i, j \in DOMAIN lst : lst[i] = lst[j] => i = j

\* The parts after a batch: those of its sheets are longer, the others are the same.
LEMMA BatchParts ==
  ASSUME NEW batch, NEW X, NEW V, NEW sp, NEW lst, Distinct(lst),
         SpillArgs(batch, X, V, lst, sp), NEW r, SpillRunIs(r, batch, X, V, lst, sp)
  PROVE  LET new == r[Len(lst)].parts
         IN  /\ DOMAIN new = DOMAIN sp.parts \cup Range(lst)
             /\ \A n \in Range(lst) : new[n] = IF n \in DOMAIN sp.parts
                                               THEN sp.parts[n] \o PartOf(batch, n)
                                               ELSE PartOf(batch, n)
             /\ \A n \in DOMAIN sp.parts \ Range(lst) : new[n] = sp.parts[n]
  <1> USE DEF SpillArgs, Distinct
  <1> DEFINE l == Len(lst)
             U(j) == {lst[i] : i \in 1..j}
             G(j) == /\ DOMAIN r[j].parts = DOMAIN sp.parts \cup U(j)
                     /\ \A n \in U(j) : r[j].parts[n] = IF n \in DOMAIN sp.parts
                                                        THEN sp.parts[n] \o PartOf(batch, n)
                                                        ELSE PartOf(batch, n)
                     /\ \A n \in DOMAIN sp.parts \ U(j) : r[j].parts[n] = sp.parts[n]
             P == {j \in 0..l : G(j)}
  <1>0. l \in Nat /\ DOMAIN lst = 1..l
    BY ListFacts
  <1>1. /\ r \in [0..l -> Spills(X, V)] /\ r[0] = sp
        /\ \A k \in 1..l : r[k] = write_part(r[k - 1], lst[k], PartOf(batch, lst[k]))
    BY DEF SpillRunIs
  <1>2. ASSUME NEW k \in 1..l
        PROVE  /\ DOMAIN r[k].parts = DOMAIN r[k - 1].parts \cup {lst[k]}
               /\ r[k].parts[lst[k]] = IF lst[k] \in DOMAIN r[k - 1].parts
                                       THEN r[k - 1].parts[lst[k]] \o PartOf(batch, lst[k])
                                       ELSE PartOf(batch, lst[k])
               /\ \A n \in DOMAIN r[k - 1].parts \ {lst[k]} : r[k].parts[n] = r[k - 1].parts[n]
    <2> DEFINE held == r[k - 1]
               name == lst[k]
               part == PartOf(batch, name)
    <2>1. held \in Spills(X, V) /\ name \in X
      BY <1>0, <1>1
    <2>2. part \in Seq(V)
      <3>1. batch \in Seq(V)
        <4>1. batch \in Seq(Range(batch))
          BY DEF IsList
        <4> QED BY <4>1
      <3> QED BY <3>1, PickedSeq DEF PartOf
    <2>3. r[k] = write_part(held, name, part)
      BY <1>1
    <2> HIDE DEF held, name, part
    <2>4. /\ DOMAIN r[k].parts = DOMAIN held.parts \cup {name}
          /\ r[k].parts[name] = IF name \in DOMAIN held.parts THEN held.parts[name] \o part ELSE part
          /\ \A n \in DOMAIN held.parts \ {name} : r[k].parts[n] = held.parts[n]
      BY <2>1, <2>2, <2>3, WritePartIn
    <2> QED BY <2>4 DEF held, name, part
  <1>3. 0 \in P
    <2>1. U(0) = {}
      OBVIOUS
    <2>2. 0 \in 0..l
      BY <1>0
    <2> QED BY <2>1, <2>2, <1>1
  <1>4. ASSUME NEW j \in 0..(l - 1), j \in P PROVE j + 1 \in P
    <2> DEFINE x == lst[j + 1]
    <2>1. j + 1 \in 1..l /\ (j + 1) - 1 = j /\ j + 1 \in 0..l /\ j \in Nat
      BY <1>0
    <2>2. U(j + 1) = U(j) \cup {x}
      <3>1. \A i : i \in 1..(j + 1) <=> (i \in 1..j \/ i = j + 1)
        BY <2>1
      <3> QED BY <3>1
    <2>3. x \notin U(j)
      <3> SUFFICES ASSUME NEW i \in 1..j, lst[i] = x PROVE FALSE
        OBVIOUS
      <3>1. i \in DOMAIN lst /\ j + 1 \in DOMAIN lst /\ i # j + 1
        BY <2>1, <1>0
      <3> QED BY <3>1
    <2>4. G(j)
      BY <1>4
    <2>5. /\ DOMAIN r[j + 1].parts = DOMAIN r[j].parts \cup {x}
          /\ r[j + 1].parts[x] = IF x \in DOMAIN r[j].parts THEN r[j].parts[x] \o PartOf(batch, x)
                                 ELSE PartOf(batch, x)
          /\ \A n \in DOMAIN r[j].parts \ {x} : r[j + 1].parts[n] = r[j].parts[n]
      BY <2>1, <1>2
    <2> HIDE DEF U, x
    <2>6. DOMAIN r[j + 1].parts = DOMAIN sp.parts \cup U(j + 1)
      BY <2>2, <2>4, <2>5
    <2>7. ASSUME NEW n \in U(j + 1)
          PROVE  r[j + 1].parts[n] = IF n \in DOMAIN sp.parts THEN sp.parts[n] \o PartOf(batch, n)
                                     ELSE PartOf(batch, n)
      <3>1. CASE n = x
        BY <3>1, <2>3, <2>4, <2>5
      <3>2. CASE n \in U(j)
        <4>1. n # x /\ n \in DOMAIN r[j].parts \ {x}
          BY <3>2, <2>3, <2>4
        <4> QED BY <4>1, <3>2, <2>4, <2>5
      <3> QED BY <3>1, <3>2, <2>2
    <2>8. ASSUME NEW n \in DOMAIN sp.parts \ U(j + 1) PROVE r[j + 1].parts[n] = sp.parts[n]
      <3>1. n \in DOMAIN sp.parts \ U(j) /\ n \in DOMAIN r[j].parts \ {x}
        BY <2>2, <2>4
      <3> QED BY <3>1, <2>4, <2>5
    <2>9. G(j + 1)
      BY <2>6, <2>7, <2>8
    <2> HIDE DEF G
    <2> QED BY <2>1, <2>9
  <1>5. \A j \in 0..l : j \in P
    <2> HIDE DEF P, l
    <2> QED BY <1>0, <1>3, <1>4, UpTo
  <1>6. G(l)
    <2>1. l \in 0..l
      BY <1>0
    <2> HIDE DEF G, l
    <2> QED BY <2>1, <1>5
  <1>7. U(l) = Range(lst)
    BY <1>0 DEF Range
  <1> HIDE DEF U
  <1> QED BY <1>6, <1>7

\* A batch is a piece of the cells.
LEMMA BatchFacts ==
  ASSUME NEW cells, IsList(cells), NEW m \in 1..Len(cells), NEW n \in m..Len(cells), NEW batch,
         batch = SubSeq(cells, m, n)
  PROVE  /\ IsList(batch) /\ Len(batch) = (n - m) + 1
         /\ \A i \in 1..Len(batch) : batch[i] = cells[(m - 1) + i]
         /\ Range(batch) \subseteq Range(cells)
  <1>1. cells \in Seq(Range(cells)) /\ Len(cells) \in Nat /\ DOMAIN cells = 1..Len(cells)
    BY ListFacts DEF IsList
  <1>2. /\ batch \in Seq(Range(cells)) /\ Len(batch) = (n - m) + 1
        /\ \A i \in 1..((n - m) + 1) : batch[i] = cells[(m - 1) + i]
    <2> DEFINE X == Range(cells)
    <2>1. cells \in Seq(X)
      BY <1>1
    <2> HIDE DEF X
    <2>2. batch \in Seq(X) /\ Len(batch) = (n - m) + 1
      BY <2>1, <1>1
    <2>3. \A i \in 1..((n - m) + 1) : batch[i] = cells[(m - 1) + i]
      BY <2>1, <1>1
    <2> QED BY <2>2, <2>3 DEF X
  <1>3. IsList(batch)
    BY <1>2, SeqIsList
  <1>4. Range(batch) \subseteq Range(cells)
    <2>1. DOMAIN batch = 1..Len(batch)
      BY <1>3, ListFacts
    <2> SUFFICES ASSUME NEW i \in DOMAIN batch PROVE batch[i] \in Range(cells)
      BY DEF Range
    <2> HIDE DEF Range
    <2> QED BY <1>2, <2>1
  <1> QED BY <1>2, <1>3, <1>4

\* The sheets up to the end of a batch.
LEMMA SheetsBatch ==
  ASSUME NEW cells, NEW b \in Nat, NEW batch, IsList(batch), Follows(cells, batch, b)
  PROVE  Sheets(cells, b + Len(batch)) = Sheets(cells, b) \cup Sheets(batch, Len(batch))
  <1> DEFINE l == Len(batch)
  <1>0. l \in Nat /\ \A i \in 1..l : batch[i] = cells[b + i]
    BY ListFacts DEF Follows
  <1> SUFFICES Sheets(cells, b + l) = Sheets(cells, b) \cup Sheets(batch, l)
    OBVIOUS
  <1> HIDE DEF l
  <1> USE <1>0
  <1>1. ASSUME NEW j \in 1..(b + l) PROVE cells[j].sheet \in Sheets(cells, b) \cup Sheets(batch, l)
    <2>1. CASE j \in 1..b
      BY <2>1 DEF Sheets
    <2>2. CASE j \notin 1..b
      <3>1. j - b \in 1..l /\ b + (j - b) = j
        BY <2>2
      <3>2. batch[j - b] = cells[j]
        BY <3>1
      <3> QED BY <3>1, <3>2 DEF Sheets
    <2> QED BY <2>1, <2>2
  <1>2. ASSUME NEW j \in 1..b PROVE cells[j].sheet \in Sheets(cells, b + l)
    <2>1. j \in 1..(b + l)
      OBVIOUS
    <2> QED BY <2>1 DEF Sheets
  <1>3. ASSUME NEW j \in 1..l PROVE batch[j].sheet \in Sheets(cells, b + l)
    <2>1. b + j \in 1..(b + l) /\ batch[j] = cells[b + j]
      OBVIOUS
    <2> QED BY <2>1 DEF Sheets
  <1> QED BY <1>1, <1>2, <1>3 DEF Sheets

\* The cells of a sheet up to the end of a batch.
LEMMA PartBatch ==
  ASSUME NEW cells, IsList(cells), NEW b \in Nat, NEW batch, IsList(batch),
         Follows(cells, batch, b), NEW name
  PROVE  Picked(cells, Upto(cells, b + Len(batch), name))
            = Picked(cells, Upto(cells, b, name)) \o PartOf(batch, name)
  <1> DEFINE l == Len(batch)
             K == Upto(cells, b, name)
             J == {k \in DOMAIN batch : batch[k].sheet = name}
  <1>0. b + Len(batch) <= Len(cells) /\ \A i \in 1..Len(batch) : batch[i] = cells[b + i]
    BY DEF Follows
  <1>1. l \in Nat /\ DOMAIN batch = 1..l
    BY ListFacts
  <1>2. K \in SUBSET (1..b) /\ J \in SUBSET (1..l)
    BY <1>1 DEF Upto
  <1>3. Upto(cells, b + l, name) = K \cup Moved(J, b)
    <2>1. ASSUME NEW k \in Upto(cells, b + l, name) PROVE k \in K \cup Moved(J, b)
      <3>1. k \in 1..(b + l) /\ cells[k].sheet = name
        BY DEF Upto
      <3>2. CASE k \in 1..b
        BY <3>1, <3>2 DEF Upto
      <3>3. CASE k \notin 1..b
        <4>1. k - b \in 1..l /\ b + (k - b) = k
          BY <3>1, <3>3, <1>1
        <4>2. batch[k - b] = cells[k]
          BY <4>1, <1>0
        <4>3. k - b \in J
          BY <4>1, <4>2, <3>1, <1>1
        <4> HIDE DEF J
        <4> QED BY <4>1, <4>3 DEF Moved
      <3> QED BY <3>2, <3>3
    <2>2. ASSUME NEW k \in K PROVE k \in Upto(cells, b + l, name)
      BY <1>1 DEF Upto
    <2>3. ASSUME NEW j \in J PROVE b + j \in Upto(cells, b + l, name)
      <3>1. j \in 1..l /\ batch[j].sheet = name /\ batch[j] = cells[b + j]
        BY <1>0, <1>1
      <3>2. b + j \in 1..(b + l)
        BY <3>1, <1>1
      <3> QED BY <3>1, <3>2 DEF Upto
    <2> HIDE DEF K, J, l
    <2> QED BY <2>1, <2>2, <2>3 DEF Moved
  <1>4. Picked(cells, Upto(cells, b + l, name)) = Picked(cells, K) \o Picked(batch, J)
    <2>1. K \in SUBSET (1..b) /\ J \in SUBSET (1..Len(batch))
      BY <1>2
    <2> HIDE DEF K, J, l
    <2>2. Picked(cells, K \cup Moved(J, b)) = Picked(cells, K) \o Picked(batch, J)
      <3>1. Joins(cells, batch, b, K, J)
        BY <2>1 DEF Joins
      <3> QED BY <3>1, PickedConcat
    <2> QED BY <2>2, <1>3
  <1> QED BY <1>4 DEF PartOf

Sheeted(cells) == {c.sheet : c \in Range(cells)}

\* A batch keeps the spill in file order, also when it returns to a sheet.
LEMMA SpillBatch ==
  ASSUME NEW cells, IsList(cells), NEW b \in Nat, NEW batch, IsList(batch),
         Follows(cells, batch, b), Range(batch) \subseteq Range(cells),
         NEW sp \in Spills(Sheeted(cells), Range(cells)), SpillTo(sp, cells, b)
  PROVE  /\ Spilled(batch, SheetsIn(batch), sp) \in Spills(Sheeted(cells), Range(cells))
         /\ SpillTo(Spilled(batch, SheetsIn(batch), sp), cells, b + Len(batch))
  <1> DEFINE X == Sheeted(cells)
             V == Range(cells)
             lst == SheetsIn(batch)
             l == Len(batch)
             n == Len(cells)
  <1>0. b + Len(batch) <= Len(cells) /\ \A i \in 1..Len(batch) : batch[i] = cells[b + i]
    BY DEF Follows
  <1>1. /\ l \in Nat /\ DOMAIN batch = 1..l /\ n \in Nat /\ DOMAIN cells = 1..n
        /\ b \in 0..n /\ b + l \in 0..n /\ l \in 0..l
    BY <1>0, ListFacts
  <1>2. lst = NamesTo(batch, l)
    BY SheetsInIs
  <1>3. /\ IsList(lst) /\ Range(lst) = Sheets(batch, l)
        /\ \A i, j \in DOMAIN lst : lst[i] = lst[j] => i = j
    BY <1>1, <1>2, NamesFacts
  <1>4. \A k \in DOMAIN lst : lst[k] \in X
    <2>1. ASSUME NEW k \in DOMAIN lst PROVE lst[k] \in X
      <3>1. lst[k] \in Sheets(batch, l)
        BY <1>3 DEF Range
      <3>2. PICK j \in 1..l : lst[k] = batch[j].sheet
        BY <3>1 DEF Sheets
      <3>3. batch[j] \in Range(cells)
        BY <1>1 DEF Range
      <3> QED BY <3>2, <3>3 DEF Sheeted
    <2> QED BY <2>1
  <1>A. SpillArgs(batch, X, V, lst, sp) /\ Distinct(lst)
    BY <1>3, <1>4 DEF SpillArgs, Distinct
  <1>5. PICK r : SpillRunIs(r, batch, X, V, lst, sp) /\ Spilled(batch, lst, sp) = r[Len(lst)]
    <2> HIDE DEF X, V, lst
    <2> QED BY <1>A, SpillRun
  <1> DEFINE new == r[Len(lst)]
  <1>6. new \in Spills(X, V)
    <2>1. Len(lst) \in Nat /\ Len(lst) \in 0..Len(lst)
      BY <1>3, ListFacts
    <2>2. r \in [0..Len(lst) -> Spills(X, V)]
      BY <1>5 DEF SpillRunIs
    <2> HIDE DEF lst
    <2> QED BY <2>1, <2>2
  <1>7. new.names = NamesTo(cells, b + l)
    <2>1. sp.names = NamesTo(cells, b)
      BY DEF SpillTo
    <2> HIDE DEF X, V
    <2> QED BY <1>A, <1>5, <2>1, BatchNames
  <1>8. /\ DOMAIN new.parts = DOMAIN sp.parts \cup Range(lst)
        /\ \A m \in Range(lst) : new.parts[m] = IF m \in DOMAIN sp.parts
                                                THEN sp.parts[m] \o PartOf(batch, m)
                                                ELSE PartOf(batch, m)
        /\ \A m \in DOMAIN sp.parts \ Range(lst) : new.parts[m] = sp.parts[m]
    <2> HIDE DEF X, V, lst
    <2> QED BY <1>A, <1>5, BatchParts
  <1> HIDE DEF new, lst
  <1>9. Sheets(cells, b + l) = Sheets(cells, b) \cup Sheets(batch, l)
    BY SheetsBatch
  <1>10. DOMAIN new.parts = Sheets(cells, b + l)
    BY <1>3, <1>8, <1>9 DEF SpillTo
  <1>11. ASSUME NEW name \in Sheets(cells, b + l)
         PROVE  new.parts[name] = Picked(cells, Upto(cells, b + l, name))
    <2>1. Picked(cells, Upto(cells, b + l, name))
            = Picked(cells, Upto(cells, b, name)) \o PartOf(batch, name)
      BY PartBatch
    <2>2. CASE name \in Sheets(cells, b) /\ name \in Range(lst)
      BY <2>1, <2>2, <1>8 DEF SpillTo
    <2>3. CASE name \notin Sheets(cells, b)
      <3>1. new.parts[name] = PartOf(batch, name)
        BY <2>3, <1>3, <1>8, <1>9 DEF SpillTo
      <3>2. Upto(cells, b, name) = {}
        BY <2>3 DEF Upto, Sheets
      <3>3. Picked(cells, Upto(cells, b, name)) = <<>>
        BY <3>2, PickedNone
      <3>4. IsList(PartOf(batch, name))
        BY PickedList DEF PartOf
      <3>5. <<>> \o PartOf(batch, name) = PartOf(batch, name)
        BY <3>4, EmptyList, ConcatList
      <3> QED BY <2>1, <3>1, <3>3, <3>5
    <2>4. CASE name \in Sheets(cells, b) /\ name \notin Range(lst)
      <3>1. new.parts[name] = Picked(cells, Upto(cells, b, name))
        BY <2>4, <1>8 DEF SpillTo
      <3>2. PartOf(batch, name) = <<>>
        <4>1. {k \in DOMAIN batch : batch[k].sheet = name} = {}
          BY <2>4, <1>1, <1>3 DEF Sheets
        <4> QED BY <4>1, PickedNone DEF PartOf
      <3>3. IsList(Picked(cells, Upto(cells, b, name)))
        BY PickedList
      <3>4. Picked(cells, Upto(cells, b, name)) \o <<>> = Picked(cells, Upto(cells, b, name))
        <4> DEFINE u == Picked(cells, Upto(cells, b, name))
        <4> HIDE DEF u
        <4>1. u \in Seq(Range(u))
          BY <3>3 DEF u, IsList
        <4>2. u \o <<>> = u
          BY <4>1
        <4> QED BY <4>2 DEF u
      <3> QED BY <2>1, <3>1, <3>2, <3>4
    <2> QED BY <2>2, <2>3, <2>4
  <1>12. DOMAIN new = {"names", "parts"}
    <2> HIDE DEF X, V
    <2> QED BY <1>6 DEF Spills
  <1>13. SpillTo(new, cells, b + l)
    BY <1>7, <1>10, <1>11, <1>12 DEF SpillTo
  <1>14. Spilled(batch, SheetsIn(batch), sp) = new
    BY <1>5 DEF new, lst
  <1> QED BY <1>6, <1>13, <1>14

\* Where the spill is: in step with the position of the scan, then complete.
SpillKept ==
    /\ IsList(book.cells)
    /\ spill \in Spills(Sheeted(book.cells), Range(book.cells))
    /\ pc = "parse" => at = 1
    /\ pc \in {"parse", "spill"} => /\ at \in 1..(Len(book.cells) + 1)
                                    /\ SpillTo(spill, book.cells, at - 1)
                                    /\ layout.done = 0
    /\ pc \notin {"parse", "spill"} => SpillTo(spill, book.cells, Len(book.cells))

\* The spill is empty at first.
LEMMA SpillInit == Init => SpillKept
  <1> SUFFICES ASSUME Init PROVE SpillKept
    OBVIOUS
  <1>1. IsList(book.cells)
    BY BooksAssumption DEF Init
  <1>2. Len(book.cells) \in Nat
    BY <1>1, ListFacts
  <1>3. /\ pc = "parse" /\ at = 1 /\ layout.done = 0
        /\ spill = [names |-> <<>>, parts |-> <<>>]
    BY DEF Init
  <1> DEFINE X == Sheeted(book.cells)
             V == Range(book.cells)
  <1>4. spill \in Spills(X, V)
    <2> HIDE DEF X, V
    <2>1. <<>> \in [{} -> Seq(V)] /\ {} \in SUBSET X /\ <<>> \in Seq(X)
      OBVIOUS
    <2>2. <<>> \in PartSets(X, V)
      BY <2>1 DEF PartSets
    <2> QED BY <2>1, <2>2, <1>3 DEF Spills
  <1>5. SpillTo(spill, book.cells, 0)
    <2>1. Sheets(book.cells, 0) = {}
      BY DEF Sheets
    <2>2. NamesTo(book.cells, 0) = <<>>
      BY <1>1, NamesZero
    <2>3. DOMAIN <<>> = {}
      BY EmptyList
    <2>4. DOMAIN spill = {"names", "parts"} /\ spill.names = <<>> /\ spill.parts = <<>>
      BY <1>3
    <2> QED BY <2>1, <2>2, <2>3, <2>4 DEF SpillTo
  <1>6. at - 1 = 0 /\ at \in 1..(Len(book.cells) + 1)
    BY <1>2, <1>3
  <1>7. SpillTo(spill, book.cells, at - 1)
    BY <1>5, <1>6
  <1> QED BY <1>1, <1>3, <1>4, <1>6, <1>7 DEF SpillKept

\* A batch keeps the spill in step with the scan.
LEMMA SpillWriteBatch == SpillKept /\ WriteBatch => SpillKept'
  <1> SUFFICES ASSUME SpillKept, WriteBatch PROVE SpillKept'
    OBVIOUS
  <1> DEFINE cells == book.cells
             last == IF at + BatchSize - 1 < Len(cells) THEN at + BatchSize - 1 ELSE Len(cells)
             batch == SubSeq(cells, at, last)
             lst == SheetsIn(batch)
  <1>1. /\ pc = "spill" /\ at <= Len(cells) /\ at' = at + Len(batch)
        /\ UNCHANGED <<book, pc, layout>>
    BY DEF WriteBatch
  <1>2. spill' = Spilled(batch, lst, spill)
    <2>1. spill' = write_batch(spill, batch)
      BY DEF WriteBatch
    <2>2. write_batch(spill, batch) = Spilled(batch, lst, spill)
      BY Zenon DEF write_batch, Spilled
    <2> QED BY <2>1, <2>2
  <1>3. /\ IsList(cells) /\ Len(cells) \in Nat /\ at \in 1..(Len(cells) + 1)
        /\ at \in 1..Len(cells) /\ SpillTo(spill, cells, at - 1) /\ layout.done = 0
        /\ spill \in Spills(Sheeted(cells), Range(cells))
    <2>1. IsList(cells) /\ Len(cells) \in Nat
      BY ListFacts DEF SpillKept
    <2> QED BY <2>1, <1>1 DEF SpillKept
  <1>4. BatchSize \in Nat \ {0}
    BY ContextAssumption
  <1>5. last \in at..Len(cells)
    <2> HIDE DEF cells
    <2> QED BY <1>3, <1>4
  <1> HIDE DEF cells, last
  <1>6. /\ IsList(batch) /\ Len(batch) = (last - at) + 1
        /\ \A i \in 1..Len(batch) : batch[i] = cells[(at - 1) + i]
        /\ Range(batch) \subseteq Range(cells)
    BY <1>3, <1>5, BatchFacts
  <1> HIDE DEF batch
  <1>7. at - 1 \in Nat /\ (at - 1) + Len(batch) = at' - 1 /\ at' \in 1..(Len(cells) + 1)
    BY <1>1, <1>3, <1>5, <1>6
  <1>8. Follows(cells, batch, at - 1)
    BY <1>3, <1>5, <1>6 DEF Follows
  <1>9. /\ Spilled(batch, lst, spill) \in Spills(Sheeted(cells), Range(cells))
        /\ SpillTo(Spilled(batch, lst, spill), cells, (at - 1) + Len(batch))
    BY <1>3, <1>6, <1>7, <1>8, SpillBatch
  <1>10. /\ spill' \in Spills(Sheeted(cells), Range(cells)) /\ SpillTo(spill', cells, at' - 1)
    BY <1>2, <1>7, <1>9
  <1>11. cells = book.cells /\ book.cells = book'.cells
    BY <1>1 DEF cells
  <1> QED BY <1>1, <1>3, <1>7, <1>10, <1>11 DEF SpillKept

\* The scan ends with all cells spilled.
LEMMA SpillEndScan == SpillKept /\ EndScan => SpillKept'
  <1> SUFFICES ASSUME SpillKept, EndScan PROVE SpillKept'
    OBVIOUS
  <1>1. pc = "spill" /\ at > Len(book.cells) /\ pc' = "share" /\ UNCHANGED <<book, spill>>
    BY DEF EndScan, inputs
  <1>2. IsList(book.cells) /\ Len(book.cells) \in Nat
    BY ListFacts DEF SpillKept
  <1>3. at \in 1..(Len(book.cells) + 1) /\ SpillTo(spill, book.cells, at - 1)
    BY <1>1 DEF SpillKept
  <1>4. at - 1 = Len(book.cells)
    BY <1>1, <1>2, <1>3
  <1>5. SpillTo(spill, book.cells, Len(book.cells))
    BY <1>3, <1>4
  <1> QED BY <1>1, <1>5 DEF SpillKept

\* After the scan the spill does not change.
LEMMA SpillStays ==
  ASSUME SpillKept, UNCHANGED <<book, spill>>,
         pc \notin {"parse", "spill"}, pc' \notin {"parse", "spill"}
  PROVE  SpillKept'
  BY DEF SpillKept

\* Every step keeps the spill in step with the scan.
LEMMA SpillNext == SpillKept /\ [Next]_vars => SpillKept'
  <1> SUFFICES ASSUME SpillKept, [Next]_vars PROVE SpillKept'
    OBVIOUS
  <1>1. CASE Parse
    BY <1>1 DEF Parse, SpillKept
  <1>2. CASE WriteBatch \/ EndScan
    BY <1>2, SpillWriteBatch, SpillEndScan
  <1>3. CASE ShareAxis \/ ShareBlocks \/ EndShare \/ LinkAxis \/ WriteTimelines
    <2>1. UNCHANGED <<book, spill>> /\ pc \notin {"parse", "spill"} /\ pc' \notin {"parse", "spill"}
      BY <1>3 DEF ShareAxis, ShareBlocks, EndShare, LinkAxis, WriteTimelines, inputs
    <2> QED BY <2>1, SpillStays
  <1>4. CASE RelationCell \/ EndRelations \/ ReadCells \/ BuildAxes \/ Open
    <2>1. UNCHANGED <<book, spill>> /\ pc \notin {"parse", "spill"} /\ pc' \notin {"parse", "spill"}
      BY <1>4 DEF RelationCell, EndRelations, ReadCells, BuildAxes, Open, inputs
    <2> QED BY <2>1, SpillStays
  <1>5. CASE StartBlock \/ WriteRow \/ EndBlock \/ Finish \/ Swap \/ PublishMarkdown \/ DropSidecars
    <2>1. UNCHANGED <<book, spill>> /\ pc \notin {"parse", "spill"} /\ pc' \notin {"parse", "spill"}
      BY <1>5 DEF StartBlock, WriteRow, EndBlock, Finish, Swap, PublishMarkdown, DropSidecars, inputs
    <2> QED BY <2>1, SpillStays
  <1>6. CASE GetObservations \/ Raise \/ Kill \/ Rebuild
    <2>1. UNCHANGED <<book, spill>> /\ pc \notin {"parse", "spill"} /\ pc' \notin {"parse", "spill"}
      BY <1>6 DEF GetObservations, Raise, Kill, Rebuild, inputs
    <2> QED BY <2>1, SpillStays
  <1>7. CASE UNCHANGED vars
    BY <1>7 DEF vars, SpillKept
  <1> QED BY <1>1, <1>2, <1>3, <1>4, <1>5, <1>6, <1>7 DEF Next

\* A complete spill has every sheet's cells in file order.
LEMMA SpillInOrder == SpillKept => SpillKeepsOrder
  <1> SUFFICES ASSUME SpillKept, pc \notin {"parse", "spill"}
               PROVE  /\ spill.names = SheetsIn(book.cells)
                      /\ \A name \in Range(spill.names) :
                            spill.parts[name] = Select(book.cells, LAMBDA c : c.sheet = name)
    BY DEF SpillKeepsOrder
  <1> DEFINE n == Len(book.cells)
  <1>1. IsList(book.cells) /\ n \in Nat /\ DOMAIN book.cells = 1..n /\ n \in 0..n
    BY ListFacts DEF SpillKept
  <1>2. SpillTo(spill, book.cells, n)
    BY DEF SpillKept
  <1>3. spill.names = SheetsIn(book.cells)
    BY <1>1, <1>2, SheetsInIs DEF SpillTo
  <1>4. Range(spill.names) = Sheets(book.cells, n)
    BY <1>1, <1>2, NamesFacts DEF SpillTo
  <1>5. ASSUME NEW name \in Range(spill.names)
        PROVE  spill.parts[name] = Select(book.cells, LAMBDA c : c.sheet = name)
    <2>1. spill.parts[name] = Picked(book.cells, Upto(book.cells, n, name))
      BY <1>2, <1>4 DEF SpillTo
    <2>2. Upto(book.cells, n, name) = {k \in DOMAIN book.cells : book.cells[k].sheet = name}
      BY <1>1 DEF Upto
    <2> QED BY <2>1, <2>2 DEF Select
  <1> QED BY <1>3, <1>5

(***************************************************************************)
(* The order check, the numbers of the builds, the positions of the loops  *)
(***************************************************************************)

\* What the order check holds: the last place of a sheet, the sheets to warn of.
Places(cells) == {<<c.row, c.col>> : c \in Range(cells)}
LastSets(X, W) == UNION {[D -> W] : D \in SUBSET X}
Orders(cells) == [last : LastSets(Sheeted(cells), Places(cells)), warned : Seq(Sheeted(cells))]

\* One cell keeps the state of the order check well formed.
LEMMA SeeIn ==
  ASSUME NEW cells, NEW c \in Range(cells), NEW seen \in Orders(cells)
  PROVE  see(seen, c) \in Orders(cells)
  <1> DEFINE X == Sheeted(cells)
             W == Places(cells)
             p == seen.last
             name == c.sheet
             place == <<c.row, c.col>>
             q == [n \in DOMAIN p \cup {name} |-> IF n = name THEN place ELSE p[n]]
             w == IF /\ name \in DOMAIN p /\ ~After(place, p[name]) /\ name \notin Range(seen.warned)
                  THEN Append(seen.warned, name) ELSE seen.warned
  <1>1. see(seen, c) = [last |-> q, warned |-> w]
    BY DEF see
  <1>2. name \in X /\ place \in W
    BY DEF Sheeted, Places
  <1> HIDE DEF X, W, place, name
  <1>3. PICK D \in SUBSET X : p \in [D -> W]
    BY DEF Orders, LastSets, X, W
  <1>4. seen.warned \in Seq(X)
    BY DEF Orders, X
  <1>5. w \in Seq(X)
    BY <1>2, <1>4
  <1> HIDE DEF p, w
  <1>6. q \in [D \cup {name} -> W] /\ D \cup {name} \in SUBSET X
    <2>1. DOMAIN p = D
      BY <1>3
    <2> QED BY <2>1, <1>2, <1>3
  <1> HIDE DEF q
  <1>7. q \in LastSets(X, W)
    BY <1>6 DEF LastSets
  <1>8. [last |-> q, warned |-> w] \in [last : LastSets(X, W), warned : Seq(X)]
    BY <1>5, <1>7
  <1> QED BY <1>1, <1>8 DEF Orders, X, W

NoOrder == [last |-> <<>>, warned |-> <<>>]

\* The order check starts well formed.
LEMMA NoOrderIn ==
  ASSUME NEW cells
  PROVE  NoOrder \in Orders(cells)
  <1> DEFINE X == Sheeted(cells)
             W == Places(cells)
  <1> HIDE DEF X, W
  <1>1. <<>> \in [{} -> W] /\ {} \in SUBSET X /\ <<>> \in Seq(X)
    OBVIOUS
  <1>2. <<>> \in LastSets(X, W)
    BY <1>1 DEF LastSets
  <1>3. NoOrder \in [last : LastSets(X, W), warned : Seq(X)]
    BY <1>1, <1>2 DEF NoOrder
  <1> QED BY <1>3 DEF Orders, X, W

SeeRunIs(r, cells) ==
    /\ r \in [0..Len(cells) -> Orders(cells)]
    /\ r[0] = NoOrder
    /\ \A k \in 1..Len(cells) : r[k] = see(r[k - 1], cells[k])

\* The order check is the last state of its loop.
LEMMA SeeRun ==
  ASSUME NEW cells,
         IsList(cells)
  PROVE  \E r : SeeRunIs(r, cells) /\ FoldLeft(see, NoOrder, cells) = r[Len(cells)]
  <1> DEFINE n == Len(cells)
             T == Orders(cells)
             base == NoOrder
             Op(x, k) == see(x, cells[k])
             step == [p \in T \X (1..n) |-> Op(p[1], p[2])]
             body(h) == [s \in SUBSET DOMAIN cells |->
                           IF s = {} THEN NoOrder
                           ELSE see(h[s \ {Max(s)}], cells[Max(s)])]
             iter == CHOOSE h : h = body(h)
  <1>1. n \in Nat /\ DOMAIN cells = 1..n
    BY DEF IsList
  <1>2. base \in T /\ \A x \in T : \A k \in 1..n : Op(x, k) \in T
    <2>1. ASSUME NEW x \in T, NEW k \in 1..n PROVE Op(x, k) \in T
      <3>1. cells[k] \in Range(cells)
        BY <1>1 DEF Range
      <3> QED BY <3>1, SeeIn
    <2> QED BY <2>1, NoOrderIn
  <1>3. step \in [T \X (1..n) -> T]
    <2> HIDE DEF T, Op
    <2> QED BY <1>2
  <1>4. PICK h : IsFold(h, n, T, base, step)
    <2> HIDE DEF n, T, base, step
    <2> QED BY <1>1, <1>2, <1>3, FoldExists
  <1>5. PICK r : IsRun(r, n, T, base, step)
    <2> HIDE DEF n, T, base, step
    <2> QED BY <1>1, <1>2, <1>3, RunExists
  <1>6. ASSUME NEW x \in T, NEW k \in 1..n
        PROVE  step[<<x, k>>] = Op(x, k)
    <2> HIDE DEF T, Op
    <2>1. <<x, k>> \in T \X (1..n) /\ <<x, k>>[1] = x /\ <<x, k>>[2] = k
      OBVIOUS
    <2> QED BY <2>1
  <1>7. h = body(h)
    <2>1. h = [s \in SUBSET (1..n) |-> h[s]]
      BY <1>4 DEF IsFold
    <2>2. ASSUME NEW s \in SUBSET (1..n)
          PROVE  h[s] = IF s = {} THEN base ELSE Op(h[s \ {Max(s)}], Max(s))
      <3>1. CASE s = {}
        BY <3>1, <1>4 DEF IsFold
      <3>2. CASE s # {}
        <4>1. Max(s) \in s
          <5>1. \E x \in s : \A y \in s : x >= y
            BY <3>2, <1>1, SetMax
          <5> QED BY <5>1 DEF Max
        <4>2. Max(s) \in 1..n /\ s \ {Max(s)} \in SUBSET (1..n)
          BY <4>1
        <4>3. h[s \ {Max(s)}] \in T /\ h[s] = step[<<h[s \ {Max(s)}], Max(s)>>]
          <5> HIDE DEF T, step, base, n
          <5> QED BY <4>2, <3>2, <1>4 DEF IsFold
        <4> HIDE DEF T, Op, step
        <4> QED BY <4>2, <4>3, <1>6, <3>2
      <3> QED BY <3>1, <3>2
    <2> HIDE DEF n
    <2> QED BY <2>1, <2>2, <1>1
  <1>8. iter = body(iter)
    <2> HIDE DEF body
    <2> QED BY <1>7
  <1>9. FoldLeft(see, NoOrder, cells) = iter[1..n]
    <2>1. FoldLeft(see, NoOrder, cells) = iter[DOMAIN cells]
      BY DEF FoldLeft, MapThenFoldSet
    <2> HIDE DEF iter, n
    <2> QED BY <2>1, <1>1
  <1>10. /\ r \in [0..n -> T] /\ r[0] = base
         /\ \A k \in 1..n : r[k] = Op(r[k - 1], k)
    <2>1. /\ r \in [0..n -> T] /\ r[0] = base
          /\ \A k \in 1..n : r[k] = step[<<r[k - 1], k>>]
      BY <1>5 DEF IsRun
    <2>2. ASSUME NEW k \in 1..n PROVE r[k] = Op(r[k - 1], k)
      <3>1. r[k - 1] \in T
        BY <2>1, <1>1
      <3> HIDE DEF T, Op, step, n
      <3> QED BY <2>1, <3>1, <1>6
    <2> QED BY <2>1, <2>2
  <1>11. \A k \in 0..n : iter[1..k] = r[k]
    <2> DEFINE P == {k \in 0..n : iter[1..k] = r[k]}
    <2>1. 0 \in P
      <3>1. {} \in SUBSET DOMAIN cells /\ 1..0 = {}
        OBVIOUS
      <3>2. iter[{}] = base
        <4> HIDE DEF iter
        <4> QED BY <3>1, <1>8
      <3> HIDE DEF iter
      <3> QED BY <3>1, <3>2, <1>10, <1>1
    <2>2. ASSUME NEW k \in 0..(n - 1), k \in P PROVE k + 1 \in P
      <3>1. /\ 1..(k + 1) \in SUBSET DOMAIN cells /\ 1..(k + 1) # {}
            /\ Max(1..(k + 1)) = k + 1 /\ (1..(k + 1)) \ {k + 1} = 1..k
        BY <1>1, MaxSegment
      <3>2. iter[1..(k + 1)] = Op(iter[1..k], k + 1)
        <4> HIDE DEF iter
        <4> QED BY <3>1, <1>8
      <3>3. iter[1..k] = r[k] /\ r[k + 1] = Op(r[k], k + 1) /\ k + 1 \in 0..n
        BY <2>2, <1>10, <1>1
      <3> HIDE DEF iter, Op
      <3> QED BY <3>2, <3>3
    <2> HIDE DEF P
    <2>3. \A k \in 0..n : k \in P
      BY <2>1, <2>2, <1>1, UpTo
    <2> QED BY <2>3 DEF P
  <1>12. FoldLeft(see, NoOrder, cells) = r[n]
    <2>1. n \in 0..n
      BY <1>1
    <2> HIDE DEF iter, n
    <2> QED BY <2>1, <1>9, <1>11
  <1> HIDE DEF iter, body, step
  <1>13. SeeRunIs(r, cells)
    BY <1>10 DEF SeeRunIs
  <1> QED BY <1>12, <1>13

\* The order check ends well formed.
LEMMA SeeAll ==
  ASSUME NEW cells, IsList(cells)
  PROVE  FoldLeft(see, NoOrder, cells) \in Orders(cells)
  <1>1. PICK r : SeeRunIs(r, cells) /\ FoldLeft(see, NoOrder, cells) = r[Len(cells)]
    BY SeeRun
  <1>2. Len(cells) \in Nat /\ Len(cells) \in 0..Len(cells)
    BY ListFacts
  <1>3. r[Len(cells)] \in Orders(cells)
    BY <1>1, <1>2 DEF SeeRunIs
  <1> QED BY <1>1, <1>3

\* Only sheets of the cells are warned of.
LEMMA WarnedIn ==
  ASSUME NEW cells, NEW seen \in Orders(cells)
  PROVE  Range(seen.warned) \subseteq Sheeted(cells)
  <1> DEFINE X == Sheeted(cells)
             w == seen.warned
  <1>1. w \in Seq(X)
    BY DEF Orders
  <1> HIDE DEF X, w
  <1>2. Range(w) \subseteq X
    BY <1>1 DEF Range
  <1> QED BY <1>2 DEF X, w

Early == {"parse", "spill", "share", "link", "relate", "read", "axes", "open"}
Writing == {"block", "rows", "swap"}

\* The numbers of the builds: a step before the first file of a build has one left,
\* a step while it is written has a document less than builds.
Numbered ==
    /\ builds \in 0..Builds(book) /\ faults \in 0..Faults(book)
    /\ pc \in Early => builds < Builds(book)
    /\ pc \in Writing \cup {"render", "clean"} => builds # 0
    /\ \A d \in Range(docs) : d.run \in 1..builds
    /\ disk.tmp \cup killed \subseteq 1..builds
    /\ Len(docs) <= builds
    /\ pc \in Writing => Len(docs) < builds

\* No build was started at first.
LEMMA NumberInit == Init => Numbered
  <1> SUFFICES ASSUME Init PROVE Numbered
    OBVIOUS
  <1>1. /\ book \in Books /\ pc = "parse" /\ builds = 0 /\ faults = 0 /\ docs = <<>>
        /\ killed = {} /\ disk.tmp = {}
    BY DEF Init
  <1>2. Builds(book) \in Nat \ {0} /\ Faults(book) \in Nat
    BY <1>1, ContextAssumption
  <1>3. Len(docs) = 0 /\ Range(docs) = {}
    BY <1>1, EmptyList
  <1> QED BY <1>1, <1>2, <1>3 DEF Numbered, Early, Writing

\* A step that starts no build and publishes nothing keeps the numbers.
LEMMA NumberStays ==
  ASSUME Numbered, UNCHANGED <<book, builds, faults, docs, killed>>, disk'.tmp \subseteq disk.tmp,
         pc' \in Early => pc \in Early,
         pc' \in Writing \cup {"render", "clean"} => pc \in Writing \cup {"render", "clean"},
         pc' \in Writing => pc \in Writing
  PROVE  Numbered'
  BY DEF Numbered

\* Every step keeps the numbers of the builds.
LEMMA NumberNext == DocInv /\ Numbered /\ [Next]_vars => Numbered'
  <1> SUFFICES ASSUME DocInv, Numbered, [Next]_vars PROVE Numbered'
    OBVIOUS
  <1>0. /\ book \in Books /\ Builds(book) \in Nat \ {0} /\ Faults(book) \in Nat
        /\ builds \in Nat /\ faults \in Nat /\ IsList(docs) /\ Len(docs) \in Nat
    <2>1. book \in Books /\ IsList(docs) /\ Len(docs) \in Nat
      BY ListFacts DEF DocInv, PublishedWhole
    <2>2. Builds(book) \in Nat \ {0} /\ Faults(book) \in Nat
      BY <2>1, ContextAssumption
    <2> QED BY <2>1, <2>2 DEF Numbered
  <1>R. DOMAIN disk = {"json", "tmp", "body", "rows", "md", "axis"}
    BY DEF DocInv, Records
  <1>1. CASE \/ Parse \/ WriteBatch \/ EndScan \/ ShareAxis \/ ShareBlocks \/ EndShare
             \/ LinkAxis \/ WriteTimelines \/ RelationCell \/ EndRelations \/ ReadCells
             \/ BuildAxes
    <2>1. UNCHANGED <<book, builds, faults, docs, killed, disk>> /\ pc \in Early /\ pc' \in Early
      BY <1>1 DEF Parse, WriteBatch, EndScan, ShareAxis, ShareBlocks, EndShare, LinkAxis,
                  WriteTimelines, RelationCell, EndRelations, ReadCells, BuildAxes, history, Early
    <2>2. pc' \notin Writing \cup {"render", "clean"}
      BY <2>1 DEF Early, Writing
    <2> QED BY <2>1, <2>2, NumberStays
  <1>2. CASE Open
    <2>1. /\ pc = "open" /\ pc' = "block" /\ builds' = builds + 1
          /\ disk'.tmp = disk.tmp \cup {builds + 1}
          /\ UNCHANGED <<book, docs, faults, killed>>
      BY <1>2, <1>R DEF Open
    <2>2. builds < Builds(book) /\ disk.tmp \cup killed \subseteq 1..builds
      BY <2>1 DEF Numbered, Early
    <2>3. disk'.tmp \cup killed' \subseteq 1..(builds + 1)
      BY <1>0, <2>1, <2>2
    <2>4. \A d \in Range(docs) : d.run \in 1..(builds + 1)
      BY <1>0 DEF Numbered
    <2>5. Len(docs) < builds + 1
      BY <1>0 DEF Numbered
    <2>6. faults \in 0..Faults(book) /\ builds + 1 \in 0..Builds(book) /\ builds + 1 # 0
      BY <1>0, <2>2 DEF Numbered
    <2>7. pc' \notin Early
      BY <2>1 DEF Early
    <2> QED BY <1>0, <2>1, <2>3, <2>4, <2>5, <2>6, <2>7 DEF Numbered
  <1>3. CASE StartBlock \/ WriteRow \/ EndBlock \/ Finish
    <2>1. /\ UNCHANGED <<book, builds, faults, docs, killed>> /\ disk'.tmp = disk.tmp
          /\ pc \in Writing /\ pc' \in Writing
      <3>1. CASE StartBlock
        BY <3>1, <1>R DEF StartBlock, history, Writing
      <3>2. CASE WriteRow
        BY <3>2 DEF WriteRow, history, Writing
      <3>3. CASE EndBlock
        BY <3>3, <1>R DEF EndBlock, history, Writing
      <3>4. CASE Finish
        BY <3>4, <1>R DEF Finish, history, Writing
      <3> QED BY <1>3, <3>1, <3>2, <3>3, <3>4
    <2>2. pc' \notin Early
      BY <2>1 DEF Early, Writing
    <2> QED BY <2>1, <2>2, NumberStays
  <1>4. CASE Swap
    <2>1. /\ pc = "swap" /\ pc' = "render" /\ docs' = Append(docs, built)
          /\ disk'.tmp = disk.tmp \ {builds}
          /\ UNCHANGED <<book, builds, faults, killed>>
      BY <1>4, <1>R DEF Swap
    <2>2. built.run = builds
      BY <2>1 DEF DocInv, Written
    <2>3. builds # 0 /\ Len(docs) < builds
      BY <2>1 DEF Numbered, Writing
    <2>4. Range(Append(docs, built)) = Range(docs) \cup {built}
      BY <1>0, AppendList
    <2>5. Len(Append(docs, built)) = Len(docs) + 1
      BY <1>0, AppendList
    <2>6. \A d \in Range(docs') : d.run \in 1..builds
      BY <1>0, <2>1, <2>2, <2>3, <2>4 DEF Numbered
    <2>7. Len(docs') <= builds
      BY <1>0, <2>1, <2>3, <2>5
    <2>8. pc' \notin Early /\ pc' \notin Writing
      BY <2>1 DEF Early, Writing
    <2> QED BY <2>1, <2>3, <2>6, <2>7, <2>8 DEF Numbered
  <1>5. CASE PublishMarkdown \/ DropSidecars \/ GetObservations
    <2>1. /\ UNCHANGED <<book, builds, faults, docs, killed>> /\ disk'.tmp = disk.tmp
          /\ pc' \notin Early \cup Writing
          /\ pc' \in {"render", "clean"} => pc \in {"render", "clean"}
      <3>1. CASE PublishMarkdown
        BY <3>1, <1>R DEF PublishMarkdown, history, Early, Writing
      <3>2. CASE DropSidecars
        BY <3>2, <1>R DEF DropSidecars, history, Early, Writing
      <3>3. CASE GetObservations
        BY <3>3 DEF GetObservations, Early, Writing
      <3> QED BY <1>5, <3>1, <3>2, <3>3
    <2> QED BY <2>1, NumberStays
  <1>6. CASE Raise
    <2>1. /\ pc' = "failed" /\ faults < Faults(book) /\ faults' = faults + 1
          /\ disk' = IF pc = "render" THEN disk ELSE cleanup(disk, builds)
          /\ UNCHANGED <<book, docs, builds, killed>>
      BY <1>6 DEF Raise
    <2>2. disk'.tmp \subseteq disk.tmp
      BY <2>1, <1>R DEF cleanup
    <2>3. faults' \in 0..Faults(book)
      BY <1>0, <2>1
    <2>4. pc' \notin Early \cup Writing \cup {"render", "clean"}
      BY <2>1 DEF Early, Writing
    <2> QED BY <2>1, <2>2, <2>3, <2>4 DEF Numbered
  <1>7. CASE Kill
    <2>1. /\ pc \in Writing \cup {"render", "clean"}
          /\ pc' = "failed" /\ faults < Faults(book) /\ faults' = faults + 1
          /\ killed' = killed \cup {builds}
          /\ UNCHANGED <<book, docs, builds, disk>>
      BY <1>7 DEF Kill, Writing
    <2>2. builds # 0
      BY <2>1 DEF Numbered
    <2>3. disk'.tmp \cup killed' \subseteq 1..builds
      BY <1>0, <2>1, <2>2 DEF Numbered
    <2>4. faults' \in 0..Faults(book)
      BY <1>0, <2>1
    <2>5. pc' \notin Early \cup Writing \cup {"render", "clean"}
      BY <2>1 DEF Early, Writing
    <2> QED BY <2>1, <2>3, <2>4, <2>5 DEF Numbered
  <1>8. CASE Rebuild
    <2>1. /\ pc' = "read" /\ builds < Builds(book)
          /\ UNCHANGED <<book, builds, faults, docs, killed, disk>>
      BY <1>8 DEF Rebuild, history
    <2>2. pc' \notin Writing \cup {"render", "clean"}
      BY <2>1 DEF Writing
    <2> QED BY <2>1, <2>2 DEF Numbered
  <1>9. CASE UNCHANGED vars
    <2>1. UNCHANGED <<book, pc, builds, faults, docs, killed, disk>>
      BY <1>9 DEF vars
    <2> QED BY <2>1, NumberStays
  <1> QED BY <1>1, <1>2, <1>3, <1>4, <1>5, <1>6, <1>7, <1>8, <1>9 DEF Next

\* The cells the relations need are a list.
LEMMA RelationCellsList ==
  ASSUME IsList(book.cells), IsList(spill.names), NEW blocks
  PROVE  IsList(RelationCells(blocks))
  <1> DEFINE cols(b) == Range(relation_period_cols(blocks[b], AxesOf(blocks[b])))
             targets(name) == {b \in DOMAIN blocks : blocks[b].sheet = name /\ cols(b) # {}}
             K(n) == {k \in DOMAIN book.cells :
                        /\ book.cells[k].sheet = spill.names[n] /\ book.cells[k].call # ""
                        /\ \E b \in targets(book.cells[k].sheet) :
                              \E r \in Range(blocks[b].rows) : r.row = book.cells[k].row
                        /\ \E b \in targets(book.cells[k].sheet) : book.cells[k].col \in cols(b)}
             parts == [n \in DOMAIN spill.names |-> Picked(book.cells, K(n))]
  <1>1. RelationCells(blocks) = FlattenSeq(parts)
    BY DEF RelationCells, Select
  <1> HIDE DEF K
  <1>2. \A n \in DOMAIN spill.names : IsList(Picked(book.cells, K(n)))
    BY PickedList
  <1>3. Len(spill.names) \in Nat /\ DOMAIN spill.names = 1..Len(spill.names)
    BY ListFacts
  <1>4. IsList(parts)
    <2>1. parts = [n \in 1..Len(spill.names) |-> parts[n]]
      BY <1>3
    <2> HIDE DEF parts
    <2> QED BY <2>1, <1>3, FnIsList
  <1>5. \A n \in DOMAIN parts : IsList(parts[n])
    BY <1>2
  <1> HIDE DEF parts
  <1>6. IsList(FlattenSeq(parts))
    BY <1>4, <1>5, FlattenList
  <1> QED BY <1>1, <1>6

Later == {"read", "axes", "open", "block", "rows", "swap", "render", "clean", "done", "served",
          "failed"}

\* Where the loops are.
Placed ==
    /\ order \in Orders(book.cells) /\ (pc = "parse" => order = NoOrder)
    /\ layout.done \in 0..Len(spill.names)
    /\ (pc = "share" /\ layout.done = Len(spill.names)) => at = 1
    /\ pc = "link" => at \in 1..(Len(layout.axes) + 1)
    /\ pc = "relate" => IsList(rel.queue) /\ at \in 1..(Len(rel.queue) + 1)
    /\ pc \in Later => at \in 1..(Len(layout.blocks) + 1)

\* The first loop starts at its first position.
LEMMA PlaceInit == Init => Placed
  <1> SUFFICES ASSUME Init PROVE Placed
    OBVIOUS
  <1>1. /\ pc = "parse" /\ order = NoOrder /\ layout.done = 0 /\ spill.names = <<>>
    BY DEF Init, NoOrder
  <1>2. order \in Orders(book.cells)
    BY <1>1, NoOrderIn
  <1>3. Len(spill.names) = 0
    BY <1>1, EmptyList
  <1> QED BY <1>1, <1>2, <1>3 DEF Placed, Later

\* A step of a build that stays within the blocks.
LEMMA PlaceLater ==
  ASSUME Placed, UNCHANGED <<book, order, spill, layout>>, pc' \in Later,
         at' \in 1..(Len(layout.blocks) + 1)
  PROVE  Placed'
  BY DEF Placed, Later

\* Every step keeps the position within the list its loop walks.
LEMMA PlaceNext == DocInv /\ SpillKept /\ Placed /\ [Next]_vars => Placed'
  <1> SUFFICES ASSUME DocInv, SpillKept, Placed, [Next]_vars PROVE Placed'
    OBVIOUS
  <1>0. /\ IsList(book.cells) /\ IsList(layout.axes) /\ Len(layout.axes) \in Nat
        /\ IsList(layout.blocks) /\ Len(layout.blocks) \in Nat
    BY ListFacts DEF DocInv, LayoutLists, SpillKept
  <1>N. /\ IsList(spill.names) /\ Len(spill.names) \in Nat
        /\ IsList(spill.names') /\ Len(spill.names') \in Nat
    <2>1. SpillKept'
      BY SpillNext
    <2>2. spill.names \in Seq(Sheeted(book.cells)) /\ spill'.names \in Seq(Sheeted(book'.cells))
      BY <2>1 DEF SpillKept, Spills
    <2>3. IsList(spill.names) /\ IsList(spill.names')
      BY <2>2, SeqIsList
    <2> QED BY <2>3, ListFacts
  <1>1. CASE Parse
    <2>1. /\ pc = "parse" /\ pc' = "spill" /\ order' = FoldLeft(see, order, book.cells)
          /\ UNCHANGED <<book, layout, spill>>
      BY <1>1 DEF Parse
    <2>2. order = NoOrder
      BY <2>1 DEF Placed
    <2>3. FoldLeft(see, NoOrder, book.cells) \in Orders(book.cells)
      BY <1>0, SeeAll
    <2>4. order' \in Orders(book.cells)
      BY <2>1, <2>2, <2>3
    <2> QED BY <2>1, <2>4 DEF Placed, Later
  <1>2. CASE WriteBatch
    <2>1. pc = "spill" /\ pc' = "spill" /\ UNCHANGED <<book, order, layout>>
      BY <1>2 DEF WriteBatch
    <2>2. layout.done = 0
      BY <2>1 DEF SpillKept
    <2>3. layout'.done \in 0..Len(spill'.names)
      BY <2>1, <2>2, <1>N
    <2> QED BY <2>1, <2>3 DEF Placed, Later
  <1>3. CASE EndScan
    <2>1. pc' = "share" /\ at' = 1 /\ UNCHANGED <<book, order, layout, spill>>
      BY <1>3 DEF EndScan, inputs
    <2> QED BY <2>1 DEF Placed, Later
  <1>4. CASE ShareAxis
    <2>1. pc' = "share" /\ layout.done < Len(spill.names) /\ UNCHANGED <<book, order, layout, spill>>
      BY <1>4 DEF ShareAxis
    <2>2. layout.done # Len(spill.names)
      BY <2>1, <1>N DEF Placed
    <2> QED BY <2>1, <2>2 DEF Placed, Later
  <1>5. CASE ShareBlocks
    <2>1. /\ pc' = "share" /\ at' = 1 /\ layout.done < Len(spill.names)
          /\ layout'.done = layout.done + 1 /\ UNCHANGED <<book, order, spill>>
      <3>1. pc' = "share" /\ at' = 1 /\ layout.done < Len(spill.names) /\ UNCHANGED <<book, order, spill>>
        BY <1>5 DEF ShareBlocks
      <3>2. \E axes, blocks : layout' = [axes |-> axes, blocks |-> blocks, done |-> layout.done + 1]
        BY <1>5, Zenon DEF ShareBlocks
      <3> QED BY <3>1, <3>2
    <2>2. layout'.done \in 0..Len(spill.names)
      BY <2>1, <1>N DEF Placed
    <2> QED BY <2>1, <2>2 DEF Placed, Later
  <1>6. CASE EndShare
    <2>1. pc' = "link" /\ at' = 1 /\ UNCHANGED <<book, order, layout, spill>>
      BY <1>6 DEF EndShare, inputs
    <2> QED BY <2>1, <1>0 DEF Placed, Later
  <1>7. CASE LinkAxis
    <2>1. /\ pc = "link" /\ pc' = "link" /\ at <= Len(layout.axes) /\ at' = at + 1
          /\ UNCHANGED <<book, order, layout, spill>>
      BY <1>7 DEF LinkAxis
    <2>2. at' \in 1..(Len(layout.axes) + 1)
      BY <2>1, <1>0 DEF Placed
    <2> QED BY <2>1, <2>2 DEF Placed, Later
  <1>8. CASE WriteTimelines
    <2>1. /\ pc' = "relate" /\ at' = 1 /\ rel'.queue = RelationCells(layout.blocks)
          /\ layout'.done = layout.done /\ UNCHANGED <<book, order, spill>>
      BY <1>8 DEF WriteTimelines, NoRel, DocInv, Records
    <2>2. IsList(rel'.queue)
      BY <2>1, <1>0, <1>N, RelationCellsList
    <2>3. Len(rel'.queue) \in Nat
      BY <2>2, ListFacts
    <2> QED BY <2>1, <2>2, <2>3 DEF Placed, Later
  <1>9. CASE RelationCell
    <2>1. /\ pc = "relate" /\ pc' = "relate" /\ at <= Len(rel.queue) /\ at' = at + 1
          /\ rel'.queue = rel.queue /\ UNCHANGED <<book, order, layout, spill>>
      BY <1>9 DEF RelationCell, DocInv, Records
    <2>2. IsList(rel.queue) /\ at \in 1..(Len(rel.queue) + 1)
      BY <2>1 DEF Placed
    <2>3. Len(rel.queue) \in Nat
      BY <2>2, ListFacts
    <2>4. at' \in 1..(Len(rel.queue) + 1)
      BY <2>1, <2>2, <2>3
    <2> QED BY <2>1, <2>2, <2>4 DEF Placed, Later
  <1>10. CASE EndRelations \/ Open
    <2>1. pc' \in Later /\ at' = 1 /\ UNCHANGED <<book, order, layout, spill>>
      BY <1>10 DEF EndRelations, Open, inputs, Later
    <2>2. at' \in 1..(Len(layout.blocks) + 1)
      BY <2>1, <1>0
    <2> QED BY <2>1, <2>2, PlaceLater
  <1>11. CASE \/ ReadCells \/ BuildAxes \/ WriteRow \/ Finish \/ Swap \/ PublishMarkdown
              \/ DropSidecars \/ GetObservations \/ Raise \/ Kill \/ Rebuild
    <2>1. pc \in Later /\ pc' \in Later /\ UNCHANGED <<book, at, order, layout, spill>>
      <3>1. CASE ReadCells \/ BuildAxes \/ WriteRow \/ Finish \/ Swap
        BY <3>1 DEF ReadCells, BuildAxes, WriteRow, Finish, Swap, inputs, Later
      <3>2. CASE PublishMarkdown \/ DropSidecars \/ GetObservations
        BY <3>2 DEF PublishMarkdown, DropSidecars, GetObservations, inputs, Later
      <3>3. CASE Raise \/ Kill \/ Rebuild
        BY <3>3 DEF Raise, Kill, Rebuild, inputs, Later
      <3> QED BY <1>11, <3>1, <3>2, <3>3
    <2>2. at' \in 1..(Len(layout.blocks) + 1)
      BY <2>1 DEF Placed
    <2> QED BY <2>1, <2>2, PlaceLater
  <1>12. CASE StartBlock
    <2>1. /\ pc = "block" /\ pc' \in Later /\ at <= Len(layout.blocks) /\ at' \in {at, at + 1}
          /\ UNCHANGED <<book, order, layout, spill>>
      BY <1>12 DEF StartBlock, inputs, Later
    <2>2. at \in 1..(Len(layout.blocks) + 1)
      BY <2>1 DEF Placed, Later
    <2>3. at' \in 1..(Len(layout.blocks) + 1)
      BY <2>1, <2>2, <1>0
    <2> QED BY <2>1, <2>3, PlaceLater
  <1>13. CASE EndBlock
    <2>1. /\ pc = "rows" /\ pc' \in Later /\ at' = at + 1
          /\ UNCHANGED <<book, order, layout, spill>>
      BY <1>13 DEF EndBlock, inputs, Later
    <2>2. at \in 1..Len(layout.blocks)
      BY <2>1 DEF DocInv, Written
    <2>3. at' \in 1..(Len(layout.blocks) + 1)
      BY <2>1, <2>2, <1>0
    <2> QED BY <2>1, <2>3, PlaceLater
  <1>14. CASE UNCHANGED vars
    BY <1>14 DEF vars, Placed
  <1> QED BY <1>1, <1>2, <1>3, <1>4, <1>5, <1>6, <1>7, <1>8, <1>9, <1>10, <1>11, <1>12, <1>13,
             <1>14 DEF Next

\* The state is well formed in every reachable state: positions stay within the lists
\* their loops walk, and every file on the disk is of a build that was started.
THEOREM TypeCorrect == Spec => []TypeOK
  <1> DEFINE Inv == /\ DocInv /\ Bucketed(buckets) /\ Sharing /\ SpillKept
                    /\ Numbered /\ Placed
  <1>1. Init => Inv
    BY DocInit, LinkInit, ShareInit, SpillInit, NumberInit, PlaceInit
  <1>2. Inv /\ [Next]_vars => Inv'
    BY DocNext, LinkNext, ShareNext, SpillNext, NumberNext, PlaceNext
  <1>3. Inv => TypeOK
    <2> SUFFICES ASSUME Inv PROVE TypeOK
      OBVIOUS
    <2>1. at \in 1..(LoopLen + 1)
      <3>1. CASE pc \in {"parse", "spill"}
        BY <3>1 DEF SpillKept, LoopLen
      <3>2. CASE pc = "share" /\ layout.done < Len(spill.names)
        BY <3>2 DEF Sharing, AtShare, LoopLen
      <3>3. CASE pc = "share" /\ ~(layout.done < Len(spill.names))
        <4>1. Len(spill.names) \in Nat
          <5>1. spill.names \in Seq(Sheeted(book.cells))
            BY DEF SpillKept, Spills
          <5> QED BY <5>1
        <4>2. layout.done = Len(spill.names)
          BY <3>3, <4>1 DEF Placed
        <4>3. at = 1
          BY <3>3, <4>2 DEF Placed
        <4> QED BY <3>3, <4>3 DEF LoopLen
      <3>4. CASE pc = "link"
        BY <3>4 DEF Placed, LoopLen
      <3>5. CASE pc = "relate"
        BY <3>5 DEF Placed, LoopLen
      <3>6. CASE pc \in Later
        BY <3>6 DEF Placed, LoopLen, Later
      <3>7. pc \in Steps
        BY DEF DocInv, Records
      <3> QED BY <3>1, <3>2, <3>3, <3>4, <3>5, <3>6, <3>7 DEF Steps, Later
    <2>2. Range(order.warned) \subseteq {c.sheet : c \in Range(book.cells)}
      BY WarnedIn DEF Placed, Sheeted
    <2>3. DOMAIN spill.parts = Range(spill.names)
      <3> DEFINE n == IF pc \in {"parse", "spill"} THEN at - 1 ELSE Len(book.cells)
      <3>1. IsList(book.cells) /\ Len(book.cells) \in Nat
        BY ListFacts DEF SpillKept
      <3>2. n \in 0..Len(book.cells) /\ SpillTo(spill, book.cells, n)
        BY <3>1 DEF SpillKept
      <3> HIDE DEF n
      <3> QED BY <3>1, <3>2, NamesFacts DEF SpillTo
    <2>4. layout.done \in 0..Len(spill.names)
      BY DEF Placed
    <2>5. {k.axis.id : k \in Range(share.kept)} \cap {k.id : k \in Range(share.alias)} = {}
      <3>1. CASE AtShare
        <4>1. Apart(share.kept, share.alias)
          BY <3>1 DEF Sharing, SharedTo
        <4> QED BY <4>1 DEF Apart, Range
      <3>2. CASE ~AtShare
        <4>1. share.kept = <<>>
          BY <3>2 DEF Sharing, NoShare
        <4>2. Range(share.kept) = {}
          BY <4>1, EmptyList
        <4> QED BY <4>2
      <3> QED BY <3>1, <3>2
    <2>6. {disk.json.run, disk.md.run} \subseteq 0..builds
      <3>0. builds \in Nat
        <4>1. book \in Books
          BY DEF DocInv
        <4>2. Builds(book) \in Nat
          BY <4>1, ContextAssumption
        <4> QED BY <4>2 DEF Numbered
      <3>1. disk.json.run \in 0..builds
        <4>1. CASE docs = <<>>
          BY <4>1, <3>0 DEF DocInv, PublishedWhole, Nothing
        <4>2. CASE docs # <<>>
          <5>1. IsList(docs) /\ disk.json = Last(docs)
            BY <4>2 DEF DocInv, PublishedWhole
          <5>2. Len(docs) \in DOMAIN docs
            BY <4>2, <5>1, ListFacts
          <5>3. Last(docs) \in Range(docs)
            BY <5>2 DEF Last, Range
          <5> QED BY <5>1, <5>3, <3>0 DEF Numbered
        <4> QED BY <4>1, <4>2
      <3>2. disk.md.run \in 0..builds
        <4>1. CASE disk.md = Nothing
          BY <4>1, <3>0 DEF Nothing
        <4>2. CASE disk.md # Nothing
          <5>1. \E d \in Range(docs) : d.run = disk.md.run
            BY <4>2 DEF DocInv, Streamed
          <5> QED BY <5>1, <3>0 DEF Numbered
        <4> QED BY <4>1, <4>2
      <3> QED BY <3>1, <3>2
    <2>7. disk.tmp \cup killed \subseteq 1..builds
      BY DEF Numbered
    <2>8. disk.axis \in Nat
      BY DEF DocInv, TempFiles
    <2>9. builds \in 0..Builds(book) /\ faults \in 0..Faults(book) /\ Len(docs) <= builds
      BY DEF Numbered
    <2> QED BY <2>1, <2>2, <2>3, <2>4, <2>5, <2>6, <2>7, <2>8, <2>9 DEF TypeOK
  <1> QED BY <1>1, <1>2, <1>3, PTL DEF Spec

(***************************************************************************)
(* Cells that are looked up, and the layout they are looked up for         *)
(***************************************************************************)

\* What a lookup of a cell returns.
IsAt(c, sheet, row, col) == c.sheet = sheet /\ c.row = row /\ c.col = col

\* A lookup that hits returns a cell of the address.
LEMMA CellAtSome ==
  ASSUME NEW s, IsList(s), NEW sheet, NEW row, NEW col,
         \E c \in Range(s) : IsAt(c, sheet, row, col)
  PROVE  cell_at(s, sheet, row, col) \in Range(s) /\ IsAt(cell_at(s, sheet, row, col), sheet, row, col)
  <1> DEFINE hits == {k \in DOMAIN s : s[k].sheet = sheet /\ s[k].row = row /\ s[k].col = col}
             top == CHOOSE k \in hits : \A l \in hits : l <= k
  <1>1. Len(s) \in Nat /\ DOMAIN s = 1..Len(s)
    BY ListFacts
  <1>2. hits # {} /\ hits \in SUBSET (1..Len(s))
    BY <1>1 DEF IsAt, Range
  <1>3. \E k \in hits : \A l \in hits : l <= k
    <2> HIDE DEF hits
    <2>1. \E k \in hits : \A l \in hits : k >= l
      BY <1>1, <1>2, SetMax
    <2> QED BY <2>1, <1>1, <1>2
  <1>4. top \in hits
    <2> HIDE DEF hits
    <2> QED BY <1>3
  <1>5. cell_at(s, sheet, row, col) = s[top]
    BY <1>2 DEF cell_at
  <1> HIDE DEF top
  <1> QED BY <1>4, <1>5 DEF IsAt, Range

\* A lookup that misses returns no cell.
LEMMA CellAtNone ==
  ASSUME NEW s, NEW sheet, NEW row, NEW col, ~(\E c \in Range(s) : IsAt(c, sheet, row, col))
  PROVE  cell_at(s, sheet, row, col) = NoCell
  <1>1. {k \in DOMAIN s : s[k].sheet = sheet /\ s[k].row = row /\ s[k].col = col} = {}
    BY DEF IsAt, Range
  <1> QED BY <1>1 DEF cell_at

\* A part of the file that has all the cells of an address finds what the file finds.
Covers(s, t, sheet, row, col) ==
    /\ IsList(s) /\ Addressed(s) /\ IsList(t) /\ Range(t) \subseteq Range(s)
    /\ \A c \in Range(s) : IsAt(c, sheet, row, col) => c \in Range(t)

\* A lookup in such a part is a lookup in the file.
LEMMA CellAtPart ==
  ASSUME NEW s, NEW t, NEW sheet, NEW row, NEW col, Covers(s, t, sheet, row, col)
  PROVE  cell_at(t, sheet, row, col) = cell_at(s, sheet, row, col)
  <1> USE DEF Covers
  <1>1. CASE \E c \in Range(s) : IsAt(c, sheet, row, col)
    <2>1. \E c \in Range(t) : IsAt(c, sheet, row, col)
      BY <1>1
    <2>2. /\ cell_at(s, sheet, row, col) \in Range(s)
          /\ IsAt(cell_at(s, sheet, row, col), sheet, row, col)
      BY <1>1, CellAtSome
    <2>3. /\ cell_at(t, sheet, row, col) \in Range(t)
          /\ IsAt(cell_at(t, sheet, row, col), sheet, row, col)
      BY <2>1, CellAtSome
    <2> QED BY <2>2, <2>3 DEF Addressed, IsAt
  <1>2. CASE ~(\E c \in Range(s) : IsAt(c, sheet, row, col))
    <2>1. ~(\E c \in Range(t) : IsAt(c, sheet, row, col))
      BY <1>2
    <2> QED BY <1>2, <2>1, CellAtNone
  <1> QED BY <1>1, <1>2

\* load_rows returns the cells of the wanted rows.
LEMMA LoadRowsIs ==
  ASSUME NEW cells, IsList(cells), NEW wanted
  PROVE  /\ IsList(load_rows(cells, wanted))
         /\ Range(load_rows(cells, wanted)) = {c \in Range(cells) : <<c.sheet, c.row>> \in wanted}
  <1> DEFINE K == {k \in DOMAIN cells : <<cells[k].sheet, cells[k].row>> \in wanted}
  <1>1. load_rows(cells, wanted) = Picked(cells, K)
    BY DEF load_rows, Select
  <1>2. IsList(Picked(cells, K))
    BY PickedList
  <1>3. Range(Picked(cells, K)) = {cells[k] : k \in {j \in DOMAIN cells : j \in K}}
    <2> HIDE DEF K
    <2> QED BY PickedRange
  <1>4. {cells[k] : k \in {j \in DOMAIN cells : j \in K}}
          = {c \in Range(cells) : <<c.sheet, c.row>> \in wanted}
    BY DEF Range
  <1> QED BY <1>1, <1>2, <1>3, <1>4

\* In a wanted row the loaded cells are those of the file.
LEMMA LoadedCell ==
  ASSUME NEW cells, IsList(cells), Addressed(cells), NEW wanted, NEW sheet, NEW row, NEW col,
         <<sheet, row>> \in wanted
  PROVE  cell_at(load_rows(cells, wanted), sheet, row, col) = cell_at(cells, sheet, row, col)
  <1> DEFINE t == load_rows(cells, wanted)
  <1>1. IsList(t) /\ Range(t) = {c \in Range(cells) : <<c.sheet, c.row>> \in wanted}
    BY LoadRowsIs
  <1> HIDE DEF t
  <1>2. Range(t) \subseteq Range(cells)
    BY <1>1
  <1>3. \A c \in Range(cells) : IsAt(c, sheet, row, col) => c \in Range(t)
    BY <1>1 DEF IsAt
  <1>4. cell_at(t, sheet, row, col) = cell_at(cells, sheet, row, col)
    <2>1. Covers(cells, t, sheet, row, col)
      BY <1>1, <1>2, <1>3 DEF Covers
    <2> QED BY <2>1, CellAtPart
  <1> QED BY <1>4 DEF t

\* A mapped id is the image of one of the ids.
LEMMA MappedRange ==
  ASSUME NEW ids, IsList(ids), NEW alias
  PROVE  \A x \in Range(mapped_ids(ids, alias)) : \E id \in Range(ids) : x = Mapped(alias, id)
  <1> DEFINE X == {Mapped(alias, id) : id \in Range(ids)}
  <1>1. PICK r : MappedIdsRunIs(r, ids, alias) /\ mapped_ids(ids, alias) = r[Len(ids)]
    BY MappedIdsRun
  <1>2. Len(ids) \in Nat /\ Len(ids) \in 0..Len(ids)
    BY ListFacts
  <1>3. r[Len(ids)] \in Seq(X)
    BY <1>1, <1>2 DEF MappedIdsRunIs
  <1>4. Range(mapped_ids(ids, alias)) \subseteq X
    <2> DEFINE w == mapped_ids(ids, alias)
    <2>1. w \in Seq(X)
      BY <1>1, <1>3
    <2> HIDE DEF X, w
    <2>2. Range(w) \subseteq X
      BY <2>1 DEF Range
    <2> QED BY <2>2 DEF w
  <1> QED BY <1>4

\* The blocks of a sheet are on the sheet and name axes of it.
LEMMA BlocksSound ==
  ASSUME NEW sheet, WellFormed(sheet), NEW cells, NEW switches,
         NEW B, B = blocks_for_sheet(sheet, cells, switches), NEW b \in DOMAIN B
  PROVE  /\ B[b].sheet = sheet.name /\ B[b].header_row \in Nat
         /\ B[b].kind = "timeline" => IsList(B[b].rows)
         /\ \A id \in Range(B[b].axis_ids) : \E a \in Range(sheet.axes) : a.id = id
  <1>1. CASE sheet.blocks = <<>> /\ sheet.plan # <<>>
    <2> DEFINE plan == sheet.plan[1]
    <2>1. PICK col, rows, headers : B = params_block(plan, sheet.name, col, rows, headers)
      BY <1>1 DEF blocks_for_sheet, detect_params_block
    <2>0. plan.header_row \in Nat
      <3>1. IsList(sheet.plan)
        BY DEF WellFormed
      <3>2. Len(sheet.plan) \in Nat /\ DOMAIN sheet.plan = 1..Len(sheet.plan) /\ Len(sheet.plan) # 0
        BY <1>1, <3>1, ListFacts
      <3>3. 1 \in DOMAIN sheet.plan
        BY <3>2
      <3>4. plan \in Range(sheet.plan)
        BY <3>3 DEF Range
      <3> HIDE DEF plan
      <3> QED BY <3>4 DEF WellFormed
    <2> HIDE DEF plan
    <2> DEFINE r == [id |-> plan.id, sheet |-> sheet.name, kind |-> "params", axis_ids |-> <<>>,
                     timeline_ids |-> <<>>, rows |-> rows, label_col |-> col,
                     header_row |-> plan.header_row, headers |-> headers]
    <2>2. B = <<r>>
      <3>1. B # <<>>
        BY EmptyList
      <3> QED BY <2>1, <3>1 DEF params_block
    <2>3. /\ r.sheet = sheet.name /\ r.kind = "params" /\ r.axis_ids = <<>>
          /\ r.header_row \in Nat
      BY <2>0
    <2> HIDE DEF r
    <2>4. B[b] = r
      BY <2>2, OneList
    <2> QED BY <2>3, <2>4, EmptyList
  <1>2. CASE ~(sheet.blocks = <<>> /\ sheet.plan # <<>>)
    <2>1. B = [c \in DOMAIN sheet.blocks |-> with_stub_cells(sheet.blocks[c], cells,
                  PeriodCols(sheet.axes, sheet.blocks[c].axis_ids))]
      BY <1>2 DEF blocks_for_sheet
    <2> DEFINE o == sheet.blocks[b]
               pc0 == PeriodCols(sheet.axes, o.axis_ids)
    <2>2. b \in DOMAIN sheet.blocks /\ B[b] = with_stub_cells(o, cells, pc0)
      BY <2>1
    <2>3. /\ DOMAIN o = BlockFields /\ o.sheet = sheet.name /\ IsList(o.rows)
          /\ o.header_row \in Nat
          /\ \A id \in Range(o.axis_ids) : \E a \in Range(sheet.axes) : a.id = id
      <3>1. o \in Range(sheet.blocks)
        BY <2>2 DEF Range
      <3> HIDE DEF o
      <3> QED BY <3>1 DEF WellFormed
    <2> HIDE DEF o, pc0
    <2> DEFINE R == [r \in DOMAIN o.rows |-> [o.rows[r] EXCEPT !.cells =
                        stub_cells(cells, o.rows[r].row, o.label_col, pc0)]]
    <2>4. IsList(R)
      <3>1. Len(o.rows) \in Nat /\ DOMAIN o.rows = 1..Len(o.rows)
        BY <2>3, ListFacts
      <3>2. R = [r \in 1..Len(o.rows) |-> R[r]]
        BY <3>1
      <3> HIDE DEF R
      <3> QED BY <3>1, <3>2, FnIsList
    <2>5. B[b] = IF o.kind = "params" THEN o ELSE [o EXCEPT !.rows = R]
      BY <2>2 DEF with_stub_cells
    <2> HIDE DEF R
    <2>6. /\ B[b].sheet = o.sheet /\ B[b].axis_ids = o.axis_ids
          /\ B[b].kind = o.kind /\ B[b].rows \in {o.rows, R} /\ B[b].header_row = o.header_row
      BY <2>3, <2>5 DEF BlockFields
    <2> QED BY <2>3, <2>4, <2>6
  <1> QED BY <1>1, <1>2

\* A sheet with an axis is one of the book.
LEMMA SheetIn ==
  ASSUME NEW name, NEW a \in Range(SheetNamed(name).axes)
  PROVE  SheetNamed(name) \in Range(book.sheets)
  <1> DEFINE S == {s \in Range(book.sheets) : s.name = name}
             E == [name |-> name, axes |-> <<>>, blocks |-> <<>>, plan |-> <<>>]
  <1>1. CASE S = {}
    <2>1. SheetNamed(name) = E
      BY <1>1 DEF SheetNamed, Found
    <2>2. E.axes = <<>>
      OBVIOUS
    <2> HIDE DEF E
    <2> QED BY <2>1, <2>2, EmptyList
  <1>2. CASE S # {}
    BY <1>2 DEF SheetNamed, Found
  <1> QED BY <1>1, <1>2

\* Every axis is one of a sheet of the book, and a block names axes that are in the
\* layout and belong to its sheet.
FromSheet(a, sheets) == \E s \in Range(sheets) : a \in Range(s.axes)
Known(id, axes) == \E a \in Range(axes) : a.id = id
OnSheet(id, name, sheets) ==
    \E s \in Range(sheets) : s.name = name /\ \E a \in Range(s.axes) : a.id = id
BlockSound(b, axes, sheets) ==
    /\ (b.kind = "timeline" => IsList(b.rows)) /\ b.header_row \in Nat
    /\ \A id \in Range(b.axis_ids) : Known(id, axes) /\ OnSheet(id, b.sheet, sheets)
Sound(axes, blocks, sheets) ==
    /\ \A a \in Range(axes) : FromSheet(a, sheets)
    /\ \A b \in Range(blocks) : BlockSound(b, axes, sheets)
LayoutSound == Sound(layout.axes, layout.blocks, book.sheets)

\* The blocks of a sheet name axes that were kept, after the aliases are applied.
LEMMA SoundShareBlocks == DocInv /\ Sharing /\ LayoutSound /\ ShareBlocks => LayoutSound'
  <1> SUFFICES ASSUME DocInv, Sharing, LayoutSound, ShareBlocks PROVE LayoutSound'
    OBVIOUS
  <1> DEFINE sheet == ThisSheet
             part == spill.parts[sheet.name]
             B == blocks_for_sheet(sheet, part, SheetSwitches(part))
             A == [k \in DOMAIN share.kept |-> share.kept[k].axis]
             M == [b \in DOMAIN B |->
                     [B[b] EXCEPT !.axis_ids = mapped_ids(@, share.alias),
                                  !.timeline_ids = mapped_ids(B[b].axis_ids, share.alias)]]
             L == layout.blocks
             X == layout.axes
             sheets == book.sheets
  <1>1. /\ pc = "share" /\ layout.done < Len(spill.names) /\ at > Len(sheet.axes)
        /\ layout' = [axes |-> X \o A, blocks |-> L \o M, done |-> layout.done + 1]
        /\ UNCHANGED book
    BY DEF ShareBlocks
  <1>2. WellFormed(sheet)
    BY SheetWellFormed DEF DocInv, ThisSheet
  <1>3. SharedTo(share.kept, share.alias, sheet, part, Len(sheet.axes))
    <2>1. at \in 1..(Len(sheet.axes) + 1) /\ SharedTo(share.kept, share.alias, sheet, part, at - 1)
      BY <1>1 DEF Sharing, AtShare
    <2>2. IsList(sheet.axes)
      BY <1>2 DEF WellFormed
    <2>3. Len(sheet.axes) \in Nat
      BY <2>2, ListFacts
    <2> DEFINE n == Len(sheet.axes)
    <2>4. at > n /\ at \in 1..(n + 1) /\ n \in Nat
      BY <1>1, <2>1, <2>3
    <2> HIDE DEF n
    <2>5. at - 1 = n
      BY <2>4
    <2> QED BY <2>1, <2>5 DEF n
  <1>4. \A id : \A a \in Range(sheet.axes) : sheet \in Range(sheets)
    BY SheetIn DEF ThisSheet
  <1>5. IsList(B) /\ \A b \in DOMAIN B : DOMAIN B[b] = BlockFields /\ IsList(B[b].axis_ids)
    <2> HIDE DEF sheet, part
    <2> QED BY <1>2, BlocksList
  <1>6. ASSUME NEW b \in DOMAIN B
        PROVE  /\ B[b].sheet = sheet.name /\ B[b].header_row \in Nat
               /\ B[b].kind = "timeline" => IsList(B[b].rows)
               /\ \A id \in Range(B[b].axis_ids) : \E a \in Range(sheet.axes) : a.id = id
    <2> DEFINE C == B
    <2>1. C = blocks_for_sheet(sheet, part, SheetSwitches(part)) /\ b \in DOMAIN C
      OBVIOUS
    <2> HIDE DEF C, sheet, part
    <2>2. /\ C[b].sheet = sheet.name /\ C[b].header_row \in Nat
          /\ C[b].kind = "timeline" => IsList(C[b].rows)
          /\ \A id \in Range(C[b].axis_ids) : \E a \in Range(sheet.axes) : a.id = id
      BY <1>2, <2>1, BlocksSound
    <2> QED BY <2>2 DEF C
  <1> HIDE DEF B, sheet, part
  <1>7. Len(B) \in Nat /\ DOMAIN B = 1..Len(B) /\ Len(share.kept) \in Nat
        /\ DOMAIN share.kept = 1..Len(share.kept) /\ IsList(L) /\ IsList(X)
    BY <1>5, ListFacts DEF DocInv, Records, LayoutLists
  <1>8. IsList(A) /\ DOMAIN A = DOMAIN share.kept
    <2>1. A = [k \in 1..Len(share.kept) |-> A[k]]
      BY <1>7
    <2> HIDE DEF A
    <2> QED BY <2>1, <1>7, FnIsList
  <1>9. IsList(M) /\ DOMAIN M = DOMAIN B
    <2>1. M = [b \in 1..Len(B) |-> M[b]]
      BY <1>7
    <2> HIDE DEF M
    <2> QED BY <2>1, <1>7, FnIsList
  <1>10. Range(X \o A) = Range(X) \cup Range(A)
    <2> HIDE DEF X, A
    <2> QED BY <1>7, <1>8, ConcatList
  <1>11. Range(L \o M) = Range(L) \cup Range(M)
    <2> HIDE DEF L, M
    <2> QED BY <1>7, <1>9, ConcatList
  <1>12. ASSUME NEW k \in DOMAIN share.kept
         PROVE  share.kept[k].axis \in Range(A) /\ share.kept[k].axis \in Range(sheet.axes)
    <2>1. A[k] = share.kept[k].axis
      OBVIOUS
    <2>2. A[k] \in Range(A)
      BY <1>8 DEF Range
    <2>3. PICK j \in 1..Len(sheet.axes) : share.kept[k].axis = sheet.axes[j]
      BY <1>3 DEF SharedTo, KeptTo
    <2>4. j \in DOMAIN sheet.axes
      BY <1>2, ListFacts DEF WellFormed
    <2>5. sheet.axes[j] \in Range(sheet.axes)
      BY <2>4 DEF Range
    <2> HIDE DEF A
    <2> QED BY <2>1, <2>2, <2>3, <2>5
  <1>13. \A a \in Range(A) : FromSheet(a, sheets)
    <2> SUFFICES ASSUME NEW k \in DOMAIN A PROVE FromSheet(A[k], sheets)
      BY DEF Range
    <2>1. A[k] = share.kept[k].axis /\ k \in DOMAIN share.kept
      BY <1>8
    <2> HIDE DEF A
    <2> QED BY <2>1, <1>4, <1>12 DEF FromSheet
  <1>14. ASSUME NEW b \in DOMAIN M PROVE BlockSound(M[b], X \o A, sheets)
    <2>1. DOMAIN B[b] = BlockFields /\ IsList(B[b].axis_ids) /\ b \in DOMAIN B
      BY <1>5, <1>9
    <2>2. M[b] = [B[b] EXCEPT !.axis_ids = mapped_ids(@, share.alias),
                              !.timeline_ids = mapped_ids(B[b].axis_ids, share.alias)]
      BY <2>1
    <2> HIDE DEF M, A, X
    <2>3. /\ M[b].axis_ids = mapped_ids(B[b].axis_ids, share.alias)
          /\ M[b].sheet = B[b].sheet /\ M[b].kind = B[b].kind /\ M[b].rows = B[b].rows
          /\ M[b].header_row = B[b].header_row
      BY <2>1, <2>2 DEF BlockFields
    <2>4. ASSUME NEW x \in Range(M[b].axis_ids)
          PROVE  Known(x, X \o A) /\ OnSheet(x, M[b].sheet, sheets)
      <3>1. PICK id \in Range(B[b].axis_ids) : x = Mapped(share.alias, id)
        BY <2>1, <2>3, <2>4, MappedRange
      <3>2. PICK a \in Range(sheet.axes) : a.id = id
        BY <2>1, <1>6
      <3>3. PICK j \in 1..Len(sheet.axes) : a = sheet.axes[j]
        <4>1. DOMAIN sheet.axes = 1..Len(sheet.axes)
          BY <1>2, ListFacts DEF WellFormed
        <4> QED BY <4>1 DEF Range
      <3>4. PICK k \in DOMAIN share.kept : Mapped(share.alias, a.id) = share.kept[k].axis.id
        BY <1>3, <3>3 DEF SharedTo, StandsIn
      <3>5. x = share.kept[k].axis.id
        BY <3>1, <3>2, <3>4
      <3>6. share.kept[k].axis \in Range(A) /\ share.kept[k].axis \in Range(sheet.axes)
        BY <1>12
      <3>7. Known(x, X \o A)
        BY <3>5, <3>6, <1>10 DEF Known
      <3>8. sheet \in Range(sheets) /\ M[b].sheet = sheet.name
        BY <1>4, <1>6, <2>1, <2>3, <3>6
      <3>9. OnSheet(x, M[b].sheet, sheets)
        BY <3>5, <3>6, <3>8 DEF OnSheet
      <3> QED BY <3>7, <3>9
    <2> QED BY <2>3, <2>4, <2>1, <1>6 DEF BlockSound
  <1>15. Sound(X \o A, L \o M, sheets)
    <2>1. Sound(X, L, sheets)
      BY DEF LayoutSound
    <2>2. \A b \in Range(M) : BlockSound(b, X \o A, sheets)
      <3> HIDE DEF A, M, X
      <3> QED BY <1>14 DEF Range
    <2> HIDE DEF A, M, X, L, sheets
    <2>3. \A b \in Range(L) : BlockSound(b, X \o A, sheets)
      BY <2>1, <1>10 DEF Sound, BlockSound, Known
    <2>4. \A a \in Range(X \o A) : FromSheet(a, sheets)
      BY <2>1, <1>10, <1>13 DEF Sound
    <2>5. \A b \in Range(L \o M) : BlockSound(b, X \o A, sheets)
      BY <2>2, <2>3, <1>11
    <2> QED BY <2>4, <2>5 DEF Sound
  <1>16. layout'.axes = X \o A /\ layout'.blocks = L \o M /\ book'.sheets = sheets
    BY <1>1
  <1> HIDE DEF A, M, X, L, sheets
  <1> QED BY <1>15, <1>16 DEF LayoutSound

\* An empty layout is sound.
LEMMA SoundInit == Init => LayoutSound
  <1> SUFFICES ASSUME Init PROVE LayoutSound
    OBVIOUS
  <1>1. layout.axes = <<>> /\ layout.blocks = <<>>
    BY DEF Init
  <1> QED BY <1>1, EmptyList DEF LayoutSound, Sound

\* Every step keeps the layout sound.
LEMMA SoundNext == DocInv /\ Sharing /\ LayoutSound /\ [Next]_vars => LayoutSound'
  <1> SUFFICES ASSUME DocInv, Sharing, LayoutSound, [Next]_vars PROVE LayoutSound'
    OBVIOUS
  <1>1. CASE ShareBlocks
    BY <1>1, SoundShareBlocks
  <1>2. CASE WriteTimelines
    <2> DEFINE L == layout.blocks
               M == Linked(L)
    <2>1. layout'.axes = layout.axes /\ layout'.blocks = M /\ UNCHANGED book
      BY <1>2 DEF WriteTimelines, DocInv, Records
    <2>2. \A b \in DOMAIN L : DOMAIN L[b] = BlockFields
      BY DEF DocInv, LayoutLists
    <2>3. ASSUME NEW b \in Range(M) PROVE BlockSound(b, layout.axes, book.sheets)
      <3> HIDE DEF L
      <3>1. PICK n \in DOMAIN M : b = M[n]
        BY DEF Range
      <3>2. n \in DOMAIN L
        BY DEF Linked
      <3>3. /\ M[n].axis_ids = L[n].axis_ids /\ M[n].sheet = L[n].sheet
            /\ M[n].kind = L[n].kind /\ M[n].rows = L[n].rows /\ M[n].header_row = L[n].header_row
        BY <2>2, <3>2 DEF BlockFields, Linked
      <3>4. BlockSound(L[n], layout.axes, book.sheets)
        BY <3>2 DEF LayoutSound, Sound, Range, L
      <3> QED BY <3>1, <3>3, <3>4 DEF BlockSound
    <2>4. Sound(layout.axes, M, book.sheets)
      BY <2>3 DEF LayoutSound, Sound
    <2> HIDE DEF M
    <2> QED BY <2>1, <2>4 DEF LayoutSound
  <1>3. CASE \/ Parse \/ WriteBatch \/ EndScan \/ ShareAxis \/ EndShare \/ LinkAxis
             \/ RelationCell \/ EndRelations \/ ReadCells \/ BuildAxes
    <2>1. UNCHANGED <<book, layout>>
      BY <1>3 DEF Parse, WriteBatch, EndScan, ShareAxis, EndShare, LinkAxis, RelationCell,
                  EndRelations, ReadCells, BuildAxes, inputs
    <2> QED BY <2>1 DEF LayoutSound
  <1>4. CASE \/ Open \/ StartBlock \/ WriteRow \/ EndBlock \/ Finish \/ Swap
             \/ PublishMarkdown \/ DropSidecars \/ GetObservations \/ Raise \/ Kill \/ Rebuild
    <2>1. UNCHANGED <<book, layout>>
      BY <1>4 DEF Open, StartBlock, WriteRow, EndBlock, Finish, Swap, PublishMarkdown,
                  DropSidecars, GetObservations, Raise, Kill, Rebuild, inputs
    <2> QED BY <2>1 DEF LayoutSound
  <1>5. CASE UNCHANGED vars
    BY <1>5 DEF LayoutSound, vars
  <1> QED BY <1>1, <1>2, <1>3, <1>4, <1>5 DEF Next

\* An axis a block names is on the block's sheet.
LEMMA BlockAxis ==
  ASSUME book \in Books, LayoutSound, NEW b \in Range(layout.blocks),
         NEW id \in Range(b.axis_ids), NEW a \in Range(layout.axes), a.id = id
  PROVE  a.sheet = b.sheet
  <1>1. PICK s \in Range(book.sheets) : a \in Range(s.axes)
    BY DEF LayoutSound, Sound, FromSheet
  <1>2. PICK t \in Range(book.sheets) : t.name = b.sheet /\ \E c \in Range(t.axes) : c.id = id
    BY DEF LayoutSound, Sound, BlockSound, OnSheet
  <1>3. PICK c \in Range(t.axes) : c.id = id
    BY <1>2
  <1>4. a = c
    BY <1>1, <1>3, BooksAssumption
  <1>5. c.sheet = t.name
    BY BooksAssumption DEF WellFormed
  <1> QED BY <1>2, <1>4, <1>5

(***************************************************************************)
(* Neighbours (row_adjacency)                                              *)
(***************************************************************************)

\* The pairs one formula adds to the neighbours.
Edges(c, keep) == row_adjacency_edge({}, c, keep)
NoPairs == {}
AllEdges(cells, keep) == UNION {Edges(c, keep) : c \in Range(cells)}

\* A formula adds its pairs to those found before.
LEMMA EdgeAdds ==
  ASSUME NEW found, NEW c, NEW keep
  PROVE  row_adjacency_edge(found, c, keep) = found \cup Edges(c, keep)
  BY DEF Edges, row_adjacency_edge

EdgeRunIs(r, cells, keep) ==
    /\ r \in [0..Len(cells) -> SUBSET AllEdges(cells, keep)]
    /\ r[0] = NoPairs
    /\ \A k \in 1..Len(cells) : r[k] = row_adjacency_edge(r[k - 1], cells[k], keep)

\* row_adjacency returns the last set of its loop.
LEMMA EdgeRun ==
  ASSUME NEW cells,
         IsList(cells),
         NEW keep
  PROVE  \E r : EdgeRunIs(r, cells, keep) /\ row_adjacency(cells, keep) = r[Len(cells)]
  <1> DEFINE n == Len(cells)
             T == SUBSET AllEdges(cells, keep)
             base == NoPairs
             Op(x, k) == row_adjacency_edge(x, cells[k], keep)
             step == [p \in T \X (1..n) |-> Op(p[1], p[2])]
             body(h) == [s \in SUBSET DOMAIN cells |->
                           IF s = {} THEN NoPairs
                           ELSE row_adjacency_edge(h[s \ {Max(s)}], cells[Max(s)], keep)]
             iter == CHOOSE h : h = body(h)
  <1>1. n \in Nat /\ DOMAIN cells = 1..n
    BY DEF IsList
  <1>2. base \in T /\ \A x \in T : \A k \in 1..n : Op(x, k) \in T
    <2>1. ASSUME NEW x \in T, NEW k \in 1..n PROVE Op(x, k) \in T
      <3>1. cells[k] \in Range(cells)
        BY <1>1 DEF Range
      <3>2. Edges(cells[k], keep) \subseteq AllEdges(cells, keep)
        BY <3>1 DEF AllEdges
      <3>3. Op(x, k) = x \cup Edges(cells[k], keep)
        BY EdgeAdds
      <3> QED BY <3>2, <3>3
    <2> QED BY <2>1 DEF NoPairs
  <1>3. step \in [T \X (1..n) -> T]
    <2> HIDE DEF T, Op
    <2> QED BY <1>2
  <1>4. PICK h : IsFold(h, n, T, base, step)
    <2> HIDE DEF n, T, base, step
    <2> QED BY <1>1, <1>2, <1>3, FoldExists
  <1>5. PICK r : IsRun(r, n, T, base, step)
    <2> HIDE DEF n, T, base, step
    <2> QED BY <1>1, <1>2, <1>3, RunExists
  <1>6. ASSUME NEW x \in T, NEW k \in 1..n
        PROVE  step[<<x, k>>] = Op(x, k)
    <2> HIDE DEF T, Op
    <2>1. <<x, k>> \in T \X (1..n) /\ <<x, k>>[1] = x /\ <<x, k>>[2] = k
      OBVIOUS
    <2> QED BY <2>1
  <1>7. h = body(h)
    <2>1. h = [s \in SUBSET (1..n) |-> h[s]]
      BY <1>4 DEF IsFold
    <2>2. ASSUME NEW s \in SUBSET (1..n)
          PROVE  h[s] = IF s = {} THEN base ELSE Op(h[s \ {Max(s)}], Max(s))
      <3>1. CASE s = {}
        BY <3>1, <1>4 DEF IsFold
      <3>2. CASE s # {}
        <4>1. Max(s) \in s
          <5>1. \E x \in s : \A y \in s : x >= y
            BY <3>2, <1>1, SetMax
          <5> QED BY <5>1 DEF Max
        <4>2. Max(s) \in 1..n /\ s \ {Max(s)} \in SUBSET (1..n)
          BY <4>1
        <4>3. h[s \ {Max(s)}] \in T /\ h[s] = step[<<h[s \ {Max(s)}], Max(s)>>]
          <5> HIDE DEF T, step, base, n
          <5> QED BY <4>2, <3>2, <1>4 DEF IsFold
        <4> HIDE DEF T, Op, step
        <4> QED BY <4>2, <4>3, <1>6, <3>2
      <3> QED BY <3>1, <3>2
    <2> HIDE DEF n
    <2> QED BY <2>1, <2>2, <1>1
  <1>8. iter = body(iter)
    <2> HIDE DEF body
    <2> QED BY <1>7
  <1>9. row_adjacency(cells, keep) = iter[1..n]
    <2>1. row_adjacency(cells, keep) = iter[DOMAIN cells]
      BY DEF NoPairs, row_adjacency, FoldLeft, MapThenFoldSet
    <2> HIDE DEF iter, n
    <2> QED BY <2>1, <1>1
  <1>10. /\ r \in [0..n -> T] /\ r[0] = base
         /\ \A k \in 1..n : r[k] = Op(r[k - 1], k)
    <2>1. /\ r \in [0..n -> T] /\ r[0] = base
          /\ \A k \in 1..n : r[k] = step[<<r[k - 1], k>>]
      BY <1>5 DEF IsRun
    <2>2. ASSUME NEW k \in 1..n PROVE r[k] = Op(r[k - 1], k)
      <3>1. r[k - 1] \in T
        BY <2>1, <1>1
      <3> HIDE DEF T, Op, step, n
      <3> QED BY <2>1, <3>1, <1>6
    <2> QED BY <2>1, <2>2
  <1>11. \A k \in 0..n : iter[1..k] = r[k]
    <2> DEFINE P == {k \in 0..n : iter[1..k] = r[k]}
    <2>1. 0 \in P
      <3>1. {} \in SUBSET DOMAIN cells /\ 1..0 = {}
        OBVIOUS
      <3>2. iter[{}] = base
        <4> HIDE DEF iter
        <4> QED BY <3>1, <1>8
      <3> HIDE DEF iter
      <3> QED BY <3>1, <3>2, <1>10, <1>1
    <2>2. ASSUME NEW k \in 0..(n - 1), k \in P PROVE k + 1 \in P
      <3>1. /\ 1..(k + 1) \in SUBSET DOMAIN cells /\ 1..(k + 1) # {}
            /\ Max(1..(k + 1)) = k + 1 /\ (1..(k + 1)) \ {k + 1} = 1..k
        BY <1>1, MaxSegment
      <3>2. iter[1..(k + 1)] = Op(iter[1..k], k + 1)
        <4> HIDE DEF iter
        <4> QED BY <3>1, <1>8
      <3>3. iter[1..k] = r[k] /\ r[k + 1] = Op(r[k], k + 1) /\ k + 1 \in 0..n
        BY <2>2, <1>10, <1>1
      <3> HIDE DEF iter, Op
      <3> QED BY <3>2, <3>3
    <2> HIDE DEF P
    <2>3. \A k \in 0..n : k \in P
      BY <2>1, <2>2, <1>1, UpTo
    <2> QED BY <2>3 DEF P
  <1>12. row_adjacency(cells, keep) = r[n]
    <2>1. n \in 0..n
      BY <1>1
    <2> HIDE DEF iter, n
    <2> QED BY <2>1, <1>9, <1>11
  <1> HIDE DEF iter, body, step
  <1>13. EdgeRunIs(r, cells, keep)
    BY <1>10 DEF EdgeRunIs
  <1> QED BY <1>12, <1>13

\* row_adjacency returns the pairs of all formulas, in whatever order they come.
LEMMA AdjacencyIs ==
  ASSUME NEW cells, IsList(cells), NEW keep
  PROVE  row_adjacency(cells, keep) = AllEdges(cells, keep)
  <1> DEFINE n == Len(cells)
             e(k) == Edges(cells[k], keep)
             Up(k) == UNION {e(j) : j \in 1..k}
  <1>1. n \in Nat /\ DOMAIN cells = 1..n
    BY ListFacts
  <1>2. PICK r : EdgeRunIs(r, cells, keep) /\ row_adjacency(cells, keep) = r[n]
    BY EdgeRun
  <1>3. r[0] = {} /\ \A k \in 1..n : r[k] = r[k - 1] \cup e(k)
    BY <1>2, EdgeAdds DEF EdgeRunIs, NoPairs
  <1> DEFINE P == {k \in 0..n : r[k] = Up(k)}
  <1> HIDE DEF e
  <1>4. 0 \in P
    <2>1. 1..0 = {}
      OBVIOUS
    <2> QED BY <2>1, <1>1, <1>3
  <1>5. ASSUME NEW k \in 0..(n - 1), k \in P PROVE k + 1 \in P
    <2>1. r[k + 1] = r[k] \cup e(k + 1) /\ k + 1 \in 0..n
      BY <1>1, <1>3
    <2>2. 1..(k + 1) = (1..k) \cup {k + 1}
      BY <1>1
    <2>3. Up(k + 1) = Up(k) \cup e(k + 1)
      BY <2>2
    <2> QED BY <1>5, <2>1, <2>3
  <1>6. \A k \in 0..n : k \in P
    <2> HIDE DEF P
    <2> QED BY <1>1, <1>4, <1>5, UpTo
  <1>7. r[n] = Up(n)
    BY <1>1, <1>6
  <1>8. Up(n) = AllEdges(cells, keep)
    BY <1>1 DEF AllEdges, Range, e
  <1> QED BY <1>2, <1>7, <1>8

\* The pairs a formula adds for a row that is kept.
LEMMA EdgesFrom ==
  ASSUME NEW c, NEW keep, NEW s \in keep, NEW t
  PROVE  <<s, t>> \in Edges(c, keep) <=>
            /\ ~IsNode(c) /\ s # t
            /\ (<<c.sheet, c.row>> = s /\ t \in Targets(c)) \/ (<<c.sheet, c.row>> = t /\ s \in Targets(c))
  <1> DEFINE me == <<c.sheet, c.row>>
             G == Targets(c)
             one == {p \in {me} \X G : p[1] # p[2] /\ p[1] \in keep}
             two == {p \in G \X {me} : p[1] # p[2] /\ p[1] \in keep}
  <1>1. Edges(c, keep) = IF IsNode(c) THEN {} ELSE {} \cup one \cup two
    BY DEF Edges, row_adjacency_edge
  <1> HIDE DEF me, G
  <1>2. <<s, t>>[1] = s /\ <<s, t>>[2] = t
    OBVIOUS
  <1>3. <<s, t>> \in one <=> s = me /\ t \in G /\ s # t
    BY <1>2
  <1>4. <<s, t>> \in two <=> t = me /\ s \in G /\ s # t
    BY <1>2
  <1> HIDE DEF one, two
  <1>5. (<<s, t>> \in Edges(c, keep)) <=> (~IsNode(c) /\ (<<s, t>> \in one \/ <<s, t>> \in two))
    BY <1>1
  <1> QED BY <1>3, <1>4, <1>5 DEF me, G

\* The pairs are pairs.
LEMMA EdgesPairs ==
  ASSUME NEW c, NEW keep, NEW p \in Edges(c, keep)
  PROVE  p = <<p[1], p[2]>>
  <1> DEFINE me == <<c.sheet, c.row>>
             G == Targets(c)
  <1>1. ~IsNode(c) /\ p \in ({me} \X G) \cup (G \X {me})
    BY DEF Edges, row_adjacency_edge
  <1> HIDE DEF me, G
  <1> QED BY <1>1

\* The rows a published row is joined to.
Reads(E, s) == UNION {Targets(c) : c \in {d \in E : <<d.sheet, d.row>> = s}}
ReadBy(E, s) == {<<c.sheet, c.row>> : c \in {d \in E : s \in Targets(d)}}

FormulaAt(cells) == {k \in DOMAIN cells : cells[k].call # ""}
ExpandedOf(cells) == {c \in Range(cells) : c.call # "" /\ ~IsNode(c)}
JoinedTo(P, s) == {p[2] : p \in {q \in P : q[1] = s}}

\* The neighbours of a kept row, from the formulas alone.
LEMMA NeighborsFound ==
  ASSUME NEW cells, IsList(cells), NEW keep, NEW s \in keep,
         NEW P, P = row_adjacency(Picked(cells, FormulaAt(cells)), keep)
  PROVE  JoinedTo(P, s)
           = (Reads(ExpandedOf(cells), s) \cup ReadBy(ExpandedOf(cells), s)) \ {s}
  <1> DEFINE E == ExpandedOf(cells)
             K == {k \in DOMAIN cells : cells[k].call # ""}
             F == Picked(cells, K)
  <1>1. IsList(F) /\ Range(F) = {c \in Range(cells) : c.call # ""}
    <2>1. IsList(F)
      BY PickedList
    <2>2. Range(F) = {cells[k] : k \in {j \in DOMAIN cells : j \in K}}
      <3> HIDE DEF K
      <3> QED BY PickedRange
    <2>3. {cells[k] : k \in {j \in DOMAIN cells : j \in K}} = {c \in Range(cells) : c.call # ""}
      BY DEF Range
    <2> QED BY <2>1, <2>2, <2>3
  <1>2. P = row_adjacency(F, keep)
    BY DEF FormulaAt
  <1> HIDE DEF F, K, E
  <1>3. P = UNION {Edges(c, keep) : c \in Range(F)}
    BY <1>1, <1>2, AdjacencyIs DEF AllEdges
  <1>4. ASSUME NEW t
        PROVE  <<s, t>> \in P <=> t \in (Reads(E, s) \cup ReadBy(E, s)) \ {s}
    <2>1. <<s, t>> \in P <=> \E c \in Range(F) : <<s, t>> \in Edges(c, keep)
      BY <1>3
    <2>2. \A c \in Range(F) : <<s, t>> \in Edges(c, keep) <=>
            /\ ~IsNode(c) /\ s # t
            /\ ((<<c.sheet, c.row>> = s /\ t \in Targets(c))
                \/ (<<c.sheet, c.row>> = t /\ s \in Targets(c)))
      BY EdgesFrom
    <2>3. \A c : (c \in Range(F) /\ ~IsNode(c)) <=> c \in E
      BY <1>1 DEF ExpandedOf, E
    <2>4. <<s, t>> \in P <=>
            /\ s # t
            /\ \E c \in E : (<<c.sheet, c.row>> = s /\ t \in Targets(c))
                            \/ (<<c.sheet, c.row>> = t /\ s \in Targets(c))
      BY <2>1, <2>2, <2>3
    <2>5. t \in Reads(E, s) <=> \E c \in E : <<c.sheet, c.row>> = s /\ t \in Targets(c)
      BY DEF Reads
    <2>6. t \in ReadBy(E, s) <=> \E c \in E : <<c.sheet, c.row>> = t /\ s \in Targets(c)
      BY DEF ReadBy

    <2> QED BY <2>4, <2>5, <2>6
  <1>5. \A p \in P : p = <<p[1], p[2]>>
    <2> SUFFICES ASSUME NEW p \in P PROVE p = <<p[1], p[2]>>
      OBVIOUS
    <2>1. PICK c \in Range(F) : p \in Edges(c, keep)
      BY <1>3
    <2> QED BY <2>1, EdgesPairs
  <1>6. ASSUME NEW t
        PROVE  t \in {p[2] : p \in {q \in P : q[1] = s}} <=> <<s, t>> \in P
    <2>1. <<s, t>>[1] = s /\ <<s, t>>[2] = t
      OBVIOUS
    <2>2. ASSUME NEW p \in P, p[1] = s, p[2] = t PROVE <<s, t>> \in P
      BY <2>2, <1>5
    <2> QED BY <2>1, <2>2
  <1>7. JoinedTo(P, s) = (Reads(E, s) \cup ReadBy(E, s)) \ {s}
    BY <1>4, <1>6 DEF JoinedTo
  <1> QED BY <1>7 DEF E

\* A cell without its cached value.
Strip(c) == [c EXCEPT !.value = "", !.missing = TRUE]

\* Without its cached value a cell has the same address and the same formula.
LEMMA StripIs ==
  ASSUME NEW c, DOMAIN c = DOMAIN NoCell, NEW names
  PROVE  /\ DOMAIN Strip(c) = DOMAIN NoCell /\ Strip(c).sheet = c.sheet /\ Strip(c).row = c.row
         /\ Strip(c).col = c.col /\ Strip(c).call = c.call /\ Strip(c).args = c.args
         /\ Strip(c).value = "" /\ switch_args(Strip(c), names) = switch_args(c, names)
  <1>1. DOMAIN c = {"sheet", "row", "col", "call", "args", "tpl", "value", "missing", "fmt", "unparsed"}
    BY DEF NoCell
  <1>2. /\ DOMAIN Strip(c) = DOMAIN NoCell /\ Strip(c).sheet = c.sheet /\ Strip(c).row = c.row
        /\ Strip(c).col = c.col /\ Strip(c).call = c.call /\ Strip(c).args = c.args
        /\ Strip(c).value = ""
    BY <1>1 DEF Strip
  <1>3. switch_args(Strip(c), names) = switch_args(c, names)
    <2> DEFINE d == Strip(c)
    <2>1. d.call = c.call /\ d.args = c.args /\ d.sheet = c.sheet
      BY <1>2
    <2> HIDE DEF d
    <2>2. switch_args(d, names) = switch_args(c, names)
      BY <2>1 DEF switch_args
    <2> QED BY <2>2 DEF d
  <1> QED BY <1>2, <1>3

\* The candidates of a set of cells of one sheet.
Wanted(S, names) == UNION {switch_args(c, names) : c \in S}
Constant(S, name, place) == \E c \in S : IsAt(c, name, place[1], place[2]) /\ c.call = ""
Readers(S, place, names) == {c.row : c \in {d \in S : place \in switch_args(d, names)}}
CandidatesOf(S, name, names) ==
    {place[1] : place \in {a \in Wanted(S, names) :
        Constant(S, name, a) /\ Cardinality(Readers(S, a, names) \ {a[1]}) >= 2}}

OneSheet(table, name) ==
    IsList(table) /\ Addressed(table) /\ \A c \in Range(table) : c.sheet = name

\* Whether an address holds a constant, as a lookup and as a set.
LEMMA ConstantIs ==
  ASSUME NEW table, NEW name, OneSheet(table, name), NEW place
  PROVE  (/\ cell_at(table, name, place[1], place[2]) # NoCell
          /\ cell_at(table, name, place[1], place[2]).call = "")
         <=> Constant(Range(table), name, place)
  <1> DEFINE x == cell_at(table, name, place[1], place[2])
  <1>0. IsList(table) /\ Addressed(table)
    BY DEF OneSheet
  <1>1. CASE \E c \in Range(table) : IsAt(c, name, place[1], place[2])
    <2>1. x \in Range(table) /\ IsAt(x, name, place[1], place[2])
      BY <1>0, <1>1, CellAtSome
    <2> HIDE DEF x
    <2>2. x.row # 0
      BY <1>0, <2>1 DEF Addressed
    <2>3. x # NoCell
      <3>1. NoCell.row = 0
        BY DEF NoCell
      <3> QED BY <2>2, <3>1
    <2>4. \A c \in Range(table) : IsAt(c, name, place[1], place[2]) => c = x
      BY <1>0, <2>1 DEF Addressed, IsAt
    <2>5. (x # NoCell /\ x.call = "") <=> Constant(Range(table), name, place)
      BY <2>1, <2>3, <2>4 DEF Constant
    <2> QED BY <2>5 DEF x
  <1>2. CASE ~(\E c \in Range(table) : IsAt(c, name, place[1], place[2]))
    <2>1. x = NoCell
      BY <1>2, CellAtNone
    <2> HIDE DEF x
    <2>2. ~Constant(Range(table), name, place)
      BY <1>2 DEF Constant
    <2>3. (x # NoCell /\ x.call = "") <=> Constant(Range(table), name, place)
      BY <2>1, <2>2
    <2> QED BY <2>3 DEF x
  <1> QED BY <1>1, <1>2

\* The candidates of a table depend on the set of its cells only.
LEMMA CandidatesIs ==
  ASSUME NEW table, NEW name, OneSheet(table, name), NEW names
  PROVE  Candidates(table, names) = CandidatesOf(Range(table), name, names)
  <1> DEFINE S == Range(table)
             R == UNION {switch_args(c, names) : c \in S}
             target(place) == cell_at(table, table[1].sheet, place[1], place[2])
             const(place) == target(place) # NoCell /\ target(place).call = ""
             readers(place) == {c.row : c \in {d \in S : place \in switch_args(d, names)}}
             A == {a \in R : const(a) /\ Cardinality(readers(a) \ {a[1]}) >= 2}
             B == {a \in R : Constant(S, name, a) /\ Cardinality(readers(a) \ {a[1]}) >= 2}
  <1>1. Candidates(table, names) = {place[1] : place \in A}
    BY DEF Candidates
  <1>2. CandidatesOf(S, name, names) = {place[1] : place \in B}
    BY DEF CandidatesOf, Wanted, Readers
  <1>3. ASSUME NEW a \in R PROVE const(a) <=> Constant(S, name, a)
    <2>1. PICK c \in S : a \in switch_args(c, names)
      OBVIOUS
    <2>2. 1 \in DOMAIN table
      <3>1. Len(table) \in Nat /\ DOMAIN table = 1..Len(table) /\ DOMAIN table # {}
        BY <2>1, ListFacts DEF OneSheet, Range
      <3> QED BY <3>1
    <2>3. table[1].sheet = name
      BY <2>2 DEF OneSheet, Range
    <2>4. target(a) = cell_at(table, name, a[1], a[2])
      BY <2>3
    <2>5. (cell_at(table, name, a[1], a[2]) # NoCell /\ cell_at(table, name, a[1], a[2]).call = "")
            <=> Constant(Range(table), name, a)
      BY ConstantIs
    <2> HIDE DEF target
    <2> QED BY <2>4, <2>5
  <1>4. A = B
    <2> HIDE DEF R, const, readers
    <2> QED BY <1>3
  <1> HIDE DEF A, B
  <1> QED BY <1>1, <1>2, <1>4

(***************************************************************************)
(* Selector rows (_switch_rows)                                            *)
(***************************************************************************)

\* The elements of a list that are in a set.
LEMMA PickedWhere ==
  ASSUME NEW cells, IsList(cells), NEW S, NEW K, K = {k \in DOMAIN cells : cells[k] \in S}
  PROVE  IsList(Picked(cells, K)) /\ Range(Picked(cells, K)) = {c \in Range(cells) : c \in S}
  <1>1. IsList(Picked(cells, K))
    BY PickedList
  <1>2. Range(Picked(cells, K)) = {cells[k] : k \in {j \in DOMAIN cells : j \in K}}
    BY PickedRange
  <1>3. {cells[k] : k \in {j \in DOMAIN cells : j \in K}} = {c \in Range(cells) : c \in S}
    BY DEF Range
  <1> QED BY <1>1, <1>2, <1>3

\* The cells of a sheet, and those of them that are read back.
CellsOn(cells, name) == {c \in Range(cells) : c.sheet = name}
Fetched(S, names) ==
    {c \in S : switch_args(c, names) # {} \/ <<c.row, c.col>> \in Wanted(S, names)}

\* The cells of one sheet.
LEMMA WholeIs ==
  ASSUME NEW cells, IsList(cells), Addressed(cells), NEW name,
         NEW whole, whole = Picked(cells, {k \in DOMAIN cells : cells[k].sheet = name})
  PROVE  OneSheet(whole, name) /\ Range(whole) = CellsOn(cells, name)
  <1> DEFINE S == CellsOn(cells, name)
             K == {k \in DOMAIN cells : cells[k] \in S}
  <1>1. whole = Picked(cells, K)
    <2>1. K = {k \in DOMAIN cells : cells[k].sheet = name}
      BY DEF CellsOn, Range
    <2> QED BY <2>1
  <1>2. IsList(whole) /\ Range(whole) = {c \in Range(cells) : c \in S}
    <2> HIDE DEF S
    <2>1. K = {k \in DOMAIN cells : cells[k] \in S}
      OBVIOUS
    <2> HIDE DEF K
    <2>2. IsList(Picked(cells, K)) /\ Range(Picked(cells, K)) = {c \in Range(cells) : c \in S}
      BY <2>1, PickedWhere
    <2> QED BY <1>1, <2>2
  <1>3. Range(whole) = S
    BY <1>2 DEF CellsOn
  <1>4. Addressed(whole) /\ \A c \in Range(whole) : c.sheet = name
    BY <1>3 DEF Addressed, CellsOn
  <1> QED BY <1>2, <1>3, <1>4 DEF OneSheet

\* The cells _switch_rows fetches: of one sheet, with distinct addresses, without
\* values.
LEMMA PartIs ==
  ASSUME NEW cells, IsList(cells), Addressed(cells), NEW name, NEW names,
         NEW part, part = switch_table(cells, name, names)
  PROVE  OneSheet(part, name)
         /\ Range(part) = {Strip(c) : c \in Fetched(CellsOn(cells, name), names)}
  <1> DEFINE S == CellsOn(cells, name)
             S1 == {c \in S : switch_args(c, names) # {}}
             K1 == {k \in DOMAIN cells : cells[k] \in S1}
             calls == Picked(cells, K1)
             wanted == UNION {switch_args(c, names) : c \in Range(calls)}
             S2 == {c \in S : <<c.row, c.col>> \in wanted /\ switch_args(c, names) = {}}
             K2 == {k \in DOMAIN cells : cells[k] \in S2}
             named == Picked(cells, K2)
             both == calls \o named
  <1>1. part = [k \in DOMAIN both |-> Strip(both[k])]
    <2>1. K1 = {k \in DOMAIN cells : cells[k].sheet = name /\ switch_args(cells[k], names) # {}}
      BY DEF CellsOn, Range
    <2> HIDE DEF K1
    <2>2. K2 = {k \in DOMAIN cells : /\ cells[k].sheet = name
                                     /\ <<cells[k].row, cells[k].col>> \in wanted
                                     /\ switch_args(cells[k], names) = {}}
      <3> HIDE DEF wanted
      <3> QED BY DEF CellsOn, Range
    <2> HIDE DEF K2
    <2> QED BY <2>1, <2>2 DEF switch_table, Select, Strip
  <1>2. IsList(calls) /\ Range(calls) = S1
    <2>1. IsList(calls) /\ Range(calls) = {c \in Range(cells) : c \in S1}
      <3> HIDE DEF S1
      <3> QED BY PickedWhere
    <2>2. S1 \subseteq Range(cells)
      BY DEF CellsOn
    <2> HIDE DEF S1, calls
    <2> QED BY <2>1, <2>2
  <1>3. IsList(named) /\ Range(named) = S2
    <2>1. IsList(named) /\ Range(named) = {c \in Range(cells) : c \in S2}
      <3> HIDE DEF S2
      <3> QED BY PickedWhere
    <2>2. S2 \subseteq Range(cells)
      <3> HIDE DEF wanted
      <3> QED BY DEF CellsOn
    <2> HIDE DEF S2, named
    <2> QED BY <2>1, <2>2
  <1>4. wanted = Wanted(S, names)
    <2> HIDE DEF calls, S
    <2> QED BY <1>2 DEF Wanted
  <1>5. S1 \cup S2 = Fetched(S, names)
    <2> HIDE DEF wanted, S
    <2> QED BY <1>4 DEF Fetched
  <1> HIDE DEF calls, named, S1, S2
  <1>6. IsList(both) /\ Range(both) = Fetched(S, names)
    BY <1>2, <1>3, <1>5, ConcatList
  <1> HIDE DEF both
  <1>7. IsList(part) /\ DOMAIN part = DOMAIN both
    <2>1. Len(both) \in Nat /\ DOMAIN both = 1..Len(both)
      BY <1>6, ListFacts
    <2>2. part = [k \in 1..Len(both) |-> part[k]]
      BY <1>1, <2>1
    <2> QED BY <1>1, <2>1, <2>2, FnIsList
  <1>8. Range(part) = {Strip(c) : c \in Fetched(S, names)}
    <2>1. Range(part) = {Strip(c) : c \in Range(both)}
      BY <1>1 DEF Range
    <2> QED BY <2>1, <1>6
  <1>9. ASSUME NEW d \in Range(part)
        PROVE  /\ DOMAIN d = DOMAIN NoCell /\ d.row \in Nat \ {0} /\ d.sheet = name
               /\ \E c \in S : d = Strip(c) /\ c.row = d.row /\ c.col = d.col /\ c.sheet = d.sheet
    <2>1. PICK c \in S : d = Strip(c)
      BY <1>8 DEF Fetched
    <2>2. DOMAIN c = DOMAIN NoCell /\ c.row \in Nat \ {0} /\ c.sheet = name
      BY DEF CellsOn, Addressed
    <2>3. DOMAIN Strip(c) = DOMAIN NoCell /\ Strip(c).sheet = c.sheet /\ Strip(c).row = c.row
          /\ Strip(c).col = c.col
      BY <2>2, StripIs
    <2> QED BY <2>1, <2>2, <2>3
  <1>10. ASSUME NEW d \in Range(part), NEW e \in Range(part),
                d.sheet = e.sheet, d.row = e.row, d.col = e.col
         PROVE  d = e
    <2>1. PICK c \in S : d = Strip(c) /\ c.row = d.row /\ c.col = d.col /\ c.sheet = d.sheet
      BY <1>9
    <2>2. PICK b \in S : e = Strip(b) /\ b.row = e.row /\ b.col = e.col /\ b.sheet = e.sheet
      BY <1>9
    <2>3. c = b
      BY <2>1, <2>2, <1>10 DEF CellsOn, Addressed
    <2> QED BY <2>1, <2>2, <2>3
  <1>11. Addressed(part)
    BY <1>9, <1>10 DEF Addressed
  <1> QED BY <1>7, <1>8, <1>9, <1>11 DEF OneSheet

\* A selecting argument is an address.
LEMMA SwitchArgsPairs ==
  ASSUME NEW c, NEW names, NEW x \in switch_args(c, names)
  PROVE  x = <<x[1], x[2]>>
  <1> DEFINE from == IF c.call = "CHOOSE" THEN 1 ELSE 2
             picked == {c.args[k] : k \in {j \in DOMAIN c.args : j >= from}}
             one == {<<a.row, a.col>> : a \in {b \in picked : b.name = "" /\ b.sheet = c.sheet}}
             two == UNION {NamedCell(names, c.sheet, a.name) : a \in {b \in picked : b.name # ""}}
  <1>1. x \in one \/ x \in two
    <2> HIDE DEF picked
    <2>1. switch_args(c, names) = IF c.call \notin SwitchCalls THEN {} ELSE one \cup two
      BY DEF switch_args, picked
    <2> HIDE DEF one, two
    <2> QED BY <2>1
  <1> HIDE DEF picked
  <1>2. CASE x \in one
    <2>1. PICK a \in picked : x = <<a.row, a.col>>
      BY <1>2
    <2> DEFINE u == a.row
               v == a.col
    <2>2. x = <<u, v>>
      BY <2>1
    <2> HIDE DEF u, v
    <2> QED BY <2>2
  <1>3. CASE x \in two
    <2>1. PICK name : x \in NamedCell(names, c.sheet, name)
      BY <1>3
    <2>2. PICK n : x = <<n.row, n.col>>
      BY <2>1 DEF NamedCell
    <2> DEFINE u == n.row
               v == n.col
    <2>3. x = <<u, v>>
      BY <2>2
    <2> HIDE DEF u, v
    <2> QED BY <2>3
  <1> QED BY <1>1, <1>2, <1>3

\* The part has the candidates of the sheet.
LEMMA SameCandidates ==
  ASSUME NEW S, NEW name, NEW names, \A c \in S : DOMAIN c = DOMAIN NoCell,
         NEW Q, Q = {Strip(c) : c \in Fetched(S, names)}
  PROVE  CandidatesOf(Q, name, names) = CandidatesOf(S, name, names)
  <1>1. ASSUME NEW d \in Q
        PROVE \E c \in S : d = Strip(c) /\ d.sheet = c.sheet /\ d.row = c.row /\ d.col = c.col
                           /\ d.call = c.call /\ switch_args(d, names) = switch_args(c, names)
    <2>1. PICK c \in S : d = Strip(c)
      BY DEF Fetched
    <2> QED BY <2>1, StripIs
  <1>2. ASSUME NEW c \in S,
               switch_args(c, names) # {} \/ <<c.row, c.col>> \in Wanted(S, names)
        PROVE  \E d \in Q : /\ d.sheet = c.sheet /\ d.row = c.row /\ d.col = c.col
                            /\ d.call = c.call /\ switch_args(d, names) = switch_args(c, names)
    <2>1. Strip(c) \in Q
      BY <1>2 DEF Fetched
    <2> QED BY <2>1, StripIs
  <1>3. Wanted(Q, names) = Wanted(S, names)
    <2>1. ASSUME NEW x \in Wanted(Q, names) PROVE x \in Wanted(S, names)
      BY <2>1, <1>1 DEF Wanted
    <2>2. ASSUME NEW x \in Wanted(S, names) PROVE x \in Wanted(Q, names)
      <3>1. PICK c \in S : x \in switch_args(c, names)
        BY DEF Wanted
      <3>2. PICK d \in Q : switch_args(d, names) = switch_args(c, names)
        BY <3>1, <1>2
      <3> QED BY <3>1, <3>2 DEF Wanted
    <2> QED BY <2>1, <2>2
  <1>4. ASSUME NEW x PROVE Readers(Q, x, names) = Readers(S, x, names)
    <2>1. ASSUME NEW r \in Readers(Q, x, names) PROVE r \in Readers(S, x, names)
      <3>1. PICK d \in Q : x \in switch_args(d, names) /\ r = d.row
        BY DEF Readers
      <3>2. PICK c \in S : c.row = d.row /\ switch_args(d, names) = switch_args(c, names)
        BY <1>1
      <3> QED BY <3>1, <3>2 DEF Readers
    <2>2. ASSUME NEW r \in Readers(S, x, names) PROVE r \in Readers(Q, x, names)
      <3>1. PICK c \in S : x \in switch_args(c, names) /\ r = c.row
        BY DEF Readers
      <3>2. PICK d \in Q : c.row = d.row /\ switch_args(d, names) = switch_args(c, names)
        BY <3>1, <1>2
      <3> QED BY <3>1, <3>2 DEF Readers
    <2> QED BY <2>1, <2>2
  <1>5. ASSUME NEW x \in Wanted(S, names) PROVE Constant(Q, name, x) <=> Constant(S, name, x)
    <2>1. ASSUME Constant(Q, name, x) PROVE Constant(S, name, x)
      <3>1. PICK d \in Q : IsAt(d, name, x[1], x[2]) /\ d.call = ""
        BY <2>1 DEF Constant
      <3>2. PICK c \in S : d.sheet = c.sheet /\ d.row = c.row /\ d.col = c.col /\ d.call = c.call
        BY <1>1
      <3> QED BY <3>1, <3>2 DEF Constant, IsAt
    <2>2. ASSUME Constant(S, name, x) PROVE Constant(Q, name, x)
      <3>1. PICK c \in S : IsAt(c, name, x[1], x[2]) /\ c.call = ""
        BY <2>2 DEF Constant
      <3>2. x = <<x[1], x[2]>>
        <4>1. PICK e \in S : x \in switch_args(e, names)
          BY DEF Wanted
        <4> QED BY <4>1, SwitchArgsPairs
      <3>3. <<c.row, c.col>> \in Wanted(S, names)
        <4>1. c.row = x[1] /\ c.col = x[2]
          BY <3>1 DEF IsAt
        <4>2. <<c.row, c.col>> = x
          BY <4>1, <3>2
        <4> QED BY <4>2
      <3>4. PICK d \in Q : d.sheet = c.sheet /\ d.row = c.row /\ d.col = c.col /\ d.call = c.call
        BY <3>3, <1>2
      <3> QED BY <3>1, <3>4 DEF Constant, IsAt
    <2> QED BY <2>1, <2>2
  <1> DEFINE Good(X, x) == Constant(X, name, x) /\ Cardinality(Readers(X, x, names) \ {x[1]}) >= 2
  <1>6. \A x \in Wanted(S, names) : Good(Q, x) <=> Good(S, x)
    <2> SUFFICES ASSUME NEW x \in Wanted(S, names) PROVE Good(Q, x) <=> Good(S, x)
      OBVIOUS
    <2>1. Readers(Q, x, names) = Readers(S, x, names)
      BY <1>4
    <2> QED BY <2>1, <1>5
  <1>7. {a \in Wanted(Q, names) : Good(Q, a)} = {a \in Wanted(S, names) : Good(S, a)}
    <2> HIDE DEF Good
    <2> QED BY <1>3, <1>6
  <1> QED BY <1>7 DEF CandidatesOf

\* The selectors found in the part contain those of the sheet.
LEMMA SwitchesSuffice ==
  ASSUME NEW cells, IsList(cells), Addressed(cells), NEW name, NEW names,
         NEW whole, whole = Picked(cells, {k \in DOMAIN cells : cells[k].sheet = name}),
         NEW part, part = switch_table(cells, name, names)
  PROVE  /\ Candidates(part, names) = Candidates(whole, names)
         /\ selector_rows(whole, Candidates(whole, names))
              \subseteq selector_rows(part, Candidates(part, names))
  <1> DEFINE S == CellsOn(cells, name)
             C == Candidates(whole, names)
  <1>1. OneSheet(whole, name) /\ Range(whole) = S
    BY WholeIs
  <1>2. OneSheet(part, name) /\ Range(part) = {Strip(c) : c \in Fetched(S, names)}
    BY PartIs
  <1>3. \A c \in S : DOMAIN c = DOMAIN NoCell
    BY DEF CellsOn, Addressed
  <1> HIDE DEF S
  <1>4. CandidatesOf(Range(part), name, names) = CandidatesOf(S, name, names)
    BY <1>2, <1>3, SameCandidates
  <1>5. Candidates(part, names) = CandidatesOf(Range(part), name, names)
    BY <1>2, CandidatesIs
  <1>6. C = CandidatesOf(Range(whole), name, names)
    BY <1>1, CandidatesIs
  <1> HIDE DEF C
  <1>7. Candidates(part, names) = C
    BY <1>1, <1>4, <1>5, <1>6
  <1>8. selector_rows(whole, C) \subseteq C
    BY DEF selector_rows
  <1>9. \A d \in Range(part) : d.value = ""
    <2> SUFFICES ASSUME NEW d \in Range(part) PROVE d.value = ""
      OBVIOUS
    <2>1. PICK c \in S : d = Strip(c)
      BY <1>2 DEF Fetched
    <2> QED BY <2>1, <1>3, StripIs
  <1>10. \A r : LeftText(part, r) = ""
    <2> SUFFICES ASSUME NEW r PROVE LeftText(part, r) = ""
      OBVIOUS
    <2>1. {c \in Range(part) : c.row = r /\ c.value # ""} = {}
      BY <1>9
    <2> QED BY <2>1 DEF LeftText
  <1>11. selector_rows(part, C) = C
    <2> DEFINE L == {r \in C : LeftText(part, r) \in SelectorLabels}
    <2>1. L = {} \/ L = C
      BY <1>10
    <2>2. selector_rows(part, C) = IF Cardinality(C) < 2 \/ L = {} THEN C ELSE L
      BY DEF selector_rows
    <2> HIDE DEF L
    <2> QED BY <2>1, <2>2
  <1>12. selector_rows(whole, C) \subseteq selector_rows(part, C)
    BY <1>8, <1>11
  <1> QED BY <1>7, <1>12 DEF C

(***************************************************************************)
(* Header rows and flag rows (_axis_cell_rows)                             *)
(***************************************************************************)

\* An axis is published from the cells of its flag rows alone.
LEMMA AnnotateSame ==
  ASSUME NEW axis, NEW timeline, NEW rows, NEW keys, NEW periods, NEW cells, NEW part,
         \A k \in DOMAIN rows, p \in DOMAIN periods :
            cell_at(part, axis.sheet, rows[k].row, periods[p].col)
              = cell_at(cells, axis.sheet, rows[k].row, periods[p].col)
  PROVE  annotate_axis(axis, timeline, rows, keys, periods, part)
           = annotate_axis(axis, timeline, rows, keys, periods, cells)
  <1> DEFINE on(x, k, p) == flag_bit(cell_at(x, axis.sheet, rows[k].row, periods[p].col))
             live(x) == {k \in DOMAIN rows : \E p \in DOMAIN periods : on(x, k, p)}
             flags(x, p) == {<<keys[k], on(x, k, p)>> : k \in live(x)}
             times(x) == [p \in DOMAIN periods |->
                            [col |-> periods[p].col, key |-> periods[p].key, flags |-> flags(x, p)]]
  <1>1. ASSUME NEW x
        PROVE  annotate_axis(axis, timeline, rows, keys, periods, x)
                 = [id |-> axis.id, timeline |-> timeline, periods |-> times(x)]
    BY DEF annotate_axis
  <1>2. \A k \in DOMAIN rows, p \in DOMAIN periods : on(part, k, p) = on(cells, k, p)
    OBVIOUS
  <1> HIDE DEF on
  <1>3. live(part) = live(cells) /\ live(cells) \subseteq DOMAIN rows
    BY <1>2
  <1> HIDE DEF live
  <1>4. \A p \in DOMAIN periods : flags(part, p) = flags(cells, p)
    <2> SUFFICES ASSUME NEW p \in DOMAIN periods PROVE flags(part, p) = flags(cells, p)
      OBVIOUS
    <2>1. \A k \in live(cells) : <<keys[k], on(part, k, p)>> = <<keys[k], on(cells, k, p)>>
      BY <1>2, <1>3
    <2> QED BY <1>3, <2>1
  <1> HIDE DEF flags
  <1>5. times(part) = times(cells)
    BY <1>4
  <1> HIDE DEF times
  <1> QED BY <1>1, <1>5

\* The header caption is read from the label cells of the header rows alone.
LEMMA HeaderUnitSame ==
  ASSUME NEW block, NEW rows \in SUBSET Nat, NEW cells, NEW part,
         \A r \in rows : cell_at(part, block.sheet, r, block.label_col)
                           = cell_at(cells, block.sheet, r, block.label_col)
  PROVE  header_unit(block, rows, part) = header_unit(block, rows, cells)
  <1> DEFINE val(x, r) == cell_at(x, block.sheet, r, block.label_col).value
             hits(x) == {r \in rows : val(x, r) \in Captions}
             first(x) == CHOOSE r \in hits(x) : \A q \in hits(x) : r <= q
  <1>1. \A r \in rows : val(part, r) = val(cells, r)
    OBVIOUS
  <1>2. ASSUME NEW x
        PROVE  header_unit(block, rows, x) = IF hits(x) = {} THEN "" ELSE val(x, first(x))
    BY DEF header_unit
  <1> HIDE DEF val
  <1>3. hits(part) = hits(cells) /\ hits(cells) \in SUBSET Nat /\ hits(cells) \subseteq rows
    BY <1>1
  <1> HIDE DEF hits
  <1>4. CASE hits(cells) = {}
    BY <1>2, <1>3, <1>4
  <1>5. CASE hits(cells) # {}
    <2>1. \E r \in hits(cells) : \A q \in hits(cells) : r <= q
      BY <1>3, <1>5, NatMin
    <2>2. first(cells) \in hits(cells)
      BY <2>1
    <2>3. first(part) = first(cells)
      BY <1>3
    <2> HIDE DEF first
    <2>4. val(part, first(part)) = val(cells, first(cells))
      BY <1>1, <1>3, <2>2, <2>3
    <2> QED BY <1>2, <1>3, <1>5, <2>4
  <1> QED BY <1>4, <1>5

\* The flag rows of a block are a list.
LEMMA FlagRowsIs ==
  ASSUME NEW block, IsList(block.rows)
  PROVE  IsList(FlagRows(block))
  <1> DEFINE K == {k \in DOMAIN block.rows : block.rows[k].kind = "flag"}
             rows == block.rows
  <1>1. FlagRows(block) = Picked(rows, K)
    BY DEF FlagRows, Select
  <1>2. IsList(rows)
    OBVIOUS
  <1> HIDE DEF K, rows
  <1> QED BY <1>1, <1>2, PickedList

\* The rows an axis takes its flags from are among the rows that are loaded.
LEMMA FlagRowLoaded ==
  ASSUME book \in Books, DocInv, LayoutSound, NEW a \in Range(layout.axes),
         NEW k \in DOMAIN AxisFlagRows(a.id)
  PROVE  <<a.sheet, AxisFlagRows(a.id)[k].row>> \in axis_cell_rows(layout.axes, layout.blocks)
  <1> DEFINE L == layout.blocks
             id == a.id
             uses(b) == L[b].kind = "timeline" /\ id \in Range(L[b].axis_ids)
             parts == [b \in DOMAIN L |-> IF uses(b) THEN FlagRows(L[b]) ELSE <<>>]
             U == UNION {Range(parts[b]) : b \in DOMAIN parts}
             F == AxisFlagRows(id)
  <1>1. F = FlattenSeq(parts)
    BY DEF AxisFlagRows
  <1>2. IsList(L) /\ Len(L) \in Nat /\ DOMAIN L = 1..Len(L)
    BY ListFacts DEF DocInv, LayoutLists
  <1>3. IsList(parts) /\ DOMAIN parts = DOMAIN L
    <2>1. parts = [b \in 1..Len(L) |-> parts[b]]
      BY <1>2
    <2> HIDE DEF parts
    <2> QED BY <1>2, <2>1, FnIsList
  <1>4. ASSUME NEW b \in DOMAIN L PROVE IsList(parts[b])
    <2>1. CASE uses(b)
      <3>1. L[b] \in Range(L)
        BY DEF Range
      <3>2. IsList(L[b].rows)
        BY <2>1, <3>1 DEF LayoutSound, Sound, BlockSound
      <3>3. parts[b] = FlagRows(L[b])
        BY <2>1
      <3> HIDE DEF L, parts
      <3> QED BY <3>2, <3>3, FlagRowsIs
    <2>2. CASE ~uses(b)
      <3>1. parts[b] = <<>>
        BY <2>2
      <3> HIDE DEF parts
      <3> QED BY <3>1, EmptyList
    <2> QED BY <2>1, <2>2
  <1>5. F \in Seq(U)
    <2> HIDE DEF F
    <2>1. FlattenSeq(parts) \in Seq(UNION {Range(parts[i]) : i \in DOMAIN parts})
      <3> HIDE DEF parts
      <3> QED BY <1>3, <1>4, FlattenInto
    <2> HIDE DEF parts
    <2> QED BY <1>1, <2>1
  <1>6. F[k] \in U
    <2> HIDE DEF U
    <2>1. k \in DOMAIN F
      OBVIOUS
    <2> HIDE DEF F
    <2> QED BY <1>5, <2>1
  <1>7. PICK b \in DOMAIN L : F[k] \in Range(parts[b])
    <2> HIDE DEF F, parts, L
    <2> QED BY <1>3, <1>6
  <1>8. uses(b)
    <2> SUFFICES ASSUME ~uses(b) PROVE FALSE
      OBVIOUS
    <2>1. parts[b] = <<>>
      OBVIOUS
    <2> HIDE DEF F, parts, L
    <2> QED BY <1>7, <2>1, EmptyList
  <1>9. F[k] \in Range(FlagRows(L[b]))
    <2>1. parts[b] = FlagRows(L[b])
      BY <1>8
    <2> HIDE DEF F, parts, L
    <2> QED BY <1>7, <2>1
  <1>10. L[b] \in Range(L)
    BY DEF Range
  <1>11. <<L[b].sheet, F[k].row>> \in axis_cell_rows(layout.axes, L)
    <2> HIDE DEF F, L
    <2> QED BY <1>9, <1>10 DEF axis_cell_rows
  <1>12. a.sheet = L[b].sheet
    <2> DEFINE bl == L[b]
    <2>1. bl \in Range(layout.blocks) /\ id \in Range(bl.axis_ids)
      BY <1>8, <1>10
    <2> HIDE DEF bl
    <2>2. a.sheet = bl.sheet
      BY <2>1, BlockAxis
    <2> QED BY <2>2 DEF bl
  <1> HIDE DEF parts, U
  <1> QED BY <1>11, <1>12

\* The header rows of a block are loaded too.
LEMMA HeaderRowLoaded ==
  ASSUME book \in Books, DocInv, LayoutSound, NEW b \in Range(layout.blocks),
         NEW r \in HeaderRows(b)
  PROVE  r \in Nat /\ <<b.sheet, r>> \in axis_cell_rows(layout.axes, layout.blocks)
  <1>1. CASE r = b.header_row
    <2>1. b.header_row \in Nat
      BY DEF LayoutSound, Sound, BlockSound
    <2>2. <<b.sheet, b.header_row>> \in axis_cell_rows(layout.axes, layout.blocks)
      BY DEF axis_cell_rows
    <2> QED BY <1>1, <2>1, <2>2
  <1>2. CASE r # b.header_row
    <2>1. PICK k \in DOMAIN b.axis_ids : r = AxisById(b.axis_ids[k]).header_row
      BY <1>2 DEF HeaderRows, AxesOf, Range
    <2> DEFINE id == b.axis_ids[k]
               a == AxisById(id)
    <2>2. id \in Range(b.axis_ids)
      BY DEF Range
    <2>3. Known(id, layout.axes)
      <3> HIDE DEF id
      <3> QED BY <2>2 DEF LayoutSound, Sound, BlockSound
    <2>4. a \in Range(layout.axes) /\ a.id = id
      <3> HIDE DEF id
      <3> QED BY <2>3 DEF Known, AxisById
    <2>5. r = a.header_row
      BY <2>1
    <2> HIDE DEF a, id
    <2>6. a.sheet = b.sheet
      BY <2>2, <2>4, BlockAxis
    <2>7. <<a.sheet, a.header_row>> \in axis_cell_rows(layout.axes, layout.blocks)
      BY <2>4 DEF axis_cell_rows
    <2>8. PICK s \in Range(book.sheets) : a \in Range(s.axes)
      BY <2>4 DEF LayoutSound, Sound, FromSheet
    <2>9. a.header_row \in Nat
      BY <2>8, BooksAssumption DEF WellFormed
    <2> QED BY <2>5, <2>6, <2>7, <2>9
  <1> QED BY <1>1, <1>2

(***************************************************************************)
(* What is read back before the row loop                                   *)
(***************************************************************************)

\* What was read before the row loop.
HeaderPart == load_rows(book.cells, axis_cell_rows(layout.axes, layout.blocks))
FormulaPairs == row_adjacency(Picked(book.cells, FormulaAt(book.cells)), ConsumedRows)
SwitchPart == [name \in Range(spill.names) |->
                 SheetSwitches(switch_table(book.cells, name, book.names))]
ReadBack ==
    /\ pc \in {"axes", "open"} => prep.header = HeaderPart
    /\ pc = "axes" => prep.pairs = FormulaPairs /\ prep.switches = SwitchPart
    /\ pc = "open" => prep.axes = PublishedAxes(prep.header)

\* Nothing is read at first.
LEMMA ReadInit == Init => ReadBack
  BY DEF Init, ReadBack

\* The parts that were read are those of this book and layout until the row loop
\* starts.
LEMMA ReadNext == DocInv /\ ReadBack /\ [Next]_vars => ReadBack'
  <1> SUFFICES ASSUME DocInv, ReadBack, [Next]_vars PROVE ReadBack'
    OBVIOUS
  <1>1. CASE ReadCells
    <2>1. /\ prep' = [switches |-> SwitchPart, header |-> HeaderPart, axes |-> <<>>,
                      pairs |-> FormulaPairs]
          /\ pc' = "axes" /\ UNCHANGED <<book, spill, layout>>
      BY <1>1 DEF ReadCells, inputs, SwitchPart, HeaderPart, FormulaPairs, FormulaAt, Select
    <2>2. SwitchPart' = SwitchPart /\ HeaderPart' = HeaderPart /\ FormulaPairs' = FormulaPairs
      BY <2>1 DEF SwitchPart, HeaderPart, FormulaPairs, FormulaAt, ConsumedRows, SheetSwitches
    <2> QED BY <2>1, <2>2 DEF ReadBack
  <1>2. CASE BuildAxes
    <2>1. /\ prep' = [prep EXCEPT !.axes = PublishedAxes(prep.header)]
          /\ pc = "axes" /\ pc' = "open" /\ UNCHANGED <<book, layout>>
      BY <1>2 DEF BuildAxes, inputs
    <2>2. DOMAIN prep = {"switches", "header", "axes", "pairs"}
      BY DEF DocInv, Records
    <2>3. prep'.header = prep.header /\ prep'.axes = PublishedAxes(prep.header)
      BY <2>1, <2>2
    <2>4. HeaderPart' = HeaderPart
      BY <2>1 DEF HeaderPart
    <2>5. PublishedAxes(prep.header)' = PublishedAxes(prep.header)
      <3>1. PublishedAxes(prep.header)' = PublishedAxes(prep'.header)
        BY <2>1 DEF PublishedAxes, ShownAxes, Select, AxisFlagRows
      <3> QED BY <2>3, <3>1
    <2> QED BY <2>1, <2>3, <2>4, <2>5 DEF ReadBack
  <1>3. CASE \/ Parse \/ WriteBatch \/ EndScan \/ ShareAxis \/ ShareBlocks \/ EndShare
             \/ LinkAxis \/ WriteTimelines \/ RelationCell \/ EndRelations
    <2>1. pc' \notin {"axes", "open"}
      BY <1>3 DEF Parse, WriteBatch, EndScan, ShareAxis, ShareBlocks, EndShare, LinkAxis,
                  WriteTimelines, RelationCell, EndRelations
    <2> QED BY <2>1 DEF ReadBack
  <1>4. CASE \/ Open \/ StartBlock \/ WriteRow \/ EndBlock \/ Finish \/ Swap
             \/ PublishMarkdown \/ DropSidecars \/ GetObservations \/ Raise \/ Kill \/ Rebuild
    <2>1. pc' \notin {"axes", "open"}
      BY <1>4 DEF Open, StartBlock, WriteRow, EndBlock, Finish, Swap, PublishMarkdown,
                  DropSidecars, GetObservations, Raise, Kill, Rebuild
    <2> QED BY <2>1 DEF ReadBack
  <1>5. CASE UNCHANGED vars
    <2>1. UNCHANGED <<book, spill, layout, prep, pc>>
      BY <1>5 DEF vars
    <2>2. SwitchPart' = SwitchPart /\ HeaderPart' = HeaderPart /\ FormulaPairs' = FormulaPairs
      BY <2>1 DEF SwitchPart, HeaderPart, FormulaPairs, FormulaAt, ConsumedRows, SheetSwitches
    <2>3. PublishedAxes(prep.header)' = PublishedAxes(prep.header)
      BY <2>1 DEF PublishedAxes, ShownAxes, Select, AxisFlagRows
    <2> QED BY <2>1, <2>2, <2>3 DEF ReadBack
  <1> QED BY <1>1, <1>2, <1>3, <1>4, <1>5 DEF Next

\* The cells of a book have addresses of their own.
LEMMA BookCells ==
  ASSUME DocInv
  PROVE  book \in Books /\ IsList(book.cells) /\ Addressed(book.cells)
  BY BooksAssumption DEF DocInv

\* The neighbours are complete.
LEMMA NeighborsRead == DocInv /\ ReadBack => NeighborsComplete
  <1> SUFFICES ASSUME DocInv, ReadBack, pc = "axes", NEW s \in ConsumedRows
               PROVE  JoinedTo(prep.pairs, s) = (Reads(Expanded, s) \cup ReadBy(Expanded, s)) \ {s}
    BY Zenon DEF NeighborsComplete, JoinedTo, Reads, ReadBy
  <1> DEFINE cells == book.cells
             keep == ConsumedRows
             P == prep.pairs
  <1>1. IsList(cells)
    BY BookCells
  <1>2. P = row_adjacency(Picked(cells, FormulaAt(cells)), keep)
    BY DEF ReadBack, FormulaPairs
  <1>3. s \in keep
    OBVIOUS
  <1>4. JoinedTo(P, s) = (Reads(ExpandedOf(cells), s) \cup ReadBy(ExpandedOf(cells), s)) \ {s}
    <2> HIDE DEF cells, keep, P
    <2> QED BY <1>1, <1>2, <1>3, NeighborsFound
  <1>5. ExpandedOf(cells) = Expanded
    BY DEF ExpandedOf, Expanded
  <1>6. JoinedTo(P, s) = (Reads(Expanded, s) \cup ReadBy(Expanded, s)) \ {s}
    BY <1>4, <1>5
  <1> QED BY <1>6

\* The selector rows of the part are those of the sheet, and perhaps more.
LEMMA SwitchesRead == DocInv /\ SpillKept /\ ReadBack => NoSwitchMissed
  <1> SUFFICES ASSUME DocInv, SpillKept, ReadBack, pc = "axes", NEW name \in Range(spill.names)
               PROVE  /\ Candidates(switch_table(book.cells, name, book.names), book.names)
                           = Candidates(spill.parts[name], book.names)
                      /\ SheetSwitches(spill.parts[name]) \subseteq prep.switches[name]
    BY DEF NoSwitchMissed
  <1> DEFINE cells == book.cells
             names == book.names
             whole == spill.parts[name]
             part == switch_table(cells, name, names)
  <1>1. IsList(cells) /\ Addressed(cells)
    BY BookCells
  <1>2. whole = Picked(cells, {k \in DOMAIN cells : cells[k].sheet = name})
    BY SpillInOrder DEF SpillKeepsOrder, Select
  <1>3. prep.switches[name] = SheetSwitches(part)
    BY DEF ReadBack, SwitchPart
  <1>4. part = switch_table(cells, name, names)
    OBVIOUS
  <1> HIDE DEF whole, part, cells, names
  <1>5. Candidates(part, names) = Candidates(whole, names)
    BY <1>1, <1>2, <1>4, SwitchesSuffice
  <1>6. SheetSwitches(whole) \subseteq SheetSwitches(part)
    <2>1. selector_rows(whole, Candidates(whole, names))
            \subseteq selector_rows(part, Candidates(part, names))
      BY <1>1, <1>2, <1>4, SwitchesSuffice
    <2> QED BY <2>1 DEF SheetSwitches, names
  <1> QED BY <1>3, <1>5, <1>6 DEF whole, part, cells, names

\* The axes and captions from the loaded rows are those of the whole file.
LEMMA HeadersRead == DocInv /\ LayoutSound /\ ReadBack => HeaderRowsSuffice
  <1> SUFFICES ASSUME DocInv, LayoutSound, ReadBack, pc = "open"
               PROVE  /\ prep.axes = PublishedAxes(book.cells)
                      /\ \A b \in Range(layout.blocks) :
                            header_unit(b, HeaderRows(b), prep.header)
                              = header_unit(b, HeaderRows(b), book.cells)
    BY DEF HeaderRowsSuffice
  <1> DEFINE cells == book.cells
             wanted == axis_cell_rows(layout.axes, layout.blocks)
             part == load_rows(cells, wanted)
             X == ShownAxes
  <1>1. book \in Books /\ IsList(cells) /\ Addressed(cells)
    BY BookCells
  <1>2. prep.header = part /\ prep.axes = PublishedAxes(part)
    BY DEF ReadBack, HeaderPart
  <1>3. ASSUME NEW sheet, NEW row, NEW col, <<sheet, row>> \in wanted
        PROVE  cell_at(part, sheet, row, col) = cell_at(cells, sheet, row, col)
    <2> HIDE DEF wanted, cells
    <2> QED BY <1>1, <1>3, LoadedCell
  <1> DEFINE pub(x, a) == annotate_axis(X[a], timeline_of(layout.blocks, X[a].id),
                             AxisFlagRows(X[a].id), flag_keys(AxisFlagRows(X[a].id)),
                             SeriesPeriods(X[a]), x)
  <1>4. ASSUME NEW x PROVE PublishedAxes(x) = [a \in DOMAIN X |-> pub(x, a)]
    BY DEF PublishedAxes
  <1>5. ASSUME NEW a \in DOMAIN X PROVE pub(part, a) = pub(cells, a)
    <2> DEFINE axis == X[a]
               rows == AxisFlagRows(axis.id)
               periods == SeriesPeriods(axis)
    <2>1. axis \in Range(layout.axes)
      <3>1. IsList(layout.axes)
        BY DEF DocInv, LayoutLists
      <3>2. Range(ShownAxes) \subseteq Range(layout.axes)
        BY <3>1, PickedList DEF ShownAxes, Select
      <3>3. axis \in Range(ShownAxes)
        BY DEF Range
      <3> QED BY <3>2, <3>3
    <2>2. ASSUME NEW k \in DOMAIN rows, NEW p \in DOMAIN periods
          PROVE  cell_at(part, axis.sheet, rows[k].row, periods[p].col)
                   = cell_at(cells, axis.sheet, rows[k].row, periods[p].col)
      <3>1. <<axis.sheet, rows[k].row>> \in wanted
        <4> HIDE DEF axis
        <4> QED BY <1>1, <2>1, FlagRowLoaded
      <3> HIDE DEF rows, axis, periods, wanted, part, cells
      <3> QED BY <3>1, <1>3
    <2> HIDE DEF rows, axis, periods, wanted, part, cells
    <2>3. \A keys, tl : annotate_axis(axis, tl, rows, keys, periods, part)
                          = annotate_axis(axis, tl, rows, keys, periods, cells)
      BY <2>2, AnnotateSame
    <2> QED BY <2>3 DEF axis, rows, periods
  <1>6. PublishedAxes(part) = PublishedAxes(cells)
    <2> HIDE DEF pub, part, cells
    <2> QED BY <1>4, <1>5
  <1>7. ASSUME NEW b \in Range(layout.blocks)
        PROVE  header_unit(b, HeaderRows(b), part) = header_unit(b, HeaderRows(b), cells)
    <2> DEFINE rows == HeaderRows(b)
    <2>1. ASSUME NEW r \in rows PROVE r \in Nat /\ <<b.sheet, r>> \in wanted
      BY <1>1, HeaderRowLoaded
    <2> HIDE DEF rows, wanted, part, cells
    <2>2. rows \in SUBSET Nat
      BY <2>1
    <2>3. \A r \in rows : cell_at(part, b.sheet, r, b.label_col) = cell_at(cells, b.sheet, r, b.label_col)
      BY <2>1, <1>3
    <2>4. header_unit(b, rows, part) = header_unit(b, rows, cells)
      BY <2>2, <2>3, HeaderUnitSame
    <2> QED BY <2>4 DEF rows
  <1> HIDE DEF part, wanted
  <1> QED BY <1>2, <1>6, <1>7

\* For every workbook and batch size: the parts of the file that are spilled, filtered
\* or read back give the cells of each sheet, the row neighbours and the headers that
\* the whole file gives, the same candidates for selectors, and at least its selector
\* rows (_SheetSpill, row_adjacency, _switch_rows, _axis_cell_rows).  The selector rows
\* may be more than those of the whole file: SwitchesSame.
THEOREM ReadBackHolds == Spec => []ReadBackSuffices
  <1> DEFINE Inv == DocInv /\ Sharing /\ SpillKept /\ LayoutSound /\ ReadBack
  <1>1. Init => Inv
    BY DocInit, ShareInit, SpillInit, SoundInit, ReadInit
  <1>2. Inv /\ [Next]_vars => Inv'
    BY DocNext, ShareNext, SpillNext, SoundNext, ReadNext
  <1>3. Inv => ReadBackSuffices
    BY SpillInOrder, NeighborsRead, SwitchesRead, HeadersRead DEF ReadBackSuffices
  <1> QED BY <1>1, <1>2, <1>3, PTL DEF Spec

=============================================================================
