----------------------- MODULE AnnotationRecovery_proofs -----------------------
(***************************************************************************)
(* Proofs about AnnotationRecovery, for any schedulers, callers, rows,     *)
(* annotators and contents, and any number of tasks, events and faults.    *)
(*                                                                         *)
(* Batches and exports are computed by recursive functions.  What they     *)
(* return is proved by induction in the form of SetInduction: a set of     *)
(* naturals that holds 0 and the successor of each of its members is Nat.  *)
(***************************************************************************)
EXTENDS AnnotationRecovery, FiniteSetTheorems, SequenceTheorems, WellFoundedInduction, TLAPS

----------------------------------------------------------------------------
(* Induction and recursive functions *)

\* A nonempty set of naturals has a least element.
LEMMA NatLeast ==
    ASSUME NEW T \in SUBSET Nat, T # {}
    PROVE  \E x \in T : \A y \in T : x <= y
<1> DEFINE R == OpToRel(<, Nat)
<1>1. IsWellFoundedOn(R, Nat)
  BY NatLessThanWellFounded
<1>2. \A x, y \in Nat : x < y => <<x, y>> \in R
  BY DEF OpToRel
<1> HIDE DEF R
<1>3. PICK x \in T : \A y \in T : <<y, x>> \notin R
  BY <1>1, WFMin
<1>4. \A y \in T : ~(y < x)
  BY <1>2, <1>3
<1> QED
  BY <1>4

\* Induction on the naturals, for membership in a set.
LEMMA SetInduction ==
    ASSUME NEW S, 0 \in S, \A n \in Nat : n \in S => n + 1 \in S
    PROVE  \A n \in Nat : n \in S
<1> DEFINE T == Nat \ S
<1> SUFFICES ASSUME T # {} PROVE FALSE
  OBVIOUS
<1>1. PICK x \in T : \A y \in T : x <= y
  BY NatLeast
<1>2. x # 0 /\ x \in Nat
  OBVIOUS
<1>3. x - 1 \in Nat /\ ~(x <= x - 1) /\ (x - 1) + 1 = x
  BY <1>2
<1>4. x - 1 \in S
  BY <1>1, <1>3
<1> QED
  BY <1>3, <1>4

\* f applies the first steps of G to b, one after the other.
Iteration(D, b, L, G, f) ==
    f \in [0..L -> D] /\ f[0] = b /\ \A n \in 1..L : f[n] = G[n][f[n - 1]]

\* A function can be defined by primitive recursion up to a bound.
LEMMA Iterates ==
    ASSUME NEW D, NEW b \in D, NEW L \in Nat, NEW G, G \in [1..L -> [D -> D]]
    PROVE  \E f : Iteration(D, b, L, G, f)
<1> DEFINE Good(m, f) == f[0] = b /\ \A n \in 1..m : f[n] = G[n][f[n - 1]]
           S == {m \in Nat : m <= L => \E f \in [0..m -> D] : Good(m, f)}
<1>1. 0 \in S
  <2> DEFINE f == [n \in 0..0 |-> b]
  <2>1. f \in [0..0 -> D] /\ Good(0, f)
    OBVIOUS
  <2> QED
    BY <2>1
<1>2. ASSUME NEW n \in Nat, n \in S PROVE n + 1 \in S
  <2> SUFFICES ASSUME n + 1 <= L PROVE \E f \in [0..(n + 1) -> D] : Good(n + 1, f)
    OBVIOUS
  <2>1. PICK f \in [0..n -> D] : Good(n, f)
    BY <1>2
  <2> DEFINE g == [k \in 0..(n + 1) |-> IF k = n + 1 THEN G[n + 1][f[n]] ELSE f[k]]
  <2>2. n + 1 \in 1..L /\ n \in 0..n
    OBVIOUS
  <2>3. G[n + 1][f[n]] \in D
    BY <2>2
  <2>4. g \in [0..(n + 1) -> D]
    BY <2>3
  <2>5. g[0] = b
    BY <2>1
  <2>6. \A k \in 1..(n + 1) : g[k] = G[k][g[k - 1]]
    <3> TAKE k \in 1..(n + 1)
    <3>1. k - 1 \in 0..n /\ g[k - 1] = f[k - 1]
      OBVIOUS
    <3>2. CASE k = n + 1
      BY <3>1, <3>2
    <3>3. CASE k # n + 1
      <4>1. k \in 1..n
        BY <3>3
      <4> QED
        BY <2>1, <3>1, <3>3, <4>1
    <3> QED
      BY <3>2, <3>3
  <2> QED
    BY <2>4, <2>5, <2>6
<1>3. L \in S
  <2> HIDE DEF S
  <2> QED
    BY <1>1, <1>2, SetInduction
<1>4. PICK f \in [0..L -> D] : Good(L, f)
  BY <1>3
<1>5. Iteration(D, b, L, G, f)
  BY <1>4 DEF Iteration
<1> QED
  BY <1>5

\* A sequence of naturals is bounded.
LEMMA NatSeqBounded ==
    ASSUME NEW s \in Seq(Nat)
    PROVE  \E m \in Nat : \A i \in DOMAIN s : s[i] <= m
<1> DEFINE S == {n \in Nat : n <= Len(s) => \E m \in Nat : \A i \in 1..n : s[i] <= m}
<1>1. 0 \in S
  OBVIOUS
<1>2. ASSUME NEW n \in Nat, n \in S PROVE n + 1 \in S
  <2> SUFFICES ASSUME n + 1 <= Len(s) PROVE \E m \in Nat : \A i \in 1..(n + 1) : s[i] <= m
    OBVIOUS
  <2>1. PICK m \in Nat : \A i \in 1..n : s[i] <= m
    BY <1>2
  <2>2. s[n + 1] \in Nat
    OBVIOUS
  <2>3. \A i \in 1..(n + 1) : s[i] <= m + s[n + 1]
    <3> TAKE i \in 1..(n + 1)
    <3>1. i \in 1..n \/ i = n + 1
      OBVIOUS
    <3>2. s[i] \in Nat
      OBVIOUS
    <3> QED
      BY <2>1, <2>2, <3>1, <3>2
  <2>4. m + s[n + 1] \in Nat
    BY <2>2
  <2> QED
    BY <2>3, <2>4, Zenon
<1>3. Len(s) \in S
  <2>1. Len(s) \in Nat
    OBVIOUS
  <2> HIDE DEF S
  <2>2. \A n \in Nat : n \in S
    BY <1>1, <1>2, SetInduction, Zenon
  <2> QED
    BY <2>1, <2>2
<1>4. DOMAIN s = 1..Len(s) /\ Len(s) <= Len(s)
  OBVIOUS
<1>5. \E m \in Nat : \A i \in 1..Len(s) : s[i] <= m
  BY <1>3, <1>4
<1> QED
  BY <1>4, <1>5

\* A nonempty bounded set of naturals has a largest element, which is its Max.
LEMMA MaxIn ==
    ASSUME NEW T \in SUBSET Nat, T # {}, NEW m \in Nat, \A x \in T : x <= m
    PROVE  Max(T) \in T /\ \A x \in T : x <= Max(T)
<1> DEFINE U == {n \in Nat : \A x \in T : x <= n}
<1>1. m \in U
  OBVIOUS
<1>2. PICK u \in U : \A y \in U : u <= y
  BY <1>1, NatLeast
<1>3. u \in T
  <2> SUFFICES ASSUME u \notin T PROVE FALSE
    OBVIOUS
  <2>1. \A x \in T : x <= u - 1
    BY <1>2
  <2>2. u # 0
    <3>1. PICK x \in T : TRUE
      OBVIOUS
    <3> QED
      BY <2>1, <3>1
  <2>3. u - 1 \in U
    BY <2>1, <2>2
  <2> QED
    BY <1>2, <2>3
<1>4. \A x \in T : u >= x
  BY <1>2
<1> QED
  BY <1>3, <1>4 DEF Max

----------------------------------------------------------------------------
(* Sequences *)

\* The members of a concatenation, of an extension and of a slice.
LEMMA SeqDomains ==
    ASSUME NEW A, NEW s \in Seq(A), NEW t \in Seq(A)
    PROVE  /\ s \o t \in Seq(A) /\ Len(s \o t) = Len(s) + Len(t)
           /\ DOMAIN s = 1..Len(s) /\ Len(s) \in Nat
           /\ DOMAIN (s \o t) = 1..(Len(s) + Len(t))
           /\ \A i \in DOMAIN s : i \in DOMAIN (s \o t) /\ (s \o t)[i] = s[i]
           /\ \A i \in DOMAIN t : Len(s) + i \in DOMAIN (s \o t) /\ (s \o t)[Len(s) + i] = t[i]
           /\ \A i \in DOMAIN (s \o t) : i \in DOMAIN s \/ (i - Len(s) \in DOMAIN t /\
                 (s \o t)[i] = t[i - Len(s)])
  OBVIOUS

\* The members of a concatenation and of an extension.
LEMMA Ranges ==
    ASSUME NEW A, NEW s \in Seq(A), NEW t \in Seq(A)
    PROVE  /\ Range(s \o t) = Range(s) \cup Range(t)
           /\ Range(s) \subseteq A
<1>1. \A x \in Range(s \o t) : x \in Range(s) \cup Range(t)
  BY SeqDomains DEF Range
<1>2. \A x \in Range(s) : x \in Range(s \o t)
  BY SeqDomains DEF Range
<1>3. \A x \in Range(t) : x \in Range(s \o t)
  <2>1. \A i \in DOMAIN t : t[i] \in Range(s \o t)
    <3> TAKE i \in DOMAIN t
    <3>1. Len(s) + i \in DOMAIN (s \o t) /\ (s \o t)[Len(s) + i] = t[i]
      BY SeqDomains
    <3> QED
      BY <3>1 DEF Range
  <2> QED
    BY <2>1 DEF Range
<1>4. Range(s) \subseteq A
  BY DEF Range
<1> QED
  BY <1>1, <1>2, <1>3, <1>4

\* What the concatenation of a sequence of sequences holds.
LEMMA FlattenHolds ==
    ASSUME NEW A, NEW ss \in Seq(Seq(A))
    PROVE  /\ FlattenSeq(ss) \in Seq(A)
           /\ Range(FlattenSeq(ss)) = UNION {Range(ss[k]) : k \in DOMAIN ss}
<1>1. CASE Len(ss) = 0
  <2>1. ss = << >> /\ DOMAIN ss = {}
    BY <1>1
  <2>2. FlattenSeq(ss) = << >>
    BY <2>1 DEF FlattenSeq
  <2>3. Range(FlattenSeq(ss)) = {}
    BY <2>2 DEF Range
  <2>4. UNION {Range(ss[k]) : k \in DOMAIN ss} = {}
    BY <2>1
  <2>5. FlattenSeq(ss) \in Seq(A)
    BY <2>2
  <2> QED
    BY <2>3, <2>4, <2>5
<1>2. CASE Len(ss) # 0
  <2> DEFINE L == Len(ss) - 1
             D == Seq(A)
             b == ss[1]
             G == [n \in 1..L |-> [s \in D |-> s \o ss[n + 1]]]
  <2>1. L \in Nat /\ DOMAIN ss = 1..(L + 1) /\ Len(ss) = L + 1
    BY <1>2
  <2>2. \A n \in 1..(L + 1) : ss[n] \in Seq(A)
    BY <2>1
  <2> HIDE DEF L
  <2>3. G \in [1..L -> [D -> D]]
    BY <2>1, <2>2
  <2>4. b \in D
    BY <2>1, <2>2
  <2>5. PICK f : Iteration(D, b, L, G, f)
    <3> HIDE DEF G, D, b
    <3> QED
      BY <2>1, <2>3, <2>4, Iterates, Zenon
  <2>6. \A n \in 1..L : f[n] = f[n - 1] \o ss[n + 1]
    <3> TAKE n \in 1..L
    <3>1. n - 1 \in 0..L
      BY <2>1
    <3>2. f[n - 1] \in D
      BY <2>5, <3>1 DEF Iteration
    <3>3. G[n] = [s \in D |-> s \o ss[n + 1]]
      OBVIOUS
    <3> QED
      BY <2>5, <3>2, <3>3 DEF Iteration
  <2> DEFINE h == [i \in 1..(L + 1) |-> f[i - 1]]
  <2>7. h = [i \in 1..(L + 1) |-> IF i = 1 THEN ss[i] ELSE h[i - 1] \o ss[i]]
    <3>1. ASSUME NEW i \in 1..(L + 1) PROVE h[i] = IF i = 1 THEN ss[i] ELSE h[i - 1] \o ss[i]
      <4>1. CASE i = 1
        BY <2>1, <2>5, <4>1 DEF Iteration
      <4>2. CASE i # 1
        <5>1. i - 1 \in 1..L /\ (i - 1) + 1 = i /\ i - 1 \in 1..(L + 1)
          BY <2>1, <4>2
        <5>2. f[i - 1] = f[(i - 1) - 1] \o ss[i]
          BY <2>6, <5>1
        <5> QED
          BY <4>2, <5>1, <5>2
      <4> QED
        BY <4>1, <4>2
    <3> QED
      BY <3>1
  <2> HIDE DEF h
  <2> DEFINE g == CHOOSE g : g = [i \in 1..(L + 1) |-> IF i = 1 THEN ss[i] ELSE g[i - 1] \o ss[i]]
  <2>8. g = [i \in 1..(L + 1) |-> IF i = 1 THEN ss[i] ELSE g[i - 1] \o ss[i]]
    BY <2>7
  <2>9. FlattenSeq(ss) = g[L + 1]
    BY <1>2, <2>1 DEF FlattenSeq
  <2> HIDE DEF g
  <2> DEFINE To(n) == UNION {Range(ss[k]) : k \in 1..n}
             S == {n \in Nat : n <= L => g[n + 1] \in Seq(A) /\ Range(g[n + 1]) = To(n + 1)}
  <2>10. 0 \in S
    <3>1. g[1] = ss[1] /\ ss[1] \in Seq(A)
      BY <2>1, <2>2, <2>8
    <3>2. To(1) = Range(ss[1])
      OBVIOUS
    <3>3. 0 + 1 = 1
      OBVIOUS
    <3> HIDE DEF To
    <3> QED
      BY <3>1, <3>2, <3>3
  <2>11. ASSUME NEW n \in Nat, n \in S PROVE n + 1 \in S
    <3> SUFFICES ASSUME n + 1 <= L
                 PROVE  g[(n + 1) + 1] \in Seq(A) /\ Range(g[(n + 1) + 1]) = To((n + 1) + 1)
      OBVIOUS
    <3> DEFINE k == (n + 1) + 1
    <3>1. k \in 1..(L + 1) /\ k # 1 /\ k - 1 = n + 1 /\ n + 1 \in 1..(L + 1) /\ n <= L
      BY <2>1
    <3>2. 1..k = (1..(n + 1)) \cup {k}
      OBVIOUS
    <3> HIDE DEF k
    <3>3. g[k] = g[n + 1] \o ss[k]
      BY <2>8, <3>1
    <3>4. g[n + 1] \in Seq(A) /\ ss[k] \in Seq(A) /\ Range(g[n + 1]) = To(n + 1)
      <4> HIDE DEF To
      <4> QED
        BY <2>2, <2>11, <3>1
    <3>5. Range(g[k]) = Range(g[n + 1]) \cup Range(ss[k]) /\ g[k] \in Seq(A)
      BY <3>3, <3>4, Ranges, SeqDomains
    <3>6. To(k) = To(n + 1) \cup Range(ss[k])
      BY <3>2
    <3>7. g[k] \in Seq(A) /\ Range(g[k]) = To(k)
      BY <3>4, <3>5, <3>6
    <3> QED
      BY <3>7 DEF k
  <2>12. L \in S
    <3> HIDE DEF S
    <3> QED
      BY <2>1, <2>10, <2>11, SetInduction
  <2>13. g[L + 1] \in Seq(A) /\ Range(g[L + 1]) = To(L + 1)
    <3> HIDE DEF To
    <3> QED
      BY <2>1, <2>12
  <2> QED
    BY <2>1, <2>9, <2>13
<1> QED
  BY <1>1, <1>2

\* The order in which the rows of a finite set are imported reaches all of them.
LEMMA SetToSeqHolds ==
    ASSUME NEW S, IsFiniteSet(S)
    PROVE  /\ SetToSeq(S) \in Seq(S)
           /\ \A x \in S : \E i \in DOMAIN SetToSeq(S) : SetToSeq(S)[i] = x
<1> DEFINE n == Cardinality(S)
           f == SetToSeq(S)
<1>1. n \in Nat /\ \E g \in [1..n -> S] : IsInjective(g)
  BY FS_CardinalityType, Zenon DEF ExistsBijection, Bijection, Injection
<1>2. f \in [1..n -> S] /\ IsInjective(f)
  BY <1>1, Zenon DEF SetToSeq
<1> HIDE DEF f
<1>3. f \in Injection(1..n, S)
  BY <1>2 DEF Injection
<1>4. Cardinality(1..n) = n
  <2> HIDE DEF n
  <2>1. Cardinality(1..n) = IF 1 > n THEN 0 ELSE n - 1 + 1
    BY <1>1, FS_Interval
  <2> QED
    BY <1>1, <2>1
<1>5. f \in Surjection(1..n, S)
  BY <1>3, <1>4, FS_Injection
<1>6. \A x \in S : \E i \in 1..n : f[i] = x
  BY <1>5 DEF Surjection
<1>7. f \in Seq(S)
  <2> HIDE DEF n
  <2> QED
    BY <1>1, <1>2
<1> QED
  BY <1>2, <1>6, <1>7 DEF f

\* The number of annotations in the project is a natural number.
LEMMA SignatureType ==
    ASSUME ls \in Seq(Tasks)
    PROVE  Signature \in Sigs
<1> DEFINE E == TaskIds \X (1..MaxEvents)
<1>1. IsFiniteSet(TaskIds) /\ IsFiniteSet(1..MaxEvents)
  BY FS_Interval, BoundsAssumption DEF TaskIds
<1>2. IsFiniteSet(E)
  BY <1>1, FS_Product
<1>3. Submitted \subseteq E
  BY DEF Submitted
<1>4. Cardinality(Submitted) \in Nat
  BY <1>2, <1>3, FS_Subset, FS_CardinalityType
<1> QED
  BY <1>4 DEF Signature, Sigs

----------------------------------------------------------------------------
(* The pure parts of a recovery *)

\* The exported annotations, with their row.
Recs == [row : Rows, who : Annotators, content : Contents, truth : BOOLEAN]

\* The numbers of the registry's row that an export computes.
LEMMA NewRegistryTypes ==
    ASSUME ls \in Seq(Tasks), Len(ls) <= MaxTasks, events \in 0..MaxEvents,
           \A t \in DOMAIN ls : Len(ls[t].anns) <= events,
           NEW wm \in 0..MaxTasks, NEW cnt
    PROVE  /\ NewTasks(ls, wm, cnt) \subseteq DOMAIN ls
           /\ NewWatermark(wm, NewTasks(ls, wm, cnt)) \in 0..MaxTasks
           /\ NewCounts(ls) \in Counts
<1> DEFINE fresh == NewTasks(ls, wm, cnt)
           T == {wm} \cup fresh
<1>1. MaxTasks \in Nat /\ MaxEvents \in Nat
  BY BoundsAssumption
<1>2. DOMAIN ls = 1..Len(ls) /\ Len(ls) \in Nat
  OBVIOUS
<1>3. fresh \subseteq DOMAIN ls
  BY DEF NewTasks
<1> HIDE DEF fresh
<1>4. T \subseteq 0..MaxTasks
  BY <1>1, <1>2, <1>3
<1>5. T \in SUBSET Nat /\ T # {} /\ \A x \in T : x <= MaxTasks
  BY <1>1, <1>4
<1>6. Max(T) \in T
  <2> HIDE DEF T
  <2> QED
    BY <1>1, <1>5, MaxIn
<1>7. \A t \in DOMAIN ls : Len(ls[t].anns) \in 0..MaxEvents
  <2> TAKE t \in DOMAIN ls
  <2>1. ls[t] \in Tasks
    OBVIOUS
  <2>2. ls[t].anns \in Seq(Annotations)
    BY <2>1 DEF Tasks
  <2>3. Len(ls[t].anns) \in Nat /\ Len(ls[t].anns) <= events
    BY <2>2
  <2> QED
    BY <1>1, <2>3
<1>8. NewCounts(ls) \in Counts
  <2>1. 0 \in 0..MaxEvents
    BY <1>1
  <2> QED
    BY <1>7, <2>1, Zenon DEF NewCounts, Counts
<1>9. NewWatermark(wm, fresh) \in 0..MaxTasks
  BY <1>4, <1>6 DEF NewWatermark
<1> QED
  BY <1>3, <1>8, <1>9 DEF fresh

\* An annotation that is not skipped gives one record.
LEMMA ParsedHolds ==
    ASSUME NEW r \in Rows, NEW a \in Annotations
    PROVE  /\ Parsed(r, a) \in Seq(Recs)
           /\ a.content # Skipped => \E x \in Range(Parsed(r, a)) : AdlId(x) = <<r, a.who, a.content>>
<1>1. CASE a.content = Skipped
  BY <1>1 DEF Parsed
<1>2. CASE a.content # Skipped
  <2> DEFINE x == [row |-> r, who |-> a.who, content |-> a.content, truth |-> a.truth]
  <2>1. x \in Recs
    BY <1>2 DEF Recs, Annotations
  <2>2. AdlId(x) = <<r, a.who, a.content>>
    BY DEF AdlId
  <2>3. Parsed(r, a) = <<x>>
    BY <1>2 DEF Parsed
  <2> HIDE DEF x
  <2>4. <<x>> \in Seq(Recs) /\ x \in Range(<<x>>)
    BY <2>1 DEF Range
  <2> QED
    BY <2>2, <2>3, <2>4
<1> QED
  BY <1>1, <1>2

\* So does each such annotation of a task.
LEMMA ParsedTaskHolds ==
    ASSUME NEW task \in Tasks
    PROVE  /\ ParsedTask(task) \in Seq(Recs)
           /\ \A k \in DOMAIN task.anns :
                 task.anns[k].content # Skipped
                 => \E x \in Range(ParsedTask(task)) :
                       AdlId(x) = <<task.row, task.anns[k].who, task.anns[k].content>>
<1> DEFINE ss == [k \in DOMAIN task.anns |-> Parsed(task.row, task.anns[k])]
<1>1. task.row \in Rows /\ task.anns \in Seq(Annotations)
  BY DEF Tasks
<1>2. DOMAIN task.anns = 1..Len(task.anns) /\ Len(task.anns) \in Nat
      /\ \A k \in DOMAIN task.anns : task.anns[k] \in Annotations
  BY <1>1
<1>3. \A k \in DOMAIN task.anns : ss[k] \in Seq(Recs)
  BY <1>1, <1>2, ParsedHolds
<1>4. ss \in Seq(Seq(Recs)) /\ DOMAIN ss = DOMAIN task.anns
  <2> DEFINE n == Len(task.anns)
  <2>1. ss \in [1..n -> Seq(Recs)]
    BY <1>2, <1>3, Zenon
  <2>2. DOMAIN ss = DOMAIN task.anns /\ n \in Nat
    BY <1>2
  <2> HIDE DEF ss, n
  <2> QED
    BY <2>1, <2>2
<1>5. \A k \in DOMAIN task.anns : ss[k] = Parsed(task.row, task.anns[k])
  OBVIOUS
<1>6. ParsedTask(task) = FlattenSeq(ss)
  BY DEF ParsedTask
<1> HIDE DEF ss
<1>7. FlattenSeq(ss) \in Seq(Recs) /\ Range(FlattenSeq(ss)) = UNION {Range(ss[k]) : k \in DOMAIN ss}
  BY <1>4, FlattenHolds
<1>8. ASSUME NEW k \in DOMAIN task.anns, task.anns[k].content # Skipped
      PROVE  \E x \in Range(ParsedTask(task)) :
                AdlId(x) = <<task.row, task.anns[k].who, task.anns[k].content>>
  <2>1. PICK x \in Range(ss[k]) : AdlId(x) = <<task.row, task.anns[k].who, task.anns[k].content>>
    BY <1>1, <1>2, <1>5, <1>8, ParsedHolds
  <2>2. x \in Range(ParsedTask(task))
    BY <1>4, <1>6, <1>7
  <2> QED
    BY <2>1, <2>2
<1> QED
  BY <1>6, <1>7, <1>8

\* A recovery gets a record of every annotation of the new tasks that is not skipped.
LEMMA RecoveredHolds ==
    ASSUME NEW tasks \in Seq(Tasks), NEW fresh \in SUBSET DOMAIN tasks
    PROVE  /\ Recovered(tasks, fresh) \in Seq(Recs)
           /\ \A t \in fresh : \A k \in DOMAIN tasks[t].anns :
                 tasks[t].anns[k].content # Skipped
                 => <<tasks[t].row, tasks[t].anns[k].who, tasks[t].anns[k].content>>
                    \in Ids(Recovered(tasks, fresh))
<1> DEFINE ss == [t \in DOMAIN tasks |-> IF t \in fresh THEN ParsedTask(tasks[t]) ELSE << >>]
           all == Recovered(tasks, fresh)
<1>1. DOMAIN tasks = 1..Len(tasks) /\ Len(tasks) \in Nat /\ \A t \in DOMAIN tasks : tasks[t] \in Tasks
  OBVIOUS
<1>2. \A t \in DOMAIN tasks : ss[t] \in Seq(Recs)
  BY <1>1, ParsedTaskHolds
<1>3. ss \in Seq(Seq(Recs)) /\ DOMAIN ss = DOMAIN tasks
  BY <1>1, <1>2
<1>4. \A t \in fresh : ss[t] = ParsedTask(tasks[t])
  OBVIOUS
<1>5. all = FlattenSeq(ss)
  BY DEF Recovered
<1> HIDE DEF ss, all
<1>6. all \in Seq(Recs) /\ Range(all) = UNION {Range(ss[t]) : t \in DOMAIN ss}
  BY <1>3, <1>5, FlattenHolds
<1>7. ASSUME NEW t \in fresh, NEW k \in DOMAIN tasks[t].anns, tasks[t].anns[k].content # Skipped
      PROVE  <<tasks[t].row, tasks[t].anns[k].who, tasks[t].anns[k].content>> \in Ids(all)
  <2>1. PICK x \in Range(ss[t]) :
           AdlId(x) = <<tasks[t].row, tasks[t].anns[k].who, tasks[t].anns[k].content>>
    BY <1>1, <1>4, <1>7, ParsedTaskHolds
  <2>2. x \in Range(all)
    BY <1>3, <1>6
  <2>3. PICK i \in DOMAIN all : all[i] = x
    BY <2>2 DEF Range
  <2> QED
    BY <2>1, <2>3 DEF Ids
<1> QED
  BY <1>6, <1>7 DEF all

\* The verdicts leave the keys of a batch alone.
LEMMA JudgedHolds ==
    ASSUME NEW recs \in Seq(Recs)
    PROVE  /\ Judged(recs) \in Seq(JudgedRows)
           /\ Ids(Judged(recs)) = Ids(recs)
           /\ DOMAIN Judged(recs) = DOMAIN recs
           /\ \A i \in DOMAIN recs : /\ Judged(recs)[i].row = recs[i].row
                                     /\ Judged(recs)[i].status = Verdict(recs, recs[i].row)
<1>1. DOMAIN recs = 1..Len(recs) /\ Len(recs) \in Nat /\ \A i \in DOMAIN recs : recs[i] \in Recs
  OBVIOUS
<1>2. \A r : Verdict(recs, r) \in Statuses
  BY DEF Verdict, Statuses
<1>3. \A i \in DOMAIN recs : Judged(recs)[i] \in JudgedRows
  BY <1>1, <1>2 DEF Judged, JudgedRows, Recs
<1>4. DOMAIN Judged(recs) = DOMAIN recs
  BY DEF Judged
<1>5. Judged(recs) \in Seq(JudgedRows)
  <2>1. Judged(recs) = [i \in 1..Len(recs) |-> Judged(recs)[i]]
    BY <1>1 DEF Judged
  <2> QED
    BY <1>1, <1>3, <2>1
<1>6. \A i \in DOMAIN recs : AdlId(Judged(recs)[i]) = AdlId(recs[i])
  BY DEF Judged, AdlId
<1>7. Ids(Judged(recs)) = Ids(recs)
  BY <1>4, <1>6, Zenon DEF Ids
<1>8. \A i \in DOMAIN recs : /\ Judged(recs)[i].row = recs[i].row
                             /\ Judged(recs)[i].status = Verdict(recs, recs[i].row)
  BY DEF Judged
<1> QED
  BY <1>4, <1>5, <1>7, <1>8

\* A row gets a version above those of its group.
LEMMA VersionHolds ==
    ASSUME NEW rows \in Seq(AdlRows), NEW a
    PROVE  /\ Version(rows, a) \in Nat \ {0}
           /\ \A i \in DOMAIN rows : Group(rows[i]) = Group(a) => rows[i].ver < Version(rows, a)
<1> DEFINE s == [i \in DOMAIN rows |-> rows[i].ver]
           mine == {j \in DOMAIN rows : Group(rows[j]) = Group(a)}
           T == {0} \cup {rows[i].ver : i \in mine}
<1>1. DOMAIN rows = 1..Len(rows) /\ Len(rows) \in Nat /\ \A i \in DOMAIN rows : rows[i] \in AdlRows
  OBVIOUS
<1>2. \A i \in DOMAIN rows : rows[i].ver \in Nat
  BY <1>1 DEF AdlRows
<1>3. s \in Seq(Nat) /\ DOMAIN s = DOMAIN rows
  BY <1>1, <1>2
<1>4. PICK m \in Nat : \A i \in DOMAIN s : s[i] <= m
  BY <1>3, NatSeqBounded
<1>5. \A i \in DOMAIN rows : rows[i].ver <= m
  BY <1>4
<1> HIDE DEF s
<1>6. T \in SUBSET Nat /\ T # {} /\ \A x \in T : x <= m
  BY <1>2, <1>5
<1>7. Version(rows, a) = Max(T) + 1
  BY DEF Version
<1>8. \A i \in mine : rows[i].ver \in T
  OBVIOUS
<1> HIDE DEF T
<1>9. Max(T) \in T /\ \A x \in T : x <= Max(T)
  BY <1>6, MaxIn
<1>10. Max(T) \in Nat
  BY <1>6, <1>9, Zenon
<1>11. Version(rows, a) \in Nat \ {0}
  BY <1>7, <1>10
<1>12. ASSUME NEW i \in DOMAIN rows, Group(rows[i]) = Group(a) PROVE rows[i].ver < Version(rows, a)
  <2>1. rows[i].ver \in T
    BY <1>8, <1>12
  <2>2. rows[i].ver \in Nat /\ rows[i].ver <= Max(T)
    BY <1>2, <1>9, <2>1, Zenon
  <2> QED
    BY <1>7, <1>10, <2>2
<1> QED
  BY <1>11, <1>12

\* The keys of a concatenation.
LEMMA IdsConcat ==
    ASSUME NEW A, NEW s \in Seq(A), NEW t \in Seq(A)
    PROVE  Ids(s \o t) = Ids(s) \cup Ids(t)
<1>1. \A i \in DOMAIN s : AdlId(s[i]) \in Ids(s \o t)
  BY SeqDomains DEF Ids
<1>2. \A i \in DOMAIN t : AdlId(t[i]) \in Ids(s \o t)
  <2> TAKE i \in DOMAIN t
  <2>1. Len(s) + i \in DOMAIN (s \o t) /\ (s \o t)[Len(s) + i] = t[i]
    BY SeqDomains
  <2> QED
    BY <2>1 DEF Ids
<1>3. \A i \in DOMAIN (s \o t) : AdlId((s \o t)[i]) \in Ids(s) \cup Ids(t)
  <2> TAKE i \in DOMAIN (s \o t)
  <2>1. CASE i \in DOMAIN s
    BY <2>1, SeqDomains DEF Ids
  <2>2. CASE i \notin DOMAIN s
    <3>1. i - Len(s) \in DOMAIN t /\ (s \o t)[i] = t[i - Len(s)]
      BY <2>2, SeqDomains
    <3> QED
      BY <3>1 DEF Ids
  <2> QED
    BY <2>1, <2>2
<1> QED
  BY <1>1, <1>2, <1>3 DEF Ids

\* A row with a new content and a higher version continues a versioned table.
LEMMA VersionedAppend ==
    ASSUME NEW rows \in Seq(AdlRows), NEW x \in AdlRows, Versioned(rows), AdlId(x) \notin Ids(rows),
           \A i \in DOMAIN rows : Group(rows[i]) = Group(x) => rows[i].ver < x.ver
    PROVE  Versioned(Append(rows, x))
<1> DEFINE more == Append(rows, x)
<1>1. DOMAIN rows = 1..Len(rows) /\ Len(rows) \in Nat /\ DOMAIN more = 1..(Len(rows) + 1)
  OBVIOUS
<1>2. more[Len(rows) + 1] = x /\ \A i \in DOMAIN rows : more[i] = rows[i]
  OBVIOUS
<1> HIDE DEF more
<1> SUFFICES ASSUME NEW i \in DOMAIN more, NEW j \in DOMAIN more, i < j, Group(more[i]) = Group(more[j])
             PROVE  more[i].content # more[j].content /\ more[i].ver < more[j].ver
  BY DEF Versioned, more
<1>3. i \in DOMAIN rows /\ more[i] = rows[i]
  BY <1>1, <1>2
<1>4. CASE j \in DOMAIN rows
  BY <1>2, <1>3, <1>4 DEF Versioned
<1>5. CASE j \notin DOMAIN rows
  <2>1. j = Len(rows) + 1 /\ more[j] = x
    BY <1>1, <1>2, <1>5
  <2>2. AdlId(rows[i]) # AdlId(x)
    BY <1>3 DEF Ids
  <2>3. rows[i].content # x.content
    BY <1>3, <2>1, <2>2 DEF AdlId, Group
  <2> QED
    BY <1>3, <2>1, <2>3
<1> QED
  BY <1>4, <1>5

\* One annotation is added to a batch, or is already in the table or the batch.
LEMMA AddRowHolds ==
    ASSUME NEW existing \in Seq(AdlRows), NEW rows \in Seq(AdlRows), NEW a \in JudgedRows
    PROVE  LET more == AddRow(existing, rows, a)
           IN /\ more \in Seq(AdlRows)
              /\ Ids(rows) \subseteq Ids(more)
              /\ AdlId(a) \in Ids(existing) \cup Ids(more)
              /\ \A x \in Range(more) : x \in Range(rows) \/ (x.row = a.row /\ x.status = a.status)
              /\ Versioned(existing \o rows) => Versioned(existing \o more)
<1> DEFINE more == AddRow(existing, rows, a)
<1>1. CASE AdlId(a) \in Ids(existing) \cup Ids(rows)
  <2>1. more = rows
    BY <1>1 DEF AddRow
  <2> QED
    BY <1>1, <2>1
<1>2. CASE AdlId(a) \notin Ids(existing) \cup Ids(rows)
  <2> DEFINE tab == existing \o rows
             x == [row |-> a.row, who |-> a.who, content |-> a.content, status |-> a.status,
                   ver |-> Version(tab, a)]
  <2>1. tab \in Seq(AdlRows) /\ Ids(tab) = Ids(existing) \cup Ids(rows)
    BY IdsConcat
  <2>2. Version(tab, a) \in Nat \ {0}
        /\ \A i \in DOMAIN tab : Group(tab[i]) = Group(a) => tab[i].ver < Version(tab, a)
    <3> HIDE DEF tab
    <3> QED
      BY <2>1, VersionHolds
  <2>3. x \in AdlRows
    BY <2>2 DEF AdlRows, JudgedRows
  <2>4. AdlId(x) = AdlId(a) /\ Group(x) = Group(a) /\ x.ver = Version(tab, a)
        /\ x.row = a.row /\ x.status = a.status
    BY DEF AdlId, Group
  <2>5. more = Append(rows, x)
    BY <1>2 DEF AddRow
  <2>6. existing \o Append(rows, x) = Append(tab, x)
    <3> HIDE DEF x
    <3> QED
      BY <2>3
  <2> HIDE DEF x, tab, more
  <2>7. more = rows \o <<x>> /\ <<x>> \in Seq(AdlRows) /\ more \in Seq(AdlRows)
    BY <2>3, <2>5
  <2>8. Ids(<<x>>) = {AdlId(x)} /\ Range(<<x>>) = {x}
    BY DEF Ids, Range
  <2>9. Ids(more) = Ids(rows) \cup {AdlId(a)} /\ Range(more) = Range(rows) \cup {x}
    <3> DEFINE one == <<x>>
    <3>1. one \in Seq(AdlRows) /\ more = rows \o one
      BY <2>7
    <3>2. Ids(one) = {AdlId(a)} /\ Range(one) = {x}
      BY <2>4, <2>8
    <3> HIDE DEF one
    <3>3. Ids(rows \o one) = Ids(rows) \cup Ids(one)
      BY <3>1, IdsConcat
    <3>4. Range(rows \o one) = Range(rows) \cup Range(one)
      BY <3>1, Ranges
    <3> QED
      BY <3>1, <3>2, <3>3, <3>4
  <2>10. ASSUME Versioned(tab) PROVE Versioned(existing \o more)
    <3>1. AdlId(x) \notin Ids(tab)
      BY <1>2, <2>1, <2>4
    <3>2. \A i \in DOMAIN tab : Group(tab[i]) = Group(x) => tab[i].ver < x.ver
      BY <2>2, <2>4
    <3>3. Versioned(Append(tab, x))
      BY <2>1, <2>3, <2>10, <3>1, <3>2, VersionedAppend
    <3> QED
      BY <2>5, <2>6, <3>3
  <2> QED
    BY <2>4, <2>7, <2>9, <2>10 DEF more, tab
<1> QED
  BY <1>1, <1>2

\* The rows of a batch are the values of its recursive definition.
LEMMA BatchIterates ==
    ASSUME NEW existing \in Seq(AdlRows), NEW recs \in Seq(JudgedRows)
    PROVE  \E f \in [0..Len(recs) -> Seq(AdlRows)] :
              /\ f[0] = << >>
              /\ \A n \in 1..Len(recs) : f[n] = AddRow(existing, f[n - 1], recs[n])
              /\ Batch(existing, recs) = f[Len(recs)]
<1> DEFINE L == Len(recs)
           D == Seq(AdlRows)
           b == << >>
           G == [n \in 1..L |-> [rows \in D |-> AddRow(existing, rows, recs[n])]]
<1>1. L \in Nat /\ DOMAIN recs = 1..L /\ \A n \in 1..L : recs[n] \in JudgedRows
  OBVIOUS
<1> HIDE DEF L
<1>2. \A n \in 1..L : \A rows \in D : AddRow(existing, rows, recs[n]) \in D
  BY <1>1, AddRowHolds
<1>3. G \in [1..L -> [D -> D]]
  BY <1>2, Zenon
<1>4. b \in D
  OBVIOUS
<1>5. PICK f : Iteration(D, b, L, G, f)
  <2> HIDE DEF G, D, b
  <2> QED
    BY <1>1, <1>3, <1>4, Iterates, Zenon
<1>6. f \in [0..L -> D] /\ f[0] = << >> /\ \A n \in 1..L : f[n] = G[n][f[n - 1]]
  BY <1>5 DEF Iteration
<1>7. \A n \in 1..L : f[n] = AddRow(existing, f[n - 1], recs[n])
  <2> TAKE n \in 1..L
  <2>1. n - 1 \in 0..L
    BY <1>1
  <2>2. f[n - 1] \in D
    BY <1>6, <2>1, Zenon
  <2>3. G[n] = [rows \in D |-> AddRow(existing, rows, recs[n])]
    BY Zenon
  <2>4. f[n] = G[n][f[n - 1]]
    BY <1>6, Zenon
  <2> QED
    BY <2>2, <2>3, <2>4, Zenon
<1>8. f = [n \in 0..L |-> IF n = 0 THEN << >> ELSE AddRow(existing, f[n - 1], recs[n])]
  <2>1. \A n \in 0..L : n # 0 => n \in 1..L
    BY <1>1
  <2> QED
    BY <1>6, <1>7, <2>1
<1> DEFINE g == CHOOSE g : g = [n \in 0..L |-> IF n = 0 THEN << >> ELSE AddRow(existing,
      g[n - 1], recs[n])]
<1>9. g = [n \in 0..L |-> IF n = 0 THEN << >> ELSE AddRow(existing, g[n - 1], recs[n])]
  BY <1>8
<1>10. Batch(existing, recs) = g[L]
  BY DEF Batch, L
<1> HIDE DEF g
<1> DEFINE S == {n \in Nat : n <= L => g[n] = f[n]}
<1>11. 0 \in S
  BY <1>1, <1>6, <1>9
<1>12. ASSUME NEW n \in Nat, n \in S PROVE n + 1 \in S
  <2> SUFFICES ASSUME n + 1 <= L PROVE g[n + 1] = f[n + 1]
    OBVIOUS
  <2>1. n + 1 \in 1..L /\ n + 1 \in 0..L /\ n + 1 # 0 /\ (n + 1) - 1 = n /\ n <= L
    BY <1>1
  <2>2. g[n + 1] = AddRow(existing, g[n], recs[n + 1])
    BY <1>9, <2>1
  <2>3. f[n + 1] = AddRow(existing, f[n], recs[n + 1])
    BY <1>7, <2>1
  <2> QED
    BY <1>12, <2>1, <2>2, <2>3
<1>13. L \in S
  <2> HIDE DEF S
  <2> QED
    BY <1>1, <1>11, <1>12, SetInduction
<1>14. g[L] = f[L]
  BY <1>1, <1>13
<1> QED
  BY <1>6, <1>7, <1>10, <1>14 DEF L

\* What a batch consists of.
LEMMA BatchHolds ==
    ASSUME NEW existing \in Seq(AdlRows), NEW recs \in Seq(JudgedRows)
    PROVE  LET rows == Batch(existing, recs)
           IN /\ rows \in Seq(AdlRows)
              /\ Ids(recs) \subseteq Ids(existing) \cup Ids(rows)
              /\ \A i \in DOMAIN rows : \E j \in DOMAIN recs : rows[i].row = recs[j].row
                                                             /\ rows[i].status = recs[j].status
              /\ Versioned(existing) => Versioned(existing \o rows)
<1> DEFINE L == Len(recs)
           P(x) == \E j \in DOMAIN recs : x.row = recs[j].row /\ x.status = recs[j].status
           Good(n, rows) ==
              /\ rows \in Seq(AdlRows)
              /\ \A j \in 1..n : AdlId(recs[j]) \in Ids(existing) \cup Ids(rows)
              /\ \A x \in Range(rows) : P(x)
              /\ Versioned(existing) => Versioned(existing \o rows)
<1>1. L \in Nat /\ DOMAIN recs = 1..L /\ \A n \in 1..L : recs[n] \in JudgedRows
  OBVIOUS
<1>2. PICK f \in [0..L -> Seq(AdlRows)] :
              /\ f[0] = << >>
              /\ \A n \in 1..L : f[n] = AddRow(existing, f[n - 1], recs[n])
              /\ Batch(existing, recs) = f[L]
  BY BatchIterates
<1> HIDE DEF L
<1> DEFINE S == {n \in Nat : n <= L => Good(n, f[n])}
<1>3. 0 \in S
  <2>1. existing \o << >> = existing /\ Range(<< >>) = {}
    BY DEF Range
  <2>2. f[0] = << >>
    BY <1>2
  <2>3. << >> \in Seq(AdlRows) /\ \A j \in 1..0 : FALSE
    OBVIOUS
  <2>4. Good(0, << >>)
    <3> HIDE DEF P
    <3> QED
      BY <2>1, <2>3
  <2> HIDE DEF Good
  <2> QED
    BY <2>2, <2>4
<1>4. ASSUME NEW n \in Nat, n \in S PROVE n + 1 \in S
  <2> SUFFICES ASSUME n + 1 <= L PROVE Good(n + 1, f[n + 1])
    <3> HIDE DEF Good
    <3> QED
      OBVIOUS
  <2> DEFINE k == n + 1
             a == recs[k]
             more == AddRow(existing, f[n], a)
  <2>1. k \in 1..L /\ k - 1 = n /\ n <= L /\ k \in DOMAIN recs
    BY <1>1
  <2>2. f[k] = more
    <3> HIDE DEF k
    <3> QED
      BY <1>2, <2>1
  <2>3. Good(n, f[n])
    <3> HIDE DEF Good
    <3> QED
      BY <1>4, <2>1
  <2>4. a \in JudgedRows
    BY <1>1, <2>1
  <2>5. /\ more \in Seq(AdlRows)
        /\ Ids(f[n]) \subseteq Ids(more)
        /\ AdlId(a) \in Ids(existing) \cup Ids(more)
        /\ \A x \in Range(more) : x \in Range(f[n]) \/ (x.row = a.row /\ x.status = a.status)
        /\ Versioned(existing \o f[n]) => Versioned(existing \o more)
    <3> HIDE DEF a, P
    <3> QED
      BY <2>3, <2>4, AddRowHolds
  <2>6. \A j \in 1..k : j \in 1..n \/ j = k
    OBVIOUS
  <2> HIDE DEF more
  <2>7. \A j \in 1..k : AdlId(recs[j]) \in Ids(existing) \cup Ids(more)
    <3> HIDE DEF P
    <3> QED
      BY <2>3, <2>5, <2>6
  <2>8. \A x \in Range(more) : P(x)
    BY <2>1, <2>3, <2>5
  <2>9. Versioned(existing) => Versioned(existing \o more)
    BY <2>3, <2>5
  <2>10. Good(k, more)
    <3> HIDE DEF P, k
    <3> QED
      BY <2>5, <2>7, <2>8, <2>9
  <2> HIDE DEF Good
  <2> QED
    BY <2>2, <2>10
<1>5. L \in S
  <2> HIDE DEF S
  <2> QED
    BY <1>1, <1>3, <1>4, SetInduction
<1>6. Good(L, f[L])
  <2> HIDE DEF Good
  <2> QED
    BY <1>1, <1>5
<1> DEFINE rows == Batch(existing, recs)
<1>7. rows = f[L]
  BY <1>2
<1> HIDE DEF rows
<1>8. \A i \in DOMAIN rows : P(rows[i])
  <2> HIDE DEF P
  <2> QED
    BY <1>6, <1>7 DEF Range
<1>9. Ids(recs) \subseteq Ids(existing) \cup Ids(rows)
  BY <1>1, <1>6, <1>7 DEF Ids
<1> QED
  BY <1>6, <1>7, <1>8, <1>9 DEF rows

----------------------------------------------------------------------------
(* Types *)

\* The bounds are numbers, and no thread has the name of a state of the lock.
LEMMA Bounds ==
    /\ MinAnnotators \in Nat /\ MaxFailures \in Nat /\ MaxTasks \in Nat
    /\ MaxEvents \in Nat /\ MaxFaults \in Nat /\ MaxFailures > 0 /\ MaxTasks > 0
    /\ "none" \notin Threads /\ "orphan" \notin Threads
    /\ Schedulers \subseteq Threads /\ Callers \subseteq Threads
    /\ \A c \in Callers : c \notin Schedulers
  BY BoundsAssumption DEF Threads

\* The values that a recovery starts with.
LEMMA StartTypes ==
    /\ NoTasks \in Counts /\ NoSig \in Sigs /\ NoWork \in Works /\ Idle \in Procs
    /\ Fresh \in Memories
    /\ NoWork.recs = << >> /\ NoWork.counts = NoTasks /\ NoWork.disputed = {} /\ NoWork.wm = 0
    /\ Idle.pc = "idle" /\ Idle.work = NoWork /\ Idle.sig = NoSig /\ Idle.ok = TRUE
    /\ Fresh.fails = 0 /\ Fresh.stopped = FALSE
<1>1. 0 \in 0..MaxTasks /\ 0 \in 0..MaxEvents /\ 0 \in 0..MaxFailures
  BY Bounds
<1>2. NoTasks \in Counts
  BY <1>1 DEF NoTasks, Counts
<1>3. NoSig \in Sigs
  BY DEF NoSig, Sigs
<1>4. << >> \in Seq(JudgedRows)
  OBVIOUS
<1>5. NoWork \in Works
  BY <1>1, <1>2, <1>4 DEF NoWork, Works
<1>6. Idle \in Procs
  BY <1>3, <1>5 DEF Idle, Procs, Pcs
<1>7. Fresh \in Memories
  BY <1>1, <1>3 DEF Fresh, Memories
<1>8. /\ NoWork.recs = << >> /\ NoWork.counts = NoTasks /\ NoWork.disputed = {} /\ NoWork.wm = 0
      /\ Idle.pc = "idle" /\ Idle.work = NoWork /\ Idle.sig = NoSig /\ Idle.ok = TRUE
      /\ Fresh.fails = 0 /\ Fresh.stopped = FALSE
  BY DEF NoWork, Idle, Fresh
<1> QED
  BY <1>2, <1>3, <1>5, <1>6, <1>7, <1>8

\* The parts of a thread's state.
LEMMA ProcParts ==
    ASSUME proc \in [Threads -> Procs], NEW p \in Threads
    PROVE  /\ proc[p] \in Procs /\ proc[p].pc \in Pcs /\ proc[p].work \in Works
           /\ proc[p].sig \in Sigs /\ proc[p].ok \in BOOLEAN
           /\ proc[p].work.recs \in Seq(JudgedRows) \cup Seq(AdlRows)
           /\ proc[p].work.wm \in 0..MaxTasks /\ proc[p].work.counts \in Counts
           /\ proc[p].work.disputed \in SUBSET Rows
<1>1. proc[p] \in Procs
  OBVIOUS
<1>2. proc[p].pc \in Pcs /\ proc[p].work \in Works /\ proc[p].sig \in Sigs /\ proc[p].ok \in BOOLEAN
  BY <1>1 DEF Procs
<1>3. \A w \in Works : /\ w.recs \in Seq(JudgedRows) \cup Seq(AdlRows)
                       /\ w.wm \in 0..MaxTasks /\ w.counts \in Counts /\ w.disputed \in SUBSET Rows
  BY DEF Works
<1> QED
  BY <1>1, <1>2, <1>3

\* Thread p moves to this state and the others stay where they are.
Becomes(p, l, w, sg, fine) ==
    /\ proc' \in [Threads -> Procs]
    /\ proc'[p].pc = l /\ proc'[p].work = w /\ proc'[p].sig = sg /\ proc'[p].ok = fine
    /\ \A o \in Threads : o # p => proc'[o] = proc[o]

\* A thread that is given a new record.
LEMMA BecomesRecord ==
    ASSUME proc \in [Threads -> Procs], NEW p \in Threads, NEW q \in Procs,
           proc' = [proc EXCEPT ![p] = q]
    PROVE  Becomes(p, q.pc, q.work, q.sig, q.ok)
<1>1. proc' \in [Threads -> Procs] /\ proc'[p] = q /\ \A o \in Threads : o # p => proc'[o] = proc[o]
  OBVIOUS
<1> QED
  BY <1>1 DEF Becomes

\* A thread moves on with the same work.
LEMMA GotoBecomes ==
    ASSUME proc \in [Threads -> Procs], NEW p \in Threads, NEW l \in Pcs, Goto(p, l)
    PROVE  Becomes(p, l, proc[p].work, proc[p].sig, proc[p].ok)
<1> DEFINE q == [proc[p] EXCEPT !.pc = l]
<1>1. q \in Procs /\ q.pc = l /\ q.work = proc[p].work /\ q.sig = proc[p].sig /\ q.ok = proc[p].ok
  BY DEF Procs
<1>2. proc' = [proc EXCEPT ![p] = q]
  BY DEF Goto
<1> HIDE DEF q
<1> QED
  BY <1>1, <1>2, BecomesRecord

\* A thread drops its work.
LEMMA LeaveBecomes ==
    ASSUME proc \in [Threads -> Procs], NEW p \in Threads, NEW l \in Pcs, NEW fine \in BOOLEAN,
           Leave(p, l, fine)
    PROVE  Becomes(p, l, NoWork, proc[p].sig, fine)
<1> DEFINE q == [proc[p] EXCEPT !.pc = l, !.work = NoWork, !.ok = fine]
<1>1. q \in Procs /\ q.pc = l /\ q.work = NoWork /\ q.sig = proc[p].sig /\ q.ok = fine
  BY StartTypes DEF Procs
<1>2. proc' = [proc EXCEPT ![p] = q]
  BY DEF Leave
<1> HIDE DEF q
<1> QED
  BY <1>1, <1>2, BecomesRecord

\* A thread is done.
LEMMA IdleBecomes ==
    ASSUME proc \in [Threads -> Procs], NEW p \in Threads, proc' = [proc EXCEPT ![p] = Idle]
    PROVE  Becomes(p, "idle", NoWork, NoSig, TRUE)
<1>1. Becomes(p, Idle.pc, Idle.work, Idle.sig, Idle.ok)
  BY StartTypes, BecomesRecord
<1> QED
  BY <1>1, StartTypes

\* A thread moves on with other work.
LEMMA WorkBecomes ==
    ASSUME proc \in [Threads -> Procs], NEW p \in Threads, NEW l \in Pcs, NEW w \in Works,
           proc' = [proc EXCEPT ![p].pc = l, ![p].work = w]
    PROVE  Becomes(p, l, w, proc[p].sig, proc[p].ok)
<1> DEFINE q == [proc[p] EXCEPT !.pc = l, !.work = w]
<1>1. q \in Procs /\ q.pc = l /\ q.work = w /\ q.sig = proc[p].sig /\ q.ok = proc[p].ok
  BY DEF Procs
<1>2. proc' = [proc EXCEPT ![p] = q]
  OBVIOUS
<1> HIDE DEF q
<1> QED
  BY <1>1, <1>2, BecomesRecord

\* The counters that a recovery reads.
LEMMA ReadBecomes ==
    ASSUME proc \in [Threads -> Procs], NEW p \in Threads, ReadProject(p),
           watermark \in 0..MaxTasks, counts \in Counts
    PROVE  \E w \in Works : /\ Becomes(p, "lock", w, proc[p].sig, proc[p].ok)
                            /\ w.recs = proc[p].work.recs /\ w.disputed = proc[p].work.disputed
                            /\ w.counts = counts
<1> DEFINE w == [proc[p].work EXCEPT !.wm = watermark, !.counts = counts]
<1>1. proc[p].work \in Works
  BY ProcParts
<1>2. w \in Works /\ w.recs = proc[p].work.recs /\ w.disputed = proc[p].work.disputed /\
      w.counts = counts
  BY <1>1 DEF Works
<1>3. proc' = [proc EXCEPT ![p].pc = "lock", ![p].work = w]
  BY DEF ReadProject
<1> HIDE DEF w
<1>4. "lock" \in Pcs
  BY DEF Pcs
<1> QED
  BY <1>2, <1>3, <1>4, WorkBecomes

\* A thread moves on with a new batch in place of the old one.
SetRecs(p, l, rc) == proc' = [proc EXCEPT ![p].pc = l, ![p].work.recs = rc]

\* The rest of its work stays as it was.
LEMMA RecsBecome ==
    ASSUME proc \in [Threads -> Procs], NEW p \in Threads, NEW l \in Pcs,
           NEW rc \in Seq(JudgedRows) \cup Seq(AdlRows),
           SetRecs(p, l, rc)
    PROVE  \E w \in Works : /\ Becomes(p, l, w, proc[p].sig, proc[p].ok)
                            /\ w.recs = rc /\ w.disputed = proc[p].work.disputed
                            /\ w.counts = proc[p].work.counts
<1> DEFINE w == [proc[p].work EXCEPT !.recs = rc]
<1>1. proc[p].work \in Works
  BY ProcParts
<1>2. w \in Works /\ w.recs = rc /\ w.disputed = proc[p].work.disputed /\ w.counts = proc[p].work.counts
  BY <1>1 DEF Works
<1>3. proc' = [proc EXCEPT ![p].pc = l, ![p].work = w]
  BY DEF SetRecs
<1> HIDE DEF w
<1> QED
  BY <1>2, <1>3, WorkBecomes

----------------------------------------------------------------------------
(* One thread moves *)

\* What a recovery holds at a step.
Holds(l, w) ==
    /\ l = "read" => w.recs \in Seq(JudgedRows)
    /\ l = "write" => w.recs \in Seq(AdlRows)
    /\ l \notin {"read", "write"} => w.recs = << >>
    /\ l \notin {"read", "write", "watermark", "counts", "import"} => w.disputed = {}

\* A thread holds what belongs to its step.
LEMMA ThreadHolds ==
    ASSUME TypeOK, NEW p \in Threads
    PROVE  Holds(proc[p].pc, proc[p].work)
  BY DEF TypeOK, ProcOk, At, Holds

\* The types of the threads and of the schedulers' memories after a move.
LEMMA ThreadTypes ==
    ASSUME TypeOK, NEW p \in Threads, NEW l, NEW w, NEW sg, NEW fine, Becomes(p, l, w, sg, fine),
           Holds(l, w), sched' = sched, p \in Schedulers /\ l # "idle" => ~sched[p].stopped
    PROVE  (\A o \in Threads : ProcOk(o)') /\ (\A s \in Schedulers : SchedOk(s)')
<1>1. ASSUME NEW o \in Threads PROVE ProcOk(o)'
  <2>1. CASE o = p
    BY <2>1 DEF Holds, ProcOk, At, Becomes
  <2>2. CASE o # p
    <3>1. proc'[o] = proc[o]
      BY <2>2 DEF Becomes
    <3>2. ProcOk(o)
      BY DEF TypeOK
    <3> QED
      BY <3>1, <3>2 DEF ProcOk, At
  <2> QED
    BY <2>1, <2>2
<1>2. ASSUME NEW s \in Schedulers PROVE SchedOk(s)'
  <2>1. SchedOk(s) /\ s \in Threads
    BY Bounds DEF TypeOK
  <2>2. CASE s = p
    BY <2>1, <2>2 DEF SchedOk, At, Becomes
  <2>3. CASE s # p
    BY <2>1, <2>3 DEF SchedOk, At, Becomes
  <2> QED
    BY <2>2, <2>3
<1> QED
  BY <1>1, <1>2

\* More keys back the same counters, and no keys are needed to back none.
LEMMA BackedMore ==
    ASSUME NEW tasks, NEW cnt, NEW ids, NEW more, ids \subseteq more, Backed(tasks, cnt, ids)
    PROVE  Backed(tasks, cnt, more)
<1>1. \A task, k : Dealt(task, k, ids) => Dealt(task, k, more)
  BY DEF Dealt
<1> QED
  BY <1>1 DEF Backed

\* Nothing has to be in the table for counters that are zero.
LEMMA BackedNone ==
    ASSUME NEW tasks \in Seq(Tasks), Len(tasks) <= MaxTasks, NEW ids
    PROVE  Backed(tasks, NoTasks, ids)
<1>1. MaxTasks \in Nat /\ Len(tasks) \in Nat /\ DOMAIN tasks = 1..Len(tasks)
  BY Bounds
<1>2. DOMAIN tasks \subseteq TaskIds
  BY <1>1 DEF TaskIds
<1>3. \A t \in TaskIds : NoTasks[t] = 0
  BY DEF NoTasks
<1>4. \A t \in DOMAIN tasks : tasks[t].anns \in Seq(Annotations)
  <2>1. \A t \in DOMAIN tasks : tasks[t] \in Tasks
    OBVIOUS
  <2> QED
    BY <2>1 DEF Tasks
<1>5. \A t \in DOMAIN tasks : 0 <= Len(tasks[t].anns)
  BY <1>4
<1>6. 1..0 = {}
  OBVIOUS
<1> QED
  BY <1>2, <1>3, <1>5, <1>6 DEF Backed

\* The table grows and a thread moves.
LEMMA BackedMove ==
    ASSUME BackedInv, NEW p \in Threads, NEW l, NEW w, NEW sg, NEW fine, Becomes(p, l, w, sg, fine),
           ls' = ls, Ids(adl) \subseteq Ids(adl'),
           Backed(ls, counts', Ids(adl')), Backed(ls, w.counts, Ids(adl') \cup Ids(w.recs))
    PROVE  BackedInv'
<1>1. ASSUME NEW o \in Threads
      PROVE  Backed(ls, proc'[o].work.counts, Ids(adl') \cup Ids(proc'[o].work.recs))
  <2>1. CASE o = p
    BY <2>1 DEF Becomes
  <2>2. CASE o # p
    <3>1. proc'[o] = proc[o]
      BY <2>2 DEF Becomes
    <3>2. Backed(ls, proc[o].work.counts, Ids(adl) \cup Ids(proc[o].work.recs))
      BY DEF BackedInv
    <3>3. Ids(adl) \cup Ids(proc[o].work.recs) \subseteq Ids(adl') \cup Ids(proc[o].work.recs)
      OBVIOUS
    <3>4. Backed(ls, proc[o].work.counts, Ids(adl') \cup Ids(proc[o].work.recs))
      BY <3>2, <3>3, BackedMore
    <3> QED
      BY <3>1, <3>4
  <2> QED
    BY <2>1, <2>2
<1> QED
  BY <1>1 DEF BackedInv

\* A thread moves and leaves Label Studio, the table and the registry alone.
LEMMA Move ==
    ASSUME TypeOK, BackedInv, NEW p \in Threads, NEW l, NEW w, NEW sg, NEW fine,
           Becomes(p, l, w, sg, fine), Holds(l, w),
           UNCHANGED <<ls, adl, watermark, counts, sched, events>>,
           lock' \in Threads \cup {"none", "orphan"}, lapses' \subseteq {"lock", "read"},
           faults' \in 0..MaxFaults,
           p \in Schedulers /\ l # "idle" => ~sched[p].stopped,
           Backed(ls, w.counts, Ids(adl) \cup Ids(w.recs))
    PROVE  TypeOK' /\ BackedInv'
<1>1. (\A o \in Threads : ProcOk(o)') /\ (\A s \in Schedulers : SchedOk(s)')
  BY ThreadTypes
<1>2. BaseTypes'
  BY DEF TypeOK, BaseTypes, Becomes
<1>3. BackedInv'
  <2>1. Backed(ls, counts, Ids(adl))
    BY DEF BackedInv
  <2> QED
    BY <2>1, BackedMove
<1> QED
  BY <1>1, <1>2, <1>3 DEF TypeOK

\* A thread that is at work is not a stopped scheduler.
LEMMA AtWork ==
    ASSUME TypeOK, NEW p \in Threads, proc[p].pc # "idle"
    PROVE  p \in Schedulers => ~sched[p].stopped
  BY DEF TypeOK, SchedOk, At

\* The versions while the table stays as it is.
LEMMA VersionMove ==
    ASSUME TypeOK, VersionInv, NEW p \in Threads, NEW l, NEW w, NEW sg, NEW fine,
           Becomes(p, l, w, sg, fine), adl' = adl, lapses \subseteq lapses',
           lapses' = {} => /\ l \in Locked => lock' = p
                           /\ \A o \in Threads : o # p /\ lock = o => lock' = o
                           /\ l = "write" => Versioned(adl \o w.recs)
    PROVE  VersionInv'
<1> SUFFICES ASSUME lapses' = {} PROVE VersionInv'
  BY DEF VersionInv
<1>1. lapses = {}
  OBVIOUS
<1>2. Versioned(adl')
  BY <1>1 DEF VersionInv
<1>3. ASSUME NEW o \in Threads
      PROVE  /\ proc'[o].pc \in Locked => lock' = o
             /\ At(o, "write")' => Versioned(adl' \o proc'[o].work.recs)
  <2>1. CASE o = p
    BY <2>1 DEF Becomes, At
  <2>2. CASE o # p
    <3>1. proc'[o] = proc[o]
      BY <2>2 DEF Becomes
    <3>2. proc[o].pc \in Locked => lock = o
      BY <1>1 DEF VersionInv
    <3>3. At(o, "write") => Versioned(adl \o proc[o].work.recs)
      BY <1>1 DEF VersionInv
    <3> QED
      BY <2>2, <3>1, <3>2, <3>3 DEF At
  <2> QED
    BY <2>1, <2>2
<1> QED
  BY <1>2, <1>3 DEF VersionInv

\* The disputes while the table stays as it is.
LEMMA DisputeMove ==
    ASSUME DisputeInv, NEW p \in Threads, NEW l, NEW w, NEW sg, NEW fine,
           Becomes(p, l, w, sg, fine), UNCHANGED <<ls, adl, faults>>,
           faults = 0 => /\ proc[p].work.disputed \subseteq w.disputed
                         /\ \A i \in DOMAIN w.recs :
                               w.recs[i].status = "arbitration"
                               => Handed(ls, w.recs[i].row) \/ w.recs[i].row \in w.disputed
    PROVE  DisputeInv'
<1> SUFFICES ASSUME faults = 0 PROVE DisputeInv'
  BY DEF DisputeInv
<1>1. \A o \in Threads : proc[o].work.disputed \subseteq proc'[o].work.disputed
  BY DEF Becomes
<1>2. ASSUME NEW o \in Threads, NEW i \in DOMAIN proc'[o].work.recs,
             proc'[o].work.recs[i].status = "arbitration"
      PROVE  Handed(ls, proc'[o].work.recs[i].row) \/
            proc'[o].work.recs[i].row \in proc'[o].work.disputed
  <2>1. CASE o = p
    BY <1>2, <2>1 DEF Becomes
  <2>2. CASE o # p
    <3>1. proc'[o] = proc[o]
      BY <2>2 DEF Becomes
    <3> QED
      BY <1>2, <3>1 DEF DisputeInv
  <2> QED
    BY <2>1, <2>2
<1>3. ASSUME NEW i \in DOMAIN adl, adl[i].status = "arbitration"
      PROVE  \/ Handed(ls, adl[i].row) \/ Len(ls) = MaxTasks
             \/ \E o \in Threads : adl[i].row \in proc'[o].work.disputed
  BY <1>1, <1>3 DEF DisputeInv
<1> QED
  BY <1>2, <1>3 DEF DisputeInv

\* Nothing is claimed about disputes once a call has failed.
LEMMA FaultDispute ==
    ASSUME TypeOK, Fault
    PROVE  DisputeInv' /\ faults' \in 0..MaxFaults
  BY Bounds DEF TypeOK, BaseTypes, Fault, DisputeInv

----------------------------------------------------------------------------
(* The steps of recover_one *)

\* What is proved inductive: the types and the invariants behind the three properties.
IndInv == TypeOK /\ BackedInv /\ VersionInv /\ DisputeInv

\* The stages at which a recovery has exported and still has something to do.
Holding == {"read", "write", "watermark", "counts", "import"}

\* A thread moves on, holding neither a batch nor rows in dispute.
LEMMA SameWork ==
    ASSUME IndInv, NEW p \in Threads, NEW l \in Pcs \ (Holding \cup {"idle"}), Goto(p, l),
           proc[p].pc \notin Holding, p \in Schedulers => ~sched[p].stopped,
           UNCHANGED <<ls, adl, watermark, counts, sched, events>>,
           lock' \in Threads \cup {"none", "orphan"}, lapses' \subseteq {"lock", "read"},
           faults' \in 0..MaxFaults
    PROVE  /\ TypeOK' /\ BackedInv'
           /\ faults' = faults => DisputeInv'
           /\ Becomes(p, l, proc[p].work, proc[p].sig, proc[p].ok)
<1> DEFINE w == proc[p].work
<1>1. Becomes(p, l, w, proc[p].sig, proc[p].ok)
  BY GotoBecomes DEF IndInv, TypeOK, BaseTypes
<1>2. Holds(l, w)
  BY ThreadHolds DEF IndInv, Holds, Holding
<1>3. Backed(ls, w.counts, Ids(adl) \cup Ids(w.recs))
  BY DEF IndInv, BackedInv
<1> HIDE DEF w
<1>4. TypeOK' /\ BackedInv'
  BY <1>1, <1>2, <1>3, Move DEF IndInv
<1>5. ASSUME faults' = faults PROVE DisputeInv'
  <2>1. w.recs = << >> /\ DOMAIN w.recs = {}
    BY <1>2 DEF Holds, Holding
  <2>2. w.disputed = proc[p].work.disputed
    BY DEF w
  <2> QED
    BY <1>1, <1>5, <2>1, <2>2, DisputeMove DEF IndInv
<1> QED
  BY <1>1, <1>4, <1>5 DEF w

\* A thread drops its work and moves on.
LEMMA DropWork ==
    ASSUME IndInv, NEW p \in Threads, NEW l, l \notin Holding, NEW sg, NEW fine,
           Becomes(p, l, NoWork, sg, fine), p \in Schedulers /\ l # "idle" => ~sched[p].stopped,
           UNCHANGED <<ls, adl, watermark, counts, sched, events>>,
           lock' \in Threads \cup {"none", "orphan"}, lapses' \subseteq {"lock", "read"},
           faults' \in 0..MaxFaults
    PROVE  TypeOK' /\ BackedInv'
<1>1. Holds(l, NoWork)
  BY StartTypes DEF Holds, Holding
<1>2. Backed(ls, NoWork.counts, Ids(adl) \cup Ids(NoWork.recs))
  BY StartTypes, BackedNone DEF IndInv, TypeOK, BaseTypes
<1> QED
  BY <1>1, <1>2, Move DEF IndInv

\* A thread that holds no rows in dispute drops its work.
LEMMA DropDispute ==
    ASSUME IndInv, NEW p \in Threads, NEW l, NEW sg, NEW fine, Becomes(p, l, NoWork, sg, fine),
           proc[p].pc \notin Holding, UNCHANGED <<ls, adl, faults>>
    PROVE  DisputeInv'
<1>1. proc[p].work.disputed = {}
  BY ThreadHolds DEF IndInv, Holds, Holding
<1>2. DOMAIN NoWork.recs = {}
  BY StartTypes
<1> QED
  BY <1>1, <1>2, DisputeMove DEF IndInv

\* Every thread at work holds the lock, unless the lock has failed.
LEMMA LockOf ==
    ASSUME VersionInv, lapses = {}, NEW p \in Threads, proc[p].pc \in Locked
    PROVE  lock = p
  BY DEF VersionInv

\* The lock is taken.
LEMMA AcquireLockStep ==
    ASSUME IndInv, NEW p \in Threads, AcquireLock(p)
    PROVE  IndInv'
<1>1. proc[p].pc = "lock" /\ "export" \in Pcs \ (Holding \cup {"idle"}) /\ "lock" \notin Holding
  BY DEF AcquireLock, At, Pcs, Holding
<1>2. faults \in 0..MaxFaults /\ lapses \subseteq {"lock", "read"}
  BY DEF IndInv, TypeOK, BaseTypes
<1>3. /\ TypeOK' /\ BackedInv' /\ DisputeInv'
      /\ Becomes(p, "export", proc[p].work, proc[p].sig, proc[p].ok)
  BY <1>1, <1>2, SameWork, AtWork DEF AcquireLock, regVars, hist, IndInv
<1>4. \A o \in Threads : lock # o
  BY Bounds DEF AcquireLock
<1>5. VersionInv'
  BY <1>3, <1>4, VersionMove DEF AcquireLock, hist, IndInv
<1> QED
  BY <1>3, <1>5 DEF IndInv

\* Somebody else holds the lock.
LEMMA LockHeldStep ==
    ASSUME IndInv, NEW p \in Threads, LockHeld(p)
    PROVE  IndInv'
<1>1. proc[p].pc = "lock" /\ "end" \in Pcs /\ "end" \notin Holding \cup Locked /\ "lock" \notin Holding
  BY DEF LockHeld, At, Pcs, Holding, Locked
<1>2. proc \in [Threads -> Procs] /\ faults \in 0..MaxFaults /\ lapses \subseteq {"lock", "read"}
      /\ lock \in Threads \cup {"none", "orphan"}
  BY DEF IndInv, TypeOK, BaseTypes
<1>3. Becomes(p, "end", NoWork, proc[p].sig, FALSE)
  BY <1>1, <1>2, LeaveBecomes DEF LockHeld
<1>4. TypeOK' /\ BackedInv'
  BY <1>1, <1>2, <1>3, DropWork, AtWork DEF LockHeld, regVars, hist, IndInv
<1>5. VersionInv'
  BY <1>1, <1>3, VersionMove DEF LockHeld, hist, IndInv
<1>6. DisputeInv'
  BY <1>1, <1>3, DropDispute DEF LockHeld
<1> QED
  BY <1>4, <1>5, <1>6 DEF IndInv

\* Redis does not answer.
LEMMA NoRedisStep ==
    ASSUME IndInv, NEW p \in Threads, NoRedis(p)
    PROVE  IndInv'
<1>1. proc[p].pc = "lock" /\ "export" \in Pcs \ (Holding \cup {"idle"}) /\ "lock" \notin Holding
  BY DEF NoRedis, At, Pcs, Holding
<1>2. faults' \in 0..MaxFaults /\ lapses' \subseteq {"lock", "read"} /\ DisputeInv'
      /\ lock \in Threads \cup {"none", "orphan"} /\ lapses' # {}
  BY FaultDispute DEF NoRedis, IndInv, TypeOK, BaseTypes
<1>3. TypeOK' /\ BackedInv'
  BY <1>1, <1>2, SameWork, AtWork DEF NoRedis, regVars, IndInv
<1>4. VersionInv'
  BY <1>2 DEF VersionInv
<1> QED
  BY <1>2, <1>3, <1>4 DEF IndInv

\* A call fails and the work is dropped.
LEMMA CallFailsStep ==
    ASSUME IndInv, NEW p \in Threads, CallFails(p)
    PROVE  IndInv'
<1>1. proc[p].pc \in Locked /\ proc[p].pc # "idle" /\ "check" \in Pcs /\ "check" \notin Holding
  BY DEF CallFails, Pcs, Holding, Locked
<1>2. proc \in [Threads -> Procs] /\ faults' \in 0..MaxFaults /\ lapses \subseteq {"lock", "read"}
      /\ lock \in Threads \cup {"none", "orphan"} /\ DisputeInv'
  BY FaultDispute DEF CallFails, IndInv, TypeOK, BaseTypes
<1>3. Becomes(p, "check", NoWork, proc[p].sig, FALSE)
  BY <1>1, <1>2, LeaveBecomes DEF CallFails
<1>4. TypeOK' /\ BackedInv'
  BY <1>1, <1>2, <1>3, DropWork, AtWork DEF CallFails, regVars, hist, IndInv
<1>5. VersionInv'
  BY <1>1, <1>3, VersionMove, LockOf DEF CallFails, hist, IndInv
<1> QED
  BY <1>2, <1>4, <1>5 DEF IndInv

\* The token is compared.
LEMMA CheckTokenStep ==
    ASSUME IndInv, NEW p \in Threads, CheckToken(p)
    PROVE  IndInv'
<1> DEFINE l == IF lock = p THEN "delete" ELSE "end"
<1>1. proc[p].pc = "check" /\ l \in Pcs \ (Holding \cup {"idle"}) /\ "check" \notin Holding
      /\ l # "write" /\ "check" \in Locked /\ (l \in Locked => lock = p)
  BY DEF CheckToken, At, Pcs, Holding, Locked
<1>2. faults \in 0..MaxFaults /\ lapses \subseteq {"lock", "read"}
      /\ lock \in Threads \cup {"none", "orphan"}
  BY DEF IndInv, TypeOK, BaseTypes
<1>3. Goto(p, l)
  BY DEF CheckToken
<1> HIDE DEF l
<1>4. /\ TypeOK' /\ BackedInv' /\ DisputeInv'
      /\ Becomes(p, l, proc[p].work, proc[p].sig, proc[p].ok)
  BY <1>1, <1>2, <1>3, SameWork, AtWork DEF CheckToken, regVars, hist, IndInv
<1>5. VersionInv'
  BY <1>1, <1>4, VersionMove DEF CheckToken, hist, IndInv
<1> QED
  BY <1>4, <1>5 DEF IndInv

\* The lock is released.
LEMMA DeleteLockStep ==
    ASSUME IndInv, NEW p \in Threads, DeleteLock(p)
    PROVE  IndInv'
<1>1. proc[p].pc = "delete" /\ "end" \in Pcs \ (Holding \cup {"idle"}) /\ "delete" \notin Holding
      /\ "delete" \in Locked /\ "end" \notin Locked
  BY DEF DeleteLock, At, Pcs, Holding, Locked
<1>2. faults \in 0..MaxFaults /\ lapses \subseteq {"lock", "read"}
  BY DEF IndInv, TypeOK, BaseTypes
<1>3. /\ TypeOK' /\ BackedInv' /\ DisputeInv'
      /\ Becomes(p, "end", proc[p].work, proc[p].sig, proc[p].ok)
  BY <1>1, <1>2, SameWork, AtWork DEF DeleteLock, regVars, hist, IndInv
<1>4. lapses = {} => lock = p
  BY <1>1, LockOf DEF IndInv
<1>5. VersionInv'
  BY <1>1, <1>3, <1>4, VersionMove DEF DeleteLock, hist, IndInv
<1> QED
  BY <1>3, <1>5 DEF IndInv

\* The release of the lock fails.
LEMMA ReleaseFailsStep ==
    ASSUME IndInv, NEW p \in Threads, ReleaseFails(p)
    PROVE  IndInv'
<1>1. proc[p].pc \notin Holding /\ proc[p].pc # "idle" /\ "end" \in Pcs \ (Holding \cup {"idle"})
      /\ proc[p].pc \in Locked /\ "end" \notin Locked
  BY DEF ReleaseFails, Pcs, Holding, Locked
<1>2. faults' \in 0..MaxFaults /\ lapses \subseteq {"lock", "read"} /\ DisputeInv'
      /\ lock' \in Threads \cup {"none", "orphan"}
  BY FaultDispute DEF ReleaseFails, IndInv, TypeOK, BaseTypes
<1>3. /\ TypeOK' /\ BackedInv'
      /\ Becomes(p, "end", proc[p].work, proc[p].sig, proc[p].ok)
  BY <1>1, <1>2, SameWork, AtWork DEF ReleaseFails, regVars, hist, IndInv
<1>4. VersionInv'
  BY <1>1, <1>3, VersionMove DEF ReleaseFails, hist, IndInv
<1> QED
  BY <1>2, <1>3, <1>4 DEF IndInv

\* What an export counts is in the table already or in the new batch.
LEMMA ExportBacked ==
    ASSUME NEW tasks \in Seq(Tasks), Len(tasks) <= MaxTasks, NEW wm, NEW cnt \in Counts, NEW ids,
           Backed(tasks, cnt, ids)
    PROVE  LET fresh == NewTasks(tasks, wm, cnt)
           IN Backed(tasks, NewCounts(tasks), ids \cup Ids(Recovered(tasks, fresh)))
<1> DEFINE fresh == NewTasks(tasks, wm, cnt)
           got == Ids(Recovered(tasks, fresh))
           new == NewCounts(tasks)
<1>1. MaxTasks \in Nat /\ Len(tasks) \in Nat /\ DOMAIN tasks = 1..Len(tasks)
      /\ \A t \in DOMAIN tasks : tasks[t] \in Tasks
  BY Bounds
<1>2. DOMAIN tasks \subseteq TaskIds
  BY <1>1 DEF TaskIds
<1>3. \A t \in TaskIds : new[t] = IF t \in DOMAIN tasks THEN Len(tasks[t].anns) ELSE 0
  BY DEF NewCounts
<1>4. fresh \in SUBSET DOMAIN tasks
  BY DEF NewTasks
<1>5. \A t \in DOMAIN tasks : t \notin fresh => tasks[t].anns = << >> \/ ~(Len(tasks[t].anns) > cnt[t])
  BY DEF NewTasks
<1> HIDE DEF fresh
<1>6. \A t \in fresh : \A k \in DOMAIN tasks[t].anns :
         tasks[t].anns[k].content # Skipped
         => <<tasks[t].row, tasks[t].anns[k].who, tasks[t].anns[k].content>> \in got
  BY <1>4, RecoveredHolds
<1> HIDE DEF got, new
<1>7. ASSUME NEW t \in DOMAIN tasks PROVE tasks[t].anns \in Seq(Annotations)
  BY <1>1 DEF Tasks
<1>8. ASSUME NEW t \in DOMAIN tasks, NEW k \in 1..new[t] PROVE Dealt(tasks[t], k, ids \cup got)
  <2>1. new[t] = Len(tasks[t].anns) /\ k \in 1..Len(tasks[t].anns)
    BY <1>2, <1>3
  <2>2. k \in DOMAIN tasks[t].anns
    BY <1>7, <2>1
  <2>3. CASE t \in fresh
    <3> DEFINE a == tasks[t].anns[k]
    <3>1. CASE a.content = Skipped
      BY <3>1 DEF Dealt
    <3>2. CASE a.content # Skipped
      <4>1. <<tasks[t].row, a.who, a.content>> \in got
        BY <1>6, <2>2, <2>3, <3>2
      <4>2. a.content \in Versions(a)
        BY <3>2 DEF Versions
      <4> HIDE DEF a
      <4>3. \E c \in Versions(a) : <<tasks[t].row, a.who, c>> \in ids \cup got
        BY <4>1, <4>2
      <4> QED
        BY <4>3 DEF Dealt, a
    <3> QED
      BY <3>1, <3>2
  <2>4. CASE t \notin fresh
    <3>1. tasks[t].anns # << >>
      BY <2>2
    <3>2. cnt[t] \in Nat /\ Len(tasks[t].anns) \in Nat
      BY <1>2, <1>7, Bounds DEF Counts
    <3>3. k \in 1..cnt[t]
      BY <1>5, <2>1, <2>4, <3>1, <3>2
    <3>4. Dealt(tasks[t], k, ids)
      BY <3>3 DEF Backed
    <3> QED
      BY <3>4 DEF Dealt
  <2> QED
    BY <2>3, <2>4
<1>9. \A t \in DOMAIN tasks : new[t] <= Len(tasks[t].anns)
  <2> TAKE t \in DOMAIN tasks
  <2>1. Len(tasks[t].anns) \in Nat
    BY <1>7
  <2> QED
    BY <1>2, <1>3, <2>1
<1>10. \A t \in TaskIds \ DOMAIN tasks : new[t] = 0
  BY <1>3
<1>11. Backed(tasks, new, ids \cup got)
  BY <1>8, <1>9, <1>10 DEF Backed
<1> QED
  BY <1>11 DEF got, new, fresh

\* A row that the annotators dispute is handed to an expert or is to be.
LEMMA ExportDisputed ==
    ASSUME NEW tasks \in Seq(Tasks), NEW fresh \in SUBSET DOMAIN tasks, NEW recs \in Seq(Recs)
    PROVE  \A i \in DOMAIN Judged(recs) :
              Judged(recs)[i].status = "arbitration"
              => \/ Handed(tasks, Judged(recs)[i].row)
                 \/ Judged(recs)[i].row \in Disputed(tasks, fresh, recs)
<1> SUFFICES ASSUME NEW i \in DOMAIN recs, Verdict(recs, recs[i].row) = "arbitration"
             PROVE  Handed(tasks, recs[i].row) \/ recs[i].row \in Disputed(tasks, fresh, recs)
  BY JudgedHolds
<1> DEFINE r == recs[i].row
<1>1. r \in Rows
  <2>1. recs[i] \in Recs
    OBVIOUS
  <2> QED
    BY <2>1 DEF Recs
<1>2. (\E j \in DOMAIN recs : recs[j].row = r) /\ Verdict(recs, r) = "arbitration"
  OBVIOUS
<1> HIDE DEF r
<1>3. CASE \A t \in fresh : tasks[t].row = r => ~tasks[t].arb
  BY <1>1, <1>2, <1>3, Zenon DEF Disputed, r
<1>4. CASE \E t \in fresh : tasks[t].row = r /\ tasks[t].arb
  BY <1>4 DEF Handed, r
<1> QED
  BY <1>3, <1>4

\* The tasks are exported.
LEMMA ExportStep ==
    ASSUME IndInv, NEW p \in Threads, Export(p)
    PROVE  IndInv'
<1> DEFINE old == proc[p].work
           fresh == NewTasks(ls, old.wm, old.counts)
           recs == Recovered(ls, fresh)
           w == [recs |-> Judged(recs), wm |-> NewWatermark(old.wm, fresh),
                 counts |-> NewCounts(ls), disputed |-> Disputed(ls, fresh, recs)]
<1>1. proc[p].pc = "export" /\ "read" \in Pcs /\ "export" \in Locked /\ "export" \notin Holding
  BY DEF Export, At, Pcs, Locked, Holding
<1>2. BaseTypes
  BY DEF IndInv, TypeOK
<1>3. old.wm \in 0..MaxTasks /\ old.counts \in Counts
  BY <1>2, ProcParts DEF BaseTypes
<1>4. fresh \subseteq DOMAIN ls /\ NewWatermark(old.wm, fresh) \in 0..MaxTasks /\
      NewCounts(ls) \in Counts
  BY <1>2, <1>3, NewRegistryTypes DEF BaseTypes
<1>5. recs \in Seq(Recs)
  <2> HIDE DEF fresh
  <2> QED
    BY <1>2, <1>4, RecoveredHolds DEF BaseTypes
<1>6. Judged(recs) \in Seq(JudgedRows) /\ Ids(Judged(recs)) = Ids(recs)
  <2> HIDE DEF recs
  <2> QED
    BY <1>5, JudgedHolds
<1>7. Disputed(ls, fresh, recs) \in SUBSET Rows
  BY Zenon DEF Disputed
<1>8. w \in Works /\ w.recs = Judged(recs) /\ w.counts = NewCounts(ls) /\
      w.disputed = Disputed(ls, fresh, recs)
  <2> HIDE DEF recs, fresh, old
  <2> QED
    BY <1>4, <1>6, <1>7 DEF Works
<1>9. proc' = [proc EXCEPT ![p].pc = "read", ![p].work = w]
  <2> HIDE DEF IndInv
  <2> QED
    BY <1>2 DEF Export, BaseTypes
<1>10. old.recs = << >> /\ old.disputed = {}
  BY <1>1, ThreadHolds DEF IndInv, Holds
<1>11. Backed(ls, old.counts, Ids(adl))
  <2>1. Backed(ls, old.counts, Ids(adl) \cup Ids(<< >>))
    BY <1>10 DEF IndInv, BackedInv
  <2>2. Ids(<< >>) = {}
    BY DEF Ids
  <2> HIDE DEF old
  <2> QED
    BY <2>1, <2>2
<1>12. Backed(ls, w.counts, Ids(adl) \cup Ids(w.recs))
  <2>1. Backed(ls, NewCounts(ls), Ids(adl) \cup Ids(recs))
    BY <1>2, <1>3, <1>11, ExportBacked DEF BaseTypes
  <2> HIDE DEF w, recs
  <2> QED
    BY <1>6, <1>8, <2>1
<1>13. \A i \in DOMAIN w.recs :
          w.recs[i].status = "arbitration" => Handed(ls, w.recs[i].row) \/ w.recs[i].row \in w.disputed
  <2> HIDE DEF w, recs, fresh
  <2> QED
    BY <1>2, <1>4, <1>5, <1>8, ExportDisputed DEF BaseTypes
<1> HIDE DEF w
<1>14. Becomes(p, "read", w, proc[p].sig, proc[p].ok)
  BY <1>1, <1>2, <1>8, <1>9, WorkBecomes DEF BaseTypes
<1>15. Holds("read", w)
  BY <1>6, <1>8 DEF Holds
<1>16. UNCHANGED <<ls, adl, watermark, counts, lock, sched, lapses, events, faults>>
  BY DEF Export, regVars, hist
<1> HIDE DEF old, fresh, recs
<1>17. TypeOK' /\ BackedInv'
  BY <1>1, <1>2, <1>12, <1>14, <1>15, <1>16, Move, AtWork DEF IndInv, BaseTypes
<1>18. VersionInv'
  BY <1>1, <1>14, <1>16, VersionMove, LockOf DEF IndInv
<1>19. DisputeInv'
  BY <1>10, <1>13, <1>14, <1>16, DisputeMove DEF IndInv, old
<1> QED
  BY <1>17, <1>18, <1>19 DEF IndInv

\* A batch of new rows takes the place of the exported annotations.
LEMMA BatchStep ==
    ASSUME IndInv, NEW p \in Threads, proc[p].pc = "read", NEW tab \in Seq(AdlRows),
          Ids(tab) \subseteq Ids(adl),
           proc' = [proc EXCEPT ![p].pc = "write", ![p].work.recs = Batch(tab, @)],
           UNCHANGED <<ls, adl, watermark, counts, lock, sched, events>>,
           lapses' \subseteq {"lock", "read"}, lapses \subseteq lapses', faults' \in 0..MaxFaults
    PROVE  /\ TypeOK' /\ BackedInv'
           /\ (lapses' = {} => tab = adl) => VersionInv'
           /\ faults' = faults => DisputeInv'
<1> DEFINE old == proc[p].work.recs
           rc == Batch(tab, old)
<1>1. "write" \in Pcs /\ "read" \in Locked /\ "write" \in Locked
  BY DEF Pcs, Locked
<1>2. BaseTypes
  BY DEF IndInv, TypeOK
<1>3. old \in Seq(JudgedRows)
  BY ThreadHolds DEF IndInv, Holds
<1> HIDE DEF old
<1>4. /\ rc \in Seq(AdlRows)
      /\ Ids(old) \subseteq Ids(tab) \cup Ids(rc)
      /\ \A i \in DOMAIN rc : \E j \in DOMAIN old : rc[i].row = old[j].row /\
            rc[i].status = old[j].status
      /\ Versioned(tab) => Versioned(tab \o rc)
  BY <1>3, BatchHolds
<1>5. SetRecs(p, "write", rc)
  BY <1>2 DEF BaseTypes, old, SetRecs
<1> HIDE DEF rc
<1>6. PICK w \in Works : /\ Becomes(p, "write", w, proc[p].sig, proc[p].ok)
                         /\ w.recs = rc /\ w.disputed = proc[p].work.disputed
                         /\ w.counts = proc[p].work.counts
  <2>1. rc \in Seq(JudgedRows) \cup Seq(AdlRows) /\ proc \in [Threads -> Procs]
    BY <1>2, <1>4 DEF BaseTypes
  <2> QED
    BY <1>1, <1>5, <2>1, RecsBecome
<1>7. Holds("write", w)
  BY <1>4, <1>6 DEF Holds
<1>8. Backed(ls, w.counts, Ids(adl) \cup Ids(w.recs))
  <2>1. Backed(ls, w.counts, Ids(adl) \cup Ids(old))
    BY <1>6 DEF IndInv, BackedInv, old
  <2>2. Ids(adl) \cup Ids(old) \subseteq Ids(adl) \cup Ids(w.recs)
    BY <1>4, <1>6
  <2> QED
    BY <2>1, <2>2, BackedMore
<1>9. TypeOK' /\ BackedInv'
  BY <1>2, <1>6, <1>7, <1>8, Move, AtWork DEF IndInv, BaseTypes
<1>10. ASSUME lapses' = {} => tab = adl PROVE VersionInv'
  <2>1. ASSUME lapses' = {} PROVE lock' = p /\ Versioned(adl \o w.recs)
    <3>1. lapses = {} /\ tab = adl
      BY <1>10, <2>1
    <3>2. Versioned(adl)
      BY <3>1 DEF IndInv, VersionInv
    <3>3. lock = p
      BY <1>1, <3>1, LockOf DEF IndInv
    <3> QED
      BY <1>4, <1>6, <3>1, <3>2, <3>3
  <2> QED
    BY <1>6, <2>1, VersionMove DEF IndInv
<1>11. ASSUME faults' = faults PROVE DisputeInv'
  <2>1. ASSUME faults = 0, NEW i \in DOMAIN w.recs, w.recs[i].status = "arbitration"
        PROVE  Handed(ls, w.recs[i].row) \/ w.recs[i].row \in w.disputed
    <3>1. PICK j \in DOMAIN old : rc[i].row = old[j].row /\ rc[i].status = old[j].status
      BY <1>4, <1>6, <2>1
    <3>2. Handed(ls, old[j].row) \/ old[j].row \in proc[p].work.disputed
      BY <1>6, <2>1, <3>1 DEF IndInv, DisputeInv, old
    <3> QED
      BY <1>6, <3>1, <3>2
  <2> QED
    BY <1>6, <1>11, <2>1, DisputeMove DEF IndInv
<1> QED
  BY <1>9, <1>10, <1>11

\* The table is read.
LEMMA ReadAdlStep ==
    ASSUME IndInv, NEW p \in Threads, ReadAdl(p)
    PROVE  IndInv'
<1>1. BaseTypes
  BY DEF IndInv, TypeOK
<1>2. TypeOK' /\ BackedInv' /\ VersionInv' /\ DisputeInv'
  BY <1>1, BatchStep DEF ReadAdl, At, regVars, hist, BaseTypes
<1> QED
  BY <1>2 DEF IndInv

\* The table is taken for missing.
LEMMA ReadAdlFailsStep ==
    ASSUME IndInv, NEW p \in Threads, ReadAdlFails(p)
    PROVE  IndInv'
<1> DEFINE none == << >>
<1>1. BaseTypes /\ DisputeInv' /\ faults' \in 0..MaxFaults
  BY FaultDispute DEF ReadAdlFails, IndInv, TypeOK
<1>2. none \in Seq(AdlRows) /\ Ids(none) = {}
  BY DEF Ids
<1>3. proc[p].pc = "read" /\ proc' = [proc EXCEPT ![p].pc = "write", ![p].work.recs = Batch(none, @)]
  BY DEF ReadAdlFails, At
<1> HIDE DEF none
<1>4. lapses' \subseteq {"lock", "read"} /\ lapses \subseteq lapses' /\ lapses' # {}
  BY <1>1 DEF ReadAdlFails, BaseTypes
<1>5. TypeOK' /\ BackedInv' /\ VersionInv'
  BY <1>1, <1>2, <1>3, <1>4, BatchStep DEF ReadAdlFails, regVars
<1> QED
  BY <1>1, <1>5 DEF IndInv

\* The batch is appended.
LEMMA WriteAdlStep ==
    ASSUME IndInv, NEW p \in Threads, WriteAdl(p)
    PROVE  IndInv'
<1> DEFINE rc == proc[p].work.recs
           none == << >>
<1>1. proc[p].pc = "write" /\ "watermark" \in Pcs \ {"idle"} /\ {"write", "watermark"} \subseteq Locked
  BY DEF WriteAdl, At, Pcs, Locked
<1>2. BaseTypes
  BY DEF IndInv, TypeOK
<1>3. rc \in Seq(AdlRows)
  BY <1>1, ThreadHolds DEF IndInv, Holds
<1>4. adl' = adl \o rc /\ UNCHANGED <<ls, watermark, counts, lock, sched, lapses, events, faults>>
  BY DEF WriteAdl, regVars, hist
<1>5. SetRecs(p, "watermark", none)
  BY DEF WriteAdl, SetRecs
<1>6. none \in Seq(JudgedRows) \cup Seq(AdlRows) /\ proc \in [Threads -> Procs] /\ Ids(none) = {}
      /\ DOMAIN none = {}
  BY <1>2 DEF BaseTypes, Ids
<1> HIDE DEF none
<1>7. PICK w \in Works : /\ Becomes(p, "watermark", w, proc[p].sig, proc[p].ok)
                         /\ w.recs = none /\ w.disputed = proc[p].work.disputed
                         /\ w.counts = proc[p].work.counts
  <2>1. none \in Seq(JudgedRows) \cup Seq(AdlRows) /\ proc \in [Threads -> Procs] /\ "watermark" \in Pcs
    BY <1>1, <1>6
  <2> QED
    BY <1>5, <2>1, RecsBecome
<1>8. Holds("watermark", w)
  BY <1>7 DEF Holds, none
<1>9. adl' \in Seq(AdlRows) /\ Ids(adl') = Ids(adl) \cup Ids(rc)
  <2> HIDE DEF rc
  <2>1. adl \in Seq(AdlRows)
    BY <1>2 DEF BaseTypes
  <2> QED
    BY <1>3, <1>4, <2>1, IdsConcat
<1>10. TypeOK'
  <2>1. (\A o \in Threads : ProcOk(o)') /\ (\A s \in Schedulers : SchedOk(s)')
    BY <1>1, <1>4, <1>7, <1>8, ThreadTypes, AtWork DEF IndInv
  <2>2. BaseTypes'
    BY <1>2, <1>4, <1>7, <1>9 DEF BaseTypes, Becomes
  <2> QED
    BY <2>1, <2>2 DEF TypeOK
<1>11. BackedInv'
  <2>1. Backed(ls, counts', Ids(adl'))
    <3>1. Backed(ls, counts, Ids(adl))
      BY DEF IndInv, BackedInv
    <3> QED
      BY <1>4, <1>9, <3>1, BackedMore
  <2>2. Backed(ls, w.counts, Ids(adl') \cup Ids(w.recs))
    <3>1. Backed(ls, w.counts, Ids(adl) \cup Ids(rc))
      BY <1>7 DEF IndInv, BackedInv
    <3> QED
      BY <1>9, <3>1, BackedMore
  <2> QED
    BY <1>4, <1>7, <1>9, <2>1, <2>2, BackedMove DEF IndInv
<1>12. VersionInv'
  <2> SUFFICES ASSUME lapses' = {} PROVE VersionInv'
    BY DEF VersionInv
  <2>1. lapses = {} /\ lock = p
    BY <1>1, <1>4, LockOf DEF IndInv
  <2>2. Versioned(adl')
    BY <1>1, <1>4, <2>1 DEF IndInv, VersionInv, At
  <2>3. ASSUME NEW o \in Threads
        PROVE  /\ proc'[o].pc \in Locked => lock' = o
               /\ ~At(o, "write")'
    <3>1. CASE o = p
      BY <1>4, <1>7, <2>1, <3>1 DEF Becomes, At
    <3>2. CASE o # p
      <4>1. proc'[o] = proc[o] /\ proc[o].pc \notin Locked
        BY <1>7, <2>1, <3>2, LockOf DEF Becomes, IndInv
      <4> QED
        BY <1>1, <4>1 DEF At
    <3> QED
      BY <3>1, <3>2
  <2> QED
    BY <2>2, <2>3 DEF VersionInv
<1>13. DisputeInv'
  <2> SUFFICES ASSUME faults' = 0 PROVE DisputeInv'
    BY DEF DisputeInv
  <2>1. faults = 0 /\ ls' = ls
    BY <1>4
  <2>2. \A o \in Threads : proc'[o].work.disputed = proc[o].work.disputed
    BY <1>7 DEF Becomes
  <2>3. ASSUME NEW o \in Threads, NEW i \in DOMAIN proc'[o].work.recs,
               proc'[o].work.recs[i].status = "arbitration"
        PROVE  \/ Handed(ls, proc'[o].work.recs[i].row)
               \/ proc'[o].work.recs[i].row \in proc'[o].work.disputed
    <3>1. o # p
      BY <1>6, <1>7, <2>3 DEF Becomes
    <3>2. proc'[o] = proc[o]
      BY <1>7, <3>1 DEF Becomes
    <3> QED
      BY <2>1, <2>3, <3>2 DEF IndInv, DisputeInv
  <2>4. ASSUME NEW i \in DOMAIN adl', adl'[i].status = "arbitration"
        PROVE  \/ Handed(ls, adl'[i].row) \/ Len(ls) = MaxTasks
               \/ \E o \in Threads : adl'[i].row \in proc'[o].work.disputed
    <3>1. CASE i \in DOMAIN adl
      <4>1. adl'[i] = adl[i]
        <5> HIDE DEF rc
        <5> QED
          BY <1>2, <1>3, <1>4, <3>1, SeqDomains DEF BaseTypes
      <4> QED
        BY <2>1, <2>2, <2>4, <3>1, <4>1 DEF IndInv, DisputeInv
    <3>2. CASE i \notin DOMAIN adl
      <4> DEFINE j == i - Len(adl)
      <4>1. j \in DOMAIN rc /\ adl'[i] = rc[j]
        <5> HIDE DEF rc
        <5> QED
          BY <1>2, <1>3, <1>4, <2>4, <3>2, SeqDomains DEF BaseTypes
      <4> HIDE DEF j
      <4>2. Handed(ls, rc[j].row) \/ rc[j].row \in proc[p].work.disputed
        BY <2>1, <2>4, <4>1 DEF IndInv, DisputeInv
      <4> QED
        BY <2>2, <4>1, <4>2
    <3> QED
      BY <3>1, <3>2
  <2> QED
    BY <2>1, <2>3, <2>4 DEF DisputeInv
<1> QED
  BY <1>10, <1>11, <1>12, <1>13 DEF IndInv

\* The watermark is moved.
LEMMA SetWatermarkStep ==
    ASSUME IndInv, NEW p \in Threads, SetWatermark(p)
    PROVE  IndInv'
<1> DEFINE old == proc[p].work
           w == [old EXCEPT !.wm = 0]
<1>1. proc[p].pc = "watermark" /\ "counts" \in Pcs \ {"idle"} /\ {"watermark", "counts"} \subseteq Locked
  BY DEF SetWatermark, At, Pcs, Locked
<1>2. BaseTypes
  BY DEF IndInv, TypeOK
<1>3. old \in Works /\ old.wm \in 0..MaxTasks
  BY <1>2, ProcParts DEF BaseTypes
<1>4. w \in Works /\ w.recs = old.recs /\ w.disputed = old.disputed /\ w.counts = old.counts
  <2>1. 0 \in 0..MaxTasks
    BY Bounds
  <2> HIDE DEF old
  <2> QED
    BY <1>3, <2>1 DEF Works
<1>5. proc' = [proc EXCEPT ![p].pc = "counts", ![p].work = w]
  BY <1>2 DEF SetWatermark, BaseTypes
<1>6. watermark' = old.wm /\ UNCHANGED <<ls, adl, counts, lock, sched, lapses, events, faults>>
  BY DEF SetWatermark, hist
<1> HIDE DEF w
<1>7. Becomes(p, "counts", w, proc[p].sig, proc[p].ok)
  BY <1>1, <1>2, <1>4, <1>5, WorkBecomes DEF BaseTypes
<1>8. Holds("counts", w)
  BY <1>1, <1>4, ThreadHolds DEF IndInv, Holds
<1>9. TypeOK'
  <2>1. (\A o \in Threads : ProcOk(o)') /\ (\A s \in Schedulers : SchedOk(s)')
    BY <1>1, <1>6, <1>7, <1>8, ThreadTypes, AtWork DEF IndInv
  <2>2. BaseTypes'
    BY <1>2, <1>3, <1>6, <1>7 DEF BaseTypes, Becomes
  <2> QED
    BY <2>1, <2>2 DEF TypeOK
<1>10. BackedInv'
  <2>1. Backed(ls, counts, Ids(adl)) /\ Backed(ls, w.counts, Ids(adl) \cup Ids(w.recs))
    BY <1>4 DEF IndInv, BackedInv
  <2> QED
    BY <1>6, <1>7, <2>1, BackedMove DEF IndInv
<1>11. VersionInv'
  BY <1>1, <1>6, <1>7, VersionMove, LockOf DEF IndInv
<1>12. DisputeInv'
  <2>1. w.recs = << >> /\ DOMAIN w.recs = {}
    BY <1>8 DEF Holds
  <2> QED
    BY <1>4, <1>6, <1>7, <2>1, DisputeMove DEF IndInv
<1> QED
  BY <1>9, <1>10, <1>11, <1>12 DEF IndInv

\* The counters are moved.
LEMMA SetCountsStep ==
    ASSUME IndInv, NEW p \in Threads, SetCounts(p)
    PROVE  IndInv'
<1> DEFINE old == proc[p].work
           w == [old EXCEPT !.counts = NoTasks]
<1>1. proc[p].pc = "counts" /\ "import" \in Pcs \ {"idle"} /\ {"counts", "import"} \subseteq Locked
  BY DEF SetCounts, At, Pcs, Locked
<1>2. BaseTypes
  BY DEF IndInv, TypeOK
<1>3. old \in Works /\ old.counts \in Counts
  BY <1>2, ProcParts DEF BaseTypes
<1>4. w \in Works /\ w.recs = old.recs /\ w.disputed = old.disputed /\ w.counts = NoTasks
  <2> HIDE DEF old
  <2> QED
    BY <1>3, StartTypes DEF Works
<1>5. proc' = [proc EXCEPT ![p].pc = "import", ![p].work = w]
  BY <1>2 DEF SetCounts, BaseTypes
<1>6. counts' = old.counts /\ UNCHANGED <<ls, adl, watermark, lock, sched, lapses, events, faults>>
  BY DEF SetCounts, hist
<1> HIDE DEF w
<1>7. Becomes(p, "import", w, proc[p].sig, proc[p].ok)
  BY <1>1, <1>2, <1>4, <1>5, WorkBecomes DEF BaseTypes
<1>8. Holds("import", w) /\ old.recs = << >>
  BY <1>1, <1>4, ThreadHolds DEF IndInv, Holds
<1>9. TypeOK'
  <2>1. (\A o \in Threads : ProcOk(o)') /\ (\A s \in Schedulers : SchedOk(s)')
    BY <1>1, <1>6, <1>7, <1>8, ThreadTypes, AtWork DEF IndInv
  <2>2. BaseTypes'
    BY <1>2, <1>3, <1>6, <1>7 DEF BaseTypes, Becomes
  <2> QED
    BY <2>1, <2>2 DEF TypeOK
<1>10. BackedInv'
  <2>1. Backed(ls, w.counts, Ids(adl) \cup Ids(w.recs))
    BY <1>2, <1>4, BackedNone DEF BaseTypes
  <2>2. Backed(ls, counts', Ids(adl))
    <3>1. Backed(ls, old.counts, Ids(adl) \cup Ids(<< >>))
      BY <1>8 DEF IndInv, BackedInv
    <3>2. Ids(<< >>) = {}
      BY DEF Ids
    <3> HIDE DEF old
    <3> QED
      BY <1>6, <3>1, <3>2
  <2> QED
    BY <1>6, <1>7, <2>1, <2>2, BackedMove DEF IndInv
<1>11. VersionInv'
  BY <1>1, <1>6, <1>7, VersionMove, LockOf DEF IndInv
<1>12. DisputeInv'
  <2>1. w.recs = << >> /\ DOMAIN w.recs = {}
    BY <1>8 DEF Holds
  <2> QED
    BY <1>4, <1>6, <1>7, <2>1, DisputeMove DEF IndInv
<1> QED
  BY <1>9, <1>10, <1>11, <1>12 DEF IndInv

----------------------------------------------------------------------------
(* Label Studio changes *)

\* Tasks and annotations are added, and an annotation keeps the contents it has had.
Grows(old, new) ==
    /\ DOMAIN old \subseteq DOMAIN new
    /\ \A t \in DOMAIN old :
          /\ new[t].row = old[t].row /\ new[t].arb = old[t].arb
          /\ Len(old[t].anns) <= Len(new[t].anns)
          /\ \A k \in DOMAIN old[t].anns :
                /\ new[t].anns[k].who = old[t].anns[k].who
                /\ {old[t].anns[k].content} \cup old[t].anns[k].was
                   \subseteq {new[t].anns[k].content} \cup new[t].anns[k].was

\* The tasks of the project and what they hold.
LEMMA TaskParts ==
    ASSUME NEW tasks \in Seq(Tasks), NEW t \in DOMAIN tasks
    PROVE  /\ tasks[t] \in Tasks /\ tasks[t].row \in Rows /\ tasks[t].arb \in BOOLEAN
           /\ tasks[t].anns \in Seq(Annotations) /\ Len(tasks[t].anns) \in Nat
           /\ DOMAIN tasks[t].anns = 1..Len(tasks[t].anns)
<1>1. tasks[t] \in Tasks
  OBVIOUS
<1>2. tasks[t].row \in Rows /\ tasks[t].arb \in BOOLEAN /\ tasks[t].anns \in Seq(Annotations)
  BY <1>1 DEF Tasks
<1> QED
  BY <1>1, <1>2

\* Counters stay backed when Label Studio grows.
LEMMA BackedGrows ==
    ASSUME NEW old \in Seq(Tasks), NEW new \in Seq(Tasks), Len(new) <= MaxTasks, Grows(old, new),
           NEW cnt \in Counts, NEW ids, Backed(old, cnt, ids)
    PROVE  Backed(new, cnt, ids)
<1>1. DOMAIN new \subseteq TaskIds
  BY Bounds DEF TaskIds
<1>2. \A t \in TaskIds : cnt[t] \in Nat
  BY Bounds DEF Counts
<1>3. \A t \in TaskIds \ DOMAIN new : cnt[t] = 0
  BY DEF Backed, Grows
<1>4. ASSUME NEW t \in DOMAIN new
      PROVE  cnt[t] <= Len(new[t].anns) /\ \A k \in 1..cnt[t] : Dealt(new[t], k, ids)
  <2>1. CASE t \in DOMAIN old
    <3>1. cnt[t] <= Len(old[t].anns) /\ Len(old[t].anns) <= Len(new[t].anns)
      BY <2>1 DEF Backed, Grows
    <3>2. Len(old[t].anns) \in Nat /\ DOMAIN old[t].anns = 1..Len(old[t].anns) /\
          Len(new[t].anns) \in Nat
          /\ cnt[t] \in Nat
      BY <1>1, <1>2, <2>1, TaskParts
    <3>3. ASSUME NEW k \in 1..cnt[t] PROVE Dealt(new[t], k, ids)
      <4>1. k \in DOMAIN old[t].anns
        BY <3>1, <3>2
      <4>2. /\ new[t].row = old[t].row
            /\ new[t].anns[k].who = old[t].anns[k].who
            /\ {old[t].anns[k].content} \cup old[t].anns[k].was
               \subseteq {new[t].anns[k].content} \cup new[t].anns[k].was
        BY <2>1, <4>1 DEF Grows
      <4>3. Versions(old[t].anns[k]) \subseteq Versions(new[t].anns[k])
        BY <4>2 DEF Versions
      <4>4. Dealt(old[t], k, ids)
        BY <2>1 DEF Backed
      <4> QED
        BY <4>2, <4>3, <4>4 DEF Dealt
    <3>4. cnt[t] <= Len(new[t].anns)
      BY <3>1, <3>2
    <3> QED
      BY <3>3, <3>4
  <2>2. CASE t \notin DOMAIN old
    <3>1. cnt[t] = 0
      BY <1>1, <2>2 DEF Backed
    <3>2. Len(new[t].anns) \in Nat
      BY TaskParts
    <3> QED
      BY <3>1, <3>2
  <2> QED
    BY <2>1, <2>2
<1> QED
  BY <1>3, <1>4 DEF Backed

\* An arbitration task stays one.
LEMMA HandedGrows ==
    ASSUME NEW old, NEW new, Grows(old, new), NEW r, Handed(old, r)
    PROVE  Handed(new, r)
  BY DEF Handed, Grows

\* The counters while people work.
LEMMA BackedPeople ==
    ASSUME TypeOK, BackedInv, ls' \in Seq(Tasks), Len(ls') <= MaxTasks, Grows(ls, ls'),
           UNCHANGED <<adl, counts, proc>>
    PROVE  BackedInv'
<1>1. ls \in Seq(Tasks) /\ counts \in Counts /\ \A p \in Threads : proc[p].work.counts \in Counts
  BY ProcParts DEF TypeOK, BaseTypes
<1>2. Backed(ls', counts, Ids(adl))
  BY <1>1, BackedGrows DEF BackedInv
<1>3. \A p \in Threads : Backed(ls', proc[p].work.counts, Ids(adl) \cup Ids(proc[p].work.recs))
  BY <1>1, BackedGrows DEF BackedInv
<1> QED
  BY <1>2, <1>3 DEF BackedInv

\* Everything but Label Studio stays as it is.
LEMMA PeopleStep ==
    ASSUME IndInv, ls' \in Seq(Tasks), Len(ls') <= MaxTasks, Grows(ls, ls'),
           events' \in 0..MaxEvents, \A t \in DOMAIN ls' : Len(ls'[t].anns) <= events',
           Len(ls) = MaxTasks => Len(ls') = MaxTasks,
           UNCHANGED <<adl, watermark, counts, lock, proc, sched, lapses, faults>>
    PROVE  IndInv'
<1>1. TypeOK'
  BY DEF IndInv, TypeOK, BaseTypes, ProcOk, SchedOk, At
<1>2. BackedInv'
  BY BackedPeople DEF IndInv
<1>3. VersionInv'
  BY DEF IndInv, VersionInv, At
<1>4. DisputeInv'
  <2>1. \A r : Handed(ls, r) => Handed(ls', r)
    BY HandedGrows
  <2> QED
    BY <2>1 DEF IndInv, DisputeInv
<1> QED
  BY <1>1, <1>2, <1>3, <1>4 DEF IndInv

\* A new task is one.
LEMMA NewTaskHolds ==
    ASSUME NEW r \in Rows, NEW a \in BOOLEAN
    PROVE  /\ NewTask(r, a) \in Tasks
           /\ NewTask(r, a).row = r /\ NewTask(r, a).arb = a /\ NewTask(r, a).anns = << >>
  BY DEF NewTask, Tasks

\* Tasks added at the end leave the others alone.
LEMMA GrowsConcat ==
    ASSUME NEW old \in Seq(Tasks), NEW more \in Seq(Tasks)
    PROVE  Grows(old, old \o more)
<1>1. DOMAIN old \subseteq DOMAIN (old \o more) /\ \A t \in DOMAIN old : (old \o more)[t] = old[t]
  BY SeqDomains
<1>2. \A t \in DOMAIN old : Len(old[t].anns) \in Nat
  BY TaskParts
<1> QED
  BY <1>1, <1>2 DEF Grows

\* Empty tasks added at the end of the project.
LEMMA AddTasks ==
    ASSUME TypeOK, NEW more \in Seq(Tasks), \A i \in DOMAIN more : more[i].anns = << >>
    PROVE  LET new == ls \o more
           IN /\ new \in Seq(Tasks) /\ Len(new) = Len(ls) + Len(more) /\ Grows(ls, new)
              /\ \A t \in DOMAIN new : Len(new[t].anns) <= events
<1> DEFINE new == ls \o more
<1>1. ls \in Seq(Tasks) /\ events \in Nat /\ \A t \in DOMAIN ls : Len(ls[t].anns) <= events
  BY Bounds DEF TypeOK, BaseTypes
<1>2. new \in Seq(Tasks) /\ Len(new) = Len(ls) + Len(more)
  BY <1>1
<1>3. Grows(ls, new)
  BY <1>1, GrowsConcat
<1>4. ASSUME NEW t \in DOMAIN new PROVE Len(new[t].anns) <= events
  <2>1. CASE t \in DOMAIN ls
    BY <1>1, <2>1, SeqDomains
  <2>2. CASE t \notin DOMAIN ls
    <3>1. t - Len(ls) \in DOMAIN more /\ new[t] = more[t - Len(ls)]
      BY <1>1, <2>2, SeqDomains
    <3>2. Len(<< >>) = 0
      OBVIOUS
    <3> QED
      BY <1>1, <3>1, <3>2
  <2> QED
    BY <2>1, <2>2
<1> QED
  BY <1>2, <1>3, <1>4

\* A row is dispatched.
LEMMA DispatchStep ==
    ASSUME IndInv, NEW r \in Rows, Dispatch(r)
    PROVE  IndInv'
<1> DEFINE task == NewTask(r, FALSE)
           more == <<task>>
<1>1. task \in Tasks /\ task.anns = << >>
  BY NewTaskHolds
<1>2. ls \in Seq(Tasks) /\ events \in 0..MaxEvents /\ Len(ls) < MaxTasks
  BY DEF IndInv, TypeOK, BaseTypes, Dispatch
<1>3. ls' = Append(ls, task)
  BY DEF Dispatch
<1> HIDE DEF task
<1>4. ls' = ls \o more /\ more \in Seq(Tasks) /\ Len(more) = 1 /\
      \A i \in DOMAIN more : more[i].anns = << >>
  BY <1>1, <1>2, <1>3
<1> HIDE DEF more
<1>5. /\ ls' \in Seq(Tasks) /\ Len(ls') = Len(ls) + Len(more) /\ Grows(ls, ls')
      /\ \A t \in DOMAIN ls' : Len(ls'[t].anns) <= events
  BY <1>4, AddTasks DEF IndInv
<1>6. Len(ls') <= MaxTasks /\ Len(ls) # MaxTasks
  BY <1>2, <1>4, <1>5, Bounds
<1>7. UNCHANGED <<adl, watermark, counts, lock, proc, sched, lapses, events, faults>>
  BY DEF Dispatch, regVars, hist
<1> QED
  BY <1>2, <1>5, <1>6, <1>7, PeopleStep

\* One task is given other annotations.
LEMMA ReplaceAnns ==
    ASSUME IndInv, NEW t \in DOMAIN ls, NEW anns \in Seq(Annotations), Event,
           ls' = [ls EXCEPT ![t].anns = anns],
           Len(ls[t].anns) <= Len(anns), Len(anns) <= events + 1,
           \A k \in DOMAIN ls[t].anns :
              /\ anns[k].who = ls[t].anns[k].who
              /\ {ls[t].anns[k].content} \cup ls[t].anns[k].was \subseteq {anns[k].content} \cup
                    anns[k].was,
           UNCHANGED <<adl, regVars, lock, proc, sched, lapses, faults>>
    PROVE  IndInv'
<1> DEFINE task == [ls[t] EXCEPT !.anns = anns]
<1>1. ls \in Seq(Tasks) /\ Len(ls) <= MaxTasks /\ events \in 0..MaxEvents
      /\ \A o \in DOMAIN ls : Len(ls[o].anns) <= events
  BY DEF IndInv, TypeOK, BaseTypes
<1>2. \A o \in DOMAIN ls : Len(ls[o].anns) \in Nat
  BY <1>1, TaskParts
<1>3. ls[t] \in Tasks
  BY <1>1
<1>4. task \in Tasks /\ task.row = ls[t].row /\ task.arb = ls[t].arb /\ task.anns = anns
  BY <1>3 DEF Tasks
<1>5. ls' = [ls EXCEPT ![t] = task]
  OBVIOUS
<1> HIDE DEF task
<1>6. ls' \in Seq(Tasks) /\ Len(ls') = Len(ls) /\ DOMAIN ls' = DOMAIN ls /\ ls'[t] = task
      /\ \A o \in DOMAIN ls : o # t => ls'[o] = ls[o]
  <2>1. ls \in [1..Len(ls) -> Tasks] /\ Len(ls) \in Nat /\ DOMAIN ls = 1..Len(ls)
    BY <1>1
  <2>2. ls' \in [1..Len(ls) -> Tasks] /\ ls'[t] = task /\ \A o \in DOMAIN ls : o # t => ls'[o] = ls[o]
    BY <1>4, <1>5, <2>1, Zenon
  <2>3. ls' \in Seq(Tasks) /\ Len(ls') = Len(ls) /\ DOMAIN ls' = 1..Len(ls)
    BY <2>1, <2>2
  <2> QED
    BY <2>1, <2>2, <2>3
<1>7. events' = events + 1 /\ events' \in 0..MaxEvents
  BY <1>1, Bounds DEF Event
<1>8. Grows(ls, ls')
  <2>1. ASSUME NEW o \in DOMAIN ls
        PROVE  /\ ls'[o].row = ls[o].row /\ ls'[o].arb = ls[o].arb
               /\ Len(ls[o].anns) <= Len(ls'[o].anns)
               /\ \A k \in DOMAIN ls[o].anns :
                     /\ ls'[o].anns[k].who = ls[o].anns[k].who
                     /\ {ls[o].anns[k].content} \cup ls[o].anns[k].was
                        \subseteq {ls'[o].anns[k].content} \cup ls'[o].anns[k].was
    <3>1. CASE o = t
      <4>1. /\ ls'[t].row = ls[t].row /\ ls'[t].arb = ls[t].arb /\ ls'[t].anns = anns
        BY <1>4, <1>6
      <4> QED
        BY <3>1, <4>1
    <3>2. CASE o # t
      <4>1. ls'[o] = ls[o] /\ Len(ls[o].anns) \in Nat
        BY <1>2, <1>6, <3>2
      <4> QED
        BY <4>1
    <3> QED
      BY <3>1, <3>2
  <2> QED
    BY <1>6, <2>1 DEF Grows
<1>9. \A o \in DOMAIN ls' : Len(ls'[o].anns) <= events'
  <2> TAKE o \in DOMAIN ls'
  <2>1. CASE o = t
    BY <1>4, <1>6, <1>7, <2>1
  <2>2. CASE o # t
    <3>1. ls'[o] = ls[o] /\ Len(ls[o].anns) \in Nat /\ Len(ls[o].anns) <= events
      BY <1>1, <1>2, <1>6, <2>2
    <3> QED
      BY <1>1, <1>7, <3>1
  <2> QED
    BY <2>1, <2>2
<1> QED
  BY <1>1, <1>6, <1>7, <1>8, <1>9, PeopleStep DEF regVars

\* Somebody annotates.
LEMMA AnnotateStep ==
    ASSUME IndInv, NEW t \in TaskIds, NEW post \in Posts, Annotate(t, post)
    PROVE  IndInv'
<1>1. ls \in Seq(Tasks) /\ t \in DOMAIN ls /\ Event /\ events \in Nat
      /\ UNCHANGED <<adl, regVars, lock, proc, sched, lapses, faults>>
  BY Bounds DEF IndInv, TypeOK, BaseTypes, Annotate
<1>2. ls[t].arb \in BOOLEAN /\ ls[t].anns \in Seq(Annotations) /\ Len(ls[t].anns) <= events
      /\ Len(ls[t].anns) \in Nat
  BY <1>1, TaskParts DEF IndInv, TypeOK, BaseTypes
<1>3. PICK truth \in {FALSE, ls[t].arb} :
         ls' = [ls EXCEPT ![t].anns = Append(@, [who |-> post[1], content |-> post[2], truth |-> truth,
                                                 was |-> {}])]
  BY DEF Annotate
<1> DEFINE a == [who |-> post[1], content |-> post[2], truth |-> truth, was |-> {}]
           anns == Append(ls[t].anns, a)
<1>4. post[1] \in Annotators /\ post[2] \in Contents \cup {Skipped}
  BY PostsAssumption
<1>5. a \in Annotations
  <2>1. truth \in BOOLEAN
    BY <1>2
  <2> QED
    BY <1>4, <2>1 DEF Annotations
<1>6. ls' = [ls EXCEPT ![t].anns = anns]
  BY <1>1, <1>3
<1> HIDE DEF a
<1>7. anns \in Seq(Annotations) /\ Len(anns) = Len(ls[t].anns) + 1
      /\ \A k \in DOMAIN ls[t].anns : anns[k] = ls[t].anns[k]
  BY <1>2, <1>5
<1> HIDE DEF anns
<1>8. Len(ls[t].anns) <= Len(anns) /\ Len(anns) <= events + 1
  BY <1>1, <1>2, <1>7
<1> QED
  BY <1>1, <1>6, <1>7, <1>8, ReplaceAnns

\* Somebody corrects an annotation.
LEMMA EditStep ==
    ASSUME IndInv, NEW t \in TaskIds, NEW k \in 1..MaxEvents, NEW c \in Contents, Edit(t, k, c)
    PROVE  IndInv'
<1> DEFINE old == ls[t].anns
           a == [old[k] EXCEPT !.content = c, !.was = {old[k].content}]
           anns == [old EXCEPT ![k] = a]
<1>1. ls \in Seq(Tasks) /\ t \in DOMAIN ls /\ k \in DOMAIN old /\ Event /\ events \in Nat
      /\ UNCHANGED <<adl, regVars, lock, proc, sched, lapses, faults>> /\ old[k].was = {}
  BY Bounds DEF IndInv, TypeOK, BaseTypes, Edit
<1>2. old \in Seq(Annotations) /\ Len(old) <= events /\ Len(old) \in Nat
  BY <1>1, TaskParts DEF IndInv, TypeOK, BaseTypes
<1>3. old[k] \in Annotations
  <2> HIDE DEF old
  <2> QED
    BY <1>1, <1>2
<1>4. a \in Annotations /\ a.who = old[k].who /\ a.content = c /\ a.was = {old[k].content}
  <2> HIDE DEF old
  <2> QED
    BY <1>3 DEF Annotations
<1>5. ls' = [ls EXCEPT ![t].anns = anns]
  BY <1>1 DEF Edit
<1> HIDE DEF a
<1>6. anns \in Seq(Annotations) /\ Len(anns) = Len(old) /\ DOMAIN anns = DOMAIN old /\ anns[k] = a
      /\ \A i \in DOMAIN old : i # k => anns[i] = old[i]
  <2> HIDE DEF old
  <2> QED
    BY <1>1, <1>2, <1>4
<1> HIDE DEF anns
<1>7. ASSUME NEW i \in DOMAIN old
      PROVE  /\ anns[i].who = old[i].who
             /\ {old[i].content} \cup old[i].was \subseteq {anns[i].content} \cup anns[i].was
  <2>1. CASE i = k
    BY <1>1, <1>4, <1>6, <2>1
  <2>2. CASE i # k
    BY <1>6, <2>2
  <2> QED
    BY <2>1, <2>2
<1>8. Len(old) <= Len(anns) /\ Len(anns) <= events + 1
  BY <1>1, <1>2, <1>6
<1> QED
  BY <1>1, <1>5, <1>6, <1>7, <1>8, ReplaceAnns

\* As many tasks as there is room for.
LEMMA MinOfTwo ==
    ASSUME NEW a \in Nat, NEW b \in Nat
    PROVE  Min({a, b}) \in {a, b} /\ Min({a, b}) <= a /\ Min({a, b}) <= b
<1>1. \E x \in {a, b} : \A y \in {a, b} : x <= y
  OBVIOUS
<1>2. Min({a, b}) \in {a, b} /\ \A y \in {a, b} : Min({a, b}) <= y
  BY <1>1 DEF Min
<1> QED
  BY <1>2

\* The tasks for the rows in dispute are imported.
LEMMA ImportStep ==
    ASSUME IndInv, NEW p \in Threads, ImportArbitration(p)
    PROVE  IndInv'
<1> DEFINE dis  == proc[p].work.disputed
           rows == SetToSeq(dis)
           n    == Min({Len(rows), MaxTasks - Len(ls)})
           more == [i \in 1..n |-> NewTask(rows[i], TRUE)]
<1>1. proc[p].pc = "import" /\ "check" \in Pcs /\ "check" \notin Holding
      /\ "import" \in Locked /\ "check" \in Locked
  BY DEF ImportArbitration, At, Pcs, Holding, Locked
<1>2. BaseTypes
  BY DEF IndInv, TypeOK
<1>3. dis \in SUBSET Rows
  BY <1>2, ProcParts DEF BaseTypes
<1>4. IsFiniteSet(dis)
  BY <1>3, BoundsAssumption, FS_Subset
<1>5. ls' = ls \o more /\ Leave(p, "check", TRUE)
      /\ UNCHANGED <<adl, watermark, counts, lock, sched, lapses, events, faults>>
  BY DEF ImportArbitration, regVars, hist
<1> HIDE DEF dis
<1>6. rows \in Seq(dis) /\ \A r \in dis : \E i \in DOMAIN rows : rows[i] = r
  BY <1>4, SetToSeqHolds
<1> HIDE DEF rows
<1>7. Len(rows) \in Nat /\ DOMAIN rows = 1..Len(rows) /\ Len(ls) \in Nat /\ MaxTasks - Len(ls) \in Nat
      /\ MaxTasks \in Nat
  BY <1>2, <1>6, Bounds DEF BaseTypes
<1>8. n \in {Len(rows), MaxTasks - Len(ls)} /\ n <= Len(rows) /\ n <= MaxTasks - Len(ls)
  BY <1>7, MinOfTwo
<1> HIDE DEF n
<1>9. n \in Nat /\ 1..n \subseteq DOMAIN rows
  BY <1>7, <1>8
<1>10. \A i \in 1..n : rows[i] \in Rows
  BY <1>3, <1>6, <1>9
<1>11. more \in Seq(Tasks) /\ Len(more) = n /\ DOMAIN more = 1..n
       /\ \A i \in 1..n : more[i].anns = << >> /\ more[i].row = rows[i] /\ more[i].arb
  <2>1. more \in [1..n -> Tasks] /\ \A i \in 1..n : more[i] = NewTask(rows[i], TRUE)
    BY <1>10, NewTaskHolds
  <2> HIDE DEF more
  <2>2. more \in Seq(Tasks) /\ Len(more) = n /\ DOMAIN more = 1..n
    BY <1>9, <2>1
  <2>3. \A i \in 1..n : more[i].anns = << >> /\ more[i].row = rows[i] /\ more[i].arb
    <3> TAKE i \in 1..n
    <3>1. rows[i] \in Rows /\ more[i] = NewTask(rows[i], TRUE)
      BY <1>10, <2>1
    <3> QED
      BY <3>1 DEF NewTask
  <2> QED
    BY <2>2, <2>3
<1> HIDE DEF more
<1>12. /\ ls' \in Seq(Tasks) /\ Len(ls') = Len(ls) + n /\ Grows(ls, ls')
       /\ \A t \in DOMAIN ls' : Len(ls'[t].anns) <= events
  BY <1>5, <1>11, AddTasks DEF IndInv
<1>13. Len(ls') <= MaxTasks
  <2>1. Len(ls') = Len(ls) + n /\ n <= MaxTasks - Len(ls)
    BY <1>8, <1>12
  <2> QED
    BY <1>7, <1>9, <2>1
<1>14. Becomes(p, "check", NoWork, proc[p].sig, TRUE)
  BY <1>1, <1>2, <1>5, LeaveBecomes DEF BaseTypes
<1>15. TypeOK'
  <2>1. Holds("check", NoWork)
    BY StartTypes DEF Holds
  <2>2. (\A o \in Threads : ProcOk(o)') /\ (\A s \in Schedulers : SchedOk(s)')
    BY <1>1, <1>5, <1>14, <2>1, ThreadTypes, AtWork DEF IndInv
  <2>3. BaseTypes'
    BY <1>2, <1>5, <1>12, <1>13, <1>14 DEF BaseTypes, Becomes
  <2> QED
    BY <2>2, <2>3 DEF TypeOK
<1>16. BackedInv'
  <2>1. Backed(ls', counts, Ids(adl))
    BY <1>2, <1>12, <1>13, BackedGrows DEF IndInv, BackedInv, BaseTypes
  <2>2. ASSUME NEW o \in Threads
        PROVE  Backed(ls', proc'[o].work.counts, Ids(adl) \cup Ids(proc'[o].work.recs))
    <3>1. CASE o = p
      <4>1. proc'[o].work = NoWork
        BY <1>14, <3>1 DEF Becomes
      <4> QED
        BY <1>12, <1>13, <4>1, StartTypes, BackedNone
    <3>2. CASE o # p
      <4>1. proc'[o] = proc[o]
        BY <1>14, <3>2 DEF Becomes
      <4>2. proc[o].work.counts \in Counts
        BY <1>2, ProcParts DEF BaseTypes
      <4>3. Backed(ls, proc[o].work.counts, Ids(adl) \cup Ids(proc[o].work.recs))
        BY DEF IndInv, BackedInv
      <4> QED
        BY <1>2, <1>12, <1>13, <4>1, <4>2, <4>3, BackedGrows DEF BaseTypes
    <3> QED
      BY <3>1, <3>2
  <2> QED
    BY <1>5, <2>1, <2>2 DEF BackedInv
<1>17. VersionInv'
  BY <1>1, <1>5, <1>14, VersionMove, LockOf DEF IndInv
<1>18. DisputeInv'
  <2> SUFFICES ASSUME faults' = 0 PROVE DisputeInv'
    BY DEF DisputeInv
  <2>1. faults = 0 /\ adl' = adl
    BY <1>5
  <2>2. \A r : Handed(ls, r) => Handed(ls', r)
    BY <1>12, HandedGrows
  <2>3. ASSUME NEW o \in Threads, NEW i \in DOMAIN proc'[o].work.recs,
               proc'[o].work.recs[i].status = "arbitration"
        PROVE  \/ Handed(ls', proc'[o].work.recs[i].row)
               \/ proc'[o].work.recs[i].row \in proc'[o].work.disputed
    <3>1. o # p
      BY <1>14, <2>3, StartTypes DEF Becomes
    <3>2. proc'[o] = proc[o]
      BY <1>14, <3>1 DEF Becomes
    <3> QED
      BY <2>1, <2>2, <2>3, <3>2 DEF IndInv, DisputeInv
  <2>4. ASSUME NEW r \in dis PROVE Handed(ls', r) \/ Len(ls') = MaxTasks
    <3>1. CASE n = Len(rows)
      <4>1. PICK i \in 1..n : rows[i] = r
        BY <1>6, <1>7, <3>1
      <4>2. more[i].row = r /\ more[i].arb /\ i \in DOMAIN more
        BY <1>11, <4>1
      <4>3. Len(ls) + i \in DOMAIN ls' /\ ls'[Len(ls) + i] = more[i]
        BY <1>2, <1>5, <1>11, <4>2, SeqDomains DEF BaseTypes
      <4> QED
        BY <4>2, <4>3 DEF Handed
    <3>2. CASE n = MaxTasks - Len(ls)
      BY <1>7, <1>12, <3>2
    <3> QED
      BY <1>8, <3>1, <3>2
  <2>5. ASSUME NEW i \in DOMAIN adl, adl[i].status = "arbitration"
        PROVE  \/ Handed(ls', adl[i].row) \/ Len(ls') = MaxTasks
               \/ \E o \in Threads : adl[i].row \in proc'[o].work.disputed
    <3>1. CASE Handed(ls, adl[i].row)
      BY <2>2, <3>1
    <3>2. CASE Len(ls) = MaxTasks
      BY <1>7, <1>9, <1>12, <1>13, <3>2
    <3>3. CASE \E o \in Threads : adl[i].row \in proc[o].work.disputed
      <4>1. PICK o \in Threads : adl[i].row \in proc[o].work.disputed
        BY <3>3
      <4>2. CASE o = p
        BY <2>4, <4>1, <4>2 DEF dis
      <4>3. CASE o # p
        <5>1. proc'[o] = proc[o]
          BY <1>14, <4>3 DEF Becomes
        <5> QED
          BY <4>1, <5>1
      <4> QED
        BY <4>2, <4>3
    <3> QED
      BY <2>1, <2>5, <3>1, <3>2, <3>3 DEF IndInv, DisputeInv
  <2> QED
    BY <2>1, <2>3, <2>5 DEF DisputeInv
<1> QED
  BY <1>15, <1>16, <1>17, <1>18 DEF IndInv

----------------------------------------------------------------------------
(* The threads *)

\* The project's row is read.
LEMMA ReadProjectStep ==
    ASSUME IndInv, NEW p \in Threads, ReadProject(p), proc[p].pc \in {"idle", "project"},
           p \in Schedulers => ~sched[p].stopped,
           UNCHANGED <<ls, adl, regVars, lock, sched, hist, faults>>
    PROVE  IndInv'
<1>1. BaseTypes /\ UNCHANGED <<ls, adl, watermark, counts, lock, sched, lapses, events, faults>>
  BY DEF IndInv, TypeOK, regVars, hist
<1>2. PICK w \in Works : /\ Becomes(p, "lock", w, proc[p].sig, proc[p].ok)
                         /\ w.recs = proc[p].work.recs /\ w.disputed = proc[p].work.disputed
                         /\ w.counts = counts
  BY <1>1, ReadBecomes DEF BaseTypes
<1>3. w.recs = << >> /\ w.disputed = {}
  BY <1>2, ThreadHolds DEF IndInv, Holds
<1>4. Holds("lock", w) /\ DOMAIN w.recs = {}
  BY <1>3 DEF Holds
<1>5. Backed(ls, w.counts, Ids(adl) \cup Ids(w.recs))
  BY <1>2, BackedMore DEF IndInv, BackedInv
<1>6. TypeOK' /\ BackedInv'
  BY <1>1, <1>2, <1>4, <1>5, Move DEF IndInv, BaseTypes
<1>7. VersionInv'
  <2>1. "lock" \notin Locked
    BY DEF Locked
  <2> QED
    BY <1>1, <1>2, <2>1, VersionMove DEF IndInv
<1>8. DisputeInv'
  BY <1>1, <1>2, <1>4, DisputeMove DEF IndInv
<1> QED
  BY <1>6, <1>7, <1>8 DEF IndInv

\* A scheduler starts a recovery.
LEMMA StartRoundStep ==
    ASSUME IndInv, NEW s \in Schedulers, StartRound(s)
    PROVE  IndInv'
<1>1. s \in Threads /\ proc[s].pc = "project"
  BY Bounds DEF StartRound, At
<1> QED
  BY <1>1, ReadProjectStep, AtWork DEF StartRound, IndInv

\* A webhook or a user starts a recovery.
LEMMA CallStep ==
    ASSUME IndInv, NEW c \in Callers, Call(c)
    PROVE  IndInv'
<1>1. c \in Threads /\ proc[c].pc = "idle" /\ c \notin Schedulers
  BY Bounds DEF Call, At
<1> QED
  BY <1>1, ReadProjectStep DEF Call

\* A scheduler's thread goes to the project with a new signature, or with none.
LEMMA TickStarts ==
    ASSUME IndInv, NEW s \in Schedulers, proc[s].pc = "idle", ~sched[s].stopped, NEW sg \in Sigs,
          NEW fine,
           Becomes(s, "project", proc[s].work, sg, fine),
           UNCHANGED <<ls, adl, regVars, lock, sched, hist>>, faults' \in 0..MaxFaults
    PROVE  TypeOK' /\ BackedInv' /\ VersionInv' /\ (faults' = faults => DisputeInv')
<1> DEFINE w == proc[s].work
<1>1. BaseTypes /\ s \in Threads
      /\ UNCHANGED <<ls, adl, watermark, counts, lock, sched, lapses, events>>
  BY Bounds DEF IndInv, TypeOK, regVars, hist
<1>2. w.recs = << >> /\ w.disputed = {}
  BY <1>1, ThreadHolds DEF IndInv, Holds
<1>3. Backed(ls, w.counts, Ids(adl) \cup Ids(w.recs))
  BY <1>1 DEF IndInv, BackedInv
<1>4. w.disputed = proc[s].work.disputed /\ Becomes(s, "project", w, sg, fine)
  OBVIOUS
<1> HIDE DEF w
<1>5. Holds("project", w) /\ DOMAIN w.recs = {} /\ "project" \notin Locked
  BY <1>2 DEF Holds, Locked
<1>6. TypeOK' /\ BackedInv'
  BY <1>1, <1>3, <1>4, <1>5, Move DEF IndInv, BaseTypes
<1>7. VersionInv'
  BY <1>1, <1>4, <1>5, VersionMove DEF IndInv
<1>8. faults' = faults => DisputeInv'
  BY <1>1, <1>4, <1>5, DisputeMove DEF IndInv
<1> QED
  BY <1>6, <1>7, <1>8

\* Nothing but a scheduler's memory changes.
LEMMA MemoryStep ==
    ASSUME IndInv, sched' \in [Schedulers -> Memories], \A s \in Schedulers : SchedOk(s)',
           UNCHANGED <<ls, adl, watermark, counts, lock, proc, lapses, events, faults>>
    PROVE  IndInv'
<1>1. TypeOK'
  BY DEF IndInv, TypeOK, BaseTypes, ProcOk, At
<1>2. BackedInv'
  BY DEF IndInv, BackedInv
<1>3. VersionInv' /\ DisputeInv'
  BY DEF IndInv, VersionInv, DisputeInv, At
<1> QED
  BY <1>1, <1>2, <1>3 DEF IndInv

\* A scheduler looks at the project.
LEMMA TickStep ==
    ASSUME IndInv, NEW s \in Schedulers, Tick(s)
    PROVE  IndInv'
<1>1. BaseTypes /\ s \in Threads /\ proc[s].pc = "idle" /\ ~sched[s].stopped
      /\ UNCHANGED <<ls, adl, regVars, lock, hist, faults>>
  BY Bounds DEF IndInv, TypeOK, Tick, At
<1>2. CASE Unchanged(s, Signature)
  <2> DEFINE m == [sched[s] EXCEPT !.fails = 0]
  <2>1. proc' = proc /\ sched' = [sched EXCEPT ![s].fails = 0]
    BY <1>2 DEF Tick
  <2>2. sched \in [Schedulers -> Memories] /\ sched[s] \in Memories
    BY <1>1 DEF BaseTypes
  <2>3. m \in Memories /\ m.fails = 0 /\ m.stopped = sched[s].stopped
    BY <2>2, Bounds DEF Memories
  <2>4. sched' = [sched EXCEPT ![s] = m]
    BY <2>1, <2>2
  <2> HIDE DEF m
  <2>5. sched' \in [Schedulers -> Memories] /\ sched'[s] = m
        /\ \A o \in Schedulers : o # s => sched'[o] = sched[o]
    BY <2>2, <2>3, <2>4
  <2>6. ASSUME NEW o \in Schedulers PROVE SchedOk(o)'
    <3>1. SchedOk(o)
      BY DEF IndInv, TypeOK
    <3>2. CASE o = s
      BY <2>1, <2>3, <2>5, <3>1, <3>2, Bounds DEF SchedOk, At
    <3>3. CASE o # s
      BY <2>1, <2>5, <3>1, <3>3 DEF SchedOk, At
    <3> QED
      BY <3>2, <3>3
  <2> QED
    BY <1>1, <2>1, <2>5, <2>6, MemoryStep DEF regVars, hist
<1>3. CASE ~Unchanged(s, Signature)
  <2> DEFINE q == [proc[s] EXCEPT !.pc = "project", !.sig = Signature]
  <2>1. sched' = sched /\ proc' = [proc EXCEPT ![s].pc = "project", ![s].sig = Signature]
    BY <1>3 DEF Tick
  <2>2. Signature \in Sigs /\ proc \in [Threads -> Procs]
    BY <1>1, SignatureType DEF BaseTypes
  <2>3. q \in Procs /\ q.pc = "project" /\ q.work = proc[s].work /\ q.sig = Signature /\
        q.ok = proc[s].ok
    <3>1. proc[s] \in Procs /\ "project" \in Pcs
      BY <1>1, <2>2 DEF Pcs
    <3> QED
      BY <2>2, <3>1 DEF Procs
  <2>4. proc' = [proc EXCEPT ![s] = q]
    BY <2>1
  <2> HIDE DEF q
  <2>5. Becomes(s, "project", proc[s].work, Signature, proc[s].ok)
    BY <1>1, <2>2, <2>3, <2>4, BecomesRecord
  <2>6. TypeOK' /\ BackedInv' /\ VersionInv' /\ DisputeInv'
    BY <1>1, <2>1, <2>2, <2>5, TickStarts DEF BaseTypes
  <2> QED
    BY <2>6 DEF IndInv
<1> QED
  BY <1>2, <1>3

\* A scheduler cannot get the signature.
LEMMA TickWithoutSignatureStep ==
    ASSUME IndInv, NEW s \in Schedulers, TickWithoutSignature(s)
    PROVE  IndInv'
<1>1. BaseTypes /\ s \in Threads /\ proc[s].pc = "idle" /\ ~sched[s].stopped
      /\ UNCHANGED <<ls, adl, regVars, lock, sched, hist>> /\ DisputeInv' /\ faults' \in 0..MaxFaults
  BY Bounds, FaultDispute DEF IndInv, TypeOK, TickWithoutSignature, At
<1>2. proc \in [Threads -> Procs] /\ "project" \in Pcs /\ proc[s].sig \in Sigs
  BY <1>1, ProcParts DEF BaseTypes, Pcs
<1>3. Becomes(s, "project", proc[s].work, proc[s].sig, proc[s].ok)
  BY <1>1, <1>2, GotoBecomes DEF TickWithoutSignature
<1>4. TypeOK' /\ BackedInv' /\ VersionInv'
  BY <1>1, <1>2, <1>3, TickStarts
<1> QED
  BY <1>1, <1>4 DEF IndInv

\* A thread is done, and with it what it held.
LEMMA IdleStep ==
    ASSUME IndInv, NEW p \in Threads, Becomes(p, "idle", NoWork, NoSig, TRUE),
           sched' \in [Schedulers -> Memories], \A s \in Schedulers : SchedOk(s)',
           UNCHANGED <<ls, adl, watermark, counts, lapses, events>>,
           lock' \in Threads \cup {"none", "orphan"}, faults' \in 0..MaxFaults,
           \A o \in Threads : o # p /\ lock = o => lock' = o
    PROVE  TypeOK' /\ BackedInv' /\ VersionInv'
<1>1. TypeOK'
  <2>1. ASSUME NEW o \in Threads PROVE ProcOk(o)'
    <3>1. CASE o = p
      BY <3>1, StartTypes DEF ProcOk, At, Becomes
    <3>2. CASE o # p
      <4>1. proc'[o] = proc[o] /\ ProcOk(o)
        BY <3>2 DEF Becomes, IndInv, TypeOK
      <4> QED
        BY <4>1 DEF ProcOk, At
    <3> QED
      BY <3>1, <3>2
  <2>2. BaseTypes'
    BY DEF IndInv, TypeOK, BaseTypes, Becomes
  <2> QED
    BY <2>1, <2>2 DEF TypeOK
<1>2. BackedInv'
  <2>1. Backed(ls, counts, Ids(adl))
    BY DEF IndInv, BackedInv
  <2>2. Backed(ls, NoWork.counts, Ids(adl) \cup Ids(NoWork.recs))
    BY StartTypes, BackedNone DEF IndInv, TypeOK, BaseTypes
  <2> QED
    BY <2>1, <2>2, BackedMove DEF IndInv
<1>3. VersionInv'
  <2>1. "idle" \notin Locked
    BY DEF Locked
  <2> QED
    BY <2>1, VersionMove DEF IndInv
<1> QED
  BY <1>1, <1>2, <1>3

\* A round ends: the breaker counts its failure.
LEMMA EndRoundStep ==
    ASSUME IndInv, NEW s \in Schedulers, EndRound(s)
    PROVE  IndInv'
<1> DEFINE old == sched[s]
           good == [old EXCEPT !.fails = 0, !.sig = IF proc[s].sig # NoSig THEN proc[s].sig ELSE old.sig]
           bad == [old EXCEPT !.fails = old.fails + 1, !.stopped = (old.fails + 1 >= MaxFailures)]
           m == IF proc[s].ok THEN good ELSE bad
<1>1. BaseTypes /\ s \in Threads /\ proc[s].pc = "end" /\ "end" \notin Holding
      /\ UNCHANGED <<ls, adl, watermark, counts, lock, lapses, events, faults>>
  BY Bounds DEF IndInv, TypeOK, EndRound, At, Holding, regVars, hist
<1>2. sched' = [sched EXCEPT ![s] = m] /\ proc' = [proc EXCEPT ![s] = Idle]
  BY DEF EndRound
<1>3. old \in Memories /\ proc[s].sig \in Sigs /\ old.fails \in 0..MaxFailures /\ old.fails < MaxFailures
      /\ old.sig \in Sigs
  <2>1. old \in Memories /\ proc[s].sig \in Sigs
    BY <1>1, ProcParts DEF BaseTypes
  <2>2. old.fails \in 0..MaxFailures /\ old.sig \in Sigs
    BY <2>1 DEF Memories
  <2>3. old.fails < MaxFailures
    BY <1>1, AtWork DEF IndInv, TypeOK, SchedOk
  <2> QED
    BY <2>1, <2>2, <2>3
<1>4. good \in Memories /\ good.fails = 0
  <2>1. 0 \in 0..MaxFailures
    BY Bounds
  <2> HIDE DEF old
  <2> QED
    BY <1>3, <2>1 DEF Memories
<1>5. bad \in Memories /\ bad.fails = old.fails + 1 /\ bad.stopped = (old.fails + 1 >= MaxFailures)
  <2>1. old.fails + 1 \in 0..MaxFailures /\ (old.fails + 1 >= MaxFailures) \in BOOLEAN
    BY <1>3, Bounds
  <2> HIDE DEF old
  <2> QED
    BY <1>3, <2>1 DEF Memories
<1>6. m \in Memories /\ (~m.stopped => m.fails < MaxFailures)
  <2> HIDE DEF good, bad
  <2>1. CASE proc[s].ok
    BY <1>4, <2>1, Bounds
  <2>2. CASE ~proc[s].ok
    <3>1. m = bad
      BY <2>2
    <3>2. ~bad.stopped => old.fails + 1 < MaxFailures
      <4>1. old.fails + 1 >= MaxFailures \/ old.fails + 1 < MaxFailures
        BY <1>3, Bounds
      <4> QED
        BY <1>5, <4>1, Zenon
    <3> QED
      BY <1>5, <3>1, <3>2
  <2> QED
    BY <2>1, <2>2
<1> HIDE DEF m
<1>7. sched' \in [Schedulers -> Memories] /\ sched'[s] = m
      /\ \A o \in Schedulers : o # s => sched'[o] = sched[o]
  BY <1>1, <1>2, <1>6 DEF BaseTypes
<1>8. Becomes(s, "idle", NoWork, NoSig, TRUE)
  BY <1>1, <1>2, IdleBecomes DEF BaseTypes
<1>9. ASSUME NEW o \in Schedulers PROVE SchedOk(o)'
  <2>1. SchedOk(o) /\ o \in Threads
    BY Bounds DEF IndInv, TypeOK
  <2>2. CASE o = s
    BY <1>6, <1>7, <1>8, <2>2 DEF SchedOk, At, Becomes
  <2>3. CASE o # s
    BY <1>7, <1>8, <2>1, <2>3 DEF SchedOk, At, Becomes
  <2> QED
    BY <2>2, <2>3
<1>10. TypeOK' /\ BackedInv' /\ VersionInv'
  BY <1>1, <1>7, <1>8, <1>9, IdleStep DEF BaseTypes
<1>11. DisputeInv'
  BY <1>1, <1>8, DropDispute
<1> QED
  BY <1>10, <1>11 DEF IndInv

\* A call ends.
LEMMA EndCallStep ==
    ASSUME IndInv, NEW c \in Callers, EndCall(c)
    PROVE  IndInv'
<1>1. BaseTypes /\ c \in Threads /\ proc[c].pc = "end" /\ "end" \notin Holding
      /\ UNCHANGED <<ls, adl, watermark, counts, lock, sched, lapses, events, faults>>
  BY Bounds DEF IndInv, TypeOK, EndCall, At, Holding, regVars, hist
<1>2. Becomes(c, "idle", NoWork, NoSig, TRUE)
  BY <1>1, IdleBecomes DEF BaseTypes, EndCall
<1>3. \A s \in Schedulers : SchedOk(s)'
  <2>1. Holds("idle", NoWork)
    BY StartTypes DEF Holds
  <2> QED
    BY <1>1, <1>2, <2>1, ThreadTypes DEF IndInv
<1>4. TypeOK' /\ BackedInv' /\ VersionInv'
  BY <1>1, <1>2, <1>3, IdleStep DEF BaseTypes
<1>5. DisputeInv'
  BY <1>1, <1>2, DropDispute
<1> QED
  BY <1>4, <1>5 DEF IndInv

\* A worker dies.
LEMMA CrashStep ==
    ASSUME IndInv, NEW p \in Threads, Crash(p)
    PROVE  IndInv'
<1>1. BaseTypes /\ DisputeInv' /\ faults' \in 0..MaxFaults
      /\ UNCHANGED <<ls, adl, watermark, counts, lapses, events>>
  BY FaultDispute DEF IndInv, TypeOK, Crash, regVars, hist
<1>2. Becomes(p, "idle", NoWork, NoSig, TRUE)
  BY <1>1, IdleBecomes DEF BaseTypes, Crash
<1>3. lock' \in Threads \cup {"none", "orphan"} /\ \A o \in Threads : o # p /\ lock = o => lock' = o
  BY <1>1 DEF BaseTypes, Crash
<1>4. sched' = [s \in Schedulers |-> IF s = p THEN Fresh ELSE sched[s]]
  BY DEF Crash
<1>5. sched' \in [Schedulers -> Memories]
  BY <1>1, <1>4, StartTypes DEF BaseTypes
<1>6. ASSUME NEW s \in Schedulers PROVE SchedOk(s)'
  <2>1. SchedOk(s) /\ s \in Threads
    BY Bounds DEF IndInv, TypeOK
  <2>2. CASE s = p
    <3>1. sched'[s].fails = 0 /\ sched'[s].stopped = FALSE
      BY <1>4, <2>2, StartTypes
    <3> QED
      BY <1>2, <2>2, <3>1, Bounds DEF SchedOk, At, Becomes
  <2>3. CASE s # p
    <3>1. sched'[s] = sched[s]
      BY <1>4, <2>3
    <3> QED
      BY <1>2, <2>1, <2>3, <3>1 DEF SchedOk, At, Becomes
  <2> QED
    BY <2>2, <2>3
<1>7. TypeOK' /\ BackedInv' /\ VersionInv'
  BY <1>1, <1>2, <1>3, <1>5, <1>6, IdleStep
<1> QED
  BY <1>1, <1>7 DEF IndInv

\* The lock goes away by itself.
LEMMA LockExpiresStep ==
    ASSUME IndInv,
           LockExpires \/ \E p \in Threads : LockExpiresUnder(p)
    PROVE  IndInv'
<1>1. /\ UNCHANGED <<ls, adl, watermark, counts, proc, sched, events>> /\ lock' = "none"
      /\ lapses' \subseteq {"lock", "read"} /\ faults' \in 0..MaxFaults
      /\ DisputeInv' \/ faults' = faults
      /\ lapses' # {} \/ (lapses' = lapses /\ lock = "orphan")
  BY FaultDispute DEF IndInv, TypeOK, BaseTypes, LockExpires, LockExpiresUnder, regVars, hist
<1>2. TypeOK'
  BY <1>1 DEF IndInv, TypeOK, BaseTypes, ProcOk, SchedOk, At
<1>3. BackedInv'
  BY <1>1 DEF IndInv, BackedInv
<1>4. VersionInv'
  <2> SUFFICES ASSUME lapses' = {} PROVE VersionInv'
    BY DEF VersionInv
  <2>1. lapses = {} /\ \A p \in Threads : lock # p
    BY <1>1, Bounds
  <2>2. \A p \in Threads : proc[p].pc \notin Locked
    BY <2>1, LockOf DEF IndInv
  <2> QED
    BY <1>1, <2>1, <2>2 DEF IndInv, VersionInv, At
<1>5. DisputeInv'
  BY <1>1 DEF IndInv, DisputeInv
<1> QED
  BY <1>2, <1>3, <1>4, <1>5 DEF IndInv

----------------------------------------------------------------------------
(* The theorems *)

\* The project starts in the invariant.
LEMMA InitInv ==
    ASSUME Init
    PROVE  IndInv
<1>1. PICK r \in Rows : ls = <<NewTask(r, FALSE)>>
  BY DEF Init
<1>2. NewTask(r, FALSE) \in Tasks /\ NewTask(r, FALSE).anns = << >>
  BY NewTaskHolds
<1>3. ls \in Seq(Tasks) /\ Len(ls) = 1 /\ \A t \in DOMAIN ls : ls[t].anns = << >>
  <2> DEFINE task == NewTask(r, FALSE)
  <2>1. ls = <<task>> /\ task \in Tasks /\ task.anns = << >>
    BY <1>1, <1>2
  <2> HIDE DEF task
  <2>2. <<task>> \in Seq(Tasks) /\ Len(<<task>>) = 1 /\ DOMAIN <<task>> = {1} /\ <<task>>[1] = task
    BY <2>1
  <2> QED
    BY <2>1, <2>2
<1>4. \A p \in Threads : proc[p] = Idle
  BY DEF Init
<1>5. adl = << >> /\ DOMAIN adl = {} /\ counts = NoTasks /\ lapses = {} /\ watermark = 0 /\ lock = "none"
      /\ events = 0 /\ faults = 0 /\ proc = [p \in Threads |-> Idle] /\
            sched = [s \in Schedulers |-> Fresh]
  BY DEF Init
<1>6. TypeOK
  <2>1. BaseTypes
    <3>1. Len(<< >>) = 0 /\ Len(ls) <= MaxTasks
      BY <1>3, Bounds
    <3> QED
      BY <1>3, <1>5, <3>1, StartTypes, Bounds DEF BaseTypes
  <2>2. \A p \in Threads : ProcOk(p)
    BY <1>4, StartTypes DEF ProcOk, At
  <2>3. \A s \in Schedulers : SchedOk(s)
    BY <1>4, <1>5, StartTypes, Bounds DEF SchedOk, At
  <2> QED
    BY <2>1, <2>2, <2>3 DEF TypeOK
<1>7. BackedInv
  BY <1>4, <1>5, <1>6, StartTypes, BackedNone DEF TypeOK, BaseTypes, BackedInv
<1>8. VersionInv
  BY <1>4, <1>5, StartTypes DEF VersionInv, Versioned, Locked, At
<1>9. DisputeInv
  <2>1. \A p \in Threads : DOMAIN proc[p].work.recs = {}
    BY <1>4, StartTypes
  <2> QED
    BY <1>5, <2>1 DEF DisputeInv
<1> QED
  BY <1>6, <1>7, <1>8, <1>9 DEF IndInv

\* Every step keeps the invariant.
LEMMA NextInv ==
    ASSUME IndInv, [Next]_vars
    PROVE  IndInv'
<1>1. CASE UNCHANGED vars
  BY <1>1 DEF vars, IndInv, TypeOK, BaseTypes, ProcOk, SchedOk, BackedInv, VersionInv, DisputeInv, At
<1>2. ASSUME NEW p \in Threads, Work(p) PROVE IndInv'
  BY <1>2, AcquireLockStep, LockHeldStep, ExportStep, ReadAdlStep, WriteAdlStep, SetWatermarkStep,
     SetCountsStep, ImportStep, CheckTokenStep, DeleteLockStep DEF Work
<1>3. ASSUME NEW p \in Threads, Failure(p) PROVE IndInv'
  BY <1>3, NoRedisStep, LockExpiresStep, ReadAdlFailsStep, CallFailsStep, ReleaseFailsStep, CrashStep
     DEF Failure
<1>4. CASE People
  BY <1>4, DispatchStep, AnnotateStep, EditStep DEF People
<1>5. ASSUME NEW s \in Schedulers, SchedulerStep(s) PROVE IndInv'
  <2>1. s \in Threads
    BY Bounds
  <2> QED
    BY <1>2, <1>5, <2>1, TickStep, StartRoundStep, EndRoundStep DEF SchedulerStep
<1>6. ASSUME NEW c \in Callers, Call(c) \/ Work(c) \/ EndCall(c) PROVE IndInv'
  <2>1. c \in Threads
    BY Bounds
  <2> QED
    BY <1>2, <1>6, <2>1, CallStep, EndCallStep
<1>7. ASSUME NEW s \in Schedulers, TickWithoutSignature(s) PROVE IndInv'
  BY <1>7, TickWithoutSignatureStep
<1>8. CASE LockExpires
  BY <1>8, LockExpiresStep
<1> QED
  BY <1>1, <1>3, <1>4, <1>5, <1>6, <1>7, <1>8 DEF Next

\* The inductive invariant always holds.
THEOREM RecoveryInvariant == Spec => []IndInv
<1>1. Init => IndInv
  BY InitInv
<1>2. IndInv /\ [Next]_vars => IndInv'
  BY NextInv
<1> QED
  BY <1>1, <1>2, PTL DEF Spec

\* The variables keep their types: a batch is at hand exactly from the export to
\* the append, and a scheduler stops after MaxFailures failed rounds.
THEOREM TypeCorrect == Spec => []TypeOK
<1>1. IndInv => TypeOK
  BY DEF IndInv
<1> QED
  BY <1>1, RecoveryInvariant, PTL

\* The counters never run ahead of the table, however recoveries with stale
\* project rows, crashes and expired locks interleave.
THEOREM CountersBacked == Spec => []CountedIsRecorded
<1>1. ASSUME IndInv PROVE CountedIsRecorded
  <2>1. Backed(ls, counts, Ids(adl)) /\ counts \in Counts /\ Len(ls) <= MaxTasks /\ ls \in Seq(Tasks)
    BY <1>1 DEF IndInv, BackedInv, TypeOK, BaseTypes
  <2>2. ASSUME NEW t \in DOMAIN ls, NEW k \in 1..Len(ls[t].anns), k <= counts[t]
        PROVE  LET a == ls[t].anns[k]
               IN \/ Skipped \in {a.content} \cup a.was
                  \/ \E c \in Versions(a) : InAdl(ls[t].row, a.who, c)
    <3> DEFINE a == ls[t].anns[k]
    <3>1. t \in TaskIds
      BY <2>1, Bounds DEF TaskIds
    <3>2. counts[t] \in Nat
      BY <2>1, <3>1, Bounds DEF Counts
    <3>3. k \in 1..counts[t]
      BY <2>2, <3>2
    <3>4. Dealt(ls[t], k, Ids(adl))
      BY <2>1, <3>3 DEF Backed
    <3>5. \A c : <<ls[t].row, a.who, c>> \in Ids(adl) => InAdl(ls[t].row, a.who, c)
      BY DEF Ids, InAdl
    <3> QED
      BY <3>4, <3>5 DEF Dealt
  <2> QED
    BY <2>2 DEF CountedIsRecorded
<1> QED
  BY <1>1, RecoveryInvariant, PTL

\* Every content of an annotator for a row is appended once and with a growing
\* version, as long as neither the lock nor the read of the table has failed.
THEOREM TableVersioned == Spec => []AdlIsVersioned
<1>1. IndInv => AdlIsVersioned
  BY DEF IndInv, VersionInv, AdlIsVersioned
<1> QED
  BY <1>1, RecoveryInvariant, PTL

\* A dispute in the table has been handed to an expert once the recoveries are
\* over, if no call has failed and a task could be added.
THEOREM DisputesHanded == Spec => []DisputesAreArbitrated
<1>1. ASSUME IndInv PROVE DisputesAreArbitrated
  <2> SUFFICES ASSUME faults = 0, \A p \in Threads : At(p, "idle"), Len(ls) < MaxTasks,
                      NEW i \in DOMAIN adl, adl[i].status = "arbitration"
               PROVE  Handed(ls, adl[i].row)
    BY DEF DisputesAreArbitrated
  <2>1. \A p \in Threads : proc[p].work.disputed = {}
    BY <1>1, ThreadHolds DEF IndInv, Holds, At
  <2>2. Len(ls) # MaxTasks
    BY <1>1, Bounds DEF IndInv, TypeOK, BaseTypes
  <2> QED
    BY <1>1, <2>1, <2>2 DEF IndInv, DisputeInv
<1> QED
  BY <1>1, RecoveryInvariant, PTL

============================================================================
