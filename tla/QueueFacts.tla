----------------------------- MODULE QueueFacts -----------------------------
(***************************************************************************)
(* Facts about queues as the code uses them: append, and deque.remove,      *)
(* which takes out the first occurrence of an element.                      *)
(***************************************************************************)
EXTENDS Naturals, SequencesExt, SequenceTheorems, WellFoundedInduction, TLAPS

\* "<" as the relation that the theorems on well-founded sets speak of.
LEMMA LessThanAsRelation ==
  \A x, y \in Nat : <<y, x>> \in OpToRel(<, Nat) <=> y < x
BY DEF OpToRel

\* A non-empty set of naturals contains its Min, the CHOOSE of
\* FiniteSetsExt that the queue operators are built on.
LEMMA MinIsLeast ==
  ASSUME NEW S \in SUBSET Nat, S # {}
  PROVE  /\ Min(S) \in S
         /\ \A i \in S : Min(S) <= i
<1>1. PICK x \in S : \A y \in S : ~(<<y, x>> \in OpToRel(<, Nat))
  BY NatLessThanWellFounded, WFMin
<1>2. \A y \in S : ~(y < x)
  BY <1>1, LessThanAsRelation
<1>3. \A y \in S : x <= y
  BY <1>2
<1> QED
  BY <1>3 DEF Min

LEMMA MinOfTwo ==
  ASSUME NEW a \in Int, NEW b \in Int
  PROVE  Min({a, b}) = IF a <= b THEN a ELSE b
<1> DEFINE T == {a, b}
<1>1. \E x \in T : \A y \in T : x =< y
  OBVIOUS
<1>2. Min(T) \in T /\ \A y \in T : Min(T) =< y
  <2> HIDE DEF T
  <2> QED
    BY <1>1 DEF Min
<1> QED
  BY <1>2

\* The elements of a queue of members of S are members of S.
LEMMA QueueElements ==
  ASSUME NEW S, NEW q \in Seq(S)
  PROVE  ToSet(q) \subseteq S
BY LenProperties, ElementOfSeq DEF ToSet

\* The position deque.remove finds, when there is one.
LEMMA FirstPosition ==
  ASSUME NEW S, NEW q \in Seq(S), NEW t, \E n \in 1..Len(q) : q[n] = t
  PROVE  LET k == Min({i \in 1..Len(q) : q[i] = t})
         IN  /\ k \in 1..Len(q)
             /\ q[k] = t
             /\ RemoveFirst(q, t) = SubSeq(q, 1, k - 1) \o SubSeq(q, k + 1, Len(q))
<1> DEFINE I == {i \in 1..Len(q) : q[i] = t}
<1>1. Len(q) \in Nat
  BY LenProperties
<1>2. Min(I) \in 1..Len(q) /\ q[Min(I)] = t
  <2>1. I \in SUBSET Nat /\ I # {}
    BY <1>1
  <2> HIDE DEF I
  <2>2. Min(I) \in I
    BY <2>1, MinIsLeast
  <2> QED
    BY <2>2 DEF I
<1>3. RemoveFirst(q, t)
        = SubSeq(q, 1, Min(I) - 1) \o SubSeq(q, Min(I) + 1, Len(q))
  BY DEF RemoveFirst, RemoveAt, SelectInSeq
<1> QED
  BY <1>2, <1>3

\* Where the other elements are when one is taken out.
LEMMA RemoveAtElements ==
  ASSUME NEW S, NEW q \in Seq(S), NEW k \in 1..Len(q)
  PROVE  LET r == RemoveAt(q, k)
         IN  /\ r \in Seq(S)
             /\ Len(r) = Len(q) - 1
             /\ \A i \in 1..(k - 1) : r[i] = q[i]
             /\ \A i \in k..(Len(q) - 1) : r[i] = q[i + 1]
<1> DEFINE r == RemoveAt(q, k)
           before == SubSeq(q, 1, k - 1)
           after == SubSeq(q, k + 1, Len(q))
<1>1. /\ Len(q) \in Nat
      /\ \A i \in 1..Len(q) : q[i] \in S
  BY LenProperties, ElementOfSeq
<1>2. r = before \o after
  BY DEF RemoveAt
<1> HIDE DEF r
<1>3. k \in Int /\ Len(q) \in Int /\ k <= Len(q)
  BY <1>1, <1>2
<1>4. /\ before \in Seq(S)
      /\ Len(before) = k - 1
      /\ \A i \in 1..(k - 1) : before[i] = q[i]
  BY <1>1, <1>2, SubSeqProperties
<1>5. /\ after \in Seq(S)
      /\ Len(after) = Len(q) - k
      /\ \A i \in 1..(Len(q) - k) : after[i] = q[k + i]
  <2>1. \A i \in (k + 1)..Len(q) : q[i] \in S
    BY <1>1, <1>2
  <2>2. /\ after \in Seq(S)
        /\ Len(after) = IF k + 1 <= Len(q) THEN Len(q) - (k + 1) + 1 ELSE 0
        /\ \A i \in 1..(Len(q) - (k + 1) + 1) : after[i] = q[(k + 1) + i - 1]
    <3> DEFINE m == k + 1
               n == Len(q)
    <3>1. m \in Int /\ n \in Int /\ \A i \in m..n : q[i] \in S
      BY <1>3, <2>1
    <3> HIDE DEF m, n
    <3>2. /\ SubSeq(q, m, n) \in Seq(S)
          /\ Len(SubSeq(q, m, n)) = IF m <= n THEN n - m + 1 ELSE 0
          /\ \A i \in 1..(n - m + 1) : SubSeq(q, m, n)[i] = q[m + i - 1]
      BY <3>1, SubSeqProperties
    <3> QED
      BY <3>2, Zenon DEF m, n
  <2> HIDE DEF after
  <2>3. Len(after) = Len(q) - k /\ Len(q) - (k + 1) + 1 = Len(q) - k
    <3>1. CASE k + 1 <= Len(q)
      <4>1. Len(after) = Len(q) - (k + 1) + 1
        BY <2>2, <3>1
      <4> QED
        BY <1>3, <4>1
    <3>2. CASE ~(k + 1 <= Len(q))
      <4>1. Len(after) = 0
        BY <2>2, <3>2
      <4>2. k = Len(q)
        BY <1>3, <3>2
      <4> QED
        BY <1>3, <4>1, <4>2
    <3> QED
      BY <3>1, <3>2
  <2>4. ASSUME NEW i \in 1..(Len(q) - k) PROVE after[i] = q[k + i]
    <3>1. (k + 1) + i - 1 = k + i
      BY <1>1, <1>2
    <3>2. after[i] = q[(k + 1) + i - 1]
      BY <2>2, <2>3
    <3> QED
      BY <3>1, <3>2
  <2> QED
    BY <2>2, <2>3, <2>4
<1> HIDE DEF before, after
<1>6. /\ r \in Seq(S)
      /\ Len(r) = Len(before) + Len(after)
      /\ \A i \in 1..(Len(before) + Len(after)) :
            r[i] = IF i <= Len(before) THEN before[i] ELSE after[i - Len(before)]
  <2>1. /\ before \o after \in Seq(S)
        /\ Len(before \o after) = Len(before) + Len(after)
        /\ \A i \in 1..(Len(before) + Len(after)) :
              (before \o after)[i] =
                 IF i <= Len(before) THEN before[i] ELSE after[i - Len(before)]
    BY <1>4, <1>5, ConcatProperties
  <2> QED
    BY <1>2, <2>1, Zenon
<1>7. Len(r) = Len(q) - 1
  BY <1>1, <1>2, <1>4, <1>5, <1>6
<1>8. ASSUME NEW i \in 1..(k - 1)
      PROVE  i \in 1..Len(r) /\ i \in 1..Len(q) /\ i # k /\ r[i] = q[i]
  <2>1. i \in 1..Len(r) /\ i \in 1..Len(q) /\ i # k
    BY <1>1, <1>3, <1>7
  <2>2. i \in 1..(Len(before) + Len(after)) /\ i <= Len(before)
    BY <1>3, <1>4, <1>5
  <2>3. r[i] = before[i]
    BY <1>6, <2>2
  <2>4. before[i] = q[i]
    BY <1>4
  <2> QED
    BY <2>1, <2>3, <2>4
<1>9. ASSUME NEW i \in k..(Len(q) - 1)
      PROVE  /\ i \in 1..Len(r)
             /\ i + 1 \in 1..Len(q)
             /\ i + 1 # k
             /\ r[i] = q[i + 1]
  <2>1. /\ i \in 1..(Len(before) + Len(after))
        /\ ~(i <= Len(before))
        /\ i - Len(before) \in 1..(Len(q) - k)
        /\ k + (i - Len(before)) = i + 1
    BY <1>1, <1>2, <1>4, <1>5
  <2>2. r[i] = after[i - Len(before)]
    BY <1>6, <2>1
  <2>3. after[i - Len(before)] = q[i + 1]
    BY <1>5, <2>1
  <2> QED
    BY <1>1, <1>2, <1>7, <2>2, <2>3
<1> QED
  BY <1>6, <1>7, <1>8, <1>9 DEF r

\* r is the queue q without its element at some place where t is.
ClosesUp(r, q, t) ==
  /\ Len(r) = Len(q) - 1
  /\ \E k \in 1..Len(q) :
        /\ q[k] = t
        /\ \A i \in 1..(k - 1) : r[i] = q[i]
        /\ \A i \in k..(Len(q) - 1) : r[i] = q[i + 1]

\* Where the other elements are after deque.remove.
LEMMA RemoveFirstElements ==
  ASSUME NEW S, NEW q \in Seq(S), NEW t, \E n \in 1..Len(q) : q[n] = t
  PROVE  RemoveFirst(q, t) \in Seq(S) /\ ClosesUp(RemoveFirst(q, t), q, t)
<1> DEFINE k == Min({i \in 1..Len(q) : q[i] = t})
           r == RemoveAt(q, k)
<1>1. k \in 1..Len(q) /\ q[k] = t /\ RemoveFirst(q, t) = r
  BY FirstPosition DEF RemoveAt
<1> HIDE DEF k
<1>2. /\ r \in Seq(S) /\ Len(r) = Len(q) - 1
      /\ \A i \in 1..(k - 1) : r[i] = q[i]
      /\ \A i \in k..(Len(q) - 1) : r[i] = q[i + 1]
  BY <1>1, RemoveAtElements
<1> HIDE DEF r
<1> QED
  BY <1>1, <1>2 DEF ClosesUp

\* What the invariant needs of deque.remove: nothing is added, nothing but t
\* is lost, and of a queue without duplicates t is gone.
LEMMA RemoveFirstFacts ==
  ASSUME NEW S, NEW q \in Seq(S), NEW t, IsInjective(q)
  PROVE  /\ RemoveFirst(q, t) \in Seq(S)
         /\ IsInjective(RemoveFirst(q, t))
         /\ ToSet(RemoveFirst(q, t)) = ToSet(q) \ {t}
<1> DEFINE r == RemoveFirst(q, t)
<1>1. /\ Len(q) \in Nat
      /\ \A i \in 1..Len(q) : q[i] \in S
      /\ DOMAIN q = 1..Len(q)
  BY LenProperties, ElementOfSeq
<1>i. \A i, j \in 1..Len(q) : q[i] = q[j] => i = j
  BY <1>1 DEF IsInjective
<1>2. CASE \A i \in 1..Len(q) : q[i] # t
  <2>1. RemoveFirst(q, t) = q
    BY <1>2 DEF RemoveFirst
  <2>2. ToSet(q) = ToSet(q) \ {t}
    BY <1>1, <1>2 DEF ToSet
  <2> QED
    BY <2>1, <2>2
<1>3. CASE \E i \in 1..Len(q) : q[i] = t
  <2>1. /\ r \in Seq(S)
        /\ Len(r) = Len(q) - 1
        /\ \E n \in 1..Len(q) : /\ q[n] = t
                                /\ \A i \in 1..(n - 1) : r[i] = q[i]
                                /\ \A i \in n..(Len(q) - 1) : r[i] = q[i + 1]
    <3>1. r \in Seq(S) /\ ClosesUp(r, q, t)
      BY <1>3, RemoveFirstElements
    <3> HIDE DEF r
    <3> QED
      BY <3>1 DEF ClosesUp
  <2> HIDE DEF r
  <2>2. PICK k \in 1..Len(q) : /\ q[k] = t
                               /\ \A i \in 1..(k - 1) : r[i] = q[i]
                               /\ \A i \in k..(Len(q) - 1) : r[i] = q[i + 1]
    BY <2>1
  <2>3. ASSUME NEW i \in 1..(k - 1)
        PROVE  i \in 1..Len(r) /\ i \in 1..Len(q) /\ i # k /\ r[i] = q[i]
    BY <1>1, <2>1, <2>2
  <2>4. ASSUME NEW i \in k..(Len(q) - 1)
        PROVE  /\ i \in 1..Len(r)
               /\ i + 1 \in 1..Len(q)
               /\ i + 1 # k
               /\ r[i] = q[i + 1]
    BY <1>1, <2>1, <2>2
  <2>5. \A i \in 1..Len(r) : i \in 1..(k - 1) \/ i \in k..(Len(q) - 1)
    BY <1>1, <2>1
  <2>6. \A i \in 1..Len(r) : r[i] # t /\ \E j \in 1..Len(q) : r[i] = q[j]
    BY <1>i, <2>2, <2>3, <2>4, <2>5
  <2>7. ASSUME NEW j \in 1..Len(q), q[j] # t
         PROVE  \E i \in 1..Len(r) : r[i] = q[j]
    <3>1. CASE j \in 1..(k - 1)
      BY <3>1, <2>3
    <3>2. CASE j \notin 1..(k - 1)
      <4>1. j - 1 \in k..(Len(q) - 1) /\ (j - 1) + 1 = j
        BY <1>1, <2>2, <2>7, <3>2
      <4> QED
        BY <1>i, <4>1, <2>4
    <3> QED
      BY <3>1, <3>2
  <2>8. ASSUME NEW i \in 1..Len(r), NEW j \in 1..Len(r), r[i] = r[j]
         PROVE  i = j
    <3>1. CASE i \in 1..(k - 1) /\ j \in 1..(k - 1)
      BY <1>i, <2>3, <2>8, <3>1
    <3>2. CASE i \in k..(Len(q) - 1) /\ j \in k..(Len(q) - 1)
      <4>1. i + 1 \in 1..Len(q) /\ j + 1 \in 1..Len(q) /\ q[i + 1] = q[j + 1]
        BY <2>4, <2>8, <3>2
      <4>2. i + 1 = j + 1
        BY <1>i, <4>1
      <4> QED
        BY <4>2, <1>1, <2>2, <3>2
    <3>3. CASE i \in 1..(k - 1) /\ j \in k..(Len(q) - 1)
      <4>1. i \in 1..Len(q) /\ j + 1 \in 1..Len(q) /\ q[i] = q[j + 1]
        BY <2>3, <2>4, <2>8, <3>3
      <4>2. i = j + 1
        BY <1>i, <4>1
      <4> QED
        BY <4>2, <1>1, <2>2, <3>3
    <3>4. CASE i \in k..(Len(q) - 1) /\ j \in 1..(k - 1)
      <4>1. i + 1 \in 1..Len(q) /\ j \in 1..Len(q) /\ q[i + 1] = q[j]
        BY <2>3, <2>4, <2>8, <3>4
      <4>2. i + 1 = j
        BY <1>i, <4>1
      <4> QED
        BY <4>2, <1>1, <2>2, <3>4
    <3> QED
      BY <2>5, <3>1, <3>2, <3>3, <3>4
  <2>9. Len(r) \in Nat /\ DOMAIN r = 1..Len(r)
    BY <2>1, LenProperties
  <2>10. ToSet(r) = ToSet(q) \ {t}
    <3>1. ToSet(r) = {r[i] : i \in 1..Len(r)} /\ ToSet(q) = {q[j] : j \in 1..Len(q)}
      BY <1>1, <2>9 DEF ToSet
    <3>2. ASSUME NEW s \in ToSet(r) PROVE s \in ToSet(q) \ {t}
      BY <3>1, <3>2, <2>6
    <3>3. ASSUME NEW s \in ToSet(q) \ {t} PROVE s \in ToSet(r)
      BY <3>1, <3>3, <2>7
    <3> QED
      BY <3>2, <3>3
  <2>11. IsInjective(r)
    BY <2>8, <2>9 DEF IsInjective
  <2> QED
    BY <2>1, <2>10, <2>11 DEF r
<1> QED
  BY <1>2, <1>3

\* deque.append of a task that is not in the queue.
LEMMA AppendFacts ==
  ASSUME NEW S, NEW q \in Seq(S), NEW t \in S
  PROVE  /\ Append(q, t) \in Seq(S)
         /\ ToSet(Append(q, t)) = ToSet(q) \cup {t}
         /\ IsInjective(q) /\ t \notin ToSet(q) => IsInjective(Append(q, t))
<1> DEFINE r == Append(q, t)
<1>1. Len(q) \in Nat /\ DOMAIN q = 1..Len(q)
  BY LenProperties
<1>2. /\ r \in Seq(S)
      /\ Len(r) = Len(q) + 1
      /\ r[Len(q) + 1] = t
      /\ \A i \in 1..Len(q) : r[i] = q[i]
  BY AppendProperties
<1> HIDE DEF r
<1>3. DOMAIN r = 1..Len(r)
  BY <1>2, LenProperties
<1>4. \A i \in 1..Len(r) : i \in 1..Len(q) \/ i = Len(q) + 1
  BY <1>1, <1>2
<1>5. \A i \in 1..Len(q) : i \in 1..Len(r)
  BY <1>1, <1>2
<1>6. Len(q) + 1 \in 1..Len(r)
  BY <1>1, <1>2
<1>7. ToSet(r) = ToSet(q) \cup {t}
  BY <1>1, <1>2, <1>3, <1>4, <1>5, <1>6 DEF ToSet
<1>8. ASSUME IsInjective(q), t \notin ToSet(q) PROVE IsInjective(r)
  <2>1. \A i \in 1..Len(q) : q[i] # t
    BY <1>1, <1>8 DEF ToSet
  <2> QED
    BY <1>1, <1>2, <1>3, <1>4, <1>8, <2>1 DEF IsInjective
<1> QED
  BY <1>2, <1>7, <1>8 DEF r

\* Of any queue, deque.remove leaves a queue.
LEMMA RemoveFirstType ==
  ASSUME NEW S, NEW q \in Seq(S), NEW t
  PROVE  RemoveFirst(q, t) \in Seq(S)
<1>1. Len(q) \in Nat /\ \A i \in 1..Len(q) : q[i] \in S
  BY LenProperties, ElementOfSeq
<1>2. CASE \A i \in 1..Len(q) : q[i] # t
  BY <1>2 DEF RemoveFirst
<1>3. CASE \E i \in 1..Len(q) : q[i] = t
  <2> DEFINE k == Min({i \in 1..Len(q) : q[i] = t})
  <2>1. /\ k \in 1..Len(q)
        /\ RemoveFirst(q, t) = SubSeq(q, 1, k - 1) \o SubSeq(q, k + 1, Len(q))
    BY <1>3, FirstPosition
  <2> HIDE DEF k
  <2>2. SubSeq(q, 1, k - 1) \in Seq(S) /\ SubSeq(q, k + 1, Len(q)) \in Seq(S)
    BY <1>1, <2>1, SubSeqProperties
  <2>3. SubSeq(q, 1, k - 1) \o SubSeq(q, k + 1, Len(q)) \in Seq(S)
    BY <2>2, ConcatProperties
  <2> QED
    BY <2>1, <2>3, Zenon
<1> QED
  BY <1>2, <1>3

\* The elements of a queue are its first one and those of the rest.
LEMMA HeadTailElements ==
  ASSUME NEW S, NEW q \in Seq(S), q # <<>>
  PROVE  /\ Head(q) \in S /\ Tail(q) \in Seq(S)
         /\ ToSet(q) = {Head(q)} \cup ToSet(Tail(q))
<1> DEFINE r == Tail(q)
<1>1. /\ Len(q) \in Nat /\ Len(q) > 0 /\ DOMAIN q = 1..Len(q)
      /\ \A i \in 1..Len(q) : q[i] \in S
  BY LenProperties, ElementOfSeq, EmptySeq
<1>2. /\ Head(q) = q[1]
      /\ r \in Seq(S) /\ Len(r) = Len(q) - 1
      /\ \A i \in 1..Len(r) : r[i] = q[i + 1]
  BY <1>1, HeadTailProperties
<1> HIDE DEF r
<1>3. DOMAIN r = 1..(Len(q) - 1)
  BY <1>2, LenProperties
<1>4. ASSUME NEW s \in ToSet(q) PROVE s = q[1] \/ s \in ToSet(r)
  <2>1. PICK i \in 1..Len(q) : q[i] = s
    BY <1>1 DEF ToSet
  <2>2. i # 1 => i - 1 \in 1..(Len(q) - 1) /\ r[i - 1] = s
    BY <1>1, <1>2, <2>1
  <2> QED
    BY <1>3, <2>1, <2>2 DEF ToSet
<1>5. ASSUME NEW s, s = q[1] \/ s \in ToSet(r) PROVE s \in ToSet(q)
  <2>1. CASE s = q[1]
    BY <1>1, <2>1 DEF ToSet
  <2>2. CASE s \in ToSet(r)
    <3>1. PICK i \in 1..(Len(q) - 1) : r[i] = s
      BY <1>3, <2>2 DEF ToSet
    <3>2. s = q[i + 1] /\ i + 1 \in 1..Len(q)
      BY <1>1, <1>2, <3>1
    <3> QED
      BY <1>1, <3>2 DEF ToSet
  <2> QED
    BY <1>5, <2>1, <2>2
<1> QED
  BY <1>1, <1>2, <1>4, <1>5 DEF r

\* The first element leaves a queue without duplicates.
LEMMA HeadTailFacts ==
  ASSUME NEW S, NEW q \in Seq(S), q # <<>>, IsInjective(q)
  PROVE  /\ Head(q) \in S /\ Head(q) \in ToSet(q)
         /\ Tail(q) \in Seq(S) /\ IsInjective(Tail(q))
         /\ ToSet(Tail(q)) = ToSet(q) \ {Head(q)}
<1> DEFINE r == Tail(q)
<1>1. /\ Len(q) \in Nat /\ Len(q) > 0 /\ DOMAIN q = 1..Len(q)
      /\ \A i \in 1..Len(q) : q[i] \in S
      /\ \A i, j \in 1..Len(q) : q[i] = q[j] => i = j
  BY LenProperties, ElementOfSeq, EmptySeq DEF IsInjective
<1>2. /\ Head(q) = q[1]
      /\ r \in Seq(S) /\ Len(r) = Len(q) - 1
      /\ \A i \in 1..Len(r) : r[i] = q[i + 1]
  BY <1>1, HeadTailProperties
<1> HIDE DEF r
<1>3. DOMAIN r = 1..(Len(q) - 1)
  BY <1>2, LenProperties
<1>4. IsInjective(r)
  BY <1>1, <1>2, <1>3 DEF IsInjective
<1>5. ASSUME NEW s \in ToSet(r) PROVE s \in ToSet(q) \ {q[1]}
  <2>1. PICK i \in 1..(Len(q) - 1) : r[i] = s
    BY <1>3 DEF ToSet
  <2>2. s = q[i + 1] /\ i + 1 \in 1..Len(q) /\ i + 1 # 1
    BY <1>1, <1>2, <2>1
  <2> QED
    BY <1>1, <2>2 DEF ToSet
<1>6. ASSUME NEW s \in ToSet(q) \ {q[1]} PROVE s \in ToSet(r)
  <2>1. PICK i \in 1..Len(q) : q[i] = s /\ i # 1
    BY <1>1 DEF ToSet
  <2>2. i - 1 \in 1..(Len(q) - 1) /\ r[i - 1] = s
    BY <1>1, <1>2, <2>1
  <2> QED
    BY <1>3, <2>2 DEF ToSet
<1>7. q[1] \in S /\ q[1] \in ToSet(q)
  BY <1>1 DEF ToSet
<1> QED
  BY <1>2, <1>4, <1>5, <1>6, <1>7 DEF r
=============================================================================
