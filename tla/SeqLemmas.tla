------------------------------ MODULE SeqLemmas ------------------------------
(* Facts about sequences and least elements that the proofs of the           *)
(* components share.                                                         *)
EXTENDS Integers, Sequences, SequencesExt, SequenceTheorems, FiniteSetTheorems,
        WellFoundedInduction, TLAPS

\* RemoveAt drops one element and closes the gap.
LEMMA RemoveAtSeq ==
    ASSUME NEW S, NEW s \in Seq(S), NEW p \in 1..Len(s)
    PROVE  /\ RemoveAt(s, p) \in Seq(S)
           /\ Len(RemoveAt(s, p)) = Len(s) - 1
           /\ \A j \in 1..(Len(s) - 1) :
                  RemoveAt(s, p)[j] = IF j < p THEN s[j] ELSE s[j + 1]
<1> DEFINE left == SubSeq(s, 1, p - 1)
           right == SubSeq(s, p + 1, Len(s))
<1>1. /\ left \in Seq(S) /\ Len(left) = p - 1
      /\ \A j \in 1..(p - 1) : left[j] = s[j]
  <2>1. \A i \in 1..(p - 1) : s[i] \in S
    BY ElementOfSeq
  <2>2. QED
    BY <2>1, SubSeqProperties
<1>2. /\ right \in Seq(S) /\ Len(right) = Len(s) - p
      /\ \A j \in 1..(Len(s) - p) : right[j] = s[j + p]
  <2>1. \A i \in (p + 1)..Len(s) : s[i] \in S
    BY ElementOfSeq
  <2>2. /\ right \in Seq(S) /\ Len(right) = IF p + 1 <= Len(s) THEN Len(s) - (p + 1) + 1 ELSE 0
        /\ \A j \in 1..(Len(s) - (p + 1) + 1) : right[j] = s[p + 1 + j - 1]
    BY <2>1, SubSeqProperties
  <2>3. \A j \in 1..(Len(s) - p) : right[j] = s[j + p]
    <3> TAKE j \in 1..(Len(s) - p)
    <3>1. j \in 1..(Len(s) - (p + 1) + 1) /\ p + 1 + j - 1 = j + p
      OBVIOUS
    <3>2. QED
      BY <3>1, <2>2
  <2>4. QED
    BY <2>2, <2>3
<1>3. /\ left \o right \in Seq(S)
      /\ Len(left \o right) = Len(left) + Len(right)
      /\ \A i \in 1..(Len(left) + Len(right)) :
             (left \o right)[i] = IF i <= Len(left) THEN left[i] ELSE right[i - Len(left)]
  BY <1>1, <1>2, ConcatProperties
<1>4. RemoveAt(s, p) = left \o right
  BY DEF RemoveAt
<1> HIDE DEF left, right
<1>5. \A j \in 1..(Len(s) - 1) : RemoveAt(s, p)[j] = IF j < p THEN s[j] ELSE s[j + 1]
  <2> TAKE j \in 1..(Len(s) - 1)
  <2>1. CASE j < p
    BY <2>1, <1>1, <1>2, <1>3, <1>4
  <2>2. CASE j >= p
    <3>1. j - Len(left) \in 1..(Len(s) - p) /\ (j - Len(left)) + p = j + 1
      BY <2>2, <1>1
    <3>2. right[j - Len(left)] = s[j + 1]
      BY <3>1, <1>2
    <3>3. QED
      BY <2>2, <3>2, <1>1, <1>2, <1>3, <1>4
  <2>3. QED
    BY <2>1, <2>2
<1>6. Len(RemoveAt(s, p)) = Len(s) - 1
  <2>1. Len(RemoveAt(s, p)) = (p - 1) + (Len(s) - p)
    BY <1>1, <1>2, <1>3, <1>4
  <2>2. Len(s) \in Nat /\ p \in Nat
    BY LenProperties
  <2>3. QED
    BY <2>1, <2>2
<1>7. QED
  BY <1>3, <1>4, <1>5, <1>6

\* Front drops the last element and keeps the others where they are.
LEMMA FrontSeq ==
    ASSUME NEW S, NEW s \in Seq(S), s # <<>>
    PROVE  /\ Front(s) \in Seq(S)
           /\ Len(Front(s)) = Len(s) - 1
           /\ \A j \in 1..(Len(s) - 1) : Front(s)[j] = s[j]
<1>1. Len(s) \in Nat \ {0}
  BY EmptySeq
<1>2. \A i \in 1..(Len(s) - 1) : s[i] \in S
  BY <1>1, ElementOfSeq
<1> DEFINE n == Len(s) - 1
<1>3. n \in Nat /\ Front(s) = SubSeq(s, 1, n)
  BY <1>1 DEF Front
<1>4. \A i \in 1..n : s[i] \in S
  BY <1>2
<1> HIDE DEF n
<1>5. /\ SubSeq(s, 1, n) \in Seq(S)
      /\ Len(SubSeq(s, 1, n)) = IF 1 <= n THEN n - 1 + 1 ELSE 0
      /\ \A i \in 1..(n - 1 + 1) : SubSeq(s, 1, n)[i] = s[1 + i - 1]
  BY <1>3, <1>4, SubSeqProperties
<1>6. Len(SubSeq(s, 1, n)) = n /\ \A i \in 1..n : SubSeq(s, 1, n)[i] = s[i]
  BY <1>3, <1>5
<1>7. QED
  BY <1>3, <1>5, <1>6 DEF n

\* The elements of a sequence.
LEMMA ToSetOf ==
    ASSUME NEW S, NEW s \in Seq(S)
    PROVE  /\ ToSet(s) \subseteq S
           /\ \A x : x \in ToSet(s) <=> \E i \in 1..Len(s) : s[i] = x
           /\ s = <<>> => ToSet(s) = {}
<1>1. DOMAIN s = 1..Len(s)
  OBVIOUS
<1>2. \A i \in 1..Len(s) : s[i] \in S
  BY ElementOfSeq
<1>3. QED
  BY <1>1, <1>2 DEF ToSet

\* Tail drops the first element of a sequence without repetitions.
LEMMA TailSet ==
    ASSUME NEW S, NEW s \in Seq(S), s # <<>>,
           \A i, j \in DOMAIN s : s[i] = s[j] => i = j
    PROVE  /\ Tail(s) \in Seq(S)
           /\ \A i, j \in DOMAIN Tail(s) : Tail(s)[i] = Tail(s)[j] => i = j
           /\ Head(s) \in ToSet(s)
           /\ ToSet(Tail(s)) = ToSet(s) \ {Head(s)}
<1>1. /\ Tail(s) \in Seq(S) /\ Len(Tail(s)) = Len(s) - 1 /\ Len(s) \in Nat \ {0}
      /\ \A i \in 1..Len(Tail(s)) : Tail(s)[i] = s[i + 1]
  BY HeadTailProperties, EmptySeq
<1>2. DOMAIN s = 1..Len(s) /\ DOMAIN Tail(s) = 1..(Len(s) - 1) /\ Head(s) = s[1]
  BY <1>1
<1>3. \A i, j \in DOMAIN Tail(s) : Tail(s)[i] = Tail(s)[j] => i = j
  <2> SUFFICES ASSUME NEW i \in DOMAIN Tail(s), NEW j \in DOMAIN Tail(s),
                      Tail(s)[i] = Tail(s)[j]
               PROVE  i = j
    OBVIOUS
  <2>1. s[i + 1] = s[j + 1] /\ i + 1 \in DOMAIN s /\ j + 1 \in DOMAIN s
    BY <1>1, <1>2
  <2>2. i + 1 = j + 1
    BY <2>1
  <2>3. QED
    BY <2>2, <1>1, <1>2
<1>4. Head(s) \in ToSet(s)
  BY <1>1, <1>2 DEF ToSet
<1>5. ToSet(Tail(s)) \subseteq ToSet(s) \ {Head(s)}
  <2> SUFFICES ASSUME NEW i \in DOMAIN Tail(s)
               PROVE  Tail(s)[i] \in ToSet(s) \ {Head(s)}
    BY DEF ToSet
  <2>1. Tail(s)[i] = s[i + 1] /\ i + 1 \in DOMAIN s /\ i + 1 # 1 /\ 1 \in DOMAIN s
    BY <1>1, <1>2
  <2>2. s[i + 1] # s[1]
    BY <2>1
  <2>3. QED
    BY <2>1, <2>2, <1>2 DEF ToSet
<1>6. ToSet(s) \ {Head(s)} \subseteq ToSet(Tail(s))
  <2> SUFFICES ASSUME NEW i \in DOMAIN s, s[i] # Head(s)
               PROVE  s[i] \in ToSet(Tail(s))
    BY DEF ToSet
  <2>1. i # 1 /\ i \in 1..Len(s)
    BY <1>2
  <2>2. i - 1 \in DOMAIN Tail(s) /\ (i - 1) + 1 = i
    BY <2>1, <1>1, <1>2
  <2>3. Tail(s)[i - 1] = s[i]
    BY <2>2, <1>1, <1>2
  <2>4. QED
    BY <2>2, <2>3 DEF ToSet
<1>7. QED
  BY <1>1, <1>3, <1>4, <1>5, <1>6

\* Append adds a new element at the end.
LEMMA AppendSet ==
    ASSUME NEW S, NEW s \in Seq(S), NEW w \in S, w \notin ToSet(s),
           \A i, j \in DOMAIN s : s[i] = s[j] => i = j
    PROVE  /\ Append(s, w) \in Seq(S)
           /\ \A i, j \in DOMAIN Append(s, w) : Append(s, w)[i] = Append(s, w)[j] => i = j
           /\ ToSet(Append(s, w)) = ToSet(s) \cup {w}
<1>1. /\ Append(s, w) \in Seq(S) /\ Len(Append(s, w)) = Len(s) + 1 /\ Len(s) \in Nat
      /\ \A i \in 1..Len(s) : Append(s, w)[i] = s[i]
      /\ Append(s, w)[Len(s) + 1] = w
  BY AppendProperties, LenProperties
<1>2. DOMAIN s = 1..Len(s) /\ DOMAIN Append(s, w) = 1..(Len(s) + 1)
  BY <1>1
<1>3. \A i \in 1..(Len(s) + 1) : i \in 1..Len(s) \/ i = Len(s) + 1
  BY <1>1
<1>4. \A i \in 1..Len(s) : s[i] # w /\ i \in 1..(Len(s) + 1)
  BY <1>1, <1>2 DEF ToSet
<1>5. \A i, j \in DOMAIN Append(s, w) : Append(s, w)[i] = Append(s, w)[j] => i = j
  BY <1>1, <1>2, <1>3, <1>4
<1>6. Len(s) + 1 \in 1..(Len(s) + 1)
  BY <1>1
<1>7. ToSet(Append(s, w)) = ToSet(s) \cup {w}
  BY <1>1, <1>2, <1>3, <1>4, <1>6 DEF ToSet
<1>8. QED
  BY <1>1, <1>5, <1>7

\* RemoveAt drops one element of a sequence without repetitions.
LEMMA RemoveAtSet ==
    ASSUME NEW S, NEW s \in Seq(S), NEW p \in DOMAIN s,
           \A i, j \in DOMAIN s : s[i] = s[j] => i = j
    PROVE  LET t == RemoveAt(s, p)
           IN /\ t \in Seq(S)
              /\ \A i, j \in DOMAIN t : t[i] = t[j] => i = j
              /\ ToSet(t) = ToSet(s) \ {s[p]}
<1> DEFINE t == RemoveAt(s, p)
<1>2. DOMAIN s = 1..Len(s) /\ Len(s) \in Nat
  BY LenProperties
<1>3. p \in 1..Len(s)
  BY <1>2
<1>4. /\ t \in Seq(S) /\ Len(t) = Len(s) - 1
      /\ \A j \in 1..(Len(s) - 1) : t[j] = IF j < p THEN s[j] ELSE s[j + 1]
  BY <1>3, RemoveAtSeq
<1> HIDE DEF t
<1>5. DOMAIN t = 1..(Len(s) - 1)
  BY <1>4
<1> DEFINE from(j) == IF j < p THEN j ELSE j + 1
<1>6. \A j \in DOMAIN t : from(j) \in DOMAIN s /\ from(j) # p /\ t[j] = s[from(j)]
  BY <1>2, <1>3, <1>4, <1>5
<1>7. \A i \in DOMAIN s : i # p => \E j \in DOMAIN t : from(j) = i
  <2> SUFFICES ASSUME NEW i \in DOMAIN s, i # p
               PROVE  \E j \in DOMAIN t : from(j) = i
    OBVIOUS
  <2>1. CASE i < p
    <3>1. i \in DOMAIN t /\ from(i) = i
      BY <2>1, <1>2, <1>3, <1>5
    <3>2. QED
      BY <3>1
  <2>2. CASE i > p
    <3>1. i - 1 \in DOMAIN t /\ from(i - 1) = i
      BY <2>2, <1>2, <1>3, <1>5
    <3>2. QED
      BY <3>1
  <2>3. QED
    BY <2>1, <2>2, <1>2, <1>3
<1>8. \A i, j \in DOMAIN t : from(i) = from(j) => i = j
  BY <1>2, <1>3, <1>5
<1> HIDE DEF from
<1>9. \A i, j \in DOMAIN t : t[i] = t[j] => i = j
  BY <1>6, <1>8
<1>10. ToSet(t) = ToSet(s) \ {s[p]}
  <2>1. \A j \in DOMAIN t : t[j] \in ToSet(s) \ {s[p]}
    BY <1>6 DEF ToSet
  <2>2. \A i \in DOMAIN s : s[i] # s[p] => s[i] \in ToSet(t)
    BY <1>6, <1>7 DEF ToSet
  <2>3. QED
    BY <2>1, <2>2 DEF ToSet
<1>11. QED
  BY <1>4, <1>9, <1>10 DEF t

\* Cons puts an element first.
LEMMA ConsSeq ==
    ASSUME NEW S, NEW s \in Seq(S), NEW a \in S
    PROVE  /\ Cons(a, s) \in Seq(S) /\ Cons(a, s) # <<>>
           /\ Head(Cons(a, s)) = a /\ Tail(Cons(a, s)) = s
<1>1. <<a>> \in Seq(S) /\ Len(<<a>>) = 1 /\ Len(s) \in Nat
  OBVIOUS
<1>2. /\ Cons(a, s) \in Seq(S) /\ Len(Cons(a, s)) = 1 + Len(s)
      /\ \A i \in 1..(1 + Len(s)) : Cons(a, s)[i] = IF i <= 1 THEN <<a>>[i] ELSE s[i - 1]
  BY <1>1, ConcatProperties DEF Cons
<1>3. Cons(a, s) # <<>> /\ Head(Cons(a, s)) = a
  BY <1>1, <1>2, EmptySeq
<1>4. /\ Tail(Cons(a, s)) \in Seq(S) /\ Len(Tail(Cons(a, s))) = Len(s)
      /\ \A i \in 1..Len(s) : Tail(Cons(a, s))[i] = Cons(a, s)[i + 1]
  BY <1>1, <1>2, <1>3, HeadTailProperties
<1>5. \A i \in 1..Len(s) : Cons(a, s)[i + 1] = s[i]
  BY <1>1, <1>2
<1>6. Tail(Cons(a, s)) = s
  BY <1>4, <1>5, SeqEqual
<1>7. QED
  BY <1>2, <1>3, <1>6

\* Its elements, and those of two and three at once.
LEMMA ConsAt ==
    ASSUME NEW S, NEW s \in Seq(S), NEW a \in S
    PROVE  /\ Cons(a, s) \in Seq(S) /\ Len(Cons(a, s)) = 1 + Len(s) /\ Len(s) \in Nat
           /\ \A i \in 1..(1 + Len(s)) : Cons(a, s)[i] = IF i = 1 THEN a ELSE s[i - 1]
<1>1. <<a>> \in Seq(S) /\ Len(<<a>>) = 1 /\ <<a>>[1] = a /\ Len(s) \in Nat
  OBVIOUS
<1>2. /\ Cons(a, s) \in Seq(S) /\ Len(Cons(a, s)) = 1 + Len(s)
      /\ \A i \in 1..(1 + Len(s)) : Cons(a, s)[i] = IF i <= 1 THEN <<a>>[i] ELSE s[i - 1]
  BY <1>1, ConcatProperties DEF Cons
<1>3. QED
  BY <1>1, <1>2

LEMMA ConsTwo ==
    ASSUME NEW S, NEW s \in Seq(S), NEW a \in S, NEW b \in S
    PROVE  <<a, b>> \o s = Cons(a, Cons(b, s))
<1>1. ASSUME NEW x \in S, NEW t \in Seq(S)
      PROVE  /\ Cons(x, t) \in Seq(S) /\ Len(Cons(x, t)) = 1 + Len(t) /\ Len(t) \in Nat
             /\ \A i \in 1..(1 + Len(t)) : Cons(x, t)[i] = IF i = 1 THEN x ELSE t[i - 1]
  BY ConsAt
<1> DEFINE n == Len(s)
           q == Cons(b, s)
           p == Cons(a, q)
           t == <<a, b>> \o s
<1>2. /\ q \in Seq(S) /\ Len(q) = 1 + n /\ n \in Nat
      /\ \A i \in 1..(1 + n) : q[i] = IF i = 1 THEN b ELSE s[i - 1]
  BY <1>1
<1> HIDE DEF q
<1>3. /\ p \in Seq(S) /\ Len(p) = 2 + n
      /\ \A i \in 1..(2 + n) : p[i] = IF i = 1 THEN a ELSE q[i - 1]
  <2>1. 1 + Len(q) = 2 + n
    BY <1>2
  <2>2. /\ p \in Seq(S) /\ Len(p) = 1 + Len(q)
        /\ \A i \in 1..(1 + Len(q)) : p[i] = IF i = 1 THEN a ELSE q[i - 1]
    BY <1>1, <1>2
  <2>3. QED
    BY ONLY <2>1, <2>2
<1>4. /\ t \in Seq(S) /\ Len(t) = 2 + n
      /\ \A i \in 1..(2 + n) : t[i] = IF i <= 2 THEN <<a, b>>[i] ELSE s[i - 2]
  <2>1. <<a, b>> \in Seq(S) /\ Len(<<a, b>>) = 2
    OBVIOUS
  <2>2. QED
    BY <1>2, <2>1, ConcatProperties
<1> HIDE DEF n, p, t
<1>5. ASSUME NEW i \in 1..(2 + n)
      PROVE  t[i] = p[i]
  <2>1. CASE i = 1
    BY <1>2, <1>3, <1>4, <2>1
  <2>2. CASE i = 2
    BY <1>2, <1>3, <1>4, <2>2
  <2>3. CASE i \in 3..(2 + n)
    BY <1>2, <1>3, <1>4, <2>3
  <2>4. QED
    BY <1>2, <2>1, <2>2, <2>3
<1>6. t = p
  BY <1>3, <1>4, <1>5, SeqEqual
<1>7. QED
  BY <1>6 DEF p, q, t

LEMMA ConsThree ==
    ASSUME NEW S, NEW s \in Seq(S), NEW a \in S, NEW b \in S, NEW c \in S
    PROVE  <<a, b, c>> \o s = Cons(a, Cons(b, Cons(c, s)))
<1>1. ASSUME NEW x \in S, NEW t \in Seq(S)
      PROVE  /\ Cons(x, t) \in Seq(S) /\ Len(Cons(x, t)) = 1 + Len(t) /\ Len(t) \in Nat
             /\ \A i \in 1..(1 + Len(t)) : Cons(x, t)[i] = IF i = 1 THEN x ELSE t[i - 1]
  BY ConsAt
<1> DEFINE n == Len(s)
           r == Cons(c, s)
           q == Cons(b, r)
           p == Cons(a, q)
           t == <<a, b, c>> \o s
<1>2. /\ r \in Seq(S) /\ Len(r) = 1 + n /\ n \in Nat
      /\ \A i \in 1..(1 + n) : r[i] = IF i = 1 THEN c ELSE s[i - 1]
  BY <1>1
<1> HIDE DEF r
<1>3. /\ q \in Seq(S) /\ Len(q) = 2 + n
      /\ \A i \in 1..(2 + n) : q[i] = IF i = 1 THEN b ELSE r[i - 1]
  <2>1. 1 + Len(r) = 2 + n
    BY <1>2
  <2>2. /\ q \in Seq(S) /\ Len(q) = 1 + Len(r)
        /\ \A i \in 1..(1 + Len(r)) : q[i] = IF i = 1 THEN b ELSE r[i - 1]
    BY <1>1, <1>2
  <2>3. QED
    BY ONLY <2>1, <2>2
<1> HIDE DEF q
<1>4. /\ p \in Seq(S) /\ Len(p) = 3 + n
      /\ \A i \in 1..(3 + n) : p[i] = IF i = 1 THEN a ELSE q[i - 1]
  <2>1. 1 + Len(q) = 3 + n
    BY <1>2, <1>3
  <2>2. /\ p \in Seq(S) /\ Len(p) = 1 + Len(q)
        /\ \A i \in 1..(1 + Len(q)) : p[i] = IF i = 1 THEN a ELSE q[i - 1]
    BY <1>1, <1>3
  <2>3. QED
    BY ONLY <2>1, <2>2
<1>5. /\ t \in Seq(S) /\ Len(t) = 3 + n
      /\ \A i \in 1..(3 + n) : t[i] = IF i <= 3 THEN <<a, b, c>>[i] ELSE s[i - 3]
  <2>1. <<a, b, c>> \in Seq(S) /\ Len(<<a, b, c>>) = 3
    OBVIOUS
  <2>2. QED
    BY <1>2, <2>1, ConcatProperties
<1> HIDE DEF n, p, t
<1>6. ASSUME NEW i \in 1..(3 + n)
      PROVE  t[i] = p[i]
  <2>1. CASE i = 1
    BY <1>2, <1>4, <1>5, <2>1
  <2>2. CASE i = 2
    BY <1>2, <1>3, <1>4, <1>5, <2>2
  <2>3. CASE i = 3
    BY <1>2, <1>3, <1>4, <1>5, <2>3
  <2>4. CASE i \in 4..(3 + n)
    <3>1. q[i - 1] = r[i - 2] /\ r[i - 2] = s[i - 3]
      BY <1>2, <1>3, <2>4
    <3>2. QED
      BY <1>2, <1>4, <1>5, <2>4, <3>1
  <2>5. QED
    BY <1>2, <2>1, <2>2, <2>3, <2>4
<1>7. t = p
  BY <1>4, <1>5, <1>6, SeqEqual
<1>8. QED
  BY <1>7 DEF p, q, r, t

\* A sequence that is not empty is its first element and the rest.
LEMMA HeadTailCons ==
    ASSUME NEW S, NEW s \in Seq(S), s # <<>>
    PROVE  /\ Head(s) \in S /\ Tail(s) \in Seq(S)
           /\ s = Cons(Head(s), Tail(s))
<1>1. /\ Head(s) \in S /\ Head(s) = s[1] /\ Tail(s) \in Seq(S) /\ Len(Tail(s)) = Len(s) - 1
      /\ Len(s) \in Nat \ {0}
      /\ \A i \in 1..Len(Tail(s)) : Tail(s)[i] = s[i + 1]
  BY HeadTailProperties, EmptySeq, ElementOfSeq
<1> DEFINE h == Head(s)
           t == Tail(s)
<1>2. h \in S /\ t \in Seq(S) /\ Len(t) = Len(s) - 1 /\ \A i \in 1..Len(t) : t[i] = s[i + 1]
  BY <1>1
<1>3. h = s[1]
  BY <1>1
<1> HIDE DEF h, t
<1>4. /\ Cons(h, t) \in Seq(S) /\ Len(Cons(h, t)) = 1 + Len(t)
      /\ \A i \in 1..(1 + Len(t)) : Cons(h, t)[i] = IF i = 1 THEN h ELSE t[i - 1]
  BY <1>2, ConsAt
<1>5. 1 + Len(t) = Len(s)
  BY <1>1, <1>2
<1>6. \A i \in 1..Len(s) : s[i] = Cons(h, t)[i]
  BY <1>1, <1>2, <1>3, <1>4, <1>5
<1>7. s = Cons(h, t)
  BY <1>4, <1>5, <1>6, SeqEqual
<1>8. QED
  BY <1>1, <1>7 DEF h, t

\* What Cons and Append add to the elements, repetitions or not.
LEMMA ConsToSet ==
    ASSUME NEW S, NEW s \in Seq(S), NEW a \in S
    PROVE  ToSet(Cons(a, s)) = {a} \cup ToSet(s)
<1>1. /\ Len(Cons(a, s)) = 1 + Len(s) /\ Len(s) \in Nat /\ Cons(a, s) \in Seq(S)
      /\ \A i \in 1..(1 + Len(s)) : Cons(a, s)[i] = IF i = 1 THEN a ELSE s[i - 1]
  BY ConsAt
<1>2. DOMAIN s = 1..Len(s) /\ DOMAIN Cons(a, s) = 1..(1 + Len(s))
  BY <1>1
<1>3. ASSUME NEW i \in 1..(1 + Len(s))
      PROVE  Cons(a, s)[i] \in {a} \cup ToSet(s)
  <2>1. i = 1 \/ i - 1 \in 1..Len(s)
    BY <1>1
  <2>2. QED
    BY <1>1, <1>2, <2>1 DEF ToSet
<1>4. ASSUME NEW i \in 1..Len(s)
      PROVE  i + 1 \in 1..(1 + Len(s)) /\ Cons(a, s)[i + 1] = s[i]
  BY <1>1
<1>5. 1 \in 1..(1 + Len(s)) /\ Cons(a, s)[1] = a
  BY <1>1
<1>6. QED
  BY <1>2, <1>3, <1>4, <1>5 DEF ToSet

LEMMA AppendToSet ==
    ASSUME NEW S, NEW s \in Seq(S), NEW w \in S
    PROVE  Append(s, w) \in Seq(S) /\ ToSet(Append(s, w)) = ToSet(s) \cup {w}
<1>1. /\ Append(s, w) \in Seq(S) /\ Len(Append(s, w)) = Len(s) + 1 /\ Len(s) \in Nat
      /\ \A i \in 1..Len(s) : Append(s, w)[i] = s[i]
      /\ Append(s, w)[Len(s) + 1] = w
  BY AppendProperties, LenProperties
<1>2. DOMAIN s = 1..Len(s) /\ DOMAIN Append(s, w) = 1..(Len(s) + 1)
  BY <1>1
<1>3. \A i \in 1..(Len(s) + 1) : i \in 1..Len(s) \/ i = Len(s) + 1
  BY <1>1
<1>4. \A i \in 1..Len(s) : i \in 1..(Len(s) + 1)
  BY <1>1
<1>5. Len(s) + 1 \in 1..(Len(s) + 1)
  BY <1>1
<1>6. QED
  BY <1>1, <1>2, <1>3, <1>4, <1>5 DEF ToSet

\* A nonempty set of naturals has a least element.
LEMMA LeastNat ==
    ASSUME NEW T \in SUBSET Nat, T # {}
    PROVE  \E n \in T : \A m \in T : n <= m
<1>1. PICK n \in T : \A m \in T : ~(<<m, n>> \in OpToRel(<, Nat))
  BY NatLessThanWellFounded, WFMin
<1>2. \A m \in T : ~(m < n)
  BY <1>1 DEF OpToRel
<1>3. QED
  BY <1>2
===============================================================================
