---------------------------- MODULE BehaviorProofs ----------------------------
(***************************************************************************)
(* Proofs about behavior_t: the three containers always agree, and a call  *)
(* never runs one of its iterators past the end of its list.               *)
(***************************************************************************)
EXTENDS Behavior, SeqLemmas

------------------------------------------------------------------------------
(* Counting the entries of a kind in a prefix of the order *)

LEMMA CountType ==
    ASSUME NEW order, NEW k, NEW n \in Nat
    PROVE  /\ Count(order, k, n) \in Nat
           /\ IsFiniteSet({i \in 1..n : i \in DOMAIN order /\ order[i] = k})
<1>1. IsFiniteSet(1..n)
  BY FS_Interval
<1>2. IsFiniteSet({i \in 1..n : i \in DOMAIN order /\ order[i] = k})
  BY <1>1, FS_Subset
<1>3. QED
  BY <1>2, FS_CardinalityType DEF Count

LEMMA CountZero ==
    ASSUME NEW order, NEW k
    PROVE  Count(order, k, 0) = 0
<1>1. {i \in 1..0 : i \in DOMAIN order /\ order[i] = k} = {}
  OBVIOUS
<1>2. QED
  BY <1>1, FS_EmptySet DEF Count

LEMMA CountStep ==
    ASSUME NEW order, NEW k, NEW n \in Nat \ {0}
    PROVE  Count(order, k, n) =
             Count(order, k, n - 1) +
                 (IF n \in DOMAIN order /\ order[n] = k THEN 1 ELSE 0)
<1> DEFINE At(m) == {i \in 1..m : i \in DOMAIN order /\ order[i] = k}
<1>1. n - 1 \in Nat
  OBVIOUS
<1>2. IsFiniteSet(At(n - 1)) /\ Cardinality(At(n - 1)) \in Nat
  BY <1>1, CountType, FS_CardinalityType
<1>3. CASE n \in DOMAIN order /\ order[n] = k
  <2>1. At(n) = At(n - 1) \cup {n} /\ n \notin At(n - 1)
    BY <1>3
  <2>2. Cardinality(At(n)) = Cardinality(At(n - 1)) + 1
    BY <2>1, <1>2, FS_AddElement
  <2>3. QED
    BY <2>2, <1>3 DEF Count
<1>4. CASE ~(n \in DOMAIN order /\ order[n] = k)
  <2>1. At(n) = At(n - 1)
    BY <1>4
  <2>2. Count(order, k, n) = Cardinality(At(n)) /\ Count(order, k, n - 1) = Cardinality(At(n - 1))
    BY DEF Count
  <2> HIDE DEF At
  <2>3. QED
    BY <2>1, <2>2, <1>2, <1>4
<1>5. QED
  BY <1>3, <1>4

LEMMA CountMonotone ==
    ASSUME NEW order, NEW k, NEW m \in Nat, NEW n \in Nat, m <= n
    PROVE  Count(order, k, m) <= Count(order, k, n)
<1> DEFINE At(j) == {i \in 1..j : i \in DOMAIN order /\ order[i] = k}
<1>1. At(m) \in SUBSET At(n) /\ IsFiniteSet(At(n))
  BY CountType
<1>2. QED
  BY <1>1, FS_Subset DEF Count

\* Two orders that agree on a prefix count the same there.
LEMMA CountPrefix ==
    ASSUME NEW o1, NEW o2, NEW k, NEW n \in Nat,
           \A i \in 1..n : i \in DOMAIN o1 /\ i \in DOMAIN o2 /\ o1[i] = o2[i]
    PROVE  Count(o1, k, n) = Count(o2, k, n)
<1>1. {i \in 1..n : i \in DOMAIN o1 /\ o1[i] = k} =
      {i \in 1..n : i \in DOMAIN o2 /\ o2[i] = k}
  OBVIOUS
<1>2. QED
  BY <1>1 DEF Count

\* push_back adds one entry of its own kind.
LEMMA CountAppend ==
    ASSUME NEW order \in Seq(Kind), NEW k \in Kind, NEW e \in Kind
    PROVE  Count(Append(order, e), k, Len(order) + 1) =
             Count(order, k, Len(order)) + (IF e = k THEN 1 ELSE 0)
<1> DEFINE new == Append(order, e)
           n == Len(order)
<1>1. /\ n \in Nat /\ Len(new) = n + 1 /\ DOMAIN new = 1..(n + 1)
      /\ DOMAIN order = 1..n /\ new[n + 1] = e /\ \A i \in 1..n : new[i] = order[i]
  BY AppendProperties, LenProperties
<1> HIDE DEF new, n
<1>2. Count(new, k, n) = Count(order, k, n)
  BY <1>1, CountPrefix
<1>3. Count(new, k, n + 1) =
        Count(new, k, (n + 1) - 1) + (IF n + 1 \in DOMAIN new /\ new[n + 1] = k THEN 1 ELSE 0)
  BY <1>1, CountStep
<1>4. (n + 1) - 1 = n /\ n + 1 \in DOMAIN new
  BY <1>1
<1>5. QED
  BY <1>1, <1>2, <1>3, <1>4 DEF new, n

\* An index up to the count has an entry: the loop of erase_from_order
\* finds what it looks for.
LEMMA PositionExists ==
    ASSUME NEW order \in Seq(Kind), NEW k \in Kind, NEW index \in Nat \ {0},
           index <= Count(order, k, Len(order))
    PROVE  /\ Position(order, k, index) \in 1..Len(order)
           /\ order[Position(order, k, index)] = k
           /\ Count(order, k, Position(order, k, index)) = index
<1>1. Len(order) \in Nat /\ DOMAIN order = 1..Len(order)
  BY LenProperties
<1> DEFINE Reached == {n \in Nat : index <= Count(order, k, n) /\ n <= Len(order)}
<1>2. PICK n \in Reached : \A m \in Reached : n <= m
  <2>1. Reached \in SUBSET Nat /\ Len(order) \in Reached
    BY <1>1
  <2> HIDE DEF Reached
  <2>2. QED
    BY <2>1, LeastNat
<1>3. n \in Nat \ {0} /\ n <= Len(order) /\ index <= Count(order, k, n)
  BY <1>2, CountZero
<1>4. n - 1 \in Nat /\ Count(order, k, n - 1) \in Nat /\ Count(order, k, n) \in Nat
  <2>1. n \in Nat /\ n - 1 \in Nat
    BY <1>3
  <2> HIDE DEF Reached
  <2>2. \A m \in Nat : Count(order, k, m) \in Nat
    BY CountType
  <2>3. QED
    BY <2>1, <2>2
<1>5. Count(order, k, n - 1) < index
  <2>1. n - 1 \notin Reached
    BY <1>2, <1>3
  <2>2. QED
    BY <2>1, <1>1, <1>3, <1>4
<1>6. order[n] = k /\ Count(order, k, n) = index
  BY <1>3, <1>4, <1>5, CountStep
<1>7. \E i \in DOMAIN order : order[i] = k /\ Count(order, k, i) = index
  BY <1>1, <1>3, <1>6
<1>8. QED
  BY <1>1, <1>7 DEF Position

\* Erasing an entry lowers the count of its kind by one, and of no other, in every
\* prefix that reaches past it.
LEMMA CountRemoved ==
    ASSUME NEW order \in Seq(Kind), NEW k \in Kind, NEW p \in 1..Len(order), NEW m \in Nat,
           p <= m + 1, m + 1 <= Len(order)
    PROVE  Count(RemoveAt(order, p), k, m) =
             Count(order, k, m + 1) - (IF order[p] = k THEN 1 ELSE 0)
<1> DEFINE rest == RemoveAt(order, p)
           n == Len(order)
           Old == {i \in 1..(m + 1) : i \in DOMAIN order /\ order[i] = k}
           New == {i \in 1..m : i \in DOMAIN rest /\ rest[i] = k}
           shift == [i \in New |-> IF i < p THEN i ELSE i + 1]
<1>1. /\ n \in Nat \ {0} /\ p \in 1..n /\ DOMAIN order = 1..n /\ DOMAIN rest = 1..(n - 1)
      /\ m <= n - 1 /\ p <= m + 1
      /\ \A j \in 1..(n - 1) : rest[j] = IF j < p THEN order[j] ELSE order[j + 1]
  <2>1. Len(order) \in Nat /\ DOMAIN order = 1..Len(order) /\ order \in Seq(Kind)
    BY LenProperties
  <2>2. /\ rest \in Seq(Kind) /\ Len(rest) = n - 1
        /\ \A j \in 1..(n - 1) : rest[j] = IF j < p THEN order[j] ELSE order[j + 1]
    BY RemoveAtSeq
  <2>3. DOMAIN rest = 1..(n - 1)
    BY <2>2
  <2> HIDE DEF rest
  <2>4. QED
    BY <2>1, <2>2, <2>3
<1> HIDE DEF rest, n
<1>2. shift \in [New -> Old \ {p}]
  <2> SUFFICES ASSUME NEW i \in New
               PROVE  (IF i < p THEN i ELSE i + 1) \in Old \ {p}
    OBVIOUS
  <2>1. QED
    BY <1>1
<1>3. \A i, j \in New : shift[i] = shift[j] => i = j
  BY <1>1
<1>4. \A t \in Old \ {p} : \E i \in New : shift[i] = t
  <2> TAKE t \in Old \ {p}
  <2>1. CASE t < p
    <3>1. t \in New /\ shift[t] = t
      BY <2>1, <1>1
    <3>2. QED
      BY <3>1
  <2>2. CASE t > p
    <3>1. t - 1 \in 1..m /\ t - 1 \in 1..(n - 1) /\ ~(t - 1 < p) /\ (t - 1) + 1 = t
      BY <2>2, <1>1
    <3>2. t - 1 \in New
      BY <3>1, <1>1
    <3>3. shift[t - 1] = t
      BY <3>1, <3>2
    <3>4. QED
      BY <3>2, <3>3
  <2>3. t \in Nat /\ p \in Nat /\ t # p
    BY <1>1
  <2>4. t < p \/ t > p
    BY <2>3
  <2>5. QED
    BY <2>1, <2>2, <2>4
<1>5. shift \in Bijection(New, Old \ {p})
  BY <1>2, <1>3, <1>4 DEF Bijection, Injection, Surjection, IsInjective
<1>6. IsFiniteSet(New) /\ IsFiniteSet(Old)
  <2>1. m + 1 \in Nat
    OBVIOUS
  <2>2. \A j \in Nat : IsFiniteSet({i \in 1..j : i \in DOMAIN order /\ order[i] = k})
    BY CountType
  <2>3. \A j \in Nat : IsFiniteSet({i \in 1..j : i \in DOMAIN rest /\ rest[i] = k})
    BY CountType
  <2>4. QED
    BY <2>1, <2>2, <2>3
<1>7. Cardinality(New) = Cardinality(Old \ {p})
  BY <1>5, <1>6, FS_Bijection DEF ExistsBijection
<1>8. Cardinality(Old) \in Nat /\
      Cardinality(Old \ {p}) = IF p \in Old THEN Cardinality(Old) - 1 ELSE Cardinality(Old)
  BY <1>6, FS_RemoveElement, FS_CardinalityType
<1>9. p \in Old <=> order[p] = k
  BY <1>1
<1>10. Count(rest, k, m) = Cardinality(New) /\ Count(order, k, m + 1) = Cardinality(Old)
  BY DEF Count
<1>11. QED
  BY <1>7, <1>8, <1>9, <1>10 DEF rest

\* So for the whole order.
LEMMA CountRemove ==
    ASSUME NEW order \in Seq(Kind), NEW k \in Kind, NEW p \in 1..Len(order)
    PROVE  Count(RemoveAt(order, p), k, Len(order) - 1) =
             Count(order, k, Len(order)) - (IF order[p] = k THEN 1 ELSE 0)
<1>1. Len(order) \in Nat \ {0} /\ p <= Len(order)
  BY LenProperties
<1>2. PICK m \in Nat : m = Len(order) - 1 /\ m + 1 = Len(order) /\ p <= m + 1 /\ m + 1 <= Len(order)
  BY <1>1
<1>3. QED
  BY <1>2, CountRemoved

------------------------------------------------------------------------------
(* The invariant *)

\* Positions in the frames and in the nested lists have the types they need.
LEMMA FrameTypes ==
    ASSUME TypeOK
    PROVE  /\ Len(frames) \in Nat /\ DOMAIN frames = 1..Len(frames)
           /\ frames # <<>> => Len(frames) \in DOMAIN frames
           /\ \A i \in DOMAIN frames : frames[i] \in Frame
           /\ \A q \in Queue : /\ order_set[q] \in Seq(Kind) /\ Len(order_set[q]) \in Nat
                               /\ DOMAIN order_set[q] = 1..Len(order_set[q])
                               /\ verb_set[q] \in Seq(Verb) /\ Len(verb_set[q]) \in Nat
                               /\ DOMAIN verb_set[q] = 1..Len(verb_set[q])
                               /\ behavior_set[q] \in Seq(Queue)
                               /\ Len(behavior_set[q]) \in Nat
                               /\ DOMAIN behavior_set[q] = 1..Len(behavior_set[q])
                               /\ \A i \in DOMAIN behavior_set[q] : behavior_set[q][i] \in Queue
<1>1. frames \in Seq(Frame)
  BY DEF TypeOK
<1>2. /\ Len(frames) \in Nat /\ DOMAIN frames = 1..Len(frames)
      /\ frames # <<>> => Len(frames) \in Nat \ {0}
      /\ \A i \in 1..Len(frames) : frames[i] \in Frame
  BY <1>1, LenProperties, EmptySeq, ElementOfSeq
<1>3. ASSUME NEW q \in Queue
      PROVE  /\ order_set[q] \in Seq(Kind) /\ Len(order_set[q]) \in Nat
             /\ DOMAIN order_set[q] = 1..Len(order_set[q])
             /\ verb_set[q] \in Seq(Verb) /\ Len(verb_set[q]) \in Nat
             /\ DOMAIN verb_set[q] = 1..Len(verb_set[q])
             /\ behavior_set[q] \in Seq(Queue)
             /\ Len(behavior_set[q]) \in Nat
             /\ DOMAIN behavior_set[q] = 1..Len(behavior_set[q])
             /\ \A i \in DOMAIN behavior_set[q] : behavior_set[q][i] \in Queue
  <2>1. order_set[q] \in Seq(Kind) /\ verb_set[q] \in Seq(Verb) /\ behavior_set[q] \in Seq(Queue)
    BY DEF TypeOK
  <2>2. QED
    BY <2>1, LenProperties, ElementOfSeq
<1>4. QED
  BY <1>2, <1>3

\* Calls under way do not notice a change to the other behaviors.
LEMMA FramesKept ==
    ASSUME Inv, frames' = frames,
           \A i \in DOMAIN frames :
               /\ order_set'[frames[i].queue] = order_set[frames[i].queue]
               /\ behavior_set'[frames[i].queue] = behavior_set[frames[i].queue]
    PROVE  FramesAgree'
<1>1. \A i \in DOMAIN frames : i > 1 => i - 1 \in DOMAIN frames
  BY FrameTypes DEF Inv
<1>2. \A i \in DOMAIN frames :
         (i > 1 /\ Contains(behavior_set[frames[i - 1].queue], frames[i].queue))
           => (i > 1 /\ Contains(behavior_set[frames[i - 1].queue], frames[i].queue))'
  BY <1>1 DEF Contains
<1>3. QED
  BY <1>2 DEF Inv, FramesAgree

\* The parent of a running nested behavior is running: a behavior nested in
\* one that is not running is not running, nor is one that is nowhere.
LEMMA NotRunning ==
    ASSUME Inv, NEW c \in Queue, c \notin Roots,
           \/ ~Nested(c)
           \/ \E q \in Queue : ~Running(q) /\ Contains(behavior_set[q], c)
    PROVE  ~Running(c)
<1> SUFFICES ASSUME NEW i \in DOMAIN frames, frames[i].queue = c
             PROVE  FALSE
  BY DEF Running
<1> DEFINE p == frames[i - 1].queue
<1>1. i > 1 /\ Contains(behavior_set[p], c) /\ i - 1 \in DOMAIN frames /\ p \in Queue
  <2>1. i > 1 /\ Contains(behavior_set[p], c)
    BY DEF Inv, FramesAgree
  <2>2. i - 1 \in DOMAIN frames
    BY <2>1, FrameTypes DEF Inv
  <2>3. QED
    BY <2>1, <2>2, FrameTypes DEF Inv, Frame
<1>2. Running(p) /\ Nested(c)
  BY <1>1 DEF Running, Nested
<1>3. PICK q \in Queue : ~Running(q) /\ Contains(behavior_set[q], c)
  BY <1>2
<1>4. p = q
  <2>1. PICK j \in 1..Len(behavior_set[p]) : behavior_set[p][j] = c
    BY <1>1 DEF Contains
  <2>2. PICK k \in 1..Len(behavior_set[q]) : behavior_set[q][k] = c
    BY <1>3 DEF Contains
  <2>3. j \in DOMAIN behavior_set[p] /\ k \in DOMAIN behavior_set[q]
    BY <1>1, FrameTypes DEF Inv
  <2>4. QED
    BY <1>1, <2>1, <2>2, <2>3 DEF Inv, NestedOnce
<1>5. QED
  BY <1>2, <1>3, <1>4

LEMMA InitInv == Init => Inv
<1> SUFFICES ASSUME Init PROVE Inv
  OBVIOUS
<1>1. \A q \in Queue : order_set[q] = <<>> /\ verb_set[q] = <<>> /\ behavior_set[q] = <<>>
  BY DEF Init
<1>2. TypeOK
  <2>1. \A S : <<>> \in Seq(S)
    BY EmptySeq
  <2>2. QED
    BY <2>1 DEF Init, TypeOK
<1>3. OrderAgrees
  BY <1>1, CountZero DEF OrderAgrees
<1>4. NestedOnce
  BY <1>1 DEF NestedOnce
<1>5. FramesAgree
  BY DEF Init, FramesAgree
<1>6. QED
  BY <1>2, <1>3, <1>4, <1>5 DEF Inv

LEMMA InsertInv ==
    ASSUME Inv, NEW q \in Queue, NEW v \in Verb, insert(q, v)
    PROVE  Inv'
<1> USE FrameTypes DEF Inv
<1>1. /\ order_set' = [order_set EXCEPT ![q] = Append(@, "verb")]
      /\ verb_set' = [verb_set EXCEPT ![q] = Append(@, v)]
      /\ UNCHANGED <<single_execution, behavior_set, frames>> /\ ~Running(q)
  BY DEF insert
<1>2. TypeOK'
  <2>1. Append(order_set[q], "verb") \in Seq(Kind) /\ Append(verb_set[q], v) \in Seq(Verb)
    BY AppendProperties DEF Kind
  <2>2. QED
    BY <1>1, <2>1 DEF TypeOK
<1>3. OrderAgrees'
  <2> SUFFICES ASSUME NEW p \in Queue
               PROVE  /\ Count(order_set'[p], "verb", Len(order_set'[p])) = Len(verb_set'[p])
                      /\ Count(order_set'[p], "behavior", Len(order_set'[p])) = Len(behavior_set'[p])
    BY DEF OrderAgrees
  <2>1. CASE p # q
    BY <1>1, <2>1 DEF OrderAgrees, TypeOK
  <2>2. CASE p = q
    <3>1. /\ order_set'[p] = Append(order_set[q], "verb") /\ behavior_set'[p] = behavior_set[q]
          /\ verb_set'[p] = Append(verb_set[q], v)
      BY <1>1, <2>2 DEF TypeOK
    <3>2. /\ Len(Append(order_set[q], "verb")) = Len(order_set[q]) + 1
          /\ Len(Append(verb_set[q], v)) = Len(verb_set[q]) + 1
      BY AppendProperties DEF Kind
    <3>3. \A k \in Kind : Count(Append(order_set[q], "verb"), k, Len(order_set[q]) + 1) =
                          Count(order_set[q], k, Len(order_set[q])) + (IF "verb" = k THEN 1 ELSE 0)
      BY CountAppend DEF Kind
    <3>4. /\ Count(order_set[q], "verb", Len(order_set[q])) = Len(verb_set[q])
          /\ Count(order_set[q], "behavior", Len(order_set[q])) = Len(behavior_set[q])
      BY DEF OrderAgrees
    <3>5. QED
      BY <3>1, <3>2, <3>3, <3>4 DEF Kind
  <2>3. QED
    BY <2>1, <2>2
<1>4. NestedOnce'
  BY <1>1 DEF NestedOnce
<1>5. FramesAgree'
  <2>1. \A i \in DOMAIN frames : frames[i].queue \in Queue /\ frames[i].queue # q
    BY <1>1 DEF Running, Frame
  <2>2. QED
    BY <1>1, <2>1, FramesKept DEF TypeOK
<1>6. QED
  BY <1>2, <1>3, <1>4, <1>5

LEMMA InsertBehaviorInv ==
    ASSUME Inv, NEW q \in Queue, NEW c \in Queue, NEW s \in BOOLEAN, insert_behavior(q, c, s)
    PROVE  Inv'
<1> USE FrameTypes DEF Inv
<1>1. /\ order_set' = [order_set EXCEPT ![q] = Append(@, "behavior"), ![c] = <<>>]
      /\ behavior_set' = [behavior_set EXCEPT ![q] = Append(@, c), ![c] = <<>>]
      /\ verb_set' = [verb_set EXCEPT ![c] = <<>>]
      /\ single_execution' = [single_execution EXCEPT ![c] = s]
      /\ UNCHANGED frames /\ ~Running(q) /\ c # q /\ c \notin Roots /\ ~Nested(c)
  BY DEF insert_behavior
<1>2. /\ order_set'[q] = Append(order_set[q], "behavior") /\ verb_set'[q] = verb_set[q]
      /\ behavior_set'[q] = Append(behavior_set[q], c)
      /\ order_set'[c] = <<>> /\ verb_set'[c] = <<>> /\ behavior_set'[c] = <<>>
      /\ \A p \in Queue \ {q, c} : /\ order_set'[p] = order_set[p] /\ verb_set'[p] = verb_set[p]
                                   /\ behavior_set'[p] = behavior_set[p]
  BY <1>1 DEF TypeOK
<1>3. TypeOK'
  <2>1. Append(order_set[q], "behavior") \in Seq(Kind) /\ Append(behavior_set[q], c) \in Seq(Queue)
    BY AppendProperties DEF Kind
  <2>2. \A S : <<>> \in Seq(S)
    BY EmptySeq
  <2>3. QED
    BY <1>1, <2>1, <2>2 DEF TypeOK
<1>4. OrderAgrees'
  <2> SUFFICES ASSUME NEW p \in Queue
               PROVE  /\ Count(order_set'[p], "verb", Len(order_set'[p])) = Len(verb_set'[p])
                      /\ Count(order_set'[p], "behavior", Len(order_set'[p])) = Len(behavior_set'[p])
    BY DEF OrderAgrees
  <2>1. CASE p \notin {q, c}
    BY <1>2, <2>1 DEF OrderAgrees
  <2>2. CASE p = q
    <3>1. /\ Len(Append(order_set[q], "behavior")) = Len(order_set[q]) + 1
          /\ Len(Append(behavior_set[q], c)) = Len(behavior_set[q]) + 1
      BY AppendProperties DEF Kind
    <3>2. \A k \in Kind : Count(Append(order_set[q], "behavior"), k, Len(order_set[q]) + 1) =
                          Count(order_set[q], k, Len(order_set[q])) + (IF "behavior" = k THEN 1 ELSE 0)
      BY CountAppend DEF Kind
    <3>3. /\ Count(order_set[q], "verb", Len(order_set[q])) = Len(verb_set[q])
          /\ Count(order_set[q], "behavior", Len(order_set[q])) = Len(behavior_set[q])
      BY DEF OrderAgrees
    <3>4. /\ order_set'[p] = Append(order_set[q], "behavior") /\ verb_set'[p] = verb_set[q]
          /\ behavior_set'[p] = Append(behavior_set[q], c)
      BY <1>2, <2>2
    <3>5. QED
      BY <3>1, <3>2, <3>3, <3>4 DEF Kind
  <2>3. CASE p = c
    BY <1>2, <2>3, CountZero
  <2>4. QED
    BY <2>1, <2>2, <2>3
<1>5. NestedOnce'
  <2> DEFINE n == Len(behavior_set[q])
  <2>1. /\ n \in Nat /\ DOMAIN behavior_set'[q] = 1..(n + 1) /\ behavior_set'[q][n + 1] = c
        /\ DOMAIN behavior_set[q] = 1..n
        /\ \A i \in 1..n : behavior_set'[q][i] = behavior_set[q][i]
    <3>1. /\ Append(behavior_set[q], c) \in Seq(Queue)
          /\ Len(Append(behavior_set[q], c)) = Len(behavior_set[q]) + 1
          /\ \A i \in 1..Len(behavior_set[q]) : Append(behavior_set[q], c)[i] = behavior_set[q][i]
          /\ Append(behavior_set[q], c)[Len(behavior_set[q]) + 1] = c
      BY AppendProperties
    <3>2. QED
      BY <1>2, <3>1, LenProperties
  <2>2. \A p \in Queue : \A i \in DOMAIN behavior_set[p] : behavior_set[p][i] # c
    BY <1>1 DEF Nested, Contains
  <2> HIDE DEF n
  <2>3. ASSUME NEW p \in Queue, NEW i \in DOMAIN behavior_set'[p]
        PROVE  \/ p = q /\ i = n + 1 /\ behavior_set'[p][i] = c
               \/ i \in DOMAIN behavior_set[p] /\ behavior_set'[p][i] = behavior_set[p][i]
    <3>1. CASE p = q
      <4>1. i \in 1..(n + 1)
        BY <2>1, <2>3, <3>1
      <4>2. i = n + 1 \/ i \in 1..n
        BY <4>1, <2>1
      <4>3. QED
        BY <4>2, <2>1, <3>1
    <3>2. CASE p = c
      BY <1>2, <2>3, <3>2
    <3>3. CASE p \notin {q, c}
      BY <1>2, <2>3, <3>3
    <3>4. QED
      BY <3>1, <3>2, <3>3
  <2>4. ASSUME NEW p \in Queue, NEW r \in Queue,
               NEW i \in DOMAIN behavior_set'[p], NEW j \in DOMAIN behavior_set'[r],
               behavior_set'[p][i] = behavior_set'[r][j]
        PROVE  p = r /\ i = j
    BY <2>2, <2>3, <2>4 DEF NestedOnce
  <2>5. ASSUME NEW p \in Queue, NEW i \in DOMAIN behavior_set'[p]
        PROVE  behavior_set'[p][i] \notin Roots
    BY <1>1, <2>3, <2>5 DEF NestedOnce
  <2>6. QED
    BY <2>4, <2>5 DEF NestedOnce
<1>6. FramesAgree'
  <2>1. \A i \in DOMAIN frames : frames[i].queue \in Queue /\ frames[i].queue \notin {q, c}
    BY <1>1, NotRunning DEF Running, Frame
  <2>2. QED
    BY <1>1, <1>2, <2>1, FramesKept
<1>7. QED
  BY <1>3, <1>4, <1>5, <1>6

\* The two disconnects: the entry leaves its list and the order together.
LEMMA Disconnected ==
    ASSUME TypeOK, OrderAgrees, NEW q \in Queue, NEW k \in Kind,
           NEW n \in Nat \ {0}, n <= Count(order_set[q], k, Len(order_set[q]))
    PROVE  LET rest == erase_from_order(order_set[q], k, n)
           IN /\ rest \in Seq(Kind)
              /\ \A j \in Kind : Count(rest, j, Len(rest)) =
                     Count(order_set[q], j, Len(order_set[q])) - (IF j = k THEN 1 ELSE 0)
<1> DEFINE order == order_set[q]
           p == Position(order, k, n)
<1>1. order \in Seq(Kind)
  BY DEF TypeOK
<1>2. p \in 1..Len(order) /\ order[p] = k
  BY <1>1, PositionExists
<1> HIDE DEF p, order
<1>3. RemoveAt(order, p) \in Seq(Kind) /\ Len(RemoveAt(order, p)) = Len(order) - 1
  BY <1>1, <1>2, RemoveAtSeq
<1>4. \A j \in Kind : Count(RemoveAt(order, p), j, Len(order) - 1) =
                      Count(order, j, Len(order)) - (IF order[p] = j THEN 1 ELSE 0)
  BY <1>1, <1>2, CountRemove
<1>5. QED
  BY <1>2, <1>3, <1>4 DEF erase_from_order, p, order

LEMMA DisconnectVerbInv ==
    ASSUME Inv, NEW q \in Queue, NEW v \in Verb, disconnect_verb(q, v)
    PROVE  Inv'
<1> USE FrameTypes DEF Inv
<1> DEFINE n == IndexOf(verb_set[q], v)
           order == order_set[q]
           rest == erase_from_order(order, "verb", n)
<1>1. /\ verb_set' = [verb_set EXCEPT ![q] = RemoveAt(@, n)]
      /\ order_set' = [order_set EXCEPT ![q] = erase_from_order(@, "verb", n)]
      /\ UNCHANGED <<single_execution, behavior_set, frames>> /\ ~Running(q)
      /\ Contains(verb_set[q], v)
  BY DEF disconnect_verb
<1>2. n \in 1..Len(verb_set[q])
  BY <1>1 DEF IndexOf, Contains
<1> HIDE DEF n
<1>3. n \in Nat \ {0} /\ n <= Count(order, "verb", Len(order)) /\ "verb" \in Kind /\ "behavior" \in Kind
  BY <1>2 DEF OrderAgrees, Kind
<1>4. /\ rest \in Seq(Kind)
      /\ Count(rest, "verb", Len(rest)) = Count(order, "verb", Len(order)) - 1
      /\ Count(rest, "behavior", Len(rest)) = Count(order, "behavior", Len(order))
  <2>1. /\ rest \in Seq(Kind)
        /\ \A j \in Kind : Count(rest, j, Len(rest)) =
                Count(order, j, Len(order)) - (IF j = "verb" THEN 1 ELSE 0)
    BY <1>3, Disconnected
  <2>2. Count(order, "behavior", Len(order)) \in Nat
    BY CountType
  <2> HIDE DEF rest, order
  <2>3. QED
    BY <1>3, <2>1, <2>2
<1>5. /\ RemoveAt(verb_set[q], n) \in Seq(Verb)
      /\ Len(RemoveAt(verb_set[q], n)) = Len(verb_set[q]) - 1
  BY <1>2, RemoveAtSeq
<1>6. TypeOK'
  BY <1>1, <1>4, <1>5 DEF TypeOK
<1>7. OrderAgrees'
  <2> SUFFICES ASSUME NEW p \in Queue
               PROVE  /\ Count(order_set'[p], "verb", Len(order_set'[p])) = Len(verb_set'[p])
                      /\ Count(order_set'[p], "behavior", Len(order_set'[p])) = Len(behavior_set'[p])
    BY DEF OrderAgrees
  <2>1. CASE p # q
    BY <1>1, <2>1 DEF OrderAgrees, TypeOK
  <2>2. CASE p = q
    <3>1. /\ order_set'[p] = rest /\ behavior_set'[p] = behavior_set[q]
          /\ verb_set'[p] = RemoveAt(verb_set[q], n)
      BY <1>1, <2>2 DEF TypeOK
    <3>2. QED
      BY <3>1, <1>4, <1>5 DEF OrderAgrees
  <2>3. QED
    BY <2>1, <2>2
<1>8. NestedOnce'
  BY <1>1 DEF NestedOnce
<1>9. FramesAgree'
  <2>1. \A i \in DOMAIN frames : frames[i].queue \in Queue /\ frames[i].queue # q
    BY <1>1 DEF Running, Frame
  <2>2. QED
    BY <1>1, <2>1, FramesKept DEF TypeOK
<1>10. QED
  BY <1>6, <1>7, <1>8, <1>9

LEMMA DisconnectBehaviorInv ==
    ASSUME Inv, NEW q \in Queue, NEW c \in Queue, disconnect_behavior(q, c)
    PROVE  Inv'
<1> USE FrameTypes DEF Inv
<1> DEFINE n == IndexOf(behavior_set[q], c)
           order == order_set[q]
           rest == erase_from_order(order, "behavior", n)
<1>1. /\ behavior_set' = [behavior_set EXCEPT ![q] = RemoveAt(@, n), ![c] = <<>>]
      /\ order_set' = [order_set EXCEPT ![q] = rest, ![c] = <<>>]
      /\ verb_set' = [verb_set EXCEPT ![c] = <<>>]
      /\ UNCHANGED <<single_execution, frames>> /\ ~Running(q)
      /\ Contains(behavior_set[q], c)
  BY DEF disconnect_behavior
<1>2. n \in 1..Len(behavior_set[q]) /\ behavior_set[q][n] = c
  BY <1>1 DEF IndexOf, Contains
<1> HIDE DEF n
<1>3. /\ n \in Nat \ {0} /\ n <= Count(order, "behavior", Len(order))
      /\ "verb" \in Kind /\ "behavior" \in Kind
  BY <1>2 DEF OrderAgrees, Kind
<1>4. /\ rest \in Seq(Kind)
      /\ Count(rest, "behavior", Len(rest)) = Count(order, "behavior", Len(order)) - 1
      /\ Count(rest, "verb", Len(rest)) = Count(order, "verb", Len(order))
  <2>1. /\ rest \in Seq(Kind)
        /\ \A j \in Kind : Count(rest, j, Len(rest)) =
                Count(order, j, Len(order)) - (IF j = "behavior" THEN 1 ELSE 0)
    BY <1>3, Disconnected
  <2>2. Count(order, "verb", Len(order)) \in Nat
    BY CountType
  <2> HIDE DEF rest, order
  <2>3. QED
    BY <1>3, <2>1, <2>2
<1>5. /\ RemoveAt(behavior_set[q], n) \in Seq(Queue)
      /\ Len(RemoveAt(behavior_set[q], n)) = Len(behavior_set[q]) - 1
      /\ \A j \in 1..(Len(behavior_set[q]) - 1) : RemoveAt(behavior_set[q], n)[j] =
             IF j < n THEN behavior_set[q][j] ELSE behavior_set[q][j + 1]
  BY <1>2, RemoveAtSeq
<1> HIDE DEF rest, order
<1>6. /\ order_set'[c] = <<>> /\ verb_set'[c] = <<>> /\ behavior_set'[c] = <<>>
      /\ q # c => /\ order_set'[q] = rest /\ verb_set'[q] = verb_set[q]
                  /\ behavior_set'[q] = RemoveAt(behavior_set[q], n)
      /\ \A p \in Queue \ {q, c} : /\ order_set'[p] = order_set[p] /\ verb_set'[p] = verb_set[p]
                                   /\ behavior_set'[p] = behavior_set[p]
  BY <1>1 DEF TypeOK
<1>7. TypeOK'
  <2>1. \A S : <<>> \in Seq(S)
    BY EmptySeq
  <2>2. QED
    BY <1>1, <1>4, <1>5, <2>1 DEF TypeOK
<1>8. OrderAgrees'
  <2> SUFFICES ASSUME NEW p \in Queue
               PROVE  /\ Count(order_set'[p], "verb", Len(order_set'[p])) = Len(verb_set'[p])
                      /\ Count(order_set'[p], "behavior", Len(order_set'[p])) = Len(behavior_set'[p])
    BY DEF OrderAgrees
  <2>1. CASE p \notin {q, c}
    BY <1>6, <2>1 DEF OrderAgrees
  <2>2. CASE p = q /\ q # c
    BY <1>4, <1>5, <1>6, <2>2 DEF OrderAgrees, order
  <2>3. CASE p = c
    BY <1>6, <2>3, CountZero
  <2>4. QED
    BY <2>1, <2>2, <2>3
<1>9. NestedOnce'
  <2> DEFINE From(p, i) == IF p = q /\ i >= n THEN i + 1 ELSE i
  <2>1. ASSUME NEW p \in Queue, NEW i \in DOMAIN behavior_set'[p]
        PROVE  /\ i \in Nat /\ From(p, i) \in DOMAIN behavior_set[p]
               /\ behavior_set'[p][i] = behavior_set[p][From(p, i)]
    <3>1. CASE p = c
      BY <1>6, <2>1, <3>1
    <3>2. CASE p = q /\ q # c
      <4>1. /\ Len(RemoveAt(behavior_set[q], n)) = Len(behavior_set[q]) - 1
            /\ DOMAIN RemoveAt(behavior_set[q], n) = 1..(Len(behavior_set[q]) - 1)
        BY <1>5, LenProperties
      <4>2. i \in 1..(Len(behavior_set[q]) - 1)
        BY <1>6, <2>1, <3>2, <4>1
      <4>3. DOMAIN behavior_set[p] = 1..Len(behavior_set[q]) /\ Len(behavior_set[q]) \in Nat
        BY <3>2
      <4>4. behavior_set'[p][i] = IF i < n THEN behavior_set[q][i] ELSE behavior_set[q][i + 1]
        BY <1>5, <1>6, <3>2, <4>2
      <4>5. i \in Nat /\ From(p, i) = (IF i < n THEN i ELSE i + 1)
        BY <1>2, <3>2, <4>2, <4>3
      <4>6. (IF i < n THEN i ELSE i + 1) \in 1..Len(behavior_set[q])
        BY <1>2, <4>2, <4>3
      <4>7. QED
        BY <3>2, <4>3, <4>4, <4>5, <4>6
    <3>3. CASE p \notin {q, c}
      BY <1>6, <2>1, <3>3
    <3>4. QED
      BY <3>1, <3>2, <3>3
  <2>2. ASSUME NEW p \in Queue, NEW r \in Queue,
               NEW i \in DOMAIN behavior_set'[p], NEW j \in DOMAIN behavior_set'[r],
               behavior_set'[p][i] = behavior_set'[r][j]
        PROVE  p = r /\ i = j
    <3>1. p = r /\ From(p, i) = From(r, j)
      BY <2>1, <2>2 DEF NestedOnce
    <3>2. i \in Nat /\ j \in Nat /\ n \in Nat
      BY <2>1, <1>2
    <3>3. QED
      BY <3>1, <3>2
  <2>3. ASSUME NEW p \in Queue, NEW i \in DOMAIN behavior_set'[p]
        PROVE  behavior_set'[p][i] \notin Roots
    BY <2>1, <2>3 DEF NestedOnce
  <2>4. QED
    BY <2>2, <2>3 DEF NestedOnce
<1>10. FramesAgree'
  <2>1. c \notin Roots
    BY <1>2 DEF NestedOnce
  <2>2. \A i \in DOMAIN frames : frames[i].queue \in Queue /\ frames[i].queue \notin {q, c}
    BY <1>1, <2>1, NotRunning DEF Running, Frame
  <2>3. QED
    BY <1>1, <1>6, <2>2, FramesKept
<1>11. QED
  BY <1>7, <1>8, <1>9, <1>10

------------------------------------------------------------------------------
(* The steps of a call *)

\* FramesAgree of any stack of activations, over any containers.
Agree(fs, orders, nested) ==
    /\ \A i, j \in DOMAIN fs : fs[i].queue = fs[j].queue => i = j
    /\ \A i \in DOMAIN fs :
           \/ fs[i].queue \in Roots
           \/ i > 1 /\ Contains(nested[fs[i - 1].queue], fs[i].queue)
    /\ \A i \in DOMAIN fs :
           /\ fs[i].at <= Len(orders[fs[i].queue]) + 1
           /\ fs[i].verb = Count(orders[fs[i].queue], "verb", fs[i].at - 1) + 1
           /\ fs[i].behavior = Count(orders[fs[i].queue], "behavior", fs[i].at - 1) + 1
           /\ fs[i].busy => /\ fs[i].at <= Len(orders[fs[i].queue])
                            /\ orders[fs[i].queue][fs[i].at] = "verb"

LEMMA FramesAgreeIsAgree == FramesAgree <=> Agree(frames, order_set, behavior_set)
BY DEF FramesAgree, Agree

\* A call, or the loop reaching a nested behavior, pushes an activation.
LEMMA AgreePush ==
    ASSUME NEW orders \in [Queue -> Seq(Kind)], NEW nested,
           NEW fs \in Seq(Frame), Agree(fs, orders, nested), NEW c \in Queue,
           \A i \in DOMAIN fs : fs[i].queue # c,
           c \in Roots \/ (fs # <<>> /\ Contains(nested[fs[Len(fs)].queue], c))
    PROVE  /\ Append(fs, Enter(c)) \in Seq(Frame)
           /\ Agree(Append(fs, Enter(c)), orders, nested)
<1> DEFINE new == Append(fs, Enter(c))
           n == Len(fs)
<1>1. Enter(c) \in Frame
  BY DEF Enter, Frame
<1>2. /\ n \in Nat /\ DOMAIN fs = 1..n /\ new \in Seq(Frame) /\ DOMAIN new = 1..(n + 1)
      /\ new[n + 1] = Enter(c) /\ \A i \in 1..n : new[i] = fs[i]
  BY <1>1, AppendProperties, LenProperties
<1>3. fs # <<>> => n >= 1
  BY <1>2, EmptySeq
<1>4. Len(orders[c]) \in Nat
  BY LenProperties
<1> HIDE DEF new, n
<1>5. \A i, j \in DOMAIN new : new[i].queue = new[j].queue => i = j
  <2>1. \A i \in DOMAIN new : i \in 1..n \/ i = n + 1
    BY <1>2
  <2>2. QED
    BY <2>1, <1>2 DEF Agree, Enter
<1>6. ASSUME NEW i \in DOMAIN new
      PROVE  \/ new[i].queue \in Roots
             \/ i > 1 /\ Contains(nested[new[i - 1].queue], new[i].queue)
  <2>1. CASE i \in 1..n
    <3>1. i > 1 => i - 1 \in 1..n
      BY <2>1, <1>2
    <3>2. QED
      BY <2>1, <3>1, <1>2 DEF Agree
  <2>2. CASE i = n + 1
    <3>1. new[i].queue = c
      BY <2>2, <1>2 DEF Enter
    <3>2. CASE c \notin Roots
      <4>1. fs # <<>> /\ Contains(nested[fs[n].queue], c) /\ i - 1 = n /\ n \in 1..n /\ i > 1
        BY <3>2, <2>2, <1>2, <1>3 DEF n
      <4>2. QED
        BY <4>1, <3>1, <1>2
    <3>3. QED
      BY <3>1, <3>2
  <2>3. QED
    BY <2>1, <2>2, <1>2
<1>7. ASSUME NEW i \in DOMAIN new
      PROVE  /\ new[i].at <= Len(orders[new[i].queue]) + 1
             /\ new[i].verb = Count(orders[new[i].queue], "verb", new[i].at - 1) + 1
             /\ new[i].behavior = Count(orders[new[i].queue], "behavior", new[i].at - 1) + 1
             /\ new[i].busy => /\ new[i].at <= Len(orders[new[i].queue])
                               /\ orders[new[i].queue][new[i].at] = "verb"
  <2>1. CASE i \in 1..n
    BY <2>1, <1>2 DEF Agree
  <2>2. CASE i = n + 1
    <3>1. /\ new[i].queue = c /\ new[i].at = 1 /\ new[i].verb = 1 /\ new[i].behavior = 1
          /\ new[i].busy = FALSE
      BY <2>2, <1>2 DEF Enter
    <3>2. Count(orders[c], "verb", 1 - 1) = 0 /\ Count(orders[c], "behavior", 1 - 1) = 0
      BY CountZero
    <3>3. QED
      BY <3>1, <3>2, <1>4
  <2>3. QED
    BY <2>1, <2>2, <1>2
<1>8. Agree(new, orders, nested)
  BY <1>5, <1>6, <1>7 DEF Agree
<1>9. QED
  BY <1>2, <1>8 DEF new

\* A step of the loop changes the innermost activation only.
LEMMA AgreeTop ==
    ASSUME NEW orders, NEW nested, NEW fs \in Seq(Frame), fs # <<>>, Agree(fs, orders, nested),
           NEW f \in Frame, f.queue = fs[Len(fs)].queue,
           f.at <= Len(orders[f.queue]) + 1,
           f.verb = Count(orders[f.queue], "verb", f.at - 1) + 1,
           f.behavior = Count(orders[f.queue], "behavior", f.at - 1) + 1,
           f.busy => f.at <= Len(orders[f.queue]) /\ orders[f.queue][f.at] = "verb"
    PROVE  LET new == [fs EXCEPT ![Len(fs)] = f]
           IN /\ new \in Seq(Frame) /\ new # <<>> /\ Len(new) = Len(fs)
              /\ \A i \in DOMAIN fs : new[i].queue = fs[i].queue
              /\ Agree(new, orders, nested)
<1> DEFINE new == [fs EXCEPT ![Len(fs)] = f]
           n == Len(fs)
<1>1. n \in Nat \ {0} /\ n \in 1..n /\ DOMAIN fs = 1..n
  BY LenProperties, EmptySeq
<1>2. /\ new \in Seq(Frame) /\ Len(new) = n /\ DOMAIN new = 1..n
      /\ new[n] = f /\ \A i \in 1..n : i # n => new[i] = fs[i]
  <2>1. /\ new \in Seq(Frame) /\ Len(new) = Len(fs)
        /\ \A j \in 1..Len(fs) : new[j] = IF j = n THEN f ELSE fs[j]
    BY <1>1, ExceptSeq
  <2>2. DOMAIN new = 1..n
    BY <2>1, LenProperties
  <2>3. QED
    BY <1>1, <2>1, <2>2
<1>3. new # <<>>
  BY <1>1, <1>2, EmptySeq
<1> HIDE DEF new
<1>4. \A i \in 1..n : new[i].queue = fs[i].queue
  BY <1>1, <1>2
<1>5. Agree(new, orders, nested)
  <2>1. \A i, j \in DOMAIN new : new[i].queue = new[j].queue => i = j
    BY <1>1, <1>2, <1>4 DEF Agree
  <2>2. ASSUME NEW i \in DOMAIN new
        PROVE  \/ new[i].queue \in Roots
               \/ i > 1 /\ Contains(nested[new[i - 1].queue], new[i].queue)
    <3>1. i \in 1..n
      BY <2>2, <1>2
    <3>2. n \in Nat
      BY <1>1
    <3> HIDE DEF n
    <3>3. i > 1 => i - 1 \in 1..n
      BY <3>1, <3>2
    <3>4. QED
      BY <3>1, <3>3, <1>1, <1>4 DEF Agree
  <2>3. ASSUME NEW i \in DOMAIN new
        PROVE  /\ new[i].at <= Len(orders[new[i].queue]) + 1
               /\ new[i].verb = Count(orders[new[i].queue], "verb", new[i].at - 1) + 1
               /\ new[i].behavior = Count(orders[new[i].queue], "behavior", new[i].at - 1) + 1
               /\ new[i].busy => /\ new[i].at <= Len(orders[new[i].queue])
                                 /\ orders[new[i].queue][new[i].at] = "verb"
    <3>1. CASE i = n
      BY <3>1, <1>2
    <3>2. CASE i # n
      BY <3>2, <1>1, <1>2 DEF Agree
    <3>3. QED
      BY <3>1, <3>2
  <2>4. QED
    BY <2>1, <2>2, <2>3 DEF Agree
<1>6. QED
  BY <1>1, <1>2, <1>3, <1>4, <1>5 DEF new

\* A completed call pops its activation.
LEMMA AgreeFront ==
    ASSUME NEW orders, NEW nested, NEW fs \in Seq(Frame), fs # <<>>, Agree(fs, orders, nested)
    PROVE  /\ Front(fs) \in Seq(Frame) /\ DOMAIN Front(fs) = 1..(Len(fs) - 1)
           /\ \A i \in 1..(Len(fs) - 1) : Front(fs)[i] = fs[i]
           /\ Agree(Front(fs), orders, nested)
<1> DEFINE new == Front(fs)
           n == Len(fs)
<1>1. n \in Nat \ {0} /\ DOMAIN fs = 1..n
  BY LenProperties, EmptySeq
<1>2. /\ new \in Seq(Frame) /\ Len(new) = n - 1 /\ DOMAIN new = 1..(n - 1)
      /\ \A i \in 1..(n - 1) : new[i] = fs[i]
  BY FrontSeq, LenProperties
<1> HIDE DEF new, n
<1>3. \A i \in DOMAIN new : i \in DOMAIN fs /\ new[i] = fs[i] /\ (i > 1 => i - 1 \in DOMAIN new)
  BY <1>1, <1>2
<1>4. Agree(new, orders, nested)
  <2>1. \A i, j \in DOMAIN new : new[i].queue = new[j].queue => i = j
    BY <1>3 DEF Agree
  <2>2. \A i \in DOMAIN new : \/ new[i].queue \in Roots
                              \/ i > 1 /\ Contains(nested[new[i - 1].queue], new[i].queue)
    BY <1>3 DEF Agree
  <2>3. \A i \in DOMAIN new :
           /\ new[i].at <= Len(orders[new[i].queue]) + 1
           /\ new[i].verb = Count(orders[new[i].queue], "verb", new[i].at - 1) + 1
           /\ new[i].behavior = Count(orders[new[i].queue], "behavior", new[i].at - 1) + 1
           /\ new[i].busy => /\ new[i].at <= Len(orders[new[i].queue])
                             /\ orders[new[i].queue][new[i].at] = "verb"
    BY <1>3 DEF Agree
  <2>4. QED
    BY <2>1, <2>2, <2>3 DEF Agree
<1>5. QED
  BY <1>2, <1>4 DEF new, n

\* Activations notice only the containers of their own behaviors.
LEMMA AgreeElsewhere ==
    ASSUME NEW fs \in Seq(Frame), NEW o1, NEW n1, NEW o2, NEW n2, Agree(fs, o1, n1),
           \A i \in DOMAIN fs : o2[fs[i].queue] = o1[fs[i].queue] /\ n2[fs[i].queue] = n1[fs[i].queue]
    PROVE  Agree(fs, o2, n2)
<1>1. \A i \in DOMAIN fs : i > 1 => i - 1 \in DOMAIN fs
  BY LenProperties
<1>2. \A i \in DOMAIN fs : (i > 1 /\ Contains(n1[fs[i - 1].queue], fs[i].queue))
                           => (i > 1 /\ Contains(n2[fs[i - 1].queue], fs[i].queue))
  BY <1>1
<1>3. \A i \in DOMAIN fs : \/ fs[i].queue \in Roots
                           \/ i > 1 /\ Contains(n2[fs[i - 1].queue], fs[i].queue)
  BY <1>2 DEF Agree
<1>4. QED
  BY <1>3 DEF Agree

\* What the loop knows when it is at an entry: the count of its kind grows by
\* one past it, the count of the other kind stays.
LEMMA AtFrame ==
    ASSUME Inv, frames # <<>>
    PROVE  /\ Top \in Frame /\ Top = frames[Len(frames)] /\ Len(frames) \in DOMAIN frames
           /\ Top.at \in Nat \ {0} /\ Top.verb \in Nat \ {0} /\ Top.behavior \in Nat \ {0}
           /\ Top.queue \in Queue /\ Len(order_set[Top.queue]) \in Nat
           /\ Top.verb = Count(order_set[Top.queue], "verb", Top.at - 1) + 1
           /\ Top.behavior = Count(order_set[Top.queue], "behavior", Top.at - 1) + 1
           /\ Top.busy => /\ Top.at <= Len(order_set[Top.queue])
                          /\ order_set[Top.queue][Top.at] = "verb"
           /\ \A k \in Kind : Top.at <= Len(order_set[Top.queue]) =>
                 /\ Count(order_set[Top.queue], k, Top.at - 1) \in Nat
                 /\ Count(order_set[Top.queue], k, Top.at) =
                        Count(order_set[Top.queue], k, Top.at - 1) +
                            (IF order_set[Top.queue][Top.at] = k THEN 1 ELSE 0)
                 /\ Count(order_set[Top.queue], k, Top.at) <=
                        Count(order_set[Top.queue], k, Len(order_set[Top.queue]))
<1>1. Len(frames) \in DOMAIN frames /\ Top \in Frame /\ Top = frames[Len(frames)]
  BY FrameTypes DEF Inv, Top
<1>2. /\ Top.at \in Nat \ {0} /\ Top.verb \in Nat \ {0} /\ Top.behavior \in Nat \ {0}
      /\ Top.queue \in Queue
  BY <1>1 DEF Frame
<1>3. /\ Len(order_set[Top.queue]) \in Nat
      /\ DOMAIN order_set[Top.queue] = 1..Len(order_set[Top.queue])
  BY <1>2, FrameTypes DEF Inv
<1>4. /\ Top.verb = Count(order_set[Top.queue], "verb", Top.at - 1) + 1
      /\ Top.behavior = Count(order_set[Top.queue], "behavior", Top.at - 1) + 1
      /\ Top.busy => /\ Top.at <= Len(order_set[Top.queue])
                     /\ order_set[Top.queue][Top.at] = "verb"
  BY <1>1 DEF Inv, FramesAgree
<1>5. ASSUME NEW k \in Kind, Top.at <= Len(order_set[Top.queue])
      PROVE  /\ Count(order_set[Top.queue], k, Top.at - 1) \in Nat
             /\ Count(order_set[Top.queue], k, Top.at) =
                    Count(order_set[Top.queue], k, Top.at - 1) +
                        (IF order_set[Top.queue][Top.at] = k THEN 1 ELSE 0)
             /\ Count(order_set[Top.queue], k, Top.at) <=
                    Count(order_set[Top.queue], k, Len(order_set[Top.queue]))
  <2>1. Top.at - 1 \in Nat /\ Top.at \in DOMAIN order_set[Top.queue]
    BY <1>2, <1>3, <1>5
  <2>2. Count(order_set[Top.queue], k, Top.at - 1) \in Nat
    BY <2>1, CountType
  <2>3. Count(order_set[Top.queue], k, Top.at) =
            Count(order_set[Top.queue], k, Top.at - 1) +
                (IF order_set[Top.queue][Top.at] = k THEN 1 ELSE 0)
    BY <2>1, <1>2, CountStep
  <2>4. Count(order_set[Top.queue], k, Top.at) <=
            Count(order_set[Top.queue], k, Len(order_set[Top.queue]))
    BY <1>2, <1>3, <1>5, CountMonotone
  <2>5. QED
    BY <2>2, <2>3, <2>4
<1>6. QED
  BY <1>1, <1>2, <1>3, <1>4, <1>5

LEMMA OnlyFrames ==
    ASSUME Inv, UNCHANGED containers, frames' \in Seq(Frame),
           Agree(frames', order_set, behavior_set)
    PROVE  Inv'
<1>1. TypeOK'
  BY DEF Inv, TypeOK, containers
<1>2. OrderAgrees' /\ NestedOnce'
  BY DEF Inv, OrderAgrees, NestedOnce, containers
<1>3. FramesAgree'
  BY DEF FramesAgree, Agree, containers
<1>4. QED
  BY <1>1, <1>2, <1>3 DEF Inv

LEMMA CallInv ==
    ASSUME Inv, NEW q \in Roots, call(q)
    PROVE  Inv'
<1>1. q \in Queue /\ frames \in Seq(Frame) /\ order_set \in [Queue -> Seq(Kind)]
  BY RootsAssumption DEF Inv, TypeOK
<1>2. Agree(frames, order_set, behavior_set)
  BY FramesAgreeIsAgree DEF Inv
<1>3. \A i \in DOMAIN frames : frames[i].queue # q
  BY DEF call, Running
<1>4. /\ Append(frames, Enter(q)) \in Seq(Frame)
      /\ Agree(Append(frames, Enter(q)), order_set, behavior_set)
  BY <1>1, <1>2, <1>3, AgreePush
<1>5. QED
  BY <1>4, OnlyFrames DEF call

LEMMA RunVerbInv ==
    ASSUME Inv, run_verb
    PROVE  Inv'
<1> DEFINE f == [Top EXCEPT !.busy = TRUE]
<1>1. /\ frames # <<>> /\ Top.at <= Len(order_set[Top.queue])
      /\ order_set[Top.queue][Top.at] = "verb"
      /\ frames' = [frames EXCEPT ![Len(frames)].busy = TRUE] /\ UNCHANGED containers
  BY DEF run_verb, AtEntry
<1>2. /\ f \in Frame /\ f.queue = Top.queue /\ f.at = Top.at /\ f.verb = Top.verb
      /\ f.behavior = Top.behavior
  BY <1>1, AtFrame DEF Frame
<1>3. frames' = [frames EXCEPT ![Len(frames)] = f]
  BY <1>1 DEF Top
<1> HIDE DEF f
<1>4. frames' \in Seq(Frame) /\ Agree(frames', order_set, behavior_set)
  <2>0. frames # <<>> /\ f \in Frame
    BY <1>1, <1>2
  <2>1. Agree(frames, order_set, behavior_set) /\ frames \in Seq(Frame)
    BY FramesAgreeIsAgree DEF Inv, TypeOK
  <2>2. f.at <= Len(order_set[f.queue]) + 1
    BY <1>1, <1>2, AtFrame
  <2>3. /\ f.queue = frames[Len(frames)].queue
        /\ f.verb = Count(order_set[f.queue], "verb", f.at - 1) + 1
        /\ f.behavior = Count(order_set[f.queue], "behavior", f.at - 1) + 1
    BY <1>1, <1>2, AtFrame
  <2>4. f.at <= Len(order_set[f.queue]) /\ order_set[f.queue][f.at] = "verb"
    BY <1>1, <1>2
  <2>5. LET new == [frames EXCEPT ![Len(frames)] = f]
        IN new \in Seq(Frame) /\ Agree(new, order_set, behavior_set)
    BY <2>0, <2>1, <2>2, <2>3, <2>4, AgreeTop
  <2>6. QED
    BY <1>3, <2>5
<1>5. QED
  BY <1>1, <1>4, OnlyFrames

\* ++first, ++vfirst after a verb.
LEMMA VerbReturnsInv ==
    ASSUME Inv, verb_returns
    PROVE  Inv'
<1> DEFINE f == [Top EXCEPT !.busy = FALSE, !.at = @ + 1, !.verb = @ + 1]
           order == order_set[Top.queue]
<1>1. /\ frames # <<>> /\ Top.busy /\ UNCHANGED containers
      /\ frames' = [frames EXCEPT ![Len(frames)] = f]
  BY DEF verb_returns
<1>2. /\ Top.at \in Nat \ {0} /\ Len(order) \in Nat /\ Top.at <= Len(order)
      /\ order[Top.at] = "verb" /\ "verb" \in Kind /\ "behavior" \in Kind
  BY <1>1, AtFrame DEF Kind
<1>3. /\ f \in Frame /\ f.queue = Top.queue /\ f.at = Top.at + 1 /\ f.verb = Top.verb + 1
      /\ f.behavior = Top.behavior /\ f.busy = FALSE
  <2>1. Top \in Frame /\ Top.at + 1 \in Nat \ {0} /\ Top.verb + 1 \in Nat \ {0}
    BY <1>1, AtFrame
  <2>2. QED
    BY <2>1 DEF Frame
<1>4. /\ Count(order, "verb", Top.at) = Count(order, "verb", Top.at - 1) + 1
      /\ Count(order, "behavior", Top.at) = Count(order, "behavior", Top.at - 1)
  <2>1. /\ Count(order, "verb", Top.at) = Count(order, "verb", Top.at - 1) + 1
        /\ Count(order, "behavior", Top.at) = Count(order, "behavior", Top.at - 1) + 0
        /\ Count(order, "behavior", Top.at - 1) \in Nat
    BY <1>1, <1>2, AtFrame
  <2>2. QED
    BY <2>1
<1> HIDE DEF f
<1>5. /\ f.at <= Len(order) + 1 /\ f.at - 1 = Top.at
      /\ f.verb = Count(order, "verb", f.at - 1) + 1
      /\ f.behavior = Count(order, "behavior", f.at - 1) + 1
  <2>1. f.at - 1 = Top.at /\ f.at <= Len(order) + 1
    BY <1>2, <1>3
  <2>2. /\ Top.verb = Count(order, "verb", Top.at - 1) + 1
        /\ Top.behavior = Count(order, "behavior", Top.at - 1) + 1
    BY <1>1, AtFrame
  <2>3. QED
    BY <1>3, <1>4, <2>1, <2>2
<1>6. LET new == [frames EXCEPT ![Len(frames)] = f]
      IN new \in Seq(Frame) /\ Agree(new, order_set, behavior_set)
  <2>1. Agree(frames, order_set, behavior_set) /\ frames \in Seq(Frame)
    BY FramesAgreeIsAgree DEF Inv, TypeOK
  <2>2. /\ frames # <<>> /\ f \in Frame /\ f.busy = FALSE
        /\ f.queue = frames[Len(frames)].queue /\ order = order_set[f.queue]
    BY <1>1, <1>3 DEF Top
  <2> HIDE DEF order
  <2>3. /\ f.at <= Len(order_set[f.queue]) + 1
        /\ f.verb = Count(order_set[f.queue], "verb", f.at - 1) + 1
        /\ f.behavior = Count(order_set[f.queue], "behavior", f.at - 1) + 1
    BY <1>5, <2>2
  <2>4. QED
    BY <2>1, <2>2, <2>3, AgreeTop
<1>7. QED
  BY <1>1, <1>6, OnlyFrames

LEMMA VerbThrowsInv ==
    ASSUME Inv, verb_throws
    PROVE  Inv'
<1>1. frames' = <<>> /\ UNCHANGED containers
  BY DEF verb_throws
<1>2. Agree(<<>>, order_set, behavior_set) /\ <<>> \in Seq(Frame)
  BY EmptySeq DEF Agree
<1>3. QED
  BY <1>1, <1>2, OnlyFrames

\* The iterators never leave their lists while an entry is left, and have seen
\* all of both when none is: this is where the counts meet the lengths.
LEMMA InvInRange == Inv => IteratorsInRange
<1> SUFFICES ASSUME Inv, NEW i \in DOMAIN frames
             PROVE  LET f == frames[i]
                        order == order_set[f.queue]
                    IN /\ f.at <= Len(order) /\ order[f.at] = "verb" =>
                              f.verb \in DOMAIN verb_set[f.queue]
                       /\ f.at <= Len(order) /\ order[f.at] = "behavior" =>
                              f.behavior \in DOMAIN behavior_set[f.queue]
                       /\ f.at > Len(order) => /\ f.verb = Len(verb_set[f.queue]) + 1
                                               /\ f.behavior = Len(behavior_set[f.queue]) + 1
  BY DEF IteratorsInRange
<1> DEFINE f == frames[i]
           order == order_set[f.queue]
           n == Len(order)
<1>1. f \in Frame
  BY FrameTypes DEF Inv
<1>2. f.at \in Nat \ {0} /\ f.queue \in Queue /\ f.at - 1 \in Nat
  BY <1>1 DEF Frame
<1>3. /\ n \in Nat /\ DOMAIN order = 1..n
      /\ DOMAIN verb_set[f.queue] = 1..Len(verb_set[f.queue]) /\ Len(verb_set[f.queue]) \in Nat
      /\ DOMAIN behavior_set[f.queue] = 1..Len(behavior_set[f.queue])
      /\ Len(behavior_set[f.queue]) \in Nat
  BY <1>2, FrameTypes DEF Inv
<1>4. /\ f.at <= n + 1
      /\ f.verb = Count(order, "verb", f.at - 1) + 1
      /\ f.behavior = Count(order, "behavior", f.at - 1) + 1
  BY DEF Inv, FramesAgree
<1>5. /\ Count(order, "verb", n) = Len(verb_set[f.queue])
      /\ Count(order, "behavior", n) = Len(behavior_set[f.queue])
  BY <1>2 DEF Inv, OrderAgrees
<1> HIDE DEF f, order, n
<1>6. ASSUME NEW k \in Kind, f.at <= n, order[f.at] = k
      PROVE  Count(order, k, f.at - 1) + 1 \in 1..Count(order, k, n)
  <2>1. Count(order, k, f.at - 1) \in Nat /\ Count(order, k, n) \in Nat
    BY <1>2, <1>3, CountType
  <2>2. f.at \in DOMAIN order
    BY <1>2, <1>3, <1>6
  <2>3. Count(order, k, f.at) = Count(order, k, f.at - 1) + 1
    BY <1>2, <1>6, <2>2, CountStep
  <2>4. Count(order, k, f.at) <= Count(order, k, n)
    BY <1>2, <1>3, <1>6, CountMonotone
  <2>5. QED
    BY <2>1, <2>3, <2>4
<1>7. f.at <= n /\ order[f.at] = "verb" => f.verb \in DOMAIN verb_set[f.queue]
  BY <1>3, <1>4, <1>5, <1>6 DEF Kind
<1>8. f.at <= n /\ order[f.at] = "behavior" => f.behavior \in DOMAIN behavior_set[f.queue]
  BY <1>3, <1>4, <1>5, <1>6 DEF Kind
<1>9. f.at > n => f.verb = Len(verb_set[f.queue]) + 1 /\ f.behavior = Len(behavior_set[f.queue]) + 1
  <2>1. f.at > n => f.at - 1 = n
    BY <1>2, <1>3, <1>4
  <2>2. QED
    BY <2>1, <1>4, <1>5
<1>10. QED
  BY <1>7, <1>8, <1>9 DEF f, order, n

\* The nested behavior an entry names is not running: its only parent is
\* running at this entry.
LEMMA RunBehaviorInv ==
    ASSUME Inv, run_behavior
    PROVE  Inv'
<1> DEFINE f == [Top EXCEPT !.at = @ + 1, !.behavior = @ + 1]
           order == order_set[Top.queue]
           c == behavior_set[Top.queue][Top.behavior]
           past == [frames EXCEPT ![Len(frames)] = f]
<1>1. /\ frames # <<>> /\ Top.busy = FALSE /\ UNCHANGED containers
      /\ Top.at <= Len(order) /\ order[Top.at] = "behavior"
      /\ frames' = IF order_set[c] = <<>> THEN past ELSE Append(past, Enter(c))
  <2>1. Top.busy \in BOOLEAN
    BY AtFrame DEF run_behavior, AtEntry, Frame
  <2>2. QED
    BY <2>1 DEF run_behavior, AtEntry
<1>2. /\ Top.at \in Nat \ {0} /\ Len(order) \in Nat /\ Top.queue \in Queue
      /\ Len(frames) \in DOMAIN frames /\ Top = frames[Len(frames)]
      /\ "verb" \in Kind /\ "behavior" \in Kind
  BY <1>1, AtFrame DEF Kind
<1>3. /\ f \in Frame /\ f.queue = Top.queue /\ f.at = Top.at + 1 /\ f.verb = Top.verb
      /\ f.behavior = Top.behavior + 1 /\ f.busy = FALSE
  <2>1. Top \in Frame /\ Top.at + 1 \in Nat \ {0} /\ Top.behavior + 1 \in Nat \ {0}
    BY <1>1, AtFrame
  <2>2. QED
    BY <1>1, <2>1 DEF Frame
<1>4. /\ Count(order, "behavior", Top.at) = Count(order, "behavior", Top.at - 1) + 1
      /\ Count(order, "verb", Top.at) = Count(order, "verb", Top.at - 1)
  <2>1. /\ Count(order, "behavior", Top.at) = Count(order, "behavior", Top.at - 1) + 1
        /\ Count(order, "verb", Top.at) = Count(order, "verb", Top.at - 1) + 0
        /\ Count(order, "verb", Top.at - 1) \in Nat
    BY <1>1, <1>2, AtFrame
  <2>2. QED
    BY <2>1
<1> HIDE DEF f
<1>5. /\ f.at <= Len(order) + 1
      /\ f.verb = Count(order, "verb", f.at - 1) + 1
      /\ f.behavior = Count(order, "behavior", f.at - 1) + 1
  <2>1. f.at - 1 = Top.at /\ f.at <= Len(order) + 1
    BY <1>1, <1>2, <1>3
  <2>2. /\ Top.verb = Count(order, "verb", Top.at - 1) + 1
        /\ Top.behavior = Count(order, "behavior", Top.at - 1) + 1
    BY <1>1, AtFrame
  <2>3. QED
    BY <1>3, <1>4, <2>1, <2>2
<1>6. Agree(frames, order_set, behavior_set) /\ frames \in Seq(Frame)
  BY FramesAgreeIsAgree DEF Inv, TypeOK
<1>7. /\ past \in Seq(Frame) /\ past # <<>> /\ Len(past) = Len(frames)
      /\ \A i \in DOMAIN frames : past[i].queue = frames[i].queue
      /\ Agree(past, order_set, behavior_set)
  <2>1. /\ frames # <<>> /\ f \in Frame /\ f.busy = FALSE
        /\ f.queue = frames[Len(frames)].queue /\ order = order_set[f.queue]
    BY <1>1, <1>2, <1>3
  <2> HIDE DEF order
  <2>2. /\ f.at <= Len(order_set[f.queue]) + 1
        /\ f.verb = Count(order_set[f.queue], "verb", f.at - 1) + 1
        /\ f.behavior = Count(order_set[f.queue], "behavior", f.at - 1) + 1
    BY <1>5, <2>1
  <2>3. QED
    BY <1>6, <2>1, <2>2, AgreeTop
<1>8. Top.behavior \in DOMAIN behavior_set[Top.queue] /\ c \in Queue /\ c \notin Roots
  <2>1. Top.behavior \in DOMAIN behavior_set[Top.queue]
    BY <1>1, <1>2, InvInRange DEF IteratorsInRange
  <2>2. QED
    BY <2>1, <1>2, FrameTypes DEF Inv, NestedOnce
<1>9. Contains(behavior_set[Top.queue], c)
  BY <1>2, <1>8, FrameTypes DEF Inv, Contains
<1>10. \A i \in DOMAIN frames : frames[i].queue # c
  <2> SUFFICES ASSUME NEW i \in DOMAIN frames, frames[i].queue = c
               PROVE  FALSE
    OBVIOUS
  <2> DEFINE p == frames[i - 1].queue
  <2>1. i > 1 /\ Contains(behavior_set[p], c)
    BY <1>8 DEF Inv, FramesAgree
  <2>2. i - 1 \in DOMAIN frames /\ i \in 1..Len(frames) /\ Len(frames) \in Nat
    BY <2>1, FrameTypes DEF Inv
  <2>3. p \in Queue
    BY <2>2, FrameTypes DEF Inv, Frame
  <2>4. p = Top.queue
    <3>1. PICK j \in 1..Len(behavior_set[p]) : behavior_set[p][j] = c
      BY <2>1 DEF Contains
    <3>2. j \in DOMAIN behavior_set[p]
      BY <2>3, <3>1, FrameTypes DEF Inv
    <3>3. QED
      BY <1>2, <1>8, <2>3, <3>1, <3>2 DEF Inv, NestedOnce
  <2>5. i - 1 = Len(frames)
    BY <1>2, <2>2, <2>4 DEF Inv, FramesAgree
  <2>6. QED
    BY <2>2, <2>5
<1>11. DOMAIN past = DOMAIN frames
  BY <1>6, <1>7, LenProperties
<1>12. Contains(behavior_set[past[Len(past)].queue], c)
  BY <1>2, <1>7, <1>9
<1> HIDE DEF past, c
<1>13. Append(past, Enter(c)) \in Seq(Frame) /\ Agree(Append(past, Enter(c)), order_set, behavior_set)
  <2>1. order_set \in [Queue -> Seq(Kind)]
    BY DEF Inv, TypeOK
  <2>2. \A i \in DOMAIN past : past[i].queue # c
    BY <1>7, <1>10, <1>11
  <2>3. QED
    BY <1>7, <1>8, <1>12, <2>1, <2>2, AgreePush
<1>14. QED
  BY <1>1, <1>7, <1>13, OnlyFrames

\* The clearing of a single-execution behavior touches it and the behaviors
\* nested in it; none of these is under way once its activation is popped.
LEMMA FinishInv ==
    ASSUME Inv, finish
    PROVE  Inv'
<1> DEFINE gone == {Top.queue} \cup ToSet(behavior_set[Top.queue])
           Cleared(f) == [q \in Queue |-> IF q \in gone THEN <<>> ELSE f[q]]
           fs == Front(frames)
<1>1. /\ frames # <<>> /\ frames' = fs /\ UNCHANGED single_execution
      /\ \/ /\ behavior_set' = Cleared(behavior_set)
            /\ verb_set' = Cleared(verb_set)
            /\ order_set' = Cleared(order_set)
         \/ UNCHANGED <<behavior_set, verb_set, order_set>>
  BY DEF finish
<1>2. /\ fs \in Seq(Frame) /\ DOMAIN fs = 1..(Len(frames) - 1)
      /\ \A i \in 1..(Len(frames) - 1) : fs[i] = frames[i]
      /\ Agree(fs, order_set, behavior_set)
  <2>1. Agree(frames, order_set, behavior_set) /\ frames \in Seq(Frame)
    BY FramesAgreeIsAgree DEF Inv, TypeOK
  <2>2. QED
    BY <1>1, <2>1, AgreeFront
<1>3. CASE UNCHANGED <<behavior_set, verb_set, order_set>>
  BY <1>1, <1>2, <1>3, OnlyFrames DEF containers
<1>4. CASE /\ behavior_set' = Cleared(behavior_set)
           /\ verb_set' = Cleared(verb_set)
           /\ order_set' = Cleared(order_set)
  <2>1. /\ Len(frames) \in Nat \ {0} /\ DOMAIN frames = 1..Len(frames)
        /\ Top = frames[Len(frames)] /\ Top.queue \in Queue
    <3>1. Len(frames) \in Nat /\ DOMAIN frames = 1..Len(frames)
      BY FrameTypes DEF Inv
    <3>2. Len(frames) \in DOMAIN frames /\ Top = frames[Len(frames)] /\ Top.queue \in Queue
      BY <1>1, AtFrame
    <3>3. QED
      BY <3>1, <3>2
  <2>2. ASSUME NEW q \in Queue
        PROVE  \/ order_set'[q] = <<>> /\ verb_set'[q] = <<>> /\ behavior_set'[q] = <<>>
               \/ /\ order_set'[q] = order_set[q] /\ verb_set'[q] = verb_set[q]
                  /\ behavior_set'[q] = behavior_set[q]
    BY <1>4, <2>2
  <2>3. \A q \in Queue \ gone : order_set'[q] = order_set[q] /\ behavior_set'[q] = behavior_set[q]
    BY <1>4
  <2>4. TypeOK'
    <3>1. \A S : <<>> \in Seq(S)
      BY EmptySeq
    <3>2. /\ verb_set \in [Queue -> Seq(Verb)] /\ behavior_set \in [Queue -> Seq(Queue)]
          /\ order_set \in [Queue -> Seq(Kind)] /\ single_execution \in [Queue -> BOOLEAN]
      BY DEF Inv, TypeOK
    <3> HIDE DEF gone
    <3>3. /\ Cleared(verb_set) \in [Queue -> Seq(Verb)]
          /\ Cleared(behavior_set) \in [Queue -> Seq(Queue)]
          /\ Cleared(order_set) \in [Queue -> Seq(Kind)]
      BY <3>1, <3>2
    <3> HIDE DEF Cleared
    <3>4. QED
      BY <1>1, <1>2, <1>4, <3>2, <3>3 DEF TypeOK
  <2> HIDE DEF gone
  <2>5. OrderAgrees'
    <3> SUFFICES ASSUME NEW p \in Queue
                 PROVE  /\ Count(order_set'[p], "verb", Len(order_set'[p])) = Len(verb_set'[p])
                        /\ Count(order_set'[p], "behavior", Len(order_set'[p])) = Len(behavior_set'[p])
      BY DEF OrderAgrees
    <3>1. CASE order_set'[p] = <<>> /\ verb_set'[p] = <<>> /\ behavior_set'[p] = <<>>
      BY <3>1, CountZero
    <3>2. CASE /\ order_set'[p] = order_set[p] /\ verb_set'[p] = verb_set[p]
               /\ behavior_set'[p] = behavior_set[p]
      BY <3>2 DEF Inv, OrderAgrees
    <3>3. QED
      BY <3>1, <3>2, <2>2
  <2>6. NestedOnce'
    <3>1. \A p \in Queue : \A i \in DOMAIN behavior_set'[p] :
             i \in DOMAIN behavior_set[p] /\ behavior_set'[p][i] = behavior_set[p][i]
      BY <2>2
    <3>2. QED
      BY <3>1 DEF Inv, NestedOnce
  <2>7. \A i \in DOMAIN fs : fs[i].queue \in Queue \ gone
    <3> SUFFICES ASSUME NEW i \in DOMAIN fs
                 PROVE  frames[i].queue \in Queue \ gone
      BY <1>2
    <3> DEFINE n == Len(frames)
    <3>a. i \in 1..(n - 1) /\ n \in Nat \ {0}
      BY <1>2, <2>1
    <3>1. i \in DOMAIN frames /\ i # n /\ i - 1 # n /\ n \in DOMAIN frames
      <4> HIDE DEF n
      <4>1. i \in 1..n /\ i # n /\ i - 1 # n /\ n \in 1..n
        BY <3>a
      <4>2. QED
        BY <2>1, <4>1 DEF n
    <3>b. frames[i].queue \in Queue
      BY <3>1, FrameTypes DEF Inv, Frame
    <3> SUFFICES ASSUME frames[i].queue \in gone
                 PROVE  FALSE
      BY <3>b
    <3>2. frames[i].queue # Top.queue
      BY <3>1, <2>1 DEF Inv, FramesAgree
    <3>3. Contains(behavior_set[Top.queue], frames[i].queue)
      BY <3>2 DEF gone, ToSet, Contains
    <3>4. PICK j \in DOMAIN behavior_set[Top.queue] : behavior_set[Top.queue][j] = frames[i].queue
      BY <3>2 DEF gone, ToSet
    <3>5. frames[i].queue \notin Roots
      BY <2>1, <3>4 DEF Inv, NestedOnce
    <3> DEFINE p == frames[i - 1].queue
    <3>6. i > 1 /\ Contains(behavior_set[p], frames[i].queue)
      BY <3>1, <3>5 DEF Inv, FramesAgree
    <3>7. i - 1 \in DOMAIN frames
      BY <2>1, <3>1, <3>6
    <3>8. p \in Queue
      BY <3>7, FrameTypes DEF Inv, Frame
    <3>9. PICK k \in DOMAIN behavior_set[p] : behavior_set[p][k] = frames[i].queue
      BY <3>6, <3>8, FrameTypes DEF Inv, Contains
    <3>10. p = Top.queue
      BY <2>1, <3>4, <3>8, <3>9 DEF Inv, NestedOnce
    <3>11. i - 1 = Len(frames)
      BY <2>1, <3>1, <3>7, <3>10 DEF Inv, FramesAgree
    <3>12. QED
      BY <3>1, <3>11
  <2>8. FramesAgree'
    <3>1. Agree(fs, order_set', behavior_set')
      BY <1>2, <2>3, <2>7, AgreeElsewhere
    <3>2. QED
      BY <1>1, <3>1 DEF FramesAgree, Agree
  <2>9. QED
    BY <2>4, <2>5, <2>6, <2>8 DEF Inv
<1>5. QED
  BY <1>1, <1>3, <1>4

------------------------------------------------------------------------------
(* The theorems *)

LEMMA NextInv == Inv /\ [Next]_vars => Inv'
<1> SUFFICES ASSUME Inv, [Next]_vars
             PROVE  Inv'
  OBVIOUS
<1>1. CASE UNCHANGED vars
  <2>1. UNCHANGED containers /\ frames' = frames
    BY <1>1 DEF vars, containers
  <2>2. frames \in Seq(Frame) /\ Agree(frames, order_set, behavior_set)
    BY FramesAgreeIsAgree DEF Inv, TypeOK
  <2>3. QED
    BY <2>1, <2>2, OnlyFrames
<1>2. ASSUME NEW q \in Queue, NEW v \in Verb, insert(q, v)
      PROVE  Inv'
  BY <1>2, InsertInv
<1>3. ASSUME NEW q \in Queue, NEW v \in Verb, disconnect_verb(q, v)
      PROVE  Inv'
  BY <1>3, DisconnectVerbInv
<1>4. ASSUME NEW q \in Queue, NEW c \in Queue, disconnect_behavior(q, c)
      PROVE  Inv'
  BY <1>4, DisconnectBehaviorInv
<1>5. ASSUME NEW q \in Queue, NEW c \in Queue, NEW s \in BOOLEAN, insert_behavior(q, c, s)
      PROVE  Inv'
  BY <1>5, InsertBehaviorInv
<1>6. ASSUME NEW q \in Roots, call(q)
      PROVE  Inv'
  BY <1>6, CallInv
<1>7. CASE run_verb
  BY <1>7, RunVerbInv
<1>8. CASE verb_returns
  BY <1>8, VerbReturnsInv
<1>9. CASE verb_throws
  BY <1>9, VerbThrowsInv
<1>10. CASE run_behavior
  BY <1>10, RunBehaviorInv
<1>11. CASE finish
  BY <1>11, FinishInv
<1>12. QED
  BY <1>1, <1>2, <1>3, <1>4, <1>5, <1>6, <1>7, <1>8, <1>9, <1>10, <1>11 DEF Next

\* The inductive invariant holds in every reachable state, for any number of
\* verbs and behaviors nested to any depth.
THEOREM Invariance == Spec => []Inv
<1>1. Init => Inv
  BY InitInv
<1>2. Inv /\ [Next]_vars => Inv'
  BY NextInv
<1>3. QED
  BY <1>1, <1>2, PTL DEF Spec

\* Every container of every behavior_t keeps its type.
THEOREM TypeCorrect == Spec => []TypeOK
<1>1. Inv => TypeOK
  BY DEF Inv
<1>2. QED
  BY <1>1, Invariance, PTL

\* The assertion behavior_t::operator() starts with cannot fail, and the order
\* vector names each list exactly as often as the list is long.
THEOREM OrderAlwaysAgrees == Spec => []OrderAgrees
<1>1. Inv => OrderAgrees
  BY DEF Inv
<1>2. QED
  BY <1>1, Invariance, PTL

\* behavior_t::operator() never dereferences the end of a list, and has run
\* everything in both lists when its loop ends.
THEOREM IteratorsStayInRange == Spec => []IteratorsInRange
<1>1. Inv => IteratorsInRange
  BY InvInRange
<1>2. QED
  BY <1>1, Invariance, PTL

------------------------------------------------------------------------------
(* The entries, recovered from the order and the two lists *)

Entry == Verb \cup Queue

\* The lists are as long as the order says.
Fits(order, lists) ==
    /\ order \in Seq(Kind) /\ lists \in [Kind -> Seq(Entry)]
    /\ \A k \in Kind : Count(order, k, Len(order)) = Len(lists[k])

\* An entry's place in its list.
LEMMA PlaceInList ==
    ASSUME NEW order, NEW lists, Fits(order, lists), NEW i \in 1..Len(order)
    PROVE  /\ order[i] \in Kind
           /\ Count(order, order[i], i) \in 1..Len(lists[order[i]])
<1>1. /\ Len(order) \in Nat /\ DOMAIN order = 1..Len(order) /\ order[i] \in Kind
      /\ order \in Seq(Kind)
  BY ElementOfSeq, LenProperties DEF Fits
<1>2. PICK k : k = order[i]
  OBVIOUS
<1>3. /\ i \in Nat \ {0} /\ i - 1 \in Nat /\ i \in Nat /\ i <= Len(order) /\ i \in DOMAIN order
  BY <1>1
<1>4. Count(order, k, i) = Count(order, k, i - 1) + 1
  BY <1>2, <1>3, CountStep
<1>5. Count(order, k, i - 1) \in Nat /\ Count(order, k, i) \in Nat /\ Count(order, k, Len(order)) \in Nat
  BY <1>1, <1>3, CountType
<1>6. Count(order, k, i) <= Count(order, k, Len(order))
  BY <1>1, <1>3, CountMonotone
<1>7. Count(order, k, Len(order)) = Len(lists[k])
  BY <1>1, <1>2 DEF Fits
<1>8. Count(order, k, i) \in 1..Len(lists[k])
  BY ONLY <1>4, <1>5, <1>6, <1>7
<1>9. QED
  BY <1>1, <1>2, <1>8

LEMMA InterleavedSeq ==
    ASSUME NEW order, NEW lists, Fits(order, lists)
    PROVE  /\ Interleaved(order, lists) \in Seq(Entry)
           /\ Len(Interleaved(order, lists)) = Len(order)
           /\ \A i \in 1..Len(order) :
                  Interleaved(order, lists)[i] = lists[order[i]][Count(order, order[i], i)]
<1> DEFINE s == Interleaved(order, lists)
<1>1. Len(order) \in Nat /\ DOMAIN order = 1..Len(order)
  BY LenProperties DEF Fits
<1>2. \A i \in 1..Len(order) : lists[order[i]][Count(order, order[i], i)] \in Entry
  <2> SUFFICES ASSUME NEW i \in 1..Len(order)
               PROVE  lists[order[i]][Count(order, order[i], i)] \in Entry
    OBVIOUS
  <2>1. order[i] \in Kind /\ Count(order, order[i], i) \in 1..Len(lists[order[i]])
    BY PlaceInList
  <2>2. lists[order[i]] \in Seq(Entry)
    BY <2>1 DEF Fits
  <2>3. QED
    BY <2>1, <2>2, ElementOfSeq
<1>3. /\ DOMAIN s = 1..Len(order)
      /\ \A i \in 1..Len(order) : s[i] = lists[order[i]][Count(order, order[i], i)]
  BY <1>1 DEF Interleaved
<1>4. s \in [1..Len(order) -> Entry]
  BY <1>1, <1>2 DEF Interleaved
<1> HIDE DEF s
<1>5. s \in Seq(Entry) /\ Len(s) = Len(order)
  BY <1>1, <1>3, <1>4, SeqDef, LenProperties
<1>6. QED
  BY <1>3, <1>5 DEF s

\* push_back.
Pushed(s, e) == Append(s, e)

\* What push_back into the order and one of the lists does to the entries.
LEMMA InterleavedAppend ==
    ASSUME NEW order, NEW lists, Fits(order, lists), NEW k \in Kind, NEW e \in Entry
    PROVE  Interleaved(Pushed(order, k), [lists EXCEPT ![k] = Pushed(@, e)])
             = Pushed(Interleaved(order, lists), e)
<1> DEFINE o == Append(order, k)
           l == [lists EXCEPT ![k] = Append(@, e)]
           s == Interleaved(order, lists)
           t == Interleaved(o, l)
<1>1. PICK n \in Nat : n = Len(order)
  BY LenProperties DEF Fits
<1>2. /\ o \in Seq(Kind) /\ Len(o) = n + 1 /\ o[n + 1] = k /\ \A i \in 1..n : o[i] = order[i]
      /\ DOMAIN o = 1..(n + 1) /\ DOMAIN order = 1..n
  BY <1>1, AppendProperties, LenProperties DEF Fits
<1>3. \A j \in Kind : Count(o, j, n + 1) = Count(order, j, n) + (IF k = j THEN 1 ELSE 0)
  BY <1>1, CountAppend DEF Fits
<1>4. \A j \in Kind : Count(order, j, n) = Len(lists[j]) /\ lists[j] \in Seq(Entry) /\ Len(lists[j]) \in Nat
  BY <1>1, LenProperties DEF Fits
<1>5. /\ l[k] = Append(lists[k], e) /\ \A j \in Kind \ {k} : l[j] = lists[j]
  BY DEF Fits
<1>6. /\ Append(lists[k], e) \in Seq(Entry) /\ Len(Append(lists[k], e)) = Len(lists[k]) + 1
      /\ Append(lists[k], e)[Len(lists[k]) + 1] = e
      /\ \A i \in 1..Len(lists[k]) : Append(lists[k], e)[i] = lists[k][i]
  BY <1>4, AppendProperties
<1>7. l \in [Kind -> Seq(Entry)]
  BY <1>6 DEF Fits
<1> HIDE DEF o, l
<1>8. \A j \in Kind : Count(o, j, n + 1) = Len(l[j])
  <2> SUFFICES ASSUME NEW j \in Kind
               PROVE  Count(o, j, n + 1) = Len(l[j])
    OBVIOUS
  <2>1. CASE j = k
    BY <1>3, <1>4, <1>5, <1>6, <2>1
  <2>2. CASE j # k
    <3>1. Count(o, j, n + 1) = Len(lists[j]) + 0
      BY <1>3, <1>4, <2>2
    <3>2. QED
      BY <3>1, <1>4, <1>5, <2>2
  <2>3. QED
    BY <2>1, <2>2
<1>9. Fits(o, l)
  BY <1>2, <1>7, <1>8 DEF Fits
<1>10. /\ t \in Seq(Entry) /\ Len(t) = n + 1
       /\ \A i \in 1..(n + 1) : t[i] = l[o[i]][Count(o, o[i], i)]
  BY <1>2, <1>9, InterleavedSeq
<1>11. /\ s \in Seq(Entry) /\ Len(s) = n
       /\ \A i \in 1..n : s[i] = lists[order[i]][Count(order, order[i], i)]
  BY <1>1, InterleavedSeq
<1> HIDE DEF s, t
<1>12. /\ Append(s, e) \in Seq(Entry) /\ Len(Append(s, e)) = n + 1 /\ Append(s, e)[n + 1] = e
       /\ \A i \in 1..n : Append(s, e)[i] = s[i]
  BY <1>11, AppendProperties
<1>13. ASSUME NEW i \in 1..n
       PROVE  t[i] = s[i]
  <2>1. i \in 1..(n + 1) /\ o[i] = order[i]
    BY <1>2
  <2>2. PICK j \in Kind : j = order[i] /\ Count(order, j, i) \in 1..Len(lists[j])
    BY <1>1, PlaceInList
  <2>3. Count(o, j, i) = Count(order, j, i)
    <3>1. i \in Nat /\ \A m \in 1..i : m \in DOMAIN o /\ m \in DOMAIN order /\ o[m] = order[m]
      BY <1>2
    <3>2. QED
      BY <3>1, CountPrefix
  <2>4. l[j][Count(order, j, i)] = lists[j][Count(order, j, i)]
    BY <1>5, <1>6, <2>2
  <2>5. QED
    BY <1>10, <1>11, <2>1, <2>2, <2>3, <2>4
<1>14. t[n + 1] = e
  <2>1. n + 1 \in 1..(n + 1)
    BY <1>1
  <2>2. t[n + 1] = l[k][Count(o, k, n + 1)]
    BY <1>2, <1>10, <2>1
  <2>3. Count(o, k, n + 1) = Len(lists[k]) + 1
    BY <1>3, <1>4
  <2>4. QED
    BY <1>5, <1>6, <2>2, <2>3
<1>15. \A i \in 1..(n + 1) : t[i] = Append(s, e)[i]
  <2>1. \A i \in 1..(n + 1) : i \in 1..n \/ i = n + 1
    BY <1>1
  <2>2. QED
    BY <1>12, <1>13, <1>14, <2>1
<1>16. t = Append(s, e)
  BY <1>10, <1>12, <1>15, SeqEqual
<1>17. QED
  BY <1>16 DEF o, l, s, t, Pushed

\* Every element of a list has an entry, where the search for it ends.
LEMMA InterleavedHas ==
    ASSUME NEW order, NEW lists, Fits(order, lists), NEW k \in Kind,
           NEW index \in 1..Len(lists[k])
    PROVE  /\ Position(order, k, index) \in 1..Len(order)
           /\ Interleaved(order, lists)[Position(order, k, index)] = lists[k][index]
<1>1. order \in Seq(Kind) /\ lists[k] \in Seq(Entry) /\ Count(order, k, Len(order)) = Len(lists[k])
  BY DEF Fits
<1>2. index \in Nat \ {0} /\ index <= Count(order, k, Len(order))
  BY <1>1
<1>3. PICK p : p = Position(order, k, index)
  OBVIOUS
<1>4. p \in 1..Len(order) /\ order[p] = k /\ Count(order, k, p) = index
  BY <1>1, <1>2, <1>3, PositionExists
<1>5. Interleaved(order, lists)[p] = lists[k][index]
  BY <1>4, InterleavedSeq
<1>6. QED
  BY <1>3, <1>4, <1>5

\* What erasing an element of a list and its entry of the order does to the entries.
LEMMA InterleavedRemove ==
    ASSUME NEW order, NEW lists, Fits(order, lists), NEW k \in Kind,
           NEW index \in 1..Len(lists[k])
    PROVE  Interleaved(erase_from_order(order, k, index),
                       [lists EXCEPT ![k] = RemoveAt(@, index)])
             = RemoveAt(Interleaved(order, lists), Position(order, k, index))
<1> DEFINE p == Position(order, k, index)
           o == RemoveAt(order, p)
           l == [lists EXCEPT ![k] = RemoveAt(@, index)]
           s == Interleaved(order, lists)
           t == Interleaved(o, l)
           n == Len(order)
<1>1. /\ n \in Nat /\ DOMAIN order = 1..n /\ order \in Seq(Kind)
  BY LenProperties DEF Fits
<1>2. \A j \in Kind : Count(order, j, n) = Len(lists[j]) /\ lists[j] \in Seq(Entry) /\ Len(lists[j]) \in Nat
  BY LenProperties DEF Fits
<1>3. p \in 1..n /\ order[p] = k /\ Count(order, k, p) = index
  <2>1. index \in Nat \ {0} /\ index <= Count(order, k, Len(order))
    BY <1>2
  <2>2. QED
    BY <1>1, <2>1, PositionExists
<1> HIDE DEF p
<1>4. /\ o \in Seq(Kind) /\ Len(o) = n - 1
      /\ \A i \in 1..(n - 1) : o[i] = IF i < p THEN order[i] ELSE order[i + 1]
  BY <1>1, <1>3, RemoveAtSeq
<1>5. \A j \in Kind, m \in Nat : p <= m + 1 /\ m + 1 <= n =>
          Count(o, j, m) = Count(order, j, m + 1) - (IF order[p] = j THEN 1 ELSE 0)
  BY <1>1, <1>3, CountRemoved
<1> HIDE DEF o
<1>6. /\ l[k] = RemoveAt(lists[k], index) /\ \A j \in Kind \ {k} : l[j] = lists[j]
      /\ lists \in [Kind -> Seq(Entry)]
  BY DEF Fits
<1>7. /\ RemoveAt(lists[k], index) \in Seq(Entry)
      /\ Len(RemoveAt(lists[k], index)) = Len(lists[k]) - 1
      /\ \A i \in 1..(Len(lists[k]) - 1) :
             RemoveAt(lists[k], index)[i] = IF i < index THEN lists[k][i] ELSE lists[k][i + 1]
  BY <1>2, RemoveAtSeq
<1>8. l \in [Kind -> Seq(Entry)]
  BY <1>6, <1>7
<1> HIDE DEF l, n
<1>9. \A j \in Kind : Count(o, j, n - 1) = Len(l[j])
  <2> SUFFICES ASSUME NEW j \in Kind
               PROVE  Count(o, j, n - 1) = Len(l[j])
    OBVIOUS
  <2>1. n - 1 \in Nat /\ p <= (n - 1) + 1 /\ (n - 1) + 1 = n
    BY <1>1, <1>3
  <2>2. Count(o, j, n - 1) = Count(order, j, n) - (IF order[p] = j THEN 1 ELSE 0)
    BY <1>1, <1>5, <2>1
  <2>3. CASE j = k
    BY <1>2, <1>3, <1>6, <1>7, <2>2, <2>3
  <2>4. CASE j # k
    <3>1. Count(o, j, n - 1) = Len(lists[j]) - 0
      BY <1>2, <1>3, <2>2, <2>4
    <3>2. QED
      BY <3>1, <1>2, <1>6, <2>4
  <2>5. QED
    BY <2>3, <2>4
<1>10. Fits(o, l)
  BY <1>4, <1>8, <1>9 DEF Fits
<1>11. /\ t \in Seq(Entry) /\ Len(t) = n - 1
       /\ \A i \in 1..(n - 1) : t[i] = l[o[i]][Count(o, o[i], i)]
  BY <1>4, <1>10, InterleavedSeq
<1>12. /\ s \in Seq(Entry) /\ Len(s) = n
       /\ \A i \in 1..n : s[i] = lists[order[i]][Count(order, order[i], i)]
  BY InterleavedSeq DEF n
<1> HIDE DEF s, t
<1>13. /\ RemoveAt(s, p) \in Seq(Entry) /\ Len(RemoveAt(s, p)) = n - 1
       /\ \A i \in 1..(n - 1) : RemoveAt(s, p)[i] = IF i < p THEN s[i] ELSE s[i + 1]
  BY <1>3, <1>12, RemoveAtSeq
<1>14. \A i \in 1..n : order[i] \in Kind /\ Count(order, order[i], i) \in 1..Len(lists[order[i]])
  BY PlaceInList DEF n
<1>15. \A j \in Kind, m \in Nat : Count(order, j, m) \in Nat
  BY CountType
<1>16. ASSUME NEW i \in 1..(n - 1)
       PROVE  t[i] = RemoveAt(s, p)[i]
  <2>1. i \in Nat /\ i \in Nat \ {0} /\ i \in 1..n /\ i + 1 \in 1..n /\ i + 1 <= n
    BY <1>1
  <2>2. CASE i < p
    <3>1. PICK j \in Kind : j = order[i] /\ o[i] = j /\ Count(order, j, i) \in 1..Len(lists[j])
      BY <1>4, <1>14, <2>1, <2>2
    <3>2. Count(o, j, i) = Count(order, j, i)
      <4>1. \A m \in 1..i : m \in 1..(n - 1) /\ m \in 1..n /\ m < p
        BY <1>1, <1>3, <2>2
      <4>2. DOMAIN o = 1..(n - 1) /\ DOMAIN order = 1..n
        BY <1>1, <1>4, LenProperties
      <4>3. \A m \in 1..i : m \in DOMAIN o /\ m \in DOMAIN order /\ o[m] = order[m]
        BY <1>4, <4>1, <4>2
      <4>4. QED
        BY <2>1, <4>3, CountPrefix
    <3>3. l[j][Count(order, j, i)] = lists[j][Count(order, j, i)]
      <4>1. CASE j = k
        <5>1. i <= p - 1 /\ p - 1 \in Nat /\ p \in Nat \ {0}
          BY <1>1, <1>3, <2>1, <2>2
        <5>2. Count(order, k, i) <= Count(order, k, p - 1)
          BY <2>1, <5>1, CountMonotone
        <5>3. p \in DOMAIN order
          BY <1>1, <1>3
        <5>4. Count(order, k, p) = Count(order, k, p - 1) + 1
          BY <1>3, <5>1, <5>3, CountStep
        <5>5. Count(order, k, i) \in Nat /\ Count(order, k, p - 1) \in Nat
          BY <1>15, <2>1, <5>1
        <5>6. Count(order, k, i) < index
          BY <1>3, <5>2, <5>4, <5>5
        <5>7. Count(order, k, i) \in 1..(Len(lists[k]) - 1)
          BY <1>2, <3>1, <4>1, <5>6
        <5>8. QED
          BY <1>6, <1>7, <4>1, <5>6, <5>7
      <4>2. CASE j # k
        BY <1>6, <4>2
      <4>3. QED
        BY <4>1, <4>2
    <3>4. QED
      BY <1>11, <1>12, <1>13, <2>1, <2>2, <3>1, <3>2, <3>3
  <2>3. CASE ~(i < p)
    <3>1. PICK j \in Kind : j = order[i + 1] /\ o[i] = j /\ Count(order, j, i + 1) \in 1..Len(lists[j])
      BY <1>4, <1>14, <2>1, <2>3
    <3>2. Count(o, j, i) = Count(order, j, i + 1) - (IF order[p] = j THEN 1 ELSE 0)
      <4>1. p <= i + 1
        BY <1>1, <1>3, <2>1, <2>3
      <4>2. QED
        BY <1>5, <2>1, <4>1
    <3>3. l[j][Count(o, j, i)] = lists[j][Count(order, j, i + 1)]
      <4>1. CASE j = k
        <5>1. p \in Nat /\ p <= i /\ i + 1 \in Nat \ {0} /\ (i + 1) - 1 = i
          BY <1>1, <1>3, <2>1, <2>3
        <5>2. Count(order, k, p) <= Count(order, k, i)
          BY <2>1, <5>1, CountMonotone
        <5>3. i + 1 \in DOMAIN order
          BY <1>1, <2>1
        <5>4. Count(order, k, i + 1) = Count(order, k, i) + 1
          <6>1. Count(order, k, i + 1) = Count(order, k, (i + 1) - 1)
                     + (IF i + 1 \in DOMAIN order /\ order[i + 1] = k THEN 1 ELSE 0)
            BY <5>1, CountStep
          <6>2. QED
            BY <3>1, <4>1, <5>1, <5>3, <6>1
        <5>5. Count(order, k, i) \in Nat /\ index \in Nat \ {0}
          BY <1>2, <1>15, <2>1
        <5>6. Count(o, k, i) = Count(order, k, i)
          BY <1>3, <3>2, <4>1, <5>4, <5>5
        <5>7. ~(Count(order, k, i) < index) /\ Count(order, k, i) \in 1..(Len(lists[k]) - 1)
          BY <1>2, <1>3, <3>1, <4>1, <5>2, <5>4, <5>5
        <5>8. QED
          BY <1>6, <1>7, <4>1, <5>4, <5>6, <5>7
      <4>2. CASE j # k
        <5>1. Count(o, j, i) = Count(order, j, i + 1) - 0 /\ Count(order, j, i + 1) \in Nat
          BY <1>3, <1>15, <2>1, <3>2, <4>2
        <5>2. QED
          BY <1>6, <4>2, <5>1
      <4>3. QED
        BY <4>1, <4>2
    <3>4. QED
      BY <1>11, <1>12, <1>13, <2>1, <2>3, <3>1, <3>3
  <2>4. QED
    BY <2>2, <2>3
<1>17. t = RemoveAt(s, p)
  BY <1>11, <1>13, <1>16, SeqEqual
<1>18. QED
  BY <1>17 DEF p, o, l, s, t, erase_from_order

------------------------------------------------------------------------------
(* The activations that a client can tell *)

Activated(f) == [queue |-> f.queue, at |-> f.at, busy |-> f.busy]
Activation == [queue : Queue, at : Nat \ {0}, busy : BOOLEAN]

LEMMA CallsSeq ==
    ASSUME NEW fs \in Seq(Frame)
    PROVE  /\ CallsOf(fs) \in Seq(Activation) /\ Len(CallsOf(fs)) = Len(fs)
           /\ Len(fs) \in Nat /\ DOMAIN fs = 1..Len(fs) /\ DOMAIN CallsOf(fs) = 1..Len(fs)
           /\ \A i \in 1..Len(fs) : fs[i] \in Frame /\ CallsOf(fs)[i] = Activated(fs[i])
<1> DEFINE s == CallsOf(fs)
<1>1. Len(fs) \in Nat /\ DOMAIN fs = 1..Len(fs) /\ \A i \in 1..Len(fs) : fs[i] \in Frame
  BY LenProperties, ElementOfSeq
<1>2. DOMAIN s = 1..Len(fs) /\ \A i \in 1..Len(fs) : s[i] = Activated(fs[i])
  BY <1>1 DEF CallsOf, Activated
<1>3. \A f \in Frame : Activated(f) \in Activation
  BY DEF Frame, Activated, Activation
<1>4. s \in [1..Len(fs) -> Activation]
  <2>1. \A i \in 1..Len(fs) : s[i] \in Activation
    BY <1>1, <1>2, <1>3
  <2>2. s = [i \in 1..Len(fs) |-> s[i]]
    BY <1>1 DEF CallsOf
  <2> HIDE DEF s
  <2>3. QED
    BY <2>1, <2>2
<1> HIDE DEF s
<1>5. s \in Seq(Activation) /\ Len(s) = Len(fs)
  BY <1>1, <1>2, <1>4, SeqDef, LenProperties
<1>6. QED
  BY <1>1, <1>2, <1>5 DEF s

LEMMA CallsAppend ==
    ASSUME NEW fs \in Seq(Frame), NEW f \in Frame
    PROVE  CallsOf(Append(fs, f)) = Append(CallsOf(fs), Activated(f))
<1> DEFINE g == Append(fs, f)
           s == CallsOf(fs)
<1>1. /\ g \in Seq(Frame) /\ Len(g) = Len(fs) + 1 /\ Len(fs) \in Nat
      /\ g[Len(fs) + 1] = f /\ \A i \in 1..Len(fs) : g[i] = fs[i]
  BY AppendProperties, LenProperties
<1> HIDE DEF g
<1>2. /\ CallsOf(g) \in Seq(Activation) /\ Len(CallsOf(g)) = Len(g)
      /\ \A i \in 1..Len(g) : CallsOf(g)[i] = Activated(g[i])
  BY <1>1, CallsSeq
<1>3. /\ s \in Seq(Activation) /\ Len(s) = Len(fs)
      /\ \A i \in 1..Len(fs) : s[i] = Activated(fs[i])
  BY CallsSeq
<1> HIDE DEF s
<1>4. Activated(f) \in Activation
  BY DEF Frame, Activated, Activation
<1>5. /\ Append(s, Activated(f)) \in Seq(Activation)
      /\ Len(Append(s, Activated(f))) = Len(fs) + 1
      /\ Append(s, Activated(f))[Len(fs) + 1] = Activated(f)
      /\ \A i \in 1..Len(fs) : Append(s, Activated(f))[i] = s[i]
  BY <1>3, <1>4, AppendProperties
<1>6. \A i \in 1..(Len(fs) + 1) : i \in 1..Len(fs) \/ i = Len(fs) + 1
  BY <1>1
<1>7. \A i \in 1..(Len(fs) + 1) : CallsOf(g)[i] = Append(s, Activated(f))[i]
  BY <1>1, <1>2, <1>3, <1>5, <1>6
<1>8. CallsOf(g) = Append(s, Activated(f))
  BY <1>1, <1>2, <1>5, <1>7, SeqEqual
<1>9. QED
  BY <1>8 DEF g, s

LEMMA CallsFront ==
    ASSUME NEW fs \in Seq(Frame), fs # <<>>
    PROVE  CallsOf(Front(fs)) = Front(CallsOf(fs))
<1> DEFINE g == Front(fs)
           s == CallsOf(fs)
           n == Len(fs)
<1>1. /\ g \in Seq(Frame) /\ Len(g) = n - 1 /\ \A i \in 1..(n - 1) : g[i] = fs[i]
      /\ n \in Nat \ {0}
  BY FrontSeq, EmptySeq
<1> HIDE DEF g
<1>2. /\ CallsOf(g) \in Seq(Activation) /\ Len(CallsOf(g)) = Len(g)
      /\ \A i \in 1..Len(g) : CallsOf(g)[i] = Activated(g[i])
  BY <1>1, CallsSeq
<1>3. /\ s \in Seq(Activation) /\ Len(s) = n /\ \A i \in 1..n : s[i] = Activated(fs[i])
  BY CallsSeq
<1> HIDE DEF s, n
<1>4. s # <<>>
  BY <1>1, <1>3, EmptySeq
<1>5. /\ Front(s) \in Seq(Activation) /\ Len(Front(s)) = n - 1
      /\ \A i \in 1..(n - 1) : Front(s)[i] = s[i]
  BY <1>3, <1>4, FrontSeq
<1>6. \A i \in 1..(n - 1) : i \in 1..n
  BY <1>1
<1>7. CallsOf(g) = Front(s)
  BY <1>1, <1>2, <1>3, <1>5, <1>6, SeqEqual
<1>8. QED
  BY <1>7 DEF g, s

LEMMA CallsTop ==
    ASSUME NEW fs \in Seq(Frame), fs # <<>>, NEW f \in Frame
    PROVE  /\ [fs EXCEPT ![Len(fs)] = f] \in Seq(Frame)
           /\ CallsOf([fs EXCEPT ![Len(fs)] = f]) =
                [CallsOf(fs) EXCEPT ![Len(CallsOf(fs))] = Activated(f)]
<1> DEFINE g == [fs EXCEPT ![Len(fs)] = f]
           n == Len(fs)
<1>1. /\ n \in Nat \ {0} /\ DOMAIN fs = 1..n /\ fs \in [1..n -> Frame]
  BY EmptySeq, LenProperties
<1>2. /\ DOMAIN g = 1..n /\ \A i \in 1..n : g[i] = IF i = n THEN f ELSE fs[i]
  BY <1>1
<1>3. g \in Seq(Frame)
  <2>1. g \in [1..n -> Frame]
    BY <1>1
  <2>2. QED
    BY <1>1, <2>1, SeqDef
<1>4. /\ Len(CallsOf(fs)) = n /\ DOMAIN CallsOf(fs) = 1..n
      /\ \A i \in 1..n : CallsOf(fs)[i] = Activated(fs[i])
  BY CallsSeq
<1>5. CallsOf(g) = [i \in 1..n |-> Activated(g[i])]
  BY <1>2 DEF CallsOf, Activated
<1>6. CallsOf(fs) = [i \in 1..n |-> Activated(fs[i])]
  BY <1>1 DEF CallsOf, Activated
<1>7. CallsOf(g) = [CallsOf(fs) EXCEPT ![n] = Activated(f)]
  <2> HIDE DEF g, n
  <2>1. [CallsOf(fs) EXCEPT ![n] = Activated(f)] =
          [i \in 1..n |-> IF i = n THEN Activated(f) ELSE Activated(fs[i])]
    BY <1>6
  <2>2. \A i \in 1..n : Activated(g[i]) = IF i = n THEN Activated(f) ELSE Activated(fs[i])
    BY <1>2
  <2>3. QED
    BY <1>5, <2>1, <2>2
<1>8. QED
  BY <1>3, <1>4, <1>7

------------------------------------------------------------------------------
(* behavior_t implements the list of entries *)

\* No behavior is nested in itself.
NotInItself == \A q \in Queue : \A i \in DOMAIN behavior_set[q] : behavior_set[q][i] # q

\* The abstract specification's operators on sequences are these.
LEMMA SequencesSame ==
    /\ \A s, e : Abstract!Contains(s, e) <=> Contains(s, e)
    /\ \A s, i : Abstract!RemoveAt(s, i) = RemoveAt(s, i)
    /\ \A s : Abstract!Front(s) = Front(s)
BY DEF Abstract!Contains, Contains, Abstract!RemoveAt, RemoveAt, Abstract!Front, Front

LEMMA EntriesFit ==
    ASSUME Inv, NEW q \in Queue
    PROVE  /\ Fits(order_set[q], ListsOf(q))
           /\ ListsOf(q)["verb"] = verb_set[q] /\ ListsOf(q)["behavior"] = behavior_set[q]
           /\ EntriesSeen[q] = Interleaved(order_set[q], ListsOf(q))
<1>1. /\ ListsOf(q)["verb"] = verb_set[q] /\ ListsOf(q)["behavior"] = behavior_set[q]
  BY DEF ListsOf, Kind
<1>2. order_set[q] \in Seq(Kind) /\ verb_set[q] \in Seq(Verb) /\ behavior_set[q] \in Seq(Queue)
  BY FrameTypes DEF Inv
<1>3. verb_set[q] \in Seq(Entry) /\ behavior_set[q] \in Seq(Entry)
  BY <1>2 DEF Entry
<1>4. ListsOf(q) \in [Kind -> Seq(Entry)]
  BY <1>3 DEF ListsOf
<1>5. \A k \in Kind : Count(order_set[q], k, Len(order_set[q])) = Len(ListsOf(q)[k])
  BY <1>1 DEF Inv, OrderAgrees, Kind
<1>6. QED
  BY <1>1, <1>2, <1>4, <1>5 DEF Fits, EntriesSeen

\* What is in the list is in one of the two lists, by what it is.
LEMMA EntriesHave ==
    ASSUME Inv, NEW q \in Queue
    PROVE  /\ EntriesSeen[q] \in Seq(Entry) /\ Len(EntriesSeen[q]) = Len(order_set[q])
           /\ \A v \in Verb : Contains(EntriesSeen[q], v) => Contains(verb_set[q], v)
           /\ \A c \in Queue : Contains(EntriesSeen[q], c) <=> Contains(behavior_set[q], c)
<1> DEFINE s == EntriesSeen[q]
<1>1. /\ s \in Seq(Entry) /\ Len(s) = Len(order_set[q])
      /\ \A i \in 1..Len(order_set[q]) :
             s[i] = ListsOf(q)[order_set[q][i]][Count(order_set[q], order_set[q][i], i)]
  BY EntriesFit, InterleavedSeq
<1> HIDE DEF s
<1>2. ASSUME NEW i \in 1..Len(s)
      PROVE  \/ /\ order_set[q][i] = "verb" /\ Count(order_set[q], "verb", i) \in 1..Len(verb_set[q])
                /\ s[i] = verb_set[q][Count(order_set[q], "verb", i)]
             \/ /\ order_set[q][i] = "behavior"
                /\ Count(order_set[q], "behavior", i) \in 1..Len(behavior_set[q])
                /\ s[i] = behavior_set[q][Count(order_set[q], "behavior", i)]
  <2>1. /\ order_set[q][i] \in Kind
        /\ Count(order_set[q], order_set[q][i], i) \in 1..Len(ListsOf(q)[order_set[q][i]])
    BY <1>1, EntriesFit, PlaceInList
  <2>2. QED
    BY <1>1, <2>1, EntriesFit DEF Kind
<1>3. /\ \A n \in 1..Len(verb_set[q]) : verb_set[q][n] \in Verb
      /\ \A n \in 1..Len(behavior_set[q]) : behavior_set[q][n] \in Queue
  <2>1. verb_set[q] \in Seq(Verb) /\ behavior_set[q] \in Seq(Queue)
    BY FrameTypes DEF Inv
  <2>2. QED
    BY <2>1, ElementOfSeq
<1>4. ASSUME NEW v \in Verb, Contains(s, v)
      PROVE  Contains(verb_set[q], v)
  <2>1. PICK i \in 1..Len(s) : s[i] = v
    BY <1>4 DEF Contains
  <2>2. QED
    BY <1>2, <1>3, <2>1, DisjointAssumption DEF Contains
<1>5. ASSUME NEW c \in Queue, Contains(s, c)
      PROVE  Contains(behavior_set[q], c)
  <2>1. PICK i \in 1..Len(s) : s[i] = c
    BY <1>5 DEF Contains
  <2>2. QED
    BY <1>2, <1>3, <2>1, DisjointAssumption DEF Contains
<1>6. ASSUME NEW c \in Queue, Contains(behavior_set[q], c)
      PROVE  Contains(s, c)
  <2>1. PICK n \in 1..Len(behavior_set[q]) : behavior_set[q][n] = c
    BY <1>6 DEF Contains
  <2>2. "behavior" \in Kind /\ n \in 1..Len(ListsOf(q)["behavior"])
    BY EntriesFit DEF Kind
  <2>3. PICK p \in 1..Len(order_set[q]) :
            Interleaved(order_set[q], ListsOf(q))[p] = ListsOf(q)["behavior"][n]
    <3>1. Fits(order_set[q], ListsOf(q))
      BY EntriesFit
    <3>2. QED
      BY <2>2, <3>1, InterleavedHas
  <2>4. s[p] = c
    BY <2>1, <2>3, EntriesFit DEF s
  <2>5. QED
    BY <1>1, <2>4 DEF Contains
<1>7. QED
  BY <1>1, <1>4, <1>5, <1>6 DEF s

\* What a client may do as the list says and as behavior_t says.
LEMMA GuardsAgree ==
    ASSUME Inv
    PROVE  /\ CallsOf(frames) = <<>> <=> frames = <<>>
           /\ frames # <<>> => Abstract!Top = Activated(Top)
           /\ ClientRuns => Abstract!ClientRuns
           /\ \A q \in Queue : /\ ~Running(q) => ~Abstract!Active(q)
                               /\ Live(q) => Abstract!Live(q)
           /\ \A v \in Verb : ~VerbHeld(v) => ~Abstract!Held(v)
           /\ \A c \in Queue : ~Nested(c) => ~Abstract!Held(c)
<1>1. frames \in Seq(Frame)
  BY DEF Inv, TypeOK
<1>2. /\ CallsOf(frames) \in Seq(Activation) /\ Len(CallsOf(frames)) = Len(frames)
      /\ Len(frames) \in Nat /\ DOMAIN frames = 1..Len(frames)
      /\ DOMAIN CallsOf(frames) = 1..Len(frames)
      /\ \A i \in 1..Len(frames) : CallsOf(frames)[i] = Activated(frames[i])
  BY <1>1, CallsSeq
<1>3. CallsOf(frames) = <<>> <=> frames = <<>>
  BY <1>1, <1>2, EmptySeq
<1>4. frames # <<>> => Abstract!Top = Activated(Top)
  <2>1. frames # <<>> => Len(frames) \in 1..Len(frames)
    BY <1>1, <1>2, EmptySeq
  <2>2. QED
    BY <1>2, <2>1 DEF Abstract!Top, Top
<1>5. ClientRuns => Abstract!ClientRuns
  BY <1>3, <1>4 DEF ClientRuns, Abstract!ClientRuns, Activated
<1>6. \A q \in Queue : ~Running(q) => ~Abstract!Active(q)
  BY <1>2 DEF Running, Abstract!Active, Activated
<1>7. \A v \in Verb : ~VerbHeld(v) => ~Abstract!Held(v)
  BY EntriesHave, SequencesSame DEF VerbHeld, Abstract!Held
<1>8. \A c \in Queue : Nested(c) <=> Abstract!Held(c)
  BY EntriesHave, SequencesSame DEF Nested, Abstract!Held
<1>9. \A q \in Queue : Live(q) => Abstract!Live(q)
  BY <1>8 DEF Live, Abstract!Live
<1>10. QED
  BY <1>3, <1>4, <1>5, <1>6, <1>7, <1>8, <1>9

LEMMA SeenSame ==
    ASSUME NEW q \in Queue, order_set'[q] = order_set[q], verb_set'[q] = verb_set[q],
           behavior_set'[q] = behavior_set[q]
    PROVE  EntriesSeen'[q] = EntriesSeen[q]
<1>1. ListsOf(q)' = ListsOf(q)
  BY DEF ListsOf
<1>2. QED
  BY <1>1 DEF EntriesSeen

LEMMA SeenEmpty ==
    ASSUME NEW q \in Queue
    PROVE  /\ order_set[q] = <<>> => EntriesSeen[q] = <<>>
           /\ order_set'[q] = <<>> => EntriesSeen'[q] = <<>>
<1>1. ASSUME NEW lists
      PROVE  Interleaved(<<>>, lists) = <<>>
  <2>1. DOMAIN <<>> = 1..0 /\ 1..0 = {}
    OBVIOUS
  <2>2. PICK f : f = Interleaved(<<>>, lists)
    OBVIOUS
  <2>3. f \in [1..0 -> Entry]
    BY <2>1, <2>2 DEF Interleaved
  <2>4. f \in Seq(Entry) /\ Len(f) = 0
    BY <2>3, SeqDef, LenProperties
  <2>5. QED
    BY <2>2, <2>4, EmptySeq
<1>2. QED
  BY <1>1 DEF EntriesSeen

LEMMA SeenFunction == EntriesSeen = [q \in Queue |-> EntriesSeen[q]]
BY DEF EntriesSeen

LEMMA InsertRefines ==
    ASSUME Inv, NEW q \in Queue, NEW v \in Verb, insert(q, v)
    PROVE  Abstract!Insert(q, v)
<1>1. /\ order_set' = [order_set EXCEPT ![q] = Append(@, "verb")]
      /\ verb_set' = [verb_set EXCEPT ![q] = Append(@, v)]
      /\ UNCHANGED <<single_execution, behavior_set, frames>>
      /\ ClientRuns /\ Live(q) /\ ~Running(q) /\ ~VerbHeld(v)
  BY DEF insert
<1>2. order_set \in [Queue -> Seq(Kind)] /\ verb_set \in [Queue -> Seq(Verb)]
  BY DEF Inv, TypeOK
<1>3. /\ order_set'[q] = Append(order_set[q], "verb") /\ verb_set'[q] = Append(verb_set[q], v)
      /\ \A p \in Queue \ {q} : order_set'[p] = order_set[p] /\ verb_set'[p] = verb_set[p]
  BY <1>1, <1>2
<1>4. EntriesSeen'[q] = Append(EntriesSeen[q], v)
  <2>1. PICK lists : lists = ListsOf(q)
    OBVIOUS
  <2>2. ListsOf(q)' = [lists EXCEPT !["verb"] = Append(@, v)]
    BY <1>1, <1>3, <2>1 DEF ListsOf, Kind
  <2>3. Fits(order_set[q], lists) /\ EntriesSeen[q] = Interleaved(order_set[q], lists)
    BY <2>1, EntriesFit
  <2>4. EntriesSeen'[q] = Interleaved(order_set'[q], ListsOf(q)')
    BY DEF EntriesSeen
  <2>5. "verb" \in Kind /\ v \in Entry
    BY DEF Kind, Entry
  <2>6. Interleaved(Pushed(order_set[q], "verb"), [lists EXCEPT !["verb"] = Pushed(@, v)])
          = Pushed(Interleaved(order_set[q], lists), v)
    BY <2>3, <2>5, InterleavedAppend
  <2>7. QED
    BY <1>3, <2>2, <2>3, <2>4, <2>6 DEF Pushed
<1>5. \A p \in Queue \ {q} : EntriesSeen'[p] = EntriesSeen[p]
  BY <1>1, <1>3, SeenSame
<1>6. EntriesSeen' = [EntriesSeen EXCEPT ![q] = Append(@, v)]
  <2>1. EntriesSeen' = [p \in Queue |-> EntriesSeen'[p]]
    BY DEF EntriesSeen
  <2>2. EntriesSeen = [p \in Queue |-> EntriesSeen[p]]
    BY SeenFunction
  <2>3. QED
    BY <1>4, <1>5, <2>1, <2>2
<1>7. UNCHANGED <<single_execution, CallsOf(frames)>>
  BY <1>1
<1>8. QED
  BY <1>1, <1>6, <1>7, GuardsAgree DEF Abstract!Insert

LEMMA InsertBehaviorRefines ==
    ASSUME Inv, NEW q \in Queue, NEW c \in Queue, NEW s \in BOOLEAN, insert_behavior(q, c, s)
    PROVE  Abstract!InsertQueue(q, c, s)
<1>1. /\ order_set' = [order_set EXCEPT ![q] = Append(@, "behavior"), ![c] = <<>>]
      /\ behavior_set' = [behavior_set EXCEPT ![q] = Append(@, c), ![c] = <<>>]
      /\ verb_set' = [verb_set EXCEPT ![c] = <<>>]
      /\ single_execution' = [single_execution EXCEPT ![c] = s]
      /\ UNCHANGED frames
      /\ ClientRuns /\ Live(q) /\ ~Running(q) /\ c \notin Roots /\ c # q /\ ~Nested(c)
  BY DEF insert_behavior
<1>2. /\ order_set \in [Queue -> Seq(Kind)] /\ verb_set \in [Queue -> Seq(Verb)]
      /\ behavior_set \in [Queue -> Seq(Queue)]
  BY DEF Inv, TypeOK
<1>3. /\ order_set'[q] = Append(order_set[q], "behavior") /\ verb_set'[q] = verb_set[q]
      /\ behavior_set'[q] = Append(behavior_set[q], c) /\ order_set'[c] = <<>>
      /\ \A p \in Queue \ {q, c} : /\ order_set'[p] = order_set[p] /\ verb_set'[p] = verb_set[p]
                                   /\ behavior_set'[p] = behavior_set[p]
  BY <1>1, <1>2
<1>4. EntriesSeen'[q] = Append(EntriesSeen[q], c)
  <2>1. PICK lists : lists = ListsOf(q)
    OBVIOUS
  <2>2. ListsOf(q)' = [lists EXCEPT !["behavior"] = Append(@, c)]
    BY <1>3, <2>1 DEF ListsOf, Kind
  <2>3. Fits(order_set[q], lists) /\ EntriesSeen[q] = Interleaved(order_set[q], lists)
    BY <2>1, EntriesFit
  <2>4. EntriesSeen'[q] = Interleaved(order_set'[q], ListsOf(q)')
    BY DEF EntriesSeen
  <2>5. "behavior" \in Kind /\ c \in Entry
    BY DEF Kind, Entry
  <2>6. Interleaved(Pushed(order_set[q], "behavior"), [lists EXCEPT !["behavior"] = Pushed(@, c)])
          = Pushed(Interleaved(order_set[q], lists), c)
    BY <2>3, <2>5, InterleavedAppend
  <2>7. QED
    BY <1>3, <2>2, <2>3, <2>4, <2>6 DEF Pushed
<1>5. EntriesSeen'[c] = <<>> /\ \A p \in Queue \ {q, c} : EntriesSeen'[p] = EntriesSeen[p]
  BY <1>3, SeenSame, SeenEmpty
<1>6. EntriesSeen' = [EntriesSeen EXCEPT ![q] = Append(@, c), ![c] = <<>>]
  <2>1. EntriesSeen' = [p \in Queue |-> EntriesSeen'[p]]
    BY DEF EntriesSeen
  <2>2. EntriesSeen = [p \in Queue |-> EntriesSeen[p]]
    BY SeenFunction
  <2>3. QED
    BY <1>1, <1>4, <1>5, <2>1, <2>2
<1>7. UNCHANGED CallsOf(frames)
  BY <1>1
<1>8. QED
  BY <1>1, <1>6, <1>7, GuardsAgree DEF Abstract!InsertQueue

\* A disconnection takes the entry out of the list, wherever in the two lists and the
\* order it was.
LEMMA DisconnectVerbRefines ==
    ASSUME Inv, NEW q \in Queue, NEW v \in Verb, disconnect_verb(q, v)
    PROVE  Abstract!Disconnect(q, v)
<1>1. PICK index : index = IndexOf(verb_set[q], v)
  OBVIOUS
<1>2. PICK p : p = Position(order_set[q], "verb", index)
  OBVIOUS
<1>3. /\ verb_set' = [verb_set EXCEPT ![q] = RemoveAt(@, index)]
      /\ order_set' = [order_set EXCEPT ![q] = RemoveAt(@, p)]
      /\ UNCHANGED <<single_execution, behavior_set, frames>>
      /\ ClientRuns /\ Live(q) /\ ~Running(q) /\ Contains(verb_set[q], v)
  BY <1>1, <1>2 DEF disconnect_verb, erase_from_order
<1>4. order_set \in [Queue -> Seq(Kind)] /\ verb_set \in [Queue -> Seq(Verb)]
  BY DEF Inv, TypeOK
<1>5. /\ order_set'[q] = RemoveAt(order_set[q], p) /\ verb_set'[q] = RemoveAt(verb_set[q], index)
      /\ \A r \in Queue \ {q} : order_set'[r] = order_set[r] /\ verb_set'[r] = verb_set[r]
  BY <1>3, <1>4
<1>6. index \in 1..Len(verb_set[q]) /\ verb_set[q][index] = v
  <2>1. DOMAIN verb_set[q] = 1..Len(verb_set[q])
    BY FrameTypes DEF Inv
  <2>2. \E i \in DOMAIN verb_set[q] : verb_set[q][i] = v
    BY <1>3, <2>1 DEF Contains
  <2>3. QED
    BY <1>1, <2>1, <2>2 DEF IndexOf
<1>7. /\ p \in 1..Len(order_set[q]) /\ EntriesSeen[q][p] = v
      /\ EntriesSeen'[q] = RemoveAt(EntriesSeen[q], p)
  <2>1. PICK lists : lists = ListsOf(q)
    OBVIOUS
  <2>2. ListsOf(q)' = [lists EXCEPT !["verb"] = RemoveAt(@, index)]
    BY <1>3, <1>5, <2>1 DEF ListsOf, Kind
  <2>3. /\ Fits(order_set[q], lists) /\ EntriesSeen[q] = Interleaved(order_set[q], lists)
        /\ lists["verb"] = verb_set[q]
    BY <2>1, EntriesFit
  <2>4. EntriesSeen'[q] = Interleaved(order_set'[q], ListsOf(q)')
    BY DEF EntriesSeen
  <2>5. "verb" \in Kind /\ index \in 1..Len(lists["verb"])
    BY <1>6, <2>3 DEF Kind
  <2>6. p \in 1..Len(order_set[q]) /\ Interleaved(order_set[q], lists)[p] = v
    BY <1>2, <1>6, <2>3, <2>5, InterleavedHas
  <2>7. Interleaved(erase_from_order(order_set[q], "verb", index),
                    [lists EXCEPT !["verb"] = RemoveAt(@, index)])
          = RemoveAt(Interleaved(order_set[q], lists), Position(order_set[q], "verb", index))
    BY <2>3, <2>5, InterleavedRemove
  <2>8. QED
    BY <1>2, <1>5, <2>2, <2>3, <2>4, <2>6, <2>7 DEF erase_from_order
<1>8. \A r \in Queue \ {q} : EntriesSeen'[r] = EntriesSeen[r]
  BY <1>3, <1>5, SeenSame
<1>9. p \in DOMAIN EntriesSeen[q]
  BY <1>7, EntriesHave, LenProperties
<1>10. EntriesSeen' = [r \in Queue |-> IF r = q THEN RemoveAt(EntriesSeen[q], p)
                                       ELSE IF r = v THEN <<>> ELSE EntriesSeen[r]]
  <2>1. EntriesSeen' = [r \in Queue |-> EntriesSeen'[r]]
    BY DEF EntriesSeen
  <2>2. \A r \in Queue : r # v
    BY DisjointAssumption
  <2>3. QED
    BY <1>7, <1>8, <2>1, <2>2
<1>11. UNCHANGED <<single_execution, CallsOf(frames)>>
  BY <1>3
<1>12. QED
  BY <1>3, <1>7, <1>9, <1>10, <1>11, GuardsAgree, SequencesSame DEF Abstract!Disconnect

LEMMA DisconnectBehaviorRefines ==
    ASSUME Inv, NotInItself, NEW q \in Queue, NEW c \in Queue, disconnect_behavior(q, c)
    PROVE  Abstract!Disconnect(q, c)
<1>1. PICK index : index = IndexOf(behavior_set[q], c)
  OBVIOUS
<1>2. PICK p : p = Position(order_set[q], "behavior", index)
  OBVIOUS
<1>3. /\ behavior_set' = [behavior_set EXCEPT ![q] = RemoveAt(@, index), ![c] = <<>>]
      /\ order_set' = [order_set EXCEPT ![q] = RemoveAt(@, p), ![c] = <<>>]
      /\ verb_set' = [verb_set EXCEPT ![c] = <<>>]
      /\ UNCHANGED <<single_execution, frames>>
      /\ ClientRuns /\ Live(q) /\ ~Running(q) /\ Contains(behavior_set[q], c)
  BY <1>1, <1>2 DEF disconnect_behavior, erase_from_order
<1>4. /\ order_set \in [Queue -> Seq(Kind)] /\ verb_set \in [Queue -> Seq(Verb)]
      /\ behavior_set \in [Queue -> Seq(Queue)]
  BY DEF Inv, TypeOK
<1>5. index \in 1..Len(behavior_set[q]) /\ behavior_set[q][index] = c /\ c # q
  <2>1. DOMAIN behavior_set[q] = 1..Len(behavior_set[q])
    BY FrameTypes DEF Inv
  <2>2. \E i \in DOMAIN behavior_set[q] : behavior_set[q][i] = c
    BY <1>3, <2>1 DEF Contains
  <2>3. index \in 1..Len(behavior_set[q]) /\ behavior_set[q][index] = c
    BY <1>1, <2>1, <2>2 DEF IndexOf
  <2>4. QED
    BY <2>1, <2>3 DEF NotInItself
<1>6. /\ order_set'[q] = RemoveAt(order_set[q], p) /\ verb_set'[q] = verb_set[q]
      /\ behavior_set'[q] = RemoveAt(behavior_set[q], index) /\ order_set'[c] = <<>>
      /\ \A r \in Queue \ {q, c} : /\ order_set'[r] = order_set[r] /\ verb_set'[r] = verb_set[r]
                                   /\ behavior_set'[r] = behavior_set[r]
  BY <1>3, <1>4, <1>5
<1>7. /\ p \in 1..Len(order_set[q]) /\ EntriesSeen[q][p] = c
      /\ EntriesSeen'[q] = RemoveAt(EntriesSeen[q], p)
  <2>1. PICK lists : lists = ListsOf(q)
    OBVIOUS
  <2>2. ListsOf(q)' = [lists EXCEPT !["behavior"] = RemoveAt(@, index)]
    BY <1>6, <2>1 DEF ListsOf, Kind
  <2>3. /\ Fits(order_set[q], lists) /\ EntriesSeen[q] = Interleaved(order_set[q], lists)
        /\ lists["behavior"] = behavior_set[q]
    BY <2>1, EntriesFit
  <2>4. EntriesSeen'[q] = Interleaved(order_set'[q], ListsOf(q)')
    BY DEF EntriesSeen
  <2>5. "behavior" \in Kind /\ index \in 1..Len(lists["behavior"])
    BY <1>5, <2>3 DEF Kind
  <2>6. p \in 1..Len(order_set[q]) /\ Interleaved(order_set[q], lists)[p] = c
    BY <1>2, <1>5, <2>3, <2>5, InterleavedHas
  <2>7. Interleaved(erase_from_order(order_set[q], "behavior", index),
                    [lists EXCEPT !["behavior"] = RemoveAt(@, index)])
          = RemoveAt(Interleaved(order_set[q], lists), Position(order_set[q], "behavior", index))
    BY <2>3, <2>5, InterleavedRemove
  <2>8. QED
    BY <1>2, <1>6, <2>2, <2>3, <2>4, <2>6, <2>7 DEF erase_from_order
<1>8. EntriesSeen'[c] = <<>> /\ \A r \in Queue \ {q, c} : EntriesSeen'[r] = EntriesSeen[r]
  BY <1>6, SeenSame, SeenEmpty
<1>9. p \in DOMAIN EntriesSeen[q]
  BY <1>7, EntriesHave, LenProperties
<1>10. EntriesSeen' = [r \in Queue |-> IF r = q THEN RemoveAt(EntriesSeen[q], p)
                                       ELSE IF r = c THEN <<>> ELSE EntriesSeen[r]]
  <2>1. EntriesSeen' = [r \in Queue |-> EntriesSeen'[r]]
    BY DEF EntriesSeen
  <2>2. QED
    BY <1>5, <1>7, <1>8, <2>1
<1>11. UNCHANGED <<single_execution, CallsOf(frames)>>
  BY <1>3
<1>12. QED
  BY <1>3, <1>7, <1>9, <1>10, <1>11, GuardsAgree, SequencesSame DEF Abstract!Disconnect

\* The steps of a call leave the containers alone, and its activations are seen.
LEMMA CallsTyped ==
    ASSUME Inv
    PROVE  /\ frames \in Seq(Frame) /\ Len(CallsOf(frames)) = Len(frames)
           /\ frames # <<>> => Top \in Frame /\ Top.queue \in Queue
<1>1. frames \in Seq(Frame)
  BY DEF Inv, TypeOK
<1>2. frames # <<>> => Top \in Frame /\ Top.queue \in Queue
  BY AtFrame
<1>3. QED
  BY <1>1, <1>2, CallsSeq

LEMMA SeenKept ==
    ASSUME UNCHANGED containers
    PROVE  UNCHANGED <<single_execution, EntriesSeen>>
BY DEF containers, EntriesSeen, ListsOf

LEMMA CallRefines ==
    ASSUME Inv, NEW q \in Roots, call(q)
    PROVE  Abstract!Call(q)
<1>1. /\ ClientRuns /\ ~Running(q) /\ order_set[q] # <<>> /\ q \in Queue
      /\ frames' = Append(frames, Enter(q)) /\ UNCHANGED containers
  BY RootsAssumption DEF call
<1>2. Enter(q) \in Frame /\ Activated(Enter(q)) = Abstract!Activation(q)
  BY <1>1 DEF Enter, Frame, Activated, Abstract!Activation
<1>3. CallsOf(frames') = Append(CallsOf(frames), Abstract!Activation(q))
  BY <1>1, <1>2, CallsTyped, CallsAppend
<1>4. EntriesSeen[q] # <<>>
  BY <1>1, EntriesHave, EmptySeq, FrameTypes DEF Inv
<1>5. QED
  BY <1>1, <1>3, <1>4, GuardsAgree, SeenKept DEF Abstract!Call

\* What the call is at is what the iterators stand on.
LEMMA EntryAgrees ==
    ASSUME Inv, NEW k \in Kind, AtEntry(k)
    PROVE  /\ Abstract!AtEntry
           /\ k = "verb" => Abstract!Here \in Verb
           /\ k = "behavior" => /\ Abstract!Here = behavior_set[Top.queue][Top.behavior]
                                /\ Abstract!Here \in Queue
<1>1. /\ frames # <<>> /\ ~Top.busy /\ Top.at <= Len(order_set[Top.queue])
      /\ order_set[Top.queue][Top.at] = k
  BY DEF AtEntry
<1>2. PICK q \in Queue : q = Top.queue
  BY <1>1, CallsTyped
<1>3. PICK n : n = Top.at
  OBVIOUS
<1>4. n \in 1..Len(order_set[q]) /\ n - 1 \in Nat /\ n \in Nat \ {0}
  <2>1. n \in Nat \ {0} /\ Len(order_set[q]) \in Nat
    BY <1>1, <1>2, <1>3, AtFrame
  <2>2. QED
    BY <1>1, <1>2, <1>3, <2>1
<1>5. Abstract!Top = Activated(Top) /\ CallsOf(frames) # <<>>
  BY <1>1, GuardsAgree
<1>6. /\ Abstract!Top.queue = q /\ Abstract!Top.at = n /\ ~Abstract!Top.busy
  BY <1>1, <1>2, <1>3, <1>5 DEF Activated
<1>7. Abstract!AtEntry
  <2>1. Len(EntriesSeen[q]) = Len(order_set[q])
    BY <1>2, EntriesHave
  <2>2. n <= Len(EntriesSeen[q])
    BY <1>1, <1>2, <1>3, <2>1
  <2>3. QED
    BY <1>5, <1>6, <2>2 DEF Abstract!AtEntry
<1>8. Abstract!Here = ListsOf(q)[k][Count(order_set[q], k, n)]
  <2>1. Abstract!Here = EntriesSeen[q][n]
    BY <1>6 DEF Abstract!Here
  <2>2. EntriesSeen[q][n] = ListsOf(q)[order_set[q][n]][Count(order_set[q], order_set[q][n], n)]
    BY <1>2, <1>4, EntriesFit, InterleavedSeq
  <2>3. QED
    BY <1>1, <1>2, <1>3, <2>1, <2>2
<1>9. Count(order_set[q], k, n) \in 1..Len(ListsOf(q)[k])
  BY <1>1, <1>2, <1>3, <1>4, EntriesFit, PlaceInList
<1>10. ASSUME k = "verb"
       PROVE  Abstract!Here \in Verb
  <2>1. verb_set[q] \in Seq(Verb) /\ ListsOf(q)["verb"] = verb_set[q]
    BY <1>2, EntriesFit, FrameTypes DEF Inv
  <2>2. QED
    BY <1>8, <1>9, <1>10, <2>1, ElementOfSeq
<1>11. ASSUME k = "behavior"
       PROVE  /\ Abstract!Here = behavior_set[Top.queue][Top.behavior]
              /\ Abstract!Here \in Queue
  <2>1. behavior_set[q] \in Seq(Queue) /\ ListsOf(q)["behavior"] = behavior_set[q]
    BY <1>2, EntriesFit, FrameTypes DEF Inv
  <2>2. Abstract!Here \in Queue
    BY <1>8, <1>9, <1>11, <2>1, ElementOfSeq
  <2>3. Count(order_set[q], k, n) = Count(order_set[q], k, n - 1) + 1
    BY <1>1, <1>2, <1>3, <1>4, CountStep, FrameTypes DEF Inv
  <2>4. Top.behavior = Count(order_set[q], "behavior", n - 1) + 1
    BY <1>1, <1>2, <1>3, AtFrame
  <2>5. QED
    BY <1>2, <1>8, <1>11, <2>1, <2>2, <2>3, <2>4
<1>12. QED
  BY <1>7, <1>10, <1>11

LEMMA BusySet ==
    ASSUME NEW f \in Frame, NEW b
    PROVE  /\ [Activated(f) EXCEPT !.busy = b] = [queue |-> f.queue, at |-> f.at, busy |-> b]
           /\ [Activated(f) EXCEPT !.busy = b, !.at = @ + 1]
                = [queue |-> f.queue, at |-> f.at + 1, busy |-> b]
<1>1. f.at \in Nat
  BY DEF Frame
<1>2. [Activated(f) EXCEPT !.busy = b] = [queue |-> f.queue, at |-> f.at, busy |-> b]
  BY DEF Activated
<1>3. [Activated(f) EXCEPT !.busy = b, !.at = @ + 1]
        = [queue |-> f.queue, at |-> f.at + 1, busy |-> b]
  <2>1. PICK a : a = Activated(f)
    OBVIOUS
  <2>2. a.at = f.at /\ [a EXCEPT !.busy = b] = [queue |-> f.queue, at |-> f.at, busy |-> b]
    BY <1>2, <2>1 DEF Activated
  <2>3. \A x : [[queue |-> f.queue, at |-> f.at, busy |-> b] EXCEPT !.at = x]
                 = [queue |-> f.queue, at |-> x, busy |-> b]
    OBVIOUS
  <2>4. [a EXCEPT !.busy = b, !.at = @ + 1] = [queue |-> f.queue, at |-> f.at + 1, busy |-> b]
    BY <2>2, <2>3
  <2>5. QED
    BY <2>1, <2>4
<1>4. QED
  BY <1>2, <1>3

\* A step of the innermost call.
LEMMA TopRefines ==
    ASSUME Inv, frames # <<>>, NEW f \in Frame, frames' = [frames EXCEPT ![Len(frames)] = f]
    PROVE  /\ CallsOf(frames)' =
                [CallsOf(frames) EXCEPT ![Len(CallsOf(frames))] = Activated(f)]
           /\ CallsOf(frames)[Len(CallsOf(frames))] = Activated(Top)
BY CallsTyped, CallsTop, GuardsAgree DEF Abstract!Top

LEMMA RunVerbRefines ==
    ASSUME Inv, run_verb
    PROVE  Abstract!RunVerb
<1>1. AtEntry("verb") /\ UNCHANGED containers /\ frames # <<>> /\ "verb" \in Kind
  BY DEF run_verb, AtEntry, Kind
<1>2. PICK f : f = [Top EXCEPT !.busy = TRUE]
  OBVIOUS
<1>3. f \in Frame /\ Activated(f) = [Activated(Top) EXCEPT !.busy = TRUE]
  <2>1. f \in Frame /\ f.queue = Top.queue /\ f.at = Top.at /\ f.busy = TRUE
    BY <1>1, <1>2, CallsTyped DEF Frame
  <2>2. Activated(f) = [queue |-> Top.queue, at |-> Top.at, busy |-> TRUE]
    BY <2>1, Zenon DEF Activated
  <2>3. [Activated(Top) EXCEPT !.busy = TRUE] = [queue |-> Top.queue, at |-> Top.at, busy |-> TRUE]
    BY <1>1, CallsTyped, BusySet, Zenon
  <2>4. QED
    BY <2>1, <2>2, <2>3, Zenon
<1>4. frames' = [frames EXCEPT ![Len(frames)] = f]
  BY <1>1, <1>2 DEF run_verb, Top
<1>5. CallsOf(frames)' = [CallsOf(frames) EXCEPT ![Len(CallsOf(frames))].busy = TRUE]
  BY <1>1, <1>3, <1>4, TopRefines
<1>6. QED
  BY <1>1, <1>5, EntryAgrees, SeenKept DEF Abstract!RunVerb

LEMMA VerbReturnsRefines ==
    ASSUME Inv, verb_returns
    PROVE  Abstract!VerbReturns
<1>1. frames # <<>> /\ Top.busy /\ UNCHANGED containers
  BY DEF verb_returns
<1>2. PICK f : f = [Top EXCEPT !.busy = FALSE, !.at = @ + 1, !.verb = @ + 1]
  OBVIOUS
<1>3. f \in Frame /\ Activated(f) = [Activated(Top) EXCEPT !.busy = FALSE, !.at = @ + 1]
  <2>1. Top.at + 1 \in Nat \ {0} /\ Top.verb + 1 \in Nat \ {0}
    BY <1>1, AtFrame
  <2>2. f \in Frame /\ f.queue = Top.queue /\ f.at = Top.at + 1 /\ f.busy = FALSE
    BY <1>1, <1>2, <2>1, CallsTyped DEF Frame
  <2>3. Activated(f) = [queue |-> Top.queue, at |-> Top.at + 1, busy |-> FALSE]
    BY <2>2, Zenon DEF Activated
  <2>4. [Activated(Top) EXCEPT !.busy = FALSE, !.at = @ + 1]
          = [queue |-> Top.queue, at |-> Top.at + 1, busy |-> FALSE]
    BY <1>1, CallsTyped, BusySet, Zenon
  <2>5. QED
    BY <2>2, <2>3, <2>4, Zenon
<1>4. frames' = [frames EXCEPT ![Len(frames)] = f]
  BY <1>2 DEF verb_returns
<1>5. PICK n : n = Len(CallsOf(frames))
  OBVIOUS
<1>6. CallsOf(frames)' = [CallsOf(frames) EXCEPT ![n] = Activated(f)] /\ CallsOf(frames)[n] = Activated(Top)
  BY <1>1, <1>3, <1>4, <1>5, TopRefines
<1>7. CallsOf(frames)' = [CallsOf(frames) EXCEPT ![n].busy = FALSE, ![n].at = @ + 1]
  <2>1. n \in DOMAIN CallsOf(frames)
    BY <1>1, <1>5, CallsTyped, CallsSeq, EmptySeq
  <2>2. QED
    BY <1>3, <1>6, <2>1
<1>8. Abstract!Top.busy /\ CallsOf(frames) # <<>>
  BY <1>1, GuardsAgree DEF Activated
<1>9. QED
  BY <1>1, <1>5, <1>7, <1>8, SeenKept DEF Abstract!VerbReturns

LEMMA VerbThrowsRefines ==
    ASSUME Inv, verb_throws
    PROVE  Abstract!VerbThrows
<1>1. frames # <<>> /\ Top.busy /\ UNCHANGED containers /\ frames' = <<>>
  BY DEF verb_throws
<1>2. Abstract!Top.busy /\ CallsOf(frames) # <<>>
  BY <1>1, GuardsAgree DEF Activated
<1>3. CallsOf(<<>>) = <<>>
  <2>1. <<>> \in Seq(Frame) /\ Len(<<>>) = 0
    OBVIOUS
  <2>2. CallsOf(<<>>) \in Seq(Activation) /\ Len(CallsOf(<<>>)) = 0
    BY <2>1, CallsSeq
  <2>3. QED
    BY <2>2, EmptySeq
<1>4. QED
  BY <1>1, <1>2, <1>3, SeenKept DEF Abstract!VerbThrows

LEMMA RunBehaviorRefines ==
    ASSUME Inv, run_behavior
    PROVE  Abstract!CallNested
<1>1. AtEntry("behavior") /\ UNCHANGED containers /\ frames # <<>> /\ "behavior" \in Kind
  BY DEF run_behavior, AtEntry, Kind
<1>2. PICK f : f = [Top EXCEPT !.at = @ + 1, !.behavior = @ + 1]
  OBVIOUS
<1>3. PICK c \in Queue : c = Abstract!Here /\ c = behavior_set[Top.queue][Top.behavior]
  BY <1>1, EntryAgrees
<1>4. PICK past : past = [frames EXCEPT ![Len(frames)] = f]
  OBVIOUS
<1>5. frames' = IF order_set[c] = <<>> THEN past ELSE Append(past, Enter(c))
  BY <1>2, <1>3, <1>4 DEF run_behavior
<1>6. f \in Frame /\ Activated(f) = [Activated(Top) EXCEPT !.at = @ + 1]
  <2>1. Top.at + 1 \in Nat \ {0} /\ Top.behavior + 1 \in Nat \ {0}
    BY <1>1, AtFrame
  <2>2. f \in Frame /\ f.queue = Top.queue /\ f.at = Top.at + 1 /\ f.busy = Top.busy
    BY <1>1, <1>2, <2>1, CallsTyped DEF Frame
  <2>3. QED
    BY <2>2 DEF Activated
<1>7. /\ past \in Seq(Frame)
      /\ CallsOf(past) = [CallsOf(frames) EXCEPT ![Len(CallsOf(frames))].at = @ + 1]
  <2>1. /\ past \in Seq(Frame)
        /\ CallsOf(past) = [CallsOf(frames) EXCEPT ![Len(CallsOf(frames))] = Activated(f)]
    BY <1>1, <1>4, <1>6, CallsTyped, CallsTop
  <2>2. CallsOf(frames)[Len(CallsOf(frames))] = Activated(Top)
    BY <1>1, GuardsAgree DEF Abstract!Top
  <2>3. QED
    BY <1>6, <2>1, <2>2
<1>8. Enter(c) \in Frame /\ Activated(Enter(c)) = Abstract!Activation(c)
  BY DEF Enter, Frame, Activated, Abstract!Activation
<1>9. CallsOf(Append(past, Enter(c))) = Append(CallsOf(past), Abstract!Activation(c))
  BY <1>7, <1>8, CallsAppend
<1>10. EntriesSeen[c] = <<>> <=> order_set[c] = <<>>
  BY EntriesHave, EmptySeq, FrameTypes DEF Inv
<1>11. CallsOf(frames)' = IF EntriesSeen[c] = <<>> THEN CallsOf(past)
                          ELSE Append(CallsOf(past), Abstract!Activation(c))
  BY <1>5, <1>9, <1>10
<1>12. Abstract!AtEntry /\ Abstract!Here \in Queue
  BY <1>1, EntryAgrees
<1>13. QED
  BY <1>1, <1>3, <1>7, <1>11, <1>12, SeenKept DEF Abstract!CallNested

LEMMA FinishRefines ==
    ASSUME Inv, finish
    PROVE  Abstract!Return
<1>1. /\ frames # <<>> /\ ~Top.busy /\ Top.at > Len(order_set[Top.queue])
      /\ frames' = Front(frames) /\ UNCHANGED single_execution
  BY DEF finish
<1>2. PICK q \in Queue : q = Top.queue
  BY <1>1, CallsTyped
<1>3. /\ Abstract!Top = Activated(Top) /\ CallsOf(frames) # <<>>
      /\ Abstract!Top.queue = q /\ Abstract!Top.at = Top.at /\ ~Abstract!Top.busy
  BY <1>1, <1>2, GuardsAgree DEF Activated
<1>4. Abstract!Top.at > Len(EntriesSeen[Abstract!Top.queue])
  BY <1>1, <1>2, <1>3, EntriesHave
<1>5. CallsOf(frames)' = Abstract!Front(CallsOf(frames))
  BY <1>1, CallsTyped, CallsFront, SequencesSame
<1>6. EntriesSeen' = IF single_execution[q]
                     THEN [p \in Queue |-> IF p = q \/ Abstract!Contains(EntriesSeen[q], p)
                                           THEN <<>> ELSE EntriesSeen[p]]
                     ELSE EntriesSeen
  <2>1. CASE ~single_execution[q]
    <3>1. UNCHANGED <<behavior_set, verb_set, order_set>>
      BY <1>2, <2>1 DEF finish
    <3>2. QED
      BY <2>1, <3>1 DEF EntriesSeen, ListsOf
  <2>2. CASE single_execution[q]
    <3>1. PICK gone : gone = {q} \cup ToSet(behavior_set[q])
      OBVIOUS
    <3>2. /\ behavior_set' = [p \in Queue |-> IF p \in gone THEN <<>> ELSE behavior_set[p]]
          /\ verb_set' = [p \in Queue |-> IF p \in gone THEN <<>> ELSE verb_set[p]]
          /\ order_set' = [p \in Queue |-> IF p \in gone THEN <<>> ELSE order_set[p]]
      BY <1>2, <2>2, <3>1 DEF finish
    <3>3. \A p \in Queue : p \in gone => EntriesSeen'[p] = <<>>
      BY <3>2, SeenEmpty
    <3>4. \A p \in Queue : p \notin gone => EntriesSeen'[p] = EntriesSeen[p]
      BY <3>2, SeenSame
    <3>5. \A p \in Queue : p \in gone <=> p = q \/ Abstract!Contains(EntriesSeen[q], p)
      <4>1. behavior_set[q] \in Seq(Queue)
        BY FrameTypes DEF Inv
      <4>2. \A p : p \in ToSet(behavior_set[q]) <=> Contains(behavior_set[q], p)
        BY <4>1, ToSetOf DEF Contains
      <4>3. QED
        BY <3>1, <4>2, EntriesHave, SequencesSame
    <3>6. EntriesSeen' = [p \in Queue |-> EntriesSeen'[p]]
      BY DEF EntriesSeen
    <3>7. QED
      BY <2>2, <3>3, <3>4, <3>5, <3>6
  <2>3. QED
    BY <2>1, <2>2
<1>7. QED
  BY <1>1, <1>3, <1>4, <1>5, <1>6 DEF Abstract!Return

\* Only insert_behavior nests, and it nests another one.
LEMMA NotInItselfKept ==
    ASSUME Inv, NotInItself, Next
    PROVE  NotInItself'
<1>1. /\ behavior_set \in [Queue -> Seq(Queue)]
      /\ \A q \in Queue : /\ behavior_set[q] \in Seq(Queue) /\ Len(behavior_set[q]) \in Nat
                          /\ DOMAIN behavior_set[q] = 1..Len(behavior_set[q])
  BY FrameTypes DEF Inv, TypeOK
<1>2. ASSUME UNCHANGED behavior_set
      PROVE  NotInItself'
  BY <1>2 DEF NotInItself
<1>3. ASSUME NEW q \in Queue, NEW c \in Queue, NEW s \in BOOLEAN, insert_behavior(q, c, s)
      PROVE  NotInItself'
  <2>1. behavior_set' = [behavior_set EXCEPT ![q] = Append(@, c), ![c] = <<>>] /\ c # q
    BY <1>3 DEF insert_behavior
  <2>2. PICK n \in Nat : n = Len(behavior_set[q])
    BY <1>1
  <2>3. PICK t : t = Append(behavior_set[q], c)
    OBVIOUS
  <2>4. /\ DOMAIN t = 1..(n + 1) /\ DOMAIN behavior_set[q] = 1..n /\ t[n + 1] = c
        /\ \A i \in 1..n : t[i] = behavior_set[q][i]
    BY <1>1, <2>2, <2>3, AppendProperties, LenProperties
  <2>5. \A i \in 1..(n + 1) : i \in 1..n \/ i = n + 1
    OBVIOUS
  <2>6. \A i \in DOMAIN t : t[i] # q
    BY <2>1, <2>4, <2>5 DEF NotInItself
  <2>7. behavior_set'[q] = t /\ DOMAIN behavior_set'[c] = {}
    BY <1>1, <2>1, <2>3
  <2>8. \A p \in Queue \ {q, c} : behavior_set'[p] = behavior_set[p]
    BY <1>1, <2>1
  <2>9. QED
    BY <2>6, <2>7, <2>8 DEF NotInItself
<1>4. ASSUME NEW q \in Queue, NEW c \in Queue, disconnect_behavior(q, c)
      PROVE  NotInItself'
  <2>1. PICK m : m = IndexOf(behavior_set[q], c)
    OBVIOUS
  <2>2. /\ behavior_set' = [behavior_set EXCEPT ![q] = RemoveAt(@, m), ![c] = <<>>]
        /\ Contains(behavior_set[q], c)
    BY <1>4, <2>1 DEF disconnect_behavior
  <2>3. m \in 1..Len(behavior_set[q])
    <3>1. \E i \in DOMAIN behavior_set[q] : behavior_set[q][i] = c
      BY <1>1, <2>2 DEF Contains
    <3>2. QED
      BY <1>1, <2>1, <3>1 DEF IndexOf
  <2>4. PICK t : t = RemoveAt(behavior_set[q], m)
    OBVIOUS
  <2>5. PICK n \in Nat \ {0} : n = Len(behavior_set[q])
    BY <1>1, <2>3
  <2>6. /\ DOMAIN t = 1..(n - 1)
        /\ \A i \in 1..(n - 1) : t[i] = IF i < m THEN behavior_set[q][i] ELSE behavior_set[q][i + 1]
    <3>1. /\ t \in Seq(Queue) /\ Len(t) = n - 1
          /\ \A i \in 1..(n - 1) : t[i] = IF i < m THEN behavior_set[q][i] ELSE behavior_set[q][i + 1]
      BY <1>1, <2>3, <2>4, <2>5, RemoveAtSeq
    <3>2. DOMAIN t = 1..(n - 1)
      BY <3>1
    <3>3. QED
      BY <3>1, <3>2
  <2>7. \A i \in 1..(n - 1) : i \in 1..n /\ i + 1 \in 1..n
    OBVIOUS
  <2>8. \A i \in DOMAIN t : t[i] # q
    BY <1>1, <2>5, <2>6, <2>7 DEF NotInItself
  <2>9. behavior_set'[c] = <<>> /\ \A p \in Queue \ {c} :
            behavior_set'[p] = IF p = q THEN t ELSE behavior_set[p]
    BY <1>1, <2>2, <2>4
  <2>10. QED
    BY <2>8, <2>9 DEF NotInItself
<1>5. ASSUME finish
      PROVE  NotInItself'
  <2>1. \A p \in Queue : behavior_set'[p] = behavior_set[p] \/ behavior_set'[p] = <<>>
    BY <1>5 DEF finish
  <2>2. QED
    BY <2>1 DEF NotInItself
<1>6. QED
  BY <1>2, <1>3, <1>4, <1>5 DEF Next, insert, disconnect_verb, call, run_verb, verb_returns,
     verb_throws, run_behavior, containers

LEMMA StepRefines ==
    ASSUME Inv, NotInItself, Next
    PROVE  Abstract!Next
BY InsertRefines, InsertBehaviorRefines, DisconnectVerbRefines, DisconnectBehaviorRefines,
   CallRefines, RunVerbRefines, VerbReturnsRefines, VerbThrowsRefines, RunBehaviorRefines,
   FinishRefines DEF Next, Abstract!Next

\* behavior_t's two lists, its order and the iterators of its calls implement one list of
\* entries: they are run in the order they were inserted in, whatever was connected and
\* disconnected between and during calls, and a single-execution one is empty afterwards.
THEOREM ListOfEntriesImplemented == Spec => ImplementsEntryQueue
<1>1. Init => Inv /\ NotInItself
  BY InitInv DEF Init, NotInItself
<1>2. Init => Abstract!Init
  <2> SUFFICES ASSUME Init
               PROVE  Abstract!Init
    OBVIOUS
  <2>1. \A q \in Queue : EntriesSeen[q] = <<>>
    BY SeenEmpty DEF Init
  <2>2. EntriesSeen = [q \in Queue |-> <<>>]
    BY <2>1 DEF EntriesSeen
  <2>3. CallsOf(frames) = <<>>
    BY <1>1, GuardsAgree DEF Init
  <2>4. QED
    BY <2>2, <2>3 DEF Init, Abstract!Init
<1>3. Inv /\ NotInItself /\ [Next]_vars => (Inv /\ NotInItself)'
  <2>1. UNCHANGED vars /\ NotInItself => NotInItself'
    BY DEF vars, NotInItself
  <2>2. QED
    BY <2>1, NextInv, NotInItselfKept
<1>4. Inv /\ NotInItself /\ [Next]_vars => [Abstract!Next]_Abstract!vars
  <2>1. ASSUME UNCHANGED vars
        PROVE  UNCHANGED Abstract!vars
    BY <2>1, SeenKept DEF vars, containers, Abstract!vars
  <2>2. QED
    BY <2>1, StepRefines
<1>5. QED
  BY <1>1, <1>2, <1>3, <1>4, PTL DEF Spec, ImplementsEntryQueue, Abstract!Spec
===============================================================================
