---------------------------- MODULE MuldexProofs ----------------------------
(***************************************************************************)
(* Proofs about sequence_mvc_muldex: for any number of keys, values and    *)
(* widgets and models of any length, widgets at the far end of the lines   *)
(* mirror the model, a command is carried out once, and no widget is handed *)
(* a message about keys it does not have.                                  *)
(***************************************************************************)
EXTENDS Muldex, SeqLemmas

\* Whether a value can be a command, or a message.
IsCommand(c) ==
    /\ c.what # "empty"
    /\ c.what = "insert_set" => Len(c.values) \in Nat
Clears(m) == m = [what |-> "clear"]
IsMessage(m) == m.what # "empty" /\ (m.what = "clear" <=> Clears(m))

\* What is left to do when a message has been told, and what the widgets' lists are then.
\* A new model sends two: the widgets are cleared, and filled if there is something.
Whole == [what |-> "extend_set", before |-> nkey, keys |-> storage]
Kind == {"nothing", "command", "fill"}
After(kind) ==
    CASE kind = "nothing" -> <<>>
      [] kind = "command" -> <<set("controller", empty)>>
      [] kind = "fill"    -> send("view", Whole)
Aim(kind) == IF kind = "fill" THEN <<>> ELSE storage

\* The calls of the monitors in `to`, and then the rest.
Displaying(l, to, m, rest) == [i \in DOMAIN to |-> display(l, to[i], m)] \o rest

ContentsOf(list) == [i \in DOMAIN list |-> value[list[i]]]
Has(w, list) == set_m[w] = list /\ printed[w] = ContentsOf(list)
Mirrored(ws, kind) == \A w \in ws \ late : Has(w, Aim(kind))

Held(m, keys) ==
    /\ m.what = "erase" => m.keys \subseteq keys
    /\ m.what = "refresh" => m.key \in keys
    /\ m.what = "extend_set" => ToSet(m.keys) \cap keys = {}

\* Widgets that are still to be told of m are behind by exactly m.
Behind(ws, m, kind) ==
    \A w \in ws :
        /\ w \notin late \/ Clears(m) => Told(m, set_m[w]) = Aim(kind)
        /\ w \notin late => Held(m, ToSet(set_m[w]))

\* The view line holds v, the controller line its command until the message is told.
Lines(kind, v) ==
    line["view"] = v /\ (kind = "command" <=> line["controller"] # empty)

\* Where a nest of calls can be.
Commanding(c) ==
    /\ IsCommand(c) /\ todo = <<set("controller", c), set("controller", empty)>>
    /\ Lines("nothing", empty) /\ carried = (IF near THEN 0 ELSE 1)
    /\ near => Mirrored(ToSet(far), "nothing")
Executing(c) ==
    /\ IsCommand(c)
    /\ todo = <<display("controller", "model", c), set("controller", empty)>>
    /\ Lines("command", empty) /\ carried = 0 /\ near /\ Mirrored(ToSet(far), "nothing")
Sending(m, kind) ==
    /\ IsMessage(m) /\ todo = send("view", m) \o After(kind)
    /\ Lines(kind, empty) /\ carried = 1 /\ near /\ Behind(ToSet(far), m, kind)
Telling(m, kind, rest) ==
    /\ IsMessage(m) /\ IsInjective(rest) /\ ToSet(rest) \subseteq ToSet(far)
    /\ todo = Displaying("view", rest, m, Cons(set("view", empty), After(kind)))
    /\ Lines(kind, m) /\ carried = 1 /\ near
    /\ Behind(ToSet(rest), m, kind) /\ Mirrored(ToSet(far) \ ToSet(rest), kind)
Emptying(kind, rest) ==
    /\ todo = Displaying("view", rest, empty, After(kind))
    /\ Lines(kind, empty) /\ carried = 1 /\ (kind = "fill" => near)
    /\ near => Mirrored(ToSet(far), kind)
Done ==
    /\ todo = <<display("controller", "model", empty)>>
    /\ Lines("nothing", empty) /\ carried = 1 /\ near /\ Mirrored(ToSet(far), "nothing")
Attaching(kind) ==
    /\ todo = Cons(display("controller", "model", empty), send("view", [what |-> "clear"])
                       \o After(kind))
    /\ kind = (IF storage = <<>> THEN "nothing" ELSE "fill")
    /\ Lines("nothing", empty) /\ carried = 1 /\ near

Phase ==
    \/ \E c : Commanding(c) \/ Executing(c)
    \/ \E m : \E kind \in Kind : Sending(m, kind)
    \/ \E m : \E kind \in Kind, rest \in Seq(Widget) : Telling(m, kind, rest)
    \/ \E kind \in Kind, rest \in Seq(Widget) : Emptying(kind, rest)
    \/ Done \/ \E kind \in Kind : Attaching(kind)

Always ==
    /\ storage \in Seq(Key) /\ near \in BOOLEAN
    /\ far \in Seq(Widget) /\ IsInjective(far) /\ late \subseteq Widget
    /\ set_m = [w \in Widget |-> set_m[w]] /\ printed = [w \in Widget |-> printed[w]]
    /\ line = [l \in {"controller", "view"} |-> line[l]]
    /\ \A w \in Widget \ ToSet(far) : set_m[w] = <<>> /\ printed[w] = <<>> /\ w \notin late

MuldexInv == Always /\ Phase

------------------------------------------------------------------------------
(* Facts about lists of keys *)

\* One more element looked at.
KeptStep(list, gone, kept, n) ==
    IF n = 0 THEN <<>>
    ELSE IF list[n] \in gone THEN kept[n - 1] ELSE Append(kept[n - 1], list[n])

LEMMA KeptExists ==
    ASSUME NEW list, NEW gone, NEW N \in Nat
    PROVE  \E kept : kept = [n \in 0..N |-> KeptStep(list, gone, kept, n)]
<1> DEFINE Defines(kept, m) == kept = [n \in 0..m |-> KeptStep(list, gone, kept, n)]
           T == {m \in Nat : ~\E kept : Defines(kept, m)}
<1>1. SUFFICES ASSUME T # {} PROVE FALSE
  OBVIOUS
<1>2. PICK m \in T : \A k \in T : m <= k
  BY <1>1, LeastNat
<1>3. m # 0
  <2> DEFINE f == [n \in 0..0 |-> <<>>]
  <2>1. \A n \in 0..0 : n = 0
    OBVIOUS
  <2>2. Defines(f, 0)
    BY <2>1 DEF KeptStep
  <2>3. QED
    BY <2>2
<1>4. m - 1 \in Nat /\ m - 1 \notin T
  BY <1>2, <1>3
<1>5. PICK f : Defines(f, m - 1)
  BY <1>4
<1> DEFINE g == [n \in 0..m |-> IF n = m THEN KeptStep(list, gone, f, m) ELSE f[n]]
<1>6. \A n \in 0..(m - 1) : g[n] = f[n] /\ f[n] = KeptStep(list, gone, f, n)
  BY <1>4, <1>5
<1>7. \A n \in 0..m : n # 0 => n - 1 \in 0..(m - 1)
  BY <1>4
<1>8. \A n \in 0..m : KeptStep(list, gone, g, n) = KeptStep(list, gone, f, n)
  BY <1>6, <1>7 DEF KeptStep
<1>9. \A n \in 0..m : n = m \/ n \in 0..(m - 1)
  BY <1>4
<1>10. \A n \in 0..m : g[n] = KeptStep(list, gone, f, n)
  BY <1>6, <1>9
<1>11. g = [n \in 0..m |-> KeptStep(list, gone, g, n)]
  BY <1>8, <1>10
<1>12. QED
  BY <1>2, <1>11

\* What is left of a list of keys is a list of keys.
LEMMA WithoutSeq ==
    ASSUME NEW S, NEW list \in Seq(S), NEW gone
    PROVE  Without(list, gone) \in Seq(S)
<1> DEFINE N == Len(list)
           kept == CHOOSE kept : kept = [n \in 0..N |-> KeptStep(list, gone, kept, n)]
           T == {m \in Nat : m <= N /\ kept[m] \notin Seq(S)}
<1>1. N \in Nat
  BY LenProperties
<1>2. kept = [n \in 0..N |-> KeptStep(list, gone, kept, n)]
  BY <1>1, KeptExists
<1>3. Without(list, gone) = kept[N]
  BY DEF Without, KeptStep
<1> HIDE DEF kept
<1>4. \A n \in 0..N : kept[n] = KeptStep(list, gone, kept, n)
  BY <1>2
<1>5. ASSUME T # {} PROVE FALSE
  <2>1. PICK m \in T : \A k \in T : m <= k
    BY <1>5, LeastNat
  <2>2. m \in 0..N /\ kept[m] = KeptStep(list, gone, kept, m) /\ kept[m] \notin Seq(S)
    BY <1>1, <1>4, <2>1
  <2>3. m # 0
    BY <2>2, EmptySeq DEF KeptStep
  <2>4. m - 1 \in Nat /\ m - 1 <= N /\ m - 1 \notin T /\ m \in 1..N
    BY <1>1, <2>1, <2>2, <2>3
  <2>5. kept[m - 1] \in Seq(S) /\ list[m] \in S
    BY <2>4, ElementOfSeq
  <2>6. Append(kept[m - 1], list[m]) \in Seq(S)
    BY <2>5, AppendProperties
  <2>7. QED
    BY <2>2, <2>3, <2>5, <2>6 DEF KeptStep
<1>6. QED
  BY <1>1, <1>3, <1>5

LEMMA InsertSeq ==
    ASSUME NEW S, NEW list \in Seq(S), NEW keys \in Seq(S), NEW before
    PROVE  InsertBefore(list, before, keys) \in Seq(S)
<1>1. iterator_for(list, before) \in 1..(Len(list) + 1) /\ Len(list) \in Nat
  BY LenProperties DEF iterator_for
<1> DEFINE at == iterator_for(list, before)
<1>2. /\ SubSeq(list, 1, at - 1) \in Seq(S)
      /\ SubSeq(list, at, Len(list)) \in Seq(S)
  <2> HIDE DEF at
  <2>1. at \in 1..(Len(list) + 1)
    BY <1>1 DEF at
  <2>2. \A i \in 1..Len(list) : list[i] \in S
    BY ElementOfSeq
  <2>3. QED
    BY <1>1, <2>1, <2>2, SubSeqProperties
<1>3. QED
  BY <1>2, ConcatProperties DEF InsertBefore

\* Inserting into an empty list gives what is inserted.
LEMMA InsertIntoEmpty ==
    ASSUME NEW S, NEW keys \in Seq(S), NEW before
    PROVE  InsertBefore(<<>>, before, keys) = keys
<1>1. iterator_for(<<>>, before) = 1 /\ Len(<<>>) = 0 /\ <<>> \in Seq(S)
  BY EmptySeq DEF iterator_for
<1>2. SubSeq(<<>>, 1, 0) = <<>>
  BY EmptySeq, SubSeqProperties
<1>3. <<>> \o keys = keys /\ keys \o <<>> = keys
  BY ConcatEmptySeq
<1>4. QED
  BY <1>1, <1>2, <1>3 DEF InsertBefore

------------------------------------------------------------------------------
(* Facts about the nest of calls *)

\* The steps a list of calls of monitors consists of.
CallsOf(l, W, m) == {display(l, w, m) : w \in W}

LEMMA DisplayingNone ==
    ASSUME NEW l, NEW m, NEW S, NEW rest \in Seq(S)
    PROVE  Displaying(l, <<>>, m, rest) = rest
<1> DEFINE none == [i \in DOMAIN <<>> |-> display(l, <<>>[i], m)]
<1>1. DOMAIN <<>> = 1..0
  OBVIOUS
<1>2. none = [i \in 1..0 |-> display(l, <<>>[i], m)]
  BY <1>1
<1>3. none \in Seq(S) /\ Len(none) = 0
  BY <1>2, IsASeq, LenProperties
<1>4. none = <<>>
  BY <1>3, EmptySeq
<1>5. QED
  BY <1>4, ConcatEmptySeq DEF Displaying

\* Calling monitors one after another: the first, then the others.
LEMMA DisplayingFirst ==
    ASSUME NEW l, NEW m, NEW W, NEW to \in Seq(W), NEW S, NEW rest \in Seq(S)
    PROVE  /\ \E T : Displaying(l, to, m, rest) \in Seq(T)
           /\ to # <<>> => /\ Tail(to) \in Seq(W)
                           /\ Displaying(l, to, m, rest)
                                = Cons(display(l, Head(to), m), Displaying(l, Tail(to), m, rest))
<1> DEFINE U == CallsOf(l, W, m) \cup S
           Mapped(t) == [i \in DOMAIN t |-> display(l, t[i], m)]
<1>1. rest \in Seq(U)
  <2>1. \A i \in 1..Len(rest) : rest[i] \in U
    BY ElementOfSeq
  <2>2. rest = [i \in 1..Len(rest) |-> rest[i]] /\ Len(rest) \in Nat
    BY LenProperties
  <2>3. QED
    BY <2>1, <2>2, IsASeq
<1>2. ASSUME NEW t \in Seq(W)
      PROVE  /\ Mapped(t) \in Seq(U) /\ Len(Mapped(t)) = Len(t) /\ Len(t) \in Nat
             /\ \A i \in 1..Len(t) : Mapped(t)[i] = display(l, t[i], m)
  <2>1. DOMAIN t = 1..Len(t) /\ Len(t) \in Nat
    BY LenProperties
  <2>2. \A i \in 1..Len(t) : display(l, t[i], m) \in U
    BY ElementOfSeq DEF CallsOf
  <2>3. Mapped(t) = [i \in 1..Len(t) |-> display(l, t[i], m)]
    BY <2>1
  <2>4. QED
    BY <2>1, <2>2, <2>3, IsASeq, LenProperties
<1>3. Displaying(l, to, m, rest) \in Seq(U)
  BY <1>1, <1>2, ConcatProperties DEF Displaying
<1>5. ASSUME to # <<>>
      PROVE  /\ Tail(to) \in Seq(W)
             /\ Displaying(l, to, m, rest)
                  = Cons(display(l, Head(to), m), Displaying(l, Tail(to), m, rest))
  <2>1. /\ Tail(to) \in Seq(W) /\ Len(Tail(to)) = Len(to) - 1 /\ Len(to) \in Nat \ {0}
        /\ \A i \in 1..Len(Tail(to)) : Tail(to)[i] = to[i + 1]
        /\ Head(to) = to[1] /\ Head(to) \in W
    BY <1>5, HeadTailProperties, EmptySeq
  <2> DEFINE n == Len(to)
             k == Len(rest)
             h == display(l, Head(to), m)
             t == Displaying(l, Tail(to), m, rest)
             d == Displaying(l, to, m, rest)
  <2>2. n \in Nat \ {0} /\ k \in Nat /\ h \in U
    BY <2>1, LenProperties DEF CallsOf
  <2>3. /\ t \in Seq(U) /\ Len(t) = n - 1 + k
        /\ \A i \in 1..(n - 1 + k) :
               t[i] = IF i <= n - 1 THEN Mapped(Tail(to))[i] ELSE rest[i - (n - 1)]
    <3>1. t = Mapped(Tail(to)) \o rest
      BY DEF Displaying
    <3>2. Mapped(Tail(to)) \in Seq(U) /\ Len(Mapped(Tail(to))) = n - 1
      BY <1>2, <2>1
    <3> HIDE DEF Mapped, t, U, n
    <3>3. /\ t \in Seq(U) /\ Len(t) = Len(Mapped(Tail(to))) + Len(rest)
          /\ \A i \in 1..Len(Mapped(Tail(to))) + Len(rest) :
                 t[i] = IF i <= Len(Mapped(Tail(to))) THEN Mapped(Tail(to))[i]
                        ELSE rest[i - Len(Mapped(Tail(to)))]
      BY <1>1, <3>1, <3>2, ConcatProperties
    <3>4. QED
      BY <3>2, <3>3
  <2>4. /\ d \in Seq(U) /\ Len(d) = n + k
        /\ \A i \in 1..(n + k) : d[i] = IF i <= n THEN Mapped(to)[i] ELSE rest[i - n]
    <3>1. d = Mapped(to) \o rest
      BY DEF Displaying
    <3>2. Mapped(to) \in Seq(U) /\ Len(Mapped(to)) = n
      BY <1>2
    <3> HIDE DEF Mapped, d, U, n
    <3>3. QED
      BY <1>1, <3>1, <3>2, ConcatProperties
  <2>5. \A i \in 1..(n - 1) : Mapped(Tail(to))[i] = Mapped(to)[i + 1]
    <3> SUFFICES ASSUME NEW i \in 1..(n - 1) PROVE Mapped(Tail(to))[i] = Mapped(to)[i + 1]
      OBVIOUS
    <3>1. i + 1 \in 1..n /\ i \in 1..Len(Tail(to))
      BY <2>1, <2>2
    <3>2. Mapped(Tail(to))[i] = display(l, Tail(to)[i], m)
      BY <1>2, <2>1, <3>1
    <3>3. Mapped(to)[i + 1] = display(l, to[i + 1], m)
      BY <1>2, <3>1
    <3>4. QED
      BY <2>1, <3>1, <3>2, <3>3
  <2>6. Mapped(to)[1] = h
    BY <1>2, <2>1, <2>2
  <2> HIDE DEF Mapped, t, d, h, n, k, U
  <2>7. /\ Cons(h, t) \in Seq(U) /\ Len(Cons(h, t)) = n + k
        /\ \A i \in 1..(n + k) : Cons(h, t)[i] = IF i = 1 THEN h ELSE t[i - 1]
    <3>1. /\ Cons(h, t) \in Seq(U) /\ Len(Cons(h, t)) = 1 + Len(t)
          /\ \A i \in 1..(1 + Len(t)) : Cons(h, t)[i] = IF i = 1 THEN h ELSE t[i - 1]
      BY <2>2, <2>3, ConsAt
    <3>2. 1 + Len(t) = n + k
      BY <2>2, <2>3
    <3>3. QED
      BY <3>1, <3>2
  <2>8. ASSUME NEW i \in 1..(n + k) PROVE d[i] = Cons(h, t)[i]
    <3>1. CASE i = 1
      <4>1. d[1] = Mapped(to)[1]
        BY <2>2, <2>4, <3>1
      <4>2. QED
        BY <4>1, <2>6, <2>7, <3>1
    <3>2. CASE i # 1 /\ i <= n
      <4>1. i - 1 \in 1..(n - 1) /\ i - 1 \in 1..(n - 1 + k) /\ i - 1 <= n - 1 /\ i - 1 + 1 = i
        BY <2>2, <3>2
      <4>2. t[i - 1] = Mapped(to)[i]
        BY <2>3, <2>5, <4>1
      <4>3. QED
        BY <4>2, <2>4, <2>7, <3>2
    <3>3. CASE i # 1 /\ ~(i <= n)
      <4>1. i - 1 \in 1..(n - 1 + k) /\ ~(i - 1 <= n - 1) /\ i - 1 - (n - 1) = i - n
        BY <2>2, <3>3
      <4>2. t[i - 1] = rest[i - n]
        BY <2>3, <4>1
      <4>3. QED
        BY <4>2, <2>4, <2>7, <3>3
    <3>4. QED
      BY <3>1, <3>2, <3>3
  <2>9. d = Cons(h, t)
    <3>1. Len(d) = Len(Cons(h, t)) /\ \A i \in 1..Len(d) : d[i] = Cons(h, t)[i]
      BY <2>4, <2>7, <2>8
    <3>2. QED
      BY ONLY <3>1, <2>4, <2>7, SeqEqual
  <2>10. QED
    BY <2>1, <2>9 DEF d, h, t
<1>6. QED
  BY <1>3, <1>5

LEMMA DisplayingWidgets ==
    ASSUME NEW l, NEW m, NEW to \in Seq(Widget), NEW S, NEW rest \in Seq(S)
    PROVE  /\ \E T : Displaying(l, to, m, rest) \in Seq(T)
           /\ to # <<>> => /\ Tail(to) \in Seq(Widget)
                           /\ Displaying(l, to, m, rest)
                                = Cons(display(l, Head(to), m), Displaying(l, Tail(to), m, rest))
<1>1. PICK W : to \in Seq(W) /\ W = Widget
  OBVIOUS
<1>2. \E T : Displaying(l, to, m, rest) \in Seq(T)
  BY <1>1, DisplayingFirst
<1>4. to # <<>> => /\ Tail(to) \in Seq(Widget)
                   /\ Displaying(l, to, m, rest)
                        = Cons(display(l, Head(to), m), Displaying(l, Tail(to), m, rest))
  BY <1>1, DisplayingFirst
<1>5. QED
  BY <1>2, <1>4

LEMMA DisplayingOne ==
    ASSUME NEW l, NEW w, NEW m, NEW S, NEW rest \in Seq(S)
    PROVE  Displaying(l, <<w>>, m, rest) = Cons(display(l, w, m), rest)
<1> DEFINE to == <<w>>
<1>1. to \in Seq({w}) /\ to # <<>> /\ Head(to) = w /\ Tail(to) = <<>>
  OBVIOUS
<1> HIDE DEF to
<1>2. Displaying(l, to, m, rest) = Cons(display(l, Head(to), m), Displaying(l, Tail(to), m, rest))
  <2>1. to \in Seq({w}) /\ to # <<>>
    BY <1>1
  <2>2. QED
    BY ONLY <2>1, rest \in Seq(S), DisplayingFirst
<1>3. Displaying(l, <<>>, m, rest) = rest
  BY DisplayingNone
<1>4. QED
  BY <1>1, <1>2, <1>3 DEF to

LEMMA ConsAny ==
    ASSUME NEW S, NEW t \in Seq(S), NEW a
    PROVE  /\ Cons(a, t) \in Seq(S \cup {a}) /\ Cons(a, t) # <<>>
           /\ Head(Cons(a, t)) = a /\ Tail(Cons(a, t)) = t
<1>1. t \in Seq(S \cup {a})
  <2>1. \A i \in 1..Len(t) : t[i] \in S \cup {a}
    BY ElementOfSeq
  <2>2. t = [i \in 1..Len(t) |-> t[i]] /\ Len(t) \in Nat
    BY LenProperties
  <2>3. QED
    BY <2>1, <2>2, IsASeq
<1>2. a \in S \cup {a}
  OBVIOUS
<1>3. QED
  BY <1>1, <1>2, ConsSeq

\* One call, and two, before the rest.
LEMMA OneTwo ==
    /\ \A a : <<a>> = Cons(a, <<>>)
    /\ \A a, b : <<a, b>> = Cons(a, Cons(b, <<>>))
    /\ \A S : \A t \in Seq(S) : \A a, b : <<a, b>> \o t = Cons(a, Cons(b, t))
<1>1. ASSUME NEW S, NEW t \in Seq(S), NEW a, NEW b
      PROVE  <<a, b>> \o t = Cons(a, Cons(b, t))
  <2> DEFINE U == S \cup {a, b}
  <2>1. t \in Seq(U) /\ a \in U /\ b \in U
    <3>1. \A i \in 1..Len(t) : t[i] \in U
      BY ElementOfSeq
    <3>2. t = [i \in 1..Len(t) |-> t[i]] /\ Len(t) \in Nat
      BY LenProperties
    <3>3. QED
      BY <3>1, <3>2, IsASeq
  <2> HIDE DEF U
  <2>2. QED
    BY <2>1, ConsTwo
<1>2. ASSUME NEW a, NEW b PROVE <<a, b>> = Cons(a, Cons(b, <<>>))
  <2>1. <<>> \in Seq({a}) /\ <<a, b>> \in Seq({a, b})
    OBVIOUS
  <2>2. <<a, b>> \o <<>> = <<a, b>>
    BY <2>1, ConcatEmptySeq
  <2>3. QED
    BY <1>1, <2>1, <2>2
<1>3. ASSUME NEW a PROVE <<a>> = Cons(a, <<>>)
  <2>1. <<a>> \in Seq({a})
    OBVIOUS
  <2>2. QED
    BY <2>1, ConcatEmptySeq DEF Cons
<1>4. QED
  BY <1>1, <1>2, <1>3

Ends == {set("controller", empty), set("view", Whole), set("view", empty)}

LEMMA AfterIs ==
    /\ \A kind \in Kind : After(kind) \in Seq(Ends)
    /\ After("nothing") = <<>>
    /\ After("command") = Cons(set("controller", empty), <<>>)
    /\ After("fill") = Cons(set("view", Whole), Cons(set("view", empty), <<>>))
<1>1. /\ After("nothing") = <<>> /\ After("command") = <<set("controller", empty)>>
      /\ After("fill") = <<set("view", Whole), set("view", empty)>>
  BY DEF After, send
<1>2. /\ <<>> \in Seq(Ends) /\ <<set("controller", empty)>> \in Seq(Ends)
      /\ <<set("view", Whole), set("view", empty)>> \in Seq(Ends)
  BY DEF Ends
<1>3. QED
  BY <1>1, <1>2, OneTwo DEF Kind

\* What the calls do.
LEMMA Does ==
    /\ \A l, m : set(l, m).do = "set" /\ set(l, m).line = l /\ set(l, m).what = m
    /\ \A l, w, m : /\ display(l, w, m).do = "display" /\ display(l, w, m).line = l
                    /\ display(l, w, m).to = w /\ display(l, w, m).what = m
    /\ empty.what = "empty" /\ "model" # "view"
BY DEF set, display, empty

\* What is called first in each phase.
First(a, t) == todo = Cons(a, t) /\ ~Idle /\ Head(todo) = a /\ Tail(todo) = t

LEMMA FirstIs ==
    ASSUME NEW S, NEW t \in Seq(S), NEW a, todo = Cons(a, t)
    PROVE  First(a, t)
BY ConsAny DEF First, Idle

LEMMA CommandingFirst ==
    ASSUME NEW c, Commanding(c)
    PROVE  First(set("controller", c), After("command"))
<1>1. todo = Cons(set("controller", c), After("command"))
  BY AfterIs, OneTwo, EmptySeq DEF Commanding
<1>2. QED
  BY <1>1, AfterIs, FirstIs DEF Kind

LEMMA ExecutingFirst ==
    ASSUME NEW c, Executing(c)
    PROVE  First(display("controller", "model", c), After("command"))
<1>1. todo = Cons(display("controller", "model", c), After("command"))
  BY AfterIs, OneTwo, EmptySeq DEF Executing
<1>2. QED
  BY <1>1, AfterIs, FirstIs DEF Kind

LEMMA SendingFirst ==
    ASSUME NEW m, NEW kind \in Kind, Sending(m, kind)
    PROVE  First(set("view", m), Cons(set("view", empty), After(kind)))
<1>1. Cons(set("view", empty), After(kind)) \in Seq(Ends \cup {set("view", empty)})
  BY AfterIs, ConsAny
<1>2. todo = Cons(set("view", m), Cons(set("view", empty), After(kind)))
  BY AfterIs, OneTwo DEF Sending, send
<1>3. QED
  BY <1>1, <1>2, FirstIs

LEMMA TellingFirst ==
    ASSUME NEW m, NEW kind \in Kind, NEW rest \in Seq(Widget), Telling(m, kind, rest)
    PROVE  LET then == Cons(set("view", empty), After(kind))
           IN IF rest = <<>> THEN First(set("view", empty), After(kind))
              ELSE /\ Tail(rest) \in Seq(Widget)
                   /\ First(display("view", Head(rest), m),
                            Displaying("view", Tail(rest), m, then))
<1> DEFINE then == Cons(set("view", empty), After(kind))
<1>1. then \in Seq(Ends \cup {set("view", empty)}) /\ After(kind) \in Seq(Ends)
  BY AfterIs, ConsAny
<1>2. todo = Displaying("view", rest, m, then)
  BY DEF Telling
<1>5. rest = <<>> => Displaying("view", rest, m, then) = then
  BY <1>1, DisplayingNone
<1>3. CASE rest = <<>>
  <2>1. todo = then
    BY <1>2, <1>3, <1>5
  <2>2. QED
    BY <1>1, <1>3, <2>1, FirstIs
<1>4. CASE rest # <<>>
  <2> HIDE DEF then
  <2>1. /\ Tail(rest) \in Seq(Widget)
        /\ todo = Cons(display("view", Head(rest), m), Displaying("view", Tail(rest), m, then))
    BY <1>1, <1>2, <1>4, DisplayingWidgets
  <2>2. PICK S : Displaying("view", Tail(rest), m, then) \in Seq(S)
    BY <1>1, <2>1, DisplayingWidgets
  <2>3. First(display("view", Head(rest), m), Displaying("view", Tail(rest), m, then))
    BY <2>1, <2>2, FirstIs
  <2>4. QED
    BY <1>4, <2>1, <2>3 DEF then
<1>6. QED
  BY <1>3, <1>4

LEMMA EmptyingFirst ==
    ASSUME NEW kind \in Kind, NEW rest \in Seq(Widget), Emptying(kind, rest)
    PROVE  IF rest = <<>> THEN todo = After(kind)
           ELSE /\ Tail(rest) \in Seq(Widget)
                /\ First(display("view", Head(rest), empty),
                         Displaying("view", Tail(rest), empty, After(kind)))
<1>1. After(kind) \in Seq(Ends)
  BY AfterIs
<1>2. todo = Displaying("view", rest, empty, After(kind))
  BY DEF Emptying
<1>5. rest = <<>> => Displaying("view", rest, empty, After(kind)) = After(kind)
  BY <1>1, DisplayingNone
<1>3. CASE rest = <<>>
  BY <1>2, <1>3, <1>5
<1>4. CASE rest # <<>>
  <2>1. /\ Tail(rest) \in Seq(Widget)
        /\ todo = Cons(display("view", Head(rest), empty),
                       Displaying("view", Tail(rest), empty, After(kind)))
    BY <1>1, <1>2, <1>4, DisplayingWidgets
  <2>2. PICK S : Displaying("view", Tail(rest), empty, After(kind)) \in Seq(S)
    BY <1>1, <2>1, DisplayingWidgets
  <2>3. QED
    BY <1>4, <2>1, <2>2, FirstIs
<1>6. QED
  BY <1>3, <1>4

\* What is left when a message has been told is nothing, or begins with a write.
LEMMA AfterCalls ==
    ASSUME ~Idle, NEW kind \in Kind, todo = After(kind)
    PROVE  \E k, m, t : First(set(k, m), t)
<1>1. kind # "nothing"
  BY AfterIs DEF Idle
<1>2. CASE kind = "command"
  BY <1>2, AfterIs, EmptySeq, FirstIs
<1>3. CASE kind = "fill"
  <2>1. <<>> \in Seq(Ends)
    BY EmptySeq
  <2>2. Cons(set("view", empty), <<>>) \in Seq(Ends \cup {set("view", empty)})
    BY <2>1, ConsAny
  <2>3. QED
    BY <1>3, <2>2, AfterIs, FirstIs
<1>4. QED
  BY <1>1, <1>2, <1>3 DEF Kind

LEMMA DoneFirst ==
    ASSUME Done
    PROVE  First(display("controller", "model", empty), After("nothing"))
<1>1. todo = Cons(display("controller", "model", empty), After("nothing"))
  BY AfterIs, OneTwo, EmptySeq DEF Done
<1>2. QED
  BY <1>1, AfterIs, FirstIs DEF Kind

LEMMA AttachingFirst ==
    ASSUME NEW kind \in Kind, Attaching(kind)
    PROVE  First(display("controller", "model", empty),
                 send("view", [what |-> "clear"]) \o After(kind))
<1> DEFINE c == set("view", [what |-> "clear"])
           e == set("view", empty)
<1>1. send("view", [what |-> "clear"]) \o After(kind) = Cons(c, Cons(e, After(kind)))
  BY AfterIs, OneTwo DEF send
<1>2. PICK S : Cons(c, Cons(e, After(kind))) \in Seq(S)
  <2> HIDE DEF c, e
  <2>1. Cons(e, After(kind)) \in Seq(Ends \cup {e})
    BY AfterIs, ConsAny
  <2>2. QED
    BY <2>1, ConsAny
<1> HIDE DEF c, e
<1>3. QED
  BY <1>1, <1>2, FirstIs DEF Attaching

------------------------------------------------------------------------------
(* What a call leaves alone *)

LEMMA Kept ==
    ASSUME UNCHANGED <<storage, value, far, widget_vars, late>>
    PROVE  /\ \A kind : After(kind)' = After(kind)
           /\ \A kind : Mirrored(ToSet(far), kind) => Mirrored(ToSet(far), kind)'
           /\ \A kind, rest : Mirrored(ToSet(far) \ ToSet(rest), kind)
                                 => Mirrored(ToSet(far) \ ToSet(rest), kind)'
           /\ \A m, kind : Behind(ToSet(far), m, kind) => Behind(ToSet(far), m, kind)'
           /\ \A m, kind, rest : Behind(ToSet(rest), m, kind) => Behind(ToSet(rest), m, kind)'
<1>1. /\ storage' = storage /\ value' = value /\ far' = far /\ set_m' = set_m
      /\ printed' = printed /\ late' = late
  BY DEF widget_vars
<1>2. \A kind : After(kind)' = After(kind)
  BY <1>1 DEF After, Whole
<1>3. \A kind : Aim(kind)' = Aim(kind)
  BY <1>1 DEF Aim
<1>4. \A w, list : Has(w, list) => Has(w, list)'
  BY <1>1 DEF Has, ContentsOf
<1>5. /\ \A kind : Mirrored(ToSet(far), kind) => Mirrored(ToSet(far), kind)'
      /\ \A kind, rest : Mirrored(ToSet(far) \ ToSet(rest), kind)
                            => Mirrored(ToSet(far) \ ToSet(rest), kind)'
  BY <1>1, <1>3, <1>4 DEF Mirrored
<1>6. /\ \A m, kind : Behind(ToSet(far), m, kind) => Behind(ToSet(far), m, kind)'
      /\ \A m, kind, rest : Behind(ToSet(rest), m, kind) => Behind(ToSet(rest), m, kind)'
  BY <1>1, <1>3 DEF Behind
<1>7. QED
  BY <1>2, <1>5, <1>6

LEMMA AlwaysKept ==
    ASSUME Always, UNCHANGED <<storage, near, far, widget_vars, late>>,
           line' = [l \in {"controller", "view"} |-> line'[l]]
    PROVE  Always'
<1>1. /\ storage' = storage /\ near' = near /\ far' = far /\ set_m' = set_m
      /\ printed' = printed /\ late' = late
  BY DEF widget_vars
<1>2. QED
  BY <1>1 DEF Always

\* Between nests of calls.
LEMMA IdlePhase ==
    ASSUME MuldexInv, Idle
    PROVE  /\ todo = <<>> /\ Lines("nothing", empty) /\ carried = 1
           /\ near => Mirrored(ToSet(far), "nothing")
<1>1. \A a, t : ~First(a, t)
  BY DEF First
<1>2. \A c : ~Commanding(c) /\ ~Executing(c)
  BY <1>1, CommandingFirst, ExecutingFirst
<1>3. \A m : \A kind \in Kind : ~Sending(m, kind)
  BY <1>1, SendingFirst
<1>4. \A m : \A kind \in Kind, rest \in Seq(Widget) : ~Telling(m, kind, rest)
  BY <1>1, TellingFirst
<1>5. ~Done /\ \A kind \in Kind : ~Attaching(kind)
  BY <1>1, DoneFirst, AttachingFirst
<1>6. PICK kind \in Kind, rest \in Seq(Widget) : Emptying(kind, rest)
  BY <1>2, <1>3, <1>4, <1>5 DEF MuldexInv, Phase
<1>7. rest = <<>> /\ todo = After(kind)
  BY <1>1, <1>6, EmptyingFirst
<1>8. \A x, t : Cons(x, t) # <<>> \/ ~(t \in Seq(Ends))
  BY ConsAny
<1>9. kind = "nothing"
  <2>1. todo = <<>> /\ <<>> \in Seq(Ends)
    BY EmptySeq DEF Idle
  <2>2. After("command") # <<>>
    BY <2>1, AfterIs, ConsAny
  <2>3. After("fill") # <<>>
    <3>1. Cons(set("view", empty), <<>>) \in Seq(Ends \cup {set("view", empty)})
      BY <2>1, ConsAny
    <3>2. Cons(set("view", Whole), Cons(set("view", empty), <<>>)) # <<>>
      BY <3>1, ConsAny
    <3>3. QED
      BY <3>2, AfterIs
  <2>4. QED
    BY <1>7, <2>1, <2>2, <2>3 DEF Kind
<1>10. QED
  BY <1>6, <1>7, <1>9 DEF Emptying, Idle

\* All calls have come back.
LEMMA EmptiedPhase ==
    ASSUME Lines("nothing", empty)', carried' = 1, todo' = <<>>,
           near' => Mirrored(ToSet(far), "nothing")'
    PROVE  Phase'
<1>1. <<>> \in Seq(Widget) /\ "nothing" \in Kind /\ <<>> \in Seq(Ends)
  BY EmptySeq DEF Kind
<1>2. After("nothing")' = <<>>
  BY DEF After
<1>3. Displaying("view", <<>>, empty, <<>>) = <<>>
  BY <1>1, DisplayingNone
<1>4. Emptying("nothing", <<>>)'
  BY <1>2, <1>3 DEF Emptying
<1>5. QED
  BY <1>1, <1>4 DEF Phase

------------------------------------------------------------------------------
(* forward_to_model *)

LEMMA Forwarded ==
    ASSUME forward_to_model, NEW l, NEW m, NEW t, First(set(l, m), t)
    PROVE  /\ line' = [line EXCEPT ![l] = m]
           /\ m # line[l] => todo' = Displaying(l, monitors(l), m, t)
           /\ UNCHANGED <<storage, value, near, far, widget_vars, carried, late>>
<1>1. Head(todo) = set(l, m) /\ Tail(todo) = t
  BY DEF First
<1>2. set(l, m).line = l /\ set(l, m).what = m
  BY Does
<1>3. QED
  BY <1>1, <1>2 DEF forward_to_model, Displaying, model_vars, attach_vars

LEMMA ForwardedLine ==
    ASSUME Always, NEW l \in {"controller", "view"}, NEW m, line' = [line EXCEPT ![l] = m]
    PROVE  /\ line' = [k \in {"controller", "view"} |-> line'[k]]
           /\ l = "controller" => line'["controller"] = m /\ line'["view"] = line["view"]
           /\ l = "view" => line'["view"] = m /\ line'["controller"] = line["controller"]
BY DEF Always

LEMMA ForwardCommanding ==
    ASSUME MuldexInv, forward_to_model, NEW c, Commanding(c)
    PROVE  MuldexInv'
<1>1. First(set("controller", c), After("command"))
  BY CommandingFirst
<1>2. c # empty /\ line["controller"] = empty /\ line["view"] = empty
  BY Does DEF Commanding, IsCommand, Lines
<1>3. /\ line' = [line EXCEPT !["controller"] = c]
      /\ todo' = Displaying("controller", monitors("controller"), c, After("command"))
      /\ UNCHANGED <<storage, value, near, far, widget_vars, carried, late>>
  BY <1>1, <1>2, Forwarded
<1>4. /\ line' = [k \in {"controller", "view"} |-> line'[k]]
      /\ line'["controller"] = c /\ line'["view"] = empty
  BY <1>2, <1>3, ForwardedLine DEF MuldexInv
<1>5. Always'
  BY <1>3, <1>4, AlwaysKept DEF MuldexInv
<1>6. Lines("command", empty)'
  BY <1>2, <1>4 DEF Lines
<1>7. After("command") \in Seq(Ends) /\ After("command") = <<set("controller", empty)>>
  BY AfterIs, OneTwo DEF Kind
<1>8. CASE near
  <2>1. monitors("controller") = <<"model">>
    BY <1>8 DEF monitors
  <2>2. todo' = <<display("controller", "model", c), set("controller", empty)>>
    BY <1>3, <1>7, <2>1, DisplayingOne, AfterIs, OneTwo
  <2>3. Executing(c)'
    BY <1>3, <1>6, <1>8, <2>2, Kept DEF Commanding, Executing
  <2>4. QED
    BY <1>5, <2>3 DEF MuldexInv, Phase
<1>9. CASE ~near
  <2>1. monitors("controller") = <<>>
    BY <1>9 DEF monitors
  <2>2. todo' = After("command")
    BY <1>3, <1>7, <2>1, DisplayingNone
  <2>3. After("command")' = After("command")
    BY <1>3, Kept
  <2>4. <<>> \in Seq(Widget) /\ "command" \in Kind
    BY EmptySeq DEF Kind
  <2>5. Displaying("view", <<>>, empty, After("command")) = After("command")
    BY <1>7, DisplayingNone
  <2>6. Emptying("command", <<>>)'
    BY <1>3, <1>6, <1>9, <2>2, <2>3, <2>5 DEF Commanding, Emptying
  <2>7. QED
    BY <1>5, <2>4, <2>6 DEF MuldexInv, Phase
<1>10. QED
  BY <1>8, <1>9

LEMMA ForwardSending ==
    ASSUME MuldexInv, forward_to_model, NEW m, NEW kind \in Kind, Sending(m, kind)
    PROVE  MuldexInv'
<1> DEFINE then == Cons(set("view", empty), After(kind))
<1>1. First(set("view", m), then)
  BY SendingFirst
<1>2. m # empty /\ line["view"] = empty
  BY Does DEF Sending, IsMessage, Lines
<1>3. /\ line' = [line EXCEPT !["view"] = m]
      /\ todo' = Displaying("view", monitors("view"), m, then)
      /\ UNCHANGED <<storage, value, near, far, widget_vars, carried, late>>
  BY <1>1, <1>2, Forwarded
<1>4. /\ line' = [k \in {"controller", "view"} |-> line'[k]]
      /\ line'["view"] = m /\ line'["controller"] = line["controller"]
  BY <1>3, ForwardedLine DEF MuldexInv
<1>5. Always'
  BY <1>3, <1>4, AlwaysKept DEF MuldexInv
<1>6. PICK ws : ws = far
  OBVIOUS
<1>7. far \in Seq(Widget) /\ IsInjective(far)
  BY DEF MuldexInv, Always
<1>8. todo' = Displaying("view", ws, m, Cons(set("view", empty), After(kind)'))
  BY <1>3, <1>6, Kept DEF monitors
<1>9. Lines(kind, m)'
  BY <1>4 DEF Sending, Lines
<1>10. Behind(ToSet(ws), m, kind)'
  BY <1>3, <1>6, Kept DEF Sending
<1>11. Mirrored(ToSet(far) \ ToSet(ws), kind)'
  BY <1>3, <1>6 DEF Mirrored
<1>12. Telling(m, kind, ws)'
  BY <1>3, <1>6, <1>7, <1>8, <1>9, <1>10, <1>11 DEF Sending, Telling
<1>13. QED
  BY <1>5, <1>6, <1>7, <1>12 DEF MuldexInv, Phase

LEMMA ForwardTelling ==
    ASSUME MuldexInv, forward_to_model, NEW m, NEW kind \in Kind, Telling(m, kind, <<>>)
    PROVE  MuldexInv'
<1>1. First(set("view", empty), After(kind))
  BY TellingFirst, EmptySeq
<1>2. m # empty /\ line["view"] = m
  BY Does DEF Telling, IsMessage, Lines
<1>3. /\ line' = [line EXCEPT !["view"] = empty]
      /\ todo' = Displaying("view", monitors("view"), empty, After(kind))
      /\ UNCHANGED <<storage, value, near, far, widget_vars, carried, late>>
  BY <1>1, <1>2, Forwarded
<1>4. /\ line' = [k \in {"controller", "view"} |-> line'[k]]
      /\ line'["view"] = empty /\ line'["controller"] = line["controller"]
  BY <1>3, ForwardedLine DEF MuldexInv
<1>5. Always'
  BY <1>3, <1>4, AlwaysKept DEF MuldexInv
<1>6. PICK ws : ws = far
  OBVIOUS
<1>7. far \in Seq(Widget)
  BY DEF MuldexInv, Always
<1>8. todo' = Displaying("view", ws, empty, After(kind)')
  BY <1>3, <1>6, Kept DEF monitors
<1>9. Lines(kind, empty)'
  BY <1>4 DEF Telling, Lines
<1>10. Mirrored(ToSet(far), kind)'
  <2>1. ToSet(<<>>) = {}
    BY EmptySeq, ToSetOf
  <2>2. Mirrored(ToSet(far), kind)
    BY <2>1 DEF Telling
  <2>3. QED
    BY <1>3, <2>2, Kept
<1>11. Emptying(kind, ws)'
  BY <1>3, <1>8, <1>9, <1>10 DEF Telling, Emptying
<1>12. QED
  BY <1>5, <1>6, <1>7, <1>11 DEF MuldexInv, Phase

\* A new model's widgets have been cleared and are to be filled.
LEMMA FillIsSending ==
    ASSUME MuldexInv, NEW rest, rest = <<>>, Emptying("fill", rest)
    PROVE  Sending(Whole, "nothing")
<1>1. todo = After("fill") /\ near /\ Mirrored(ToSet(far), "fill") /\ carried = 1
      /\ Lines("fill", empty)
  BY EmptyingFirst, EmptySeq DEF Emptying, Kind
<1>2. send("view", Whole) \o After("nothing") = After("fill")
  <2>1. <<>> \in Seq(Ends)
    BY EmptySeq
  <2>2. send("view", Whole) = <<set("view", Whole), set("view", empty)>>
    BY DEF send
  <2>3. <<set("view", Whole), set("view", empty)>> \o <<>>
          = Cons(set("view", Whole), Cons(set("view", empty), <<>>))
    BY <2>1, OneTwo
  <2>4. QED
    BY <2>2, <2>3, AfterIs
<1>3. /\ Whole.what = "extend_set" /\ Whole.before = nkey /\ Whole.keys = storage
      /\ ~Clears(Whole)
  BY DEF Whole, Clears
<1>4. IsMessage(Whole)
  BY <1>3 DEF IsMessage
<1>5. storage \in Seq(Key)
  BY DEF MuldexInv, Always
<1>6. ASSUME NEW w \in ToSet(far), w \notin late
      PROVE  Told(Whole, set_m[w]) = storage /\ Held(Whole, ToSet(set_m[w]))
  <2>1. set_m[w] = <<>>
    BY <1>1, <1>6 DEF Mirrored, Has, Aim
  <2>2. ToSet(<<>>) = {}
    BY EmptySeq, ToSetOf
  <2>3. Told(Whole, <<>>) = InsertBefore(<<>>, nkey, storage)
    BY <1>3 DEF Told
  <2>4. QED
    BY <1>3, <1>5, <2>1, <2>2, <2>3, InsertIntoEmpty DEF Held
<1>7. Behind(ToSet(far), Whole, "nothing")
  BY <1>3, <1>6 DEF Behind, Aim
<1>8. Lines("nothing", empty)
  BY <1>1 DEF Lines
<1>9. QED
  BY <1>1, <1>2, <1>4, <1>7, <1>8 DEF Sending

LEMMA ForwardEmptying ==
    ASSUME MuldexInv, forward_to_model, NEW kind \in Kind, NEW rest, rest = <<>>,
           Emptying(kind, rest)
    PROVE  MuldexInv'
<1>1. todo = After(kind)
  BY EmptyingFirst, EmptySeq
<1>2. CASE kind = "nothing"
  BY <1>1, <1>2, AfterIs DEF forward_to_model, Idle
<1>3. CASE kind = "fill"
  BY <1>3, FillIsSending, ForwardSending DEF Kind
<1>4. CASE kind = "command"
  <2>1. First(set("controller", empty), <<>>)
    BY <1>1, <1>4, AfterIs, EmptySeq, FirstIs
  <2>2. line["controller"] # empty /\ line["view"] = empty /\ carried = 1
    BY <1>4 DEF Emptying, Lines
  <2>3. /\ line' = [line EXCEPT !["controller"] = empty]
        /\ todo' = Displaying("controller", monitors("controller"), empty, <<>>)
        /\ UNCHANGED <<storage, value, near, far, widget_vars, carried, late>>
    BY <2>1, <2>2, Forwarded
  <2>4. /\ line' = [k \in {"controller", "view"} |-> line'[k]]
        /\ line'["view"] = empty /\ line'["controller"] = empty
    BY <2>2, <2>3, ForwardedLine DEF MuldexInv
  <2>5. Always'
    BY <2>3, <2>4, AlwaysKept DEF MuldexInv
  <2>6. Lines("nothing", empty)'
    BY <2>4 DEF Lines
  <2>7. near => Mirrored(ToSet(far), "nothing")'
    <3>1. Mirrored(ToSet(far), "command") => Mirrored(ToSet(far), "nothing")
      BY DEF Mirrored, Aim
    <3>2. QED
      BY <1>4, <2>3, <3>1, Kept DEF Emptying
  <2>8. <<>> \in Seq(Ends)
    BY EmptySeq
  <2>9. CASE near
    <3>1. monitors("controller") = <<"model">>
      BY <2>9 DEF monitors
    <3>2. todo' = <<display("controller", "model", empty)>>
      <4>1. Displaying("controller", <<"model">>, empty, <<>>)
              = Cons(display("controller", "model", empty), <<>>)
        BY <2>8, DisplayingOne
      <4>2. <<display("controller", "model", empty)>>
              = Cons(display("controller", "model", empty), <<>>)
        BY OneTwo
      <4>3. QED
        BY <2>3, <3>1, <4>1, <4>2
    <3>3. Done'
      BY <2>2, <2>3, <2>6, <2>7, <2>9, <3>2 DEF Done
    <3>4. QED
      BY <2>5, <3>3 DEF MuldexInv, Phase
  <2>10. CASE ~near
    <3>1. monitors("controller") = <<>>
      BY <2>10 DEF monitors
    <3>2. todo' = <<>>
      BY <2>3, <2>8, <3>1, DisplayingNone
    <3>3. QED
      BY <2>2, <2>3, <2>5, <2>6, <2>10, <3>2, EmptiedPhase DEF MuldexInv
  <2>11. QED
    BY <2>9, <2>10
<1>5. QED
  BY <1>2, <1>3, <1>4 DEF Kind

LEMMA ForwardMuldex ==
    ASSUME MuldexInv, forward_to_model
    PROVE  MuldexInv'
<1>1. \A l, w, m, t : ~First(display(l, w, m), t)
  BY Does DEF forward_to_model, First
<1>2. CASE \E c : Commanding(c) \/ Executing(c)
  BY <1>1, <1>2, ForwardCommanding, ExecutingFirst
<1>3. CASE \E m : \E kind \in Kind : Sending(m, kind)
  BY <1>3, ForwardSending
<1>4. CASE \E m : \E kind \in Kind, rest \in Seq(Widget) : Telling(m, kind, rest)
  BY <1>1, <1>4, TellingFirst, ForwardTelling
<1>5. CASE \E kind \in Kind, rest \in Seq(Widget) : Emptying(kind, rest)
  BY <1>1, <1>5, EmptyingFirst, ForwardEmptying
<1>6. CASE Done \/ \E kind \in Kind : Attaching(kind)
  BY <1>1, <1>6, DoneFirst, AttachingFirst
<1>7. QED
  BY <1>2, <1>3, <1>4, <1>5, <1>6 DEF MuldexInv, Phase

------------------------------------------------------------------------------
(* display_empty *)

LEMMA EmptyMuldex ==
    ASSUME MuldexInv, NEW l \in {"controller", "view"}, display_empty(l)
    PROVE  MuldexInv'
<1>1. /\ todo' = Tail(todo) /\ ~Idle
      /\ Head(todo).do = "display" /\ Head(todo).what = empty
      /\ UNCHANGED <<storage, value, near, far, line, widget_vars, carried, late>>
  BY DEF display_empty, Displays, model_vars, attach_vars
<1>2. Always'
  BY <1>1, AlwaysKept DEF MuldexInv, Always
<1>3. /\ \A k, m, t : First(set(k, m), t) => FALSE
      /\ \A k, w, m, t : First(display(k, w, m), t) => m = empty /\ todo' = t
  BY <1>1, Does DEF First
<1>4. \A kind, v : Lines(kind, v) => Lines(kind, v)'
  BY <1>1 DEF Lines
<1>5. CASE \E c : Commanding(c) \/ Executing(c)
  <2>1. \A c : Executing(c) => c # empty
    BY Does DEF Executing, IsCommand
  <2>2. QED
    BY <1>3, <1>5, <2>1, CommandingFirst, ExecutingFirst
<1>6. CASE \E m : \E kind \in Kind : Sending(m, kind)
  BY <1>3, <1>6, SendingFirst
<1>7. CASE \E m : \E kind \in Kind, rest \in Seq(Widget) : Telling(m, kind, rest)
  <2>1. \A m, kind, rest : Telling(m, kind, rest) => m # empty
    BY Does DEF Telling, IsMessage
  <2>2. QED
    BY <1>3, <1>7, <2>1, TellingFirst
<1>8. CASE \E kind \in Kind, rest \in Seq(Widget) : Emptying(kind, rest)
  <2>1. PICK kind \in Kind, rest \in Seq(Widget) : Emptying(kind, rest)
    BY <1>8
  <2>2. rest # <<>>
    <3>1. rest = <<>> => todo = After(kind)
      BY <2>1, EmptyingFirst
    <3>2. QED
      BY <1>1, <1>3, <3>1, AfterCalls
  <2>3. /\ Tail(rest) \in Seq(Widget)
        /\ todo' = Displaying("view", Tail(rest), empty, After(kind))
    BY <1>3, <2>1, <2>2, EmptyingFirst
  <2>4. After(kind)' = After(kind)
    BY <1>1, Kept
  <2>5. near => Mirrored(ToSet(far), kind)'
    BY <1>1, <2>1, Kept DEF Emptying
  <2>6. Emptying(kind, Tail(rest))'
    BY <1>1, <1>4, <2>1, <2>3, <2>4, <2>5 DEF Emptying
  <2>7. QED
    BY <1>2, <2>3, <2>6 DEF MuldexInv, Phase
<1>9. CASE Done
  <2>1. todo' = <<>>
    BY <1>3, <1>9, DoneFirst, AfterIs
  <2>2. Lines("nothing", empty)' /\ carried' = 1 /\ Mirrored(ToSet(far), "nothing")'
    BY <1>1, <1>4, <1>9, Kept DEF Done
  <2>3. QED
    BY <1>2, <2>1, <2>2, EmptiedPhase DEF MuldexInv
<1>10. CASE \E kind \in Kind : Attaching(kind)
  <2>1. PICK kind \in Kind : Attaching(kind)
    BY <1>10
  <2> DEFINE m == [what |-> "clear"]
  <2>2. IsMessage(m) /\ m.what = "clear" /\ Clears(m)
    BY DEF IsMessage, Clears
  <2> HIDE DEF m
  <2>3. todo' = send("view", m) \o After(kind)
    BY <1>3, <2>1, AttachingFirst DEF m
  <2>4. After(kind)' = After(kind)
    BY <1>1, Kept
  <2>5. Lines(kind, empty)'
    BY <1>4, <2>1 DEF Attaching, Lines
  <2>6. Aim(kind) = <<>>
    BY <2>1 DEF Attaching, Aim
  <2>7. \A list : Told(m, list) = <<>> /\ \A keys : Held(m, keys)
    BY <2>2 DEF Told, Held
  <2>8. Behind(ToSet(far), m, kind)
    BY <2>6, <2>7 DEF Behind
  <2>9. Behind(ToSet(far), m, kind)'
    BY <1>1, <2>8, Kept
  <2>10. Sending(m, kind)'
    BY <1>1, <2>1, <2>2, <2>3, <2>4, <2>5, <2>9 DEF Attaching, Sending
  <2>11. QED
    BY <1>2, <2>10 DEF MuldexInv, Phase
<1>11. QED
  BY <1>5, <1>6, <1>7, <1>8, <1>9, <1>10 DEF MuldexInv, Phase

------------------------------------------------------------------------------
(* Commands *)

\* A command changes the model as its message says the widgets are to change.
LEMMA ToldBehind ==
    ASSUME NEW m, storage' = Told(m, storage), Held(m, Keys),
           UNCHANGED <<far, widget_vars, late>>, Mirrored(ToSet(far), "nothing")
    PROVE  \A kind \in {"nothing", "command"} : Behind(ToSet(far), m, kind)'
<1>1. set_m' = set_m /\ far' = far /\ late' = late
  BY DEF widget_vars
<1>2. \A w \in ToSet(far) : w \notin late => set_m[w] = storage
  BY DEF Mirrored, Has, Aim
<1>3. \A kind \in {"nothing", "command"} : Aim(kind)' = storage'
  BY DEF Aim
<1>4. Clears(m) => \A list : Told(m, list) = <<>>
  BY DEF Clears, Told
<1>5. QED
  BY <1>1, <1>2, <1>3, <1>4 DEF Behind, Keys

LEMMA Executed ==
    ASSUME MuldexInv, NEW c, NEW rest, IsCommand(c), Execute(c, rest),
           UNCHANGED <<attach_vars, widget_vars, late>>,
           near => Mirrored(ToSet(far), "nothing")
    PROVE  /\ storage' \in Seq(Key)
           /\ \E m : /\ IsMessage(m) /\ told(m, rest)
                     /\ near => \A kind \in {"nothing", "command"} :
                                    Behind(ToSet(far), m, kind)'
<1>1. storage \in Seq(Key)
  BY DEF MuldexInv, Always
<1>2. UNCHANGED <<far, widget_vars, late>>
  BY DEF attach_vars
<1>3. ASSUME NEW m, IsMessage(m), told(m, rest), storage' = Told(m, storage), Held(m, Keys)
      PROVE  \E n : /\ IsMessage(n) /\ told(n, rest)
                    /\ near => \A kind \in {"nothing", "command"} :
                                   Behind(ToSet(far), n, kind)'
  <2>1. near => \A kind \in {"nothing", "command"} : Behind(ToSet(far), m, kind)'
    BY <1>2, <1>3, ToldBehind
  <2>2. QED
    BY <1>3, <2>1
<1>4. CASE c.what = "insert_set"
  <2>1. PICK keys \in Free(Len(c.values)) :
            /\ storage' = InsertBefore(storage, c.before, keys)
            /\ told([what |-> "extend_set", before |-> c.before, keys |-> keys], rest)
    BY <1>4 DEF Execute
  <2> DEFINE m == [what |-> "extend_set", before |-> c.before, keys |-> keys]
  <2>2. keys \in Seq(Key) /\ ToSet(keys) \cap Keys = {}
    <3>1. keys \in [1..Len(c.values) -> Key] /\ Len(c.values) \in Nat
      BY <1>4 DEF Free, IsCommand
    <3>2. keys \in Seq(Key)
      BY <3>1
    <3>3. QED
      BY <3>2 DEF Free
  <2>3. /\ m.what = "extend_set" /\ m.before = c.before /\ m.keys = keys
        /\ ~Clears(m) /\ told(m, rest)
    BY <2>1 DEF Clears
  <2> HIDE DEF m
  <2>4. IsMessage(m) /\ storage' = Told(m, storage) /\ Held(m, Keys)
    BY <2>1, <2>2, <2>3 DEF IsMessage, Told, Held
  <2>5. storage' \in Seq(Key)
    BY <1>1, <2>1, <2>2, InsertSeq
  <2>6. QED
    BY <1>3, <2>3, <2>4, <2>5
<1>5. CASE c.what = "set"
  <2> DEFINE m == [what |-> "refresh", key |-> c.key, value |-> c.value]
  <2>1. /\ m.what = "refresh" /\ m.key = c.key /\ ~Clears(m)
        /\ told(m, rest) /\ storage' = storage /\ c.key \in Keys
    BY <1>5 DEF Execute, Defined, Clears
  <2> HIDE DEF m
  <2>2. IsMessage(m) /\ storage' = Told(m, storage) /\ Held(m, Keys)
    BY <2>1 DEF IsMessage, Told, Held
  <2>3. QED
    BY <1>1, <1>3, <2>1, <2>2
<1>6. CASE c.what = "erase"
  <2> DEFINE m == [what |-> "erase", keys |-> c.keys]
  <2>1. /\ m.what = "erase" /\ m.keys = c.keys /\ ~Clears(m)
        /\ told(m, rest) /\ storage' = Without(storage, c.keys) /\ c.keys \subseteq Keys
    BY <1>6 DEF Execute, Defined, Clears
  <2> HIDE DEF m
  <2>2. IsMessage(m) /\ storage' = Told(m, storage) /\ Held(m, Keys)
    BY <2>1 DEF IsMessage, Told, Held
  <2>3. storage' \in Seq(Key)
    BY <1>1, <2>1, WithoutSeq
  <2>4. QED
    BY <1>3, <2>1, <2>2, <2>3
<1>7. CASE c.what = "clear"
  <2> DEFINE m == [what |-> "clear"]
  <2>1. m.what = "clear" /\ Clears(m) /\ told(m, rest) /\ storage' = <<>>
    BY <1>7 DEF Execute, Clears
  <2> HIDE DEF m
  <2>2. IsMessage(m) /\ storage' = Told(m, storage) /\ Held(m, Keys)
    BY <2>1 DEF IsMessage, Told, Held
  <2>3. QED
    BY <1>3, <2>1, <2>2, EmptySeq
<1>8. QED
  BY <1>4, <1>5, <1>6, <1>7 DEF Execute

LEMMA AlwaysExecuted ==
    ASSUME Always, storage' \in Seq(Key), UNCHANGED <<near, far, line, widget_vars, late>>
    PROVE  Always'
BY DEF Always, widget_vars

LEMMA DisplayCommandMuldex ==
    ASSUME MuldexInv, display_command
    PROVE  MuldexInv'
<1>1. /\ ~Idle /\ Head(todo).do = "display" /\ Head(todo).line = "controller"
      /\ Head(todo).what # empty /\ carried' = carried + 1
      /\ UNCHANGED <<near, far, line, widget_vars, late>>
  BY DEF display_command, Displays, attach_vars
<1>2. /\ \A k, m, t : First(set(k, m), t) => FALSE
      /\ \A k, w, m, t : First(display(k, w, m), t) => m # empty /\ k = "controller"
  BY <1>1, Does DEF First
<1>3. \A kind \in Kind : todo = After(kind) => \E k, m, t : First(set(k, m), t)
  BY <1>1, AfterCalls
<1>4. \A c : ~Commanding(c)
  BY <1>2, CommandingFirst
<1>5. \A m : \A kind \in Kind : ~Sending(m, kind)
  BY <1>2, SendingFirst
<1>6. \A m : \A kind \in Kind, rest \in Seq(Widget) : ~Telling(m, kind, rest)
  BY <1>2, TellingFirst
<1>7. \A kind \in Kind, rest \in Seq(Widget) : ~Emptying(kind, rest)
  BY <1>1, <1>2, <1>3, EmptyingFirst
<1>8. ~Done /\ \A kind \in Kind : ~Attaching(kind)
  BY <1>2, DoneFirst, AttachingFirst
<1>9. PICK c : Executing(c)
  BY <1>4, <1>5, <1>6, <1>7, <1>8 DEF MuldexInv, Phase
<1>10. Head(todo).what = c /\ Tail(todo) = After("command")
  BY <1>9, ExecutingFirst, Does DEF First
<1>11. Execute(c, After("command")) /\ IsCommand(c) /\ near /\ Mirrored(ToSet(far), "nothing")
  BY <1>9, <1>10 DEF display_command, Executing
<1>12. PICK m : /\ IsMessage(m) /\ told(m, After("command"))
                /\ near => \A kind \in {"nothing", "command"} : Behind(ToSet(far), m, kind)'
  BY <1>1, <1>11, Executed DEF attach_vars
<1>13. storage' \in Seq(Key)
  BY <1>1, <1>11, Executed DEF attach_vars
<1>14. Always'
  BY <1>1, <1>13, AlwaysExecuted DEF MuldexInv
<1>15. After("command")' = After("command")
  BY DEF After
<1>16. todo' = send("view", m) \o After("command")
  BY <1>11, <1>12 DEF told
<1>17. Lines("command", empty)' /\ carried' = 1
  BY <1>1, <1>9 DEF Executing, Lines
<1>18. Sending(m, "command")'
  BY <1>1, <1>11, <1>12, <1>15, <1>16, <1>17 DEF Sending
<1>19. QED
  BY <1>14, <1>18 DEF MuldexInv, Phase, Kind

LEMMA ChangeMuldex ==
    ASSUME MuldexInv, NEW c, IsCommand(c), change(c)
    PROVE  MuldexInv'
<1>1. /\ Idle /\ Execute(c, <<>>)
      /\ UNCHANGED <<near, far, line, widget_vars, carried, late>>
  BY DEF change, attach_vars
<1>2. /\ todo = <<>> /\ Lines("nothing", empty) /\ carried = 1
      /\ near => Mirrored(ToSet(far), "nothing")
  BY <1>1, IdlePhase
<1>3. storage' \in Seq(Key)
  BY <1>1, <1>2, Executed DEF attach_vars
<1>4. PICK m : /\ IsMessage(m) /\ told(m, <<>>)
               /\ near => \A kind \in {"nothing", "command"} : Behind(ToSet(far), m, kind)'
  BY <1>1, <1>2, Executed DEF attach_vars
<1>5. Always'
  BY <1>1, <1>3, AlwaysExecuted DEF MuldexInv
<1>6. Lines("nothing", empty)'
  BY <1>1, <1>2 DEF Lines
<1>7. CASE near
  <2>1. todo' = send("view", m) \o After("nothing")'
    BY <1>4, <1>7 DEF told, After
  <2>2. Sending(m, "nothing")'
    BY <1>1, <1>2, <1>4, <1>6, <1>7, <2>1 DEF Sending
  <2>3. QED
    BY <1>5, <2>2 DEF MuldexInv, Phase, Kind
<1>8. CASE ~near
  <2>1. <<>> \in Seq(Ends)
    BY EmptySeq
  <2>2. todo' = <<>>
    BY <1>4, <1>8, <2>1, ConcatEmptySeq DEF told
  <2>3. QED
    BY <1>1, <1>2, <1>5, <1>6, <1>8, <2>2, EmptiedPhase DEF MuldexInv
<1>9. QED
  BY <1>7, <1>8

\* The commands of widgets and of the model's owner.
LEMMA CommandsAre ==
    \A keys : \A c \in Commands(keys) : IsCommand(c)
<1> SUFFICES ASSUME NEW keys, NEW c \in Commands(keys) PROVE IsCommand(c)
  OBVIOUS
<1>1. CASE \E k \in keys \cup {nkey}, v \in {<<x>> : x \in Value} \cup (Value \X Value) :
              c = [what |-> "insert_set", before |-> k, values |-> v]
  <2>1. PICK k \in keys \cup {nkey}, v \in {<<x>> : x \in Value} \cup (Value \X Value) :
              c = [what |-> "insert_set", before |-> k, values |-> v]
    BY <1>1
  <2>2. Len(v) \in Nat
    <3>1. CASE v \in {<<x>> : x \in Value}
      BY <3>1
    <3>2. CASE v \in Value \X Value
      BY <3>2
    <3>3. QED
      BY <3>1, <3>2
  <2>3. QED
    BY <2>1, <2>2 DEF IsCommand
<1>2. CASE \E k \in keys, x \in Value : c = [what |-> "set", key |-> k, value |-> x]
  BY <1>2 DEF IsCommand
<1>3. CASE \E ks \in SUBSET keys : c = [what |-> "erase", keys |-> ks]
  BY <1>3 DEF IsCommand
<1>4. CASE c = [what |-> "clear"]
  BY <1>4 DEF IsCommand
<1>5. QED
  BY <1>1, <1>2, <1>3, <1>4 DEF Commands

LEMMA CommandMuldex ==
    ASSUME MuldexInv, NEW w \in Widget, command(w)
    PROVE  MuldexInv'
<1>1. PICK c \in Commands(ToSet(set_m[w])) : todo' = send("controller", c)
  BY DEF command
<1>2. /\ Idle /\ carried' = (IF near THEN 0 ELSE carried)
      /\ UNCHANGED <<storage, value, near, far, line, widget_vars, late>>
  BY DEF command, model_vars, attach_vars
<1>3. /\ Lines("nothing", empty) /\ carried = 1
      /\ near => Mirrored(ToSet(far), "nothing")
  BY <1>2, IdlePhase
<1>4. Always'
  BY <1>2, AlwaysKept DEF MuldexInv, Always
<1>5. IsCommand(c)
  BY <1>1, CommandsAre
<1>6. Lines("nothing", empty)'
  BY <1>2, <1>3 DEF Lines
<1>7. near' => Mirrored(ToSet(far), "nothing")'
  BY <1>2, <1>3, Kept
<1>8. Commanding(c)'
  BY <1>1, <1>2, <1>3, <1>5, <1>6, <1>7 DEF Commanding, send
<1>9. QED
  BY <1>4, <1>8 DEF MuldexInv, Phase

------------------------------------------------------------------------------
(* Messages *)

LEMMA MessageMuldex ==
    ASSUME MuldexInv, display_message
    PROVE  MuldexInv'
<1>1. /\ ~Idle /\ Head(todo).do = "display" /\ Head(todo).line = "view"
      /\ Head(todo).what # empty /\ todo' = Tail(todo)
      /\ UNCHANGED <<storage, value, near, far, line, carried>>
  BY DEF display_message, Displays, model_vars, attach_vars
<1>2. /\ \A k, m, t : First(set(k, m), t) => FALSE
      /\ \A k, w, m, t : First(display(k, w, m), t) => m # empty /\ k = "view"
  BY <1>1, Does DEF First
<1>3. \A c : ~Commanding(c) /\ ~Executing(c)
  BY <1>2, CommandingFirst, ExecutingFirst
<1>4. \A m : \A kind \in Kind : ~Sending(m, kind)
  BY <1>2, SendingFirst
<1>5. ~Done /\ \A kind \in Kind : ~Attaching(kind)
  BY <1>2, DoneFirst, AttachingFirst
<1>6. \A kind \in Kind, rest \in Seq(Widget) : ~Emptying(kind, rest)
  <2> SUFFICES ASSUME NEW kind \in Kind, NEW rest \in Seq(Widget), Emptying(kind, rest)
               PROVE  FALSE
    OBVIOUS
  <2>1. todo = After(kind)
    BY <1>2, EmptyingFirst
  <2>2. \E k, m, t : First(set(k, m), t)
    BY <1>1, <2>1, AfterCalls
  <2>3. QED
    BY <1>2, <2>2
<1>27. PICK m : \E kind \in Kind, rest \in Seq(Widget) : Telling(m, kind, rest)
  BY <1>3, <1>4, <1>5, <1>6 DEF MuldexInv, Phase
<1>7. PICK kind \in Kind, rest \in Seq(Widget) : Telling(m, kind, rest)
  BY <1>27
<1> DEFINE w == Head(rest)
           t == Tail(rest)
<1>8. rest # <<>> /\ t \in Seq(Widget)
  BY <1>2, <1>7, TellingFirst
<1>9. First(display("view", w, m),
            Displaying("view", t, m, Cons(set("view", empty), After(kind))))
  BY <1>7, <1>8, TellingFirst
<1>10. Head(todo).to = w /\ Head(todo).what = m
  BY <1>9, Does DEF First
<1>11. /\ IsInjective(t) /\ w \in ToSet(rest) /\ ToSet(t) = ToSet(rest) \ {w}
  BY <1>7, <1>8, TailSet DEF Telling, IsInjective
<1>12. w \in ToSet(far) /\ ToSet(rest) \subseteq ToSet(far) /\ w \in Widget
  BY <1>7, <1>11, ToSetOf DEF Telling, MuldexInv, Always
<1>13. todo' = Displaying("view", t, m, Cons(set("view", empty), After(kind)'))
  <2>1. After(kind)' = After(kind)
    BY <1>1 DEF After, Whole
  <2>2. QED
    BY <1>1, <1>9, <2>1 DEF First
<1> HIDE DEF w, t
<1>14. /\ set_m' = [set_m EXCEPT ![w] = Told(m, set_m[w])]
       /\ printed' = [printed EXCEPT ![w] = ContentsOf(Told(m, set_m[w]))]
       /\ late' = IF Clears(m) THEN late \ {w} ELSE late
  BY <1>10 DEF display_message, Clears, ContentsOf
<1>15. /\ set_m' = [u \in Widget |-> set_m'[u]] /\ printed' = [u \in Widget |-> printed'[u]]
       /\ set_m'[w] = Told(m, set_m[w]) /\ printed'[w] = ContentsOf(Told(m, set_m[w]))
       /\ \A u \in Widget \ {w} : set_m'[u] = set_m[u] /\ printed'[u] = printed[u]
  BY <1>12, <1>14 DEF MuldexInv, Always
<1>16. /\ late' \subseteq late /\ (w \in late' => w \in late /\ ~Clears(m))
       /\ \A u \in Widget \ {w} : u \in late' <=> u \in late
  BY <1>14
<1>17. Always'
  BY <1>1, <1>12, <1>15, <1>16 DEF MuldexInv, Always
<1>18. Aim(kind)' = Aim(kind) /\ \A list : ContentsOf(list)' = ContentsOf(list)
  BY <1>1 DEF Aim, ContentsOf
<1>19. ToSet(far) \subseteq Widget
  BY ToSetOf DEF MuldexInv, Always
<1>20. Behind(ToSet(t), m, kind)'
  <2>1. \A u \in ToSet(t) : u \in ToSet(rest) /\ u \in Widget \ {w}
    BY <1>11, <1>12, <1>19
  <2>2. QED
    BY <1>7, <1>15, <1>16, <1>18, <2>1 DEF Telling, Behind
<1>21. Mirrored(ToSet(far) \ ToSet(t), kind)'
  <2> SUFFICES ASSUME NEW u \in ToSet(far), u \notin ToSet(t), u \notin late'
               PROVE  set_m'[u] = Aim(kind) /\ printed'[u] = ContentsOf(Aim(kind))
    BY <1>1, <1>18 DEF Mirrored, Has
  <2>1. CASE u = w
    BY <1>7, <1>11, <1>15, <1>16, <2>1, <1>14 DEF Telling, Behind
  <2>2. CASE u # w
    <3>1. u \in Widget \ {w} /\ u \notin late /\ u \notin ToSet(rest)
      BY <1>11, <1>16, <1>19, <2>2
    <3>2. QED
      BY <1>7, <1>15, <3>1 DEF Telling, Mirrored, Has
  <2>3. QED
    BY <2>1, <2>2
<1>22. Lines(kind, m)' /\ carried' = 1 /\ near'
  BY <1>1, <1>7 DEF Telling, Lines
<1>23. ToSet(t) \subseteq ToSet(far) /\ IsMessage(m)
  BY <1>7, <1>11, <1>12 DEF Telling
<1>24. Telling(m, kind, t)'
  BY <1>1, <1>11, <1>13, <1>20, <1>21, <1>22, <1>23 DEF Telling
<1>25. t \in Seq(Widget)
  BY <1>8 DEF t
<1>26. QED
  BY <1>17, <1>24, <1>25 DEF MuldexInv, Phase

------------------------------------------------------------------------------
(* Attaching and detaching *)

LEMMA AttachModelMuldex ==
    ASSUME MuldexInv, attach_sequence_model
    PROVE  MuldexInv'
<1>1. /\ Idle /\ near' = TRUE
      /\ UNCHANGED <<storage, value, far, line, widget_vars, carried, late>>
  BY DEF attach_sequence_model, model_vars
<1>2. Lines("nothing", empty) /\ carried = 1
  BY <1>1, IdlePhase
<1>3. line["controller"] = empty
  BY <1>2 DEF Lines
<1>4. PICK kind \in Kind : kind = IF storage = <<>> THEN "nothing" ELSE "fill"
  BY DEF Kind
<1> DEFINE d == display("controller", "model", empty)
           s == send("view", [what |-> "clear"])
<1>5. todo' = <<d>> \o s \o After(kind)
  BY <1>3, <1>4 DEF attach_sequence_model, After, Whole
<1>6. todo' = Cons(d, s \o After(kind))
  <2> DEFINE U == Ends \cup {d, set("view", [what |-> "clear"])}
  <2>1. <<d>> \in Seq(U) /\ s \in Seq(U) /\ After(kind) \in Seq(U)
    <3>1. <<d>> \in Seq(U)
      OBVIOUS
    <3>2. s \in Seq(U)
      BY DEF send, Ends
    <3>3. After(kind) \in Seq(U)
      <4>1. \A i \in 1..Len(After(kind)) : After(kind)[i] \in U
        BY AfterIs, ElementOfSeq
      <4>2. /\ After(kind) = [i \in 1..Len(After(kind)) |-> After(kind)[i]]
            /\ Len(After(kind)) \in Nat
        BY AfterIs, LenProperties
      <4>3. QED
        BY <4>1, <4>2, IsASeq
    <3>4. QED
      BY <3>1, <3>2, <3>3
  <2> HIDE DEF U, d, s
  <2>2. (<<d>> \o s) \o After(kind) = <<d>> \o (s \o After(kind))
    BY <2>1, ConcatAssociative
  <2>3. QED
    BY <1>5, <2>2 DEF Cons
<1>7. After(kind)' = After(kind)
  BY <1>1, Kept
<1>8. Always'
  BY <1>1 DEF MuldexInv, Always, widget_vars
<1>9. Lines("nothing", empty)'
  BY <1>1, <1>2 DEF Lines
<1> HIDE DEF s, d
<1>10. Attaching(kind)'
  BY <1>1, <1>2, <1>4, <1>6, <1>7, <1>9 DEF Attaching, s, d
<1>11. QED
  BY <1>8, <1>10 DEF MuldexInv, Phase

LEMMA DetachModelMuldex ==
    ASSUME MuldexInv, detach_sequence_model
    PROVE  MuldexInv'
<1>1. /\ Idle /\ near' = FALSE
      /\ UNCHANGED <<storage, value, far, line, widget_vars, todo, carried, late>>
  BY DEF detach_sequence_model, model_vars
<1>2. todo = <<>> /\ Lines("nothing", empty) /\ carried = 1
  BY <1>1, IdlePhase
<1>3. Always'
  BY <1>1 DEF MuldexInv, Always, widget_vars
<1>4. Lines("nothing", empty)'
  BY <1>1, <1>2 DEF Lines
<1>5. QED
  BY <1>1, <1>2, <1>3, <1>4, EmptiedPhase DEF MuldexInv

LEMMA ContentsOfNothing == ContentsOf(<<>>) = <<>>
<1> DEFINE shown == [i \in DOMAIN <<>> |-> value[<<>>[i]]]
<1>1. DOMAIN <<>> = 1..0
  OBVIOUS
<1>2. shown = [i \in 1..0 |-> value[<<>>[i]]]
  BY <1>1
<1>3. shown \in Seq({0}) /\ Len(shown) = 0
  BY <1>2, IsASeq, LenProperties
<1>4. shown = <<>>
  BY <1>3, EmptySeq
<1>5. QED
  BY <1>4 DEF ContentsOf

LEMMA AttachWidgetMuldex ==
    ASSUME MuldexInv, NEW w \in Widget, attach_sequence_widget(w)
    PROVE  MuldexInv'
<1>1. /\ Idle /\ w \notin ToSet(far) /\ far' = Append(far, w)
      /\ late' = IF near /\ storage # <<>> THEN late \cup {w} ELSE late
      /\ todo' = <<display("view", w, line["view"])>>
      /\ UNCHANGED <<storage, value, near, line, widget_vars, carried>>
  BY DEF attach_sequence_widget, model_vars, Contains, ToSet
<1>2. /\ Lines("nothing", empty) /\ carried = 1
      /\ near => Mirrored(ToSet(far), "nothing")
  BY <1>1, IdlePhase
<1>3. /\ far' \in Seq(Widget) /\ ToSet(far') = ToSet(far) \cup {w} /\ IsInjective(far')
  BY <1>1, AppendSet DEF MuldexInv, Always, IsInjective
<1>4. set_m' = set_m /\ printed' = printed /\ set_m[w] = <<>> /\ printed[w] = <<>>
  BY <1>1 DEF MuldexInv, Always, widget_vars
<1>5. Always'
  BY <1>1, <1>3, <1>4 DEF MuldexInv, Always
<1>6. Lines("nothing", empty)' /\ line["view"] = empty
  BY <1>1, <1>2 DEF Lines
<1>7. near' => Mirrored(ToSet(far), "nothing")'
  <2> SUFFICES ASSUME near, NEW u \in ToSet(far'), u \notin late'
               PROVE  set_m[u] = storage /\ printed[u] = ContentsOf(storage)
    BY <1>1, <1>4 DEF Mirrored, Has, Aim, ContentsOf
  <2>1. CASE u = w
    BY <1>1, <1>4, <2>1, ContentsOfNothing
  <2>2. CASE u # w
    BY <1>1, <1>2, <1>3, <2>2 DEF Mirrored, Has, Aim
  <2>3. QED
    BY <2>1, <2>2
<1>8. <<w>> \in Seq(Widget) /\ After("nothing")' = <<>> /\ <<>> \in Seq(Ends)
  BY EmptySeq DEF After
<1>9. todo' = Displaying("view", <<w>>, empty, <<>>)
  <2>1. Displaying("view", <<w>>, empty, <<>>) = Cons(display("view", w, empty), <<>>)
    BY <1>8, DisplayingOne
  <2>2. <<display("view", w, empty)>> = Cons(display("view", w, empty), <<>>)
    BY OneTwo
  <2>3. QED
    BY <1>1, <1>6, <2>1, <2>2
<1>10. Emptying("nothing", <<w>>)'
  BY <1>1, <1>2, <1>6, <1>7, <1>8, <1>9 DEF Emptying
<1>11. QED
  BY <1>5, <1>8, <1>10 DEF MuldexInv, Phase, Kind

LEMMA DetachWidgetMuldex ==
    ASSUME MuldexInv, NEW w \in Widget, detach_sequence_widget(w)
    PROVE  MuldexInv'
<1>1. /\ Idle /\ w \in ToSet(far) /\ far' = RemoveAt(far, iterator_for(far, w))
      /\ set_m' = [set_m EXCEPT ![w] = <<>>] /\ printed' = [printed EXCEPT ![w] = <<>>]
      /\ late' = late \ {w}
      /\ UNCHANGED <<storage, value, near, line, todo, carried>>
  BY DEF detach_sequence_widget, model_vars, Contains, ToSet
<1>2. /\ todo = <<>> /\ Lines("nothing", empty) /\ carried = 1
      /\ near => Mirrored(ToSet(far), "nothing")
  BY <1>1, IdlePhase
<1>3. iterator_for(far, w) \in DOMAIN far /\ far[iterator_for(far, w)] = w
  BY <1>1 DEF iterator_for, ToSet
<1>4. /\ far' \in Seq(Widget) /\ ToSet(far') = ToSet(far) \ {w} /\ IsInjective(far')
  BY <1>1, <1>3, RemoveAtSet DEF MuldexInv, Always, IsInjective
<1>5. /\ set_m' = [u \in Widget |-> set_m'[u]] /\ printed' = [u \in Widget |-> printed'[u]]
      /\ set_m'[w] = <<>> /\ printed'[w] = <<>>
      /\ \A u \in Widget \ {w} : set_m'[u] = set_m[u] /\ printed'[u] = printed[u]
  BY <1>1 DEF MuldexInv, Always
<1>6. Always'
  BY <1>1, <1>4, <1>5 DEF MuldexInv, Always
<1>7. Lines("nothing", empty)'
  BY <1>1, <1>2 DEF Lines
<1>8. ToSet(far) \subseteq Widget
  BY ToSetOf DEF MuldexInv, Always
<1>9. near' => Mirrored(ToSet(far), "nothing")'
  <2> SUFFICES ASSUME near, NEW u \in ToSet(far'), u \notin late'
               PROVE  set_m'[u] = storage /\ printed'[u] = ContentsOf(storage)
    BY <1>1 DEF Mirrored, Has, Aim, ContentsOf
  <2>1. u \in Widget \ {w} /\ u \in ToSet(far) /\ u \notin late
    BY <1>1, <1>4, <1>8
  <2>2. QED
    BY <1>2, <1>5, <2>1 DEF Mirrored, Has, Aim
<1>10. QED
  BY <1>1, <1>2, <1>6, <1>7, <1>9, EmptiedPhase DEF MuldexInv

------------------------------------------------------------------------------
(* The invariant *)

LEMMA InitMuldex == Init => MuldexInv
<1> SUFFICES ASSUME Init PROVE MuldexInv
  OBVIOUS
<1>1. /\ storage = <<>> /\ near = FALSE /\ far = <<>> /\ todo = <<>> /\ carried = 1 /\ late = {}
      /\ line = [l \in {"controller", "view"} |-> empty]
      /\ set_m = [w \in Widget |-> <<>>] /\ printed = [w \in Widget |-> <<>>]
  BY DEF Init
<1>2. /\ <<>> \in Seq(Key) /\ <<>> \in Seq(Widget) /\ <<>> \in Seq(Ends) /\ "nothing" \in Kind
      /\ IsInjective(<<>>)
  BY EmptySeq DEF Kind, IsInjective
<1>3. Always
  BY <1>1, <1>2 DEF Always
<1>4. Lines("nothing", empty) /\ After("nothing") = <<>>
  BY <1>1 DEF Lines, After
<1>5. Displaying("view", <<>>, empty, <<>>) = <<>>
  BY <1>2, DisplayingNone
<1>6. Emptying("nothing", <<>>)
  BY <1>1, <1>4, <1>5 DEF Emptying
<1>7. QED
  BY <1>2, <1>3, <1>6 DEF MuldexInv, Phase

LEMMA StutterMuldex ==
    ASSUME MuldexInv, UNCHANGED vars
    PROVE  MuldexInv'
<1>1. /\ UNCHANGED <<storage, value, near, far, line, widget_vars, todo, carried, late>>
  BY DEF vars, model_vars, attach_vars
<1>2. Always'
  BY <1>1, AlwaysKept DEF MuldexInv, Always
<1>3. \A kind, v : Lines(kind, v) => Lines(kind, v)'
  BY <1>1 DEF Lines
<1>4. \A c : /\ Commanding(c) => Commanding(c)'
             /\ Executing(c) => Executing(c)'
  BY <1>1, <1>3, Kept DEF Commanding, Executing
<1>5. \A m, kind : Sending(m, kind) => Sending(m, kind)'
  BY <1>1, <1>3, Kept DEF Sending
<1>6. \A m, kind, rest : Telling(m, kind, rest) => Telling(m, kind, rest)'
  BY <1>1, <1>3, Kept DEF Telling
<1>7. \A kind, rest : Emptying(kind, rest) => Emptying(kind, rest)'
  BY <1>1, <1>3, Kept DEF Emptying
<1>8. Done => Done'
  BY <1>1, <1>3, Kept DEF Done
<1>9. \A kind : Attaching(kind) => Attaching(kind)'
  BY <1>1, <1>3, Kept DEF Attaching
<1>10. Phase'
  BY <1>4, <1>5, <1>6, <1>7, <1>8, <1>9 DEF MuldexInv, Phase
<1>11. QED
  BY <1>2, <1>10 DEF MuldexInv

LEMMA NextMuldex == MuldexInv /\ [Next]_vars => MuldexInv'
<1> SUFFICES ASSUME MuldexInv, [Next]_vars PROVE MuldexInv'
  OBVIOUS
<1>1. CASE forward_to_model
  BY <1>1, ForwardMuldex
<1>2. CASE display_command
  BY <1>2, DisplayCommandMuldex
<1>3. CASE display_message
  BY <1>3, MessageMuldex
<1>4. ASSUME NEW l \in {"controller", "view"}, display_empty(l) PROVE MuldexInv'
  BY <1>4, EmptyMuldex
<1>5. CASE attach_sequence_model
  BY <1>5, AttachModelMuldex
<1>6. CASE detach_sequence_model
  BY <1>6, DetachModelMuldex
<1>7. ASSUME NEW c \in Commands(Keys), change(c) PROVE MuldexInv'
  BY <1>7, CommandsAre, ChangeMuldex
<1>8. ASSUME NEW w \in Widget, command(w) PROVE MuldexInv'
  BY <1>8, CommandMuldex
<1>9. ASSUME NEW w \in Widget, attach_sequence_widget(w) PROVE MuldexInv'
  BY <1>9, AttachWidgetMuldex
<1>10. ASSUME NEW w \in Widget, detach_sequence_widget(w) PROVE MuldexInv'
  BY <1>10, DetachWidgetMuldex
<1>11. CASE UNCHANGED vars
  BY <1>11, StutterMuldex
<1>12. QED
  BY <1>1, <1>2, <1>3, <1>4, <1>5, <1>6, <1>7, <1>8, <1>9, <1>10, <1>11 DEF Next

------------------------------------------------------------------------------
(* The theorems *)

\* The inductive invariant: what is left of a nest of calls is the rest of one of
\* the forms of Phase, and widgets that are still to be told are behind by exactly
\* the message on the line.
THEOREM MuldexInvariance == Spec => []MuldexInv
<1>1. Init => MuldexInv
  BY InitMuldex
<1>2. MuldexInv /\ [Next]_vars => MuldexInv'
  BY NextMuldex
<1>3. QED
  BY <1>1, <1>2, PTL DEF Spec

\* A widget cannot tell the two lines from the model: when no call is under way,
\* every widget at the far end that did not come late has the model's elements, in
\* order, and shows their values, whatever was attached, changed or sent.
THEOREM FarAlwaysMirrors == Spec => []FarMirrors
<1>1. MuldexInv => FarMirrors
  <2> SUFFICES ASSUME MuldexInv, Idle, near, NEW w \in ToSet(far) \ late
               PROVE  set_m[w] = storage /\ printed[w] = Contents
    BY DEF FarMirrors
  <2>1. Mirrored(ToSet(far), "nothing")
    BY IdlePhase
  <2>2. QED
    BY <2>1 DEF Mirrored, Has, Aim, ContentsOf, Contents
<1>2. QED
  BY <1>1, MuldexInvariance, PTL

\* Clearing a line after each write makes the demultiplexers carry out every
\* command once: not never, when it is the same as the last, and not again, when
\* something is attached to the line.
THEOREM AlwaysCarriedOnce == Spec => []CarriedOnce
<1>1. MuldexInv => CarriedOnce
  BY IdlePhase DEF CarriedOnce
<1>2. QED
  BY <1>1, MuldexInvariance, PTL

\* The view demultiplexer never hands a widget, unless it came late, a message to
\* erase or refresh a key it does not have, or to insert one it has.
THEOREM ToldKeysAlwaysHeld == Spec => []ToldKeysHeld
<1>1. MuldexInv => ToldKeysHeld
  <2> SUFFICES ASSUME MuldexInv, ~Idle, Head(todo).do = "display", Head(todo).line = "view",
                      Head(todo).to \notin late
               PROVE  Held(Head(todo).what, ToSet(set_m[Head(todo).to]))
    BY DEF ToldKeysHeld, Held
  <2>1. /\ \A k, m, t : ~First(set(k, m), t)
        /\ \A k, w, m, t : First(display(k, w, m), t) =>
               k = "view" /\ Head(todo).to = w /\ Head(todo).what = m
    BY Does DEF First
  <2>2. \A keys : Held(empty, keys)
    BY Does DEF Held
  <2>3. CASE \E c : Commanding(c) \/ Executing(c)
    BY <2>1, <2>3, CommandingFirst, ExecutingFirst
  <2>4. CASE \E m : \E kind \in Kind : Sending(m, kind)
    BY <2>1, <2>4, SendingFirst
  <2>5. CASE Done \/ \E kind \in Kind : Attaching(kind)
    BY <2>1, <2>5, DoneFirst, AttachingFirst
  <2>6. CASE \E kind \in Kind, rest \in Seq(Widget) : Emptying(kind, rest)
    <3>1. PICK kind \in Kind, rest \in Seq(Widget) : Emptying(kind, rest)
      BY <2>6
    <3>2. CASE rest = <<>>
      BY <2>1, <3>1, <3>2, EmptyingFirst, AfterCalls
    <3>3. CASE rest # <<>>
      BY <2>1, <2>2, <3>1, <3>3, EmptyingFirst
    <3>4. QED
      BY <3>2, <3>3
  <2>7. CASE \E m : \E kind \in Kind, rest \in Seq(Widget) : Telling(m, kind, rest)
    <3>1. PICK m : \E kind \in Kind, rest \in Seq(Widget) : Telling(m, kind, rest)
      BY <2>7
    <3>2. PICK kind \in Kind, rest \in Seq(Widget) : Telling(m, kind, rest)
      BY <3>1
    <3>3. rest # <<>> /\ Head(todo).to = Head(rest) /\ Head(todo).what = m
      BY <2>1, <3>2, TellingFirst
    <3>4. Head(rest) \in ToSet(rest)
      BY <3>2, <3>3, TailSet DEF Telling, IsInjective
    <3>5. QED
      BY <3>2, <3>3, <3>4 DEF Telling, Behind
  <2>8. QED
    BY <2>3, <2>4, <2>5, <2>6, <2>7 DEF MuldexInv, Phase
<1>2. QED
  BY <1>1, MuldexInvariance, PTL
===============================================================================
