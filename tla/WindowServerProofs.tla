--------------------------- MODULE WindowServerProofs ---------------------------
(***************************************************************************)
(* Proofs about window_server_t: for any number of windows, whatever fails *)
(* half-way, the root behavior runs the windows of the list in its order;  *)
(* and when the main loop drains after each message, no deferred erase     *)
(* comes too late.                                                         *)
(***************************************************************************)
EXTENDS WindowServer, SeqLemmas

ListOnce == \A i, j \in DOMAIN window_list : window_list[i] = window_list[j] => i = j

\* Whoever has a window has a server.
ServerOwns == window_list # <<>> => server \in Server

\* The window being opened is the last of the list, and nothing else goes on.
OpensLast ==
    /\ \A n : opening = {n} => window_list # <<>> /\ n = window_list[Len(window_list)]
    /\ draining => opening = none

ListInv == TypeOK /\ ListOnce /\ ServerOwns /\ OpensLast /\ RootFollowsList

\* With a loop that drains after each message at most one erase waits, and
\* nothing comes before it.
OneErase ==
    DrainEach => /\ ErasesLive /\ Len(queue) \in {0, 1}
                 /\ queue # <<>> => opening = none

------------------------------------------------------------------------------
(* Facts about the order of a list *)

\* An element taken out of a list leaves the others in their order.
LEMMA FollowsRemoved ==
    ASSUME NEW S, NEW r \in Seq(S), NEW s \in Seq(S), Follows(r, s)
    PROVE  /\ \A p \in DOMAIN r : Follows(RemoveAt(r, p), s)
           /\ \A p \in DOMAIN s : Follows(r, RemoveAt(s, p))
<1> DEFINE Old(p, i) == IF i < p THEN i ELSE i + 1
<1>1. ASSUME NEW t \in Seq(S), NEW p \in DOMAIN t
      PROVE  /\ \A i \in DOMAIN RemoveAt(t, p) :
                    Old(p, i) \in DOMAIN t /\ RemoveAt(t, p)[i] = t[Old(p, i)]
             /\ \A i, j \in DOMAIN RemoveAt(t, p) : i < j <=> Old(p, i) < Old(p, j)
  <2>1. /\ p \in 1..Len(t) /\ DOMAIN t = 1..Len(t) /\ Len(t) \in Nat
        /\ DOMAIN RemoveAt(t, p) = 1..(Len(t) - 1)
        /\ \A j \in 1..(Len(t) - 1) : RemoveAt(t, p)[j] = IF j < p THEN t[j] ELSE t[j + 1]
    BY RemoveAtSeq, LenProperties
  <2>2. QED
    BY <2>1
<1> HIDE DEF Old
<1>2. ASSUME NEW p \in DOMAIN r
      PROVE  Follows(RemoveAt(r, p), s)
  <2> SUFFICES ASSUME NEW i \in DOMAIN RemoveAt(r, p), NEW j \in DOMAIN RemoveAt(r, p),
                      NEW k \in DOMAIN s, NEW l \in DOMAIN s,
                      RemoveAt(r, p)[i] = s[k], RemoveAt(r, p)[j] = s[l]
               PROVE  i < j <=> k < l
    BY DEF Follows
  <2>1. /\ Old(p, i) \in DOMAIN r /\ Old(p, j) \in DOMAIN r
        /\ r[Old(p, i)] = s[k] /\ r[Old(p, j)] = s[l]
        /\ i < j <=> Old(p, i) < Old(p, j)
    BY <1>1
  <2>2. QED
    BY <2>1 DEF Follows
<1>3. ASSUME NEW p \in DOMAIN s
      PROVE  Follows(r, RemoveAt(s, p))
  <2> SUFFICES ASSUME NEW i \in DOMAIN r, NEW j \in DOMAIN r,
                      NEW k \in DOMAIN RemoveAt(s, p), NEW l \in DOMAIN RemoveAt(s, p),
                      r[i] = RemoveAt(s, p)[k], r[j] = RemoveAt(s, p)[l]
               PROVE  i < j <=> k < l
    BY DEF Follows
  <2>1. /\ Old(p, k) \in DOMAIN s /\ Old(p, l) \in DOMAIN s
        /\ r[i] = s[Old(p, k)] /\ r[j] = s[Old(p, l)]
        /\ k < l <=> Old(p, k) < Old(p, l)
    BY <1>1
  <2>2. QED
    BY <2>1 DEF Follows
<1>4. QED
  BY <1>2, <1>3

\* The root behavior's list has no repetitions either.
LEMMA RootOnce ==
    ASSUME ListInv
    PROVE  \A i, j \in DOMAIN root : root[i] = root[j] => i = j
<1> SUFFICES ASSUME NEW i \in DOMAIN root, NEW j \in DOMAIN root, root[i] = root[j]
             PROVE  i = j
  OBVIOUS
<1>1. PICK k \in DOMAIN window_list : root[i] = window_list[k]
  BY DEF ListInv, RootFollowsList, Views, ToSet
<1>2. ~(i < j) /\ ~(j < i)
  <2>1. k \in Nat
    BY LenProperties DEF ListInv, TypeOK
  <2>2. (i < j <=> k < k) /\ (j < i <=> k < k)
    BY <1>1 DEF ListInv, RootFollowsList, Follows
  <2>3. QED
    BY <2>1, <2>2
<1>3. i \in Nat /\ j \in Nat
  BY LenProperties DEF ListInv, TypeOK
<1>4. QED
  BY <1>2, <1>3

LEMMA WithoutList ==
    ASSUME NEW S, NEW s \in Seq(S), NEW n \in ToSet(s),
           \A i, j \in DOMAIN s : s[i] = s[j] => i = j
    PROVE  /\ \E p \in DOMAIN s : Without(s, n) = RemoveAt(s, p)
           /\ Without(s, n) \in Seq(S)
           /\ \A i, j \in DOMAIN Without(s, n) : Without(s, n)[i] = Without(s, n)[j] => i = j
           /\ ToSet(Without(s, n)) = ToSet(s) \ {n}
<1>1. PICK p \in DOMAIN s : s[p] = n /\ Without(s, n) = RemoveAt(s, p)
  <2>1. \E i \in DOMAIN s : s[i] = n
    BY DEF ToSet
  <2>2. QED
    BY <2>1 DEF Without
<1>2. QED
  BY <1>1, RemoveAtSet

------------------------------------------------------------------------------
(* The actions *)

\* A node goes to the end of the list, and no window comes with it yet.
LEMMA InsertNode ==
    ASSUME ListInv, NEW n \in Node, insert_node(n), opening = none, ~draining,
           server' \in Server, UNCHANGED <<shown, root, queue, draining>>
    PROVE  ListInv'
<1> USE DEF ListInv, insert_node
<1>1. /\ window_list' \in Seq(Node) /\ ListOnce' /\ ToSet(window_list') = ToSet(window_list) \cup {n}
  BY AppendSet DEF TypeOK, ListOnce
<1>2. /\ Len(window_list') = Len(window_list) + 1 /\ Len(window_list) \in Nat
      /\ \A i \in 1..Len(window_list) : window_list'[i] = window_list[i]
      /\ window_list'[Len(window_list) + 1] = n
      /\ DOMAIN window_list = 1..Len(window_list)
      /\ DOMAIN window_list' = 1..(Len(window_list) + 1)
  BY <1>1, AppendProperties, LenProperties DEF TypeOK
<1>3. Views' = Views /\ n \notin Views
  BY <1>1 DEF Views, TypeOK
<1>4. TypeOK'
  BY <1>1, <1>3 DEF TypeOK
<1>5. RootFollowsList'
  <2>1. \A i \in DOMAIN root : root[i] # n
    BY <1>3 DEF RootFollowsList, ToSet
  <2>2. \A k \in DOMAIN window_list' : window_list'[k] # n =>
            k \in DOMAIN window_list /\ window_list'[k] = window_list[k]
    BY <1>2
  <2>3. Follows(root, window_list')
    BY <2>1, <2>2 DEF RootFollowsList, Follows
  <2>4. QED
    BY <1>3, <2>3 DEF RootFollowsList
<1>6. OpensLast'
  BY <1>2, EmptySeq DEF OpensLast
<1>7. QED
  BY <1>1, <1>4, <1>5, <1>6 DEF ServerOwns

LEMMA MakeView ==
    ASSUME ListInv, NEW n \in Node, make_view(n)
    PROVE  ListInv'
<1> USE DEF ListInv, make_view
<1>1. /\ Len(window_list) \in Nat \ {0} /\ DOMAIN window_list = 1..Len(window_list)
      /\ n = window_list[Len(window_list)] /\ n \in ToSet(window_list)
  <2>1. window_list \in Seq(Node) /\ window_list # <<>> /\ n = window_list[Len(window_list)]
    BY DEF OpensLast, TypeOK
  <2>2. Len(window_list) \in Nat \ {0} /\ DOMAIN window_list = 1..Len(window_list)
    BY <2>1, EmptySeq, LenProperties
  <2>3. QED
    BY <2>1, <2>2 DEF ToSet
<1>2. n \notin Views /\ Views' = Views \cup {n}
  BY <1>1 DEF Views, TypeOK
<1>3. n \notin ToSet(root) /\ root \in Seq(Node)
  BY <1>2 DEF RootFollowsList, TypeOK
<1>4. /\ root' \in Seq(Node) /\ ToSet(root') = ToSet(root) \cup {n}
  BY <1>3, RootOnce, AppendSet
<1>5. /\ Len(root) \in Nat /\ DOMAIN root = 1..Len(root) /\ DOMAIN root' = 1..(Len(root) + 1)
      /\ \A i \in 1..Len(root) : root'[i] = root[i]
      /\ root'[Len(root) + 1] = n
  BY <1>3, <1>4, AppendProperties, LenProperties
<1>6. Follows(root', window_list)
  <2> SUFFICES ASSUME NEW i \in DOMAIN root', NEW j \in DOMAIN root',
                      NEW k \in DOMAIN window_list, NEW l \in DOMAIN window_list,
                      root'[i] = window_list[k], root'[j] = window_list[l]
               PROVE  i < j <=> k < l
    BY DEF Follows
  <2>1. \A i_1 \in DOMAIN root : root[i_1] # n
    BY <1>3 DEF ToSet
  <2>2. \A h \in DOMAIN window_list : window_list[h] = n => h = Len(window_list)
    BY <1>1 DEF ListOnce
  <2>3. CASE i \in DOMAIN root /\ j \in DOMAIN root
    BY <1>5, <2>3 DEF RootFollowsList, Follows
  <2>4. CASE i = Len(root) + 1 /\ j \in DOMAIN root
    BY <1>1, <1>5, <2>2, <2>4
  <2>5. CASE i \in DOMAIN root /\ j = Len(root) + 1
    <3>1. l = Len(window_list) /\ k # Len(window_list)
      BY <1>1, <1>5, <2>1, <2>2, <2>5
    <3>2. QED
      BY <1>1, <1>5, <2>5, <3>1
  <2>6. CASE i = Len(root) + 1 /\ j = Len(root) + 1
    BY <1>1, <1>5, <2>2, <2>6
  <2>7. QED
    BY <1>5, <2>3, <2>4, <2>5, <2>6
<1>7. RootFollowsList'
  BY <1>2, <1>4, <1>6 DEF RootFollowsList
<1>8. TypeOK'
  BY <1>2, <1>4 DEF TypeOK
<1>9. QED
  BY <1>7, <1>8 DEF ListOnce, ServerOwns, OpensLast

LEMMA EraseWindow ==
    ASSUME ListInv, erase
    PROVE  ListInv'
<1> USE DEF ListInv, erase, Valid
<1> PICK n : n = Head(queue).node
  OBVIOUS
<1>1. n \in ToSet(window_list) /\ n \in Node
  BY ToSetOf DEF TypeOK
<1>2. /\ window_list' = Without(window_list, n) /\ shown' = shown \ {n}
      /\ root' = Without(root, n) /\ holder' = [holder EXCEPT ![n] = "null"]
  BY DEF Destroyed
<1>3. /\ window_list' \in Seq(Node) /\ ListOnce' /\ ToSet(window_list') = ToSet(window_list) \ {n}
      /\ \E p \in DOMAIN window_list : window_list' = RemoveAt(window_list, p)
  BY <1>1, <1>2, WithoutList DEF TypeOK, ListOnce
<1>4. /\ root' \in Seq(Node) /\ ToSet(root') = ToSet(root) \ {n}
      /\ root' = root \/ \E p \in DOMAIN root : root' = RemoveAt(root, p)
  <2>1. CASE n \in ToSet(root)
    BY <1>2, <2>1, RootOnce, WithoutList DEF TypeOK
  <2>2. CASE n \notin ToSet(root)
    BY <1>2, <2>2 DEF Without, TypeOK
  <2>3. QED
    BY <2>1, <2>2
<1>5. Follows(root', window_list')
  <2>1. root \in Seq(Node) /\ window_list \in Seq(Node) /\ Follows(root, window_list)
    BY DEF TypeOK, RootFollowsList
  <2>2. Follows(root', window_list)
    BY <1>4, <2>1, FollowsRemoved
  <2>3. QED
    BY <1>3, <1>4, <2>1, <2>2, FollowsRemoved
<1>6. Views' = Views \ {n}
  BY <1>1, <1>2, <1>3 DEF Views, TypeOK
<1>7. RootFollowsList'
  BY <1>4, <1>5, <1>6 DEF RootFollowsList
<1>8. TypeOK'
  <2>1. queue' \in Seq(Erase)
    BY HeadTailProperties DEF TypeOK
  <2>2. QED
    BY <1>1, <1>2, <1>3, <1>4, <1>6, <2>1 DEF TypeOK
<1>9. ServerOwns' /\ OpensLast'
  <2>1. window_list # <<>>
    BY <1>1, ToSetOf DEF TypeOK
  <2>2. QED
    BY <2>1 DEF ServerOwns, OpensLast, none
<1>10. QED
  BY <1>3, <1>7, <1>8, <1>9

\* The server goes with its windows.
LEMMA LoadSheet ==
    ASSUME ListInv, load_sheet
    PROVE  ListInv'
<1> USE DEF ListInv, load_sheet
<1>1. window_list' = <<>> /\ root' = <<>> /\ ToSet(<<>>) = {} /\ <<>> \in Seq(Node)
  BY EmptySeq DEF ToSet
<1>2. Views' = {}
  BY <1>1 DEF Views
<1>3. TypeOK'
  BY <1>1, <1>2 DEF TypeOK
<1>4. QED
  BY <1>1, <1>2, <1>3
     DEF ListOnce, ServerOwns, OpensLast, RootFollowsList, Follows, Idle, none

LEMMA ListStep == ListInv /\ [Next]_vars => ListInv'
<1> SUFFICES ASSUME ListInv, [Next]_vars PROVE ListInv'
  OBVIOUS
<1> USE DEF ListInv
<1>1. CASE UNCHANGED vars
  BY <1>1 DEF vars, TypeOK, Views, ListOnce, ServerOwns, OpensLast, RootFollowsList
<1>2. ASSUME NEW n \in Node, display_window(n)
      PROVE  ListInv'
  <2>1. server' \in Server
    BY <1>2 DEF display_window, TypeOK
  <2>2. QED
    BY <1>2, <2>1, InsertNode DEF display_window, Idle
<1>3. ASSUME NEW w \in Node, NEW n \in Node, dialog(w, n)
      PROVE  ListInv'
  <2>1. w \in ToSet(window_list)
    BY <1>3 DEF dialog, TypeOK, Views
  <2>2. server' \in Server
    BY <1>3, <2>1, ToSetOf DEF dialog, TypeOK, ServerOwns
  <2>3. QED
    BY <1>3, <2>2, InsertNode DEF dialog, Idle
<1>4. ASSUME NEW n \in Node, show_window(n)
      PROVE  ListInv'
  <2>1. n \in Views /\ Views' = Views
    <3>1. /\ window_list # <<>> /\ n = window_list[Len(window_list)] /\ window_list \in Seq(Node)
      BY <1>4 DEF show_window, OpensLast, TypeOK
    <3>2. Len(window_list) \in DOMAIN window_list
      BY <3>1, EmptySeq, LenProperties
    <3>3. QED
      BY <1>4, <3>1, <3>2 DEF show_window, Views, ToSet
  <2>2. TypeOK'
    BY <1>4, <2>1 DEF show_window, TypeOK
  <2>3. QED
    BY <1>4, <2>1, <2>2 DEF show_window, ListOnce, ServerOwns, OpensLast, RootFollowsList, none
<1>5. ASSUME NEW n \in Node, push_back_throws(n)
      PROVE  ListInv'
  BY <1>5 DEF push_back_throws, TypeOK, Views, ListOnce, ServerOwns, OpensLast,
              RootFollowsList, none
<1>6. ASSUME NEW w \in Node, close_action(w)
      PROVE  ListInv'
  <2>1. server \in Server
    <3>1. w \in ToSet(window_list)
      BY <1>6 DEF close_action, TypeOK, Views
    <3>2. QED
      BY <3>1, ToSetOf DEF TypeOK, ServerOwns
  <2>2. queue' \in Seq(Erase)
    BY <1>6, <2>1, AppendProperties DEF close_action, TypeOK, Erase
  <2>3. QED
    BY <1>6, <2>2 DEF close_action, TypeOK, Views, ListOnce, ServerOwns, OpensLast,
                      RootFollowsList
<1>7. CASE drain
  BY <1>7 DEF drain, TypeOK, Views, ListOnce, ServerOwns, OpensLast, RootFollowsList
<1>8. CASE drained
  BY <1>8 DEF drained, TypeOK, Views, ListOnce, ServerOwns, OpensLast, RootFollowsList
<1>9. QED
  BY <1>1, <1>2, <1>3, <1>4, <1>5, <1>6, <1>7, <1>8, MakeView, EraseWindow, LoadSheet DEF Next

LEMMA OneEraseStep == ListInv /\ OneErase /\ [Next]_vars => OneErase'
<1> SUFFICES ASSUME ListInv, OneErase, [Next]_vars, DrainEach
             PROVE  ErasesLive' /\ Len(queue') \in {0, 1} /\ (queue' # <<>> => opening' = none)
  BY DEF OneErase
<1>1. /\ ErasesLive /\ queue \in Seq(Erase) /\ Len(queue) \in {0, 1}
      /\ queue # <<>> => opening = none
  BY DEF OneErase, ListInv, TypeOK
<1>2. CASE queue' = <<>>
  BY <1>2 DEF ErasesLive
<1>3. CASE UNCHANGED <<server, window_list, queue, opening>>
  BY <1>1, <1>3 DEF ErasesLive, Valid
<1>4. ASSUME NEW w \in Node, close_action(w)
      PROVE  ErasesLive' /\ Len(queue') \in {0, 1} /\ (queue' # <<>> => opening' = none)
  <2>1. queue = <<>> /\ queue' = <<[server |-> server, node |-> w]>> /\ opening' = none
    BY <1>4 DEF close_action, Idle
  <2>2. w \in ToSet(window_list)
    BY <1>4 DEF close_action, ListInv, TypeOK, Views
  <2>3. UNCHANGED <<server, window_list>>
    BY <1>4 DEF close_action
  <2>4. DOMAIN queue' = {1} /\ queue'[1] = [server |-> server, node |-> w] /\ Len(queue') = 1
    BY <2>1
  <2>5. Valid(queue[1])'
    BY <2>2, <2>3, <2>4 DEF Valid
  <2>6. QED
    BY <2>1, <2>4, <2>5 DEF ErasesLive
<1>5. CASE erase
  <2>1. queue' = Tail(queue) /\ queue # <<>>
    BY <1>5 DEF erase
  <2>2. queue' = <<>>
    BY <1>1, <2>1, HeadTailProperties, EmptySeq
  <2>3. QED
    BY <1>2, <2>2
<1>6. CASE UNCHANGED vars
  BY <1>3, <1>6 DEF vars
<1>7. CASE drain \/ drained
  BY <1>3, <1>7 DEF drain, drained
<1>8. CASE load_sheet
  BY <1>2, <1>8 DEF load_sheet, Idle
<1>9. ASSUME NEW n \in Node, display_window(n) \/ \E w \in Node : dialog(w, n)
      PROVE  queue' = <<>>
  BY <1>9 DEF display_window, dialog, Idle
<1>10. ASSUME NEW n \in Node, make_view(n) \/ show_window(n) \/ push_back_throws(n)
       PROVE  queue' = <<>>
  BY <1>1, <1>10 DEF make_view, show_window, push_back_throws, none
<1>11. QED
  BY <1>2, <1>4, <1>5, <1>6, <1>7, <1>8, <1>9, <1>10 DEF Next

\* The inductive invariant: one node for each window, each once, a new one last; and the
\* root behavior in step with the list.
THEOREM WindowsInvariance == Spec => [](ListInv /\ OneErase)
<1>1. Init => ListInv /\ OneErase
  <2> SUFFICES ASSUME Init PROVE ListInv /\ OneErase
    OBVIOUS
  <2> USE DEF Init
  <2>1. <<>> \in Seq(Node) /\ <<>> \in Seq(Erase) /\ ToSet(<<>>) = {} /\ Len(<<>>) = 0
    BY EmptySeq DEF ToSet
  <2>2. Views = {} /\ RootFollowsList
    BY <2>1 DEF Views, RootFollowsList, Follows
  <2>3. TypeOK
    BY <2>1, <2>2 DEF TypeOK
  <2>4. QED
    BY <2>1, <2>2, <2>3
       DEF ListInv, OneErase, ListOnce, ServerOwns, OpensLast, ErasesLive, none
<1>2. ListInv /\ OneErase /\ [Next]_vars => (ListInv /\ OneErase)'
  BY ListStep, OneEraseStep
<1>3. QED
  BY <1>1, <1>2, PTL DEF Spec

\* The root behavior runs the updates of exactly the windows that exist, in the order of
\* the list, whatever failed half-way and whatever was closed.
THEOREM RootAlwaysFollows == Spec => []RootFollowsList
<1>1. ListInv => RootFollowsList
  BY DEF ListInv
<1>2. QED
  BY <1>1, WindowsInvariance, PTL

\* Where the main loop runs the deferred procedures after each message, as on Windows,
\* every erase that waits finds its server and its node.
THEOREM ErasesStayLive == DrainEach => (Spec => []ErasesLive)
<1>1. SUFFICES ASSUME DrainEach
               PROVE  Spec => []ErasesLive
  OBVIOUS
<1>2. OneErase => ErasesLive
  BY <1>1 DEF OneErase
<1>3. QED
  BY <1>2, WindowsInvariance, PTL
===============================================================================
