----------------------------- MODULE RelayoutProofs -----------------------------
(***************************************************************************)
(* Proofs about how windows follow their sheet: for any windows, cells,    *)
(* panels and images, and any order of events.                             *)
(*                                                                         *)
(* The inductive invariant follows the control flow: it says how far a     *)
(* window can be behind its sheet at every point of an event.              *)
(***************************************************************************)
EXTENDS Relayout, SeqLemmas

------------------------------------------------------------------------------
(* How far a window can be behind *)

\* A queue holds panels of its own window only.
OwnQueues ==
    \A w \in Window, p \in Panel :
        Contains(hide_queue[w], p) \/ Contains(show_queue[w], p) => home[p] = w

\* A panel that was hidden and displayed again is queued for both.
HiddenComesBack ==
    \A p \in Panel : told[p] /\ Contains(hide_queue[home[p]], p)
                         => Contains(show_queue[home[p]], p)

\* The screen shows what was displayed, no panel waits.
Placed(w) ==
    \A p \in Panels(w) : /\ visible[p] = told[p]
                         /\ ~Contains(hide_queue[w], p) /\ ~Contains(show_queue[w], p)

\* And the layout was made for it.
Settled(w) == Placed(w) /\ \A v \in Views(w) : laid[v] = told[v]

\* A panel whose value has changed is in the queue of that change and has its cell's
\* value; an image that has changed forces the layout.
Behind(w) ==
    /\ \A p \in Panels(w) : /\ laid[p] = visible[p]
                            /\ Contains(hide_queue[w], p) <=> visible[p] /\ ~told[p]
                            /\ Contains(show_queue[w], p) <=> ~visible[p] /\ told[p]
                            /\ visible[p] # told[p] => told[p] = cell[bound[p]]
    /\ \A v \in Views(w) \ Panel : laid[v] # told[v] => force[w]

\* What had to go is hidden, and was placed in the last layout.
Hidden(w) ==
    \A p \in Panels(w) : /\ visible[p] => laid[p]
                         /\ visible[p] \/ Contains(show_queue[w], p) <=> told[p]

\* And the window is laid out for what is displayed.
Laid(w) == Hidden(w) /\ \A v \in Views(w) : laid[v] = told[v]

------------------------------------------------------------------------------
(* Where an event is *)

Unless(A) == bypassed \/ A

\* The sheet is being updated for a button, or for a setter, whose root behavior is next.
UpdatingAlone == todo = <<Update>> /\ bypassed /\ shown = Open
Updating == todo = <<Update, Layout>> /\ shown = Open /\ Unless(\A w \in Open : Behind(w))
LayingOut == todo = <<Layout>> /\ shown = Open /\ Stale = {} /\ Unless(\A w \in Open : Behind(w))

\* w is being opened; the other windows have settled.
Opening(w) ==
    /\ w \in Open \ shown /\ shown = Open \ {w} /\ Stale = {}
    /\ Unless(\A u \in shown : Settled(u))
OpeningUpdate(w) ==
    Opening(w) /\ Placed(w) /\ todo = <<Update, <<"evaluate", w>>, <<"show_window", w>>>>
OpeningEvaluate(w) ==
    Opening(w) /\ Placed(w) /\ todo = <<<<"evaluate", w>>, <<"show_window", w>>>>
OpeningShow(w) ==
    Opening(w) /\ Settled(w) /\ todo = <<<<"show_window", w>>>>

\* The root behavior has the verbs in rest left to call.
Verbs == Seq({"window"} \X Open)
Rest(rest) == rest \in Verbs /\ IsInjective(rest) /\ shown = Open /\ Stale = {}
Waits(rest, w) == <<"window", w>> \in ToSet(rest)
InTurn(rest, w) == IF Waits(rest, w) THEN Behind(w) ELSE Settled(w)
OthersInTurn(rest, w) ==
    w \in Open /\ ~Waits(rest, w) /\ Unless(\A u \in Open \ {w} : InTurn(rest, u))

Calling(rest) == Rest(rest) /\ todo = rest /\ Unless(\A w \in Open : InTurn(rest, w))
ToShow(rest, w) == Cons(<<"show", w>>, rest)
ToEvaluate(rest, w) == Cons(<<"evaluate", w>>, ToShow(rest, w))
ToHide(rest, w) == Cons(<<"hide", w>>, ToEvaluate(rest, w))
Hiding(rest, w) ==
    /\ Rest(rest) /\ OthersInTurn(rest, w)
    /\ todo = ToHide(rest, w) /\ Unless(Behind(w))
Evaluating(rest, w) ==
    /\ Rest(rest) /\ OthersInTurn(rest, w)
    /\ todo = ToEvaluate(rest, w) /\ hide_queue[w] = <<>> /\ Unless(Hidden(w))
Showing(rest, w) ==
    /\ Rest(rest) /\ OthersInTurn(rest, w)
    /\ todo = ToShow(rest, w) /\ hide_queue[w] = <<>> /\ Unless(Laid(w))

Phase ==
    \/ UpdatingAlone \/ Updating \/ LayingOut
    \/ \E w \in Window : OpeningUpdate(w) \/ OpeningEvaluate(w) \/ OpeningShow(w)
    \/ \E rest \in Verbs :
          \/ Calling(rest)
          \/ \E w \in Window : Hiding(rest, w) \/ Evaluating(rest, w) \/ Showing(rest, w)

Always == TypeOK /\ EveFollowsDisplay /\ ShowsNeverLost /\ OwnQueues /\ HiddenComesBack
RelayoutInv == Always /\ Phase

------------------------------------------------------------------------------
(* Facts about the queues *)

LEMMA ContainsFacts ==
    /\ \A p : ~Contains(<<>>, p)
    /\ \A S : \A s \in Seq(S), x \in S : \A p :
           Contains(Append(s, x), p) <=> Contains(s, p) \/ p = x
<1>1. \A p : ~Contains(<<>>, p)
  BY DEF Contains
<1>2. ASSUME NEW S, NEW s \in Seq(S), NEW x \in S, NEW p
      PROVE  Contains(Append(s, x), p) <=> Contains(s, p) \/ p = x
  <2>1. /\ Len(Append(s, x)) = Len(s) + 1 /\ Len(s) \in Nat
        /\ \A i \in 1..Len(s) : Append(s, x)[i] = s[i]
        /\ Append(s, x)[Len(s) + 1] = x
    BY AppendProperties, LenProperties
  <2>2. \A i \in 1..(Len(s) + 1) : i \in 1..Len(s) \/ i = Len(s) + 1
    BY <2>1
  <2>3. Len(s) + 1 \in 1..(Len(s) + 1) /\ 1..Len(s) \subseteq 1..(Len(s) + 1)
    BY <2>1
  <2>4. QED
    BY <2>1, <2>2, <2>3 DEF Contains
<1>3. QED
  BY <1>1, <1>2

\* The queues of a new window hold nothing but dummies.
LEMMA DummyQueue ==
    ASSUME NEW n \in Nat
    PROVE  LET q == [i \in 1..n |-> dummy_display]
           IN q \in Seq(Panel \cup {dummy_display}) /\ \A p \in Panel : ~Contains(q, p)
<1> DEFINE q == [i \in 1..n |-> dummy_display]
<1>1. q \in [1..n -> Panel \cup {dummy_display}]
  OBVIOUS
<1>2. q \in Seq(Panel \cup {dummy_display}) /\ Len(q) = n
  BY <1>1, IsASeq, LenProperties
<1>3. QED
  BY <1>2, WiringAssumption DEF Contains

------------------------------------------------------------------------------
(* What the first step of an event says of its phase *)

LEMMA Steps ==
    ASSUME TypeOK
    PROVE  /\ \A w \in Open : w \in Window
           /\ Verbs \subseteq Seq(Step)
           /\ <<>> \in Verbs
           /\ \A rest \in Verbs, w \in Window :
                 /\ ToShow(rest, w) \in Seq(Step) /\ ToEvaluate(rest, w) \in Seq(Step)
                 /\ ToHide(rest, w) \in Seq(Step)
                 /\ ToShow(rest, w) # <<>> /\ ToEvaluate(rest, w) # <<>> /\ ToHide(rest, w) # <<>>
                 /\ Head(ToShow(rest, w)) = <<"show", w>> /\ Tail(ToShow(rest, w)) = rest
                 /\ Head(ToEvaluate(rest, w)) = <<"evaluate", w>>
                 /\ Tail(ToEvaluate(rest, w)) = ToShow(rest, w)
                 /\ Head(ToHide(rest, w)) = <<"hide", w>>
                 /\ Tail(ToHide(rest, w)) = ToEvaluate(rest, w)
           /\ \A rest \in Verbs : rest # <<>> => \E w \in Open : Head(rest) = <<"window", w>>
<1>1. Open \subseteq Window
  BY ToSetOf DEF TypeOK, Open
<1>2. {"window"} \X Open \subseteq Step
  BY <1>1 DEF Step, Stage
<1>3. Verbs \subseteq Seq(Step)
  BY <1>2, SeqMonotonic DEF Verbs
<1>4. ASSUME NEW rest \in Verbs, NEW w \in Window
      PROVE  /\ ToShow(rest, w) \in Seq(Step) /\ ToEvaluate(rest, w) \in Seq(Step)
             /\ ToHide(rest, w) \in Seq(Step)
             /\ ToShow(rest, w) # <<>> /\ ToEvaluate(rest, w) # <<>> /\ ToHide(rest, w) # <<>>
             /\ Head(ToShow(rest, w)) = <<"show", w>> /\ Tail(ToShow(rest, w)) = rest
             /\ Head(ToEvaluate(rest, w)) = <<"evaluate", w>>
             /\ Tail(ToEvaluate(rest, w)) = ToShow(rest, w)
             /\ Head(ToHide(rest, w)) = <<"hide", w>>
             /\ Tail(ToHide(rest, w)) = ToEvaluate(rest, w)
  <2>1. <<"show", w>> \in Step /\ <<"evaluate", w>> \in Step /\ <<"hide", w>> \in Step
    BY DEF Step, Stage
  <2>2. rest \in Seq(Step)
    BY <1>3
  <2>3. /\ ToShow(rest, w) \in Seq(Step) /\ ToShow(rest, w) # <<>>
        /\ Head(ToShow(rest, w)) = <<"show", w>> /\ Tail(ToShow(rest, w)) = rest
    BY <2>1, <2>2, ConsSeq DEF ToShow
  <2>4. /\ ToEvaluate(rest, w) \in Seq(Step) /\ ToEvaluate(rest, w) # <<>>
        /\ Head(ToEvaluate(rest, w)) = <<"evaluate", w>>
        /\ Tail(ToEvaluate(rest, w)) = ToShow(rest, w)
    BY <2>1, <2>3, ConsSeq DEF ToEvaluate
  <2>5. /\ ToHide(rest, w) \in Seq(Step) /\ ToHide(rest, w) # <<>>
        /\ Head(ToHide(rest, w)) = <<"hide", w>> /\ Tail(ToHide(rest, w)) = ToEvaluate(rest, w)
    BY <2>1, <2>4, ConsSeq DEF ToHide
  <2>6. QED
    BY <2>3, <2>4, <2>5
<1>5. ASSUME NEW rest \in Verbs, rest # <<>>
      PROVE  \E w \in Open : Head(rest) = <<"window", w>>
  <2>1. Head(rest) \in {"window"} \X Open
    BY <1>5, HeadTailProperties DEF Verbs
  <2>2. QED
    BY <2>1
<1>6. <<>> \in Verbs
  BY EmptySeq DEF Verbs
<1>7. QED
  BY <1>1, <1>3, <1>4, <1>5, <1>6

\* A <<"show", w>> etc. tells the phase; nothing left to do means at rest.
LEMMA PhaseOfStep ==
    ASSUME TypeOK, Phase
    PROVE  /\ todo = <<>> => Calling(<<>>)
           /\ todo # <<>> /\ Head(todo) = Update =>
                 UpdatingAlone \/ Updating \/ \E w \in Window : OpeningUpdate(w)
           /\ todo # <<>> /\ Head(todo) = Layout => LayingOut
           /\ \A w \in Window :
                 /\ Now("window", w) => Calling(todo)
                 /\ Now("hide", w) => \E rest \in Verbs : Hiding(rest, w)
                 /\ Now("evaluate", w) =>
                       OpeningEvaluate(w) \/ \E rest \in Verbs : Evaluating(rest, w)
                 /\ Now("show", w) => \E rest \in Verbs : Showing(rest, w)
                 /\ Now("show_window", w) => OpeningShow(w)
<1> USE DEF Now, Update, Layout
<1>1. CASE UpdatingAlone \/ Updating
  <2>1. UpdatingAlone => todo # <<>> /\ Head(todo) = Update
    BY DEF UpdatingAlone
  <2>2. Updating => todo # <<>> /\ Head(todo) = Update
    BY DEF Updating
  <2>3. QED
    BY <2>1, <2>2, <1>1
<1>2. CASE LayingOut
  <2>1. todo # <<>> /\ Head(todo) = Layout
    BY <1>2 DEF LayingOut
  <2>2. QED
    BY <2>1, <1>2
<1>3. ASSUME NEW u \in Window, OpeningUpdate(u)
      PROVE  todo # <<>> /\ Head(todo) = Update
  BY <1>3 DEF OpeningUpdate
<1>4. ASSUME NEW u \in Window, OpeningEvaluate(u)
      PROVE  todo # <<>> /\ Head(todo) = <<"evaluate", u>>
  BY <1>4 DEF OpeningEvaluate
<1>5. ASSUME NEW u \in Window, OpeningShow(u)
      PROVE  todo # <<>> /\ Head(todo) = <<"show_window", u>>
  BY <1>5 DEF OpeningShow
<1>6. ASSUME NEW rest \in Verbs, Calling(rest)
      PROVE  /\ todo = rest
             /\ todo # <<>> => \E u \in Window : Head(todo) = <<"window", u>>
  BY <1>6, Steps DEF Calling
<1>7. ASSUME NEW rest \in Verbs, NEW u \in Window, Hiding(rest, u)
      PROVE  todo # <<>> /\ Head(todo) = <<"hide", u>>
  BY <1>7, Steps DEF Hiding
<1>8. ASSUME NEW rest \in Verbs, NEW u \in Window, Evaluating(rest, u)
      PROVE  todo # <<>> /\ Head(todo) = <<"evaluate", u>>
  BY <1>8, Steps DEF Evaluating
<1>9. ASSUME NEW rest \in Verbs, NEW u \in Window, Showing(rest, u)
      PROVE  todo # <<>> /\ Head(todo) = <<"show", u>>
  BY <1>9, Steps DEF Showing
<1>10. CASE \E u \in Window : OpeningUpdate(u)
  BY <1>10, <1>3
<1>11. CASE \E u \in Window : OpeningEvaluate(u)
  BY <1>11, <1>4
<1>12. CASE \E u \in Window : OpeningShow(u)
  BY <1>12, <1>5
<1>13. CASE \E rest \in Verbs : Calling(rest)
  BY <1>13, <1>6
<1>14. CASE \E rest \in Verbs, u \in Window : Hiding(rest, u)
  BY <1>14, <1>7
<1>15. CASE \E rest \in Verbs, u \in Window : Evaluating(rest, u)
  BY <1>15, <1>8
<1>16. CASE \E rest \in Verbs, u \in Window : Showing(rest, u)
  BY <1>16, <1>9
<1>17. QED
  BY <1>1, <1>2, <1>10, <1>11, <1>12, <1>13, <1>14, <1>15, <1>16 DEF Phase

------------------------------------------------------------------------------
(* The events *)

LEMMA InitRelayout == Init => RelayoutInv
<1> SUFFICES ASSUME Init PROVE RelayoutInv
  OBVIOUS
<1> USE WiringAssumption DEF Init
<1>1. Open = {}
  BY DEF Open, ToSet
<1>2. <<>> \in Seq(Window) /\ <<>> \in Seq(Panel \cup {dummy_display}) /\ <<>> \in Seq(Step)
  BY EmptySeq
<1>3. IsInjective(windows)
  BY DEF IsInjective
<1>4. TypeOK
  <2>1. told \in [View -> BOOLEAN] /\ laid \in [View -> BOOLEAN]
    OBVIOUS
  <2>2. visible \in [Panel -> BOOLEAN] /\ eve_visible \in [Panel -> BOOLEAN]
    OBVIOUS
  <2>3. inited = [p \in Panel |-> home[p] \in Open]
    <3>1. \A p \in Panel : FALSE = (home[p] \in Open)
      BY <1>1
    <3>2. QED
      BY <3>1
  <2>4. contributing \in [Window -> [Cell -> BOOLEAN]] /\ force \in [Window -> BOOLEAN]
    OBVIOUS
  <2>5. /\ hide_queue \in [Window -> Seq(Panel \cup {dummy_display})]
        /\ show_queue \in [Window -> Seq(Panel \cup {dummy_display})]
    BY <1>2
  <2>6. /\ cell \in [Cell -> BOOLEAN] /\ windows \in Seq(Window) /\ shown \subseteq Open
        /\ todo \in Seq(Step) /\ bypassed \in BOOLEAN
    BY <1>2
  <2>7. QED
    BY <2>1, <2>2, <2>3, <2>4, <2>5, <2>6, <1>3 DEF TypeOK
<1>5. EveFollowsDisplay /\ ShowsNeverLost
  BY <1>1 DEF EveFollowsDisplay, ShowsNeverLost
<1>6. OwnQueues /\ HiddenComesBack
  BY ContainsFacts DEF OwnQueues, HiddenComesBack, View
<1>7. Calling(<<>>)
  <2>1. IsInjective(<<>>) /\ Stale = {}
    BY <1>1 DEF IsInjective, Stale
  <2>2. QED
    BY <1>1, <1>4, <2>1, Steps DEF Calling, Rest, Unless
<1>8. QED
  BY <1>4, <1>5, <1>6, <1>7, Steps DEF RelayoutInv, Always, Phase

\* Between events every window has settled, unless one has bypassed the root behavior:
\* a change of cells leaves it behind by nothing yet.
LEMMA SettledIsBehind ==
    ASSUME NEW w \in Window, Settled(w), TypeOK
    PROVE  Behind(w)
BY DEF Settled, Placed, Behind, Panels, Views, View, TypeOK

LEMMA SetterKeeps ==
    ASSUME RelayoutInv, NEW f \in [Cell -> BOOLEAN], todo = <<>>, cell' = f,
           \/ todo' = <<Update, Layout>> /\ bypassed' = bypassed
           \/ todo' = <<Update>> /\ bypassed' = TRUE,
           UNCHANGED <<contributing, queue_vars, panel_vars, window_vars, laid>>
    PROVE  RelayoutInv'
<1> USE DEF RelayoutInv, Always, queue_vars, panel_vars, window_vars
<1>1. TypeOK'
  <2>1. <<Update, Layout>> \in Seq(Step) /\ <<Update>> \in Seq(Step)
    BY DEF Step, Update, Layout
  <2>2. QED
    BY <2>1 DEF TypeOK, Open
<1>2. /\ EveFollowsDisplay' /\ ShowsNeverLost' /\ OwnQueues' /\ HiddenComesBack'
      /\ Open' = Open
  BY DEF EveFollowsDisplay, ShowsNeverLost, OwnQueues, HiddenComesBack, Open
<1>3. shown = Open /\ Unless(\A w \in Open : Settled(w))
  <2>1. Calling(<<>>)
    BY PhaseOfStep DEF Phase
  <2>2. \A w : ~Waits(<<>>, w)
    BY DEF Waits, ToSet
  <2>3. QED
    BY <2>1, <2>2 DEF Calling, Rest, InTurn, Unless
<1>4. ASSUME NEW w \in Open, Settled(w)
      PROVE  Behind(w)'
  <2>1. w \in Window /\ w \in Open'
    BY Steps, <1>2
  <2>2. Settled(w)'
    BY <1>4 DEF Settled, Placed, Panels, Views
  <2>3. QED
    BY <1>1, <2>1, <2>2, SettledIsBehind DEF Settled, Placed, Behind, Panels, Views, View, TypeOK
<1>5. Phase'
  BY <1>2, <1>3, <1>4 DEF Phase, Updating, UpdatingAlone, Unless, Update, Layout
<1>6. QED
  BY <1>1, <1>2, <1>5

\* Between events every window has settled, unless an event has bypassed the root
\* behavior, and every value displayed is the sheet's.
LEMMA AtRest ==
    ASSUME RelayoutInv, todo = <<>>
    PROVE  /\ shown = Open /\ Stale = {} /\ Open \subseteq Window
           /\ Unless(\A w \in Open : Settled(w))
<1>1. Calling(<<>>)
  BY PhaseOfStep DEF RelayoutInv, Always
<1>2. \A w : ~Waits(<<>>, w)
  BY DEF Waits, ToSet
<1>3. QED
  BY <1>1, <1>2, Steps DEF Calling, Rest, InTurn, Unless, RelayoutInv, Always

\* Nothing is left to call after the step: at rest.
LEMMA NoVerbs ==
    ASSUME shown' = Open', Stale' = {}, todo' = <<>>,
           bypassed' \/ \A w \in Open' : Settled(w)'
    PROVE  Phase'
<1>1. <<>> \in Verbs'
  BY EmptySeq DEF Verbs
<1>2. IsInjective(<<>>) /\ \A u : ~Waits(<<>>, u)
  BY DEF IsInjective, Waits, ToSet
<1>3. Calling(<<>>)'
  BY <1>1, <1>2 DEF Calling, Rest, Unless, InTurn
<1>4. QED
  BY <1>1, <1>3 DEF Phase

LEMMA MakeViewKeeps ==
    ASSUME RelayoutInv, NEW w \in Window, make_view(w)
    PROVE  RelayoutInv'
<1> USE WiringAssumption DEF RelayoutInv, Always, make_view
<1>1. /\ shown = Open /\ Stale = {} /\ Open \subseteq Window
      /\ Unless(\A u \in Open : Settled(u))
  BY AtRest
<1>2. /\ windows' \in Seq(Window) /\ IsInjective(windows') /\ Open' = Open \cup {w}
  <2>1. /\ windows \in Seq(Window) /\ w \notin ToSet(windows)
        /\ \A i, j \in DOMAIN windows : windows[i] = windows[j] => i = j
    BY DEF TypeOK, Open, IsInjective
  <2>2. /\ windows' \in Seq(Window) /\ ToSet(windows') = ToSet(windows) \cup {w}
        /\ \A i, j \in DOMAIN windows' : windows'[i] = windows'[j] => i = j
    BY <2>1, AppendSet
  <2>3. QED
    BY <2>2 DEF IsInjective, Open
<1>3. \A v \in View : cell[bound[v]] \in BOOLEAN /\ told[v] \in BOOLEAN
  BY DEF TypeOK
<1> DEFINE Dummy(q) == /\ q \in Seq(Panel \cup {dummy_display})
                       /\ \A p \in Panel : ~Contains(q, p)
<1>4. \A value \in BOOLEAN :
          Dummy([i \in 1..Cardinality({p \in Panels(w) : cell[bound[p]] = value}) |-> dummy_display])
  <2> TAKE value \in BOOLEAN
  <2>1. Cardinality({p \in Panels(w) : cell[bound[p]] = value}) \in Nat
    BY FS_Subset, FS_CardinalityType DEF Panels
  <2>2. QED
    BY <2>1, DummyQueue
<1>5. PICK shows, hides :
          /\ Dummy(shows) /\ Dummy(hides)
          /\ show_queue' = [show_queue EXCEPT ![w] = shows]
          /\ hide_queue' = [hide_queue EXCEPT ![w] = hides]
  BY <1>4
<1> HIDE DEF Dummy
<1>6. \A p \in Panel :
         /\ visible'[p] = IF home[p] = w THEN cell[bound[p]] ELSE visible[p]
         /\ eve_visible'[p] = IF home[p] = w THEN cell[bound[p]] ELSE eve_visible[p]
         /\ told'[p] = IF home[p] = w THEN cell[bound[p]] ELSE told[p]
  BY DEF View
<1>7. \A v \in View : told'[v] = IF home[v] = w THEN cell[bound[v]] ELSE told[v]
  OBVIOUS
<1>8. /\ show_queue'[w] = shows /\ hide_queue'[w] = hides
      /\ \A u \in Window \ {w} : show_queue'[u] = show_queue[u] /\ hide_queue'[u] = hide_queue[u]
  BY <1>5 DEF TypeOK
<1>9. TypeOK'
  <2>1. told' \in [View -> BOOLEAN]
    BY <1>3
  <2>2. visible' \in [Panel -> BOOLEAN] /\ eve_visible' \in [Panel -> BOOLEAN]
    BY <1>3 DEF TypeOK, View
  <2>3. inited' = [p \in Panel |-> home[p] \in Open']
    <3>1. ASSUME NEW p \in Panel
          PROVE  (home[p] = w \/ inited[p]) = (home[p] \in Open')
      <4>1. inited[p] <=> home[p] \in Open
        BY DEF TypeOK
      <4>2. (home[p] \in Open') <=> (home[p] = w \/ inited[p])
        BY <1>2, <4>1
      <4>3. QED
        BY ONLY <4>2
    <3>2. QED
      BY <3>1
  <2>4. contributing' \in [Window -> [Cell -> BOOLEAN]]
    BY DEF TypeOK
  <2>5. force' \in [Window -> BOOLEAN]
    <3>1. (\E v \in Image : home[v] = w) \in BOOLEAN
      OBVIOUS
    <3>2. QED
      BY <3>1 DEF TypeOK
  <2>6. /\ hide_queue' \in [Window -> Seq(Panel \cup {dummy_display})]
        /\ show_queue' \in [Window -> Seq(Panel \cup {dummy_display})]
    <3>1. /\ shows \in Seq(Panel \cup {dummy_display})
          /\ hides \in Seq(Panel \cup {dummy_display})
      BY <1>5 DEF Dummy
    <3>2. QED
      BY ONLY <3>1, <1>5, TypeOK DEF TypeOK
  <2>7. todo' \in Seq(Step)
    BY DEF Step, Stage, Update
  <2>8. /\ cell' \in [Cell -> BOOLEAN] /\ laid' \in [View -> BOOLEAN] /\ shown' \subseteq Open'
        /\ bypassed' \in BOOLEAN
    BY <1>2 DEF TypeOK
  <2>9. QED
    BY ONLY <1>2, <2>1, <2>2, <2>3, <2>4, <2>5, <2>6, <2>7, <2>8 DEF TypeOK
<1>10. EveFollowsDisplay'
  BY <1>2, <1>6 DEF EveFollowsDisplay
<1>11. ShowsNeverLost'
  BY <1>2, <1>6, <1>8 DEF ShowsNeverLost, View
<1>12. OwnQueues' /\ HiddenComesBack'
  BY <1>5, <1>6, <1>8 DEF OwnQueues, HiddenComesBack, Dummy, View
<1>13. Stale' = {}
  BY <1>1, <1>2, <1>7 DEF Stale
<1>14. Placed(w)'
  BY <1>5, <1>6, <1>8 DEF Placed, Panels, Dummy
<1>15. ASSUME NEW u \in Open, Settled(u)
       PROVE  Settled(u)'
  <2>1. u \in Window \ {w}
    BY <1>1 DEF Open
  <2>2. QED
    BY <2>1, <1>15, <1>6, <1>7, <1>8 DEF Settled, Placed, Panels, Views
<1>16. OpeningUpdate(w)'
  BY <1>1, <1>2, <1>13, <1>14, <1>15 DEF OpeningUpdate, Opening, Unless, Open
<1>17. QED
  BY <1>9, <1>10, <1>11, <1>12, <1>16 DEF Phase

LEMMA CloseKeeps ==
    ASSUME RelayoutInv, NEW w \in Window, close(w)
    PROVE  RelayoutInv'
<1> USE WiringAssumption DEF RelayoutInv, Always, close
<1>1. /\ shown = Open /\ Stale = {} /\ Open \subseteq Window
      /\ Unless(\A u \in Open : Settled(u))
  BY AtRest
<1>2. /\ windows' \in Seq(Window) /\ IsInjective(windows') /\ Open' = Open \ {w}
  <2>1. /\ windows \in Seq(Window)
        /\ \A i, j \in DOMAIN windows : windows[i] = windows[j] => i = j
    BY DEF TypeOK, IsInjective
  <2>2. PICK i \in DOMAIN windows : windows[i] = w /\ windows' = RemoveAt(windows, i)
    OBVIOUS
  <2>3. /\ windows' \in Seq(Window) /\ ToSet(windows') = ToSet(windows) \ {w}
        /\ \A k, j \in DOMAIN windows' : windows'[k] = windows'[j] => k = j
    BY <2>1, <2>2, RemoveAtSet
  <2>4. QED
    BY <2>3 DEF IsInjective, Open
<1>3. \A p \in Panel :
         /\ visible'[p] = (home[p] # w /\ visible[p])
         /\ eve_visible'[p] = (home[p] # w /\ eve_visible[p])
         /\ told'[p] = (home[p] # w /\ told[p])
  BY DEF View
<1>4. \A v \in View : /\ told'[v] = (home[v] # w /\ told[v])
                      /\ laid'[v] = (home[v] # w /\ laid[v])
  OBVIOUS
<1>5. /\ show_queue'[w] = <<>> /\ hide_queue'[w] = <<>>
      /\ \A u \in Window \ {w} : show_queue'[u] = show_queue[u] /\ hide_queue'[u] = hide_queue[u]
  BY DEF TypeOK
<1>6. TypeOK'
  <2>1. told' \in [View -> BOOLEAN] /\ laid' \in [View -> BOOLEAN]
    OBVIOUS
  <2>2. visible' \in [Panel -> BOOLEAN] /\ eve_visible' \in [Panel -> BOOLEAN]
    OBVIOUS
  <2>3. inited' = [p \in Panel |-> home[p] \in Open']
    <3>1. ASSUME NEW p \in Panel
          PROVE  (home[p] # w /\ inited[p]) = (home[p] \in Open')
      <4>1. inited[p] <=> home[p] \in Open
        BY DEF TypeOK
      <4>2. (home[p] \in Open') <=> (home[p] # w /\ inited[p])
        BY <1>2, <4>1
      <4>3. QED
        BY ONLY <4>2
    <3>2. QED
      BY <3>1
  <2>4. force' \in [Window -> BOOLEAN]
    BY DEF TypeOK
  <2>5. /\ hide_queue' \in [Window -> Seq(Panel \cup {dummy_display})]
        /\ show_queue' \in [Window -> Seq(Panel \cup {dummy_display})]
    BY EmptySeq DEF TypeOK
  <2>6. /\ cell' \in [Cell -> BOOLEAN] /\ contributing' \in [Window -> [Cell -> BOOLEAN]]
        /\ shown' \subseteq Open' /\ todo' \in Seq(Step) /\ bypassed' \in BOOLEAN
    BY <1>1, <1>2 DEF TypeOK, sheet_vars
  <2>7. QED
    BY ONLY <1>2, <2>1, <2>2, <2>3, <2>4, <2>5, <2>6 DEF TypeOK
<1>7. EveFollowsDisplay' /\ ShowsNeverLost'
  <2>1. EveFollowsDisplay'
    BY <1>2, <1>3 DEF EveFollowsDisplay
  <2>2. ShowsNeverLost'
    <3> SUFFICES ASSUME NEW p \in Panel, home[p] \in Open', told'[p]
                 PROVE  visible'[p] \/ Contains(show_queue'[home[p]], p)
      BY DEF ShowsNeverLost
    <3>1. home[p] \in Window \ {w} /\ home[p] \in Open /\ told[p]
      BY <1>1, <1>2, <1>3
    <3>2. visible[p] \/ Contains(show_queue[home[p]], p)
      BY <3>1 DEF ShowsNeverLost
    <3>3. QED
      BY <3>1, <3>2, <1>3, <1>5
  <2>3. QED
    BY <2>1, <2>2
<1>8. OwnQueues' /\ HiddenComesBack'
  <2>1. OwnQueues'
    BY <1>5, ContainsFacts DEF OwnQueues
  <2>2. HiddenComesBack'
    <3> SUFFICES ASSUME NEW p \in Panel, told'[p], Contains(hide_queue'[home[p]], p)
                 PROVE  Contains(show_queue'[home[p]], p)
      BY DEF HiddenComesBack
    <3>1. home[p] \in Window \ {w} /\ told[p]
      BY <1>3 DEF View
    <3>2. QED
      BY <3>1, <1>5 DEF HiddenComesBack
  <2>3. QED
    BY <2>1, <2>2
<1>9. Stale' = {}
  BY <1>1, <1>2, <1>4 DEF Stale, TypeOK, sheet_vars
<1>10. ASSUME NEW u \in Open', Settled(u)
       PROVE  Settled(u)'
  <2>1. u \in Window \ {w}
    BY <1>1, <1>2
  <2>2. QED
    BY <2>1, <1>10, <1>3, <1>4, <1>5 DEF Settled, Placed, Panels, Views, TypeOK, View
<1>11. Phase'
  BY <1>1, <1>2, <1>9, <1>10, NoVerbs DEF Unless
<1>12. QED
  BY <1>6, <1>7, <1>8, <1>11

------------------------------------------------------------------------------
(* Updating the sheet *)

\* A panel is displayed again: one of its window's queues grows by it.
LEMMA DisplayQueues ==
    ASSUME TypeOK, NEW v \in Panel, NEW value \in BOOLEAN, display(v, value)
    PROVE  /\ hide_queue' \in [Window -> Seq(Panel \cup {dummy_display})]
           /\ show_queue' \in [Window -> Seq(Panel \cup {dummy_display})]
           /\ eve_visible' = [eve_visible EXCEPT ![v] = value]
           /\ \A w \in Window, p \in Panel :
                 /\ Contains(hide_queue'[w], p) <=>
                       Contains(hide_queue[w], p) \/ (w = home[v] /\ p = v /\ ~value)
                 /\ Contains(show_queue'[w], p) <=>
                       Contains(show_queue[w], p) \/ (w = home[v] /\ p = v /\ value)
           /\ UNCHANGED <<inited, visible, force>>
<1>1. home[v] \in Window
  BY WiringAssumption DEF View
<1>2. \A w \in Window : /\ hide_queue[w] \in Seq(Panel \cup {dummy_display})
                        /\ show_queue[w] \in Seq(Panel \cup {dummy_display})
  BY DEF TypeOK
<1>3. /\ Append(hide_queue[home[v]], v) \in Seq(Panel \cup {dummy_display})
      /\ Append(show_queue[home[v]], v) \in Seq(Panel \cup {dummy_display})
      /\ \A p : Contains(Append(hide_queue[home[v]], v), p) <=>
                    Contains(hide_queue[home[v]], p) \/ p = v
      /\ \A p : Contains(Append(show_queue[home[v]], v), p) <=>
                    Contains(show_queue[home[v]], p) \/ p = v
  BY <1>1, <1>2, ContainsFacts, AppendProperties
<1>4. CASE value = TRUE
  <2>1. /\ show_queue' = [show_queue EXCEPT ![home[v]] = Append(show_queue[home[v]], v)]
        /\ eve_visible' = [eve_visible EXCEPT ![v] = TRUE]
        /\ hide_queue' = hide_queue /\ UNCHANGED <<inited, visible, force>>
    BY <1>4 DEF display, optional_display_show
  <2>2. QED
    BY <2>1, <1>1, <1>3, <1>4 DEF TypeOK
<1>5. CASE value = FALSE
  <2>1. /\ hide_queue' = [hide_queue EXCEPT ![home[v]] = Append(hide_queue[home[v]], v)]
        /\ eve_visible' = [eve_visible EXCEPT ![v] = FALSE]
        /\ show_queue' = show_queue /\ UNCHANGED <<inited, visible, force>>
    BY <1>5 DEF display, optional_display_hide
  <2>2. QED
    BY <2>1, <1>1, <1>3, <1>5 DEF TypeOK
<1>6. QED
  BY <1>4, <1>5

\* One monitor is called.  When its view is behind by this change, nothing of it was
\* queued in this event before.
LEMMA NotifyKeeps ==
    ASSUME RelayoutInv, NEW v \in View, notify(v)
    PROVE  RelayoutInv'
<1> USE WiringAssumption DEF RelayoutInv, Always
<1> DEFINE value == cell[bound[v]]
<1>1. /\ todo # <<>> /\ Head(todo) = Update /\ v \in Stale
      /\ told' = [told EXCEPT ![v] = value]
      /\ UNCHANGED <<sheet_vars, window_vars, laid, todo, bypassed>>
  BY DEF notify
<1>2. /\ value \in BOOLEAN /\ told[v] \in BOOLEAN /\ home[v] \in Open /\ home[v] \in Window
      /\ told[v] # value
  BY <1>1 DEF TypeOK, Stale
<1>3. UpdatingAlone \/ Updating
  <2>1. \A w \in Window : ~OpeningUpdate(w)
    BY <1>1 DEF OpeningUpdate, Opening
  <2>2. QED
    BY <1>1, <2>1, PhaseOfStep
<1> DEFINE Queued(p, q) == v \in Panel /\ p = v /\ value = q
<1>4. /\ hide_queue' \in [Window -> Seq(Panel \cup {dummy_display})]
      /\ show_queue' \in [Window -> Seq(Panel \cup {dummy_display})]
      /\ eve_visible' = IF v \in Panel THEN [eve_visible EXCEPT ![v] = value] ELSE eve_visible
      /\ \A w \in Window, p \in Panel :
            /\ Contains(hide_queue'[w], p) <=>
                  Contains(hide_queue[w], p) \/ (w = home[v] /\ p = v /\ ~value)
            /\ Contains(show_queue'[w], p) <=>
                  Contains(show_queue[w], p) \/ (w = home[v] /\ p = v /\ value)
      /\ inited' = inited /\ visible' = visible
      /\ force' = IF v \in Panel THEN force ELSE [force EXCEPT ![home[v]] = TRUE]
  <2>1. CASE v \in Panel
    <3>1. display(v, value)
      BY <2>1 DEF notify
    <3>2. QED
      BY <1>2, <2>1, <3>1, DisplayQueues
  <2>2. CASE v \notin Panel
    BY <2>2 DEF notify, forced_display, TypeOK
  <2>3. QED
    BY <2>1, <2>2
<1>5. Open' = Open
  BY <1>1 DEF window_vars, Open
<1>6. TypeOK'
  <2>1. told' \in [View -> BOOLEAN]
    BY <1>1, <1>2 DEF TypeOK
  <2>2. eve_visible' \in [Panel -> BOOLEAN] /\ force' \in [Window -> BOOLEAN]
    BY <1>2, <1>4 DEF TypeOK
  <2>3. QED
    BY <1>1, <1>4, <1>5, <2>1, <2>2 DEF TypeOK, sheet_vars, window_vars
<1>7. EveFollowsDisplay'
  <2> SUFFICES ASSUME NEW p \in Panel, home[p] \in Open PROVE eve_visible'[p] = told'[p]
    BY <1>5 DEF EveFollowsDisplay
  <2>1. CASE p = v
    BY <2>1, <1>1, <1>4 DEF TypeOK, View
  <2>2. CASE p # v
    BY <2>2, <1>1, <1>4 DEF TypeOK, View, EveFollowsDisplay
  <2>3. QED
    BY <2>1, <2>2
<1>8. \A p \in View : told'[p] = IF p = v THEN value ELSE told[p]
  BY <1>1 DEF TypeOK
<1>9. ShowsNeverLost'
  BY <1>4, <1>5, <1>8 DEF ShowsNeverLost, View
<1>10. OwnQueues' /\ HiddenComesBack'
  BY <1>2, <1>4, <1>8 DEF OwnQueues, HiddenComesBack, View
<1>11. ASSUME NEW w \in Open, Behind(w)
       PROVE  Behind(w)'
  <2>1. w \in Window /\ cell' = cell /\ laid' = laid /\ visible' = visible
    BY <1>1, <1>4, Steps DEF sheet_vars
  <2>2. ASSUME NEW p \in Panels(w)
        PROVE  /\ laid'[p] = visible'[p]
               /\ Contains(hide_queue'[w], p) <=> visible'[p] /\ ~told'[p]
               /\ Contains(show_queue'[w], p) <=> ~visible'[p] /\ told'[p]
               /\ visible'[p] # told'[p] => told'[p] = cell'[bound[p]]
    <3>1. p \in Panel /\ p \in View /\ home[p] = w
      BY <2>2 DEF Panels, View
    <3>2. /\ laid[p] = visible[p]
          /\ Contains(hide_queue[w], p) <=> visible[p] /\ ~told[p]
          /\ Contains(show_queue[w], p) <=> ~visible[p] /\ told[p]
          /\ visible[p] # told[p] => told[p] = cell[bound[p]]
      BY <1>11, <2>2 DEF Behind
    <3>3. CASE p = v
      <4>1. visible[v] = told[v] /\ told'[v] = value /\ visible[v] \in BOOLEAN
        BY <1>2, <1>8, <3>1, <3>2, <3>3 DEF TypeOK
      <4>2. ~Contains(hide_queue[w], v) /\ ~Contains(show_queue[w], v)
        BY <3>2, <3>3, <4>1
      <4>3. QED
        BY <1>2, <1>4, <2>1, <3>1, <3>2, <3>3, <4>1, <4>2
    <3>4. CASE p # v
      BY <1>4, <1>8, <2>1, <3>1, <3>2, <3>4
    <3>5. QED
      BY <3>3, <3>4
  <2>3. ASSUME NEW i \in Views(w) \ Panel, laid'[i] # told'[i]
        PROVE  force'[w]
    <3>1. i \in View /\ home[i] = w
      BY <2>3 DEF Views
    <3>2. CASE i = v
      BY <1>4, <2>1, <2>3, <3>1, <3>2 DEF TypeOK
    <3>3. CASE i # v
      <4>1. force[w]
        BY <1>8, <1>11, <2>1, <2>3, <3>1, <3>3 DEF Behind
      <4>2. QED
        BY <1>2, <1>4, <2>1, <4>1 DEF TypeOK
    <3>4. QED
      BY <3>2, <3>3
  <2>4. QED
    BY <2>2, <2>3 DEF Behind, Panels, Views
<1>12. Phase'
  BY <1>1, <1>3, <1>5, <1>11 DEF Phase, Updating, UpdatingAlone, Unless, window_vars
<1>13. QED
  BY <1>6, <1>7, <1>9, <1>10, <1>12

\* What does not change but todo: the rest of the invariant stays.
LEMMA DoneKeeps ==
    ASSUME RelayoutInv, todo' \in Seq(Step),
           UNCHANGED <<sheet_vars, queue_vars, panel_vars, window_vars, laid>>,
           bypassed' \in BOOLEAN
    PROVE  /\ Always' /\ Open' = Open /\ Stale' = Stale /\ shown' = shown /\ Verbs' = Verbs
           /\ \A w : /\ Settled(w)' = Settled(w) /\ Behind(w)' = Behind(w)
                     /\ Placed(w)' = Placed(w) /\ Hidden(w)' = Hidden(w) /\ Laid(w)' = Laid(w)
<1> USE DEF RelayoutInv, Always, sheet_vars, queue_vars, panel_vars, window_vars
<1>1. Open' = Open /\ Stale' = Stale /\ shown' = shown /\ Verbs' = Verbs
  BY DEF Open, Stale, Verbs
<1>2. Always'
  BY <1>1 DEF TypeOK, EveFollowsDisplay, ShowsNeverLost, OwnQueues, HiddenComesBack
<1>3. \A w : /\ Settled(w)' = Settled(w) /\ Behind(w)' = Behind(w)
             /\ Placed(w)' = Placed(w) /\ Hidden(w)' = Hidden(w) /\ Laid(w)' = Laid(w)
  BY DEF Settled, Behind, Placed, Hidden, Laid, Panels, Views
<1>4. QED
  BY <1>1, <1>2, <1>3

LEMMA UpdatedKeeps == ASSUME RelayoutInv, updated PROVE RelayoutInv'
<1> USE DEF RelayoutInv, Always, updated, Done
<1>1. todo' \in Seq(Step)
  BY HeadTailProperties DEF TypeOK
<1>2. /\ Always' /\ Open' = Open /\ Stale' = Stale /\ shown' = shown /\ Verbs' = Verbs
      /\ \A w : /\ Settled(w)' = Settled(w) /\ Behind(w)' = Behind(w)
                /\ Placed(w)' = Placed(w) /\ Hidden(w)' = Hidden(w) /\ Laid(w)' = Laid(w)
  <2>1. bypassed' \in BOOLEAN
    BY DEF TypeOK
  <2>2. QED
    BY <1>1, <2>1, DoneKeeps
<1>3. UpdatingAlone \/ Updating \/ \E u \in Window : OpeningUpdate(u)
  BY PhaseOfStep
<1>4. CASE UpdatingAlone
  <2>1. todo' = <<>> /\ shown' = Open' /\ Stale' = {} /\ bypassed'
    BY <1>2, <1>4 DEF UpdatingAlone
  <2>2. Phase'
    BY <2>1, NoVerbs
  <2>3. QED
    BY <1>2, <2>2
<1>5. CASE Updating
  <2>1. LayingOut'
    BY <1>2, <1>5 DEF Updating, LayingOut, Unless
  <2>2. QED
    BY <1>2, <2>1 DEF Phase
<1>6. ASSUME NEW w \in Window, OpeningUpdate(w)
      PROVE  RelayoutInv'
  <2>1. todo' = <<<<"evaluate", w>>, <<"show_window", w>>>>
    BY <1>6 DEF OpeningUpdate
  <2>2. OpeningEvaluate(w)'
    BY <1>2, <1>6, <2>1 DEF OpeningUpdate, OpeningEvaluate, Opening, Unless
  <2>3. QED
    BY <1>2, <2>2 DEF Phase
<1>7. QED
  BY <1>3, <1>4, <1>5, <1>6

------------------------------------------------------------------------------
(* Running the root behavior *)

\* The verbs of all windows are to be called, each once.
LEMMA LayoutKeeps == ASSUME RelayoutInv, layout PROVE RelayoutInv'
<1> USE DEF RelayoutInv, Always, layout
<1> PICK verbs : verbs = [i \in DOMAIN windows |-> <<"window", windows[i]>>]
  OBVIOUS
<1>1. LayingOut
  BY PhaseOfStep
<1>2. windows \in Seq(Window) /\ DOMAIN windows = 1..Len(windows) /\ Len(windows) \in Nat
  BY LenProperties DEF TypeOK
<1>3. /\ verbs \in Verbs /\ DOMAIN verbs = DOMAIN windows
  <2>1. \A i \in DOMAIN windows : verbs[i] \in {"window"} \X Open
    BY DEF Open, ToSet
  <2>2. verbs \in [1..Len(windows) -> {"window"} \X Open]
    BY <1>2, <2>1
  <2>3. QED
    BY <1>2, <2>2, IsASeq DEF Verbs
<1>4. todo' = verbs
  <2>1. Tail(todo) = <<>>
    BY <1>1 DEF LayingOut
  <2>2. verbs \o <<>> = verbs
    BY <1>3, ConcatEmptySeq DEF Verbs
  <2>3. QED
    BY <2>1, <2>2
<1>5. IsInjective(verbs) /\ \A w \in Open : Waits(verbs, w)
  <2>1. \A i \in DOMAIN windows : verbs[i] = <<"window", windows[i]>>
    OBVIOUS
  <2>2. IsInjective(verbs)
    BY <1>3, <2>1 DEF TypeOK, IsInjective
  <2>3. \A w \in Open : Waits(verbs, w)
    BY <1>3, <2>1 DEF Open, Waits, ToSet
  <2>4. QED
    BY <2>2, <2>3
<1>6. todo' \in Seq(Step)
  BY <1>3, <1>4, Steps
<1>7. /\ Always' /\ Open' = Open /\ Stale' = Stale /\ shown' = shown /\ Verbs' = Verbs
      /\ \A w : /\ Settled(w)' = Settled(w) /\ Behind(w)' = Behind(w)
                /\ Placed(w)' = Placed(w) /\ Hidden(w)' = Hidden(w) /\ Laid(w)' = Laid(w)
  <2>1. bypassed' \in BOOLEAN
    BY DEF TypeOK
  <2>2. QED
    BY <1>6, <2>1, DoneKeeps
<1>8. Calling(verbs)'
  BY <1>1, <1>3, <1>4, <1>5, <1>7 DEF LayingOut, Calling, Rest, Unless, InTurn
<1>9. QED
  BY <1>3, <1>7, <1>8 DEF Phase

\* One verb is called: the others wait as they did.
LEMMA NextVerb ==
    ASSUME TypeOK, NEW w \in Window, Calling(todo), Now("window", w)
    PROVE  /\ Rest(Tail(todo)) /\ OthersInTurn(Tail(todo), w) /\ Unless(Behind(w))
<1> DEFINE rest == Tail(todo)
<1>1. /\ todo \in Verbs /\ todo # <<>> /\ Head(todo) = <<"window", w>>
      /\ \A i, j \in DOMAIN todo : todo[i] = todo[j] => i = j
  BY DEF Calling, Rest, Now, IsInjective
<1>2. /\ rest \in Verbs /\ ToSet(rest) = ToSet(todo) \ {<<"window", w>>}
      /\ \A i, j \in DOMAIN rest : rest[i] = rest[j] => i = j
      /\ <<"window", w>> \in ToSet(todo)
  BY <1>1, TailSet DEF Verbs
<1>3. w \in Open
  BY <1>1, Steps
<1>4. ~Waits(rest, w) /\ \A u \in Window \ {w} : Waits(rest, u) <=> Waits(todo, u)
  BY <1>2 DEF Waits
<1>5. Unless(\A u \in Open \ {w} : InTurn(rest, u))
  <2>1. \A u \in Open : u \in Window
    BY Steps
  <2>2. QED
    BY <1>4, <2>1 DEF Calling, Unless, InTurn
<1>6. Unless(Behind(w))
  BY <1>2, <1>3 DEF Calling, Unless, InTurn, Waits
<1>7. QED
  BY <1>2, <1>3, <1>4, <1>5, <1>6 DEF Rest, OthersInTurn, Calling, IsInjective

LEMMA UpdateKeeps == ASSUME RelayoutInv, NEW w \in Window, update(w) PROVE RelayoutInv'
<1> USE DEF RelayoutInv, Always
<1> PICK rest : rest = Tail(todo)
  OBVIOUS
<1>1. /\ todo # <<>> /\ Now("window", w)
      /\ UNCHANGED <<sheet_vars, hide_queue, show_queue, panel_vars, window_vars, laid, bypassed>>
  BY DEF update, Now
<1>2. Rest(rest) /\ OthersInTurn(rest, w) /\ Unless(Behind(w))
  BY <1>1, PhaseOfStep, NextVerb
<1>3. rest \in Verbs /\ rest \in Seq(Step) /\ w \in Open
  BY <1>2, Steps DEF Rest, OthersInTurn
<1>4. force' = force
  BY DEF update, TypeOK
<1>5. UNCHANGED <<sheet_vars, queue_vars, panel_vars, window_vars, laid>> /\ bypassed' \in BOOLEAN
  BY <1>1, <1>4 DEF queue_vars, TypeOK
<1>6. CASE force[w] \/ hide_queue[w] # <<>> \/ show_queue[w] # <<>>
  <2>1. todo' = ToHide(rest, w)
    <3>1. /\ <<"hide", w>> \in Step /\ <<"evaluate", w>> \in Step /\ <<"show", w>> \in Step
          /\ todo' = <<<<"hide", w>>, <<"evaluate", w>>, <<"show", w>>>> \o rest
      BY <1>6 DEF update, Step, Stage
    <3>2. ASSUME NEW a \in Step, NEW b \in Step, NEW c \in Step
          PROVE  <<a, b, c>> \o rest = Cons(a, Cons(b, Cons(c, rest)))
      BY ONLY <1>3, ConsThree
    <3>3. QED
      BY ONLY <3>1, <3>2 DEF ToHide, ToEvaluate, ToShow
  <2>2. todo' \in Seq(Step)
    BY <1>3, <2>1, Steps
  <2>3. /\ Always' /\ Open' = Open /\ Stale' = Stale /\ shown' = shown /\ Verbs' = Verbs
        /\ \A u : Settled(u)' = Settled(u) /\ Behind(u)' = Behind(u)
    BY <1>5, <2>2, DoneKeeps
  <2>4. Hiding(rest, w)'
    BY <1>1, <1>2, <2>1, <2>3 DEF Hiding, Rest, OthersInTurn, InTurn, Unless
  <2>5. QED
    BY <1>3, <2>3, <2>4 DEF Phase
<1>7. CASE ~force[w] /\ hide_queue[w] = <<>> /\ show_queue[w] = <<>>
  <2>1. todo' = rest
    BY <1>7 DEF update, Done
  <2>2. /\ Always' /\ Open' = Open /\ Stale' = Stale /\ shown' = shown /\ Verbs' = Verbs
        /\ \A u : Settled(u)' = Settled(u) /\ Behind(u)' = Behind(u)
    BY <1>3, <1>5, <2>1, DoneKeeps
  <2>3. Behind(w) => Settled(w)
    <3> SUFFICES ASSUME Behind(w) PROVE Settled(w)
      OBVIOUS
    <3>1. ASSUME NEW p \in Panels(w)
          PROVE  /\ ~Contains(hide_queue[w], p) /\ ~Contains(show_queue[w], p)
                 /\ visible[p] = told[p] /\ laid[p] = told[p]
      <4>1. p \in Panel /\ p \in View
        BY <3>1 DEF Panels, View
      <4>2. ~Contains(hide_queue[w], p) /\ ~Contains(show_queue[w], p)
        BY <1>7, ContainsFacts
      <4>3. visible[p] \in BOOLEAN /\ told[p] \in BOOLEAN
        BY <4>1 DEF TypeOK
      <4>4. QED
        BY <3>1, <4>2, <4>3 DEF Behind
    <3>2. ASSUME NEW v \in Views(w)
          PROVE  laid[v] = told[v]
      <4>1. CASE v \in Panel
        BY <3>1, <4>1 DEF Panels, Views
      <4>2. CASE v \notin Panel
        BY <1>7, <4>2 DEF Behind
      <4>3. QED
        BY <4>1, <4>2
    <3>3. QED
      BY <3>1, <3>2 DEF Settled, Placed
  <2>4. Calling(rest)'
    BY <1>1, <1>2, <1>3, <2>1, <2>2, <2>3 DEF Calling, Rest, OthersInTurn, InTurn, Unless
  <2>5. QED
    BY <1>3, <2>2, <2>4 DEF Phase
<1>8. QED
  BY <1>6, <1>7

\* A window's stage is over: what the invariant says of the other windows stays.
LEMMA OthersKept ==
    ASSUME TypeOK, NEW rest \in Verbs, NEW w \in Window, Rest(rest), OthersInTurn(rest, w),
           \A p \in Panel : home[p] # w => visible'[p] = visible[p],
           \A v \in View : home[v] # w => laid'[v] = laid[v],
           \A u \in Window \ {w} : /\ hide_queue'[u] = hide_queue[u]
                                   /\ show_queue'[u] = show_queue[u] /\ force'[u] = force[u],
           UNCHANGED <<sheet_vars, told, window_vars, bypassed>>
    PROVE  /\ Open' = Open /\ Rest(rest)' /\ OthersInTurn(rest, w)' /\ rest \in Verbs'
<1> USE DEF sheet_vars, window_vars
<1>1. Open' = Open /\ Verbs' = Verbs /\ Stale' = Stale /\ shown' = shown
  BY DEF Open, Verbs, Stale
<1>2. Rest(rest)'
  BY <1>1 DEF Rest
<1>3. ASSUME NEW u \in Open \ {w}, InTurn(rest, u)
      PROVE  InTurn(rest, u)'
  <2>1. u \in Window \ {w}
    BY Steps
  <2>2. Settled(u) => Settled(u)'
    BY <2>1 DEF Settled, Placed, Panels, Views, View
  <2>3. Behind(u) => Behind(u)'
    BY <2>1 DEF Behind, Panels, Views, View
  <2>4. QED
    BY <1>3, <2>2, <2>3 DEF InTurn, Waits
<1>4. OthersInTurn(rest, w)'
  BY <1>1, <1>3 DEF OthersInTurn, Unless
<1>5. QED
  BY <1>1, <1>2, <1>4

LEMMA HideKeeps == ASSUME RelayoutInv, NEW w \in Window, hide(w) PROVE RelayoutInv'
<1> USE WiringAssumption DEF RelayoutInv, Always
<1>1. PICK rest \in Verbs : Hiding(rest, w)
  BY PhaseOfStep DEF hide
<1>2. todo' = ToEvaluate(rest, w)
  BY <1>1, Steps DEF Hiding, hide, Done
<1>3. /\ UNCHANGED <<sheet_vars, show_queue, force, told, inited, eve_visible, window_vars, laid, bypassed>>
      /\ \A p \in Panel : visible'[p] = (visible[p] /\ ~Contains(hide_queue[w], p))
      /\ visible' \in [Panel -> BOOLEAN]
      /\ hide_queue'[w] = <<>>
      /\ \A u \in Window \ {w} : hide_queue'[u] = hide_queue[u]
      /\ hide_queue' \in [Window -> Seq(Panel \cup {dummy_display})]
  BY EmptySeq DEF hide, TypeOK
<1>4. \A p \in Panel : home[p] # w => visible'[p] = visible[p]
  BY <1>3 DEF OwnQueues, TypeOK
<1>5. /\ Open' = Open /\ Rest(rest)' /\ OthersInTurn(rest, w)' /\ rest \in Verbs'
  BY <1>1, <1>3, <1>4, OthersKept DEF Hiding
<1>6. TypeOK'
  BY <1>2, <1>3, <1>5, Steps DEF TypeOK, sheet_vars, window_vars
<1>7. EveFollowsDisplay'
  BY <1>3, <1>5 DEF EveFollowsDisplay
<1>8. ShowsNeverLost'
  <2> SUFFICES ASSUME NEW p \in Panel, home[p] \in Open', told'[p]
               PROVE  visible'[p] \/ Contains(show_queue'[home[p]], p)
    BY DEF ShowsNeverLost
  <2>1. visible[p] \/ Contains(show_queue[home[p]], p)
    BY <1>3, <1>5 DEF ShowsNeverLost
  <2>2. CASE home[p] = w
    BY <1>3, <2>1, <2>2 DEF HiddenComesBack
  <2>3. CASE home[p] # w
    BY <1>3, <1>4, <2>1, <2>3
  <2>4. QED
    BY <2>2, <2>3
<1>9. OwnQueues' /\ HiddenComesBack'
  <2>1. \A u \in Window, p \in Panel :
            Contains(hide_queue'[u], p) => Contains(hide_queue[u], p)
    BY <1>3, ContainsFacts
  <2>2. QED
    BY <1>3, <2>1 DEF OwnQueues, HiddenComesBack, View
<1>10. Behind(w) => Hidden(w)'
  <2> SUFFICES ASSUME Behind(w), NEW p \in Panels(w)
               PROVE  /\ visible'[p] => laid'[p]
                      /\ visible'[p] \/ Contains(show_queue'[w], p) <=> told'[p]
    BY DEF Hidden, Panels
  <2>1. p \in Panel /\ p \in View
    BY DEF Panels, View
  <2>2. /\ laid[p] = visible[p]
        /\ Contains(hide_queue[w], p) <=> visible[p] /\ ~told[p]
        /\ Contains(show_queue[w], p) <=> ~visible[p] /\ told[p]
    BY DEF Behind
  <2>3. visible'[p] <=> visible[p] /\ ~Contains(hide_queue[w], p)
    BY <1>3, <2>1
  <2>4. QED
    BY <1>3, <2>2, <2>3
<1>11. Evaluating(rest, w)'
  BY <1>1, <1>2, <1>3, <1>5, <1>10 DEF Hiding, Evaluating, Unless
<1>12. QED
  BY <1>5, <1>6, <1>7, <1>8, <1>9, <1>11 DEF Phase

LEMMA ShowKeeps == ASSUME RelayoutInv, NEW w \in Window, show(w) PROVE RelayoutInv'
<1> USE WiringAssumption DEF RelayoutInv, Always
<1>1. PICK rest \in Verbs : Showing(rest, w)
  BY PhaseOfStep DEF show
<1>2. todo' = rest
  BY <1>1, Steps DEF Showing, show, Done
<1>3. /\ UNCHANGED <<sheet_vars, hide_queue, told, inited, eve_visible, window_vars, laid, bypassed>>
      /\ \A p \in Panel : visible'[p] = (visible[p] \/ Contains(show_queue[w], p))
      /\ visible' \in [Panel -> BOOLEAN]
      /\ show_queue'[w] = <<>>
      /\ \A u \in Window \ {w} : show_queue'[u] = show_queue[u] /\ force'[u] = force[u]
      /\ show_queue' \in [Window -> Seq(Panel \cup {dummy_display})]
      /\ force' \in [Window -> BOOLEAN]
  <2>1. \A p \in Panel : (visible[p] \/ Contains(show_queue[w], p)) \in BOOLEAN
    OBVIOUS
  <2>2. visible' = [p \in Panel |-> visible[p] \/ Contains(show_queue[w], p)]
    BY DEF show
  <2>3. visible' \in [Panel -> BOOLEAN]
    BY ONLY <2>1, <2>2
  <2>4. QED
    BY <2>2, <2>3, EmptySeq DEF show, TypeOK
<1>4. \A p \in Panel : home[p] # w => visible'[p] = visible[p]
  <2> SUFFICES ASSUME NEW p \in Panel, home[p] # w PROVE visible'[p] = visible[p]
    OBVIOUS
  <2>1. ~Contains(show_queue[w], p) /\ visible[p] \in BOOLEAN
    BY DEF OwnQueues, TypeOK
  <2>2. visible'[p] = (visible[p] \/ Contains(show_queue[w], p))
    BY <1>3
  <2>3. QED
    BY ONLY <2>1, <2>2
<1>5. /\ Open' = Open /\ Rest(rest)' /\ OthersInTurn(rest, w)' /\ rest \in Verbs'
  BY <1>1, <1>3, <1>4, OthersKept DEF Showing
<1>6. TypeOK'
  BY <1>2, <1>3, <1>5, Steps DEF TypeOK, sheet_vars, window_vars
<1>7. EveFollowsDisplay'
  BY <1>3, <1>5 DEF EveFollowsDisplay
<1>8. ShowsNeverLost'
  <2> SUFFICES ASSUME NEW p \in Panel, home[p] \in Open', told'[p]
               PROVE  visible'[p] \/ Contains(show_queue'[home[p]], p)
    BY DEF ShowsNeverLost
  <2>1. visible[p] \/ Contains(show_queue[home[p]], p)
    BY <1>3, <1>5 DEF ShowsNeverLost
  <2>2. CASE home[p] = w
    BY <1>3, <2>1, <2>2
  <2>3. CASE home[p] # w
    <3>1. home[p] \in Window \ {w}
      BY <2>3 DEF View
    <3>2. QED
      BY <1>3, <1>4, <2>1, <2>3, <3>1
  <2>4. QED
    BY <2>2, <2>3
<1>9. OwnQueues' /\ HiddenComesBack'
  <2>1. \A u \in Window, p \in Panel :
            Contains(show_queue'[u], p) => Contains(show_queue[u], p)
    BY <1>3, ContainsFacts
  <2>2. OwnQueues'
    BY <1>3, <2>1 DEF OwnQueues
  <2>3. \A p : ~Contains(hide_queue[w], p)
    BY <1>1, ContainsFacts DEF Showing
  <2>4. HiddenComesBack'
    <3> SUFFICES ASSUME NEW p \in Panel, told'[p], Contains(hide_queue'[home[p]], p)
                 PROVE  Contains(show_queue'[home[p]], p)
      BY DEF HiddenComesBack
    <3>1. home[p] \in Window \ {w}
      BY <1>3, <2>3 DEF View
    <3>2. QED
      BY <1>3, <3>1 DEF HiddenComesBack
  <2>5. QED
    BY <2>2, <2>4
<1>10. Laid(w) => Settled(w)'
  <2> SUFFICES ASSUME Laid(w) PROVE Settled(w)'
    OBVIOUS
  <2>1. ASSUME NEW p \in Panels(w)
        PROVE  /\ visible'[p] = told'[p]
               /\ ~Contains(hide_queue'[w], p) /\ ~Contains(show_queue'[w], p)
    <3>1. p \in Panel /\ p \in View
      BY <2>1 DEF Panels, View
    <3>2. visible[p] \/ Contains(show_queue[w], p) <=> told[p]
      BY <2>1 DEF Laid, Hidden
    <3>3. told[p] \in BOOLEAN /\ visible'[p] = (visible[p] \/ Contains(show_queue[w], p))
      BY <1>3, <3>1 DEF TypeOK
    <3>4. visible'[p] = told[p]
      BY ONLY <3>2, <3>3
    <3>5. QED
      BY <1>1, <1>3, <3>4, ContainsFacts DEF Showing
  <2>2. \A v \in Views(w) : laid'[v] = told'[v]
    BY <1>3 DEF Laid
  <2>3. QED
    BY <2>1, <2>2 DEF Settled, Placed, Panels, Views
<1>11. Calling(rest)'
  BY <1>1, <1>2, <1>3, <1>5, <1>10 DEF Showing, Calling, OthersInTurn, InTurn, Unless
<1>12. QED
  BY <1>5, <1>6, <1>7, <1>8, <1>9, <1>11 DEF Phase

\* The window is laid out for what is displayed, because eve was told of it.
LEMMA EvaluateKeeps == ASSUME RelayoutInv, NEW w \in Window, evaluate(w) PROVE RelayoutInv'
<1> USE WiringAssumption DEF RelayoutInv, Always
<1>1. /\ UNCHANGED <<sheet_vars, queue_vars, panel_vars, window_vars, bypassed>>
      /\ \A v \in View : laid'[v] = IF home[v] # w THEN laid[v]
                                    ELSE IF v \in Panel THEN eve_visible[v] ELSE told[v]
      /\ laid' \in [View -> BOOLEAN]
  BY DEF evaluate, TypeOK, View
<1>2. Open' = Open /\ Verbs' = Verbs /\ Stale' = Stale /\ shown' = shown
  BY <1>1 DEF Open, Verbs, Stale, sheet_vars, panel_vars, window_vars
<1>3. todo' \in Seq(Step) /\ todo' = Tail(todo) /\ Now("evaluate", w)
  BY HeadTailProperties DEF TypeOK, evaluate, Now, Done
<1>4. Always'
  BY <1>1, <1>2, <1>3
     DEF TypeOK, EveFollowsDisplay, ShowsNeverLost, OwnQueues, HiddenComesBack,
         sheet_vars, queue_vars, panel_vars, window_vars
<1>5. w \in Open => \A v \in Views(w) : laid'[v] = told'[v]
  BY <1>1 DEF Views, EveFollowsDisplay, panel_vars
<1>6. CASE OpeningEvaluate(w)
  <2>1. todo' = <<<<"show_window", w>>>>
    BY <1>3, <1>6 DEF OpeningEvaluate
  <2>2. Settled(w)'
    BY <1>1, <1>5, <1>6
       DEF OpeningEvaluate, Opening, Settled, Placed, Panels, Views, panel_vars, queue_vars
  <2>3. \A u \in shown : Settled(u) => Settled(u)'
    <3>1. w \notin shown
      BY <1>6 DEF OpeningEvaluate, Opening
    <3>2. QED
      BY <1>1, <3>1 DEF Settled, Placed, Panels, Views, View, panel_vars, queue_vars
  <2>4. OpeningShow(w)'
    BY <1>1, <1>2, <1>6, <2>1, <2>2, <2>3 DEF OpeningEvaluate, OpeningShow, Opening, Unless
  <2>5. QED
    BY <1>4, <2>4 DEF Phase
<1>7. ASSUME NEW rest \in Verbs, Evaluating(rest, w)
      PROVE  RelayoutInv'
  <2>1. todo' = ToShow(rest, w)
    BY <1>3, <1>7, Steps DEF Evaluating
  <2>2. /\ Open' = Open /\ Rest(rest)' /\ OthersInTurn(rest, w)' /\ rest \in Verbs'
    BY <1>1, <1>7, OthersKept DEF Evaluating, queue_vars, panel_vars
  <2>3. Hidden(w) => Laid(w)'
    <3> SUFFICES ASSUME Hidden(w) PROVE Laid(w)'
      OBVIOUS
    <3>1. w \in Open
      BY <1>7 DEF Evaluating, OthersInTurn
    <3>2. ASSUME NEW p \in Panels(w)
          PROVE  /\ visible'[p] => laid'[p]
                 /\ visible'[p] \/ Contains(show_queue'[w], p) <=> told'[p]
      <4>1. laid'[p] = told'[p]
        BY <1>5, <3>1 DEF Panels, Views, View
      <4>2. QED
        BY <1>1, <4>1 DEF Hidden, panel_vars, queue_vars
    <3>3. QED
      BY <1>5, <3>1, <3>2 DEF Laid, Hidden, Panels, Views
  <2>4. Showing(rest, w)'
    BY <1>1, <1>7, <2>1, <2>2, <2>3 DEF Evaluating, Showing, Unless, queue_vars
  <2>5. QED
    BY <1>4, <2>2, <2>4 DEF Phase
<1>8. QED
  BY <1>3, <1>6, <1>7, PhaseOfStep

LEMMA EvaluateThrowsKeeps ==
    ASSUME RelayoutInv, NEW w \in Window, evaluate_throws(w) PROVE RelayoutInv'
<1> USE DEF RelayoutInv, Always
<1>1. /\ Now("evaluate", w) /\ w \in shown /\ todo' = <<>> /\ bypassed'
      /\ UNCHANGED <<sheet_vars, queue_vars, panel_vars, window_vars, laid>>
      /\ todo' \in Seq(Step) /\ bypassed' \in BOOLEAN
  BY EmptySeq DEF evaluate_throws
<1>2. PICK rest \in Verbs : Evaluating(rest, w)
  <2>1. ~OpeningEvaluate(w)
    BY <1>1 DEF OpeningEvaluate, Opening
  <2>2. QED
    BY <1>1, <2>1, PhaseOfStep
<1>3. /\ Always' /\ Open' = Open /\ Stale' = Stale /\ shown' = shown
  BY <1>1, DoneKeeps
<1>4. shown' = Open' /\ Stale' = {}
  BY <1>2, <1>3 DEF Evaluating, Rest
<1>5. QED
  BY <1>1, <1>3, <1>4, NoVerbs

LEMMA ShowWindowKeeps ==
    ASSUME RelayoutInv, NEW w \in Window, show_window(w) PROVE RelayoutInv'
<1> USE DEF RelayoutInv, Always
<1>1. OpeningShow(w)
  BY PhaseOfStep DEF show_window
<1>2. /\ todo' = <<>> /\ shown' = shown \cup {w}
      /\ UNCHANGED <<sheet_vars, queue_vars, panel_vars, windows, laid, bypassed>>
  BY <1>1 DEF OpeningShow, show_window, Done
<1>3. Open' = Open /\ Stale' = Stale /\ todo' \in Seq(Step)
  BY <1>2, EmptySeq DEF Open, Stale, sheet_vars, panel_vars
<1>4. shown' = Open'
  BY <1>1, <1>2, <1>3 DEF OpeningShow, Opening
<1>5. Always'
  BY <1>2, <1>3, <1>4
     DEF TypeOK, EveFollowsDisplay, ShowsNeverLost, OwnQueues, HiddenComesBack,
         sheet_vars, queue_vars, panel_vars
<1>6. \A u : Settled(u) => Settled(u)'
  BY <1>2 DEF Settled, Placed, Panels, Views, panel_vars, queue_vars
<1>7. bypassed' \/ \A u \in Open' : Settled(u)'
  BY <1>1, <1>2, <1>3, <1>6 DEF OpeningShow, Opening, Unless
<1>8. QED
  BY <1>1, <1>2, <1>3, <1>4, <1>5, <1>7, NoVerbs DEF OpeningShow, Opening

------------------------------------------------------------------------------
(* The theorems *)

LEMMA RelayoutStep == RelayoutInv /\ [Next]_vars => RelayoutInv'
<1> SUFFICES ASSUME RelayoutInv, [Next]_vars PROVE RelayoutInv'
  OBVIOUS
<1>1. CASE UNCHANGED vars
  <2>1. UNCHANGED <<sheet_vars, queue_vars, panel_vars, window_vars, laid, todo, bypassed>>
    BY <1>1 DEF vars
  <2>2. todo' \in Seq(Step) /\ bypassed' \in BOOLEAN
    BY <2>1 DEF RelayoutInv, Always, TypeOK
  <2>3. /\ Always' /\ Open' = Open /\ Stale' = Stale /\ shown' = shown /\ Verbs' = Verbs
        /\ \A w : /\ Settled(w)' = Settled(w) /\ Behind(w)' = Behind(w)
                  /\ Placed(w)' = Placed(w) /\ Hidden(w)' = Hidden(w) /\ Laid(w)' = Laid(w)
    BY <2>1, <2>2, DoneKeeps
  <2>4. Phase'
    BY <2>1, <2>3
       DEF RelayoutInv, Phase, UpdatingAlone, Updating, LayingOut, Opening, OpeningUpdate,
           OpeningEvaluate, OpeningShow, Rest, InTurn, OthersInTurn, Calling, Hiding,
           Evaluating, Showing, Unless, queue_vars
  <2>5. QED
    BY <2>3, <2>4 DEF RelayoutInv
<1>2. ASSUME NEW c \in Cell, NEW b \in BOOLEAN, touch_set_update(c, b) PROVE RelayoutInv'
  <2>1. [cell EXCEPT ![c] = b] \in [Cell -> BOOLEAN]
    BY DEF RelayoutInv, Always, TypeOK
  <2>2. QED
    BY <1>2, <2>1, SetterKeeps DEF touch_set_update
<1>3. ASSUME NEW c \in Cell, NEW b \in BOOLEAN, proxy_button_hit(c, b) PROVE RelayoutInv'
  <2>1. [cell EXCEPT ![c] = b] \in [Cell -> BOOLEAN]
    BY DEF RelayoutInv, Always, TypeOK
  <2>2. QED
    BY <1>3, <2>1, SetterKeeps DEF proxy_button_hit
<1>4. ASSUME NEW cells \in SUBSET Cell, NEW b \in BOOLEAN, splitter(cells, b)
      PROVE  RelayoutInv'
  <2>1. [c \in Cell |-> IF c \in cells THEN b ELSE cell[c]] \in [Cell -> BOOLEAN]
    BY DEF RelayoutInv, Always, TypeOK
  <2>2. QED
    BY <1>4, <2>1, SetterKeeps DEF splitter
<1>5. ASSUME NEW w \in Window, reset(w) PROVE RelayoutInv'
  <2>1. contributing[w] \in [Cell -> BOOLEAN]
    BY DEF RelayoutInv, Always, TypeOK
  <2>2. QED
    BY <1>5, <2>1, SetterKeeps DEF reset
<1>6. QED
  BY <1>1, <1>2, <1>3, <1>4, <1>5, MakeViewKeeps, CloseKeeps, NotifyKeeps, UpdatedKeeps,
     LayoutKeeps, UpdateKeeps, HideKeeps, EvaluateKeeps, EvaluateThrowsKeeps, ShowKeeps,
     ShowWindowKeeps
     DEF Next

\* The inductive invariant: what always holds of the queues and of eve, and where in an
\* event the program is, with how far each window is behind its sheet there.
THEOREM RelayoutInvariance == Spec => []RelayoutInv
<1>1. QED
  BY InitRelayout, RelayoutStep, PTL DEF Spec

\* Between events, as long as every change has come with the root behavior, the screen,
\* eve and the last layout of every window agree with the sheet.
THEOREM AlwaysSettledAtRest == Spec => []SettledAtRest
<1>1. RelayoutInv => SettledAtRest
  <2> SUFFICES ASSUME RelayoutInv, todo = <<>>, ~bypassed, NEW w \in shown
               PROVE  InSync(w)
    BY DEF SettledAtRest, InStep
  <2>1. shown = Open /\ Stale = {} /\ Settled(w) /\ EveFollowsDisplay
    BY AtRest DEF Unless, RelayoutInv, Always
  <2>2. \A v \in Views(w) : told[v] = cell[bound[v]]
    BY <2>1 DEF Stale, Views
  <2>3. QED
    BY <2>1, <2>2 DEF InSync, Settled, Placed, EveFollowsDisplay, Panels, Views, View
<1>2. QED
  BY <1>1, RelayoutInvariance, PTL

\* In a window on the screen a panel is never visible unless eve has laid it out visible.
THEOREM NeverUnplaced == Spec => []NeverShownUnplaced
<1>1. RelayoutInv => NeverShownUnplaced
  <2> SUFFICES ASSUME RelayoutInv, ~bypassed, NEW w \in shown, NEW p \in Panel,
                      home[p] = w, visible[p]
               PROVE  laid[p]
    BY DEF NeverShownUnplaced
  <2> USE DEF RelayoutInv, Always
  <2>1. p \in Panels(w) /\ p \in Views(w)
    BY DEF Panels, Views, View
  <2>2. Settled(w) \/ Behind(w) \/ Hidden(w) => laid[p]
    BY <2>1 DEF Settled, Placed, Behind, Hidden
  <2>3. Settled(w) \/ Behind(w) \/ Hidden(w)
    <3>1. w \in Window /\ w \in Open
      BY Steps DEF TypeOK
    <3>2. CASE UpdatingAlone \/ Updating \/ LayingOut
      BY <3>1, <3>2 DEF UpdatingAlone, Updating, LayingOut, Unless
    <3>3. CASE \E u \in Window : OpeningUpdate(u) \/ OpeningEvaluate(u) \/ OpeningShow(u)
      BY <3>3 DEF OpeningUpdate, OpeningEvaluate, OpeningShow, Opening, Unless
    <3>4. CASE \E rest \in Verbs : Calling(rest)
      BY <3>1, <3>4 DEF Calling, InTurn, Unless
    <3>5. CASE \E rest \in Verbs, u \in Window :
                  Hiding(rest, u) \/ Evaluating(rest, u) \/ Showing(rest, u)
      BY <3>1, <3>5 DEF Hiding, Evaluating, Showing, OthersInTurn, InTurn, Laid, Unless
    <3>6. QED
      BY <3>2, <3>3, <3>4, <3>5 DEF Phase
  <2>4. QED
    BY <2>2, <2>3
<1>2. QED
  BY <1>1, RelayoutInvariance, PTL

\* A panel its cell shows is on the screen or queued to be, whatever bypasses the root
\* behavior and whatever throws.
THEOREM NoShowLost == Spec => []ShowsNeverLost
<1>1. RelayoutInv => ShowsNeverLost
  BY DEF RelayoutInv, Always
<1>2. QED
  BY <1>1, RelayoutInvariance, PTL

\* Eve never disagrees with the values displayed.
THEOREM EveAlwaysFollowsDisplay == Spec => []EveFollowsDisplay
<1>1. RelayoutInv => EveFollowsDisplay
  BY DEF RelayoutInv, Always
<1>2. QED
  BY <1>1, RelayoutInvariance, PTL
===============================================================================
