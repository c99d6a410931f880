------------------------------- MODULE Relayout -------------------------------
(***************************************************************************)
(* How the windows of a sheet follow it.                                   *)
(*                                                                         *)
(* A widget's controller sets a cell, updates the sheet, and runs the root *)
(* behavior, in which every window has one verb: the update of its visible *)
(* change queue.  Updating the sheet displays the new values; an optional  *)
(* panel does not appear or go at once: it tells eve, and queues the       *)
(* change.  A queue's update hides, lays the window out, then shows.       *)
(*                                                                         *)
(* root_behavior_m and the hide and show queues are behavior_t objects;    *)
(* this module takes from EntryQueue what they do: entries run in order,   *)
(* and a single-execution queue is cleared after all of it has run.        *)
(* One thread runs everything; todo is what the event under way has left.  *)
(***************************************************************************)
EXTENDS Naturals, Sequences, FiniteSets, SequencesExt

CONSTANTS Window,      \* the windows (eve_client_holder) of one sheet
          Cell,        \* the sheet's cells
          Panel,       \* optional panels, shown while their cell is TRUE
          Image,       \* views that go through force_relayout_view_adaptor
          home,        \* [Panel \cup Image -> Window]
          bound,       \* [Panel \cup Image -> Cell]
          Sources,     \* the kinds of event that reach the sheet
          MayThrow,    \* whether eve_t::evaluate may throw
          dummy_display,
          QueueBound   \* what bypasses the root behavior, or throws, stops here

View == Panel \cup Image

ASSUME WiringAssumption == /\ home \in [View -> Window] /\ bound \in [View -> Cell]
                           /\ Panel \cap Image = {} /\ dummy_display \notin Panel
                           /\ IsFiniteSet(Panel)
ASSUME BoundAssumption == QueueBound \in Nat /\ MayThrow \in BOOLEAN

VARIABLES cell,          \* [Cell -> BOOLEAN]: the sheet
          told,          \* [View -> BOOLEAN]: the last value displayed
          windows,       \* Seq(Window): the verbs of the root behavior
          shown,         \* the windows show_window_m has shown
          contributing,  \* [Window -> [Cell -> BOOLEAN]]: kept for reset
          inited,        \* [Panel -> BOOLEAN]: inited_m
          visible,       \* [Panel -> BOOLEAN]: the platform panel
          eve_visible,   \* [Panel -> BOOLEAN]: eve's view of it
          laid,          \* [View -> BOOLEAN]: the value of the last layout
          hide_queue, show_queue,  \* [Window -> Seq(Panel \cup {dummy_display})]
          force,         \* [Window -> BOOLEAN]: force_m
          todo,          \* Seq(Step)
          bypassed       \* history: an event has left the root behavior out

sheet_vars == <<cell, contributing>>
queue_vars == <<hide_queue, show_queue, force>>
panel_vars == <<told, inited, visible, eve_visible>>
window_vars == <<windows, shown>>
vars == <<sheet_vars, queue_vars, panel_vars, window_vars, laid, todo, bypassed>>

Stage == {"window", "hide", "evaluate", "show", "show_window"}
Step == ({"update", "layout"} \X {"sheet"}) \cup (Stage \X Window)

Open == ToSet(windows)
Views(w) == {v \in View : home[v] = w}
Panels(w) == {p \in Panel : home[p] = w}
Now(step, w) == todo # <<>> /\ Head(todo) = <<step, w>>
Done == todo' = Tail(todo)

Init ==
    /\ cell \in [Cell -> BOOLEAN]
    /\ told = [v \in View |-> FALSE]
    /\ windows = <<>> /\ shown = {}
    /\ contributing = [w \in Window |-> cell]
    /\ inited = [p \in Panel |-> FALSE]
    /\ visible = [p \in Panel |-> FALSE]
    /\ eve_visible = [p \in Panel |-> FALSE]
    /\ laid = [v \in View |-> FALSE]
    /\ hide_queue = [w \in Window |-> <<>>]
    /\ show_queue = [w \in Window |-> <<>>]
    /\ force = [w \in Window |-> FALSE]
    /\ todo = <<>> /\ bypassed = FALSE

------------------------------------------------------------------------------
(* The events *)

Update == <<"update", "sheet">>
Layout == <<"layout", "sheet">>

\* Wrong: the setter leaves out the root behavior.
touch_set_update_no_layout(c, value) ==
    /\ todo = <<>> /\ "controller" \in Sources
    /\ cell' = [cell EXCEPT ![c] = value]
    /\ todo' = <<Update>>
    /\ UNCHANGED <<contributing, queue_vars, panel_vars, window_vars, laid, bypassed>>

\* A widget's setter sets one cell, and the update and the root behavior follow.
\* (Touching a touch_set first changes priorities only.)
touch_set_update(c, value) ==
    /\ todo = <<>> /\ "controller" \in Sources
    /\ cell' = [cell EXCEPT ![c] = value]
    /\ todo' = <<Update, Layout>>
    /\ UNCHANGED <<contributing, queue_vars, panel_vars, window_vars, laid, bypassed>>

\* The splitter sets several cells at once (of a window's layout sheet; Cell does
\* not tell the sheets of a window apart).  This is the call with one of its
\* pass-through modifier keys held: without one it returns at once, no step.
splitter(cells, value) ==
    /\ todo = <<>> /\ "splitter" \in Sources
    /\ cell' = [c \in Cell |-> IF c \in cells THEN value ELSE cell[c]]
    /\ todo' = <<Update, Layout>>
    /\ UNCHANGED <<contributing, queue_vars, panel_vars, window_vars, laid, bypassed>>

Room == \A w \in Window : Len(hide_queue[w]) + Len(show_queue[w]) < QueueBound

\* A button with bind_output sets and updates, and runs no behavior.
proxy_button_hit(c, value) ==
    /\ todo = <<>> /\ "button" \in Sources /\ Room
    /\ cell' = [cell EXCEPT ![c] = value]
    /\ todo' = <<Update>>
    /\ bypassed' = TRUE
    /\ UNCHANGED <<contributing, queue_vars, panel_vars, window_vars, laid>>

\* Nor do the actions reset and cancel.
reset(w) ==
    /\ todo = <<>> /\ "reset" \in Sources /\ w \in shown /\ Room
    /\ cell' = contributing[w]
    /\ todo' = <<Update>>
    /\ bypassed' = TRUE
    /\ UNCHANGED <<contributing, queue_vars, panel_vars, window_vars, laid>>

\* make_view: the verb enters the root behavior, every view is attached and
\* displays its cell.  The first display of a panel is direct; what it queues
\* does nothing.
make_view(w) ==
    /\ todo = <<>> /\ w \notin Open
    /\ windows' = Append(windows, w)
    /\ contributing' = [contributing EXCEPT ![w] = cell]
    /\ told' = [v \in View |-> IF home[v] = w THEN cell[bound[v]] ELSE told[v]]
    /\ LET First(f) == [p \in Panel |-> IF home[p] = w THEN cell[bound[p]] ELSE f[p]]
           Dummies(value) == [i \in 1..Cardinality({p \in Panels(w) : cell[bound[p]] = value})
                                |-> dummy_display]
       IN /\ visible' = First(visible) /\ eve_visible' = First(eve_visible)
          /\ show_queue' = [show_queue EXCEPT ![w] = Dummies(TRUE)]
          /\ hide_queue' = [hide_queue EXCEPT ![w] = Dummies(FALSE)]
    /\ inited' = [p \in Panel |-> home[p] = w \/ inited[p]]
    /\ force' = [force EXCEPT ![w] = \E v \in Image : home[v] = w]
    /\ todo' = <<Update, <<"evaluate", w>>, <<"show_window", w>>>>
    /\ UNCHANGED <<cell, shown, laid, bypassed>>

\* ~eve_client_holder: the verb leaves the root behavior, the widgets and the
\* queues go.
close(w) ==
    /\ todo = <<>> /\ w \in Open
    /\ \E i \in DOMAIN windows : windows[i] = w /\ windows' = RemoveAt(windows, i)
    /\ shown' = shown \ {w}
    /\ inited' = [p \in Panel |-> home[p] # w /\ inited[p]]
    /\ visible' = [p \in Panel |-> home[p] # w /\ visible[p]]
    /\ eve_visible' = [p \in Panel |-> home[p] # w /\ eve_visible[p]]
    /\ told' = [v \in View |-> home[v] # w /\ told[v]]
    /\ laid' = [v \in View |-> home[v] # w /\ laid[v]]
    /\ hide_queue' = [hide_queue EXCEPT ![w] = <<>>]
    /\ show_queue' = [show_queue EXCEPT ![w] = <<>>]
    /\ force' = [force EXCEPT ![w] = FALSE]
    /\ UNCHANGED <<sheet_vars, todo, bypassed>>

------------------------------------------------------------------------------
(* Updating the sheet *)

optional_display_show(p) ==
    /\ show_queue' = [show_queue EXCEPT ![home[p]] = Append(@, p)]
    /\ eve_visible' = [eve_visible EXCEPT ![p] = TRUE]
    /\ UNCHANGED hide_queue

\* Wrong: eve is not told.
optional_display_hide_only_queued(p) ==
    /\ hide_queue' = [hide_queue EXCEPT ![home[p]] = Append(@, p)]
    /\ UNCHANGED <<show_queue, eve_visible>>

optional_display_hide(p) ==
    /\ hide_queue' = [hide_queue EXCEPT ![home[p]] = Append(@, p)]
    /\ eve_visible' = [eve_visible EXCEPT ![p] = FALSE]
    /\ UNCHANGED show_queue

\* The panel is displayed a second or later time.
display(p, value) ==
    /\ IF value THEN optional_display_show(p) ELSE optional_display_hide(p)
    /\ UNCHANGED <<inited, visible, force>>

forced_display(v) ==
    /\ force' = [force EXCEPT ![home[v]] = TRUE]
    /\ UNCHANGED <<inited, visible, eve_visible, hide_queue, show_queue>>

Stale == {v \in View : home[v] \in Open /\ told[v] # cell[bound[v]]}

\* sheet_t::update calls the monitor of every cell that has changed, once, in
\* no order a client can rely on.
notify(v) ==
    /\ todo # <<>> /\ Head(todo) = Update /\ v \in Stale
    /\ told' = [told EXCEPT ![v] = cell[bound[v]]]
    /\ IF v \in Panel THEN display(v, cell[bound[v]]) ELSE forced_display(v)
    /\ UNCHANGED <<sheet_vars, window_vars, laid, todo, bypassed>>

updated ==
    /\ todo # <<>> /\ Head(todo) = Update /\ Stale = {}
    /\ Done
    /\ UNCHANGED <<sheet_vars, queue_vars, panel_vars, window_vars, laid, bypassed>>

------------------------------------------------------------------------------
(* Running the root behavior *)

layout ==
    /\ todo # <<>> /\ Head(todo) = Layout
    /\ todo' = [i \in DOMAIN windows |-> <<"window", windows[i]>>] \o Tail(todo)
    /\ UNCHANGED <<sheet_vars, queue_vars, panel_vars, window_vars, laid, bypassed>>

\* Wrong: what is to appear appears before the window is laid out for it.
update_shows_first(w) ==
    /\ Now("window", w)
    /\ todo' = <<<<"hide", w>>, <<"show", w>>, <<"evaluate", w>>>> \o Tail(todo)
    /\ UNCHANGED <<sheet_vars, queue_vars, panel_vars, window_vars, laid, bypassed>>

\* visible_change_queue_t::update
update(w) ==
    /\ Now("window", w)
    /\ IF force[w] \/ hide_queue[w] # <<>> \/ show_queue[w] # <<>>
       THEN /\ todo' = <<<<"hide", w>>, <<"evaluate", w>>, <<"show", w>>>> \o Tail(todo)
            /\ UNCHANGED force
       ELSE force' = [force EXCEPT ![w] = FALSE] /\ Done
    /\ UNCHANGED <<sheet_vars, hide_queue, show_queue, panel_vars, window_vars, laid, bypassed>>

\* Wrong: running the hides clears both queues.
hide_clears_both(w) ==
    /\ Now("hide", w)
    /\ visible' = [p \in Panel |-> visible[p] /\ ~Contains(hide_queue[w], p)]
    /\ hide_queue' = [hide_queue EXCEPT ![w] = <<>>]
    /\ show_queue' = [show_queue EXCEPT ![w] = <<>>]
    /\ Done
    /\ UNCHANGED <<sheet_vars, force, told, inited, eve_visible, window_vars, laid, bypassed>>

hide(w) ==
    /\ Now("hide", w)
    /\ visible' = [p \in Panel |-> visible[p] /\ ~Contains(hide_queue[w], p)]
    /\ hide_queue' = [hide_queue EXCEPT ![w] = <<>>]
    /\ Done
    /\ UNCHANGED <<sheet_vars, show_queue, force, told, inited, eve_visible, window_vars, laid, bypassed>>

evaluate(w) ==
    /\ Now("evaluate", w)
    /\ laid' = [v \in View |-> IF home[v] # w THEN laid[v]
                               ELSE IF v \in Panel THEN eve_visible[v] ELSE told[v]]
    /\ Done
    /\ UNCHANGED <<sheet_vars, queue_vars, panel_vars, window_vars, bypassed>>

\* A widget that throws while it is measured or placed ends the whole event;
\* what is queued stays queued.  (A throw while a window opens is WindowServer's.)
evaluate_throws(w) ==
    /\ MayThrow /\ Room /\ Now("evaluate", w) /\ w \in shown
    /\ todo' = <<>>
    /\ bypassed' = TRUE
    /\ UNCHANGED <<sheet_vars, queue_vars, panel_vars, window_vars, laid>>

show(w) ==
    /\ Now("show", w)
    /\ visible' = [p \in Panel |-> visible[p] \/ Contains(show_queue[w], p)]
    /\ show_queue' = [show_queue EXCEPT ![w] = <<>>]
    /\ force' = [force EXCEPT ![w] = FALSE]
    /\ Done
    /\ UNCHANGED <<sheet_vars, hide_queue, told, inited, eve_visible, window_vars, laid, bypassed>>

show_window(w) ==
    /\ Now("show_window", w)
    /\ shown' = shown \cup {w}
    /\ Done
    /\ UNCHANGED <<sheet_vars, queue_vars, panel_vars, windows, laid, bypassed>>

Next ==
    \/ \E c \in Cell, b \in BOOLEAN : touch_set_update(c, b) \/ proxy_button_hit(c, b)
    \/ \E cells \in SUBSET Cell, b \in BOOLEAN : splitter(cells, b)
    \/ \E v \in View : notify(v)
    \/ updated \/ layout
    \/ \E w \in Window :
          \/ reset(w) \/ make_view(w) \/ close(w)
          \/ update(w) \/ hide(w) \/ evaluate(w) \/ evaluate_throws(w) \/ show(w)
          \/ show_window(w)

Spec == Init /\ [][Next]_vars

------------------------------------------------------------------------------
(* Properties *)

\* Every variable holds what its declaration says; every window has one verb;
\* the panels of the open windows exist, and no others.
TypeOK ==
    /\ cell \in [Cell -> BOOLEAN] /\ contributing \in [Window -> [Cell -> BOOLEAN]]
    /\ told \in [View -> BOOLEAN] /\ laid \in [View -> BOOLEAN]
    /\ windows \in Seq(Window) /\ IsInjective(windows) /\ shown \subseteq Open
    /\ inited = [p \in Panel |-> home[p] \in Open] /\ visible \in [Panel -> BOOLEAN]
    /\ eve_visible \in [Panel -> BOOLEAN]
    /\ hide_queue \in [Window -> Seq(Panel \cup {dummy_display})]
    /\ show_queue \in [Window -> Seq(Panel \cup {dummy_display})]
    /\ force \in [Window -> BOOLEAN] /\ todo \in Seq(Step) /\ bypassed \in BOOLEAN

\* The screen, eve and the sheet agree about a window, and its layout was made
\* from the values its views display.
InSync(w) ==
    /\ \A p \in Panels(w) : visible[p] = cell[bound[p]] /\ eve_visible[p] = cell[bound[p]]
    /\ \A v \in Views(w) : laid[v] = cell[bound[v]]

InStep == \A w \in shown : InSync(w)

\* factory.hpp says the root behavior is there so that all the views of a sheet
\* are updated "so there are no hide/show sync issues".  Between events, as long
\* as every change has come with the root behavior, nothing waits to be hidden,
\* laid out or shown, in any window of the sheet.
SettledAtRest == todo = <<>> /\ ~bypassed => InStep

\* The same without the condition, of the instants when the root behavior has
\* just run to its end.
RelayoutSettles ==
    [][todo # <<>> /\ todo' = <<>> /\ Head(todo)[1] \in {"window", "show"} => InStep']_vars

\* The queues are there for this order: in a window on the screen, a panel is
\* never visible unless eve has laid it out visible.
NeverShownUnplaced ==
    ~bypassed => \A w \in shown, p \in Panel : home[p] = w /\ visible[p] => laid[p]

\* A panel its cell shows is on the screen or is queued to be, whatever events
\* bypass the root behavior and whatever throws: only a hide can be lost.
ShowsNeverLost ==
    \A p \in Panel : home[p] \in Open /\ told[p] =>
        visible[p] \/ Contains(show_queue[home[p]], p)

\* eve never disagrees with the values displayed: it is told of a change at
\* once and the screen later.
EveFollowsDisplay ==
    \A p \in Panel : home[p] \in Open => eve_visible[p] = told[p]
===============================================================================
