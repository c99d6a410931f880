----------------------------- MODULE WindowServer -----------------------------
(***************************************************************************)
(* The windows of a sheet: window_server_t, the application that owns it,  *)
(* and the deferred procedures that close a window once its event is over. *)
(*                                                                         *)
(* A window lives in a list node.  The node exists, holding NULL, before   *)
(* the window is made, and its iterator is bound into the window's action  *)
(* procedure.  ok and cancel put a call of erase(iterator) into the general *)
(* deferred procedure queue; the main loop runs the queue.  On Windows it  *)
(* does so after every message; on the Macintosh a timer does, and other   *)
(* events may come first.  The queue is a single-execution behavior_t:     *)
(* Behavior says what running one does.                                    *)
(***************************************************************************)
EXTENDS Naturals, Sequences, FiniteSets, SequencesExt

CONSTANTS Node,          \* list nodes; a freed one may be allocated again
          Server,        \* where a window_server_t can live, freed and reused
          DrainEach,     \* the main loop drains after each message (Windows)
          MayFail,       \* whether make_view and evaluate may throw
          QueueBound,    \* procedures waiting in the queue
          null

ASSUME ParametersAssumption ==
    /\ QueueBound \in Nat /\ null \notin Server
    /\ DrainEach \in BOOLEAN /\ MayFail \in BOOLEAN

VARIABLES server,       \* _holder_m, the application's window server, or null
          window_list,  \* Seq(Node): window_list_m
          holder,       \* [Node -> {"null", "view"}]: *iterator
          shown,        \* nodes whose window has been shown
          root,         \* Seq(Node): the windows' verbs in _behavior_m
          queue,        \* Seq of erase calls in the deferred procedure queue
          opening,      \* the node push_back works on, or none
          draining      \* the main loop is inside the queue

vars == <<server, window_list, holder, shown, root, queue, opening, draining>>

Erase == [server : Server, node : Node]
none == {}
Views == {n \in ToSet(window_list) : holder[n] = "view"}

\* Wrong: the loop goes on to the next event before it has run the queue.
IdleBeforeDrain == opening = none /\ ~draining

\* The main loop dispatches an event: nothing is under way, and on Windows
\* the queue has been run since the last one.
Idle == opening = none /\ ~draining /\ (DrainEach => queue = <<>>)

Init ==
    /\ server = null
    /\ window_list = <<>>
    /\ holder = [n \in Node |-> "null"]
    /\ shown = {} /\ root = <<>> /\ queue = <<>>
    /\ opening = none /\ draining = FALSE

------------------------------------------------------------------------------
(* Opening a window *)

\* push_back: the node comes first, with NULL in it.
insert_node(n) ==
    /\ n \notin ToSet(window_list)
    /\ window_list' = Append(window_list, n)
    /\ holder' = [holder EXCEPT ![n] = "null"]
    /\ opening' = {n}

\* display_window makes a server if there is none.
display_window(n) ==
    /\ Idle
    /\ IF server = null THEN server' \in Server ELSE UNCHANGED server
    /\ insert_node(n)
    /\ UNCHANGED <<shown, root, queue, draining>>

\* The action "dialog" of a window: the path is taken from the last window.
dialog(w, n) ==
    /\ Idle /\ w \in shown
    /\ holder[Last(window_list)] = "view"
    /\ insert_node(n)
    /\ UNCHANGED <<server, shown, root, queue, draining>>

\* eve_client_holder's constructor puts the window's verb into the behavior.
make_view(n) ==
    /\ opening = {n} /\ holder[n] = "null"
    /\ holder' = [holder EXCEPT ![n] = "view"]
    /\ root' = Append(root, n)
    /\ UNCHANGED <<server, window_list, shown, queue, opening, draining>>

show_window(n) ==
    /\ opening = {n} /\ holder[n] = "view"
    /\ shown' = shown \cup {n}
    /\ opening' = none
    /\ UNCHANGED <<server, window_list, holder, root, queue, draining>>

\* The Eve definition does not parse, or a widget throws in the first layout:
\* nothing takes the node out of the list again.
push_back_throws(n) ==
    /\ MayFail /\ opening = {n}
    /\ opening' = none
    /\ UNCHANGED <<server, window_list, holder, shown, root, queue, draining>>

------------------------------------------------------------------------------
(* Closing one *)

\* ok and cancel; the window's iterator is bound into the call.
close_action(w) ==
    /\ Idle /\ w \in shown /\ Len(queue) < QueueBound
    /\ queue' = Append(queue, [server |-> server, node |-> w])
    /\ UNCHANGED <<server, window_list, holder, shown, root, opening, draining>>

\* The main loop calls the queue.
drain ==
    /\ opening = none /\ ~draining /\ queue # <<>>
    /\ draining' = TRUE
    /\ UNCHANGED <<server, window_list, holder, shown, root, queue, opening>>

\* Nodes and verbs are in their lists once.
Without(list, n) ==
    IF n \in ToSet(list) THEN RemoveAt(list, CHOOSE i \in DOMAIN list : list[i] = n) ELSE list

\* Wrong: a destroyed window's verb stays in the root behavior.
DestroyedKeepsVerb(n) ==
    /\ shown' = shown \ {n}
    /\ holder' = [holder EXCEPT ![n] = "null"]
    /\ UNCHANGED root

\* ~eve_client_holder takes the window's verb out of the behavior.
Destroyed(n) ==
    /\ shown' = shown \ {n}
    /\ holder' = [holder EXCEPT ![n] = "null"]
    /\ root' = Without(root, n)

\* erase(iterator), the next of the queue.  Defined only for a node of a list
\* that exists.
Valid(e) == e.server = server /\ e.node \in ToSet(window_list)

erase ==
    /\ draining /\ queue # <<>> /\ Valid(Head(queue))
    /\ window_list' = Without(window_list, Head(queue).node)
    /\ Destroyed(Head(queue).node)
    /\ queue' = Tail(queue)
    /\ UNCHANGED <<server, opening, draining>>

\* Wrong: the queue, a single-execution behavior, is cleared before it is run.
drained_first ==
    /\ draining
    /\ draining' = FALSE
    /\ queue' = <<>>
    /\ UNCHANGED <<server, window_list, holder, shown, root, opening>>

drained ==
    /\ draining /\ queue = <<>>
    /\ draining' = FALSE
    /\ UNCHANGED <<server, window_list, holder, shown, root, queue, opening>>

\* The server goes with all its windows, then the sheet is replaced; when the
\* new one parses, display_window follows as the next event would.
load_sheet ==
    /\ Idle
    /\ server' = null
    /\ window_list' = <<>>
    /\ shown' = {} /\ root' = <<>>
    /\ holder' = [n \in Node |-> "null"]
    /\ UNCHANGED <<queue, opening, draining>>

Next ==
    \/ \E n \in Node :
          \/ display_window(n) \/ make_view(n) \/ show_window(n) \/ push_back_throws(n)
          \/ close_action(n)
          \/ \E w \in Node : dialog(w, n)
    \/ drain \/ erase \/ drained \/ load_sheet

\* The loop runs the queue after every message, or a repeating timer does.
Drains == WF_vars(drain) /\ WF_vars(erase) /\ WF_vars(drained)
Opens == WF_vars(\E n \in Node : make_view(n) \/ show_window(n))
Spec == Init /\ [][Next]_vars /\ Drains /\ Opens

------------------------------------------------------------------------------
(* Properties *)

\* Every variable holds what its declaration says; the windows on the screen
\* are in the list.
TypeOK ==
    /\ server \in Server \cup {null}
    /\ window_list \in Seq(Node) /\ holder \in [Node -> {"null", "view"}]
    /\ shown \subseteq Views /\ root \in Seq(Node)
    /\ queue \in Seq(Erase) /\ opening \in {none} \cup {{n} : n \in Node}
    /\ draining \in BOOLEAN

\* Every call of erase that waits in the deferred procedure queue will find
\* its server and its node: window_server_t owns its windows, and erases each
\* of them once.
ErasesLive ==
    /\ \A i \in DOMAIN queue : Valid(queue[i])
    /\ \A i, j \in DOMAIN queue : queue[i] = queue[j] => i = j

\* The elements that r shares with list are in it once, and in the list's order.
Follows(r, list) ==
    \A i, j \in DOMAIN r, k, l \in DOMAIN list :
        r[i] = list[k] /\ r[j] = list[l] => (i < j <=> k < l)

\* The root behavior runs the updates of exactly the windows that exist, in
\* the order of the list, whatever failed half-way and whatever was closed.
RootFollowsList == ToSet(root) = Views /\ Follows(root, window_list)

\* A window that has been told to close leaves the screen.
CloseHappens ==
    \A n \in Node : (\E i \in DOMAIN queue : queue[i].node = n) ~> n \notin shown
===============================================================================
