------------------------------- MODULE Behavior -------------------------------
(***************************************************************************)
(* behavior_t (adobe/future/behavior.hpp, adobe/future/source/behavior.cpp) *)
(*                                                                         *)
(* A behavior keeps its entries in three containers: the list of verbs,    *)
(* the list of nested behaviors, and a vector that says, entry by entry,   *)
(* from which of the two lists the next one comes.  A call walks the       *)
(* vector with one iterator into each container, and trusts the three to   *)
(* agree.  The model keeps the three containers and the three iterators.   *)
(*                                                                         *)
(* A call is a sequence of steps, because a verb is client code: while it  *)
(* runs it may insert into, disconnect from and call other behaviors.  It  *)
(* does not touch a behavior that is running: order_set_m is a vector and  *)
(* the call holds iterators into it, so that is undefined, and no caller   *)
(* in the repository does it.                                              *)
(***************************************************************************)
EXTENDS Naturals, Sequences, FiniteSets, SequencesExt

CONSTANTS Verb,        \* verb tokens: the list node an insert returns
          Queue,       \* the behavior_t objects
          Roots,       \* those a client declares; the others are nested
          SingleRoots  \* the roots constructed with single_execution true

ASSUME RootsAssumption == SingleRoots \subseteq Roots /\ Roots \subseteq Queue
ASSUME DisjointAssumption == Verb \cap Queue = {}

VARIABLES single_execution,  \* [Queue -> BOOLEAN]
          verb_set,          \* [Queue -> Seq(Verb)]
          behavior_set,      \* [Queue -> Seq(Queue)]
          order_set,         \* [Queue -> Seq(Kind)]
          frames             \* the activations of operator(), innermost last

vars == <<single_execution, verb_set, behavior_set, order_set, frames>>
containers == <<single_execution, verb_set, behavior_set, order_set>>

Kind == {"verb", "behavior"}

\* One activation: `at`, `verb` and `behavior` are the positions of first,
\* vfirst and bfirst; `busy` while the verb at vfirst runs.
Frame == [queue : Queue, at : Nat \ {0}, verb : Nat \ {0}, behavior : Nat \ {0},
          busy : BOOLEAN]

------------------------------------------------------------------------------
(* Helpers *)

Top == frames[Len(frames)]
Running(q) == \E i \in DOMAIN frames : frames[i].queue = q
VerbHeld(v) == \E q \in Queue : Contains(verb_set[q], v)
Nested(c) == \E q \in Queue : Contains(behavior_set[q], c)
Live(q) == q \in Roots \/ Nested(q)
ClientRuns == frames # <<>> => Top.busy

\* How many of the first n entries are of kind k.
Count(order, k, n) == Cardinality({i \in 1..n : i \in DOMAIN order /\ order[i] = k})

\* The position in the order of the index-th (from 1) entry of kind k.
Position(order, k, index) ==
    CHOOSE i \in DOMAIN order : order[i] = k /\ Count(order, k, i) = index

\* Wrong: an index into one list is not an index into the order.
erase_at_index(order, k, index) == RemoveAt(order, index)

\* Wrong: the last entry of the kind is not the one that goes.
erase_last_of_kind(order, k, index) ==
    RemoveAt(order, Position(order, k, Count(order, k, Len(order))))

erase_from_order(order, k, index) == RemoveAt(order, Position(order, k, index))

\* std::distance from begin() to the node.
IndexOf(list, e) == CHOOSE i \in DOMAIN list : list[i] = e

------------------------------------------------------------------------------
(* The operations of behavior_t *)

Init ==
    /\ single_execution = [q \in Queue |-> q \in SingleRoots]
    /\ verb_set = [q \in Queue |-> <<>>]
    /\ behavior_set = [q \in Queue |-> <<>>]
    /\ order_set = [q \in Queue |-> <<>>]
    /\ frames = <<>>

insert(q, v) ==
    /\ ClientRuns /\ Live(q) /\ ~Running(q) /\ ~VerbHeld(v)
    /\ order_set' = [order_set EXCEPT ![q] = Append(@, "verb")]
    /\ verb_set' = [verb_set EXCEPT ![q] = Append(@, v)]
    /\ UNCHANGED <<single_execution, behavior_set, frames>>

insert_behavior(q, c, single) ==
    /\ ClientRuns /\ Live(q) /\ ~Running(q)
    /\ c \notin Roots /\ c # q /\ ~Nested(c)
    /\ order_set' = [order_set EXCEPT ![q] = Append(@, "behavior"), ![c] = <<>>]
    /\ behavior_set' = [behavior_set EXCEPT ![q] = Append(@, c), ![c] = <<>>]
    /\ verb_set' = [verb_set EXCEPT ![c] = <<>>]
    /\ single_execution' = [single_execution EXCEPT ![c] = single]
    /\ UNCHANGED frames

disconnect_verb(q, v) ==
    /\ ClientRuns /\ Live(q) /\ ~Running(q) /\ Contains(verb_set[q], v)
    /\ LET index == IndexOf(verb_set[q], v)
       IN /\ verb_set' = [verb_set EXCEPT ![q] = RemoveAt(@, index)]
          /\ order_set' = [order_set EXCEPT ![q] = erase_from_order(@, "verb", index)]
    /\ UNCHANGED <<single_execution, behavior_set, frames>>

\* The erased behavior's own containers go with it.
disconnect_behavior(q, c) ==
    /\ ClientRuns /\ Live(q) /\ ~Running(q) /\ Contains(behavior_set[q], c)
    /\ LET n == IndexOf(behavior_set[q], c)
       IN /\ behavior_set' = [behavior_set EXCEPT ![q] = RemoveAt(@, n), ![c] = <<>>]
          /\ order_set' = [order_set EXCEPT ![q] = erase_from_order(@, "behavior", n),
                                            ![c] = <<>>]
          /\ verb_set' = [verb_set EXCEPT ![c] = <<>>]
    /\ UNCHANGED <<single_execution, frames>>

------------------------------------------------------------------------------
(* operator(): the call, the loop over the order, the clearing *)

\* Wrong: vfirst starts one before the first verb.
EnterBeforeBegin(q) == [queue |-> q, at |-> 1, verb |-> 0, behavior |-> 1, busy |-> FALSE]

Enter(q) == [queue |-> q, at |-> 1, verb |-> 1, behavior |-> 1, busy |-> FALSE]
AtEntry(k) ==
    /\ frames # <<>> /\ ~Top.busy
    /\ Top.at <= Len(order_set[Top.queue]) /\ order_set[Top.queue][Top.at] = k

\* Clients call the behaviors they declare (a nested one runs when its parent
\* does), possibly from a verb of another one: visible_change_queue_t::update
\* is such a verb.  A call on an empty behavior returns at once: no step.
call(q) ==
    /\ ClientRuns /\ q \in Roots /\ ~Running(q) /\ order_set[q] # <<>>
    /\ frames' = Append(frames, Enter(q))
    /\ UNCHANGED containers

run_verb ==
    /\ AtEntry("verb")
    /\ frames' = [frames EXCEPT ![Len(frames)].busy = TRUE]
    /\ UNCHANGED containers

verb_returns ==
    /\ frames # <<>> /\ Top.busy
    /\ frames' = [frames EXCEPT ![Len(frames)] =
                    [Top EXCEPT !.busy = FALSE, !.at = @ + 1, !.verb = @ + 1]]
    /\ UNCHANGED containers

\* Nothing in operator() catches: the exception unwinds every activation,
\* past the clearing of the single-execution ones.
verb_throws ==
    /\ frames # <<>> /\ Top.busy
    /\ frames' = <<>>
    /\ UNCHANGED containers

\* Wrong: bfirst is not advanced.
run_behavior_keeps_bfirst ==
    /\ AtEntry("behavior")
    /\ LET c == behavior_set[Top.queue][Top.behavior]
           past == [frames EXCEPT ![Len(frames)] = [Top EXCEPT !.at = @ + 1]]
       IN frames' = IF order_set[c] = <<>> THEN past ELSE Append(past, Enter(c))
    /\ UNCHANGED containers

run_behavior ==
    /\ AtEntry("behavior")
    /\ LET c == behavior_set[Top.queue][Top.behavior]
           past == [frames EXCEPT ![Len(frames)] =
                      [Top EXCEPT !.at = @ + 1, !.behavior = @ + 1]]
       IN frames' = IF order_set[c] = <<>> THEN past ELSE Append(past, Enter(c))
    /\ UNCHANGED containers

finish ==
    /\ frames # <<>> /\ ~Top.busy
    /\ Top.at > Len(order_set[Top.queue])
    /\ IF single_execution[Top.queue]
       THEN LET gone == {Top.queue} \cup ToSet(behavior_set[Top.queue])
                Cleared(f) == [q \in Queue |-> IF q \in gone THEN <<>> ELSE f[q]]
            IN /\ behavior_set' = Cleared(behavior_set)
               /\ verb_set' = Cleared(verb_set)
               /\ order_set' = Cleared(order_set)
       ELSE UNCHANGED <<behavior_set, verb_set, order_set>>
    /\ frames' = Front(frames)
    /\ UNCHANGED single_execution

Next ==
    \/ \E q \in Queue, v \in Verb : insert(q, v) \/ disconnect_verb(q, v)
    \/ \E q, c \in Queue : \/ disconnect_behavior(q, c)
                           \/ \E s \in BOOLEAN : insert_behavior(q, c, s)
    \/ \E q \in Roots : call(q)
    \/ run_verb \/ verb_returns \/ verb_throws \/ run_behavior \/ finish

Spec == Init /\ [][Next]_vars

------------------------------------------------------------------------------
(* Properties *)

\* Every container holds what its declaration says.
TypeOK ==
    /\ single_execution \in [Queue -> BOOLEAN]
    /\ verb_set \in [Queue -> Seq(Verb)]
    /\ behavior_set \in [Queue -> Seq(Queue)]
    /\ order_set \in [Queue -> Seq(Kind)]
    /\ frames \in Seq(Frame)

\* behavior_t::operator() asserts that the order vector is as long as the two
\* lists together.  Stronger: it names each list as often as the list is long.
OrderAgrees ==
    \A q \in Queue :
        /\ Count(order_set[q], "verb", Len(order_set[q])) = Len(verb_set[q])
        /\ Count(order_set[q], "behavior", Len(order_set[q])) = Len(behavior_set[q])

\* The loop never dereferences vfirst or bfirst at the end of its list, and
\* when it ends it has run every verb and behavior: clearing loses nothing.
IteratorsInRange ==
    \A i \in DOMAIN frames :
        LET f == frames[i]
            order == order_set[f.queue]
        IN /\ f.at <= Len(order) /\ order[f.at] = "verb" =>
                  f.verb \in DOMAIN verb_set[f.queue]
           /\ f.at <= Len(order) /\ order[f.at] = "behavior" =>
                  f.behavior \in DOMAIN behavior_set[f.queue]
           /\ f.at > Len(order) => /\ f.verb = Len(verb_set[f.queue]) + 1
                                   /\ f.behavior = Len(behavior_set[f.queue]) + 1

\* Why that holds.  A behavior is nested in at most one place, once, and never
\* a declared one.
NestedOnce ==
    /\ \A p, q \in Queue : \A i \in DOMAIN behavior_set[p], j \in DOMAIN behavior_set[q] :
           behavior_set[p][i] = behavior_set[q][j] => p = q /\ i = j
    /\ \A q \in Queue : \A i \in DOMAIN behavior_set[q] : behavior_set[q][i] \notin Roots

\* A nested behavior runs only under its parent, no behavior runs twice, and
\* vfirst and bfirst count the entries of their kind that first has passed.
FramesAgree ==
    /\ \A i, j \in DOMAIN frames : frames[i].queue = frames[j].queue => i = j
    /\ \A i \in DOMAIN frames :
           \/ frames[i].queue \in Roots
           \/ i > 1 /\ Contains(behavior_set[frames[i - 1].queue], frames[i].queue)
    /\ \A i \in DOMAIN frames :
           LET f == frames[i]
               order == order_set[f.queue]
           IN /\ f.at <= Len(order) + 1
              /\ f.verb = Count(order, "verb", f.at - 1) + 1
              /\ f.behavior = Count(order, "behavior", f.at - 1) + 1
              /\ f.busy => f.at <= Len(order) /\ order[f.at] = "verb"

\* The inductive invariant.
Inv == TypeOK /\ OrderAgrees /\ NestedOnce /\ FramesAgree

\* The entries in the order of insertion, recovered from the three containers: each
\* comes from the list its kind names, at the place the entries before it leave.
Interleaved(order, lists) ==
    [i \in DOMAIN order |-> lists[order[i]][Count(order, order[i], i)]]
ListsOf(q) == [k \in Kind |-> IF k = "verb" THEN verb_set[q] ELSE behavior_set[q]]
EntriesSeen == [q \in Queue |-> Interleaved(order_set[q], ListsOf(q))]

\* The activations without their iterators into the lists.
CallsOf(fs) ==
    [i \in DOMAIN fs |-> [queue |-> fs[i].queue, at |-> fs[i].at, busy |-> fs[i].busy]]

\* The three containers and three iterators implement one list of entries,
\* visited in insertion order whatever was disconnected in between.
Abstract == INSTANCE EntryQueue WITH
    single <- single_execution, entries <- EntriesSeen, calls <- CallsOf(frames)
ImplementsEntryQueue == Abstract!Spec
===============================================================================
