------------------------------ MODULE EntryQueue ------------------------------
(***************************************************************************)
(* What a behavior_t promises its clients: an ordered list of entries.     *)
(* An entry is a verb (a callback) or a nested queue.  Calling a queue     *)
(* visits its entries first to last, running verbs and calling nested      *)
(* queues depth first; a single-execution queue is empty afterwards.       *)
(* Nothing here says how the list is represented.                          *)
(***************************************************************************)
EXTENDS Naturals, Sequences, SequencesExt

CONSTANTS Verb,        \* the callbacks that can be inserted, one token each
          Queue,       \* the queues, declared and nested
          Roots,       \* the queues a client declares
          SingleRoots  \* those of them that are single-execution queues

VARIABLES single,   \* [Queue -> BOOLEAN]: emptied by a completed call
          entries,  \* [Queue -> Seq(Verb \cup Queue)]
          calls     \* the activations of queues under way, innermost last

vars == <<single, entries, calls>>

Top == calls[Len(calls)]
Active(q) == \E i \in DOMAIN calls : calls[i].queue = q
Held(e) == \E q \in Queue : Contains(entries[q], e)
Live(q) == q \in Roots \/ Held(q)

\* Clients run between calls, or inside a verb the innermost call runs.
ClientRuns == calls # <<>> => Top.busy

AtEntry == calls # <<>> /\ ~Top.busy /\ Top.at <= Len(entries[Top.queue])
Here == entries[Top.queue][Top.at]
Activation(q) == [queue |-> q, at |-> 1, busy |-> FALSE]

Init ==
    /\ single = [q \in Queue |-> q \in SingleRoots]
    /\ entries = [q \in Queue |-> <<>>]
    /\ calls = <<>>

Insert(q, v) ==
    /\ ClientRuns /\ Live(q) /\ ~Active(q) /\ ~Held(v)
    /\ entries' = [entries EXCEPT ![q] = Append(@, v)]
    /\ UNCHANGED <<single, calls>>

InsertQueue(q, c, s) ==
    /\ ClientRuns /\ Live(q) /\ ~Active(q)
    /\ c \notin Roots /\ c # q /\ ~Held(c)
    /\ entries' = [entries EXCEPT ![q] = Append(@, c), ![c] = <<>>]
    /\ single' = [single EXCEPT ![c] = s]
    /\ UNCHANGED calls

Disconnect(q, e) ==
    /\ ClientRuns /\ Live(q) /\ ~Active(q)
    /\ \E i \in DOMAIN entries[q] :
          /\ entries[q][i] = e
          /\ entries' = [p \in Queue |-> IF p = q THEN RemoveAt(entries[q], i)
                                         ELSE IF p = e THEN <<>> ELSE entries[p]]
    /\ UNCHANGED <<single, calls>>

Call(q) ==
    /\ ClientRuns /\ q \in Roots /\ ~Active(q) /\ entries[q] # <<>>
    /\ calls' = Append(calls, Activation(q))
    /\ UNCHANGED <<single, entries>>

RunVerb ==
    /\ AtEntry /\ Here \in Verb
    /\ calls' = [calls EXCEPT ![Len(calls)].busy = TRUE]
    /\ UNCHANGED <<single, entries>>

VerbReturns ==
    /\ calls # <<>> /\ Top.busy
    /\ calls' = [calls EXCEPT ![Len(calls)].busy = FALSE, ![Len(calls)].at = @ + 1]
    /\ UNCHANGED <<single, entries>>

\* An exception leaves every call under way, and every queue as it is.
VerbThrows ==
    /\ calls # <<>> /\ Top.busy
    /\ calls' = <<>>
    /\ UNCHANGED <<single, entries>>

CallNested ==
    /\ AtEntry /\ Here \in Queue
    /\ LET past == [calls EXCEPT ![Len(calls)].at = @ + 1]
       IN calls' = IF entries[Here] = <<>> THEN past ELSE Append(past, Activation(Here))
    /\ UNCHANGED <<single, entries>>

Return ==
    /\ calls # <<>> /\ ~Top.busy /\ Top.at > Len(entries[Top.queue])
    /\ entries' = IF single[Top.queue]
                  THEN [p \in Queue |-> IF p = Top.queue \/ Contains(entries[Top.queue], p)
                                        THEN <<>> ELSE entries[p]]
                  ELSE entries
    /\ calls' = Front(calls)
    /\ UNCHANGED single

Next ==
    \/ \E q \in Queue, v \in Verb : Insert(q, v) \/ Disconnect(q, v)
    \/ \E q, c \in Queue : Disconnect(q, c) \/ \E s \in BOOLEAN : InsertQueue(q, c, s)
    \/ \E q \in Roots : Call(q)
    \/ RunVerb \/ VerbReturns \/ VerbThrows \/ CallNested \/ Return

Spec == Init /\ [][Next]_vars
===============================================================================
