------------------------------ MODULE Sentences ------------------------------
(***************************************************************************)
(* The sentence command system (test/sentences/command_system.cpp): verbs  *)
(* with what they require of a subject and of a direct object.  The        *)
(* command table has an entry for every sentence and nouns that meet the   *)
(* requirements, and in it whether it was enabled when last looked at; a   *)
(* sentence's monitor hears of each change and may call back.              *)
(*                                                                         *)
(* The table is a vector, sorted by another of its columns whenever a      *)
(* search needs it.  A loop walks over it by position, so a monitor must   *)
(* not make a search that sorts it again under a loop: SafeCall says what  *)
(* it may do.  Then a loop is the keys that are still to come.             *)
(***************************************************************************)
EXTENDS Naturals, Sequences, Functions

CONSTANTS Sentence, Binary,   \* addresses of sentences; those with a direct object
          Subject, DirectObject,
          no_dirobj,          \* the third column of a unary sentence
          MaxCalls            \* bound of the model: how deep calls nest

Noun == Subject \cup DirectObject
Part == Sentence \cup Noun
Key == ((Sentence \ Binary) \X Subject \X {no_dirobj}) \cup (Binary \X Subject \X DirectObject)

SentencesAssumption ==
    /\ Binary \subseteq Sentence /\ MaxCalls \in Nat \ {0}
    /\ Sentence \cap Noun = {} /\ Subject \cap DirectObject = {} /\ no_dirobj \notin Part

VARIABLES present,       \* sentence_set_m, subject_tree_m and dirobj_tree_m
          part_enabled,  \* [Part -> BOOLEAN]: second of each pair, TRUE of no pair
          meets,         \* [Noun -> BOOLEAN]: whether it meets the requirements
          unswept,       \* nouns that changed and that update was not called for
          table_m,       \* [a subset of Key -> BOOLEAN]: the entries' last_m
          notify_table_m,\* the sentences, there or not, that have a monitor
          heard,         \* [Key -> what a monitor heard of it last]
          frames,        \* the calls that have not returned, innermost first
          in_monitor     \* a monitor is called

sentence_vars == <<present, part_enabled, meets, unswept, table_m,
                   notify_table_m, heard, frames, in_monitor>>

NoSentences ==
    /\ present = {} /\ part_enabled = [x \in Part |-> TRUE]
    /\ meets = [x \in Noun |-> FALSE] /\ unswept = {}
    /\ table_m = [k \in {} |-> TRUE] /\ notify_table_m = {}
    /\ heard = [k \in Key |-> "removed"]
    /\ frames = <<>> /\ in_monitor = FALSE

Init == NoSentences

entries == DOMAIN table_m
PartsOf(k) == {k[1], k[2], k[3]} \ {no_dirobj}
equal_range(x) == {k \in entries : x \in PartsOf(k)}
column(x) == CASE x \in Sentence -> 1 [] x \in Subject -> 2 [] x \in DirectObject -> 3

Compatible(k) == \A x \in PartsOf(k) \cap Noun : meets[x]
AllEnabled(k) == \A x \in PartsOf(k) : part_enabled[x]
StateOf(enabled) == IF enabled THEN "enabled" ELSE "disabled"

Client == frames = <<>>

\* The column a loop has the table sorted by; the last entry to be erased was
\* found by all three.
sorted_to(frame) == IF frame.op = "erase" THEN 0 ELSE column(frame.of)

\* A monitor may make a search by column to if no loop is under way over a table
\* sorted otherwise.  A sweep searches anew for each of its keys.
SafeCall(to) ==
    /\ in_monitor /\ Len(frames) < MaxCalls
    /\ \A i \in DOMAIN frames : frames[i].op = "sweep" \/ to = sorted_to(frames[i])
MayCall(to) == Client \/ SafeCall(to)

------------------------------------------------------------------------------
(* Events *)

entry_event(k, what) ==
    IF k[1] \in notify_table_m
    THEN heard' = [heard EXCEPT ![k] = what] /\ in_monitor' = TRUE
    ELSE in_monitor' = FALSE /\ UNCHANGED heard

\* The innermost loop goes on: the monitor it called has returned.
Loop(op) == frames # <<>> /\ Head(frames).op = op
Goes_on(k) == frames' = <<[Head(frames) EXCEPT !.rest = @ \ {k}]>> \o Tail(frames)

\* It ends, and its call returns to a monitor if there is a call around it.
ends ==
    /\ frames' = Tail(frames)
    /\ in_monitor' = (Tail(frames) # <<>>)
    /\ UNCHANGED heard

------------------------------------------------------------------------------
(* Parts come, change and go *)

\* A sweep looks at every sentence with the noun, or at all nouns with the sentence,
\* among the parts there are.
sweep_for(x, there) ==
    frames' = <<[op |-> "sweep", of |-> x,
                 rest |-> {k \in Key : x \in PartsOf(k) /\ PartsOf(k) \subseteq there}]>>

\* A part is enabled at first.  Its address may be one that was used before.
insert(x) ==
    /\ Client /\ x \notin present
    /\ present' = present \cup {x}
    /\ \E b \in BOOLEAN : meets' = [y \in Noun |-> IF y = x THEN b ELSE meets[y]]
    /\ sweep_for(x, present')
    /\ UNCHANGED <<part_enabled, unswept, table_m, notify_table_m, heard, in_monitor>>

\* The client changes what a noun is like; it tells the system by update.
changes(x) ==
    /\ Client /\ x \in present
    /\ meets' = [meets EXCEPT ![x] = ~@]
    /\ unswept' = unswept \cup {x}
    /\ UNCHANGED <<present, part_enabled, table_m, notify_table_m, heard,
                   frames, in_monitor>>

update(x) ==
    /\ Client /\ x \in unswept
    /\ unswept' = unswept \ {x}
    /\ sweep_for(x, present)
    /\ UNCHANGED <<present, part_enabled, meets, table_m, notify_table_m, heard,
                   in_monitor>>

\* validation of one key: an incompatible entry is erased, after its monitor heard
\* of it; a compatible one is inserted.
validation ==
    /\ Loop("sweep")
    /\ \E k \in Head(frames).rest :
          /\ CASE k \in entries /\ ~Compatible(k) ->
                      /\ entry_event(k, "removed")
                      /\ frames' = <<[op |-> "erase", of |-> k, rest |-> {}],
                                     [Head(frames) EXCEPT !.rest = @ \ {k}]>> \o Tail(frames)
                      /\ UNCHANGED table_m
               [] k \notin entries /\ Compatible(k) ->
                      /\ table_m' = [e \in entries \cup {k} |->
                                        IF e = k THEN AllEnabled(k) ELSE table_m[e]]
                      /\ entry_event(k, StateOf(AllEnabled(k)))
                      /\ Goes_on(k)
               [] OTHER -> Goes_on(k) /\ in_monitor' = FALSE /\ UNCHANGED <<table_m, heard>>
    /\ UNCHANGED <<present, part_enabled, meets, unswept, notify_table_m>>

erase_entry ==
    /\ Loop("erase")
    /\ table_m' = Restrict(table_m, entries \ {Head(frames).of})
    /\ frames' = Tail(frames) /\ in_monitor' = FALSE
    /\ UNCHANGED <<present, part_enabled, meets, unswept, notify_table_m, heard>>

\* The monitors of a part's entries hear that they go; then they go, and the part.
\* A sentence's monitor stays in the notify table.
erase(x) ==
    /\ Client /\ x \in present
    /\ frames' = <<[op |-> "remove", of |-> x, rest |-> equal_range(x)]>>
    /\ UNCHANGED <<present, part_enabled, meets, unswept, table_m, notify_table_m, heard,
                   in_monitor>>

\* Wrong: they go, and nobody hears of it.
remove_event_silent ==
    /\ Loop("remove") /\ Head(frames).rest # {}
    /\ \E k \in Head(frames).rest : Goes_on(k)
    /\ in_monitor' = FALSE
    /\ UNCHANGED <<present, part_enabled, meets, unswept, table_m, notify_table_m, heard>>

remove_event ==
    /\ Loop("remove")
    /\ \E k \in Head(frames).rest : entry_event(k, "removed") /\ Goes_on(k)
    /\ UNCHANGED <<present, part_enabled, meets, unswept, table_m, notify_table_m>>

remove_ends ==
    /\ Loop("remove") /\ Head(frames).rest = {}
    /\ LET x == Head(frames).of
       IN  /\ table_m' = Restrict(table_m, entries \ equal_range(x))
           /\ present' = present \ {x} /\ unswept' = unswept \ {x}
           /\ part_enabled' = [part_enabled EXCEPT ![x] = TRUE]
           /\ meets' = [y \in Noun |-> y # x /\ meets[y]]
    /\ ends
    /\ UNCHANGED notify_table_m

------------------------------------------------------------------------------
(* Enabling, from outside or out of a monitor *)

\* A part that is being erased is not enabled.
enable(x, b) ==
    /\ x \in present /\ MayCall(column(x))
    /\ \A i \in DOMAIN frames : frames[i].op = "remove" => frames[i].of # x
    /\ part_enabled' = [part_enabled EXCEPT ![x] = b]
    /\ frames' = <<[op |-> "update", of |-> x, rest |-> equal_range(x)]>> \o frames
    /\ in_monitor' = FALSE
    /\ UNCHANGED <<present, meets, unswept, table_m, notify_table_m, heard>>

\* Wrong: an entry is enabled as the part is, whatever its others.
update_enable_state_of_part ==
    /\ Loop("update")
    /\ \E k \in Head(frames).rest :
          LET enabled == part_enabled[Head(frames).of]
          IN  /\ Goes_on(k)
              /\ table_m' = [table_m EXCEPT ![k] = enabled]
              /\ IF table_m[k] = enabled THEN in_monitor' = FALSE /\ UNCHANGED heard
                 ELSE entry_event(k, StateOf(enabled))
    /\ UNCHANGED <<present, part_enabled, meets, unswept, notify_table_m>>

\* An entry whose state is new is told.
update_enable_state ==
    /\ Loop("update")
    /\ \E k \in Head(frames).rest :
          /\ Goes_on(k)
          /\ table_m' = [table_m EXCEPT ![k] = AllEnabled(k)]
          /\ IF table_m[k] = AllEnabled(k)
             THEN in_monitor' = FALSE /\ UNCHANGED heard
             ELSE entry_event(k, StateOf(AllEnabled(k)))
    /\ UNCHANGED <<present, part_enabled, meets, unswept, notify_table_m>>

returns ==
    /\ frames # <<>> /\ Head(frames).op \in {"sweep", "update"} /\ Head(frames).rest = {}
    /\ ends
    /\ UNCHANGED <<present, part_enabled, meets, unswept, table_m, notify_table_m>>

\* A monitor is not told what entries there are, and is the only one of its sentence.
monitor(s) ==
    /\ Client /\ s \in present \ notify_table_m
    /\ notify_table_m' = notify_table_m \cup {s}
    /\ heard' = [k \in Key |-> IF k \in equal_range(s) THEN "untold" ELSE heard[k]]
    /\ UNCHANGED <<present, part_enabled, meets, unswept, table_m, frames, in_monitor>>

SentencesNext ==
    \/ \E x \in Part : insert(x) \/ erase(x)
    \/ \E x \in Noun : changes(x) \/ update(x)
    \/ \E x \in Part, b \in BOOLEAN : enable(x, b)
    \/ \E s \in Sentence : monitor(s)
    \/ validation \/ erase_entry \/ remove_event \/ remove_ends
    \/ update_enable_state \/ returns

------------------------------------------------------------------------------
(* Properties *)

\* When the calls have returned there is an entry for just the parts that are there
\* and compatible, but for nouns that changed and were not updated, and it is
\* enabled if all of its parts are.
TableIsCurrent ==
    Client =>
        /\ \A k \in entries : PartsOf(k) \subseteq present /\ table_m[k] = AllEnabled(k)
        /\ \A k \in Key : PartsOf(k) \subseteq present /\ PartsOf(k) \cap unswept = {} =>
                (k \in entries <=> Compatible(k))

\* Then also, what a monitor heard last of an entry is how it is.
MonitorsHeardTable ==
    Client =>
        \A k \in Key : k[1] \in notify_table_m =>
            heard[k] \in {"untold", IF k \in entries THEN StateOf(table_m[k]) ELSE "removed"}
===============================================================================
