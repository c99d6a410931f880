-------------------------------- MODULE Muldex --------------------------------
(***************************************************************************)
(* sequence_mvc_muldex (adobe/sequence_mvc_muldex.hpp): a sequence model    *)
(* and its widgets that know only a property model.                        *)
(*                                                                         *)
(* Two cells are the lines between them.  A widget's command is written    *)
(* into the controller line; writing updates the sheet, which hands it to   *)
(* the sequence model; the model's notification is written into the view   *)
(* line and handed to the widgets.  After each write the line is cleared   *)
(* by a second one.  All this is one nest of calls: `todo` is what is left  *)
(* of it.  The two lines are on two sheets: as the header's caveat says, a  *)
(* sheet takes no write while it updates.                                  *)
(***************************************************************************)
EXTENDS Naturals, Sequences, FiniteSets, SequencesExt, KeyLists

CONSTANTS Key,          \* the addresses list elements can have
          Value,
          Widget,       \* each a SequenceView and a SequenceController
          nkey,         \* key_type::nkey
          MaxLength     \* elements in the model

ASSUME ParametersAssumption ==
    nkey \notin Key /\ MaxLength \in Nat

VARIABLES storage, value,  \* the sequence model
          near,            \* whether it is attached to the two lines
          far,             \* Seq(Widget): those attached to them
          line,            \* ["controller", "view" -> what the cell holds]
          set_m, printed,  \* [Widget -> ...]: the widget's list and display
          todo,            \* the rest of the calls under way
          carried,         \* history: how often the last command was carried out
          late             \* history: widgets that came to a model with elements and
                           \* have not been cleared since

model_vars == <<storage, value>>
attach_vars == <<near, far>>
widget_vars == <<set_m, printed>>
vars == <<model_vars, attach_vars, line, widget_vars, todo, carried, late>>

Keys == ToSet(storage)
Contents == [i \in DOMAIN storage |-> value[storage[i]]]
Free(n) == {keys \in [1..n -> Key] : IsInjective(keys) /\ ToSet(keys) \cap Keys = {}}
empty == [what |-> "empty"]  \* dictionary_t()
Idle == todo = <<>>

Init ==
    /\ storage = <<>> /\ value \in [Key -> Value]
    /\ near = FALSE /\ far = <<>>
    /\ line = [l \in {"controller", "view"} |-> empty]
    /\ set_m = [w \in Widget |-> <<>>] /\ printed = [w \in Widget |-> <<>>]
    /\ todo = <<>> /\ carried = 1 /\ late = {}

------------------------------------------------------------------------------
(* A line *)

set(l, m) == [do |-> "set", line |-> l, what |-> m]
display(l, to, m) == [do |-> "display", line |-> l, to |-> to, what |-> m]

\* Wrong: the line is left as it is.
send_uncleared(l, m) == <<set(l, m)>>

\* The command, then an empty dictionary.
send(l, m) == <<set(l, m), set(l, empty)>>

\* The demultiplexers that monitor a cell.
monitors(l) ==
    IF l = "view" THEN far ELSE IF near THEN <<"model">> ELSE <<>>

\* The sheet hands a cell to its monitors when the value is another one.
forward_to_model ==
    /\ ~Idle /\ Head(todo).do = "set"
    /\ LET l == Head(todo).line
           m == Head(todo).what
           to == monitors(l)
       IN /\ line' = [line EXCEPT ![l] = m]
          /\ todo' = (IF m = line[l] THEN <<>>
                      ELSE [i \in DOMAIN to |-> display(l, to[i], m)]) \o Tail(todo)
    /\ UNCHANGED <<model_vars, attach_vars, widget_vars, carried, late>>

Displays(l) == ~Idle /\ Head(todo).do = "display" /\ Head(todo).line = l

\* Both demultiplexers return at once from an empty dictionary.
display_empty(l) ==
    /\ Displays(l) /\ Head(todo).what = empty
    /\ todo' = Tail(todo)
    /\ UNCHANGED <<model_vars, attach_vars, line, widget_vars, carried, late>>

------------------------------------------------------------------------------
(* The sequence model's end *)

\* Defined only for live keys, as in SequenceModel.
Defined(c) ==
    /\ c.what = "set" => c.key \in Keys
    /\ c.what = "erase" => c.keys \subseteq Keys

\* The only view is the multiplexer, which sends on what it is told.
told(m, rest) == todo' = (IF near THEN send("view", m) ELSE <<>>) \o rest

\* What a command does to the model.  push_back and insert are insert_set of
\* one value; push_back is before the end.
Execute(c, rest) ==
    /\ Defined(c)
    /\ \/ /\ c.what = "insert_set"
          /\ \E keys \in Free(Len(c.values)) :
                /\ storage' = InsertBefore(storage, c.before, keys)
                /\ value' = Placed(value, keys, c.values)
                /\ told([what |-> "extend_set", before |-> c.before, keys |-> keys], rest)
       \/ /\ c.what = "set"
          /\ value' = [value EXCEPT ![c.key] = c.value]
          /\ told([what |-> "refresh", key |-> c.key, value |-> c.value], rest)
          /\ UNCHANGED storage
       \/ /\ c.what = "erase"
          /\ storage' = Without(storage, c.keys)
          /\ told([what |-> "erase", keys |-> c.keys], rest)
          /\ UNCHANGED value
       \/ /\ c.what = "clear"
          /\ storage' = <<>>
          /\ told([what |-> "clear"], rest)
          /\ UNCHANGED value

\* sequence_model_demultiplexer::display
display_command ==
    /\ Displays("controller") /\ Head(todo).what # empty
    /\ Execute(Head(todo).what, Tail(todo))
    /\ carried' = carried + 1
    /\ UNCHANGED <<attach_vars, line, widget_vars, late>>

\* Commands with keys from a set.
Commands(keys) ==
    {[what |-> "insert_set", before |-> k, values |-> v] :
        k \in keys \cup {nkey}, v \in {<<x>> : x \in Value} \cup (Value \X Value)}
    \cup {[what |-> "set", key |-> k, value |-> x] : k \in keys, x \in Value}
    \cup {[what |-> "erase", keys |-> ks] : ks \in SUBSET keys}
    \cup {[what |-> "clear"]}
Fits(c) == c.what = "insert_set" => Len(storage) + Len(c.values) <= MaxLength

\* The code that owns the model changes it without the lines.
change(c) ==
    /\ Idle /\ Fits(c)
    /\ Execute(c, <<>>)
    /\ UNCHANGED <<attach_vars, line, widget_vars, carried, late>>

\* Wrong: the model's view is attached first, before it has a cell to write.
attach_sequence_model_early ==
    /\ Idle /\ ~near
    /\ near' = TRUE
    /\ todo' = <<display("controller", "model", line["controller"])>>
    /\ UNCHANGED <<model_vars, far, line, widget_vars, carried, late>>

\* attach_sequence_model_to_property_model, each line with its own sheet: the
\* controller line, handed over as it is, then the view line; a new view is
\* cleared and told everything.
attach_sequence_model ==
    /\ Idle /\ ~near
    /\ near' = TRUE
    /\ todo' = <<display("controller", "model", line["controller"])>>
               \o send("view", [what |-> "clear"])
               \o (IF storage = <<>> THEN <<>>
                   ELSE send("view", [what |-> "extend_set", before |-> nkey,
                                      keys |-> storage]))
    /\ UNCHANGED <<model_vars, far, line, widget_vars, carried, late>>

\* The assemblage of the model's side is emptied.
detach_sequence_model ==
    /\ Idle /\ near
    /\ near' = FALSE
    /\ UNCHANGED <<model_vars, far, line, widget_vars, todo, carried, late>>

------------------------------------------------------------------------------
(* The widgets' end *)

\* A command, with keys from the widget's list.  Without a model at the other
\* end it goes nowhere.
command(w) ==
    /\ Idle /\ Contains(far, w)
    /\ \E c \in Commands(ToSet(set_m[w])) :
          /\ Fits(c)
          /\ todo' = send("controller", c)
    /\ carried' = IF near THEN 0 ELSE carried
    /\ UNCHANGED <<model_vars, attach_vars, line, widget_vars, late>>

\* sequence_view_demultiplexer_t::display.  A late widget passes over keys it does not
\* have (the view of test/sequence_model would go beyond the end of its list).
display_message ==
    /\ Displays("view") /\ Head(todo).what # empty
    /\ LET w == Head(todo).to
           list == Told(Head(todo).what, set_m[w])
       IN /\ set_m' = [set_m EXCEPT ![w] = list]
          /\ printed' = [printed EXCEPT ![w] = [i \in DOMAIN list |-> value[list[i]]]]
          /\ late' = IF Head(todo).what = [what |-> "clear"] THEN late \ {w} ELSE late
    /\ todo' = Tail(todo)
    /\ UNCHANGED <<model_vars, attach_vars, line, carried>>

\* attach_sequence_widget_to_property_model, for a new widget: its commands
\* can be sent, and the view line is handed to it as it is.
attach_sequence_widget(w) ==
    /\ Idle /\ ~Contains(far, w)
    /\ far' = Append(far, w)
    /\ late' = IF near /\ storage # <<>> THEN late \cup {w} ELSE late
    /\ todo' = <<display("view", w, line["view"])>>
    /\ UNCHANGED <<model_vars, near, line, widget_vars, carried>>

\* The assemblage of a widget is emptied, and the widget goes.
detach_sequence_widget(w) ==
    /\ Idle /\ Contains(far, w)
    /\ far' = RemoveAt(far, iterator_for(far, w))
    /\ set_m' = [set_m EXCEPT ![w] = <<>>] /\ printed' = [printed EXCEPT ![w] = <<>>]
    /\ late' = late \ {w}
    /\ UNCHANGED <<model_vars, near, line, todo, carried>>

Next ==
    \/ forward_to_model \/ display_command \/ display_message
    \/ \E l \in {"controller", "view"} : display_empty(l)
    \/ attach_sequence_model \/ detach_sequence_model
    \/ \E c \in Commands(Keys) : change(c)
    \/ \E w \in Widget : command(w) \/ attach_sequence_widget(w) \/ detach_sequence_widget(w)

Spec == Init /\ [][Next]_vars

------------------------------------------------------------------------------
(* Properties *)

Command ==
    [what : {"insert_set"}, before : Key \cup {nkey}, values : Seq(Value)]
    \cup [what : {"set"}, key : Key, value : Value]
    \cup [what : {"erase"}, keys : SUBSET Key] \cup {[what |-> "clear"]}
Message ==
    [what : {"extend_set"}, before : Key \cup {nkey}, keys : Seq(Key)]
    \cup [what : {"refresh"}, key : Key, value : Value]
    \cup [what : {"erase"}, keys : SUBSET Key] \cup {[what |-> "clear"]}

\* Every variable holds what its declaration says; commands travel on one line
\* to the model, messages on the other to the widgets.
TypeOK ==
    /\ storage \in Seq(Key) /\ IsInjective(storage) /\ value \in [Key -> Value]
    /\ near \in BOOLEAN /\ far \in Seq(Widget) /\ IsInjective(far)
    /\ line["controller"] \in Command \cup {empty} /\ line["view"] \in Message \cup {empty}
    /\ set_m \in [Widget -> Seq(Key)] /\ printed \in [Widget -> Seq(Value)]
    /\ carried \in Nat /\ late \subseteq Widget
    /\ \A i \in DOMAIN todo :
          LET s == todo[i]
          IN /\ s.do \in {"set", "display"} /\ s.line \in {"controller", "view"}
             /\ s.what \in (IF s.line = "controller" THEN Command ELSE Message) \cup {empty}
             /\ s.do = "display" =>
                   s.to \in (IF s.line = "controller" THEN {"model"} ELSE Widget)

\* A widget cannot tell the lines from the model itself: between commands,
\* every widget has the model's elements in the model's order and shows their
\* values, whoever changed the model and whichever end was attached first.  Only a
\* widget that came when the model was attached and had elements does not, until the
\* model is cleared or attached again: those elements nobody tells it.
FarMirrors ==
    Idle /\ near => \A w \in ToSet(far) \ late : set_m[w] = storage /\ printed[w] = Contents

\* A command a widget sends is carried out by the model at its other end once,
\* also when it equals the one before, and never a second time when the model
\* is attached again.
CarriedOnce == Idle => carried = 1

\* What a widget is told speaks of keys it has: it is never handed an old
\* message that was left on the line.  (A late one is told of keys it never heard of.)
ToldKeysHeld ==
    ~Idle /\ Head(todo).do = "display" /\ Head(todo).line = "view" /\ Head(todo).to \notin late =>
        LET m == Head(todo).what
            held == ToSet(set_m[Head(todo).to])
        IN /\ m.what = "erase" => m.keys \subseteq held
           /\ m.what = "refresh" => m.key \in held
           /\ m.what = "extend_set" => ToSet(m.keys) \cap held = {}
===============================================================================
