---------------------------- MODULE SequenceModel ----------------------------
(***************************************************************************)
(* sequence_model (adobe/sequence_model.hpp), and the widgets that view and *)
(* control one.                                                            *)
(*                                                                         *)
(* The model is a list of values.  A key is the address of a list element: *)
(* it stays the element's for as long as the element lives, and afterwards *)
(* may become another's.  Every change is made first and then told to the  *)
(* views one after another, in the order they were attached; the views     *)
(* keep lists of keys, and read the values through them.  Commands come    *)
(* from the same widgets, with keys from their lists.                      *)
(*                                                                         *)
(* The widgets are the test's (test/sequence_model/main.cpp): a vector of  *)
(* keys kept as the messages say, printed after each message.              *)
(***************************************************************************)
EXTENDS Naturals, Sequences, FiniteSets, SequencesExt, KeyLists

CONSTANTS Key,           \* the addresses list elements can have
          Value,
          Widget,        \* each a SequenceView and a SequenceController
          nkey,          \* key_type::nkey, the null key: the end
          AfterDetach,   \* whether a widget sends commands after its detach
          MaxLength      \* elements in the model

ASSUME KeyAssumption == nkey \notin Key
ASSUME BoundAssumption == MaxLength \in Nat /\ AfterDetach \in BOOLEAN

VARIABLES storage,         \* Seq(Key): storage_m
          value,           \* [Key -> Value]: what is at an address
          view_set,        \* Seq(Widget)
          controller_set,  \* SUBSET Widget
          monitors,        \* the widgets that hold a reference to the model
          set_m,           \* [Widget -> Seq(Key)]: the widget's copy
          printed,         \* [Widget -> Seq(Value)]: what it last printed
          message,         \* what is being told
          pending          \* Seq(Widget): the views it is still to be told to

model_vars == <<storage, value>>
attach_vars == <<view_set, controller_set, monitors>>
widget_vars == <<set_m, printed>>
vars == <<model_vars, attach_vars, widget_vars, message, pending>>

Keys == ToSet(storage)
Contents == [i \in DOMAIN storage |-> value[storage[i]]]
Free(n) == {keys \in [1..n -> Key] : IsInjective(keys) /\ ToSet(keys) \cap Keys = {}}
Idle == pending = <<>>

none == [what |-> "none"]

Init ==
    /\ storage = <<>> /\ value \in [Key -> Value]
    /\ view_set = <<>> /\ controller_set = {} /\ monitors = {}
    /\ set_m = [w \in Widget |-> <<>>] /\ printed = [w \in Widget |-> <<>>]
    /\ message = none /\ pending = <<>>

------------------------------------------------------------------------------
(* Commands *)

\* A command, by a widget that has the model; its keys are the widget's.
Commands(w) == Idle /\ w \in monitors /\ (AfterDetach \/ w \in controller_set)
HasKey(w, key) == key \in ToSet(set_m[w])

broadcast(m) ==
    /\ message' = IF view_set = <<>> THEN none ELSE m
    /\ pending' = view_set
    /\ UNCHANGED <<attach_vars, widget_vars>>

\* insert_set inserts one by one at the same list iterator; push_back and
\* insert are the cases of one value, told as extend.
insert_set(w, before, values) ==
    /\ Commands(w) /\ (before = nkey \/ HasKey(w, before))
    /\ Len(storage) + Len(values) <= MaxLength
    /\ \E keys \in Free(Len(values)) :
          /\ storage' = InsertBefore(storage, before, keys)
          /\ value' = Placed(value, keys, values)
          /\ broadcast([what |-> "extend_set", before |-> before, keys |-> keys])

push_back(w, x) == insert_set(w, nkey, <<x>>)
insert(w, before, x) == insert_set(w, before, <<x>>)

\* nkey is refused; any other key is searched for and dereferenced, so that
\* the command is defined only for a live one.
set(w, key, x) ==
    /\ Commands(w) /\ HasKey(w, key) /\ key \in Keys
    /\ value' = [value EXCEPT ![key] = x]
    /\ broadcast([what |-> "refresh", key |-> key])
    /\ UNCHANGED storage

\* Wrong: the views are not told.
erase_untold(w, keys) ==
    /\ Commands(w) /\ (\A k \in keys : HasKey(w, k)) /\ keys \subseteq Keys
    /\ storage' = Without(storage, keys)
    /\ UNCHANGED <<value, attach_vars, widget_vars, message, pending>>

\* The elements go first, then the views are told; live keys only.
erase(w, keys) ==
    /\ Commands(w) /\ (\A k \in keys : HasKey(w, k)) /\ keys \subseteq Keys
    /\ storage' = Without(storage, keys)
    /\ broadcast([what |-> "erase", keys |-> keys])
    /\ UNCHANGED value

clear(w) ==
    /\ Commands(w)
    /\ storage' = <<>>
    /\ broadcast([what |-> "clear"])
    /\ UNCHANGED value

------------------------------------------------------------------------------
(* Views and controllers *)

Prints(w, list) ==
    /\ set_m' = [set_m EXCEPT ![w] = list]
    /\ printed' = [printed EXCEPT ![w] = [i \in DOMAIN list |-> value[list[i]]]]

\* The next view is told.
notify ==
    /\ ~Idle
    /\ Prints(Head(pending), Told(message, set_m[Head(pending)]))
    /\ pending' = Tail(pending)
    /\ message' = IF Tail(pending) = <<>> THEN none ELSE message
    /\ UNCHANGED <<model_vars, attach_vars>>

\* Wrong: the view is not cleared of what an earlier attachment left.
attach_view_uncleared(w) ==
    /\ Idle /\ ~Contains(view_set, w)
    /\ view_set' = Append(view_set, w)
    /\ Prints(w, InsertBefore(set_m[w], nkey, storage))
    /\ UNCHANGED <<model_vars, controller_set, monitors, message, pending>>

\* Wrong: the view is cleared and not told of what is there.
attach_view_unfilled(w) ==
    /\ Idle /\ ~Contains(view_set, w)
    /\ view_set' = Append(view_set, w)
    /\ Prints(w, <<>>)
    /\ UNCHANGED <<model_vars, controller_set, monitors, message, pending>>

\* A new view is cleared, then told to extend by everything that is there.
attach_view(w) ==
    /\ Idle /\ ~Contains(view_set, w)
    /\ view_set' = Append(view_set, w)
    /\ Prints(w, storage)
    /\ UNCHANGED <<model_vars, controller_set, monitors, message, pending>>

\* The widget's view is hooked first and its controller second; the
\* assemblage takes them away in the opposite order.
attach_controller(w) ==
    /\ Idle /\ Contains(view_set, w) /\ w \notin controller_set
    /\ controller_set' = controller_set \cup {w}
    /\ monitors' = monitors \cup {w}
    /\ UNCHANGED <<model_vars, widget_vars, view_set, message, pending>>

\* The controller is not told.
detach_controller(w) ==
    /\ Idle /\ w \in controller_set
    /\ controller_set' = controller_set \ {w}
    /\ UNCHANGED <<model_vars, widget_vars, view_set, monitors, message, pending>>

detach_view(w) ==
    /\ Idle /\ Contains(view_set, w) /\ w \notin controller_set
    /\ view_set' = RemoveAt(view_set, iterator_for(view_set, w))
    /\ UNCHANGED <<model_vars, widget_vars, controller_set, monitors, message, pending>>

Next ==
    \/ \E w \in Widget :
          \/ \E x \in Value :
                \/ push_back(w, x)
                \/ \E key \in Key : set(w, key, x) \/ insert(w, key, x)
          \/ \E before \in Key \cup {nkey}, x, y \in Value : insert_set(w, before, <<x, y>>)
          \/ \E keys \in SUBSET Key : erase(w, keys)
          \/ clear(w)
          \/ attach_view(w) \/ attach_controller(w) \/ detach_controller(w) \/ detach_view(w)
    \/ notify

Spec == Init /\ [][Next]_vars

------------------------------------------------------------------------------
(* Properties *)

Message ==
    {none, [what |-> "clear"]}
    \cup [what : {"extend_set"}, before : Key \cup {nkey}, keys : Seq(Key)]
    \cup [what : {"refresh"}, key : Key]
    \cup [what : {"erase"}, keys : SUBSET Key]

\* Every variable holds what its declaration says; an address holds one
\* element, and a view is attached once.
TypeOK ==
    /\ storage \in Seq(Key) /\ IsInjective(storage) /\ IsInjective(view_set)
    /\ value \in [Key -> Value]
    /\ view_set \in Seq(Widget) /\ controller_set \subseteq Widget
    /\ monitors \subseteq Widget
    /\ set_m \in [Widget -> Seq(Key)] /\ printed \in [Widget -> Seq(Value)]
    /\ message \in Message /\ pending \in Seq(Widget)

\* A view that has been told of the last change has the model's elements in
\* the model's order and shows their values, whenever it was attached and
\* whatever it kept from an earlier attachment.
ViewsMirror ==
    \A w \in ToSet(view_set) : w \notin ToSet(pending) =>
        set_m[w] = storage /\ printed[w] = Contents

\* A view is never told of a key it does not have: its find does not return
\* the end, which it erases at or dereferences without looking.
ViewsFindKeys ==
    \A w \in ToSet(pending) :
        /\ message.what = "erase" => message.keys \subseteq ToSet(set_m[w])
        /\ message.what = "refresh" => HasKey(w, message.key)

\* A key a widget can put in a command is a live one, so that set and erase
\* never reach the end of the list, although addresses are used again.
CommandKeysLive ==
    Idle => \A w \in controller_set : ToSet(set_m[w]) \subseteq Keys
===============================================================================
