------------------------------- MODULE Buttons -------------------------------
(***************************************************************************)
(* A button of several states (button_t on Windows and Mac,                *)
(* button_factory.cpp, button_helper.hpp), each bound to a cell of the     *)
(* sheet, in a window whose keys keyboard_t dispatches.                    *)
(*                                                                         *)
(* The user selects a state by holding modifier keys; the title shows      *)
(* which.  A click, or Return or Escape on a default or cancel button,     *)
(* fires it with the value of its cell.  On Windows the button keeps the   *)
(* modifiers of the last key that was pressed (modifiers_m); on the Mac a  *)
(* click brings its own and the title follows the modifier keys' event.    *)
(***************************************************************************)
EXTENDS Naturals, Sequences, FiniteSets, SequencesExt, FiniteSetsExt

CONSTANTS Modifier, Cell, Value,
          no_cell,       \* a state without bind_output
          unfired,       \* nothing has fired yet
          ButtonStates   \* the lists of states a button may be made with

ButtonAssumption ==
    /\ no_cell \notin Cell
    /\ ButtonStates \subseteq Seq([modifier_set_m : SUBSET Modifier, bind : Cell,
                                   output : Cell \cup {no_cell}]) \ {<<>>}

VARIABLES system,        \* "win" or "mac"
          state_set_m,   \* the list of states it was made with
          value_m,       \* [state -> Value]: what the state fires with
          sheet_value,   \* [Cell -> Value]
          displays,      \* states that are still to be told of their cell, the first first
          is_default_m, is_cancel_m, enabled_m,
          held,          \* the modifier keys the user holds
          modifiers_m,   \* those the button knows of (Windows)
          title,         \* the state whose name is shown
          unseen,        \* the keys changed and the button was not told
          fired          \* what fired last, or unfired

made_vars == <<system, state_set_m, is_default_m, is_cancel_m>>
button_vars == <<made_vars, value_m, sheet_value, displays, enabled_m,
                 held, modifiers_m, title, unseen, fired>>

States == DOMAIN state_set_m
modifier_mask_m == UNION {state_set_m[i].modifier_set_m : i \in States}

\* Wrong: a state is taken for keys that are more than its own.
button_modifier_state_within(modifiers) ==
    SelectInSeq(state_set_m, LAMBDA s :
        s.modifier_set_m \subseteq (modifiers \cap modifier_mask_m))

\* The first state that has all the keys, of those that any state is about; 0 if
\* there is none.
button_modifier_state(modifiers) ==
    SelectInSeq(state_set_m, LAMBDA s :
        (modifiers \cap modifier_mask_m) \subseteq s.modifier_set_m)

button_default_state == button_modifier_state({})
state_for(modifiers) == IF button_modifier_state(modifiers) = 0 THEN button_default_state
                        ELSE button_modifier_state(modifiers)

\* create_button_widget and insert: the cells are displayed, the title is that of
\* the default state, whatever keys are held by then.
Init ==
    /\ system \in {"win", "mac"} /\ state_set_m \in ButtonStates
    /\ is_default_m \in BOOLEAN /\ is_cancel_m \in BOOLEAN
    /\ sheet_value \in [Cell -> Value]
    /\ value_m \in {[i \in States |-> v] : v \in Value}
    /\ displays = States
    /\ enabled_m = TRUE /\ held \in SUBSET Modifier /\ modifiers_m = {}
    /\ title = button_default_state /\ unseen = (held # {}) /\ fired = unfired

AtRest == displays = {}

------------------------------------------------------------------------------
(* The property model *)

\* sheet.set and sheet.update: the states bound to a changed cell are told.
sheet_set(c, v) ==
    /\ sheet_value' = [sheet_value EXCEPT ![c] = v]
    /\ displays' = IF sheet_value[c] = v THEN {}
                   ELSE {i \in States : state_set_m[i].bind = c}

third_party(c, v) ==
    /\ AtRest
    /\ sheet_set(c, v)
    /\ UNCHANGED <<made_vars, value_m, enabled_m, held, modifiers_m, title, unseen, fired>>

\* display_compositor_t: the value goes to the state of those modifiers.
set ==
    /\ ~AtRest
    /\ LET i == Min(displays)
       IN  /\ value_m' = [value_m EXCEPT ![state_for(state_set_m[i].modifier_set_m)] =
                              sheet_value[state_set_m[i].bind]]
           /\ displays' = displays \ {i}
    /\ UNCHANGED <<made_vars, sheet_value, enabled_m, held, modifiers_m, title, unseen, fired>>

\* Every bound cell enables the button as it is itself.
enable(make_enabled) ==
    /\ AtRest
    /\ enabled_m' = make_enabled
    /\ UNCHANGED <<made_vars, value_m, sheet_value, displays, held, modifiers_m, title,
                   unseen, fired>>

------------------------------------------------------------------------------
(* Firing *)

\* proxy_button_hit
hit_proc(i, by, knows) ==
    /\ fired' = [state |-> i, value |-> value_m[i], title |-> title', held |-> by,
                 unseen |-> ~knows, cell |-> sheet_value[state_set_m[i].bind]]
    /\ IF state_set_m[i].output = no_cell THEN UNCHANGED <<sheet_value, displays>>
       ELSE sheet_set(state_set_m[i].output, value_m[i])

\* button_subclass_proc: with the modifiers the button knows of.
click_win ==
    /\ system = "win" /\ AtRest /\ enabled_m
    /\ title' = title
    /\ hit_proc(state_for(modifiers_m), held, ~unseen)
    /\ UNCHANGED <<made_vars, value_m, enabled_m, held, modifiers_m, unseen>>

\* button_hit_handler_t: with the modifiers of the event.
click_mac ==
    /\ system = "mac" /\ AtRest /\ enabled_m
    /\ title' = title
    /\ hit_proc(state_for(held), held, TRUE)
    /\ UNCHANGED <<made_vars, value_m, enabled_m, held, modifiers_m, unseen>>

Fires(key) == /\ enabled_m
              /\ \/ key = "return" /\ is_default_m
                 \/ key = "escape" /\ is_cancel_m

\* Windows: any key that is pressed brings the button up to date.
handle_key_win(key, now_held) ==
    /\ modifiers_m' = now_held /\ unseen' = FALSE
    /\ title' = state_for(now_held)
    /\ IF Fires(key) THEN hit_proc(title', now_held, TRUE)
       ELSE UNCHANGED <<sheet_value, displays, fired>>

\* Mac: a key fires; the title is the modifier keys' handler's.
handle_key_mac(key, now_held) ==
    /\ UNCHANGED <<modifiers_m, title, unseen>>
    /\ IF Fires(key) THEN hit_proc(state_for(now_held), now_held, TRUE)
       ELSE UNCHANGED <<sheet_value, displays, fired>>

\* A key goes from the innermost handler of its window to the window.
dispatch(key) ==
    /\ AtRest
    /\ IF system = "win" THEN handle_key_win(key, held) ELSE handle_key_mac(key, held)
    /\ UNCHANGED <<made_vars, value_m, enabled_m, held>>

\* button_modifier_key_handler_t, which only a button of several states has.
modifier_key_mac(now_held) ==
    /\ title' = IF Len(state_set_m) > 1 THEN state_for(now_held) ELSE title
    /\ unseen' = FALSE
    /\ UNCHANGED <<modifiers_m, sheet_value, displays, fired>>

\* A modifier key is a key of its own on Windows.
press(m) ==
    /\ AtRest /\ m \notin held
    /\ held' = held \cup {m}
    /\ IF system = "win" THEN handle_key_win("modifier", held') ELSE modifier_key_mac(held')
    /\ UNCHANGED <<made_vars, value_m, enabled_m>>

\* Windows: handle_key does nothing when a key is released.
release(m) ==
    /\ AtRest /\ m \in held
    /\ held' = held \ {m}
    /\ IF system = "win"
       THEN unseen' = TRUE /\ UNCHANGED <<title, modifiers_m, sheet_value, displays, fired>>
       ELSE modifier_key_mac(held')
    /\ UNCHANGED <<made_vars, value_m, enabled_m>>

\* Keys pressed or released while another window has them.
elsewhere(keys) ==
    /\ AtRest /\ keys # held
    /\ held' = keys /\ unseen' = TRUE
    /\ UNCHANGED <<made_vars, value_m, sheet_value, displays, enabled_m, modifiers_m, title,
                   fired>>

ButtonNext ==
    \/ \E c \in Cell, v \in Value : third_party(c, v)
    \/ set
    \/ \E make_enabled \in BOOLEAN : enable(make_enabled)
    \/ click_win \/ click_mac
    \/ \E key \in {"return", "escape", "other"} : dispatch(key)
    \/ \E m \in Modifier : press(m) \/ release(m)
    \/ \E keys \in SUBSET Modifier : elsewhere(keys)

------------------------------------------------------------------------------
(* Properties *)

\* No state comes before one whose keys are among its own.
Orderly == \A i, j \in States : i < j =>
               ~(state_set_m[j].modifier_set_m \subseteq state_set_m[i].modifier_set_m)

MadeFor(keys) == {i \in States : state_set_m[i].modifier_set_m = keys \cap modifier_mask_m}

\* If the states are listed in order, what fires is the state made for the keys the
\* user holds, with the value its cell had; and on Windows it is in any case the
\* state whose title is shown.  What escapes the first on Windows is a click after
\* a key was released, or changed elsewhere, and before the next was pressed.
ButtonFires ==
    fired # unfired /\ Orderly =>
        /\ fired.value = fired.cell
        /\ system = "win" => fired.state = fired.title
        /\ ~fired.unseen /\ MadeFor(fired.held) # {} => fired.state \in MadeFor(fired.held)
===============================================================================
