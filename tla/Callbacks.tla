------------------------------ MODULE Callbacks ------------------------------
(***************************************************************************)
(* Five small parts whose callbacks run inside one call: a debounce        *)
(* between a model and a control, the monitors of a command system and     *)
(* those of a system of sentences, a button of several states, and two     *)
(* widgets on one cell.  They share nothing; each behaviour is one part's, *)
(* the others stay as they were made.                                      *)
(***************************************************************************)
EXTENDS Naturals, Sequences

CONSTANTS DebounceValue, default, Accept, Feedback,
          Name, Monitor, untold, MaxCommandCalls,
          Modifier, Cell, ButtonValue, no_cell, unfired, ButtonStates,
          none, Bindings,
          Sentence, Binary, Subject, DirectObject, no_dirobj, MaxSentenceCalls

VARIABLES part,
          cell, control, type_1_debounce_m, type_2_debounce_m, first_time_m, todo, asked,
          command_map_m, enabled_commands, callbacks_m, heard, calls, crossed,
          system, state_set_m, value_m, sheet_value, displays, is_default_m, is_cancel_m,
          enabled_m, held, modifiers_m, title, unseen, fired,
          platform, bound, widget, shared_cell, enabled, items, calls_due, writes, stray, stuck,
          present, part_enabled, meets, unswept, table_m, notify_table_m, told, frames, in_monitor

debounce_vars == <<cell, control, type_1_debounce_m, type_2_debounce_m, first_time_m, todo, asked>>
command_vars == <<command_map_m, enabled_commands, callbacks_m, heard, calls, crossed>>
button_vars == <<system, state_set_m, value_m, sheet_value, displays, is_default_m, is_cancel_m,
                 enabled_m, held, modifiers_m, title, unseen, fired>>
widget_vars == <<platform, bound, widget, shared_cell, enabled, items, calls_due, writes, stray, stuck>>
sentence_vars == <<present, part_enabled, meets, unswept, table_m, notify_table_m, told,
                   frames, in_monitor>>

D == INSTANCE Debounce WITH Value <- DebounceValue
C == INSTANCE CommandSystem WITH enabled_m <- enabled_commands, MaxCalls <- MaxCommandCalls
B == INSTANCE Buttons WITH Value <- ButtonValue
W == INSTANCE Widgets WITH cell <- shared_cell, todo <- calls_due
S == INSTANCE Sentences WITH heard <- told, MaxCalls <- MaxSentenceCalls

ASSUME CallbacksAssumption ==
    D!DebounceAssumption /\ C!CommandAssumption /\ B!ButtonAssumption /\ W!BindingsAssumption
    /\ S!SentencesAssumption

DebounceIdle ==
    /\ cell = default /\ control = default /\ type_1_debounce_m = default /\ asked = default
    /\ type_2_debounce_m = FALSE /\ first_time_m = TRUE /\ todo = <<>>
ButtonIdle ==
    /\ system = "win" /\ state_set_m = <<>> /\ value_m = <<>> /\ sheet_value = <<>>
    /\ displays = {} /\ is_default_m = FALSE /\ is_cancel_m = FALSE /\ enabled_m = FALSE
    /\ held = {} /\ modifiers_m = {} /\ title = 0 /\ unseen = FALSE /\ fired = unfired

WidgetsIdle ==
    /\ platform = "win" /\ bound = <<>> /\ widget = <<>> /\ shared_cell = none /\ enabled = FALSE
    /\ items = <<>> /\ calls_due = <<>> /\ writes = 0 /\ stray = {} /\ stuck = {}

Init ==
    \/ part = "debounce" /\ D!Init /\ C!NoCommands /\ ButtonIdle /\ WidgetsIdle /\ S!NoSentences
    \/ part = "commands" /\ C!Init /\ DebounceIdle /\ ButtonIdle /\ WidgetsIdle /\ S!NoSentences
    \/ part = "button" /\ B!Init /\ DebounceIdle /\ C!NoCommands /\ WidgetsIdle /\ S!NoSentences
    \/ part = "widgets" /\ W!Init /\ DebounceIdle /\ C!NoCommands /\ ButtonIdle /\ S!NoSentences
    \/ part = "sentences" /\ S!Init /\ DebounceIdle /\ C!NoCommands /\ ButtonIdle /\ WidgetsIdle

Next ==
    /\ part' = part
    /\ \/ /\ part = "debounce" /\ D!Next
          /\ UNCHANGED <<command_vars, button_vars, widget_vars, sentence_vars>>
       \/ /\ part = "commands" /\ C!CommandNext
          /\ UNCHANGED <<debounce_vars, button_vars, widget_vars, sentence_vars>>
       \/ /\ part = "button" /\ B!ButtonNext
          /\ UNCHANGED <<debounce_vars, command_vars, widget_vars, sentence_vars>>
       \/ /\ part = "widgets" /\ W!Next
          /\ UNCHANGED <<debounce_vars, command_vars, button_vars, sentence_vars>>
       \/ /\ part = "sentences" /\ S!SentencesNext
          /\ UNCHANGED <<debounce_vars, command_vars, button_vars, widget_vars>>

Spec == Init /\ [][Next]_<<part, debounce_vars, command_vars, button_vars, widget_vars,
                           sentence_vars>>

\* debounce_t breaks both loops: the calls between model and control do not nest
\* without end.
LoopsBroken == D!LoopsBroken

\* debounce_t loses nothing: when all is settled, model and control have what was
\* asked for last.
AgreeWhenSettled == D!AgreeWhenSettled

\* command_system_t: every monitor heard last how its command is.
MonitorsAgree == C!MonitorsAgree

\* button_t: what fires is what the user holds the keys for.
ButtonFires == part = "button" => B!ButtonFires

\* The widgets: when the calls have come back every control shows the cell.
ShowsCellAtRest == W!ShowsCellAtRest

\* The widgets: what the user does sets the cell once.
OneWritePerGesture == W!OneWritePerGesture

\* The sentence command system: its table is what the parts and their states make it.
TableIsCurrent == S!TableIsCurrent

\* The sentence command system: what a monitor heard last is how the table is.
MonitorsHeardTable == S!MonitorsHeardTable
===============================================================================
