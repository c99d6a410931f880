------------------------------- MODULE Debounce -------------------------------
(***************************************************************************)
(* debounce_t (adobe/future/debounce.hpp) between a model and a control of *)
(* the operating system.                                                   *)
(*                                                                         *)
(* The user changes the control, which calls set_model_value, which sets   *)
(* the model, which displays what it made of the value.  Another           *)
(* controller changes the model, which calls display, which changes the    *)
(* control, which may call set_model_value again.  debounce_t is to break  *)
(* both loops: the first by the last value it passed on, the second by a   *)
(* flag.  The calls nest; todo is what the innermost leaves to be done.    *)
(***************************************************************************)
EXTENDS Naturals, Sequences

CONSTANTS Value,
          default,   \* ModeType()
          Accept,    \* [Value -> Value]: what the model makes of a request
          Feedback   \* whether the control calls back when it is changed

DebounceAssumption ==
    /\ Accept \in [Value -> Value] /\ \A v \in Value : Accept[Accept[v]] = Accept[v]
    /\ default \in Value /\ Accept[default] = default
    /\ Feedback \in BOOLEAN

VARIABLES cell,              \* the model's value
          control,           \* what the control shows
          type_1_debounce_m, type_2_debounce_m, first_time_m,
          todo,              \* Seq(Step)
          asked              \* what the last user or controller set the model to

debounce_vars == <<type_1_debounce_m, type_2_debounce_m, first_time_m>>
vars == <<cell, control, debounce_vars, todo, asked>>

Calls == {"set_model_value", "set_model", "display", "monitor_model"}
Step == (Calls \X Value) \cup {<<"not_first_time", default>>}
Now(call) == todo # <<>> /\ Head(todo)[1] = call
Argument == Head(todo)[2]
Then(steps) == todo' = steps \o Tail(todo)
Settled == todo = <<>>

\* The widget is new, and attaching it displays the cell.
Init ==
    /\ cell \in {Accept[v] : v \in Value}
    /\ control = default
    /\ type_1_debounce_m = default
    /\ type_2_debounce_m = FALSE /\ first_time_m = TRUE
    /\ todo = <<<<"display", cell>>>>
    /\ asked = cell

------------------------------------------------------------------------------
(* The two sources of change *)

user_edit(v) ==
    /\ Settled
    /\ control' = v
    /\ asked' = Accept[v]
    /\ todo' = <<<<"set_model_value", v>>>>
    /\ UNCHANGED <<cell, debounce_vars>>

third_party(v) ==
    /\ Settled
    /\ cell' = Accept[v]
    /\ asked' = Accept[v]
    /\ todo' = <<<<"display", Accept[v]>>>>
    /\ UNCHANGED <<control, debounce_vars>>

------------------------------------------------------------------------------
(* debounce_t *)

\* Wrong: what is sent to the model is not remembered.
set_model_value_forgets ==
    /\ Now("set_model_value")
    /\ Then(IF type_2_debounce_m /\ ~first_time_m THEN <<>>
            ELSE <<<<"set_model", Argument>>, <<"not_first_time", default>>>>)
    /\ type_2_debounce_m' = FALSE
    /\ UNCHANGED <<cell, control, type_1_debounce_m, first_time_m, asked>>

set_model_value ==
    /\ Now("set_model_value")
    /\ IF type_2_debounce_m /\ ~first_time_m
       THEN Then(<<>>) /\ UNCHANGED type_1_debounce_m
       ELSE /\ type_1_debounce_m' = Argument
            /\ Then(<<<<"set_model", Argument>>, <<"not_first_time", default>>>>)
    /\ type_2_debounce_m' = FALSE
    /\ UNCHANGED <<cell, control, first_time_m, asked>>

not_first_time ==
    /\ Now("not_first_time")
    /\ first_time_m' = FALSE
    /\ Then(<<>>)
    /\ UNCHANGED <<cell, control, type_1_debounce_m, type_2_debounce_m, asked>>

\* Wrong: the value that comes back is displayed again.
display_always ==
    /\ Now("display")
    /\ type_1_debounce_m' = Argument
    /\ type_2_debounce_m' = TRUE
    /\ Then(<<<<"monitor_model", Argument>>>>)
    /\ UNCHANGED <<first_time_m, cell, control, asked>>

display ==
    /\ Now("display")
    /\ IF Argument = type_1_debounce_m
       THEN Then(<<>>) /\ UNCHANGED debounce_vars
       ELSE /\ type_1_debounce_m' = Argument
            /\ type_2_debounce_m' = TRUE
            /\ Then(<<<<"monitor_model", Argument>>>>)
            /\ UNCHANGED first_time_m
    /\ UNCHANGED <<cell, control, asked>>

------------------------------------------------------------------------------
(* What it is connected to *)

\* The model takes what it makes of the value, and notifies the view.
set_model ==
    /\ Now("set_model")
    /\ cell' = Accept[Argument]
    /\ Then(<<<<"display", Accept[Argument]>>>>)
    /\ UNCHANGED <<control, debounce_vars, asked>>

\* The control shows the value, and calls back where the system has it so.
monitor_model ==
    /\ Now("monitor_model")
    /\ control' = Argument
    /\ Then(IF Feedback THEN <<<<"set_model_value", Argument>>>> ELSE <<>>)
    /\ UNCHANGED <<cell, debounce_vars, asked>>

Next ==
    \/ \E v \in Value : user_edit(v) \/ third_party(v)
    \/ set_model_value \/ not_first_time \/ display
    \/ set_model \/ monitor_model

Spec == Init /\ [][Next]_vars

------------------------------------------------------------------------------
(* Properties *)

\* Both kinds of loop are broken within one round: the calls never nest deeper
\* than a user's edit, the display of what the model made of it, and the
\* control's call back.  Before the user's first edit is through, the call back
\* goes round once more.
LoopsBroken == Len(todo) <= IF first_time_m THEN 3 ELSE 2

\* Nothing is lost in breaking them.  When all is settled the model has what it
\* was last asked for, by the user or another controller, and the control shows
\* what the model has.
AgreeWhenSettled == Settled => cell = asked /\ control = cell

===============================================================================
