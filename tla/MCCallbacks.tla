----------------------------- MODULE MCCallbacks -----------------------------
(* The constants of the components whose callbacks run inside one call. *)
EXTENDS Callbacks, TLC

CONSTANTS c1, c2, m1, m2, unary, binary, subject1, subject2, direct_object

MCDebounceValue == 0..7

\* A model that limits its values to 3.
MCAccept == [v \in 0..7 |-> IF v > 3 THEN 3 ELSE v]

\* The lists of states: the keys that are held decide which of two fires; the second
\* sets the cell of the first, or its own.  The keys m1 and m2 could change places.
ButtonState(keys, bind, output) == [modifier_set_m |-> keys, bind |-> bind, output |-> output]
MCKeys == {<<{}, {m1}>>, <<{}, {m1, m2}>>, <<{m1}, {}>>, <<{m1}, {m2}>>, <<{m1}, {m1, m2}>>,
           <<{m1, m2}, {}>>, <<{m1, m2}, {m1}>>}
MCButtonStates ==
    {<<ButtonState(keys[1], c1, no_cell), ButtonState(keys[2], c2, c1)>> : keys \in MCKeys}
        \cup {<<ButtonState({}, c1, no_cell), ButtonState({m1}, c2, no_cell)>>,
              <<ButtonState({m1}, c1, no_cell), ButtonState({m2}, c2, no_cell)>>}

\* Pairs of widgets bound to one cell, the texts and the sliders only to cells that hold
\* what they can show.
Plain == {"checkbox", "tab_group", "popup", "link"}
MCBindings ==
    {<<"radio_button", "radio_button">>, <<"toggle", "reveal">>, <<"reveal", "link">>}
        \cup {<<a, b>> : a \in Plain, b \in Plain \cup {"slider", "edit_text", "toggle"}}

\* The two subjects are alike.
Subjects == Permutations({subject1, subject2})
===============================================================================
