------------------------------ MODULE EditNumber ------------------------------
(***************************************************************************)
(* edit_number_t (adobe/future/widgets/sources/edit_number.cpp): one text  *)
(* field over several cells of a sheet.                                    *)
(*                                                                         *)
(* A popup chooses the unit, and the unit says which cell the field is     *)
(* about and how its value is written.  The user types, or turns the       *)
(* value up and down with keys, the wheel and by dragging the label; the   *)
(* sheet makes of a value what its relations say and may change the other  *)
(* cells too.  debounce_set_m is what the widget believes each cell to be. *)
(*                                                                         *)
(* A call into the sheet comes back through the views before it returns,   *)
(* so every gesture is one step.  A text is the number it writes.          *)
(***************************************************************************)
EXTENDS Integers, FiniteSetsExt

CONSTANTS BaseUnit, CellValue,  \* the base units' cells, and the values they can have
          UnitName, Unit,   \* Unit \in [UnitName -> unit_t]
          Number,           \* the numbers a user types
          Limit,            \* the values the sheet's own limits bring a cell to
          Delta,            \* how far a drag or a turn of the wheel goes
          unset,            \* a limit of a unit that is left out
          intermediate,     \* "", "-" and the decimal point: a number to come
          junk              \* any other text that is no number

unit_t == [base_unit : BaseUnit, scale : Int, offset : Int, increment : Int,
           format : Int, min_value : Int \cup {unset}, max_value : Int \cup {unset}]

ASSUME UnitAssumption ==
    /\ Unit \in [UnitName -> unit_t] /\ CellValue \subseteq Int /\ Number \subseteq Int
    /\ \A n \in UnitName : Unit[n].scale > 0 /\ Unit[n].format > 0
    /\ Delta \subseteq Int \ {0}
    /\ IsFiniteSet(UnitName)                 \* a unit set is a vector
    /\ intermediate \notin Int /\ junk \notin Int \cup {intermediate}

VARIABLES os,              \* "win" or "mac"
          cell,            \* [BaseUnit -> CellValue]: the sheet
          unit_index_m,    \* the unit the popup shows
          debounce_set_m,  \* [BaseUnit -> Int]
          enabled_m,       \* [BaseUnit -> BOOLEAN]: what each controller was told
          edit_enabled,    \* whether the field can be edited
          edit_text,       \* [field: the text in the field, value_m: the text the widget
                           \*  believes to be there, untold: the system edited the
                           \*  field without telling]
          format_m,        \* the format number_formatter_m was last given
          focused,         \* whether the field has the focus
          refused          \* cells that kept their value when another was typed

number_vars == <<os, cell, unit_index_m, debounce_set_m, enabled_m, edit_enabled,
          edit_text, format_m, focused, refused>>
untouched == <<os, enabled_m, edit_enabled, focused>>

unit == Unit[unit_index_m]
current_base_unit(u) == u.base_unit

------------------------------------------------------------------------------
(* Units (number_unit.hpp) *)

to_base_value(text, u) == u.scale * (text - u.offset)

\* to_scaled_value and number_formatter_t::format: the scaled value, to the
\* nearest text the format can write.
Formatted(base, u, format) ==
    format * ((2 * (base + u.scale * u.offset) + u.scale * format)
              \div (2 * u.scale * format))

\* The units of one cell have its limits in common: the widest any of them states.
base_unit_set(c) == {Unit[n] : n \in {m \in UnitName : Unit[m].base_unit = c}}

min_m(c) == LET stated == {u.min_value : u \in base_unit_set(c)} \ {unset}
            IN  IF stated = {} THEN unset ELSE Min(stated)
max_m(c) == LET stated == {u.max_value : u \in base_unit_set(c)} \ {unset}
            IN  IF stated = {} THEN unset ELSE Max(stated)

to_pinned_base_value(text, u) ==
    LET base == to_base_value(text, u)
        low  == min_m(u.base_unit)
        high == max_m(u.base_unit)
    IN  CASE low  # unset /\ base < low  -> low
          [] high # unset /\ base > high -> high
          [] OTHER -> base

------------------------------------------------------------------------------
(* The field and the views *)

Shown(u, base) == Formatted(base, u, u.format)
Holding(text) == [field |-> text, value_m |-> text, untold |-> FALSE]

\* edit_text_t::display: only a text that is new to it goes to the field.
edit_text_display(text, now) == IF text = now.value_m THEN now ELSE Holding(text)

\* Wrong: the other units' values are left as they were.
refresh_view_current_only(believed, now, told) ==
    LET c == current_base_unit(unit')
        changed == {d \in {c} : cell'[d] # cell[d]}
        display == c \in changed /\ believed[c] # cell'[c]
    IN  /\ debounce_set_m' = [d \in BaseUnit |-> IF d \in changed THEN cell'[d] ELSE believed[d]]
        /\ refused' = {d \in refused \cup told : debounce_set_m'[d] # cell'[d]}
        /\ edit_text' = IF display THEN edit_text_display(Shown(unit', cell'[c]), now) ELSE now
        /\ format_m' = IF display THEN unit'.format ELSE format_m

\* The sheet tells the views of the cells it changed.  Every view keeps the
\* value; the one the unit is about shows it too, unless it is the value the
\* widget itself has just sent.  believed is debounce_set_m by then and now the
\* field; told are cells that were sent what the field shows.
refresh_view(believed, now, told) ==
    LET c == current_base_unit(unit')
        changed == {d \in BaseUnit : cell'[d] # cell[d]}
        display == c \in changed /\ believed[c] # cell'[c]
    IN  /\ debounce_set_m' = [d \in BaseUnit |-> IF d \in changed THEN cell'[d] ELSE believed[d]]
        /\ refused' = {d \in refused \cup told : debounce_set_m'[d] # cell'[d]}
        /\ edit_text' = IF display THEN edit_text_display(Shown(unit', cell'[c]), now) ELSE now
        /\ format_m' = IF display THEN unit'.format ELSE format_m

\* The same with force, for the value the widget believes in.
redisplay ==
    /\ edit_text' = edit_text_display(
           Shown(unit', debounce_set_m[current_base_unit(unit')]), edit_text)
    /\ format_m' = unit'.format
    /\ UNCHANGED <<cell, debounce_set_m, refused>>

\* What the relations of the sheet make of a cell that is set: it takes the
\* value, keeps its own or is brought to a limit, and other cells follow.
sheet_set(c, value) ==
    \E solution \in [BaseUnit -> CellValue] :
        /\ solution[c] \in {value, cell[c]} \cup Limit
        /\ cell' = solution

------------------------------------------------------------------------------
(* From the field to the sheet *)

\* number_formatter_t::parse: what is no number is 0, or the number it begins with.
parse(text) ==
    CASE text = junk         -> Number \cup {0}
      [] text = intermediate -> {0}
      [] OTHER               -> {text}

\* Wrong: the value is remembered although the field does not show it.
monitor_text_remembers(text, display_was_updated, now) ==
    \E number \in parse(text) :
    LET c == current_base_unit(unit')
        real == IF text = intermediate THEN 0 ELSE to_pinned_base_value(number, unit')
    IN  IF debounce_set_m[c] = real
        THEN edit_text' = now /\ UNCHANGED <<cell, debounce_set_m, refused, format_m>>
        ELSE /\ sheet_set(c, real)
             /\ refresh_view([debounce_set_m EXCEPT ![c] = real], now, {c})

\* A text becomes the value of the current cell.  display_was_updated says that
\* the field shows it already, so that it need not come back.
monitor_text(text, display_was_updated, now) ==
    \E number \in parse(text) :
    LET c == current_base_unit(unit')
        to_come == text = intermediate
        real == IF to_come THEN 0 ELSE to_pinned_base_value(number, unit')
        told == IF display_was_updated \/ to_come THEN {c} ELSE {}
    IN  IF debounce_set_m[c] = real
        THEN edit_text' = now /\ UNCHANGED <<cell, debounce_set_m, refused, format_m>>
        ELSE /\ sheet_set(c, real)
             /\ refresh_view([d \in BaseUnit |-> IF d \in told THEN real ELSE debounce_set_m[d]],
                             now, told)

\* A text that is no number, or is beyond the limits, is squelched.
squelch(text) ==
    \/ text = junk
    \/ /\ text # intermediate
       /\ to_base_value(text, unit) # to_pinned_base_value(text, unit)

\* The user types, and the text is not squelched: that puts the old one back.
type_text(text) ==
    /\ edit_enabled /\ focused /\ text # edit_text.field
    /\ ~squelch(text)
    /\ UNCHANGED <<untouched, unit_index_m>>
    /\ monitor_text(text, TRUE, Holding(text))

increment_n(n) ==
    /\ UNCHANGED <<untouched, unit_index_m>>
    /\ monitor_text(Formatted(debounce_set_m[current_base_unit(unit)]
                              + unit.scale * unit.increment * n, unit, format_m),
                    FALSE, edit_text)

\* Windows sends no keys and no clicks to what is disabled, the label among it; on the
\* Mac the wheel and the label go on working.
Reachable == os = "win" => edit_enabled

\* The arrow keys, and on Windows the wheel, through the text filter.
handle_key(up) == focused /\ Reachable /\ increment_n(IF up THEN 1 ELSE -1)
field_text_filter_arrow(up) ==
    os = "win" /\ focused /\ Reachable /\ increment_n(IF up THEN 1 ELSE -1)
wheel(delta, extra) == os = "mac" /\ increment_n(IF extra THEN delta * 10 ELSE delta)

\* Dragging the label: on the Mac also by nothing.
label_message(delta, shift) ==
    os = "win" /\ Reachable /\ increment_n(IF shift THEN delta * 10 ELSE delta)
label_subevent(delta, shift) ==
    os = "mac" /\ increment_n(IF shift THEN delta * 10 ELSE delta)

\* Where the system edits the field itself: Delete, or Cut and Paste from the
\* menu, on Windows.
edit_untold(text) ==
    /\ os = "win" /\ edit_enabled /\ focused /\ text # edit_text.field
    /\ edit_text' = [edit_text EXCEPT !.field = text, !.untold = TRUE]
    /\ UNCHANGED <<untouched, unit_index_m, cell, debounce_set_m, format_m, refused>>

------------------------------------------------------------------------------
(* Unit, enabling, and the rest of the world *)

\* The popup's cell, in the sheet of the layout, has another unit.  With the
\* focus in the field, its text becomes a value of the new unit; without, it
\* shows the value there is.  A name that is no unit's changes nothing.
display_unit(name) ==
    /\ unit_index_m' = name
    /\ edit_enabled' = enabled_m[current_base_unit(unit')]
    /\ IF focused /\ enabled_m[current_base_unit(unit')]
       THEN monitor_text(edit_text.field, TRUE, edit_text)
       ELSE redisplay
    /\ UNCHANGED <<os, enabled_m, focused>>

controller_enable(c, make_enabled) ==
    /\ enabled_m[c] # make_enabled
    /\ enabled_m' = [enabled_m EXCEPT ![c] = make_enabled]
    /\ edit_enabled' = IF c = current_base_unit(unit) THEN make_enabled ELSE edit_enabled
    /\ UNCHANGED <<os, cell, unit_index_m, debounce_set_m, edit_text, format_m,
                   focused, refused>>

\* The numbers may be written differently from now on.
monitor_locale == UNCHANGED <<untouched, unit_index_m>> /\ redisplay

\* Another controller sets a cell.
view_display(solution) ==
    /\ solution # cell /\ cell' = solution
    /\ UNCHANGED <<untouched, unit_index_m>>
    /\ refresh_view(debounce_set_m, edit_text, {})

focus ==
    /\ focused' = ~focused
    /\ UNCHANGED <<os, cell, unit_index_m, debounce_set_m, enabled_m, edit_enabled,
                   edit_text, format_m, refused>>

\* After the factory attached the views and the popup: each view was told its
\* cell, the field shows the unit the popup's cell starts with.
NumberInit ==
    /\ os \in {"win", "mac"}
    /\ cell \in [BaseUnit -> CellValue] /\ debounce_set_m = cell
    /\ unit_index_m \in UnitName /\ format_m = unit.format
    /\ enabled_m = [c \in BaseUnit |-> TRUE] /\ edit_enabled = TRUE
    /\ edit_text = Holding(Shown(unit, cell[current_base_unit(unit)]))
    /\ focused = FALSE /\ refused = {}

NumberNext ==
    \/ \E text \in Number \cup {intermediate, junk} : type_text(text) \/ edit_untold(text)
    \/ \E up \in BOOLEAN : handle_key(up) \/ field_text_filter_arrow(up)
    \/ \E delta \in Delta, tenfold \in BOOLEAN :
           wheel(delta, tenfold) \/ label_message(delta, tenfold)
    \/ \E delta \in Delta \cup {0}, tenfold \in BOOLEAN : label_subevent(delta, tenfold)
    \/ \E name \in UnitName : display_unit(name)
    \/ \E c \in BaseUnit, b \in BOOLEAN : controller_enable(c, b)
    \/ \E solution \in [BaseUnit -> CellValue] : view_display(solution)
    \/ monitor_locale \/ focus

NumberSpec == NumberInit /\ [][NumberNext]_number_vars

------------------------------------------------------------------------------
(* Properties *)

\* Every variable holds what its declaration says, and what the widget believes
\* to be in the field is a number or may become one.
NumberTypes ==
    /\ os \in {"win", "mac"} /\ format_m \in Int /\ format_m > 0
    /\ cell \in [BaseUnit -> CellValue] /\ debounce_set_m \in [BaseUnit -> Int]
    /\ unit_index_m \in UnitName /\ enabled_m \in [BaseUnit -> BOOLEAN]
    /\ edit_enabled \in BOOLEAN /\ focused \in BOOLEAN /\ refused \subseteq BaseUnit
    /\ edit_text \in [field : Int \cup {intermediate, junk},
                     value_m : Int \cup {intermediate}, untold : BOOLEAN]

\* The field and the unit next to it say one thing: what the widget believes the
\* unit's cell to be, as that unit writes it, or as the user wrote it, within the
\* limits; and it can be edited exactly if that cell can.  However the unit, the
\* focus, the locale and the sheet change around it, nothing but an edit nobody
\* told of makes it show another number.
FieldShowsUnit ==
    LET c == current_base_unit(unit)
        text == edit_text.field
    IN  /\ edit_enabled = enabled_m[c]
        /\ \/ edit_text.untold
           \/ text = intermediate /\ debounce_set_m[c] = 0
           \/ /\ text \in Int
              /\ \/ text = Shown(unit, debounce_set_m[c])
                 \/ to_pinned_base_value(text, unit) = debounce_set_m[c]

\* What the widget believes of every cell, shown or not, is what the sheet has:
\* the next step up or down and the next change of unit start from it.  Only a
\* value that was typed and that the sheet did not take stays believed.
DebounceFollowsCells == \A c \in BaseUnit \ refused : debounce_set_m[c] = cell[c]
===============================================================================
