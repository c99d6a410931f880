------------------------------- MODULE Widgets -------------------------------
(***************************************************************************)
(* The widgets that show and change one cell of a sheet, as Windows and    *)
(* the Mac have them (platform_checkbox.cpp, platform_radio_button.cpp,    *)
(* platform_toggle.cpp, platform_reveal.cpp, platform_tab_group.cpp,       *)
(* platform_slider.cpp, platform_popup.cpp, platform_link.cpp,             *)
(* platform_edit_text.cpp), bound to it by widget_factory.hpp.             *)
(*                                                                         *)
(* The user acts on a control; its handler calls the setter, which sets    *)
(* the cell and updates the sheet, which displays the value of the cell to *)
(* every widget bound to it if it changed, and lays the window out again.  *)
(* Some controls change by themselves when the user acts, and some call    *)
(* the handler also when the program changes them.                         *)
(*                                                                         *)
(* A widget is a record: last, the value it remembers (last_m, value_m,    *)
(* current_value_m or type_1_debounce_m); position, where a slider was     *)
(* last put (its last_m); shown, what its control shows: the item of a     *)
(* popup or of a tab group, counted from one, zero being 'Custom' or no    *)
(* tab; custom (custom_m); flag (debounce_m or type_2_debounce_m); live,   *)
(* whether the control is enabled.  Its operations take it and return it   *)
(* with the calls they make.                                               *)
(***************************************************************************)
EXTENDS Naturals, Sequences, FiniteSets, SequencesExt, FiniteSetsExt

CONSTANTS none,      \* empty_t
          Bindings   \* the sequences of kinds that may be bound to the cell

\* The values of the cell.  On and Off are those a widget of two states, the two tabs
\* and the menu's items stand for; a slider goes from On to Off in one step, and
\* Other is nearer to Off.
On == 0
Off == 3
Other == 2
Value == {none, On, Off, Other}
Menus == {<<>>, <<On, Off>>, <<Off>>}

Kind == {"checkbox", "radio_button", "toggle", "reveal", "tab_group", "slider", "popup",
         "link", "edit_text"}
\* Of two radio buttons on a cell the first stands for On, the second for Off.
BindingsAssumption ==
    /\ none \notin {On, Off, Other}
    /\ Bindings \subseteq Seq(Kind)
    /\ \A b \in Bindings : \A i \in DOMAIN b : b[i] = "radio_button" => i \in {1, 2}

VARIABLES platform,   \* "win" or "mac"
          bound,      \* Seq(Kind): the widgets
          widget,     \* [DOMAIN bound -> widget]
          cell, enabled,
          items,      \* the values in a popup's menu, in order
          todo,       \* the calls to be made, the innermost first
          writes,     \* how often the cell was set since the user acted (at most 2)
          stray,      \* widgets that may differ from the cell: see ShowsCellAtRest
          stuck       \* tab groups whose handler an exception has left

vars == <<platform, bound, widget, cell, enabled, items, todo, writes, stray, stuck>>

win == platform = "win"
AtRest == todo = <<>>
Call(op, i, v) == [op |-> op, i |-> i, v |-> v]

\* A slider cannot show what is not a number.
CellValue == IF Contains(bound, "slider") THEN Value \ {none} ELSE Value

Index(s, v) == SelectInSeq(s, LAMBDA x : x = v)

------------------------------------------------------------------------------
(* value_range_format_t: first_m = On, last_m = Off, one interval *)

interval_count_m == 1
at(index) == Min({Off, (index * (Off - On)) \div interval_count_m + On})
find(source) == Min({interval_count_m,
    (2 * interval_count_m * (source - On) + (Off - On)) \div (2 * (Off - On))})

\* What a control of this kind shows for a value.
Shows(i, v, live) ==
    CASE bound[i] = "checkbox" -> IF v = On THEN "checked"
                                  ELSE IF v = Off THEN "unchecked" ELSE "mixed"
      [] bound[i] = "radio_button" -> IF v = <<On, Off>>[i] THEN "checked" ELSE "unchecked"
      [] bound[i] = "toggle" -> IF ~live THEN "disabled" ELSE IF v = On THEN "on" ELSE "off"
      [] bound[i] = "reveal" -> IF v = On THEN "showing" ELSE "hidden"
      [] bound[i] = "link" -> IF v = On /\ live THEN "visible" ELSE "hidden"
      [] bound[i] = "slider" -> find(v)
      [] bound[i] = "popup" -> Index(items, v)
      [] bound[i] = "tab_group" -> Index(<<On, Off>>, v)
      [] OTHER -> v

\* A value that no tab stands for leaves the tab there is; an empty menu shows nothing.
Agrees(i, w, v) ==
    \/ w.shown = Shows(i, v, w.live)
    \/ bound[i] = "tab_group" /\ v \notin {On, Off}
    \/ bound[i] = "popup" /\ items = <<>>

------------------------------------------------------------------------------
(* display *)

Quietly(w) == <<w, <<>>>>

\* Most widgets do nothing if they are displaying the value already.
Displays(i, w, v) ==
    IF w.last = v THEN w ELSE [w EXCEPT !.last = v, !.shown = Shows(i, v, w.live)]

checkbox_display_win(i, w, v) == Displays(i, w, v)
checkbox_display_mac(i, w, v) == [w EXCEPT !.shown = Shows(i, v, w.live)]
radio_display_win(i, w, v) == Displays(i, w, v)

\* Wrong: the control is changed and the value is not remembered.
radio_display_mac_forgets(i, w, v) ==
    IF w.last = v THEN w ELSE [w EXCEPT !.shown = Shows(i, v, w.live)]

radio_display_mac(i, w, v) == Displays(i, w, v)
toggle_display_win(i, w, v) == Displays(i, w, v)
toggle_display_mac(i, w, v) == Displays(i, w, v)
reveal_display_win(i, w, v) == Displays(i, w, v)
reveal_display_mac(i, w, v) == Displays(i, w, v)
link_display_win(i, w, v) == [w EXCEPT !.last = v, !.shown = Shows(i, v, w.live)]
link_display_mac(i, w, v) == [w EXCEPT !.last = v, !.shown = Shows(i, v, w.live)]

\* The control is moved only if the place is not the one it was last put at; a drag
\* does not change that place.
slider_display_win(i, w, v) ==
    [w EXCEPT !.last = v, !.position = find(v),
              !.shown = IF find(v) = w.position THEN w.shown ELSE find(v)]
slider_display_mac(i, w, v) == slider_display_win(i, w, v)

tab_display_win(i, w, v) == IF v \in {On, Off} THEN [w EXCEPT !.shown = Shows(i, v, w.live)] ELSE w

\* Wrong: the control's own change is taken for the user's.
tab_display_mac_unflagged(i, w, v) ==
    IF w.flag \/ v \notin {On, Off} THEN Quietly(w)
    ELSE <<[w EXCEPT !.shown = Shows(i, v, w.live)], <<Call("changed", i, v)>>>>

\* The control calls the handler while the flag is up.
tab_display_mac(i, w, v) ==
    IF w.flag \/ v \notin {On, Off} THEN Quietly(w)
    ELSE <<[w EXCEPT !.shown = Shows(i, v, w.live), !.flag = TRUE],
           <<Call("changed", i, v), Call("clear", i, v)>>>>

\* 'Custom' is the first item as long as no item has the value; display_custom does
\* not select it again.
popup_display_custom(i, w, v) ==
    IF w.custom THEN Quietly([w EXCEPT !.last = v])
    ELSE <<[w EXCEPT !.last = v, !.custom = TRUE, !.shown = 0, !.flag = TRUE],
           <<Call("changed", i, v), Call("clear", i, v)>>>>
popup_display_win(i, w, v) ==
    IF ~Contains(items, v) THEN popup_display_custom(i, w, v)
    ELSE <<[w EXCEPT !.last = v, !.custom = FALSE, !.shown = Index(items, v), !.flag = TRUE],
           <<Call("changed", i, v), Call("clear", i, v)>>>>
popup_display_mac(i, w, v) == popup_display_win(i, w, v)

\* Setting the text is no event that its handler hears.
edit_text_display_win(i, w, v) == Displays(i, w, v)
edit_text_display_mac(i, w, v) ==
    IF w.last = v THEN w ELSE [Displays(i, w, v) EXCEPT !.flag = FALSE]

display(i, w, v) ==
    LET kind == bound[i]
        mac == ~win
    IN  CASE kind = "checkbox" /\ win -> Quietly(checkbox_display_win(i, w, v))
          [] kind = "checkbox" /\ mac -> Quietly(checkbox_display_mac(i, w, v))
          [] kind = "radio_button" /\ win -> Quietly(radio_display_win(i, w, v))
          [] kind = "radio_button" /\ mac -> Quietly(radio_display_mac(i, w, v))
          [] kind = "toggle" /\ win -> Quietly(toggle_display_win(i, w, v))
          [] kind = "toggle" /\ mac -> Quietly(toggle_display_mac(i, w, v))
          [] kind = "reveal" /\ win -> Quietly(reveal_display_win(i, w, v))
          [] kind = "reveal" /\ mac -> Quietly(reveal_display_mac(i, w, v))
          [] kind = "link" /\ win -> Quietly(link_display_win(i, w, v))
          [] kind = "link" /\ mac -> Quietly(link_display_mac(i, w, v))
          [] kind = "slider" /\ win -> Quietly(slider_display_win(i, w, v))
          [] kind = "slider" /\ mac -> Quietly(slider_display_mac(i, w, v))
          [] kind = "tab_group" /\ win -> Quietly(tab_display_win(i, w, v))
          [] kind = "tab_group" /\ mac -> tab_display_mac(i, w, v)
          [] kind = "popup" /\ win -> popup_display_win(i, w, v)
          [] kind = "popup" /\ mac -> popup_display_mac(i, w, v)
          [] kind = "edit_text" /\ win -> Quietly(edit_text_display_win(i, w, v))
          [] kind = "edit_text" /\ mac -> Quietly(edit_text_display_mac(i, w, v))

\* The picture and the link depend on whether the control is enabled.
enable(i, w, make_enabled) ==
    [w EXCEPT !.live = make_enabled,
              !.shown = IF bound[i] \in {"toggle", "link"} THEN Shows(i, w.last, make_enabled)
                        ELSE w.shown]

\* popup_t::reset_menu_item_set, which enables a popup the model has disabled.
reset_menu_item_set(i, w) ==
    LET reset == [w EXCEPT !.custom = FALSE, !.live = items # <<>>, !.shown = 1]
    IN  IF items = <<>> THEN Quietly(reset) ELSE display(i, reset, w.last)

------------------------------------------------------------------------------
(* What the handlers of the controls ask the setter for *)

Ask(i, w, v) == <<w, <<Call("set", i, v)>>>>
Toggled(v) == IF v = On THEN none ELSE On

checkbox_subclass_proc(i, w) == Ask(i, w, IF w.last = On THEN Off ELSE On)
checkbox_hit_handler(i, w) == Ask(i, w, IF w.shown = "checked" THEN On ELSE Off)
radio_button_subclass_proc(i, w) == Ask(i, w, <<On, Off>>[i])
radio_button_hit_handler(i, w) ==
    IF w.last = <<On, Off>>[i] THEN Quietly(w)
    ELSE Ask(i, [w EXCEPT !.last = <<On, Off>>[i]], <<On, Off>>[i])
toggle_subclass_proc(i, w) == Ask(i, w, Toggled(w.last))
toggle_hit_handler(i, w) == Ask(i, w, Toggled(w.last))
reveal_subclass_proc(i, w) == Ask(i, w, Toggled(w.last))
reveal_hit_handler(i, w) == Ask(i, w, Toggled(w.last))
link_subclass_proc(i, w) == Ask(i, w, Off)
link_hit_handler(i, w) == Ask(i, w, Off)

slider_subclass_proc(i, w) ==
    IF at(w.shown) = w.last THEN Quietly(w)
    ELSE Ask(i, [w EXCEPT !.last = at(w.shown)], at(w.shown))
slider_action(i, w) == slider_subclass_proc(i, w)

tab_group_subclass_proc(i, w) == Ask(i, w, <<On, Off>>[w.shown])
tab_group_value_handler(i, w) ==
    IF w.flag THEN Quietly(w)
    ELSE <<[w EXCEPT !.flag = TRUE],
           <<Call("set", i, <<On, Off>>[Max({w.shown, 1})]), Call("clear", i, none)>>>>

\* On Windows 'Custom' is item -1 of the menu, and at throws.
popup_subclass_proc(i, w) ==
    IF w.flag THEN Quietly(w)
    ELSE IF w.shown = 0 THEN <<w, <<Call("throw", i, none)>>>>
    ELSE Ask(i, w, items[w.shown])
popup_value_handler(i, w) ==
    IF items = <<>> \/ w.flag \/ w.shown = 0 THEN Quietly(w) ELSE Ask(i, w, items[w.shown])

handler(i, w) ==
    LET kind == bound[i]
        mac == ~win
    IN  CASE kind = "checkbox" /\ win -> checkbox_subclass_proc(i, w)
          [] kind = "checkbox" /\ mac -> checkbox_hit_handler(i, w)
          [] kind = "radio_button" /\ win -> radio_button_subclass_proc(i, w)
          [] kind = "radio_button" /\ mac -> radio_button_hit_handler(i, w)
          [] kind = "toggle" /\ win -> toggle_subclass_proc(i, w)
          [] kind = "toggle" /\ mac -> toggle_hit_handler(i, w)
          [] kind = "reveal" /\ win -> reveal_subclass_proc(i, w)
          [] kind = "reveal" /\ mac -> reveal_hit_handler(i, w)
          [] kind = "link" /\ win -> link_subclass_proc(i, w)
          [] kind = "link" /\ mac -> link_hit_handler(i, w)
          [] kind = "slider" /\ win -> slider_subclass_proc(i, w)
          [] kind = "slider" /\ mac -> slider_action(i, w)
          [] kind = "tab_group" /\ win -> tab_group_subclass_proc(i, w)
          [] kind = "tab_group" /\ mac -> tab_group_value_handler(i, w)
          [] kind = "popup" /\ win -> popup_subclass_proc(i, w)
          [] kind = "popup" /\ mac -> popup_value_handler(i, w)

------------------------------------------------------------------------------
(* How the widgets start: attach_enabler and attach_view display at once; a *)
(* reveal has no enabler, its factory attaches just the monitor.            *)

\* popup_t displays its last_m, empty_t, before it is attached.  What a slider's last_m
\* and, on the Mac, a text's type_2_debounce_m hold nobody has set.
Inserted(i, some_position, some_flag) ==
    LET kind == bound[i]
        w == [last |-> none, position |-> some_position, shown |-> "nothing",
              custom |-> FALSE, flag |-> FALSE, live |-> TRUE]
    IN  CASE kind = "slider" -> [w EXCEPT !.shown = 0]
          [] kind = "tab_group" -> [w EXCEPT !.shown = IF win THEN 1 ELSE 0]
          [] kind = "popup" -> [w EXCEPT !.shown = 0, !.custom = items # <<>>,
                                         !.live = items # <<>>]
          [] kind = "edit_text" -> [w EXCEPT !.shown = none, !.flag = ~win /\ some_flag]
          [] kind \in {"checkbox", "radio_button"} -> [w EXCEPT !.shown = "unchecked"]
          [] ~win /\ kind = "toggle" -> [w EXCEPT !.shown = "off"]
          [] ~win /\ kind = "reveal" -> [w EXCEPT !.shown = "hidden"]
          [] OTHER -> w

\* A widget that takes the cell's first value for the one it displays already, though
\* it displays nothing yet: on Windows empty_t, for a slider the place that its last_m,
\* which nobody has initialised, happens to hold.
Mistaken(i, w) ==
    \/ win /\ cell = none /\ bound[i] \in {"checkbox", "toggle", "reveal"}
    \/ bound[i] = "slider" /\ w.position = find(cell) /\ find(cell) # w.shown

Init == /\ platform \in {"win", "mac"}
        /\ bound \in Bindings
        /\ cell \in CellValue
        /\ enabled \in BOOLEAN
        /\ items \in (IF Contains(bound, "popup") THEN Menus ELSE {<<>>})
        /\ \E some_position \in 0 .. 2, some_flag \in BOOLEAN :
             widget = [i \in DOMAIN bound |-> Inserted(i, some_position, some_flag)]
        /\ todo = FlattenSeq([i \in DOMAIN bound |->
               (IF bound[i] = "reveal" THEN <<>> ELSE <<Call("enable", i, none)>>)
                   \o <<Call("display", i, cell)>>])
        /\ writes = 0
        /\ stray = {i \in DOMAIN bound : Mistaken(i, widget[i])}
        /\ stuck = {}

------------------------------------------------------------------------------
(* The calls, one after the other *)

Next_call(op) == ~AtRest /\ Head(todo).op = op

\* The widget is changed, and the calls made, before the caller goes on.
Becomes(i, result) == /\ widget' = [widget EXCEPT ![i] = result[1]]
                      /\ todo' = result[2] \o Tail(todo)
                      /\ UNCHANGED <<platform, bound, cell, enabled, items, writes, stuck>>

\* A widget that has been displayed to and agrees is in step again.
InStep(i, w) == stray' = IF Agrees(i, w, cell) THEN stray \ {i} ELSE stray

call_enable == /\ Next_call("enable")
               /\ LET i == Head(todo).i IN Becomes(i, Quietly(enable(i, widget[i], enabled)))
               /\ UNCHANGED stray

call_display ==
    /\ Next_call("display")
    /\ LET c == Head(todo)
           result == display(c.i, widget[c.i], c.v)
       IN  Becomes(c.i, result) /\ InStep(c.i, result[1])

call_reset ==
    /\ Next_call("reset")
    /\ LET i == Head(todo).i
           result == reset_menu_item_set(i, widget[i])
       IN  Becomes(i, result) /\ InStep(i, result[1])

call_handler == /\ Next_call("changed")
                /\ LET i == Head(todo).i IN Becomes(i, handler(i, widget[i]))
                /\ UNCHANGED stray

clear_flag ==
    /\ Next_call("clear")
    /\ LET i == Head(todo).i IN Becomes(i, Quietly([widget[i] EXCEPT !.flag = FALSE]))
    /\ UNCHANGED stray

\* touch_set_update: the model may grant what it is asked for, adjust it or refuse.
touch_set_update ==
    /\ Next_call("set")
    /\ \E new \in CellValue :
         /\ cell' = new
         /\ todo' = (IF new = cell THEN <<>>
                     ELSE [j \in DOMAIN bound |-> Call("display", j, new)])
                    \o <<Call("layout", Head(todo).i, none)>> \o Tail(todo)
         /\ stray' = IF new = Head(todo).v THEN stray \ {Head(todo).i} ELSE stray
    /\ writes' = Min({writes + 1, 2})
    /\ UNCHANGED <<platform, bound, widget, enabled, items, stuck>>

layout_behavior == /\ Next_call("layout")
                   /\ todo' = Tail(todo)
                   /\ UNCHANGED <<platform, bound, widget, cell, enabled, items, writes, stray, stuck>>

\* What the calls were to do afterwards is not done.
throw == /\ Next_call("layout") \/ Next_call("throw")
         /\ todo' = <<>>
         /\ stuck' = stuck \cup {i \in DOMAIN bound : bound[i] = "tab_group" /\ widget[i].flag}
         /\ UNCHANGED <<platform, bound, widget, cell, enabled, items, writes, stray>>

------------------------------------------------------------------------------
(* The user *)

\* What the control is after the user acted on it, before its handler is called.
Moved(i, w) ==
    LET kind == bound[i]
    IN  CASE kind = "checkbox" /\ ~win ->
               {[w EXCEPT !.shown = s] : s \in {"checked", "unchecked"} \ {w.shown}}
          [] kind = "radio_button" /\ ~win -> {[w EXCEPT !.shown = "checked"]}
          [] kind = "tab_group" -> {[w EXCEPT !.shown = s] : s \in {1, 2} \ {w.shown}}
          [] kind = "slider" -> {[w EXCEPT !.shown = s] : s \in {0, 1}}
          [] kind = "popup" -> {[w EXCEPT !.shown = s] :
                 s \in (DOMAIN items \cup IF w.custom THEN {0} ELSE {}) \ {w.shown}}
          [] kind = "link" -> IF w.shown = "visible" THEN {w} ELSE {}
          [] kind = "edit_text" -> {}
          [] OTHER -> {w}

Acts(i, w, calls) == /\ AtRest /\ widget[i].live
                     /\ widget' = [widget EXCEPT ![i] = w]
                     /\ todo' = calls
                     /\ writes' = 0
                     /\ stray' = IF w = widget[i] THEN stray ELSE stray \cup {i}
                     /\ UNCHANGED <<platform, bound, cell, enabled, items, stuck>>

gesture(i) == \E w \in Moved(i, widget[i]) : Acts(i, w, <<Call("changed", i, none)>>)

\* edit_text_window_proc, edit_text_handler_t::handle_event: a text that the filter or
\* the length forbids is put back, and on the Mac the flag stops every key.
type_text(i) ==
    /\ bound[i] = "edit_text" /\ ~(widget[i].flag /\ ~win)
    /\ \E text \in CellValue \ {widget[i].shown}, squelch \in BOOLEAN :
         IF squelch THEN Acts(i, widget[i], <<>>)
         ELSE Acts(i, [widget[i] EXCEPT !.last = text, !.shown = text], <<Call("set", i, text)>>)

\* On Windows only WM_CHAR is looked at: Delete and paste change the text unseen.
edit_untold(i) ==
    /\ bound[i] = "edit_text" /\ win
    /\ \E text \in CellValue \ {widget[i].shown} :
         Acts(i, [widget[i] EXCEPT !.shown = text], <<>>)

------------------------------------------------------------------------------
(* The sheet *)

\* Something else sets the cell; a write that comes of it is one too many.
cell_set == /\ AtRest
            /\ \E new \in CellValue \ {cell} :
                 /\ cell' = new
                 /\ todo' = [j \in DOMAIN bound |-> Call("display", j, new)]
            /\ writes' = 1
            /\ UNCHANGED <<platform, bound, widget, enabled, items, stray, stuck>>

cell_enabled == /\ AtRest
                /\ enabled' = ~enabled
                /\ todo' = FlattenSeq([j \in DOMAIN bound |->
                       IF bound[j] = "reveal" THEN <<>> ELSE <<Call("enable", j, none)>>])
                /\ UNCHANGED <<platform, bound, widget, cell, items, writes, stray, stuck>>

items_set == /\ AtRest /\ Contains(bound, "popup")
             /\ items' \in Menus \ {items}
             /\ todo' = FlattenSeq([j \in DOMAIN bound |->
                    IF bound[j] = "popup" THEN <<Call("reset", j, none)>> ELSE <<>>])
             /\ UNCHANGED <<platform, bound, widget, cell, enabled, writes, stray, stuck>>

Next == \/ \E i \in DOMAIN bound : gesture(i) \/ type_text(i) \/ edit_untold(i)
        \/ call_enable \/ call_display \/ call_reset \/ call_handler \/ clear_flag
        \/ touch_set_update \/ layout_behavior \/ throw
        \/ cell_set \/ cell_enabled \/ items_set

Spec == Init /\ [][Next]_vars

------------------------------------------------------------------------------
(* Correctness *)

\* ShowsCellAtRest: when the calls have come back every control shows the cell, however
\* it came to its value, and is enabled if the cell is.  Excepted are the control the
\* user has moved to something the model did not grant, a text changed unseen, a widget
\* that was mistaken at first (each until it is displayed to successfully), a tab group
\* left stuck, and whether a popup is enabled, which its menu has a say in.
ShowsCellAtRest ==
    AtRest => \A i \in DOMAIN bound :
        /\ i \in stray \cup stuck \/ Agrees(i, widget[i], cell)
        /\ bound[i] \in {"reveal", "popup"} \/ widget[i].live = enabled

\* OneWritePerGesture: what the user does sets the cell once; displaying the new value,
\* to controls that tell of every change, sets nothing.
OneWritePerGesture == writes <= 1
===============================================================================
