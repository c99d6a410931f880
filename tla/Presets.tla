------------------------------- MODULE Presets -------------------------------
(***************************************************************************)
(* presets_t (adobe/future/widgets/sources/presets_common.cpp, with         *)
(* presets_factory.cpp and the Macintosh's platform_presets.cpp): snapshots *)
(* of a sheet, kept in a file.                                              *)
(*                                                                         *)
(* A control holds the user's presets in memory as it last loaded them,     *)
(* shows them in two popups, one for the category and one for the preset,   *)
(* and follows the sheet: of the presets that agree with it, it shows the   *)
(* largest.  Adding, deleting and appending go through a dialog, change the *)
(* list in memory, save all of it over the file and load the file again.    *)
(* Controls with the same name and domain, in windows of one program or of  *)
(* two, share the file.  Each has a sheet of its own.                       *)
(*                                                                         *)
(* A preset is its values; names, which only label it, are left out.        *)
(***************************************************************************)
EXTENDS Naturals, Sequences, FiniteSets, SequencesExt

CONSTANTS Control,        \* the controls that share a file
          Cell, Setting,  \* the sheet's cells and their values
          Default,        \* the default presets: a sequence of categories
          Additional,     \* what bind_additional may hold: category sequences
          Import,         \* what an appended file may hold: category sequences
          MaxItems,       \* a bound on the user's presets
          custom,         \* what a popup shows and holds for no preset
          torn            \* a file that has been truncated and not written

VARIABLES file,       \* the preset file: a sequence of categories, or torn
          sheet,      \* [Control -> [Cell -> Setting]]
          user,       \* [Control -> categories]: user_preset_set_m
          dynamic,    \* [Control -> categories]: dynamic_preset_set_m
          composite,  \* [Control -> categories]: composite_m
          last,       \* [Control -> what was last displayed]: last_m
          category,   \* [Control -> the category popup]
          popup,      \* [Control -> the preset popup]
          state_cell, \* [Control -> items]: the cell between the popups
          phase,      \* [Control -> the dialog it is in, or "saving"]
          saved,      \* [Control -> the operation it is saving]
          kept,       \* history: what all the operations saved together make, until
          lost        \* a program has died while it saved

presets_vars == <<file, sheet, user, dynamic, composite, last, category, popup, state_cell,
          phase, saved, kept, lost>>
popup_vars == <<last, category, popup>>
list_vars == <<user, dynamic, composite>>

\* A preset's values, and a sequence of categories of presets.
Values == UNION {[D -> Setting] : D \in SUBSET Cell}
Categories == Seq(Seq(Values))

ASSUME PresetsAssumption ==
    /\ Default \in Categories /\ Additional \subseteq Categories /\ Import \subseteq Categories
    /\ IsFiniteSet(Cell) /\ MaxItems \in Nat
    /\ torn \notin Categories

------------------------------------------------------------------------------
(* The popups (platform_popup.cpp) *)

\* The items are of a kind, and one of them is shown, or none.
popup_t(Kind) ==
    {p \in [items : Seq(Kind), last : Kind \cup {custom}, shown : Kind \cup {custom}] :
        p.shown \in ToSet(p.items) \cup {custom}}

\* popup_t::display: an item, or none.  It does not call back.
Show(v, items) == IF v \in ToSet(items) THEN v ELSE custom

\* A popup whose items are reset displays what it displayed last.
Reset(p, items) == [items |-> items, last |-> p.last, shown |-> Show(p.last, items)]
Displayed(p, v) == [items |-> p.items, last |-> v, shown |-> Show(v, p.items)]
Picked(p, v) == [p EXCEPT !.shown = v]

------------------------------------------------------------------------------
(* display *)

\* Wrong: collisions are looked for, missing cells are not.
Matches_any(value, s) == \E k \in DOMAIN value : value[k] = s[k]

\* No collisions, and a subset; an empty preset matches nothing.
Matches(value, s) == value # <<>> /\ \A k \in DOMAIN value : value[k] = s[k]

no_match == [items |-> <<>>, value |-> <<>>]

\* Where the presets that match are: the category, and the place in it.
Found(categories, s) ==
    {p \in UNION {{i} \X DOMAIN categories[i] : i \in DOMAIN categories} :
        Matches(categories[p[1]][p[2]], s)}

\* The first of the largest that match.
Match(categories, s) ==
    LET size(p) == Cardinality(DOMAIN categories[p[1]][p[2]])
        largest == {p \in Found(categories, s) :
                       \A q \in Found(categories, s) : size(q) <= size(p)}
        first   == CHOOSE p \in largest :
                       \A q \in largest : p[1] < q[1] \/ (p[1] = q[1] /\ p[2] <= q[2])
    IN  IF largest = {} THEN no_match
        ELSE [items |-> categories[first[1]], value |-> categories[first[1]][first[2]]]

\* The control displays s: the popups were cat and pop, the categories are
\* those of cat.  Without a match both show custom.
display(c, s, cat, pop) ==
    LET m == Match(cat.items, s)
    IN /\ last' = [last EXCEPT ![c] = s]
       /\ category' = [category EXCEPT ![c] =
                          Displayed(cat, IF m = no_match THEN custom ELSE m.items)]
       /\ popup' = [popup EXCEPT ![c] =
                       IF m = no_match THEN Reset(Displayed(pop, custom), <<>>)
                       ELSE Displayed(Reset(pop, m.items), m.value)]

\* The sheet gets the values s, and is updated: the control follows a change.
SetSheet(c, s, cat, pop) ==
    /\ sheet' = [sheet EXCEPT ![c] = s]
    /\ IF s # sheet[c] THEN display(c, s, cat, pop)
       ELSE /\ category' = [category EXCEPT ![c] = cat]
            /\ popup' = [popup EXCEPT ![c] = pop]
            /\ UNCHANGED last

\* A preset's values are set, the other cells are left.
Imbued(value, s) == [k \in Cell |-> IF k \in DOMAIN value THEN value[k] ELSE s[k]]

imbue_preset(c, value, cat, pop) == SetSheet(c, Imbued(value, sheet[c]), cat, pop)

------------------------------------------------------------------------------
(* The user and the sheet *)

Idle(c) == phase[c] = "idle"

\* Another widget changes the sheet.
change(c, s) ==
    /\ Idle(c) /\ s # sheet[c]
    /\ SetSheet(c, s, category[c], popup[c])
    /\ UNCHANGED <<file, list_vars, state_cell, phase, saved, kept, lost>>

\* A preset is chosen in its popup: do_imbue.
do_imbue(c, v) ==
    /\ Idle(c) /\ v \in ToSet(popup[c].items)
    /\ imbue_preset(c, v, category[c], Picked(popup[c], v))
    /\ UNCHANGED <<file, list_vars, state_cell, phase, saved, kept, lost>>

\* A category is chosen: it goes into the cell between the popups, which hands
\* on a change.  The preset popup gets the items and imbues the first.
choose_category(c, items) ==
    /\ Idle(c) /\ items \in ToSet(category[c].items)
    /\ state_cell' = [state_cell EXCEPT ![c] = items]
    /\ LET cat == Displayed(category[c], items)
           pop == Reset(popup[c], items)
       IN CASE items = state_cell[c] ->
                 SetSheet(c, sheet[c], Picked(category[c], items), popup[c])
            [] items # state_cell[c] /\ items = <<>> -> SetSheet(c, sheet[c], cat, pop)
            [] OTHER -> imbue_preset(c, items[1], cat, pop)
    /\ UNCHANGED <<file, list_vars, phase, saved, kept, lost>>

------------------------------------------------------------------------------
(* Loading *)

\* load_user_preset_set: a file that is not there or cannot be parsed counts
\* as one empty category.
load_user_preset_set(f) == IF f \in {torn, <<>>} THEN <<<<>>>> ELSE f

\* Wrong: the widget is not refreshed from the file.
reload_skipped(c, f, dyn) == UNCHANGED <<list_vars, popup_vars>>

\* reload_preset_widget, then display(last_m).
reload_preset_widget(c, f, dyn) ==
    LET all == dyn \o Default \o load_user_preset_set(f)
    IN /\ user' = [user EXCEPT ![c] = load_user_preset_set(f)]
       /\ dynamic' = [dynamic EXCEPT ![c] = dyn]
       /\ composite' = [composite EXCEPT ![c] = all]
       /\ display(c, last[c], Reset(category[c], all), popup[c])

\* What bind_additional is bound to changes; nothing is done if it does not.
display_additional_preset_set(c, dyn) ==
    /\ Idle(c) /\ dyn # dynamic[c]
    /\ reload_preset_widget(c, file, dyn)
    /\ UNCHANGED <<file, sheet, state_cell, phase, saved, kept, lost>>

------------------------------------------------------------------------------
(* Dialogs and saving *)

nothing == [what |-> "nothing"]
Operation ==
    [what : {"add"}, value : Values] \cup [what : {"delete"}, index : Nat, value : Values]
    \cup [what : {"append"}, categories : Categories]

\* What an operation makes of the user's categories; a deletion, which knows
\* the preset by its position, is of that preset wherever it now is.
Apply(op, categories) ==
    CASE op.what = "add" -> [categories EXCEPT ![1] = Append(@, op.value)]
      [] op.what = "delete" -> [categories EXCEPT ![1] =
                                  IF op.index \in DOMAIN @ /\ @[op.index] = op.value
                                  THEN RemoveAt(@, op.index) ELSE RemoveFirst(@, op.value)]
      [] op.what = "append" -> categories \o op.categories

\* The icon's menu.  With nothing to delete there is an alert instead.
press(c, dialog) ==
    /\ Idle(c) /\ dialog \in {"add", "delete", "append"}
    /\ dialog = "delete" => user[c][1] # <<>>
    /\ phase' = [phase EXCEPT ![c] = dialog]
    /\ UNCHANGED <<file, sheet, list_vars, popup_vars, state_cell, saved, kept, lost>>

\* Or the dialog throws before anything is changed.
cancel(c) ==
    /\ phase[c] \in {"add", "delete", "append"}
    /\ phase' = [phase EXCEPT ![c] = "idle"]
    /\ UNCHANGED <<file, sheet, list_vars, popup_vars, state_cell, saved, kept, lost>>

\* save_user_preset_set opens the file, which empties it ...
save_user_preset_set(c, op, list) ==
    /\ file' = torn
    /\ user' = [user EXCEPT ![c] = list]
    /\ saved' = [saved EXCEPT ![c] = op]
    /\ phase' = [phase EXCEPT ![c] = "saving"]
    /\ UNCHANGED <<sheet, dynamic, composite, popup_vars, state_cell, kept, lost>>

\* ... or cannot open it, which nobody is told.
save_fails(c) ==
    /\ reload_preset_widget(c, file, dynamic[c])
    /\ phase' = [phase EXCEPT ![c] = "idle"]
    /\ UNCHANGED <<file, sheet, state_cell, saved, kept, lost>>

\* The cells that are ticked and contribute, with their values.
append_user_preset(c, cells) ==
    /\ phase[c] = "add" /\ Len(FlattenSeq(user[c])) < MaxItems
    /\ LET op == [what |-> "add", value |-> [k \in cells |-> sheet[c][k]]]
       IN save_user_preset_set(c, op, Apply(op, user[c])) \/ save_fails(c)

\* Wrong: the popup's index counts from one.
delete_after(c, index) ==
    /\ phase[c] = "delete" /\ index \in DOMAIN user[c][1]
    /\ LET op == [what |-> "delete", index |-> index, value |-> user[c][1][index]]
           n == IF index < Len(user[c][1]) THEN index + 1 ELSE index
       IN save_user_preset_set(c, op, [user[c] EXCEPT ![1] = RemoveAt(@, n)]) \/ save_fails(c)

\* The dialog gives the position in the list.
delete_user_preset(c, index) ==
    /\ phase[c] = "delete" /\ index \in DOMAIN user[c][1]
    /\ LET op == [what |-> "delete", index |-> index, value |-> user[c][1][index]]
       IN \/ save_user_preset_set(c, op, [user[c] EXCEPT ![1] = RemoveAt(@, index)])
          \/ save_fails(c)

append_user_preset_set(c, new) ==
    /\ phase[c] = "append" /\ Len(FlattenSeq(user[c] \o new)) <= MaxItems
    /\ LET op == [what |-> "append", categories |-> new]
       IN save_user_preset_set(c, op, Apply(op, user[c])) \/ save_fails(c)

\* All of the list is written, and the control refreshed.
write_user_preset_set(c) ==
    /\ phase[c] = "saving"
    /\ file' = user[c]
    /\ kept' = IF lost THEN kept ELSE Apply(saved[c], kept)
    /\ reload_preset_widget(c, user[c], dynamic[c])
    /\ phase' = [phase EXCEPT ![c] = "idle"]
    /\ saved' = [saved EXCEPT ![c] = nothing]
    /\ UNCHANGED <<sheet, state_cell, lost>>

------------------------------------------------------------------------------

\* A new control displays the sheet when it has no categories, then loads.
Fresh(f) == Default \o load_user_preset_set(f)
FreshCategory(f) == [items |-> Fresh(f), last |-> custom, shown |-> custom]
FreshPopup == [items |-> <<>>, last |-> custom, shown |-> custom]

\* A program dies, and is started again.
crash(c) ==
    /\ phase' = [phase EXCEPT ![c] = "idle"]
    /\ saved' = [saved EXCEPT ![c] = nothing]
    /\ lost' = (lost \/ phase[c] = "saving")
    /\ user' = [user EXCEPT ![c] = load_user_preset_set(file)]
    /\ dynamic' = [dynamic EXCEPT ![c] = <<>>]
    /\ composite' = [composite EXCEPT ![c] = Fresh(file)]
    /\ last' = [last EXCEPT ![c] = sheet[c]]
    /\ category' = [category EXCEPT ![c] = FreshCategory(file)]
    /\ popup' = [popup EXCEPT ![c] = FreshPopup]
    /\ state_cell' = [state_cell EXCEPT ![c] = <<>>]
    /\ kept' = IF phase[c] = "saving" THEN <<<<>>>> ELSE kept
    /\ UNCHANGED <<file, sheet>>

PresetsInit ==
    /\ file = <<>>
    /\ sheet \in [Control -> [Cell -> Setting]]
    /\ user = [c \in Control |-> load_user_preset_set(file)]
    /\ dynamic = [c \in Control |-> <<>>]
    /\ composite = [c \in Control |-> Fresh(file)]
    /\ last = sheet
    /\ category = [c \in Control |-> FreshCategory(file)]
    /\ popup = [c \in Control |-> FreshPopup]
    /\ state_cell = [c \in Control |-> <<>>]
    /\ phase = [c \in Control |-> "idle"] /\ saved = [c \in Control |-> nothing]
    /\ kept = load_user_preset_set(file) /\ lost = FALSE

PresetsNext == \E c \in Control :
    \/ \E s \in [Cell -> Setting] : change(c, s)
    \/ \E v \in Values : do_imbue(c, v)
    \/ \E items \in ToSet(composite[c]) : choose_category(c, items)
    \/ \E dyn \in Additional : display_additional_preset_set(c, dyn)
    \/ \E dialog \in {"add", "delete", "append"} : press(c, dialog)
    \/ cancel(c)
    \/ \E cells \in SUBSET Cell : append_user_preset(c, cells)
    \/ \E index \in 1..MaxItems : delete_user_preset(c, index)
    \/ \E new \in Import : append_user_preset_set(c, new)
    \/ write_user_preset_set(c) \/ crash(c)

PresetsSpec == PresetsInit /\ [][PresetsNext]_presets_vars

------------------------------------------------------------------------------
(* Properties *)

\* Every variable holds what its declaration says, and what is saved is an operation.
PresetsTypes ==
    /\ file \in Categories \cup {torn}
    /\ sheet \in [Control -> [Cell -> Setting]] /\ last \in [Control -> [Cell -> Setting]]
    /\ user \in [Control -> Categories \ {<<>>}] /\ dynamic \in [Control -> Categories]
    /\ composite \in [Control -> Categories] /\ state_cell \in [Control -> Seq(Values)]
    /\ category \in [Control -> popup_t(Seq(Values))] /\ popup \in [Control -> popup_t(Values)]
    /\ \A c \in Control : category[c].items = composite[c]
    /\ phase \in [Control -> {"idle", "add", "delete", "append", "saving"}]
    /\ saved \in [Control -> Operation \cup {nothing}]
    /\ \A c \in Control : phase[c] = "saving" => saved[c] \in Operation
    /\ kept \in Categories \ {<<>>} /\ lost \in BOOLEAN

\* A preset the popup shows is one the sheet agrees with, whether it was
\* chosen, found, or left from before a category was chosen or a file loaded.
NeverShowsWrong ==
    \A c \in Control : popup[c].shown # custom =>
        \A k \in DOMAIN popup[c].shown : popup[c].shown[k] = sheet[c][k]

\* The presets of a control are those of the file, also after a save failed
\* and after a program died in a dialog.
ListIsFile ==
    \A c \in Control : Idle(c) =>
        composite[c] = dynamic[c] \o Default \o load_user_preset_set(file)

\* The presets are the user's to preserve: unless a program has died while it
\* saved, the file holds what all the saved operations together make.
PresetsPreserved ==
    (\A c \in Control : phase[c] # "saving") /\ ~lost => load_user_preset_set(file) = kept
===============================================================================
