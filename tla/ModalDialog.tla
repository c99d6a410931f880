------------------------------ MODULE ModalDialog ------------------------------
(***************************************************************************)
(* modal_dialog_t (adobe/future/source/modal_dialog_interface.cpp).        *)
(*                                                                         *)
(* go() fills a sheet with parameters, shows a dialog if it is to or has   *)
(* to, and runs a message loop of its own until the client's callback has  *)
(* accepted an action.  What it returns is collected on the way by three   *)
(* callbacks of the sheet.                                                 *)
(*                                                                         *)
(* Leaving the loop takes two steps: the callback sets a flag, and then    *)
(* end_dialog, after a message on Windows and on a timer on the Mac, asks  *)
(* the system to quit.  On Windows the system lets the messages that are   *)
(* queued pass first.                                                      *)
(***************************************************************************)
EXTENDS Naturals, Sequences

CONSTANTS Value,      \* parameters: what the input cells of the sheet can be set to
          Valid,      \* those of which the sheet's invariants hold
          Action,     \* the actions of the buttons, reset among them
          reset, none,
          MaxPosted,  \* how much the user does, to bound the model
          MaxGo       \* how often the client calls go on one modal_dialog_t

ASSUME DialogAssumption ==
    /\ Valid \subseteq Value /\ reset \in Action /\ none \notin Value \cup Action
    /\ MaxPosted \in Nat /\ MaxGo \in Nat

display_options_t == {"dialog_display_s", "dialog_no_display_s", "dialog_never_display_s"}
Message == ({"edit"} \X Value) \cup ({"hit"} \X Action)

VARIABLES platform,        \* "win" or "mac"
          where,           \* where go is: "out", "loop", "returned" or "threw"
          display_options_m,
          sheet_m,         \* the parameters in the sheet
          update_failed,   \* the sheet was set and its update failed, as did those since
          result_cell,     \* whether the sheet has a cell result
          contributing_m,  \* what they were at first
          defer_view_close_m, need_ui_m,
          result_m,        \* [command_m, record_m, terminating_action_m]
          queue,           \* messages of the user's
          quit,            \* the system was asked to leave the loop
          posted, goes     \* how many messages and calls of go so far

dialog_vars == <<platform, where, display_options_m, sheet_m, update_failed, result_cell,
                 contributing_m, defer_view_close_m, need_ui_m, result_m, queue, quit>>
modal_vars == <<dialog_vars, posted, goes>>

dialog_result_t == [command_m |-> none, record_m |-> none, terminating_action_m |-> none]

\* A sheet that is updated tells what depends on the cell result, if it has one: the
\* command is its value, the record what contributes to it.
Collected(result, value) == [result EXCEPT !.command_m = value, !.record_m = value]

DialogInit ==
    /\ platform \in {"win", "mac"} /\ where = "out"
    /\ display_options_m \in display_options_t
    /\ sheet_m \in Value /\ contributing_m = sheet_m /\ update_failed = FALSE /\ result_cell = TRUE
    /\ defer_view_close_m = FALSE /\ need_ui_m = FALSE
    /\ result_m = dialog_result_t
    /\ queue = <<>> /\ quit = FALSE /\ posted = 0 /\ goes = 0

------------------------------------------------------------------------------
(* go: up to the loop *)

\* Wrong: the sheet is not updated again once the callbacks are in place.
go_one_update(options, value, found, throws) ==
    /\ where \in {"out", "returned", "threw"} /\ goes < MaxGo
    /\ goes' = goes + 1
    /\ display_options_m' = options
    /\ sheet_m' = value /\ contributing_m' = value /\ update_failed' = FALSE
    /\ result_cell' = found
    /\ result_m' = IF found THEN Collected(dialog_result_t, value) ELSE dialog_result_t
    /\ need_ui_m' = FALSE
    /\ where' = CASE throws                       -> "threw"
                  [] options = "dialog_display_s" -> "loop"
                  [] OTHER                        -> "returned"
    /\ queue' = <<>> /\ quit' = FALSE
    /\ UNCHANGED <<platform, defer_view_close_m, posted>>

\* The parameters go into the sheet, the callbacks are set up, unless there is no cell
\* result, and the sheet updated: that tells whether a user is needed.  A definition
\* that cannot be read, a relation or the dialog that is made may throw out of go; what
\* that leaves is for no one but the next go, which begins anew.
go(options, value, found, throws) ==
    /\ where \in {"out", "returned", "threw"} /\ goes < MaxGo
    /\ goes' = goes + 1
    /\ display_options_m' = options
    /\ sheet_m' = value /\ contributing_m' = value /\ update_failed' = FALSE
    /\ result_cell' = found
    /\ result_m' = IF found THEN Collected(dialog_result_t, value) ELSE dialog_result_t
    /\ need_ui_m' = (found /\ value \notin Valid)
    /\ where' = CASE \/ throws
                     \/ options = "dialog_never_display_s" /\ need_ui_m' -> "threw"
                  [] \/ options = "dialog_no_display_s" /\ need_ui_m'
                     \/ options = "dialog_display_s"                      -> "loop"
                  [] OTHER                                                -> "returned"
    /\ queue' = <<>> /\ quit' = FALSE
    /\ UNCHANGED <<platform, defer_view_close_m, posted>>

------------------------------------------------------------------------------
(* The user and the sheet's callbacks *)

user_posts(message) ==
    /\ where = "loop" /\ posted < MaxPosted
    /\ queue' = Append(queue, message)
    /\ posted' = posted + 1
    /\ UNCHANGED <<platform, where, display_options_m, sheet_m, update_failed, result_cell,
                   contributing_m, defer_view_close_m, need_ui_m, result_m, quit, goes>>

\* A cell is set and the sheet updated, which tells of the new parameters.  An exception
\* on the way leaves the sheet as it was, or set and not updated.
sheet_update(value, throws) ==
    /\ UNCHANGED defer_view_close_m
    /\ \/ /\ sheet_m' = value /\ update_failed' = FALSE
          /\ result_m' = IF result_cell THEN Collected(result_m, value) ELSE result_m
          /\ need_ui_m' = (result_cell /\ value \notin Valid)
       \/ /\ throws /\ sheet_m' \in {sheet_m, value}
          /\ update_failed' = (update_failed \/ sheet_m' # sheet_m)
          /\ UNCHANGED <<result_m, need_ui_m>>

Accepts(action) ==
    /\ result_m' = [result_m EXCEPT !.terminating_action_m = action]
    /\ defer_view_close_m' = TRUE
    /\ UNCHANGED <<sheet_m, update_failed, need_ui_m>>

\* Wrong: a reset sets the cells and does not update the sheet.
latch_callback_no_update(action, accepted, throws) ==
    \/ /\ action = reset /\ sheet_m' = contributing_m
       /\ UNCHANGED <<update_failed, result_m, need_ui_m, defer_view_close_m>>
    \/ action # reset /\ accepted /\ Accepts(action)
    \/ /\ action # reset /\ ~accepted
       /\ UNCHANGED <<sheet_m, update_failed, result_m, need_ui_m, defer_view_close_m>>

\* A button was hit: reset is handled here, everything else by the client's
\* callback, which may accept.
latch_callback(action, accepted, throws) ==
    \/ action = reset /\ sheet_update(contributing_m, throws)
    \/ action # reset /\ accepted /\ Accepts(action)
    \/ /\ action # reset /\ ~accepted
       /\ UNCHANGED <<sheet_m, update_failed, result_m, need_ui_m, defer_view_close_m>>

\* What handling a message comes to; an exception leaves what was done till then.
handle(message, accepted, throws) ==
    IF message[1] = "edit" THEN sheet_update(message[2], throws)
                           ELSE latch_callback(message[2], accepted, throws)

------------------------------------------------------------------------------
(* The loop, and out of it *)

end_dialog(deferred) == quit' = (quit \/ deferred)

\* Wrong: an exception skips end_dialog.
dispatch_win_in_try(accepted, throws) ==
    /\ platform = "win" /\ where = "loop" /\ queue # <<>>
    /\ handle(Head(queue), accepted, throws)
    /\ queue' = Tail(queue)
    /\ IF throws THEN UNCHANGED quit ELSE end_dialog(defer_view_close_m')
    /\ UNCHANGED <<platform, where, display_options_m, result_cell, contributing_m, posted,
                   goes>>

\* Windows: a message is handled, an exception caught, and end_dialog called
\* whatever happened.
dispatch_win(accepted, throws) ==
    /\ platform = "win" /\ where = "loop" /\ queue # <<>>
    /\ handle(Head(queue), accepted, throws)
    /\ queue' = Tail(queue)
    /\ end_dialog(defer_view_close_m')
    /\ UNCHANGED <<platform, where, display_options_m, result_cell, contributing_m, posted,
                   goes>>

\* Mac: the system's modal loop calls the handlers, and a timer end_dialog.
dispatch_mac(accepted, throws) ==
    /\ platform = "mac" /\ where = "loop" /\ queue # <<>> /\ ~quit
    /\ handle(Head(queue), accepted, throws)
    /\ queue' = Tail(queue)
    /\ UNCHANGED <<platform, where, display_options_m, result_cell, contributing_m, quit,
                   posted, goes>>

purge_closed_windows ==
    /\ platform = "mac" /\ where = "loop" /\ ~quit
    /\ end_dialog(defer_view_close_m)
    /\ UNCHANGED <<platform, where, display_options_m, sheet_m, update_failed, result_cell,
                   contributing_m, defer_view_close_m, need_ui_m, result_m, queue, posted, goes>>

\* The system leaves the loop: on Windows once no message is queued.
leave ==
    /\ where = "loop" /\ quit /\ (platform = "win" => queue = <<>>)
    /\ where' = "returned"
    /\ queue' = <<>> /\ quit' = FALSE
    /\ UNCHANGED <<platform, display_options_m, sheet_m, update_failed, result_cell, contributing_m,
                   defer_view_close_m, need_ui_m, result_m, posted, goes>>

loop == \/ \E accepted, throws \in BOOLEAN :
               dispatch_win(accepted, throws) \/ dispatch_mac(accepted, throws)
        \/ purge_closed_windows
        \/ leave

DialogNext ==
    \/ \E options \in display_options_t, value \in Value, found, throws \in BOOLEAN :
           go(options, value, found, throws)
    \/ \E message \in Message : user_posts(message)
    \/ loop

\* The system keeps handing out messages and running the timer.
DialogFairness ==
    /\ WF_modal_vars(\E accepted, throws \in BOOLEAN : dispatch_win(accepted, throws))
    /\ WF_modal_vars(purge_closed_windows) /\ WF_modal_vars(leave)
DialogSpec == DialogInit /\ [][DialogNext]_modal_vars /\ DialogFairness

------------------------------------------------------------------------------
(* Properties *)

\* What go returns is what is in the sheet when it returns: no edit and no reset
\* that was handled is missing from the command or from the record, whatever came
\* between the button that was accepted and the end of the loop.  Excepted are a sheet
\* whose last update failed, and one without a cell result.
ResultIsSheets ==
    where = "returned" /\ result_cell /\ ~update_failed =>
        result_m.command_m = sheet_m /\ result_m.record_m = sheet_m

\* go returns because an action was accepted, or because no user was needed: then
\* the parameters it returns satisfy the sheet's invariants.  (Of the first call:
\* a second one may end without an action, because nothing clears the flag; and
\* a sheet without a cell result never needs the user.)
ReturnsForAReason ==
    where = "returned" /\ goes = 1 =>
        \/ result_m.terminating_action_m # none
        \/ display_options_m # "dialog_display_s"
           /\ (result_cell => result_m.command_m \in Valid)

\* A dialog whose action was accepted ends, also if handling that very message
\* failed after it and if no other message ever comes.
Ends ==
    where = "loop" /\ result_m.terminating_action_m # none ~> where = "returned"
===============================================================================
