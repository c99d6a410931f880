# Adobe Platform Libraries in TLA+

A verification project for the Adobe Platform Libraries (APL): the layer between
the property models and layouts of the Adobe Source Library (ASL) and the widgets
of an operating system. APL is single-threaded. Almost everything in it is a
callback, so that what makes it hard is not parallel threads but order: who calls
whom while what is half done, what a cached value or a queued call still means
when it is used, and what an exception leaves behind.

## 1. Inventory

| part | state it keeps | operations | with whom | what makes it correct |
|---|---|---|---|---|
| `behavior_t` and the general deferred procedure queue (`adobe/future/behavior.hpp`) | a list of verbs, a list of nested behaviors, a vector that says in which order they come | construct, insert, insert a behavior, disconnect either, reset a verb, call | verbs are client code and call back | the three containers describe one list; a call visits it in order; a single-execution behavior is empty after a completed call |
| Relayout: `visible_change_queue_t`, `eve_client_holder`, optional panels, the setters in `widget_factory.hpp` | per window a hide and a show queue and `force_m`; per panel what is visible, what eve knows | set a cell, display, queue, update | sheet monitors call views; every window's update is a verb of one root behavior | all windows of a sheet follow it; nothing appears before it is laid out; no change is lost |
| `window_server_t`, `make_view`, the main loop, `application_t` | a list of windows, the deferred procedures | open, dialog, ok, cancel, reset, erase, reload | deferred procedures hold list iterators; windows enter the root behavior | every deferred erase finds its window; failures half-way leave list and behavior in step; a closed window goes |
| `sequence_model` | a list of values, views, controllers | six commands, attach and detach | views are told of each change one after another and keep keys, which are addresses | views mirror the model; no key outlives its element where a command can use it |
| `sequence_mvc_muldex` | nothing of its own; a cell of a property model | each command becomes two writes of the cell | sequence model, sheet, sequence view | the far view sees the commands the near model sent |
| `debounce_t` | the last value, a flag, whether it is the first time | set_model_value, display, replace a connection | a model on one side, an operating system's control on the other | feedback loops end; no edit is lost |
| `edit_number_t` | a text field, a unit, per base unit a debounced value | edit, step, change the unit, display | one cell per base unit, a popup | field, unit and cells agree |
| `presets_t` | user presets in memory and on disk | display, add, delete, load, save | modal dialogs | what was saved is what is shown; no preset of another control is lost |
| `modal_dialog_t` | a result collected from callbacks, what contributed at first | go, callbacks, reset, end | sheet monitors, the system's modal loop | the result is the state when the dialog ended; an accepted action ends it |
| `command_system_t` | commands, their state, monitors | insert, remove, enable, do, monitor | commands and monitors are client code | monitors hear the states in order |
| the sentence command system (`test/sentences`) | subjects, direct objects, sentences, a sorted table of what is enabled | insert, erase, enable, update, monitor | monitors are client code and call back inside loops over the table | the table and what monitors heard are what the parts make it |
| `file_monitor_t` and Begin's `file_buffer_t` | a time or a kernel event per path; what of the file is in memory | connect, poll, ask, reload, save | a timer, files others write, the user | a change is told and seen to; one question per change |
| `button_t` of several states, `keyboard_t` | a list of states with modifier keys, the keys known | click, key, modifiers, display | keyboard dispatch, sheet cells | the state fires that the user holds the keys for |
| widgets of one cell (both platforms) | what was last displayed, flags against feedback | display, enable, the user's gestures | controls that tell of every change, or of the user's only | two widgets on one cell show it, and set it once per gesture |
| `forest_bitpath` | a path as bits | of, to node, parent, sibling, child, export, import | forests | a path names its node, also after it was exported |
| formatters of expressions, property models and layouts | the stack of texts, what the last declaration was | one call per token or cell | the parsers of the Adobe Source Library | what is printed reads back as what it was |
| `periodical_t`, locale, drag and drop, factories, menus, XML and GIL input, value wrappers | little or none | | | see section 7 |

The hard behaviours: nested and re-entrant calls (behaviors, debounce, sequence
commands, monitors of commands and sentences, a polling loop that runs inside its
own dialog), orders of hiding, layout and showing across windows, exceptions
between two steps (`make_view`, eve's layout, a verb, a widget's setter, a modal
loop's message), procedures that are run later and hold an iterator (closing
windows), addresses that are used again (sequence keys), callbacks of the system
that come at once, late or never (debounce, popups, tab groups), state that the
user changes without the program's knowledge (keys released, text pasted, files
written within one second), and two events where the code expects one. Nothing in
these parts blocks or takes locks; nothing is recovered after a crash except the
presets file.

## 2. The modules

| modules | model | run |
|---|---|---|
| EntryQueue, implemented by Behavior; BehaviorProofs | behavior.cpp | behavior |
| Relayout; RelayoutProofs | visible_change_queue.hpp, widget_factory.hpp, factory.hpp, eve_client_holder | relayout, relayout_stuck |
| WindowServer; WindowServerProofs | window_server.cpp, make_view, both main loops, express_viewer.cpp | window_server |
| SequenceModel, KeyLists; SequenceModelProofs | sequence_model.hpp | sequence_model |
| Muldex, KeyLists; MuldexProofs | sequence_mvc_muldex.hpp, sheet_hooks.hpp | muldex |
| Presets; ComponentProofs | presets_common.cpp, presets_factory.cpp | presets |
| EditNumber; ComponentProofs | edit_number.cpp, number_unit.hpp, platform_edit_text.cpp, the number formatters | edit_number |
| ModalDialog; ComponentProofs | modal_dialog_interface.cpp, the two platform_modal_dialog files | dialog |
| FileMonitor; ComponentProofs | both platform_file_monitor_impl.cpp, Begin's file.cpp | file_monitor |
| Callbacks; CallbacksProofs | the five modules below, one of them at a time | callbacks |
| Debounce | debounce.hpp | callbacks |
| CommandSystem | cmd_system.cpp | callbacks |
| Buttons | platform_button.cpp (both), button_factory.cpp, button_helper.hpp, the key's way to it | callbacks |
| Widgets | nine widgets of both platforms, widget_factory.hpp | callbacks |
| Sentences | test/sentences/command_system.cpp, table.hpp | callbacks |
| ForestBitpath; ComponentProofs | forest_bitpath | algorithms |
| ExpressionFormatter, SheetFormatter, LayoutFormatter | the three formatters in src/source | algorithms |
| SeqLemmas | facts about sequences and least elements, used by the proof modules | |

An MC module of the same name gives the constants their values. Callbacks puts
the five modules of small parts whose callbacks run inside one call side by side,
so that one run and one module of proofs serve them; they share nothing, and each
behaviour of Callbacks is one of one part. ComponentProofs does so for the proofs
of five modules that have no others; each of its theorems is about the
specification of one. MCAlgorithms puts the walk of ForestBitpath and the three
formatters side by side in the same way. Behavior is composed into Relayout and
WindowServer as EntryQueue's promise, SequenceModel's commands into Muldex,
Debounce's idea into the widgets that keep flags of their own.

Definitions carry the names of the functions they model. A definition whose
comment starts with "Wrong:" is not part of any specification: it is the form a
plausible bug would give the definition below it, kept to show that the
properties notice. A TypeOK is part of the invariant of every proof (where the
component's module has none, the proof module states it); of these the runs check
Behavior's, and spend the others' time on what could be wrong.

### Behavior and EntryQueue

`verb_set`, `behavior_set` and `order_set` are the three containers of each
behavior, `frames` the activations of `operator()`, innermost last, each with the
positions of its three iterators. One step is one iteration of the loop; while a
verb runs (`busy`) client code may insert into, disconnect from and call any
behavior that is not running. `verb_throws` unwinds all activations at once, past
the clearing of single-execution behaviors, because nothing in `operator()`
catches. A behavior that is running is not changed: `order_set_m` is a vector and
the call holds iterators into it, so that is undefined, and no caller does it.

`ImplementsEntryQueue` is the refinement: read through the order vector, the two
lists are one list of entries (`Interleaved`), and every step of Behavior is a step
of EntryQueue, whose disconnect simply removes an entry.

### Relayout

The sheet (`cell`), what each view was last told, per window the hide queue, the
show queue and `force_m`, per panel whether the platform and eve have it visible
(`visible`, `eve_visible`), and `laid`, the values the last layout of a view was
made from. `todo` is the rest of the event under way: `<<Update, Layout>>` for a
setter, and the stages of each window's update, so that monitors run in any order
(`notify`) and a layout may throw between any two stages. Behaviors appear as
what EntryQueue says of them: entries in order, cleared after all ran. `bypassed`
is a history variable: TRUE from an event that does not run the root behavior to
its end (a button with `bind_output`, a reset of the sheet, a layout that throws);
`SettledAtRest` and `NeverShownUnplaced` speak of executions without one, the
other properties of all.

`eve_t::evaluate` and `sheet_t::update` are external: the first makes `laid`
current, the second calls the monitor of every changed cell once.

### WindowServer

The list of nodes (`window_list`, `holder` says whether a node holds NULL or a
window), the verbs in the root behavior, the deferred calls of `erase` with the
server and the node they are bound to, and the step of opening under way. A freed
node or server address may be allocated again. `DrainEach` says whether the main
loop runs the queue after each message, as Windows does, or a timer does, as the
Macintosh does. `erase` is enabled only for a node of a list that exists:
anything else is undefined, and `ErasesLive` says it does not come to that.

### SequenceModel

`storage` is the list of addresses, `value` what is at each address. A command
changes the list, then `notify` tells the views one at a time; each view keeps its
own list `set_m` and prints it, reading the values through the keys. `Free` lets
any address that is not in use be allocated, in particular one just freed. The
widgets are those of the repository's own test. `set` and `erase` are enabled only for
live keys, because the code dereferences or erases what its search returns;
`CommandKeysLive` says that attached widgets have no others. `AfterDetach` says
whether widgets send commands after `detach_controller`, which does not stop them:
it takes the controller out of a set that nothing reads and does not tell it. The
run has them do so, the proofs cover both.

### Muldex

SequenceModel's commands and messages through two cells, the controller line and
the view line. Everything a command causes is one nest of calls, as long as the
sheets' updates go: `todo` is what is left of it, a list of writes (`set`) and of
monitors to be called (`display`). `forward_to_model` is one write: the sheet
calls the cell's monitors if the value is another one. `send` makes of every
message two writes, the message and an empty dictionary. The two lines have two
sheets, as the header's caveat demands (its helpers that take one sheet for both
cannot be used as they stand; the model attaches each line with its own). Either
end may be attached first, detached and attached again, and the owner of the
model may change it without the lines. `late` are the widgets that
were attached to a model that already had elements. `carried` counts how often the
last command was carried out.

The stray letter in line 24 of the header, with which it does not compile, is taken
as not there.

### Presets

A preset is its values: a function on some of the sheet's cells. A category is a
sequence of them, a file a sequence of categories. Each control has its sheet,
the two popups as the Macintosh's `popup_t` keeps them (`items`, `last`, `shown`),
the cell between them, and the user's presets as last loaded. `display` looks for
the largest preset that agrees with the sheet, `Reset` and `Displayed` are what
the popups do. A dialog is a phase of the control, and so is saving, which empties
the file in one step and writes it in another, so that a program may die between.
`kept` is a history variable: what all operations that were saved make when
applied one after another, until a program died while it saved (`lost`).

### Debounce

The two procedures of `debounce_t` between a model, which makes `Accept[v]` of a
request for `v`, and a control that, when `Feedback` is TRUE, calls back from
inside the call that displays a value, and when it is FALSE does not call back.
The nested calls are a stack, `todo`. `asked` is a history variable: what the last
user or controller wanted.

In MCCallbacks the values run past what the model accepts, and the control calls
back from inside the call.

### EditNumber

The cells are of two base units. `cell` is the sheet, `debounce_set_m` what the
widget believes of each cell, `unit_index_m` the popup, `edit_text` the field: the
text in it, the text the widget believes to be there, and whether the system
edited it without telling (`untold`: Delete, and paste from the menu, on Windows).
A gesture, whether a typed character, an arrow key, the wheel, a drag of the label
or a choice of unit, is one step: the sheet and the views it calls come back
before the handler returns. Numbers are integers, and a text is the number it
writes, rounded to what `format_m`, the format last given, can write. What is no
number is read as zero or as the number it begins with (`parse`). `refused`
are the cells that kept their value when another was typed. `Reachable` says that
Windows sends a disabled control nothing; the code itself does not ask.

### ModalDialog

`go` fills the sheet with its parameters and shows a dialog, or none if
`display_options_m` says that none is needed; the callbacks collect command,
record and terminating action in `result_m`. If the sheet has no cell `result`
(`result_cell`) nothing is collected, which the code reports and then goes on. The
loops of both systems hand out the user's messages (`queue`); a handler may throw,
before the sheet is set, after it and before it is updated (`update_failed`), or
at the end. Out of the loop it is two steps, a flag and then `end_dialog`: after the
message on Windows, by a timer on the Mac. `go` may be called again on the same
object, also after it threw.

### FileMonitor

The files and the times of their last writes, in whole seconds, on one side
(`disk`); on the other Begin's file buffers with their monitors, the time these
know of and the event the system has for them (`last_write_m`, `event`), and
`loops`, the monitoring loops that have not returned. Files are written, removed
and made again between any two steps. A loop looks at one monitor at a time, in
stages: it pauses (the Mac's `nanosleep`), reads the time and keeps it, calls the
buffer, which reloads or asks the user. To have a file monitored takes three steps:
the buffer reads or writes it (`opening`), `set_path` reads its time (`connecting`),
and then the monitor is attached. On Windows the timer runs inside the dialog that a
loop's client shows, so loops nest; the Mac's loop does not, but takes further batches of
events before it returns. On the Mac a monitor is `attached` to the very file that
was opened: one that is removed takes the attachment with it. A buffer without a valid
path asks for one when it is saved (`asking`), and the timer goes on meanwhile.
`blind` names the buffers that do not have what their file has and will not be told.

### CommandSystem, Sentences

Both are calls within calls: `calls` and `frames` hold those that have not
returned, and what is left of each. Client code, a command or a monitor, may call
again in between, or throw (`throws`). `crossed` are the commands that were enabled
again while their monitors were being told, or of which a monitor threw. In Sentences
the table is a function from keys to what was last enabled; a loop over it is the keys that are still to come, which is
right as long as nobody sorts the vector meanwhile, and `SafeCall` limits monitors
to that.

### Buttons, Widgets

Buttons: the states in the order in which they match, the keys `held`, some perhaps
from the start, and the keys the button knows of, the states that are still to be told of their cell
(`displays`), what fired.
Widgets: a widget is a record of what it remembers and what its control shows;
each operation takes it and returns it with the calls it makes, which are put on
the nest of calls `todo` (in Callbacks `calls_due`), so that feedback of a control
comes where the system makes it. `stray` are controls the user moved to something the cell cannot
hold, or without the widget's knowledge, `stuck` tab groups whose flag stayed up.

### ForestBitpath, ExpressionFormatter, SheetFormatter, LayoutFormatter

A forest is the sequence of edges its iterators visit, a path a sequence of bits;
the properties compare each operation with the forest. An expression is printed
token by token, in the order of a stack machine, as a sequence of symbols, and the
reference definition reads symbols by the parser's grammar (external). A token may be
a list of tokens, which the later operands of `&&`, `||` and a conditional are: a
formatter of its own prints it, while the others wait (`callers`), and strips
parentheses before it hands back the text. SheetFormatter and
LayoutFormatter are the same for property models and layouts; a statement whose
expression is missing is printed and goes on (`complete`). A step of
MCAlgorithms is one more token, declaration, cell, view or move.

## 3. The runs

| run | question | bounds | result |
|---|---|---|---|
| behavior | do the containers and the iterators stay in step, and implement one list? | 2 declared behaviors (one single-execution), 2 nested, 2 verbs | holds |
| relayout | do the windows follow the sheet, and what survives buttons, resets and layouts that throw? | 2 windows, 2 cells, 3 panels, 1 forced view, 2 queued changes per window | holds; settled unless something bypassed the root behavior |
| relayout_stuck | and after a button with `bind_output`? | same, 4 queued changes | no: finding |
| window_server | do deferred erases, failures and the root behavior fit, and do windows close? | 3 nodes, 2 servers, 2 deferred calls | holds, drained after each message |
| sequence_model | do views mirror, and are keys live? | 3 addresses, 2 values, 2 widgets | holds |
| muldex | do widgets at the other end of the cells mirror the model? | 4 addresses, 2 values, 2 widgets, 2 elements | holds, but for widgets that come late |
| presets | does a control show what is true, and keep what was saved? | 1 control, 2 cells of 2 settings, 2 user presets | holds |
| edit_number | do field, unit and cells agree after any gestures? | a cell of length with two units, one of size; limits, cell values and typed numbers from small sets on both sides of the limits | holds, but for what the user does unheard and the sheet refuses |
| dialog | is the result the sheet's, and does the dialog end? | 2 values, one valid, 3 actions, 4 posted messages, 2 goes | holds on both systems, but for a failed last update |
| file_monitor | is every change told, asked about once, and seen in the end? | 2 paths, 2 buffers, times to 2 | holds, but for the changes named `blind` |
| callbacks | what may a call that comes back from inside a call upset? | see below | holds, with the exceptions named |
| algorithms | do paths and printed texts name and read back what they came from? | forests of 7 nodes, 18,838 expressions, sheets of 3 declarations, layouts of 3 cells or 4 views | holds, with the misprints named |

What the properties of the later modules say, and except:

* `FieldShowsUnit`: field and popup say one number, the widget's value of the
  unit's cell, unless the user is typing or was not heard. `DebounceFollowsCells`:
  what the widget believes of a cell is the sheet's, unless it was refused.
* `ResultIsSheets` (unless the last update failed or there is no cell `result`),
  `ReturnsForAReason` (of the first go), `Ends` (liveness).
* `NoChangeHidden`: a buffer without changes of its own has what its file has, or
  its monitor is to be looked at and knows of an earlier write, or it is being called;
  unless `blind`. `AskedOnce`: a loop inside a question does not ask it again.
  `WritesSeen` (liveness): where files do not stay away, no buffer that is not blind
  has a write outstanding for good, whether its event waits in the system or was taken
  by a loop already.
* `LoopsBroken`, `AgreeWhenSettled`: debounce ends both feedback loops, and model
  and control agree after (of a control that calls back; the other kind is section 5). `MonitorsAgree`: a monitor heard last how the command
  is, unless `crossed`. `ButtonFires`: of states ordered the way the source asks
  for, the one whose keys are held fires, unless the button was not told
  (`unseen`). `ShowsCellAtRest`, `OneWritePerGesture`: every widget on a cell shows
  it when nothing runs, and a gesture writes at most once. `TableIsCurrent`,
  `MonitorsHeardTable`: every entry is what its parts make it, and every monitor
  heard so, whatever they call that leaves the table in its order (`SafeCall`).
* `PathNamesNode` (with export and import), `PassesThroughWay`; `ReadsBack`: an
  expression is misprinted if and only if `Misprinted` says so; `AssembledReadsBack`: a
  property model and a layout read as they were, but for comments, and for inputs
  without a value, which are printed as no statement.

Why the bounds are enough. Behavior: an order vector that goes wrong needs two
entries of one kind with one of the other between or before them; two verbs and
two nested behaviors give that, and a second declared behavior gives calls from
inside verbs. Relayout: a second window is what the root behavior is for, two
panels in one window and one cell that drives two windows give mixed queues.
WindowServer: a double close needs one window, a stale node needs a second, a
node used again a third. SequenceModel: an address used again needs one more
address than the erased set; two widgets give a view that was told and one that
was not; a model of two elements that are replaced two at a time needs four.
Muldex: with two elements and four addresses a message left on the line names
keys that are used, free, or used again. Presets: two user presets tell the one
deleted from its neighbour; a default category with a preset inside another one
gives the largest match; an additional and an appended category give every list a
control composes. EditNumber: two units of one base unit share a cell, the third
has another, values lie below, at and above limits and at what the coarse format
cannot write. ModalDialog: a message after the accepted click, and a second go.
FileMonitor: two paths give a loop that is interrupted between its monitors; two
seconds give an earlier and a later write, and two in one second, before and after a
time is read. In the last second the Mac's pauses go on, so that writes also come
during and after one. callbacks:
debounce has values above and at the model's cap, which it refuses, alters and
accepts; two commands with two monitors and three nested calls give a notification
crossed by another of the same command; buttons have two states, two keys and a
shared cell, and every pair of different sets of keys for the states up to an exchange of
the two keys; widgets come in pairs of kinds on one cell, on both systems, with
menus of none, one and two items; a unary and a binary sentence with two subjects
give ranges of one and more entries. algorithms: blocks of three bits make paths
of more than one block, and seven nodes are siblings of siblings with children of
their own; expressions nest three operators, so that each stands on each side of each
other, and the operands of conditionals begin, end, or begin and end with a parenthesis. `MaxLength`, `QueueBound`, `MaxPosted`,
`MaxGo`, `MaxCalls` and `MaxTime` bound only how much can pile up before the next
step is taken.

Deadlock is checked but in two runs: a dialog's program ends after its last
`go`, and a printed text or a walk ends in algorithms.
SequenceModel, Muldex and the subjects of Sentences are checked up to permutations,
which their definitions do not tell apart; those runs check no liveness.

## 4. Fairness

* WindowServer, for `CloseHappens`. `Drains` is weak fairness of running the
  deferred procedures: `os_mainloop` on Windows calls the queue after every
  message, also after one whose handler threw. `Opens` is weak fairness of the
  rest of opening a window, straight-line code that ends in `show_window` or
  throws. Nothing is assumed of users: they need not press, close or reload.
* ModalDialog, for `Ends`: weak fairness of handling a posted message, of the
  Mac's timer (`purge_closed_windows`) and of leaving the loop. The system hands
  out messages and runs timers; users need not click.
* FileMonitor, for `WritesSeen`: time passes, and the calls a loop or an opening
  buffer makes return (weak fairness); the timer fires and the innermost question is
  answered (strong fairness: both may be disabled again and again by loops and dialogs
  that nest). The property's premise is that files do not stay away, as a missing file
  ends every loop with an exception.

## 5. Findings

* relayout_stuck: a button with `bind_output` updates the sheet and runs no root
  behavior; panels stay as they were until another widget is used. Even then,
  hides run before shows whatever their order, so a panel shown and then hidden
  meanwhile stays on the screen.

Seen while modelling, named as exceptions of properties or left to the reader.

Windows, sequences, presets:

* Where a timer drains the deferred procedures (`DrainEach` FALSE, the Mac), ok can
  be pressed twice or the sheet reloaded before it fires; the erase then works on a
  freed node or server (window_server.cpp:162, express_viewer.cpp:787), and
  `ErasesLive` does not hold.
* A window that fails to open leaves a NULL node in the list, counted by `size()`
  and dereferenced by the next `push_back(name)`. On Windows an exception during a
  resize leaves `debounce_m` set (platform_window.cpp:66-92).
* A widget attached to the far end of a line whose model has elements is handed
  the empty dictionary and never hears of them (sequence_mvc_muldex.hpp:325; `late`).
  The header has a stray letter in line 24 and does not compile.
* `detach_controller` stops nobody (sequence_model.hpp:270).
* Of two presets controls with one file, the second to save overwrites what the
  first saved (presets_common.cpp:725). A program that dies while it saves leaves
  an empty file. A new control shows custom until the sheet first changes, as it
  is not asked again after its presets are loaded (presets_common.cpp:330-332).
  Choosing a category that the cell already holds imbues nothing.
* debounce.hpp:123: a control that does not call back leaves the flag set, and the
  user's next edit is swallowed.

Numbers, dialogs, files:

* A change of unit with the focus may pin the value and leave the unpinned text in
  the field; a `format_m` of the former unit can make "up" lower the value; the
  limits are documented per unit but merged as base values (number_unit.hpp:96).
  In a locale without a thousands separator on Windows, `value.find("")` finds it in
  every number (platform_number_formatter_data.cpp:208).
* On Windows messages queued behind the accepted click are still handled; a second
  `go` with `defer_view_close_m` still set ends after its first message
  (modal_dialog_interface.cpp:403).
* An exception out of the update that the last message made leaves the result of a
  dialog behind its sheet: `latch_callback` reports it and the loop goes on
  (modal_dialog_interface.cpp:396-397).
* A file's changes are told by the time of its last write in seconds. Hidden until the
  next write are one in the second of the last write the monitor knows of, which the
  Mac's pause does not prevent, as the file may be written during it and once more after the
  reload (platform_file_monitor_impl.cpp:70-82); and one between reading the file and
  attaching the monitor (file.cpp:108-110). Saving by replacing the file leaves the
  Mac watching the old one; opening the same path again does not help, as `set_path`
  then returns at once (:184-190). An exception in the Mac's loop loses the rest of
  its batch; on Windows a missing file keeps the monitors after it from being looked at.
  These are the exceptions `blind` keeps. A monitor constructed with a path on
  Windows (:110) is never polled; `dirty_m` is not initialised in one constructor of the
  buffer.

Commands, buttons, widgets:

* A monitor of a command that throws leaves those after it untold
  (cmd_system.cpp:122-125). No controller enables or disables a reveal: its factory
  attaches a monitor only, so that `reveal_t::enable` has no caller.
* A monitor of a sentence that looks up the table by another column sorts the
  vector under the loop that called it (table.hpp:302), so that other entries are
  erased or not updated; inserting or erasing from a monitor invalidates the loop's
  iterators. The monitor of an erased sentence stays and a new sentence at its
  address inherits it.
* `handle_key` ignores the release of keys on Windows; a state matches whenever its
  keys include those held; every cell bound to a button enables it, so that the
  last wins. An erased keyboard node promotes the handlers under it
  (window_factory.cpp:100-103).
* Windows: choosing "Custom" in a popup asks for item -1 and throws
  (platform_popup.cpp:63-67); Delete and paste go unseen in a text; a checkbox,
  toggle or reveal with an empty cell shows nothing. Both: a popup whose menu
  changes is enabled again, and displaying what no item holds leaves the former
  item chosen. Mac: a tab group's flag stays up when its setter throws (:79-86); a
  slider's value is a whole number. A slider's `last_m` is not initialised.

Texts:

* A conditional used as the test of another loses its parentheses
  (expression_formatter.cpp:208-212), an index of a unary operation too
  (:219-240), and an index expression that begins with a name is printed as a
  member. The later operands of `&&` and `||` lose them where they come back as a text
  (:112-120, :149), so that `a && (b || c)` is printed as `a && b || c`; what a
  conditional chooses from is stripped twice, so that `t ? (a+b)*(c+d) : e` is printed as
  `t ? a + b) * (c + d : e`. These are `Misprinted`. Indentation is also added inside
  string literals.
* The comment before a cell is not printed; an input without an initialiser is
  printed as `name: ;`, which is no property model
  (property_model_formatter.cpp:254-256); a layout's interface expressions are
  reported as unhandled.
* Importing the export of an empty path counts below zero; `prior_sibling_of` a
  first child gives a sibling of its parent.

## 6. Proofs

TLAPS proves these for every value of the constants. They rest on the named
ASSUMEs of the modules, which say what the code gives (each panel has a window
and a cell, a model that alters a request accepts what it made of it, a unit's
scale and format are positive, a unit set, the cells of a sheet and the open buffers are
finite) or keep values of different kinds apart (a text that is no number yet from
the numbers, a truncated file from what a file can hold), and which TLC evaluates
in the runs. The bounds
of the runs are constants too, so that a theorem holds for lists, queues and nests
of calls of any length.

| module | theorem | property of a run |
|---|---|---|
| BehaviorProofs | `TypeCorrect`, `OrderAlwaysAgrees`, `IteratorsStayInRange` | `TypeOK`, `OrderAgrees`, `IteratorsInRange` |
| | `ListOfEntriesImplemented` | `ImplementsEntryQueue` |
| RelayoutProofs | `AlwaysSettledAtRest`, `NeverUnplaced` | `SettledAtRest`, `NeverShownUnplaced` |
| | `NoShowLost`, `EveAlwaysFollowsDisplay` | `ShowsNeverLost`, `EveFollowsDisplay` |
| WindowServerProofs | `RootAlwaysFollows` | `RootFollowsList` |
| | `ErasesStayLive`, if `DrainEach` | `ErasesLive` |
| SequenceModelProofs | `ViewsAlwaysMirror`, `ViewsAlwaysFindKeys`, `CommandKeysStayLive` | `ViewsMirror`, `ViewsFindKeys`, `CommandKeysLive` |
| MuldexProofs | `FarAlwaysMirrors`, `AlwaysCarriedOnce`, `ToldKeysAlwaysHeld` | `FarMirrors`, `CarriedOnce`, `ToldKeysHeld` |
| ComponentProofs | `ResultIsAlwaysSheets`, `AlwaysReturnsForAReason` | `ResultIsSheets`, `ReturnsForAReason` |
| | `NoChangeIsEverHidden`, `AlwaysAskedOnce` | `NoChangeHidden`, `AskedOnce` |
| | `AgreesWithSheet`; `ListIsAlwaysFile`, `PresetsAlwaysPreserved`, for one control | `NeverShowsWrong`; `ListIsFile`, `PresetsPreserved` |
| | `FieldAlwaysShowsUnit`, `DebounceAlwaysFollows` | `FieldShowsUnit`, `DebounceFollowsCells` |
| | `PathAlwaysNamesNode`, `PassesThroughJustTheWay` | `PathNamesNode`, `PassesThroughWay` |
| CallbacksProofs | `LoopsAlwaysBroken`; `AlwaysAgreeWhenSettled`, if `Feedback` | `LoopsBroken`, `AgreeWhenSettled` |
| | `MonitorsAlwaysAgree`, `ButtonAlwaysFires` | `MonitorsAgree`, `ButtonFires` |
| | `TableAlwaysCurrent`, `MonitorsAlwaysHeardTable` | `TableIsCurrent`, `MonitorsHeardTable` |
| | `WidgetsAlwaysShowCell`, `AlwaysOneWrite` | `ShowsCellAtRest`, `OneWritePerGesture` |

Beside them `Invariance`, `RelayoutInvariance`, `WindowsInvariance`, `Mirroring`,
`MuldexInvariance`, `DialogInvariance`, `FileInvariance`, `PresetsInvariance` and
`NumberInvariance` state the inductive invariants themselves. None of the
properties is inductive alone. Most of them are about a state of rest, and what
has to be found is what is true in between: how far each part may be behind while
the calls that bring it up to date have not been made. Where the model has a nest
of calls (`todo`, `calls`, `frames`), the invariant therefore lists the forms
that the rest of the nest can have and says of each what is true then; where each
call leaves its debt to a set (a view to be told, an entry to be looked at), it
says that whatever differs is in the set.

**Behavior.** That an iterator is in range follows from counting: `vfirst` stands
at one more than the number of verbs among the entries the loop has passed
(`FramesAgree`), and the order vector names as many verbs as the list holds
(`OrderAgrees`), so if the next entry is a verb there is a next verb. To keep that
through a step one needs that no behavior runs twice at a time, which follows
from `NestedOnce`: a nested behavior has one parent, and runs only under it. `Inv`
is the conjunction; `Invariance` is its proof, one step per action.

The refinement, `ListOfEntriesImplemented`, has one lemma per action of Behavior.
`Interleaved` reads entry number i of the order vector at the place in its list
that the entries of its kind before it count to; the `Interleaved...` lemmas say
that appending to list and order appends to the entries, and that removing the
k-th element of one kind from both removes one entry. That the calls in progress
agree too is `FramesAgree` again. A nested behavior that is removed loses its own
lists too, which must not be those it is removed from: no behavior is nested in
itself (`NotInItself`).

**Relayout.** `RelayoutInv` is `Always /\ Phase`. `Phase` follows an event: the
sheet's update, the root behavior, in it each window's verb, in it hide, evaluate
and show; and `Behind`, `Hidden`, `Laid`, `Settled` say what is left of a window's
difference from its sheet at each (every panel that must go is queued to be
hidden, every one that must come to be shown, every changed image has forced the
layout). The windows whose verb is still to run are `Behind`, those whose verb has run
`Settled`. How far a window is behind is said of executions that were not
bypassed. For the others `ShowsNeverLost` rests on `HiddenComesBack`: where buttons
have left a panel in both queues, hiding it does not lose it, as it will be shown
again. That panels are finitely many is assumed: a window that opens has an entry
in its queues for each of its own.

**WindowServer.** `RootFollowsList` needs that a node and a verb occur once each,
and that the window being opened, if one is, is the list's last: a failure takes
both out. `ErasesStayLive` has the hypothesis `DrainEach`, under which at most one
erase waits and nothing else is done before it. Without it the property is false, as
section 5 says.

**SequenceModel and Muldex.** While a change is being told, some views have it and
some do not. `MirrorInv` says that those still to be told are behind by exactly
the message: telling it to their list would give the model's list. The step
that tells one view then makes it mirror, and when all are told every view does.
Muldex has the same `Behind` and `Mirrored`, with what else is on the two lines:
its `Phase` are the seven forms of the nest of calls, from the command on the
controller line to the emptied view line. The filling of a new model is two
messages, and the widgets are `Behind` the first by what the second will add. That
erasing keys from a list gives a list is an induction over its length; it is
carried through as a least counterexample, with the library's fact that every set of
natural numbers has a least element.

**ModalDialog.** `InStep`: from the first update on, the callbacks keep the result
equal to the sheet, if it has the cell `result` and its last update did not fail. `FirstGo`: until `go` is called again only an accepted action
sets the flag, and only the flag ends the loop.

**FileMonitor.** `Heard`: a buffer that is not `blind` and does not hold what its
monitored file does (`Stale`) is about to be called, or `Waits`: its monitor
remembers another write, and its event is in the system or its turn in the Mac's
loop still comes (`InTurn`). On Windows nothing is said of turns, as the event is
not taken away by looking. What has to be kept through each step are the two halves of
`Waits`. That the remembered write is another one rests on the clock (`Times`) and on
`write` itself, which makes a buffer `blind` if the second is the one that is remembered. That
the event is there rests on the attachment (`Attached`, for Windows; on the Mac who is
not attached is made `blind`) and on a loop's batch, of which an exception makes the
rest `blind`. `Opening`: between the steps of opening a file no loop runs, the buffer
has what it read, and every write that goes by makes it `blind`. `LoopsFit`: a loop
that calls or asks is about a write, and asks about the buffer's own file. `AskedOnce`
is inductive in a stronger form (`Asked`): what an open question asks about is no later
than what is remembered of the buffer, so that a question for a later write is a
different one. The loops nest on Windows without a bound; on the Macintosh there is at
most one (`OneLoop`), which is what makes an event in turn there one of the innermost
loop.

**Presets.** For any number of controls, `Follows`: a control has last displayed the sheet
as it is, and what its preset popup shows and what it was last told to show both
agree with it. The second is why the popup may be reset to other items in between
(a category chosen, a file loaded): what it shows then is what it was last told, if the
items have it, or nothing. `MatchIsLargest` is what `display` needs of the search: what it
finds matches and is as large as any that does, and it finds something if
anything matches. For `ListIsFile` and `PresetsPreserved` the file must belong to
one control, the theorems' hypothesis; with two, both are false (section 5). Then
`Kept` holds: between operations the list is the file's and, unless a program died
while saving, what the operations make; while one is being written it is what this
one makes of the others. `SavesAnOperation` says that the three dialogs save just
what `Apply` makes of the list, in particular that the position given to
`delete_user_preset` is that of the preset it is of.

**EditNumber.** `NumberInv`: a field whose text the widget was told of holds what the
widget takes it to hold, and that text agrees with the believed value of the selected
unit's cell (`Agrees`: it is what the unit shows of the value, or it is what the
user typed for it, or the beginning of a number and the value zero). Each gesture runs through
the sheet and back: `MonitorStep` is a text that becomes the cell's value,
`RefreshStep` the views that return with whatever the relations made of all cells,
`RedisplayStep` a refresh that is forced. `LimitTypes` says that the merged limits of a
cell's units are numbers, which needs that a finite set has a least and a greatest one.

**ForestBitpath.** `WalkInv` is that the path is the node's. What each move does to it
follows from how deep a forest is after each of its edges (`Depth`): a node ends where the
depth is first again what it was before it (`TrailingIsWhereDown`), so two edges make a
node (`LeadingOf`), a node is a first child of the one before or its next sibling
(`OneIsBefore`), and its path is that one's with a bit pushed (`PathStep`). Everything
else is an induction along these steps: `traverse` gets to the node before and one
further (`ReachedPush`), siblings have the same ancestors (`SiblingAncestors`), which gives
`parent_of`, and a path passes through what the path to the node before passes through and
through itself (`PassesPush`), as the way does (`WayStep`). As the library's induction
theorems cannot be used, each is carried through as a least counterexample, also that the
recursive functions of `bitpath_t`, `traverse` and `FlattenSeq` exist. Forests and blocks
are of any size.

**Callbacks.** One invariant per part.

* Debounce: the stack of calls is one of a few shapes, with what model, control
  and `type_1_debounce_m` are in each; at most two calls of `set_model_value` wait
  to mark the first time as over. `AlwaysAgreeWhenSettled` has the hypothesis `Feedback`:
  a control that does not call back leaves the flag set (section 5).
* CommandSystem: a monitor listens to one command (`MonitorsApart`), a notification
  carries the value of now unless the command is `crossed` (`FramesCurrent`), and a
  monitor that heard something else is in what is left of one (`HeardOrDue`), which a
  notification that ends with an exception leaves to `crossed`.
* Sentences: an entry is enabled as its parts are, or is in the loop that updates
  it (`EntriesEnabled`); an entry exists for compatible parts, or is in the sweep
  (`EntriesSwept`); a monitor heard the entry's state, or that it goes
  (`EventsCurrent`); and the loops hold entries that are there (`WalksTable`).
* Buttons: a state has its cell's value or is still to be told (`StatesCurrent`),
  the title is that of the keys the button knows (`TitleCurrent`). Which state
  fires is the first that fits; if the list is in order, that is the one made for
  the keys.
* Widgets: `Good` says, per kind of widget and system, what it remembers and shows
  of the cell while it is still to be displayed to or its menu to be reset. The
  calls that are left have five forms: only calls that set nothing (`Displaying`),
  a control's own call in front of these, whose handler finds its flag up
  (`ToldByControl`), the user's (`ToldByUser`), a request to the model
  (`AskingModel`), or an exception (`Throwing`). An exception drops the
  calls that are left; that it leaves no display undone follows from `LayoutLast`:
  layouts, the ones that throw, come after the displays. That a gesture writes once
  is that only `ToldByUser` leads to `AskingModel`.

SeqLemmas holds what several of these need of sequences: removing and appending,
heads and tails, least elements.

Only model-checked:

* `CloseHappens`, `Ends` and `WritesSeen`: liveness under fairness is out of
  the prover's reach.
* `ReadsBack` and `AssembledReadsBack`: that what the formatters print reads as what
  it was is an induction over expressions, property models and layouts, with parsers
  that are recursive operators, which the prover cannot reason about.

## 7. Not modelled

Within the modules: `behavior_t::reset` (verbs have no body here), changing a
behavior from one of its own verbs and commands from a view that is being told
(undefined, and done by no caller), the function pack of the muldex and commands
sent from inside one of its messages, names of presets and the debug item that
saves them again, layout sheets of their own and enablers in Relayout, the
fallback procedure and resource paths of the window server, the editor window of
`application_t`, `debounce_t`'s replacement of a connection and a control that
calls it back after the call that displayed a value has returned, a command that
removes itself, monitors that sort the table of sentences, file monitors copied or
made with a path, doubles, digits and separators of numbers.

Parts without a module, with the reason in PROJECT.json: `periodical_t` and the
locale's monitors, the keyboard's forest of handlers, drag and drop, the value
wrappers, resources, the menu system (compiled out), XML and GIL input, the widget
factories, the platforms' utilities and metrics, assemblage, the virtual machine's
extensions, the concepts and their `poly_` wrappers. The Adobe Source Library is
external.

The map covers about an eighth of the implementation's lines. The rest is mostly
what a model of behavior has nothing to say about: calls that draw, measure and
place controls and their themes (the largest files), type erasure and argument
packs, factories that only read parameters, and the demonstration programs' user
interfaces. Widening definitions to those lines would not make them say more.

## 8. Plan

What is left is small: `periodical_t` with the locale's monitors, the search for
converters of drag and drop, a debounce whose connections are replaced, the
keyboard's forest, `behavior_t::reset`. Of the properties TLC checks, those of the
last list of section 6 are without a proof.
