---------------------------- MODULE ComponentProofs ----------------------------
(***************************************************************************)
(* Proofs about components that stand alone, most of them between the user, *)
(* the sheet and the disk, each for any values of its constants:            *)
(*   modal_dialog_t: what go returns is what is in the sheet, and it        *)
(*     returns for a reason;                                                *)
(*   file_monitor_t: a buffer is told of the changes of its file, once;     *)
(*   presets_t: what is shown agrees with the sheet, and the file and the   *)
(*     list are one;                                                        *)
(*   edit_number_t: the field shows the value in the unit selected;         *)
(*   bitpath_t: a path names its node, and the nodes on the way to it.      *)
(* Each has an inductive invariant, one lemma for each of its actions, and  *)
(* the properties as corollaries.                                           *)
(***************************************************************************)
EXTENDS ModalDialog, FileMonitor, Presets, EditNumber, ForestBitpath, SeqLemmas

------------------------------------------------------------------------------
(* modal_dialog_t *)

Result == [command_m : Value \cup {none}, record_m : Value \cup {none},
           terminating_action_m : Action \cup {none}]

\* Every variable holds what its declaration says.
DialogTypes ==
    /\ platform \in {"win", "mac"}
    /\ where \in {"out", "loop", "returned", "threw"}
    /\ display_options_m \in display_options_t
    /\ sheet_m \in Value /\ contributing_m \in Value
    /\ update_failed \in BOOLEAN /\ result_cell \in BOOLEAN
    /\ defer_view_close_m \in BOOLEAN /\ need_ui_m \in BOOLEAN /\ quit \in BOOLEAN
    /\ result_m \in Result
    /\ queue \in Seq(Message)
    /\ posted \in Nat /\ goes \in Nat

\* From the first update on, the callbacks keep the result in step with the sheet, but
\* for an update that fails.
InStep ==
    where # "out" /\ result_cell /\ ~update_failed =>
        result_m.command_m = sheet_m /\ result_m.record_m = sheet_m

\* Until go is called a second time: only an action that was accepted sets the flag,
\* only the flag makes the system leave the loop, and whoever returns without a dialog
\* needed no user.
FirstGo ==
    /\ goes = 0 => where = "out" /\ ~defer_view_close_m
    /\ goes = 1 =>
          /\ where # "out"
          /\ where = "loop" /\ quit => defer_view_close_m
          /\ defer_view_close_m => result_m.terminating_action_m # none
          /\ ReturnsForAReason

DialogInv == DialogTypes /\ InStep /\ FirstGo

------------------------------------------------------------------------------

\* A callback leaves the result in step with the sheet, and accepts only an action.
LEMMA HandleKeeps ==
    ASSUME DialogInv, where = "loop", NEW message \in Message, NEW accepted \in BOOLEAN,
           NEW throws \in BOOLEAN, handle(message, accepted, throws)
    PROVE  /\ sheet_m' \in Value /\ update_failed' \in BOOLEAN /\ need_ui_m' \in BOOLEAN
           /\ defer_view_close_m' \in BOOLEAN /\ result_m' \in Result
           /\ result_cell /\ ~update_failed' =>
                  result_m'.command_m = sheet_m' /\ result_m'.record_m = sheet_m'
           /\ defer_view_close_m => defer_view_close_m'
           /\ goes = 1 /\ defer_view_close_m' => result_m'.terminating_action_m # none
<1> USE DialogAssumption DEF DialogInv, DialogTypes, InStep, FirstGo, Result
<1>1. ASSUME NEW value \in Value, sheet_update(value, throws)
      PROVE  /\ sheet_m' \in Value /\ update_failed' \in BOOLEAN /\ need_ui_m' \in BOOLEAN
             /\ defer_view_close_m' \in BOOLEAN /\ result_m' \in Result
             /\ result_cell /\ ~update_failed' =>
                    result_m'.command_m = sheet_m' /\ result_m'.record_m = sheet_m'
             /\ defer_view_close_m => defer_view_close_m'
             /\ goes = 1 /\ defer_view_close_m' => result_m'.terminating_action_m # none
  <2>1. CASE /\ sheet_m' = value /\ update_failed' = FALSE
             /\ result_m' = IF result_cell THEN Collected(result_m, value) ELSE result_m
             /\ need_ui_m' = (result_cell /\ value \notin Valid)
    <3>1. need_ui_m' \in BOOLEAN
      <4>1. need_ui_m' = (result_cell /\ value \notin Valid)
        BY <2>1
      <4>2. QED
        BY ONLY <4>1
    <3>2. QED
      BY <1>1, <2>1, <3>1 DEF sheet_update, Collected
  <2>2. CASE /\ throws /\ sheet_m' \in {sheet_m, value}
             /\ update_failed' = (update_failed \/ sheet_m' # sheet_m)
             /\ UNCHANGED <<result_m, need_ui_m>>
    <3>1. update_failed' \in BOOLEAN
      <4>1. update_failed' = (update_failed \/ sheet_m' # sheet_m)
        BY <2>2
      <4>2. QED
        BY ONLY <4>1
    <3>2. ~update_failed' => ~update_failed /\ sheet_m' = sheet_m
      BY <2>2
    <3>3. UNCHANGED defer_view_close_m
      BY <1>1 DEF sheet_update
    <3>4. QED
      BY <2>2, <3>1, <3>2, <3>3
  <2>3. QED
    BY <1>1, <2>1, <2>2 DEF sheet_update
<1>2. CASE message[1] = "edit"
  <2>1. message[2] \in Value
    BY <1>2 DEF Message
  <2>2. sheet_update(message[2], throws)
    BY <1>2 DEF handle
  <2>3. QED
    BY <2>1, <2>2, <1>1
<1>3. CASE message[1] # "edit"
  <2>1. message[2] \in Action /\ latch_callback(message[2], accepted, throws)
    BY <1>3 DEF Message, handle
  <2>2. CASE message[2] = reset
    <3>1. sheet_update(contributing_m, throws) /\ contributing_m \in Value
      BY <2>1, <2>2 DEF latch_callback
    <3>2. QED
      BY <3>1, <1>1
  <2>3. CASE message[2] # reset
    <3>1. CASE Accepts(message[2])
      <4>1. result_m' = [result_m EXCEPT !.terminating_action_m = message[2]]
        BY <3>1 DEF Accepts
      <4>2. /\ defer_view_close_m' = TRUE
            /\ UNCHANGED <<sheet_m, update_failed, need_ui_m>>
        BY <3>1 DEF Accepts
      <4>3. /\ result_m' \in Result
            /\ result_m'.command_m = result_m.command_m
            /\ result_m'.record_m = result_m.record_m
            /\ result_m'.terminating_action_m = message[2]
        BY <2>1, <4>1
      <4>4. message[2] # none
        BY <2>1
      <4>5. QED
        BY <4>2, <4>3, <4>4
    <3>2. CASE UNCHANGED <<sheet_m, update_failed, result_m, need_ui_m, defer_view_close_m>>
      BY <3>2
    <3>3. QED
      BY <2>1, <2>3, <3>1, <3>2 DEF latch_callback
  <2>4. QED
    BY <2>2, <2>3
<1>4. QED
  BY <1>2, <1>3

\* The first go enters the loop or returns at once; a later one keeps what the sheet has.
LEMMA GoKeeps ==
    ASSUME DialogInv, NEW options \in display_options_t, NEW value \in Value,
           NEW found \in BOOLEAN, NEW throws \in BOOLEAN, go(options, value, found, throws)
    PROVE  DialogInv'
<1> USE DialogAssumption DEF DialogInv, DialogTypes, go
<1>1. DialogTypes'
  <2>1. <<>> \in Seq(Message)
    BY EmptySeq
  <2>2. result_m' \in Result
    BY DEF dialog_result_t, Collected, Result
  <2>3. where' \in {"out", "loop", "returned", "threw"}
    OBVIOUS
  <2>4. need_ui_m' \in BOOLEAN
    <3>1. need_ui_m' = (found /\ value \notin Valid)
      OBVIOUS
    <3>2. QED
      BY ONLY <3>1
  <2>5. goes' \in Nat /\ posted' \in Nat
    OBVIOUS
  <2>6. quit' \in BOOLEAN /\ defer_view_close_m' \in BOOLEAN
    OBVIOUS
  <2>7. queue' \in Seq(Message)
    BY <2>1
  <2>8. /\ platform' \in {"win", "mac"} /\ display_options_m' \in display_options_t
        /\ sheet_m' \in Value /\ contributing_m' \in Value
        /\ update_failed' \in BOOLEAN /\ result_cell' \in BOOLEAN
    OBVIOUS
  <2>9. QED
    BY ONLY <2>2, <2>3, <2>4, <2>5, <2>6, <2>7, <2>8 DEF DialogTypes
<1>2. /\ result_cell' =>
            result_m'.command_m = sheet_m' /\ result_m'.record_m = sheet_m'
      /\ sheet_m' = value
  BY DEF dialog_result_t, Collected
<1>3. InStep'
  BY <1>2 DEF InStep
<1>4. FirstGo'
  <2>1. goes' \in Nat \ {0} /\ where' # "out" /\ quit' = FALSE
    OBVIOUS
  <2>2. goes' = 1 => ~defer_view_close_m'
    BY DEF FirstGo
  <2>3. where' = "returned" =>
            /\ display_options_m' # "dialog_display_s"
            /\ result_cell' => result_m'.command_m \in Valid
    BY <1>2 DEF display_options_t
  <2>4. QED
    BY <2>1, <2>2, <2>3 DEF FirstGo, ReturnsForAReason
<1>5. QED
  BY <1>1, <1>3, <1>4

\* Either system hands the first message to its handler.
LEMMA DispatchKeeps ==
    ASSUME DialogInv, NEW accepted \in BOOLEAN, NEW throws \in BOOLEAN,
           dispatch_mac(accepted, throws) \/ dispatch_win(accepted, throws)
    PROVE  DialogInv'
<1>1. /\ where = "loop" /\ queue # <<>> /\ queue' = Tail(queue)
      /\ handle(Head(queue), accepted, throws)
      /\ UNCHANGED <<platform, where, display_options_m, result_cell, contributing_m, posted,
                     goes>>
      /\ quit' = quit \/ quit' = (quit \/ defer_view_close_m')
  BY DEF dispatch_mac, dispatch_win, end_dialog
<1>2. Head(queue) \in Message /\ Tail(queue) \in Seq(Message)
  BY <1>1, HeadTailProperties DEF DialogInv, DialogTypes
<1>3. /\ sheet_m' \in Value /\ update_failed' \in BOOLEAN /\ need_ui_m' \in BOOLEAN
      /\ defer_view_close_m' \in BOOLEAN /\ result_m' \in Result
      /\ result_cell /\ ~update_failed' =>
             result_m'.command_m = sheet_m' /\ result_m'.record_m = sheet_m'
      /\ defer_view_close_m => defer_view_close_m'
      /\ goes = 1 /\ defer_view_close_m' => result_m'.terminating_action_m # none
  BY <1>1, <1>2, HandleKeeps
<1>4. DialogTypes'
  BY <1>1, <1>2, <1>3 DEF DialogInv, DialogTypes
<1>5. InStep'
  BY <1>1, <1>3 DEF InStep
<1>6. FirstGo'
  <2>1. goes' = goes /\ where' = "loop" /\ goes # 0
    BY <1>1 DEF DialogInv, FirstGo
  <2>2. goes = 1 /\ quit' => defer_view_close_m'
    BY <1>1, <1>3 DEF DialogInv, FirstGo
  <2>3. QED
    BY <2>1, <2>2, <1>3 DEF FirstGo, ReturnsForAReason
<1>7. QED
  BY <1>4, <1>5, <1>6 DEF DialogInv

\* A step of the dialog keeps the invariant.
LEMMA DialogStep == DialogInv /\ [DialogNext]_modal_vars => DialogInv'
<1> SUFFICES ASSUME DialogInv, [DialogNext]_modal_vars PROVE DialogInv'
  OBVIOUS
<1> USE DEF DialogInv
<1>1. CASE UNCHANGED modal_vars
  BY <1>1 DEF modal_vars, dialog_vars, DialogTypes, InStep, FirstGo, ReturnsForAReason
<1>2. ASSUME NEW options \in display_options_t, NEW value \in Value,
             NEW found \in BOOLEAN, NEW throws \in BOOLEAN, go(options, value, found, throws)
      PROVE  DialogInv'
  BY <1>2, GoKeeps
<1>3. ASSUME NEW message \in Message, user_posts(message)
      PROVE  DialogInv'
  <2>1. Append(queue, message) \in Seq(Message)
    BY AppendProperties DEF DialogTypes
  <2>2. QED
    BY <1>3, <2>1 DEF user_posts, DialogTypes, InStep, FirstGo, ReturnsForAReason
<1>4. ASSUME NEW accepted \in BOOLEAN, NEW throws \in BOOLEAN, dispatch_win(accepted, throws)
      PROVE  DialogInv'
  BY <1>4, DispatchKeeps
<1>5. ASSUME NEW accepted \in BOOLEAN, NEW throws \in BOOLEAN, dispatch_mac(accepted, throws)
      PROVE  DialogInv'
  BY <1>5, DispatchKeeps
<1>6. CASE purge_closed_windows
  BY <1>6 DEF purge_closed_windows, end_dialog, DialogTypes, InStep, FirstGo, ReturnsForAReason
<1>7. CASE leave
  <2>1. <<>> \in Seq(Message)
    BY EmptySeq
  <2>2. QED
    BY <1>7, <2>1 DEF leave, DialogTypes, InStep, FirstGo, ReturnsForAReason
<1>8. QED
  BY <1>1, <1>2, <1>3, <1>4, <1>5, <1>6, <1>7 DEF DialogNext, loop

\* The inductive invariant: types, the result in step with the sheet from the first
\* update on, and what the flag and the way out of the loop mean in the first call of go.
THEOREM DialogInvariance == DialogSpec => []DialogInv
<1>1. DialogInit => DialogInv
  <2>1. <<>> \in Seq(Message)
    BY EmptySeq
  <2>2. DialogInit => DialogTypes
    <3> SUFFICES ASSUME DialogInit PROVE DialogTypes
      OBVIOUS
    <3>1. result_m \in Result
      BY DEF DialogInit, Result, dialog_result_t
    <3>2. QED
      BY <2>1, <3>1 DEF DialogInit, DialogTypes
  <2>3. DialogInit => InStep /\ FirstGo
    BY DEF DialogInit, InStep, FirstGo
  <2>4. QED
    BY <2>2, <2>3 DEF DialogInv
<1>2. QED
  BY <1>1, DialogStep, PTL DEF DialogSpec

\* What go returns is what is in the sheet when it returns: no edit and no reset that
\* was handled is missing, on either system, however often go is called; but for a sheet
\* without a cell result, or whose last update failed.
THEOREM ResultIsAlwaysSheets == DialogSpec => []ResultIsSheets
<1>1. DialogInv => ResultIsSheets
  BY DEF DialogInv, InStep, ResultIsSheets
<1>2. QED
  BY <1>1, DialogInvariance, PTL

\* The first call of go returns because an action was accepted, or because no user was
\* needed.
THEOREM AlwaysReturnsForAReason == DialogSpec => []ReturnsForAReason
<1>1. DialogInv => ReturnsForAReason
  BY DEF DialogInv, FirstGo, ReturnsForAReason
<1>2. QED
  BY <1>1, DialogInvariance, PTL

------------------------------------------------------------------------------
(* file_monitor_t *)

\* Every variable holds what its declaration says.
FileTypes ==
    /\ system \in {"win", "mac"} /\ now \in Nat
    /\ disk \in [Path -> [exists : BOOLEAN, written : Nat]]
    /\ path_m \in [Buffer -> Path \cup {nowhere}] /\ monitored \in [Buffer -> Path \cup {nowhere}]
    /\ contents_m \in [Buffer -> {"file", "other"}] /\ dirty_m \in [Buffer -> BOOLEAN]
    /\ last_write_m \in [Buffer -> Nat]
    /\ opening \subseteq Buffer /\ connecting \subseteq Buffer /\ asking \subseteq Buffer
    /\ attached \subseteq Buffer /\ event \subseteq Buffer /\ blind \subseteq Buffer
    /\ loops \in Seq(Loop)

\* No write is later than now, and what is remembered of a file is no later than its
\* last write, also when it has been removed and made again.
Times ==
    /\ \A p \in Path : disk[p].written <= now
    /\ \A b \in Buffer :
           /\ last_write_m[b] <= now
           /\ monitored[b] # nowhere /\ disk[monitored[b]].exists =>
                  last_write_m[b] <= disk[monitored[b]].written

\* On the Macintosh the loop runs in the main thread, one at a time.
OneLoop == system = "mac" => Len(loops) <= 1

\* A file is opened or saved one at a time and while no loop runs, and the buffer has what
\* the file has, unless a write went by.  A path is asked for a buffer that is dirty, or
\* whose file came back meanwhile.
Opening ==
    /\ opening \cup connecting # {} => loops = <<>>
    /\ opening # {} => connecting = {} /\ asking = {}
    /\ \A b, c \in connecting : b = c
    /\ \A b \in opening : b \in blind \/ contents_m[b] = "file" \/ path_m[b] = monitored[b]
    /\ \A b \in asking : dirty_m[b] \/ path_m[b] = monitored[b]

\* On Windows a monitor hears of all that happens in the file's directory.
Attached ==
    system = "win" => \A b \in Buffer : monitored[b] # nowhere => b \in attached \cup connecting

\* A loop that has come to a buffer is about a write, and asks about the buffer's own file.
LoopFits(l) ==
    l.stage \in {"calls", "asks"} =>
        /\ l.about # nowhere
        /\ l.stage = "asks" => path_m[l.about[1]] = monitored[l.about[1]]
LoopsFit == \A l \in ToSet(loops) : LoopFits(l)

\* The loop that is running will come to b.
InTurn(b) == system = "mac" /\ loops # <<>> /\ b \in ToSet(Head(loops).rest)

\* A clean buffer does not hold what is in the file it monitors.
Stale(b) == Connected(b) /\ ~dirty_m[b] /\ contents_m[b] # "file"

\* The write is not the one that is remembered, and it waits or its turn comes.
Waits(b) ==
    /\ disk[path_m[b]].written # last_write_m[b]
    /\ b \in event \/ InTurn(b)

\* Who holds a stale buffer is going to be told.
Heard == \A b \in Buffer \ blind : Stale(b) => Waits(b) \/ Called(b)

\* The questions that are open in the loops s are about writes known, no two about one.
Asked(s, known) ==
    /\ \A i \in DOMAIN s : s[i].about # nowhere => s[i].about[2] <= known[s[i].about[1]]
    /\ \A i, j \in DOMAIN s : i # j /\ s[i].about # nowhere => s[i].about # s[j].about

\* What every step of the monitors keeps.
FileInv ==
    /\ FileTypes /\ Times /\ OneLoop /\ Opening /\ Attached /\ LoopsFit /\ Heard
    /\ Asked(loops, last_write_m)

------------------------------------------------------------------------------

\* A loop that is put first or changed.
LEMMA LoopFirst ==
    ASSUME NEW s \in Seq(Loop), NEW l \in Loop
    PROVE  LET t == <<l>> \o s
           IN  /\ t \in Seq(Loop) /\ t # <<>> /\ Head(t) = l /\ Len(t) = 1 + Len(s)
               /\ DOMAIN s = 1..Len(s) /\ DOMAIN t = 1..(1 + Len(s)) /\ Len(s) \in Nat
               /\ t[1] = l /\ \A i \in 1..Len(s) : t[i + 1] = s[i]
               /\ \A i \in DOMAIN t : i = 1 \/ \E j \in 1..Len(s) : i = j + 1
<1> DEFINE t == <<l>> \o s
<1>1. t = Cons(l, s)
  BY DEF Cons
<1> HIDE DEF t
<1>2. /\ t \in Seq(Loop) /\ t # <<>> /\ Head(t) = l
  BY <1>1, ConsSeq
<1>3. /\ Len(t) = 1 + Len(s) /\ Len(s) \in Nat
      /\ \A i \in 1..(1 + Len(s)) : t[i] = IF i = 1 THEN l ELSE s[i - 1]
  <2>1. /\ Len(Cons(l, s)) = 1 + Len(s) /\ Len(s) \in Nat
        /\ \A i \in 1..(1 + Len(s)) : Cons(l, s)[i] = IF i = 1 THEN l ELSE s[i - 1]
    BY ConsAt
  <2>2. QED
    BY ONLY <1>1, <2>1
<1>4. DOMAIN s = 1..Len(s) /\ DOMAIN t = 1..(1 + Len(s))
  BY <1>2, <1>3
<1>5. t[1] = l /\ \A i \in 1..Len(s) : t[i + 1] = s[i]
  <2>1. 1 \in 1..(1 + Len(s))
    BY <1>3
  <2>2. ASSUME NEW i \in 1..Len(s)
        PROVE  i + 1 \in 1..(1 + Len(s)) /\ i + 1 # 1 /\ (i + 1) - 1 = i
    BY <1>3
  <2>3. QED
    BY <1>3, <2>1, <2>2
<1>6. ASSUME NEW i \in 1..(1 + Len(s)), i # 1
      PROVE  \E j \in 1..Len(s) : i = j + 1
  <2>1. i - 1 \in 1..Len(s) /\ i = (i - 1) + 1
    BY <1>3, <1>6
  <2>2. QED
    BY <2>1
<1>7. QED
  BY <1>2, <1>3, <1>4, <1>5, <1>6 DEF t

\* The loops are the innermost and the others.
LEMMA LoopRest ==
    ASSUME NEW s \in Seq(Loop), s # <<>>
    PROVE  /\ Head(s) \in Loop /\ Tail(s) \in Seq(Loop) /\ s = <<Head(s)>> \o Tail(s)
           /\ Len(s) = 1 + Len(Tail(s)) /\ Len(Tail(s)) \in Nat
<1>1. Head(s) \in Loop /\ Tail(s) \in Seq(Loop) /\ s = Cons(Head(s), Tail(s))
  BY HeadTailCons
<1>2. s = <<Head(s)>> \o Tail(s)
  BY <1>1 DEF Cons
<1>3. Len(s) = 1 + Len(Tail(s)) /\ Len(Tail(s)) \in Nat
  BY <1>1, <1>2, LoopFirst
<1>4. QED
  BY <1>1, <1>2, <1>3

\* What is open stays asked once: when a loop starts, ends, asks, and when later writes are known.
LEMMA AskedStart ==
    ASSUME NEW s \in Seq(Loop), NEW l \in Loop, NEW known \in [Buffer -> Nat],
           l.about = nowhere, Asked(s, known)
    PROVE  Asked(<<l>> \o s, known)
BY LoopFirst DEF Asked

\* The innermost loop ends.
LEMMA AskedLeave ==
    ASSUME NEW s \in Seq(Loop), s # <<>>, NEW known \in [Buffer -> Nat], Asked(s, known)
    PROVE  Asked(Tail(s), known)
<1> DEFINE h == Head(s)
           t == Tail(s)
<1>1. h \in Loop /\ t \in Seq(Loop) /\ s = <<h>> \o t
  BY LoopRest
<1> HIDE DEF h, t
<1>2. /\ DOMAIN t = 1..Len(t) /\ DOMAIN s = 1..(1 + Len(t)) /\ Len(t) \in Nat
      /\ \A i \in 1..Len(t) : s[i + 1] = t[i]
  BY <1>1, LoopFirst
<1>3. \A i, j \in 1..Len(t) : i + 1 \in DOMAIN s /\ (i # j => i + 1 # j + 1)
  BY <1>2
<1>4. ASSUME NEW i \in 1..Len(t), t[i].about # nowhere
      PROVE  t[i].about[2] <= known[t[i].about[1]]
  BY <1>2, <1>3, <1>4 DEF Asked
<1>5. ASSUME NEW i \in 1..Len(t), NEW j \in 1..Len(t), i # j, t[i].about # nowhere
      PROVE  t[i].about # t[j].about
  <2>1. i + 1 \in DOMAIN s /\ j + 1 \in DOMAIN s /\ i + 1 # j + 1
    BY <1>3, <1>5
  <2>2. s[i + 1] = t[i] /\ s[j + 1] = t[j]
    BY <1>2
  <2>3. QED
    BY <1>5, <2>1, <2>2 DEF Asked
<1>6. Asked(t, known)
  BY <1>2, <1>4, <1>5 DEF Asked
<1>7. QED
  BY <1>6 DEF t

\* Later writes are known.
LEMMA AskedLater ==
    ASSUME NEW s \in Seq(Loop), NEW known \in [Buffer -> Nat], NEW later \in [Buffer -> Nat],
           \A b \in Buffer : known[b] <= later[b], Asked(s, known)
    PROVE  Asked(s, later)
<1>1. ASSUME NEW i \in DOMAIN s, s[i].about # nowhere
      PROVE  s[i].about[2] <= later[s[i].about[1]]
  <2>1. s[i] \in Loop
    BY ElementOfSeq
  <2>2. s[i].about \in Buffer \X Nat
    BY <1>1, <2>1 DEF Loop, Question
  <2>3. s[i].about[1] \in Buffer /\ s[i].about[2] \in Nat
    BY <2>2
  <2>4. s[i].about[2] <= known[s[i].about[1]]
    BY <1>1 DEF Asked
  <2>5. QED
    BY <2>3, <2>4
<1>2. QED
  BY <1>1 DEF Asked

\* The innermost loop asks about a write that was not known.
LEMMA AskedAnew ==
    ASSUME NEW s \in Seq(Loop), NEW known \in [Buffer -> Nat], NEW b \in Buffer,
           NEW t \in Nat, known[b] < t, NEW l \in Loop, l.about = <<b, t>>, Asked(s, known)
    PROVE  Asked(<<l>> \o s, [known EXCEPT ![b] = t])
<1> DEFINE later == [known EXCEPT ![b] = t]
           n == <<l>> \o s
<1>1. later \in [Buffer -> Nat] /\ later[b] = t /\ \A c \in Buffer : known[c] <= later[c]
  OBVIOUS
<1>2. Asked(s, later)
  BY <1>1, AskedLater
<1>3. ASSUME NEW j \in DOMAIN s, s[j].about # nowhere PROVE s[j].about # <<b, t>>
  <2>1. s[j].about[2] <= known[s[j].about[1]]
    BY <1>3 DEF Asked
  <2>2. SUFFICES ASSUME s[j].about = <<b, t>> PROVE FALSE
    OBVIOUS
  <2>3. t <= known[b]
    BY <2>1, <2>2
  <2>4. QED
    BY <2>3
<1>4. /\ DOMAIN s = 1..Len(s) /\ Len(s) \in Nat
      /\ n[1] = l /\ \A i \in 1..Len(s) : n[i + 1] = s[i]
      /\ \A i \in DOMAIN n : i = 1 \/ \E j \in 1..Len(s) : i = j + 1
  BY LoopFirst
<1> HIDE DEF later, n
<1>5. ASSUME NEW i \in DOMAIN n, n[i].about # nowhere
      PROVE  n[i].about[2] <= later[n[i].about[1]]
  <2>1. CASE i = 1
    <3>1. n[i].about[1] = b /\ n[i].about[2] = t
      BY <1>4, <2>1
    <3>2. QED
      BY <1>1, <3>1
  <2>2. CASE i # 1
    <3>1. PICK k \in DOMAIN s : n[i] = s[k]
      BY <1>4, <2>2
    <3>2. QED
      BY <1>2, <1>5, <3>1 DEF Asked
  <2>3. QED
    BY <2>1, <2>2
<1>6. ASSUME NEW i \in DOMAIN n, NEW j \in DOMAIN n, i # j, n[i].about # nowhere
      PROVE  n[i].about # n[j].about
  <2>1. CASE i = 1
    <3>1. PICK k \in DOMAIN s : n[j] = s[k]
      BY <1>4, <1>6, <2>1
    <3>2. QED
      BY <1>3, <1>4, <1>6, <2>1, <3>1
  <2>2. CASE j = 1
    <3>1. PICK k \in DOMAIN s : n[i] = s[k]
      BY <1>4, <1>6, <2>2
    <3>2. QED
      BY <1>3, <1>4, <1>6, <2>2, <3>1
  <2>3. CASE i # 1 /\ j # 1
    <3>1. PICK k \in DOMAIN s : i = k + 1 /\ n[i] = s[k]
      BY <1>4, <2>3
    <3>2. PICK m \in DOMAIN s : j = m + 1 /\ n[j] = s[m]
      BY <1>4, <2>3
    <3>3. k # m
      BY <1>6, <3>1, <3>2
    <3>4. QED
      BY <1>2, <1>6, <3>1, <3>2, <3>3 DEF Asked
  <2>4. QED
    BY <2>1, <2>2, <2>3
<1>7. Asked(n, later)
  BY <1>5, <1>6 DEF Asked
<1>8. QED
  BY <1>7 DEF later, n

\* The monitors in the order they were made, and the events in any order.
LEMMA MadeTypes == Made \in Seq(Buffer)
<1> DEFINE n == Cardinality(Buffer)
<1>1. n \in Nat /\ ExistsBijection(1..n, Buffer)
  BY FileAssumption, FS_CardinalityType
<1>2. PICK f \in [1..n -> Buffer] : \A i, j \in 1..n : f[i] = f[j] => i = j
  BY <1>1 DEF ExistsBijection, Bijection, Injection, IsInjective
<1>3. IsInjective(f)
  BY <1>2 DEF IsInjective
<1>4. Made \in [1..n -> Buffer]
  BY <1>3 DEF Made, SetToSeq
<1>5. QED
  BY <1>1, <1>4, SeqDef

\* A loop that starts has every monitor that has an event, or all of them, to look at.
LEMMA BatchHasAll ==
    ASSUME NEW S \in SUBSET Buffer, NEW batch \in SetToSeqs(S)
    PROVE  batch \in Seq(Buffer) /\ ToSet(batch) = S
<1> DEFINE n == Cardinality(S)
<1>1. IsFiniteSet(S)
  BY FileAssumption, FS_Subset
<1>2. n \in Nat
  BY <1>1, FS_CardinalityType
<1>3. batch \in [1..n -> S] /\ \A i, j \in 1..n : i # j => batch[i] # batch[j]
  BY DEF SetToSeqs
<1>4. batch \in Injection(1..n, S)
  BY <1>3 DEF Injection, IsInjective
<1>5. Cardinality(1..n) = n /\ IsFiniteSet(1..n)
  BY <1>2, FS_Interval
<1> HIDE DEF n
<1>6. batch \in Surjection(1..n, S)
  BY <1>1, <1>4, <1>5, FS_Injection DEF n
<1>7. ToSet(batch) = S
  BY <1>3, <1>6 DEF Surjection, ToSet
<1>8. batch \in Seq(Buffer)
  <2>1. batch \in [1..n -> Buffer]
    BY <1>3
  <2>2. QED
    BY <1>2, <2>1, SeqDef
<1>9. QED
  BY <1>7, <1>8

\* The innermost loop goes on about what it is about.
LEMMA AskedStill ==
    ASSUME NEW s \in Seq(Loop), s # <<>>, NEW l \in Loop, l.about = Head(s).about,
           NEW known \in [Buffer -> Nat], Asked(s, known)
    PROVE  Asked(<<l>> \o Tail(s), known)
<1> DEFINE h == Head(s)
           t == Tail(s)
           n == <<l>> \o t
<1>1. h \in Loop /\ t \in Seq(Loop) /\ s = <<h>> \o t
  BY LoopRest
<1> HIDE DEF h, t
<1>2. /\ DOMAIN t = 1..Len(t) /\ DOMAIN s = 1..(1 + Len(t)) /\ s[1] = h
      /\ \A i \in 1..Len(t) : s[i + 1] = t[i]
  BY <1>1, LoopFirst
<1>3. /\ DOMAIN n = 1..(1 + Len(t)) /\ n[1] = l
      /\ \A i \in 1..Len(t) : n[i + 1] = t[i]
      /\ \A i \in DOMAIN n : i = 1 \/ \E j \in 1..Len(t) : i = j + 1
  BY <1>1, LoopFirst
<1>4. l.about = h.about
  BY DEF h
<1> HIDE DEF n
<1>5. \A i \in DOMAIN n : n[i].about = s[i].about
  BY <1>2, <1>3, <1>4
<1>6. DOMAIN n = DOMAIN s
  BY <1>2, <1>3
<1>7. Asked(n, known)
  BY <1>5, <1>6 DEF Asked
<1>8. QED
  BY <1>7 DEF n, t

\* The loops are the first and the others.
LEMMA LoopsOf ==
    ASSUME NEW s \in Seq(Loop), NEW l \in Loop
    PROVE  ToSet(<<l>> \o s) = {l} \cup ToSet(s)
<1>1. <<l>> \o s = Cons(l, s)
  BY DEF Cons
<1>2. ToSet(Cons(l, s)) = {l} \cup ToSet(s)
  BY ConsToSet
<1>3. QED
  BY ONLY <1>1, <1>2

LEMMA LoopsLeft ==
    ASSUME NEW s \in Seq(Loop), s # <<>>
    PROVE  Head(s) \in ToSet(s) /\ ToSet(Tail(s)) \subseteq ToSet(s)
<1> DEFINE h == Head(s)
           t == Tail(s)
<1>1. h \in Loop /\ t \in Seq(Loop) /\ s = <<h>> \o t
  BY LoopRest
<1> HIDE DEF h, t
<1>2. ToSet(<<h>> \o t) = {h} \cup ToSet(t)
  BY <1>1, LoopsOf
<1>3. ToSet(s) = {h} \cup ToSet(t)
  BY ONLY <1>1, <1>2
<1>4. QED
  BY <1>3 DEF h, t

\* What the innermost loop is, and is about.
LEMMA HeadFacts ==
    ASSUME FileInv, loops # <<>>
    PROVE  /\ Head(loops) \in Loop /\ Tail(loops) \in Seq(Loop) /\ opening = {} /\ connecting = {}
           /\ Head(loops).rest \in Seq(Buffer) /\ ToSet(Head(loops).rest) \subseteq Buffer
           /\ LoopFits(Head(loops))
           /\ Head(loops).about # nowhere =>
                  Subject \in Buffer /\ Head(loops).about \in Question
<1>1. loops \in Seq(Loop) /\ opening = {} /\ connecting = {}
  BY DEF FileInv, FileTypes, Opening
<1>2. Head(loops) \in Loop /\ Tail(loops) \in Seq(Loop) /\ Head(loops) \in ToSet(loops)
  BY <1>1, LoopRest, LoopsLeft
<1>3. Head(loops).rest \in Seq(Buffer) /\ Head(loops).about \in Question \cup {nowhere}
  BY <1>2 DEF Loop
<1>4. ToSet(Head(loops).rest) \subseteq Buffer
  BY <1>3, ToSetOf
<1>5. Head(loops).about # nowhere => Subject \in Buffer
  BY <1>3 DEF Subject, Question
<1>6. QED
  BY <1>1, <1>2, <1>3, <1>4, <1>5 DEF FileInv, LoopsFit

\* What a step of the innermost loop makes of all loops.
LEMMA LoopGoesOn ==
    ASSUME FileInv, loops # <<>>, UNCHANGED <<system, path_m, monitored>>,
           NEW l \in Loop, loops' = <<l>> \o Tail(loops), LoopFits(l)
    PROVE  /\ loops' \in Seq(Loop) /\ loops' # <<>> /\ Head(loops') = l /\ OneLoop' /\ LoopsFit'
           /\ l.about \in {nowhere, Head(loops).about} => Asked(loops', last_write_m)
<1>1. /\ loops \in Seq(Loop) /\ last_write_m \in [Buffer -> Nat] /\ Asked(loops, last_write_m)
  BY DEF FileInv, FileTypes
<1>2. /\ Tail(loops) \in Seq(Loop) /\ Len(loops) = 1 + Len(Tail(loops))
      /\ Asked(Tail(loops), last_write_m) /\ ToSet(Tail(loops)) \subseteq ToSet(loops)
  BY <1>1, LoopRest, LoopsLeft, AskedLeave
<1>3. /\ loops' \in Seq(Loop) /\ loops' # <<>> /\ Head(loops') = l
      /\ Len(loops') = 1 + Len(Tail(loops))
  BY <1>2, LoopFirst
<1>4. OneLoop'
  BY <1>2, <1>3 DEF FileInv, OneLoop
<1>5. LoopsFit'
  <2>1. ToSet(loops') = {l} \cup ToSet(Tail(loops))
    <3> DEFINE t == Tail(loops)
    <3>1. t \in Seq(Loop)
      BY <1>2
    <3> HIDE DEF t
    <3>2. ToSet(<<l>> \o t) = {l} \cup ToSet(t)
      BY <3>1, LoopsOf
    <3>3. loops' = <<l>> \o t
      BY DEF t
    <3>4. QED
      BY ONLY <3>2, <3>3 DEF t
  <2>2. \A m \in ToSet(loops') : LoopFits(m)
    BY <1>2, <2>1 DEF FileInv, LoopsFit
  <2>3. QED
    BY <2>2 DEF LoopsFit, LoopFits
<1>6. ASSUME l.about \in {nowhere, Head(loops).about}
      PROVE  Asked(loops', last_write_m)
  BY <1>1, <1>2, <1>6, AskedStart, AskedStill
<1>7. QED
  BY <1>3, <1>4, <1>5, <1>6

\* The innermost loop is left; on the Macintosh it is the only one.
LEMMA LoopLeaves ==
    ASSUME FileInv, loops # <<>>, UNCHANGED <<system, path_m, monitored>>, loops' = Tail(loops)
    PROVE  /\ loops' \in Seq(Loop) /\ OneLoop' /\ LoopsFit' /\ (system = "mac" => loops' = <<>>)
           /\ Asked(loops', last_write_m)
<1>1. /\ loops' \in Seq(Loop) /\ Len(loops) = 1 + Len(loops') /\ Len(loops') \in Nat
  BY LoopRest DEF FileInv, FileTypes
<1>2. OneLoop' /\ (system = "mac" => Len(loops') = 0)
  BY <1>1 DEF FileInv, OneLoop
<1>3. system = "mac" => loops' = <<>>
  BY <1>1, <1>2, EmptySeq
<1>4. Asked(loops', last_write_m)
  BY AskedLeave DEF FileInv, FileTypes
<1>5. LoopsFit'
  <2>1. ToSet(loops') \subseteq ToSet(loops)
    BY LoopsLeft DEF FileInv, FileTypes
  <2>2. QED
    BY <2>1 DEF FileInv, LoopsFit, LoopFits
<1>6. QED
  BY <1>1, <1>2, <1>3, <1>4, <1>5

\* A loop that has a monitor still to look at.
LEMMA LookFacts ==
    ASSUME FileInv, Looks
    PROVE  /\ loops # <<>> /\ ~At("calls")
           /\ Next_b \in Buffer /\ Tail(Head(loops).rest) \in Seq(Buffer)
           /\ ToSet(Head(loops).rest) = {Next_b} \cup ToSet(Tail(Head(loops).rest))
           /\ Tail(loops) \in Seq(Loop) /\ Asked(Tail(loops), last_write_m)
           /\ last_write_m \in [Buffer -> Nat]
<1>1. loops # <<>> /\ Head(loops).rest # <<>> /\ ~At("calls")
  BY DEF Looks, At
<1>2. loops \in Seq(Loop) /\ last_write_m \in [Buffer -> Nat]
  BY DEF FileInv, FileTypes
<1>3. Head(loops) \in Loop /\ Tail(loops) \in Seq(Loop)
  BY <1>1, <1>2, LoopRest
<1>4. Asked(Tail(loops), last_write_m)
  BY <1>1, <1>2, AskedLeave DEF FileInv
<1> DEFINE rest == Head(loops).rest
<1>5. rest \in Seq(Buffer)
  BY <1>3 DEF Loop
<1> HIDE DEF rest
<1>6. rest # <<>>
  BY <1>1 DEF rest
<1>7. Head(rest) \in Buffer /\ Tail(rest) \in Seq(Buffer) /\ rest = Cons(Head(rest), Tail(rest))
  BY <1>5, <1>6, HeadTailCons
<1>8. ToSet(rest) = {Head(rest)} \cup ToSet(Tail(rest))
  BY <1>7, ConsToSet
<1>9. QED
  BY <1>1, <1>2, <1>3, <1>4, <1>7, <1>8 DEF rest, Next_b

\* A loop at rest asks nothing.
LEMMA RestFacts ==
    ASSUME NEW rest \in Seq(Buffer)
    PROVE  /\ At_rest(rest) \in Loop /\ At_rest(rest).rest = rest /\ At_rest(rest).about = nowhere
           /\ LoopFits(At_rest(rest)) /\ At_rest(rest).stage # "calls"
BY DEF At_rest, Loop, LoopFits

\* Leaving a loop by an exception keeps the invariant.
LEMMA ThrowStep ==
    ASSUME FileInv, loops # <<>>, Throws, At("calls") => ~Stale(Subject),
           UNCHANGED <<system, now, disk, buffer_vars, monitor_vars>>
    PROVE  FileInv'
<1>1. /\ loops' = Tail(loops)
      /\ UNCHANGED <<system, now, disk, path_m, contents_m, dirty_m, opening, connecting, asking,
                     monitored, last_write_m, attached, event>>
      /\ blind' = IF system = "mac" THEN blind \cup ToSet(Head(loops).rest) ELSE blind
  BY DEF Throws, Leave, buffer_vars, monitor_vars
<1>2. opening = {} /\ connecting = {} /\ ToSet(Head(loops).rest) \subseteq Buffer
  BY HeadFacts
<1>3. loops' \in Seq(Loop) /\ OneLoop' /\ LoopsFit' /\ Asked(loops', last_write_m)
  BY <1>1, LoopLeaves
<1>4. FileTypes'
  BY <1>1, <1>2, <1>3 DEF FileInv, FileTypes
<1>5. Times' /\ Attached'
  BY <1>1 DEF FileInv, Times, Attached
<1>6. Opening'
  BY <1>1, <1>2 DEF FileInv, Opening
<1>7. Heard'
  <2> SUFFICES ASSUME NEW b \in Buffer \ blind', Stale(b)'
               PROVE  Waits(b)'
    BY DEF Heard
  <2>1. Stale(b) /\ b \notin blind
    BY <1>1 DEF Stale, Connected, is_valid
  <2>2. ~Called(b)
    BY <2>1 DEF Called
  <2>3. disk[path_m[b]].written # last_write_m[b] /\ (b \in event \/ InTurn(b))
    BY <2>1, <2>2 DEF FileInv, Heard, Waits
  <2>4. ~InTurn(b)
    BY <1>1 DEF InTurn
  <2>5. QED
    BY <1>1, <2>3, <2>4 DEF Waits
<1>8. QED
  BY <1>1, <1>3, <1>4, <1>5, <1>6, <1>7 DEF FileInv

\* A buffer reloads, and the loop goes on.
LEMMA BufferReloadStep ==
    ASSUME FileInv, At("calls") \/ At("asks"), path_m[Subject] = monitored[Subject],
           reload_from_disk(Subject),
           UNCHANGED <<system, now, disk, path_m, opening, connecting, asking, monitor_vars>>
    PROVE  FileInv'
<1> DEFINE b == Subject
           l == At_rest(Head(loops).rest)
<1>1. /\ loops # <<>> /\ Head(loops).stage \in {"calls", "asks"}
      /\ UNCHANGED <<system, now, disk, path_m, opening, connecting, asking, monitored,
                     last_write_m, attached, event>>
  BY DEF At, monitor_vars
<1>2. /\ Head(loops).rest \in Seq(Buffer) /\ opening = {} /\ connecting = {}
      /\ ToSet(Head(loops).rest) \subseteq Buffer /\ b \in Buffer
  BY <1>1, HeadFacts DEF LoopFits
<1>3. CASE ~disk[path_m[b]].exists
  <2>1. Throws /\ UNCHANGED <<contents_m, dirty_m>> /\ ~Stale(b)
    BY <1>3 DEF reload_from_disk, Stale, Connected, is_valid
  <2>2. QED
    BY <1>1, <2>1, ThrowStep DEF buffer_vars, monitor_vars
<1>4. CASE disk[path_m[b]].exists
  <2>1. /\ loops' = <<l>> \o Tail(loops) /\ blind' = blind \ {b}
        /\ contents_m' = [contents_m EXCEPT ![b] = "file"]
        /\ dirty_m' = [dirty_m EXCEPT ![b] = FALSE]
    BY <1>4 DEF reload_from_disk, Go_on, Put
  <2>2. l \in Loop /\ l.rest = Head(loops).rest /\ l.about = nowhere /\ LoopFits(l)
    BY <1>2, RestFacts
  <2> HIDE DEF l
  <2>3. /\ loops' \in Seq(Loop) /\ loops' # <<>> /\ Head(loops') = l /\ OneLoop' /\ LoopsFit'
        /\ Asked(loops', last_write_m)
    BY <1>1, <2>1, <2>2, LoopGoesOn
  <2> HIDE DEF b
  <2>4. /\ contents_m' \in [Buffer -> {"file", "other"}] /\ contents_m'[b] = "file"
        /\ dirty_m' \in [Buffer -> BOOLEAN]
        /\ \A c \in Buffer : c # b => contents_m'[c] = contents_m[c] /\ dirty_m'[c] = dirty_m[c]
    BY <1>2, <2>1 DEF FileInv, FileTypes
  <2>5. FileTypes'
    BY <1>1, <2>1, <2>3, <2>4 DEF FileInv, FileTypes
  <2>6. Times' /\ Attached'
    BY <1>1 DEF FileInv, Times, Attached
  <2>7. Opening'
    <3>1. \A c \in asking : dirty_m'[c] \/ path_m[c] = monitored[c]
      <4>1. path_m[b] = monitored[b]
        BY DEF b
      <4>2. QED
        BY <2>4, <4>1 DEF FileInv, Opening, FileTypes
    <3>2. QED
      BY <1>1, <1>2, <3>1 DEF FileInv, Opening
  <2>8. Heard'
    <3> SUFFICES ASSUME NEW c \in Buffer \ blind', Stale(c)'
                 PROVE  Waits(c)'
      BY DEF Heard
    <3>1. c # b
      BY <2>4 DEF Stale
    <3>2. Stale(c) /\ c \notin blind
      BY <1>1, <2>1, <2>4, <3>1 DEF Stale, Connected, is_valid
    <3>3. ~Called(c)
      BY <3>1 DEF Called, b
    <3>4. Waits(c)
      BY <3>2, <3>3 DEF FileInv, Heard
    <3>5. QED
      BY <1>1, <2>2, <2>3, <3>4 DEF Waits, InTurn
  <2>9. QED
    BY <1>1, <2>3, <2>5, <2>6, <2>7, <2>8 DEF FileInv
<1>5. QED
  BY <1>3, <1>4

\* The innermost loop comes to another stage, about what it was.
LEMMA StageStep ==
    ASSUME FileInv, loops # <<>>, ~At("calls") \/ ~Stale(Subject),
           NEW l \in Loop, l.rest = Head(loops).rest, l.about \in {nowhere, Head(loops).about},
           LoopFits(l), loops' = <<l>> \o Tail(loops),
           UNCHANGED <<system, disk, buffer_vars, monitor_vars, blind>>, now' \in Nat, now <= now'
    PROVE  FileInv'
<1>1. UNCHANGED <<system, disk, path_m, contents_m, dirty_m, opening, connecting, asking,
                  monitored, last_write_m, attached, event, blind>>
  BY DEF buffer_vars, monitor_vars
<1>2. opening = {} /\ connecting = {}
  BY HeadFacts
<1>3. /\ loops' \in Seq(Loop) /\ loops' # <<>> /\ Head(loops') = l /\ OneLoop' /\ LoopsFit'
      /\ Asked(loops', last_write_m)
  BY <1>1, LoopGoesOn
<1>4. FileTypes'
  BY <1>1, <1>3 DEF FileInv, FileTypes
<1>5. Times' /\ Attached'
  <2>1. now \in Nat /\ last_write_m \in [Buffer -> Nat]
        /\ disk \in [Path -> [exists : BOOLEAN, written : Nat]]
    BY DEF FileInv, FileTypes
  <2>2. \A p \in Path : disk[p].written \in Nat /\ disk[p].written <= now
    BY <2>1 DEF FileInv, Times
  <2>3. \A b \in Buffer : last_write_m[b] \in Nat /\ last_write_m[b] <= now
    BY <2>1 DEF FileInv, Times
  <2>4. \A p \in Path : disk[p].written <= now'
    BY <2>1, <2>2
  <2>5. \A b \in Buffer : last_write_m[b] <= now'
    BY <2>1, <2>3
  <2>6. QED
    BY <1>1, <2>4, <2>5 DEF FileInv, Times, Attached
<1>6. Opening'
  BY <1>1, <1>2 DEF FileInv, Opening
<1>7. Heard'
  <2> SUFFICES ASSUME NEW b \in Buffer \ blind, Stale(b)'
               PROVE  Waits(b)'
    BY <1>1 DEF Heard
  <2>1. Stale(b)
    BY <1>1 DEF Stale, Connected, is_valid
  <2>2. Waits(b)
    BY <2>1 DEF FileInv, Heard, Called
  <2>3. QED
    BY <1>1, <1>3, <2>2 DEF Waits, InTurn
<1>8. QED
  BY <1>1, <1>3, <1>4, <1>5, <1>6, <1>7 DEF FileInv

\* Where no loop runs there is none to ask about.
LEMMA NoLoops == ToSet(<<>>) = {}
BY DEF ToSet

\* A second passes, and the Macintosh's loop has paused.
LEMMA TickStep ==
    ASSUME FileInv, tick
    PROVE  FileInv'
<1>1. /\ now' = IF now < MaxTime THEN now + 1 ELSE now
      /\ UNCHANGED <<system, disk, buffer_vars, monitor_vars, blind>>
  BY DEF tick
<1>2. now' \in Nat /\ now <= now' /\ now \in Nat
  BY <1>1 DEF FileInv, FileTypes
<1>3. CASE At("pauses")
  <2> DEFINE l == [Head(loops) EXCEPT !.stage = "ready"]
  <2>1. loops # <<>> /\ loops' = <<l>> \o Tail(loops) /\ ~At("calls")
    BY <1>3 DEF tick, Comes_to, At
  <2>2. Head(loops) \in Loop
    BY <2>1, HeadFacts
  <2>3. /\ l \in Loop /\ l.rest = Head(loops).rest /\ l.about = Head(loops).about
        /\ LoopFits(l)
    BY <2>2 DEF Loop, LoopFits
  <2> HIDE DEF l
  <2>4. QED
    BY <1>1, <1>2, <2>1, <2>3, StageStep
<1>4. CASE ~At("pauses")
  <2>1. UNCHANGED <<system, disk, path_m, contents_m, dirty_m, opening, connecting, asking,
                    monitored, last_write_m, attached, event, loops, blind>>
    BY <1>1, <1>4 DEF tick, buffer_vars, monitor_vars
  <2>2. FileTypes'
    BY <1>2, <2>1 DEF FileInv, FileTypes
  <2>3. \A p \in Path : disk[p].written <= now'
    BY <1>2 DEF FileInv, Times, FileTypes
  <2>4. \A b \in Buffer : last_write_m[b] <= now'
    BY <1>2 DEF FileInv, Times, FileTypes
  <2>5. Times'
    BY <2>1, <2>3, <2>4 DEF FileInv, Times
  <2>6. OneLoop' /\ Opening' /\ Attached' /\ LoopsFit' /\ Heard'
    BY <2>1 DEF FileInv, OneLoop, Opening, Attached, LoopsFit, LoopFits, Heard, Stale, Connected,
                is_valid, Waits, InTurn, Called, At, Subject
  <2>7. QED
    BY <2>1, <2>2, <2>5, <2>6 DEF FileInv
<1>5. QED
  BY <1>3, <1>4

\* A loop that starts, or takes more events, has all of them to look at.
LEMMA StartStep ==
    ASSUME FileInv, NEW rest \in Seq(Buffer), Start(rest),
           loops = <<>> \/ system = "win", ~At("calls"), opening = {}, connecting = {},
           event' \subseteq event, \A b \in event : b \in event' \/ b \in ToSet(rest),
           system = "win" => event' = event,
           UNCHANGED <<system, now, disk, buffer_vars, monitored, last_write_m, attached, blind>>
    PROVE  FileInv'
<1> DEFINE l == At_rest(rest)
<1>1. /\ loops' = <<l>> \o loops
      /\ UNCHANGED <<path_m, contents_m, dirty_m, opening, connecting, asking>>
  BY DEF Start, buffer_vars
<1>2. l \in Loop /\ l.rest = rest /\ l.about = nowhere /\ LoopFits(l)
  BY RestFacts
<1> HIDE DEF l
<1>3. loops \in Seq(Loop) /\ last_write_m \in [Buffer -> Nat] /\ system \in {"win", "mac"}
      /\ Asked(loops, last_write_m)
  BY DEF FileInv, FileTypes
<1>4. /\ loops' \in Seq(Loop) /\ loops' # <<>> /\ Head(loops') = l
      /\ Len(loops') = 1 + Len(loops)
  BY <1>1, <1>2, <1>3, LoopFirst
<1>5. OneLoop'
  BY <1>3, <1>4 DEF OneLoop
<1>6. Asked(loops', last_write_m)
  BY <1>1, <1>2, <1>3, AskedStart
<1>7. LoopsFit'
  <2>1. ToSet(<<l>> \o loops) = {l} \cup ToSet(loops)
    BY <1>2, <1>3, LoopsOf
  <2>2. ToSet(loops') = {l} \cup ToSet(loops)
    BY ONLY <1>1, <2>1
  <2>3. \A m \in ToSet(loops') : LoopFits(m)
    BY <1>2, <2>2 DEF FileInv, LoopsFit
  <2>4. QED
    BY <1>1, <2>3 DEF LoopsFit, LoopFits
<1>8. FileTypes'
  BY <1>1, <1>4 DEF FileInv, FileTypes
<1>9. Times' /\ Attached' /\ Opening'
  BY <1>1 DEF FileInv, Times, Attached, Opening
<1>10. Heard'
  <2> SUFFICES ASSUME NEW b \in Buffer \ blind, Stale(b)'
               PROVE  Waits(b)'
    BY DEF Heard
  <2>1. Stale(b)
    BY <1>1 DEF Stale, Connected, is_valid
  <2>2. disk[path_m[b]].written # last_write_m[b] /\ (b \in event \/ InTurn(b))
    BY <2>1 DEF FileInv, Heard, Called, Waits
  <2>3. b \in event
    BY <1>3, <2>2 DEF InTurn
  <2>4. system = "mac" => b \in event' \/ InTurn(b)'
    BY <1>2, <1>4, <2>3 DEF InTurn
  <2>5. QED
    BY <1>1, <1>3, <2>2, <2>3, <2>4 DEF Waits
<1>11. QED
  BY <1>4, <1>5, <1>6, <1>7, <1>8, <1>9, <1>10 DEF FileInv

\* The timer starts a loop; the Macintosh's loop takes more events; a loop ends.
LEMMA TimerStep ==
    ASSUME FileInv, timer
    PROVE  FileInv'
<1>1. /\ loops \in Seq(Loop) /\ event \subseteq Buffer /\ system \in {"win", "mac"}
      /\ last_write_m \in [Buffer -> Nat]
  BY DEF FileInv, FileTypes
<1>2. CASE file_monitor_loop_win
  <2>1. /\ Start(Made) /\ system = "win" /\ (Quiet \/ At("asks"))
        /\ UNCHANGED <<system, now, disk, buffer_vars, monitored, last_write_m, attached, event,
                       blind>>
    BY <1>2 DEF file_monitor_loop_win, monitor_vars
  <2>2. ~At("calls") /\ opening = {} /\ connecting = {}
    BY <2>1, HeadFacts DEF At, Quiet
  <2>3. QED
    BY <1>2, <2>1, <2>2, MadeTypes, StartStep DEF file_monitor_loop_win
<1>3. CASE file_monitor_loop_mac
  <2>1. /\ system = "mac" /\ event' = {}
        /\ UNCHANGED <<system, now, disk, buffer_vars, monitored, last_write_m, attached, blind>>
    BY <1>3 DEF file_monitor_loop_mac
  <2>2. PICK batch \in SetToSeqs(event) :
            \/ Quiet /\ Start(batch)
            \/ Between /\ Head(loops).rest = <<>> /\ loops' = <<At_rest(batch)>>
    BY <1>3 DEF file_monitor_loop_mac
  <2>3. batch \in Seq(Buffer) /\ ToSet(batch) = event
    BY <1>1, BatchHasAll
  <2>4. CASE Quiet /\ Start(batch)
    <3>1. loops = <<>> /\ opening = {} /\ connecting = {} /\ ~At("calls")
      BY <2>4 DEF Quiet, At
    <3>2. QED
      BY <2>1, <2>3, <2>4, <3>1, StartStep
  <2>5. CASE Between /\ Head(loops).rest = <<>> /\ loops' = <<At_rest(batch)>>
    <3> DEFINE l == At_rest(batch)
    <3>1. loops # <<>> /\ ~At("calls") /\ Head(loops).rest = <<>>
      BY <2>5 DEF Between, At
    <3>2. opening = {} /\ connecting = {} /\ ToSet(Head(loops).rest) = {}
      BY <3>1, HeadFacts, ToSetOf
    <3>3. l \in Loop /\ l.rest = batch /\ l.about = nowhere /\ LoopFits(l)
      BY <2>3, RestFacts
    <3> HIDE DEF l
    <3>4. Tail(loops) \in Seq(Loop) /\ Tail(loops) = <<>>
      <4>1. Tail(loops) \in Seq(Loop) /\ Len(loops) = 1 + Len(Tail(loops))
            /\ Len(Tail(loops)) \in Nat
        BY <1>1, <3>1, LoopRest
      <4>2. Len(Tail(loops)) = 0
        BY <2>1, <4>1 DEF FileInv, OneLoop
      <4>3. QED
        BY <4>1, <4>2, EmptySeq
    <3>5. loops' = <<l>> \o Tail(loops)
      <4>1. l \in Loop /\ loops' = <<l>>
        BY <2>5, <3>3 DEF l
      <4>2. <<l>> \o <<>> = <<l>>
        <5>1. <<l>> \in Seq(Loop)
          BY <4>1
        <5>2. QED
          BY <5>1
      <4>3. QED
        BY <3>4, <4>1, <4>2
    <3>6. UNCHANGED <<path_m, contents_m, dirty_m, opening, connecting, asking>>
      BY <2>1 DEF buffer_vars
    <3>7. /\ loops' \in Seq(Loop) /\ loops' # <<>> /\ Head(loops') = l /\ OneLoop' /\ LoopsFit'
          /\ Asked(loops', last_write_m)
      BY <2>1, <3>1, <3>3, <3>5, <3>6, LoopGoesOn
    <3>8. FileTypes'
      BY <2>1, <3>6, <3>7 DEF FileInv, FileTypes
    <3>9. Times' /\ Attached' /\ Opening'
      BY <2>1, <3>2, <3>6 DEF FileInv, Times, Attached, Opening
    <3>10. Heard'
      <4> SUFFICES ASSUME NEW b \in Buffer \ blind, Stale(b)'
                   PROVE  Waits(b)'
        BY <2>1 DEF Heard
      <4>1. Stale(b)
        BY <2>1, <3>6 DEF Stale, Connected, is_valid
      <4>2. disk[path_m[b]].written # last_write_m[b] /\ (b \in event \/ InTurn(b))
        BY <3>1, <4>1 DEF FileInv, Heard, Called, Waits
      <4>3. b \in event
        BY <3>2, <4>2 DEF InTurn
      <4>4. InTurn(b)'
        BY <2>1, <2>3, <3>3, <3>7, <4>3 DEF InTurn
      <4>5. QED
        BY <2>1, <3>6, <4>2, <4>4 DEF Waits
    <3>11. QED
      BY <2>1, <3>7, <3>8, <3>9, <3>10 DEF FileInv
  <2>6. QED
    BY <2>2, <2>4, <2>5
<1>4. QED
  BY <1>2, <1>3 DEF timer

LEMMA EndStep ==
    ASSUME FileInv, loop_ends
    PROVE  FileInv'
<1>1. /\ Between /\ Head(loops).rest = <<>> /\ Leave
      /\ UNCHANGED <<system, now, disk, buffer_vars, monitor_vars, blind>>
  BY DEF loop_ends
<1>2. loops # <<>> /\ ~At("calls") /\ ToSet(Head(loops).rest) = {} /\ blind \subseteq Buffer
  <2>1. loops # <<>> /\ ~At("calls")
    BY <1>1 DEF Between, At
  <2>2. QED
    BY <1>1, <2>1, HeadFacts, ToSetOf DEF FileInv, FileTypes
<1>3. Throws
  BY <1>1, <1>2 DEF Throws
<1>4. QED
  BY <1>1, <1>2, <1>3, ThrowStep

\* A monitor with nothing to tell.
LEMMA UnchangedStep ==
    ASSUME FileInv, look_unchanged
    PROVE  FileInv'
<1> DEFINE rest == Tail(Head(loops).rest)
           l == At_rest(rest)
<1>1. /\ Looks /\ Unchanged(Next_b) /\ loops' = <<l>> \o Tail(loops)
      /\ UNCHANGED <<system, now, disk, path_m, contents_m, dirty_m, opening, connecting, asking,
                     monitored, last_write_m, attached, event, blind>>
  BY DEF look_unchanged, Looked_at, buffer_vars, monitor_vars
<1>2. /\ loops # <<>> /\ ~At("calls") /\ Next_b \in Buffer /\ rest \in Seq(Buffer)
      /\ ToSet(Head(loops).rest) = {Next_b} \cup ToSet(rest)
  BY <1>1, LookFacts
<1>3. l \in Loop /\ l.rest = rest /\ l.about = nowhere /\ LoopFits(l)
  BY <1>2, RestFacts
<1> HIDE DEF l, rest
<1>4. /\ loops' \in Seq(Loop) /\ loops' # <<>> /\ Head(loops') = l /\ OneLoop' /\ LoopsFit'
      /\ Asked(loops', last_write_m)
  BY <1>1, <1>2, <1>3, LoopGoesOn
<1>5. FileTypes'
  BY <1>1, <1>4 DEF FileInv, FileTypes
<1>6. Times' /\ Attached' /\ Opening'
  BY <1>1, <1>2 DEF FileInv, Times, Attached, Opening
<1>7. Heard'
  <2> SUFFICES ASSUME NEW b \in Buffer \ blind, Stale(b)'
               PROVE  Waits(b)'
    BY <1>1 DEF Heard
  <2>1. Stale(b)
    BY <1>1 DEF Stale, Connected, is_valid
  <2>2. disk[path_m[b]].written # last_write_m[b] /\ (b \in event \/ InTurn(b))
    BY <1>2, <2>1 DEF FileInv, Heard, Called, Waits
  <2>3. InTurn(b) => b # Next_b
    BY <1>1, <2>1, <2>2 DEF InTurn, Stale, Connected, Unchanged
  <2>4. InTurn(b) => InTurn(b)'
    BY <1>1, <1>2, <1>3, <1>4, <2>3 DEF InTurn
  <2>5. QED
    BY <1>1, <2>2, <2>4 DEF Waits
<1>8. QED
  BY <1>1, <1>4, <1>5, <1>6, <1>7 DEF FileInv

\* No such file: the loop is left.
LEMMA MissingStep ==
    ASSUME FileInv, look_missing
    PROVE  FileInv'
<1>1. /\ Looks /\ Throws
      /\ UNCHANGED <<system, now, disk, buffer_vars, monitor_vars>>
  BY DEF look_missing
<1>2. loops # <<>> /\ ~At("calls")
  BY <1>1, LookFacts
<1>3. QED
  BY <1>1, <1>2, ThrowStep

\* The time is another one.
LEMMA ChangedStep ==
    ASSUME FileInv, look_changed
    PROVE  FileInv'
<1> DEFINE b == Next_b
           t == disk[monitored[b]].written
           later == [last_write_m EXCEPT ![b] = t]
           rest == Tail(Head(loops).rest)
           l == [rest |-> rest, stage |-> "calls", about |-> <<b, t>>]
<1>1. /\ Looks /\ Changed(b) /\ loops' = <<l>> \o Tail(loops)
      /\ last_write_m' = later
      /\ UNCHANGED <<system, now, disk, path_m, contents_m, dirty_m, opening, connecting, asking,
                     monitored, attached, event, blind>>
  BY DEF look_changed, Put, Calls, buffer_vars
<1>2. /\ loops # <<>> /\ ~At("calls") /\ b \in Buffer /\ rest \in Seq(Buffer)
      /\ ToSet(Head(loops).rest) = {b} \cup ToSet(rest)
      /\ Tail(loops) \in Seq(Loop) /\ Asked(Tail(loops), last_write_m)
      /\ last_write_m \in [Buffer -> Nat]
  BY <1>1, LookFacts
<1>3. /\ monitored[b] \in Path /\ t \in Nat /\ t <= now /\ last_write_m[b] < t
      /\ disk[monitored[b]].exists
  <2>1. monitored[b] \in Path /\ t # last_write_m[b] /\ disk[monitored[b]].exists
    BY <1>1, <1>2 DEF Changed, FileInv, FileTypes
  <2>2. t \in Nat /\ now \in Nat /\ last_write_m[b] \in Nat
    BY <2>1, <1>2 DEF FileInv, FileTypes
  <2>3. t <= now /\ last_write_m[b] <= t
    BY <2>1, <1>2, FileAssumption DEF FileInv, Times
  <2>4. QED
    BY <2>1, <2>2, <2>3
<1>4. l \in Loop /\ l.rest = rest /\ l.about = <<b, t>> /\ l.stage = "calls"
  <2>1. <<b, t>> \in Question
    BY <1>2, <1>3 DEF Question
  <2>2. QED
    BY <1>2, <2>1 DEF Loop
<1>5. l.about # nowhere
  <2>1. <<b, t>> \in Question /\ nowhere \notin Question
    BY <1>2, <1>3, FileAssumption DEF Question
  <2>2. QED
    BY <1>4, <2>1
<1>6. LoopFits(l)
  BY <1>4, <1>5 DEF LoopFits
<1> HIDE DEF l, rest
<1>7. /\ loops' \in Seq(Loop) /\ loops' # <<>> /\ Head(loops') = l /\ OneLoop' /\ LoopsFit'
  BY <1>1, <1>2, <1>4, <1>6, LoopGoesOn
<1>8. Asked(loops', last_write_m')
  BY <1>1, <1>2, <1>3, <1>4, AskedAnew
<1>9. /\ later \in [Buffer -> Nat] /\ later[b] = t
      /\ \A c \in Buffer : c # b => later[c] = last_write_m[c]
  BY <1>2, <1>3
<1> HIDE DEF later
<1>10. FileTypes'
  BY <1>1, <1>7, <1>9 DEF FileInv, FileTypes
<1>11. Times'
  <2>1. \A c \in Buffer : later[c] <= now
    BY <1>3, <1>9 DEF FileInv, Times
  <2>2. \A c \in Buffer :
            monitored[c] # nowhere /\ disk[monitored[c]].exists =>
                later[c] <= disk[monitored[c]].written
    BY <1>3, <1>9 DEF FileInv, Times
  <2>3. QED
    BY <1>1, <2>1, <2>2 DEF FileInv, Times
<1>12. Attached' /\ Opening'
  BY <1>1, <1>2 DEF FileInv, Attached, Opening
<1>13. \A c \in Buffer : c = b => Called(c)'
  <2> HIDE DEF b, t
  <2>1. At("calls")' /\ Subject' = b
    BY <1>4, <1>7 DEF At, Subject
  <2>2. QED
    BY <2>1 DEF Called
<1>14. Heard'
  <2> SUFFICES ASSUME NEW c \in Buffer \ blind, Stale(c)', c # b
               PROVE  Waits(c)'
    BY <1>1, <1>13 DEF Heard
  <2>1. Stale(c)
    BY <1>1 DEF Stale, Connected, is_valid
  <2>2. disk[path_m[c]].written # last_write_m[c] /\ (c \in event \/ InTurn(c))
    BY <1>2, <2>1 DEF FileInv, Heard, Called, Waits
  <2>3. InTurn(c) => InTurn(c)'
    <3>1. InTurn(c) => system = "mac" /\ c \in ToSet(Head(loops).rest)
      BY DEF InTurn
    <3> HIDE DEF b
    <3>2. InTurn(c) => system = "mac" /\ c \in ToSet(l.rest)
      BY <1>2, <1>4, <3>1
    <3>3. QED
      BY <1>1, <1>7, <3>2 DEF InTurn
  <2>4. QED
    BY <1>1, <1>9, <2>2, <2>3 DEF Waits
<1>15. QED
  BY <1>7, <1>8, <1>10, <1>11, <1>12, <1>14 DEF FileInv

\* The buffer is called.
LEMMA EventStep ==
    ASSUME FileInv, file_on_disk_event
    PROVE  FileInv'
<1>1. /\ loops # <<>> /\ At("calls") /\ Head(loops).stage = "calls"
      /\ UNCHANGED <<system, now, disk, path_m, opening, connecting, asking, monitor_vars>>
  BY DEF file_on_disk_event, At
<1>2. Head(loops) \in Loop /\ LoopFits(Head(loops)) /\ now \in Nat
  BY <1>1, HeadFacts DEF FileInv, FileTypes
<1>3. CASE path_m[Subject] # monitored[Subject]
  <2>1. Throws /\ UNCHANGED <<contents_m, dirty_m>> /\ ~Stale(Subject)
    BY <1>3 DEF file_on_disk_event, Stale, Connected
  <2>2. QED
    BY <1>1, <2>1, ThrowStep DEF buffer_vars
<1>4. CASE path_m[Subject] = monitored[Subject] /\ dirty_m[Subject]
  <2> DEFINE l == [Head(loops) EXCEPT !.stage = "asks"]
  <2>1. /\ loops' = <<l>> \o Tail(loops) /\ UNCHANGED <<contents_m, dirty_m, blind>>
        /\ ~Stale(Subject)
    BY <1>4 DEF file_on_disk_event, Comes_to, Stale
  <2>2. l \in Loop /\ l.rest = Head(loops).rest /\ l.about = Head(loops).about /\ l.stage = "asks"
    BY <1>2 DEF Loop
  <2> HIDE DEF l
  <2>3. LoopFits(l)
    BY <1>1, <1>2, <1>4, <2>2 DEF LoopFits, Subject
  <2>4. now <= now' /\ now' \in Nat
    BY <1>1, <1>2
  <2>5. QED
    BY <1>1, <2>1, <2>2, <2>3, <2>4, StageStep DEF buffer_vars
<1>5. CASE path_m[Subject] = monitored[Subject] /\ ~dirty_m[Subject]
  <2>1. reload_from_disk(Subject)
    BY <1>5 DEF file_on_disk_event
  <2>2. QED
    BY <1>1, <1>5, <2>1, BufferReloadStep
<1>6. QED
  BY <1>3, <1>4, <1>5

\* The user answers.
LEMMA AnswerStep ==
    ASSUME FileInv, NEW replace \in BOOLEAN, answer(replace)
    PROVE  FileInv'
<1>1. /\ loops # <<>> /\ At("asks") /\ ~At("calls") /\ Head(loops).stage = "asks"
      /\ UNCHANGED <<system, now, disk, path_m, opening, connecting, asking, monitor_vars>>
  BY DEF answer, At
<1>2. /\ Head(loops).rest \in Seq(Buffer) /\ LoopFits(Head(loops)) /\ now \in Nat
  BY <1>1, HeadFacts DEF FileInv, FileTypes
<1>3. CASE replace
  <2>1. path_m[Subject] = monitored[Subject] /\ reload_from_disk(Subject)
    BY <1>1, <1>2, <1>3 DEF answer, LoopFits, Subject
  <2>2. QED
    BY <1>1, <2>1, BufferReloadStep
<1>4. CASE ~replace
  <2> DEFINE l == At_rest(Head(loops).rest)
  <2>1. loops' = <<l>> \o Tail(loops) /\ UNCHANGED <<contents_m, dirty_m, blind>>
    BY <1>4 DEF answer, Go_on
  <2>2. l \in Loop /\ l.rest = Head(loops).rest /\ l.about = nowhere /\ LoopFits(l)
    BY <1>2, RestFacts
  <2> HIDE DEF l
  <2>3. now <= now' /\ now' \in Nat
    BY <1>1, <1>2
  <2>4. QED
    BY <1>1, <2>1, <2>2, <2>3, StageStep DEF buffer_vars
<1>5. QED
  BY <1>3, <1>4

\* A file is written, by another program or by a buffer: what that leaves to be shown.
\* Of a buffer whose file it is, who will look at it sees the write.
LEMMA WrittenFacts ==
    ASSUME FileInv, NEW p \in Path, Written(p), event' = event \cup Told(p),
           UNCHANGED <<now, monitored, last_write_m, loops, system>>
    PROVE  /\ disk' \in [Path -> [exists : BOOLEAN, written : Nat]]
           /\ disk'[p].written = now
           /\ \A q \in Path : q # p => disk'[q] = disk[q]
           /\ Times'
           /\ event' \subseteq Buffer /\ event \subseteq event' /\ Blinds(p) \subseteq Buffer
           /\ \A b \in Buffer : b \notin Blinds(p) /\ path_m[b] # p => b \notin blind
           /\ \A b \in opening :
                  b \notin Blinds(p) /\ path_m[b] = p => path_m[b] = monitored[b]
           /\ \A b \in Buffer : b \notin Blinds(p) /\ path_m[b] = p /\ monitored[b] = p =>
                  last_write_m[b] # now /\ (b \in event' \/ InTurn(b))
<1>1. /\ now \in Nat /\ disk \in [Path -> [exists : BOOLEAN, written : Nat]]
      /\ blind \subseteq Buffer /\ opening \subseteq Buffer /\ event \subseteq Buffer
      /\ last_write_m \in [Buffer -> Nat] /\ loops \in Seq(Loop) /\ system \in {"win", "mac"}
  BY DEF FileInv, FileTypes
<1>2. /\ disk' \in [Path -> [exists : BOOLEAN, written : Nat]]
      /\ disk'[p].written = now
      /\ \A q \in Path : q # p => disk'[q] = disk[q]
  BY <1>1 DEF Written
<1>3. Times'
  <2>1. ASSUME NEW q \in Path PROVE disk'[q].written <= now
    <3>1. CASE q = p
      BY <1>1, <1>2, <3>1
    <3>2. CASE q # p
      BY <1>2, <3>2 DEF FileInv, Times
    <3>3. QED
      BY <3>1, <3>2
  <2>2. \A b \in Buffer : last_write_m[b] <= now
    BY DEF FileInv, Times
  <2>3. ASSUME NEW b \in Buffer, monitored[b] # nowhere, disk'[monitored[b]].exists
        PROVE  last_write_m[b] <= disk'[monitored[b]].written
    <3>1. monitored[b] \in Path
      BY <2>3 DEF FileInv, FileTypes
    <3>2. QED
      BY <1>2, <2>2, <2>3, <3>1 DEF FileInv, Times
  <2>4. QED
    BY <2>1, <2>2, <2>3 DEF Times
<1>4. event' \subseteq Buffer /\ event \subseteq event' /\ Blinds(p) \subseteq Buffer
  BY <1>1 DEF Told, Watching, Blinds
<1>5. ASSUME NEW b \in Buffer, b \notin Blinds(p), path_m[b] # p
      PROVE  b \notin blind
  BY <1>5 DEF Blinds
<1>6. ASSUME NEW b \in opening, b \notin Blinds(p), path_m[b] = p
      PROVE  path_m[b] = monitored[b]
  BY <1>6 DEF Blinds
<1>7. ASSUME NEW b \in Buffer, b \notin Blinds(p), path_m[b] = p, monitored[b] = p
      PROVE  last_write_m[b] # now /\ (b \in event' \/ InTurn(b))
  <2>1. Finds(b)
    BY <1>7 DEF Blinds, Watching
  <2>2. CASE b \in attached
    BY <1>7, <2>1, <2>2 DEF Finds, Told, Watching
  <2>3. CASE b \in Seen_to /\ b \notin attached
    <3>1. CASE b \in event
      BY <1>4, <2>1, <3>1 DEF Finds
    <3>2. CASE \E i \in DOMAIN loops : b \in ToSet(loops[i].rest)
      <4>1. PICK i \in DOMAIN loops : b \in ToSet(loops[i].rest)
        BY <3>2
      <4>2. loops # <<>>
        BY <4>1
      <4>3. system = "mac"
        <5>1. opening = {} /\ connecting = {}
          BY <4>2, HeadFacts
        <5>2. monitored[b] # nowhere
          BY <1>7, FileAssumption
        <5>3. QED
          BY <1>1, <2>3, <5>1, <5>2 DEF FileInv, Attached
      <4>4. i = 1 /\ Head(loops) = loops[1]
        <5>1. Len(loops) <= 1 /\ DOMAIN loops = 1..Len(loops) /\ Len(loops) \in Nat
          BY <1>1, <4>3 DEF FileInv, OneLoop
        <5>2. QED
          BY <1>1, <4>1, <4>2, <5>1
      <4>5. InTurn(b)
        BY <4>1, <4>2, <4>3, <4>4 DEF InTurn
      <4>6. QED
        BY <2>1, <4>5 DEF Finds
    <3>3. QED
      BY <2>3, <3>1, <3>2 DEF Seen_to
  <2>4. QED
    BY <2>1, <2>2, <2>3 DEF Finds
<1>8. QED
  BY <1>2, <1>3, <1>4, <1>5, <1>6, <1>7

\* Another program writes a file, of which the system tells who watches it.
LEMMA WriteStep ==
    ASSUME FileInv, NEW p \in Path, write(p)
    PROVE  FileInv'
<1>1. /\ Written(p) /\ contents_m' = OthersThan(p) /\ event' = event \cup Told(p)
      /\ blind' = Blinds(p)
      /\ UNCHANGED <<system, now, path_m, dirty_m, opening, connecting, asking, monitored,
                     last_write_m, attached, loops>>
  BY DEF write
<1>2. /\ disk' \in [Path -> [exists : BOOLEAN, written : Nat]]
      /\ disk'[p].written = now
      /\ \A q \in Path : q # p => disk'[q] = disk[q]
      /\ Times'
      /\ event' \subseteq Buffer /\ event \subseteq event' /\ blind' \subseteq Buffer
      /\ \A b \in Buffer : b \notin blind' /\ path_m[b] # p => b \notin blind
      /\ \A b \in opening : b \notin blind' /\ path_m[b] = p => path_m[b] = monitored[b]
      /\ \A b \in Buffer : b \notin blind' /\ path_m[b] = p /\ monitored[b] = p =>
             last_write_m[b] # now /\ (b \in event' \/ InTurn(b))
  BY <1>1, WrittenFacts
<1>3. contents_m' \in [Buffer -> {"file", "other"}]
      /\ \A b \in Buffer : path_m[b] # p => contents_m'[b] = contents_m[b]
  BY <1>1 DEF OthersThan, FileInv, FileTypes
<1>4. FileTypes'
  BY <1>1, <1>2, <1>3 DEF FileInv, FileTypes
<1>5. OneLoop' /\ Attached' /\ LoopsFit'
  BY <1>1 DEF FileInv, OneLoop, Attached, LoopsFit, LoopFits
<1>6. Opening'
  <2>1. \A b \in opening : b \in blind' \/ contents_m'[b] = "file" \/ path_m[b] = monitored[b]
    BY <1>2, <1>3 DEF FileInv, FileTypes, Opening
  <2>2. QED
    BY <1>1, <2>1 DEF FileInv, Opening
<1>7. Heard'
  <2> SUFFICES ASSUME NEW b \in Buffer \ blind', Stale(b)'
               PROVE  Waits(b)' \/ Called(b)'
    BY DEF Heard
  <2>1. path_m[b] \in Path /\ path_m[b] = monitored[b]
    BY <1>1 DEF Stale, Connected, is_valid, FileInv, FileTypes
  <2>2. CASE path_m[b] = p
    BY <1>1, <1>2, <2>1, <2>2 DEF Waits, InTurn
  <2>3. CASE path_m[b] # p
    <3>1. Stale(b) /\ b \notin blind
      BY <1>1, <1>2, <1>3, <2>1, <2>3 DEF Stale, Connected, is_valid
    <3>2. Waits(b) \/ Called(b)
      BY <3>1 DEF FileInv, Heard
    <3>3. QED
      BY <1>1, <1>2, <2>1, <2>3, <3>2 DEF Waits, InTurn, Called, At, Subject
  <2>4. QED
    BY <2>2, <2>3
<1>8. QED
  BY <1>1, <1>2, <1>4, <1>5, <1>6, <1>7 DEF FileInv

\* A file is removed.
LEMMA RemoveStep ==
    ASSUME FileInv, NEW p \in Path, remove(p)
    PROVE  FileInv'
<1>1. /\ disk' = [disk EXCEPT ![p] = [exists |-> FALSE, written |-> 0]]
      /\ event' = event \cup Told(p)
      /\ attached' = IF system = "mac" THEN attached \ Watching(p) ELSE attached
      /\ UNCHANGED <<system, now, path_m, contents_m, dirty_m, opening, connecting, asking,
                     monitored, last_write_m, loops, blind>>
  BY DEF remove, buffer_vars
<1>2. /\ disk' \in [Path -> [exists : BOOLEAN, written : Nat]]
      /\ ~disk'[p].exists /\ disk'[p].written = 0
      /\ \A q \in Path : q # p => disk'[q] = disk[q]
  BY <1>1 DEF FileInv, FileTypes
<1>3. FileTypes'
  BY <1>1, <1>2 DEF FileInv, FileTypes, Told, Watching
<1>4. Times'
  BY <1>1, <1>2 DEF FileInv, FileTypes, Times
<1>5. OneLoop' /\ LoopsFit' /\ Opening'
  BY <1>1 DEF FileInv, OneLoop, LoopsFit, LoopFits, Opening
<1>6. Attached'
  BY <1>1 DEF FileInv, Attached
<1>7. Heard'
  <2> SUFFICES ASSUME NEW b \in Buffer \ blind, Stale(b)'
               PROVE  Waits(b)' \/ Called(b)'
    BY <1>1 DEF Heard
  <2>1. path_m[b] \in Path /\ path_m[b] # p
    BY <1>1, <1>2 DEF Stale, Connected, is_valid, FileInv, FileTypes
  <2>2. Stale(b)
    BY <1>1, <1>2, <2>1 DEF Stale, Connected, is_valid
  <2>3. Waits(b) \/ Called(b)
    BY <2>2 DEF FileInv, Heard
  <2>4. QED
    BY <1>1, <1>2, <2>1, <2>3 DEF Waits, InTurn, Called, At, Subject
<1>8. QED
  BY <1>1, <1>3, <1>4, <1>5, <1>6, <1>7 DEF FileInv

\* A file is opened: its contents are read,
LEMMA OpenStep ==
    ASSUME FileInv, NEW b \in Buffer, NEW p \in Path, open(b, p)
    PROVE  FileInv'
<1>1. /\ loops = <<>> /\ opening = {} /\ connecting = {} /\ asking = {}
      /\ path_m' = [path_m EXCEPT ![b] = p]
      /\ UNCHANGED <<system, now, disk, connecting, asking, monitored, last_write_m, attached,
                     event, loops>>
  BY DEF open, Quiet, Put, monitor_vars
<1>2. \/ /\ disk[p].exists
         /\ contents_m' = [contents_m EXCEPT ![b] = "file"]
         /\ dirty_m' = [dirty_m EXCEPT ![b] = FALSE]
         /\ opening' = {b} /\ blind' = blind \ {b}
      \/ /\ ~disk[p].exists
         /\ contents_m' = [contents_m EXCEPT ![b] = "other"]
         /\ UNCHANGED <<dirty_m, opening, blind>>
  BY DEF open, Put
<1>3. /\ path_m' \in [Buffer -> Path \cup {nowhere}] /\ path_m'[b] = p
      /\ \A c \in Buffer : c # b => path_m'[c] = path_m[c]
      /\ contents_m' \in [Buffer -> {"file", "other"}] /\ dirty_m' \in [Buffer -> BOOLEAN]
      /\ \A c \in Buffer : c # b => contents_m'[c] = contents_m[c] /\ dirty_m'[c] = dirty_m[c]
      /\ opening' \subseteq {b} /\ blind' \subseteq Buffer
      /\ \A c \in Buffer : c # b /\ c \in blind => c \in blind'
      /\ b \in opening' => contents_m'[b] = "file"
      /\ contents_m'[b] = "file" \/ ~disk[p].exists
  BY <1>1, <1>2 DEF FileInv, FileTypes
<1>4. FileTypes'
  BY <1>1, <1>3 DEF FileInv, FileTypes
<1>5. Times' /\ Attached' /\ OneLoop'
  BY <1>1 DEF FileInv, Times, Attached, OneLoop
<1>6. Opening'
  BY <1>1, <1>3 DEF Opening
<1>7. LoopsFit'
  BY <1>1, NoLoops DEF LoopsFit
<1>8. Heard'
  <2> SUFFICES ASSUME NEW c \in Buffer \ blind', Stale(c)'
               PROVE  Waits(c)'
    BY DEF Heard
  <2>1. c # b
    BY <1>1, <1>3 DEF Stale, Connected, is_valid
  <2>2. Stale(c) /\ c \notin blind /\ path_m'[c] = path_m[c]
    BY <1>1, <1>3, <2>1 DEF Stale, Connected, is_valid
  <2>3. Waits(c)
    BY <1>1, <2>2 DEF FileInv, Heard, Called, At
  <2>4. QED
    BY <1>1, <2>2, <2>3 DEF Waits, InTurn
<1>9. QED
  BY <1>1, <1>4, <1>5, <1>6, <1>7, <1>8 DEF FileInv

\* the time of its last write is read,
LEMMA SetPathStep ==
    ASSUME FileInv, NEW b \in Buffer, set_path(b)
    PROVE  FileInv'
<1>1. /\ b \in opening /\ opening' = {}
      /\ UNCHANGED <<system, now, disk, path_m, contents_m, dirty_m, asking, loops, blind>>
  BY DEF set_path
<1>2. loops = <<>> /\ connecting = {} /\ asking = {}
      /\ (b \in blind \/ contents_m[b] = "file" \/ path_m[b] = monitored[b])
  BY <1>1 DEF FileInv, Opening
<1>3. OneLoop' /\ LoopsFit'
  BY <1>1, <1>2, NoLoops DEF FileInv, OneLoop, LoopsFit
<1>4. CASE is_valid(b) /\ monitored[b] # path_m[b]
  <2> DEFINE p == path_m[b]
             t == disk[p].written
  <2>1. p \in Path /\ disk[p].exists /\ p # monitored[b] /\ t \in Nat /\ t <= now
    BY <1>4 DEF is_valid, FileInv, FileTypes, Times
  <2>2. /\ monitored' = [monitored EXCEPT ![b] = p]
        /\ last_write_m' = [last_write_m EXCEPT ![b] = t]
        /\ attached' = attached \ {b} /\ event' = event \ {b} /\ connecting' = {b}
    BY <1>4 DEF set_path, Put
  <2> HIDE DEF p, t
  <2>3. /\ monitored' \in [Buffer -> Path \cup {nowhere}] /\ monitored'[b] = p
        /\ last_write_m' \in [Buffer -> Nat] /\ last_write_m'[b] = t
        /\ \A c \in Buffer : c # b =>
               monitored'[c] = monitored[c] /\ last_write_m'[c] = last_write_m[c]
    BY <2>1, <2>2 DEF FileInv, FileTypes
  <2>4. FileTypes'
    BY <1>1, <2>2, <2>3 DEF FileInv, FileTypes
  <2>5. Times'
    <3>1. t = disk[p].written
      BY DEF t
    <3>2. ASSUME NEW c \in Buffer
          PROVE  /\ last_write_m'[c] <= now
                 /\ monitored'[c] # nowhere /\ disk[monitored'[c]].exists =>
                        last_write_m'[c] <= disk[monitored'[c]].written
      <4>1. CASE c = b
        BY <2>1, <2>3, <3>1, <4>1
      <4>2. CASE c # b
        BY <2>3, <4>2 DEF FileInv, Times
      <4>3. QED
        BY <4>1, <4>2
    <3>3. QED
      BY <1>1, <3>2 DEF FileInv, Times
  <2>6. Attached'
    BY <1>1, <1>2, <2>2, <2>3 DEF FileInv, Attached
  <2>7. Opening'
    BY <1>1, <1>2, <2>2 DEF Opening
  <2>8. Heard'
    <3> SUFFICES ASSUME NEW c \in Buffer \ blind, Stale(c)'
                 PROVE  Waits(c)'
      BY <1>1 DEF Heard
    <3>1. c # b
      BY <1>1, <1>2, <2>1 DEF Stale, p
    <3>2. Stale(c)
      BY <1>1, <2>3, <3>1 DEF Stale, Connected, is_valid
    <3>3. Waits(c)
      BY <1>2, <3>2 DEF FileInv, Heard, Called, At
    <3>4. QED
      BY <1>1, <1>2, <2>2, <2>3, <3>1, <3>3 DEF Waits, InTurn
  <2>9. QED
    BY <1>1, <1>2, <1>3, <2>4, <2>5, <2>6, <2>7, <2>8 DEF FileInv, Asked
<1>5. CASE ~(is_valid(b) /\ monitored[b] # path_m[b])
  <2>1. UNCHANGED <<connecting, monitored, last_write_m, attached, event>>
    BY <1>5 DEF set_path, monitor_vars
  <2>2. FileTypes' /\ Times' /\ Attached' /\ Opening'
    BY <1>1, <1>2, <2>1 DEF FileInv, FileTypes, Times, Attached, Opening
  <2>3. Heard'
    BY <1>1, <2>1 DEF FileInv, Heard, Stale, Connected, is_valid, Waits, InTurn, Called, At, Subject
  <2>4. QED
    BY <1>1, <1>3, <2>1, <2>2, <2>3 DEF FileInv
<1>6. QED
  BY <1>4, <1>5

\* and its monitor is attached.
LEMMA ConnectStep ==
    ASSUME FileInv, NEW b \in Buffer, connect(b)
    PROVE  FileInv'
<1>1. /\ b \in connecting /\ connecting' = {} /\ attached \subseteq attached'
      /\ attached' \subseteq attached \cup {b} /\ (system = "win" => b \in attached')
      /\ UNCHANGED <<system, now, disk, path_m, contents_m, dirty_m, opening, asking, monitored,
                     last_write_m, event, loops, blind>>
  BY DEF connect
<1>2. FileTypes'
  BY <1>1 DEF FileInv, FileTypes
<1>3. Times' /\ OneLoop' /\ LoopsFit'
  BY <1>1 DEF FileInv, Times, OneLoop, LoopsFit, LoopFits
<1>4. Attached'
  <2>1. \A c \in connecting : c = b
    BY <1>1 DEF FileInv, Opening
  <2>2. QED
    BY <1>1, <2>1 DEF FileInv, Attached
<1>5. Opening'
  BY <1>1 DEF FileInv, Opening
<1>6. Heard'
  BY <1>1 DEF FileInv, Heard, Stale, Connected, is_valid, Waits, InTurn, Called, At, Subject
<1>7. QED
  BY <1>1, <1>2, <1>3, <1>4, <1>5, <1>6 DEF FileInv

\* A buffer is edited: it is clean no more.
LEMMA EditStep ==
    ASSUME FileInv, NEW b \in Buffer, edit(b)
    PROVE  FileInv'
<1>1. /\ opening = {} /\ asking = {} /\ contents_m' = [contents_m EXCEPT ![b] = "other"]
      /\ dirty_m' = [dirty_m EXCEPT ![b] = TRUE]
      /\ UNCHANGED <<system, now, disk, path_m, opening, connecting, asking, monitored,
                     last_write_m, attached, event, loops, blind>>
  BY DEF edit, Quiet, Put, monitor_vars
<1>2. FileTypes'
  BY <1>1 DEF FileInv, FileTypes
<1>3. Times' /\ OneLoop' /\ LoopsFit' /\ Attached'
  BY <1>1 DEF FileInv, Times, OneLoop, LoopsFit, LoopFits, Attached
<1>4. Opening'
  BY <1>1 DEF FileInv, Opening
<1>5. Heard'
  <2> SUFFICES ASSUME NEW c \in Buffer \ blind, Stale(c)'
               PROVE  Waits(c)' \/ Called(c)'
    BY <1>1 DEF Heard
  <2>1. c # b
    BY <1>1 DEF Stale, FileInv, FileTypes
  <2>2. Stale(c)
    BY <1>1, <2>1 DEF Stale, Connected, is_valid, FileInv, FileTypes
  <2>3. Waits(c) \/ Called(c)
    BY <2>2 DEF FileInv, Heard
  <2>4. QED
    BY <1>1, <2>3 DEF Waits, InTurn, Called, At, Subject
<1>6. QED
  BY <1>1, <1>2, <1>3, <1>4, <1>5 DEF FileInv

\* A buffer is written to a file.
LEMMA BufferSavesStep ==
    ASSUME FileInv, NEW b \in Buffer, NEW p \in Path, Quiet, Saves(b, p), asking' = {}
    PROVE  FileInv'
<1>1. /\ loops = <<>> /\ opening = {} /\ connecting = {} /\ Written(p)
      /\ event' = event \cup Told(p) /\ blind' = Blinds(p) \ {b}
      /\ path_m' = [path_m EXCEPT ![b] = p]
      /\ contents_m' = [OthersThan(p) EXCEPT ![b] = "file"]
      /\ dirty_m' = [dirty_m EXCEPT ![b] = FALSE] /\ opening' = {b}
      /\ UNCHANGED <<system, now, connecting, monitored, last_write_m, attached, loops>>
  BY DEF Saves, Quiet, Put
<1>2. /\ disk' \in [Path -> [exists : BOOLEAN, written : Nat]]
      /\ disk'[p].written = now
      /\ \A q \in Path : q # p => disk'[q] = disk[q]
      /\ Times'
      /\ event' \subseteq Buffer /\ event \subseteq event' /\ Blinds(p) \subseteq Buffer
      /\ \A c \in Buffer : c \notin Blinds(p) /\ path_m[c] # p => c \notin blind
      /\ \A c \in Buffer : c \notin Blinds(p) /\ path_m[c] = p /\ monitored[c] = p =>
             last_write_m[c] # now /\ (c \in event' \/ InTurn(c))
  BY <1>1, WrittenFacts
<1>3. /\ path_m' \in [Buffer -> Path \cup {nowhere}]
      /\ contents_m' \in [Buffer -> {"file", "other"}] /\ dirty_m' \in [Buffer -> BOOLEAN]
      /\ contents_m'[b] = "file"
      /\ \A c \in Buffer : c # b =>
             /\ path_m'[c] = path_m[c] /\ dirty_m'[c] = dirty_m[c]
             /\ path_m[c] # p => contents_m'[c] = contents_m[c]
  BY <1>1 DEF OthersThan, FileInv, FileTypes
<1>4. FileTypes'
  BY <1>1, <1>2, <1>3 DEF FileInv, FileTypes
<1>5. OneLoop' /\ Attached' /\ LoopsFit'
  BY <1>1, NoLoops DEF FileInv, OneLoop, Attached, LoopsFit
<1>6. Opening'
  BY <1>1, <1>3 DEF Opening
<1>7. Heard'
  <2> SUFFICES ASSUME NEW c \in Buffer \ blind', Stale(c)'
               PROVE  Waits(c)'
    BY DEF Heard
  <2>1. c # b /\ c \notin Blinds(p)
    BY <1>1, <1>3 DEF Stale
  <2>2. path_m[c] \in Path /\ path_m'[c] = path_m[c] /\ path_m[c] = monitored[c]
    BY <1>1, <1>3, <2>1 DEF Stale, Connected, is_valid, FileInv, FileTypes
  <2>3. CASE path_m[c] = p
    BY <1>1, <1>2, <2>1, <2>2, <2>3 DEF Waits, InTurn
  <2>4. CASE path_m[c] # p
    <3>1. Stale(c) /\ c \notin blind
      BY <1>1, <1>2, <1>3, <2>1, <2>2, <2>4 DEF Stale, Connected, is_valid
    <3>2. Waits(c)
      BY <1>1, <3>1 DEF FileInv, Heard, Called, At
    <3>3. QED
      BY <1>1, <1>2, <2>2, <2>4, <3>2 DEF Waits, InTurn
  <2>5. QED
    BY <2>3, <2>4
<1>8. QED
  BY <1>1, <1>2, <1>4, <1>5, <1>6, <1>7 DEF FileInv, Asked

\* A buffer with no file is going to ask for a path, and then has one, written or not.
LEMMA SaveStep ==
    ASSUME FileInv, NEW b \in Buffer, save(b)
    PROVE  FileInv'
<1>1. Quiet /\ asking = {} /\ dirty_m[b]
  BY DEF save
<1>2. CASE is_valid(b) /\ Saves(b, path_m[b]) /\ UNCHANGED asking
  <2>1. path_m[b] \in Path
    BY <1>2 DEF is_valid, FileInv, FileTypes
  <2>2. QED
    BY <1>1, <1>2, <2>1, BufferSavesStep
<1>3. CASE ~(is_valid(b) /\ Saves(b, path_m[b]) /\ UNCHANGED asking)
  <2>1. /\ asking' = {b}
        /\ UNCHANGED <<system, now, disk, path_m, contents_m, dirty_m, opening, connecting,
                       monitored, last_write_m, attached, event, loops, blind>>
    BY <1>3 DEF save, monitor_vars
  <2>2. FileTypes'
    BY <2>1 DEF FileInv, FileTypes
  <2>3. Times' /\ OneLoop' /\ Attached' /\ LoopsFit' /\ Heard'
    BY <2>1 DEF FileInv, Times, OneLoop, Attached, LoopsFit, LoopFits, Heard, Stale, Connected,
                is_valid, Waits, InTurn, Called, At, Subject
  <2>4. Opening'
    BY <1>1, <2>1 DEF FileInv, Opening, Quiet
  <2>5. QED
    BY <2>1, <2>2, <2>3, <2>4 DEF FileInv
<1>4. QED
  BY <1>2, <1>3

LEMMA AskForPathStep ==
    ASSUME FileInv, NEW b \in Buffer, ask_for_path(b)
    PROVE  FileInv'
<1>1. b \in asking /\ Quiet /\ asking' = {}
  BY DEF ask_for_path
<1>2. CASE \E p \in Path : Saves(b, p)
  BY <1>1, <1>2, BufferSavesStep
<1>3. CASE ~\E p \in Path : Saves(b, p)
  <2>1. /\ UNCHANGED <<system, now, disk, dirty_m, opening, connecting, monitored, last_write_m,
                       attached, event, loops, blind>>
        /\ \/ \E p \in Path :
                 /\ path_m' = [path_m EXCEPT ![b] = p]
                 /\ contents_m' = IF p = path_m[b] THEN contents_m
                                  ELSE [contents_m EXCEPT ![b] = "other"]
           \/ UNCHANGED <<path_m, contents_m>>
    BY <1>3 DEF ask_for_path, Put, monitor_vars
  <2>2. /\ path_m' \in [Buffer -> Path \cup {nowhere}]
        /\ contents_m' \in [Buffer -> {"file", "other"}]
        /\ \A c \in Buffer : c # b => path_m'[c] = path_m[c] /\ contents_m'[c] = contents_m[c]
        /\ path_m'[b] = path_m[b] => contents_m'[b] = contents_m[b]
    BY <2>1 DEF FileInv, FileTypes
  <2>3. loops = <<>> /\ opening = {} /\ connecting = {}
    BY <1>1 DEF Quiet
  <2>4. FileTypes'
    BY <1>1, <2>1, <2>2 DEF FileInv, FileTypes
  <2>5. Times' /\ OneLoop' /\ Attached' /\ Opening' /\ LoopsFit'
    BY <1>1, <2>1, <2>3, NoLoops DEF FileInv, Times, OneLoop, Attached, Opening, LoopsFit
  <2>6. Heard'
    <3> SUFFICES ASSUME NEW c \in Buffer \ blind, Stale(c)'
                 PROVE  Waits(c)'
      BY <2>1 DEF Heard
    <3>1. path_m'[c] = path_m[c] /\ contents_m'[c] = contents_m[c]
      <4>1. CASE c = b
        <5>1. path_m[b] = monitored[b]
          BY <1>1, <2>1, <4>1 DEF Stale, FileInv, Opening
        <5>2. QED
          BY <2>1, <2>2, <4>1, <5>1 DEF Stale, Connected
      <4>2. QED
        BY <2>2, <4>1
    <3>2. Stale(c)
      BY <2>1, <3>1 DEF Stale, Connected, is_valid
    <3>3. Waits(c)
      BY <2>3, <3>2 DEF FileInv, Heard, Called, At
    <3>4. QED
      BY <2>1, <3>1, <3>3 DEF Waits, InTurn
  <2>7. QED
    BY <2>1, <2>4, <2>5, <2>6 DEF FileInv
<1>4. QED
  BY <1>2, <1>3

\* A step of the program, the system or another program keeps the invariant.
LEMMA FileStep == FileInv /\ [FileNext]_file_vars => FileInv'
<1> SUFFICES ASSUME FileInv, [FileNext]_file_vars PROVE FileInv'
  OBVIOUS
<1>1. CASE UNCHANGED file_vars
  BY <1>1 DEF file_vars, buffer_vars, monitor_vars, FileInv, FileTypes, Times, OneLoop, Opening,
              Attached, LoopsFit, LoopFits, Heard, Stale, Connected, is_valid, Waits, InTurn,
              Called, At, Subject
<1>2. CASE FileNext
  BY <1>2, WriteStep, RemoveStep, TickStep, TimerStep, EndStep, UnchangedStep, MissingStep,
     ChangedStep, EventStep, AnswerStep, OpenStep, SetPathStep, ConnectStep, EditStep, SaveStep,
     AskForPathStep DEF FileNext, loop_runs
<1>3. QED
  BY <1>1, <1>2

\* The monitors keep their invariant, for any buffers and files.
THEOREM FileInvariance == FileSpec => []FileInv
<1>1. FileInit => FileInv
  <2> SUFFICES ASSUME FileInit PROVE FileInv
    OBVIOUS
  <2>1. FileTypes /\ path_m = [b \in Buffer |-> nowhere] /\ monitored = path_m /\ loops = <<>>
    <3>1. dirty_m \in [Buffer -> BOOLEAN]
      BY DEF FileInit
    <3>2. QED
      BY <3>1 DEF FileInit, FileTypes
  <2>2. Times
    BY DEF FileInit, Times
  <2>3. OneLoop /\ Opening /\ Attached /\ LoopsFit /\ Asked(loops, last_write_m)
    BY <2>1, NoLoops DEF FileInit, OneLoop, Opening, Attached, LoopsFit, Asked
  <2>4. Heard
    BY <2>1 DEF Heard, Stale, Connected, is_valid
  <2>5. QED
    BY <2>1, <2>2, <2>3, <2>4 DEF FileInv
<1>2. QED
  BY <1>1, FileStep, PTL DEF FileSpec

\* A clean buffer whose file another program has changed is going to be told of it, unless
\* the change fell into one of the gaps the model names (platform_file_monitor_impl.cpp).
THEOREM NoChangeIsEverHidden == FileSpec => []NoChangeHidden
<1>1. FileInv => NoChangeHidden
  <2> SUFFICES ASSUME FileInv, NEW b \in Buffer \ blind, Connected(b), ~dirty_m[b],
                      contents_m[b] # "file", ~Called(b)
               PROVE  Due(b)
    BY DEF NoChangeHidden
  <2>1. disk[path_m[b]].written # last_write_m[b] /\ (b \in event \/ InTurn(b))
    BY DEF Stale, FileInv, Heard, Waits
  <2>2. CASE b \in event
    BY <2>1, <2>2 DEF Due, Seen_to
  <2>3. CASE InTurn(b)
    <3>1. loops \in Seq(Loop) /\ loops # <<>> /\ b \in ToSet(Head(loops).rest)
      BY <2>3 DEF InTurn, FileInv, FileTypes
    <3>2. 1 \in DOMAIN loops /\ Head(loops) = loops[1]
      BY <3>1, HeadTailProperties, EmptySeq
    <3>3. QED
      BY <2>1, <3>1, <3>2 DEF Due, Seen_to
  <2>4. QED
    BY <2>1, <2>2, <2>3
<1>2. QED
  BY <1>1, FileInvariance, PTL

\* No two questions that are open at once are about the same write of the same buffer.
THEOREM AlwaysAskedOnce == FileSpec => []AskedOnce
<1>1. FileInv => AskedOnce
  <2> SUFFICES ASSUME FileInv, NEW i \in DOMAIN loops, NEW j \in DOMAIN loops, i # j,
                      loops[i].stage = "asks"
               PROVE  loops[i].about # loops[j].about
    BY DEF AskedOnce
  <2>1. loops[i] \in ToSet(loops)
    BY DEF ToSet
  <2>2. loops[i].about # nowhere
    BY <2>1 DEF FileInv, LoopsFit, LoopFits
  <2>3. QED
    BY <2>2 DEF FileInv, Asked
<1>2. QED
  BY <1>1, FileInvariance, PTL

------------------------------------------------------------------------------
(* presets_t *)

\* What a popup shows or was told to: nothing, or a preset the sheet agrees with.
AgreesWith(v, s) == v = custom \/ \A k \in DOMAIN v : v[k] = s[k]

\* A control has displayed the sheet as it is, and its preset popup agrees.
Follows ==
    \A c \in Control :
        /\ last[c] = sheet[c]
        /\ AgreesWith(popup[c].last, sheet[c]) /\ AgreesWith(popup[c].shown, sheet[c])

PresetsInv == PresetsTypes /\ Follows

------------------------------------------------------------------------------

\* A preset has some of the cells; imbuing it leaves a sheet that agrees with it.
LEMMA ValueFacts ==
    /\ \A v \in Values : DOMAIN v \subseteq Cell /\ \A k \in DOMAIN v : v[k] \in Setting
    /\ \A s \in [Cell -> Setting], v \in Values :
          Imbued(v, s) \in [Cell -> Setting] /\ AgreesWith(v, Imbued(v, s))
    /\ \A s \in [Cell -> Setting], cells \in SUBSET Cell : [k \in cells |-> s[k]] \in Values
<1>1. \A v \in Values : DOMAIN v \subseteq Cell /\ \A k \in DOMAIN v : v[k] \in Setting
  BY DEF Values
<1>2. ASSUME NEW s \in [Cell -> Setting], NEW v \in Values
      PROVE  Imbued(v, s) \in [Cell -> Setting] /\ AgreesWith(v, Imbued(v, s))
  BY <1>1 DEF Imbued, AgreesWith
<1>3. ASSUME NEW s \in [Cell -> Setting], NEW cells \in SUBSET Cell
      PROVE  [k \in cells |-> s[k]] \in Values
  <2>1. [k \in cells |-> s[k]] \in [cells -> Setting]
    OBVIOUS
  <2>2. QED
    BY <2>1 DEF Values
<1>4. QED
  BY <1>1, <1>2, <1>3

\* Match finds a preset of a category that matches, as large as any that does,
\* and finds none only if none of them matches.
LEMMA MatchIsLargest ==
    ASSUME NEW categories \in Categories, NEW s
    PROVE  LET m == Match(categories, s)
           IN  \/ /\ m = no_match
                  /\ \A items \in ToSet(categories) : \A v \in ToSet(items) : ~Matches(v, s)
               \/ /\ m.items \in ToSet(categories) /\ m.items \in Seq(Values)
                  /\ m.value \in ToSet(m.items) /\ m.value \in Values
                  /\ Matches(m.value, s)
                  /\ \A items \in ToSet(categories) : \A v \in ToSet(items) :
                        Matches(v, s) =>
                            Cardinality(DOMAIN v) <= Cardinality(DOMAIN m.value)
<1> DEFINE found == Found(categories, s)
           size(p) == Cardinality(DOMAIN categories[p[1]][p[2]])
           largest == {p \in found : \A q \in found : size(q) <= size(p)}
           Before(p, q) == p[1] < q[1] \/ (p[1] = q[1] /\ p[2] <= q[2])
           first   == CHOOSE p \in largest : \A q \in largest : Before(p, q)
           m == [items |-> categories[first[1]], value |-> categories[first[1]][first[2]]]
<1>1. Match(categories, s) = IF largest = {} THEN no_match ELSE m
  BY DEF Match
<1>2. /\ DOMAIN categories \subseteq Nat
      /\ \A i \in DOMAIN categories :
            /\ categories[i] \in Seq(Values) /\ DOMAIN categories[i] \subseteq Nat
            /\ \A j \in DOMAIN categories[i] : categories[i][j] \in Values
  <2>1. \A i \in DOMAIN categories : categories[i] \in Seq(Values)
    BY ElementOfSeq DEF Categories
  <2>2. QED
    BY <2>1, ElementOfSeq DEF Categories
<1>3. \A p \in found : /\ p \in Nat \X Nat /\ p[1] \in DOMAIN categories
                       /\ p[2] \in DOMAIN categories[p[1]]
                       /\ Matches(categories[p[1]][p[2]], s)
  BY <1>2 DEF Found
<1>4. \A items \in ToSet(categories) : \A v \in ToSet(items) :
          Matches(v, s) => \E p \in found : categories[p[1]][p[2]] = v
  <2> TAKE items \in ToSet(categories)
  <2> TAKE v \in ToSet(items)
  <2> HAVE Matches(v, s)
  <2>1. PICK i \in DOMAIN categories : items = categories[i]
    BY DEF ToSet
  <2>2. PICK j \in DOMAIN items : v = items[j]
    BY DEF ToSet
  <2>3. <<i, j>> \in found
    BY <2>1, <2>2 DEF Found
  <2>4. QED
    BY <2>1, <2>2, <2>3
<1>5. found # {} => largest # {}
  <2>1. Cardinality(Cell) \in Nat
    BY PresetsAssumption, FS_CardinalityType
  <2>2. ASSUME NEW p \in found
        PROVE  size(p) \in Nat /\ size(p) <= Cardinality(Cell)
    <3>1. categories[p[1]][p[2]] \in Values
      BY <1>2, <1>3
    <3>2. DOMAIN categories[p[1]][p[2]] \in SUBSET Cell
      BY <3>1, ValueFacts
    <3>3. QED
      BY <3>2, PresetsAssumption, FS_Subset, FS_CardinalityType
  <2> HIDE DEF found, size
  <2> DEFINE left == {Cardinality(Cell) - size(p) : p \in found}
  <2>3. SUFFICES ASSUME found # {} PROVE largest # {}
    OBVIOUS
  <2>4. left \in SUBSET Nat /\ left # {}
    BY <2>1, <2>2, <2>3
  <2>5. PICK n \in left : \A k \in left : n <= k
    BY <2>4, LeastNat
  <2>6. PICK p \in found : n = Cardinality(Cell) - size(p)
    BY <2>5
  <2>7. \A q \in found : size(q) <= size(p)
    <3> TAKE q \in found
    <3>1. n <= Cardinality(Cell) - size(q)
      BY <2>5
    <3>2. QED
      BY <2>1, <2>2, <2>6, <3>1
  <2>8. QED
    BY <2>7
<1>6. largest \subseteq found /\ \A p \in largest, q \in found : size(q) <= size(p)
  OBVIOUS
<1> HIDE DEF found
<1>7. largest # {} => first \in largest
  <2> SUFFICES ASSUME largest # {} PROVE \E p \in largest : \A q \in largest : Before(p, q)
    OBVIOUS
  <2> DEFINE rows == {p[1] : p \in largest}
  <2>1. \A p \in largest : p[1] \in Nat /\ p[2] \in Nat
    BY <1>3
  <2> HIDE DEF largest, size
  <2>2. PICK row \in rows : \A r \in rows : row <= r
    BY <2>1, LeastNat
  <2> DEFINE columns == {p[2] : p \in {q \in largest : q[1] = row}}
  <2>3. columns # {} /\ columns \in SUBSET Nat
    BY <2>1
  <2>4. PICK column \in columns : \A k \in columns : column <= k
    BY <2>3, LeastNat
  <2>5. PICK p \in largest : p[1] = row /\ p[2] = column
    OBVIOUS
  <2>6. ASSUME NEW q \in largest PROVE Before(p, q)
    <3>1. row <= q[1] /\ q[1] \in Nat /\ row \in Nat
      BY <2>1, <2>2
    <3>2. q[1] = row => column <= q[2]
      BY <2>4
    <3>3. QED
      BY <2>5, <3>1, <3>2
  <2>7. QED
    BY <2>6
<1> HIDE DEF largest, first
<1>8. CASE largest = {}
  <2>1. found = {}
    BY <1>5, <1>8
  <2>2. \A items \in ToSet(categories) : \A v \in ToSet(items) : ~Matches(v, s)
    BY <1>4, <2>1
  <2>3. QED
    BY <1>1, <1>8, <2>2
<1>9. CASE largest # {}
  <2> DEFINE items_f == categories[first[1]]
             value_f == items_f[first[2]]
  <2>1. first \in found
    BY <1>6, <1>7, <1>9
  <2>2. items_f \in Seq(Values) /\ items_f \in ToSet(categories)
    BY <1>2, <1>3, <2>1 DEF ToSet
  <2>3. value_f \in ToSet(items_f) /\ Matches(value_f, s) /\ value_f \in Values
    BY <1>2, <1>3, <2>1 DEF ToSet
  <2>4. ASSUME NEW items \in ToSet(categories), NEW v \in ToSet(items), Matches(v, s)
        PROVE  Cardinality(DOMAIN v) <= Cardinality(DOMAIN value_f)
    <3>1. PICK p \in found : categories[p[1]][p[2]] = v
      BY <1>4, <2>4
    <3>2. size(p) <= size(first)
      BY <1>6, <1>7, <1>9
    <3>3. QED
      BY <3>1, <3>2
  <2>5. m.items = items_f /\ m.value = value_f /\ Match(categories, s) = m
    BY <1>1, <1>9
  <2> HIDE DEF m, size, items_f, value_f
  <2>6. QED
    BY <2>2, <2>3, <2>4, <2>5
<1>10. QED
  BY <1>8, <1>9

\* What popup_t's operations leave is a popup again.
LEMMA PopupFacts ==
    ASSUME NEW Kind, NEW p \in popup_t(Kind)
    PROVE  /\ p.items \in Seq(Kind) /\ p.last \in Kind \cup {custom}
           /\ p.shown \in Kind \cup {custom} /\ p.shown \in ToSet(p.items) \cup {custom}
           /\ \A items \in Seq(Kind) :
                 /\ Reset(p, items) \in popup_t(Kind)
                 /\ Reset(p, items).items = items /\ Reset(p, items).last = p.last
                 /\ Reset(p, items).shown \in {p.last, custom}
           /\ \A v \in Kind \cup {custom} :
                 /\ Displayed(p, v) \in popup_t(Kind)
                 /\ Displayed(p, v).items = p.items /\ Displayed(p, v).last = v
                 /\ Displayed(p, v).shown \in {v, custom}
           /\ \A v \in ToSet(p.items) :
                 /\ Picked(p, v) \in popup_t(Kind)
                 /\ Picked(p, v).items = p.items /\ Picked(p, v).last = p.last
                 /\ Picked(p, v).shown = v
<1> DEFINE Raw == [items : Seq(Kind), last : Kind \cup {custom}, shown : Kind \cup {custom}]
<1>1. p \in Raw /\ p.shown \in ToSet(p.items) \cup {custom}
  BY DEF popup_t
<1>2. ASSUME NEW items \in Seq(Kind), NEW l \in Kind \cup {custom},
             NEW v \in ToSet(items) \cup {custom}
      PROVE  [items |-> items, last |-> l, shown |-> v] \in popup_t(Kind)
  <2>1. v \in Kind \cup {custom}
    BY ToSetOf
  <2>2. QED
    BY <2>1 DEF popup_t
<1>3. ASSUME NEW v, NEW items PROVE Show(v, items) \in ToSet(items) \cup {custom}
                                    /\ Show(v, items) \in {v, custom}
  BY DEF Show
<1>4. ASSUME NEW items \in Seq(Kind)
      PROVE  /\ Reset(p, items) \in popup_t(Kind)
             /\ Reset(p, items).items = items /\ Reset(p, items).last = p.last
             /\ Reset(p, items).shown \in {p.last, custom}
  BY <1>1, <1>2, <1>3 DEF Reset
<1>6. ASSUME NEW v \in Kind \cup {custom}
      PROVE  /\ Displayed(p, v) \in popup_t(Kind)
             /\ Displayed(p, v).items = p.items /\ Displayed(p, v).last = v
             /\ Displayed(p, v).shown \in {v, custom}
  <2> DEFINE w == Show(v, p.items)
  <2>1. Displayed(p, v) = [items |-> p.items, last |-> v, shown |-> w]
    BY DEF Displayed
  <2>2. w \in ToSet(p.items) \cup {custom} /\ w \in {v, custom} /\ p.items \in Seq(Kind)
    BY <1>1, <1>3
  <2> HIDE DEF w
  <2>3. [items |-> p.items, last |-> v, shown |-> w] \in popup_t(Kind)
    BY <1>2, <2>2
  <2>4. QED
    BY <2>1, <2>2, <2>3
<1>7. ASSUME NEW v \in ToSet(p.items)
      PROVE  /\ Picked(p, v) \in popup_t(Kind)
             /\ Picked(p, v).items = p.items /\ Picked(p, v).last = p.last
             /\ Picked(p, v).shown = v
  <2>1. Picked(p, v) = [items |-> p.items, last |-> p.last, shown |-> v]
    BY <1>1 DEF Picked
  <2>2. QED
    BY <1>1, <1>2, <2>1
<1>8. QED
  BY <1>1, <1>4, <1>6, <1>7

\* Control c comes to have displayed s, with the categories all.
Displays(c, s, all) ==
    /\ last' = [last EXCEPT ![c] = s]
    /\ \E p \in popup_t(Seq(Values)) :
          p.items = all /\ category' = [category EXCEPT ![c] = p]
    /\ \E p \in popup_t(Values) :
          AgreesWith(p.last, s) /\ AgreesWith(p.shown, s) /\ popup' = [popup EXCEPT ![c] = p]

\* display leaves popups that agree with what it displays.
LEMMA DisplayFollows ==
    ASSUME NEW c \in Control, NEW s,
           NEW cat \in popup_t(Seq(Values)), NEW menu \in popup_t(Values), display(c, s, cat, menu)
    PROVE  Displays(c, s, cat.items)
<1> DEFINE m == Match(cat.items, s)
<1>1. cat.items \in Categories
  BY PopupFacts DEF Categories
<1>2. AgreesWith(custom, s) /\ (Matches(m.value, s) => AgreesWith(m.value, s))
  BY DEF AgreesWith, Matches
<1>3. /\ last' = [last EXCEPT ![c] = s]
      /\ category' = [category EXCEPT ![c] =
                         Displayed(cat, IF m = no_match THEN custom ELSE m.items)]
      /\ popup' = [popup EXCEPT ![c] =
                      IF m = no_match THEN Reset(Displayed(menu, custom), <<>>)
                      ELSE Displayed(Reset(menu, m.items), m.value)]
  BY DEF display
<1>4. m = no_match \/ /\ m.items \in Seq(Values) /\ m.value \in Values
                      /\ Matches(m.value, s)
  BY <1>1, MatchIsLargest
<1> HIDE DEF m
<1>5. CASE m = no_match
  <2> DEFINE p == Reset(Displayed(menu, custom), <<>>)
  <2>1. Displayed(menu, custom) \in popup_t(Values) /\ Displayed(menu, custom).last = custom
    BY PopupFacts
  <2>2. p \in popup_t(Values) /\ p.last = custom /\ p.shown = custom
    <3> DEFINE d == Displayed(menu, custom)
    <3>1. d \in popup_t(Values) /\ d.last = custom /\ <<>> \in Seq(Values)
      BY <2>1
    <3> HIDE DEF d
    <3>2. \A items \in Seq(Values) :
              /\ Reset(d, items) \in popup_t(Values) /\ Reset(d, items).last = d.last
              /\ Reset(d, items).shown \in {d.last, custom}
      BY <3>1, PopupFacts
    <3>3. QED
      BY <3>1, <3>2 DEF d
  <2>3. Displayed(cat, custom) \in popup_t(Seq(Values)) /\ Displayed(cat, custom).items = cat.items
    BY PopupFacts
  <2> HIDE DEF p
  <2>4. QED
    BY <1>2, <1>3, <1>5, <2>2, <2>3 DEF Displays, p
<1>6. CASE m # no_match
  <2> DEFINE q == Reset(menu, m.items)
             p == Displayed(q, m.value)
             k == Displayed(cat, m.items)
  <2>1. q \in popup_t(Values)
    BY <1>4, <1>6, PopupFacts
  <2> HIDE DEF q
  <2>2. p \in popup_t(Values) /\ p.last = m.value /\ p.shown \in {m.value, custom}
    BY <1>4, <1>6, <2>1, PopupFacts
  <2>3. k \in popup_t(Seq(Values)) /\ k.items = cat.items
    BY <1>4, <1>6, PopupFacts
  <2>4. AgreesWith(p.last, s) /\ AgreesWith(p.shown, s)
    BY <1>2, <1>4, <1>6, <2>2
  <2>5. category' = [category EXCEPT ![c] = k] /\ popup' = [popup EXCEPT ![c] = p]
    BY <1>3, <1>6 DEF q
  <2> HIDE DEF p, k
  <2>6. QED
    BY <1>3, <2>2, <2>3, <2>4, <2>5 DEF Displays
<1>7. QED
  BY <1>5, <1>6

\* A change of the sheet is displayed, and one that changes nothing has been.
LEMMA SheetFollows ==
    ASSUME PresetsInv, NEW c \in Control, NEW s \in [Cell -> Setting],
           NEW cat \in popup_t(Seq(Values)), NEW menu \in popup_t(Values),
           s = sheet[c] => AgreesWith(menu.last, s) /\ AgreesWith(menu.shown, s),
           SetSheet(c, s, cat, menu)
    PROVE  Displays(c, s, cat.items) /\ sheet' = [sheet EXCEPT ![c] = s]
<1>1. CASE s # sheet[c]
  <2>1. display(c, s, cat, menu) /\ sheet' = [sheet EXCEPT ![c] = s]
    BY <1>1 DEF SetSheet
  <2>2. QED
    BY <2>1, DisplayFollows
<1>2. CASE s = sheet[c]
  <2>1. /\ category' = [category EXCEPT ![c] = cat] /\ popup' = [popup EXCEPT ![c] = menu]
        /\ last' = last /\ sheet' = [sheet EXCEPT ![c] = s]
    BY <1>2 DEF SetSheet
  <2>2. last[c] = s /\ last = [last EXCEPT ![c] = last[c]]
    BY <1>2 DEF PresetsInv, PresetsTypes, Follows
  <2>3. QED
    BY <1>2, <2>1, <2>2 DEF Displays
<1>3. QED
  BY <1>1, <1>2

\* The variables that displaying changes, and what follows for them.
Shows ==
    /\ sheet \in [Control -> [Cell -> Setting]] /\ last \in [Control -> [Cell -> Setting]]
    /\ composite \in [Control -> Categories]
    /\ category \in [Control -> popup_t(Seq(Values))] /\ popup \in [Control -> popup_t(Values)]
    /\ \A c \in Control : category[c].items = composite[c]
    /\ Follows

\* They stay so when a control displays its sheet and its categories.
LEMMA ShowsNext ==
    ASSUME PresetsInv, NEW c \in Control, NEW s \in [Cell -> Setting], NEW all \in Categories,
           Displays(c, s, all), sheet' = [sheet EXCEPT ![c] = s],
           composite' = [composite EXCEPT ![c] = all]
    PROVE  Shows'
<1>1. PresetsTypes /\ Follows
  BY DEF PresetsInv
<1>2. PICK p \in popup_t(Seq(Values)) :
          p.items = all /\ category' = [category EXCEPT ![c] = p]
  BY DEF Displays
<1>3. PICK q \in popup_t(Values) :
          AgreesWith(q.last, s) /\ AgreesWith(q.shown, s) /\ popup' = [popup EXCEPT ![c] = q]
  BY DEF Displays
<1>4. last' = [last EXCEPT ![c] = s]
  BY DEF Displays
<1>5. /\ (sheet \in [Control -> [Cell -> Setting]])'
      /\ (last \in [Control -> [Cell -> Setting]])'
      /\ (composite \in [Control -> Categories])'
  BY <1>1, <1>4 DEF PresetsTypes
<1>6. (category \in [Control -> popup_t(Seq(Values))])'
  BY <1>1, <1>2 DEF PresetsTypes
<1>7. (popup \in [Control -> popup_t(Values)])'
  BY <1>1, <1>3 DEF PresetsTypes
<1>8. ASSUME NEW d \in Control
      PROVE  /\ (category[d].items)' = (composite[d])' /\ (last[d])' = (sheet[d])'
             /\ AgreesWith((popup[d].last)', (sheet[d])')
             /\ AgreesWith((popup[d].shown)', (sheet[d])')
  <2>1. CASE d = c
    BY <1>1, <1>2, <1>3, <1>4, <2>1 DEF PresetsTypes
  <2>2. CASE d # c
    BY <1>1, <1>2, <1>3, <1>4, <2>2 DEF PresetsTypes, Follows
  <2>3. QED
    BY <2>1, <2>2
<1>9. (Follows)'
  BY <1>8 DEF Follows, AgreesWith
<1>10. QED
  BY <1>5, <1>6, <1>7, <1>8, <1>9 DEF Shows

\* One element of a sequence is removed, by its place or as the first that is e.
LEMMA RemovesFrom ==
    ASSUME NEW S, NEW s \in Seq(S)
    PROVE  /\ \A p \in DOMAIN s : RemoveAt(s, p) \in Seq(S)
           /\ \A e : RemoveFirst(s, e) \in Seq(S)
<1>1. DOMAIN s = 1..Len(s) /\ Len(s) \in Nat
  BY LenProperties
<1>2. \A p \in DOMAIN s : RemoveAt(s, p) \in Seq(S)
  BY <1>1, RemoveAtSeq
<1>3. ASSUME NEW e PROVE RemoveFirst(s, e) \in Seq(S)
  <2> DEFINE places == {i \in 1..Len(s) : s[i] = e}
  <2>1. CASE places = {}
    BY <2>1 DEF RemoveFirst
  <2>2. CASE places # {}
    <3>1. places \in SUBSET Nat
      BY <1>1
    <3>2. \E n \in places : \A m \in places : n <= m
      BY <2>2, <3>1, LeastNat
    <3>3. Min(places) \in places
      BY <3>2 DEF Min
    <3>4. RemoveFirst(s, e) = RemoveAt(s, Min(places))
      BY <2>2 DEF RemoveFirst, SelectInSeq
    <3>5. QED
      BY <1>1, <1>2, <3>3, <3>4
  <2>3. QED
    BY <2>1, <2>2
<1>4. QED
  BY <1>2, <1>3

\* The first category is another one.
LEMMA FirstReplaced ==
    ASSUME NEW cats \in Categories \ {<<>>}, NEW items \in Seq(Values)
    PROVE  /\ 1 \in DOMAIN cats /\ cats[1] \in Seq(Values)
           /\ [cats EXCEPT ![1] = items] \in Categories \ {<<>>}
<1>1. Len(cats) \in Nat \ {0} /\ cats \in Seq(Seq(Values))
  BY EmptySeq DEF Categories
<1>2. 1 \in 1..Len(cats) /\ DOMAIN cats = 1..Len(cats)
  BY <1>1
<1>3. cats[1] \in Seq(Values)
  BY <1>1, <1>2, ElementOfSeq
<1> DEFINE t == [cats EXCEPT ![1] = items]
<1>4. t \in Seq(Seq(Values)) /\ Len(t) = Len(cats)
  BY <1>1, <1>2, ExceptSeq
<1> HIDE DEF t
<1>5. t # <<>>
  BY <1>1, <1>4, EmptySeq
<1>6. QED
  BY <1>2, <1>3, <1>4, <1>5 DEF t, Categories

\* Categories after categories.
LEMMA CategoriesAfter ==
    ASSUME NEW cats \in Categories, NEW more \in Categories
    PROVE  /\ cats \o more \in Categories
           /\ cats # <<>> => cats \o more # <<>>
<1>1. cats \o more \in Seq(Seq(Values)) /\ Len(cats \o more) = Len(cats) + Len(more)
  BY ConcatProperties DEF Categories
<1>2. Len(cats) \in Nat /\ Len(more) \in Nat /\ (cats # <<>> => Len(cats) # 0)
  BY EmptySeq, LenProperties DEF Categories
<1> DEFINE t == cats \o more
<1> HIDE DEF t
<1>3. (cats # <<>>) => Len(t) # 0
  BY <1>1, <1>2 DEF t
<1>4. Len(t) # 0 => t # <<>>
  BY EmptySeq
<1>5. QED
  BY <1>1, <1>3, <1>4 DEF t, Categories

\* What an operation makes of categories is categories; there is always a first.
LEMMA ApplyTypes ==
    ASSUME NEW op \in Operation, NEW cats \in Categories \ {<<>>}
    PROVE  Apply(op, cats) \in Categories \ {<<>>}
<1> DEFINE first == cats[1]
<1>1. first \in Seq(Values)
  <2>1. <<>> \in Seq(Values)
    OBVIOUS
  <2>2. QED
    BY <2>1, FirstReplaced
<1>2. CASE op.what = "add"
  <2>1. op.value \in Values
    BY <1>2 DEF Operation
  <2>2. Append(first, op.value) \in Seq(Values)
    BY <1>1, <2>1, AppendProperties
  <2>3. Apply(op, cats) = [cats EXCEPT ![1] = Append(first, op.value)]
    BY <1>2 DEF Apply
  <2> HIDE DEF first
  <2>4. QED
    BY <2>2, <2>3, FirstReplaced
<1>3. CASE op.what = "delete"
  <2> DEFINE less == IF op.index \in DOMAIN first /\ first[op.index] = op.value
                     THEN RemoveAt(first, op.index) ELSE RemoveFirst(first, op.value)
  <2>1. less \in Seq(Values)
    BY <1>1, RemovesFrom
  <2>2. Apply(op, cats) = [cats EXCEPT ![1] = less]
    BY <1>3 DEF Apply
  <2> HIDE DEF less
  <2>3. QED
    BY <2>1, <2>2, FirstReplaced
<1>4. CASE op.what = "append"
  <2>1. op.categories \in Categories
    BY <1>4 DEF Operation
  <2>2. Apply(op, cats) = cats \o op.categories
    BY <1>4 DEF Apply
  <2>3. QED
    BY <2>1, <2>2, CategoriesAfter
<1>5. op.what \in {"add", "delete", "append"}
  BY DEF Operation
<1>6. QED
  BY <1>2, <1>3, <1>4, <1>5

\* A loaded list has a category, and with the others it makes categories.
LEMMA LoadedTypes ==
    ASSUME NEW f \in Categories \cup {torn}
    PROVE  /\ load_user_preset_set(f) \in Categories \ {<<>>}
           /\ \A dyn \in Categories : dyn \o Default \o load_user_preset_set(f) \in Categories
           /\ Fresh(f) \in Categories /\ <<>> \o Default \o load_user_preset_set(f) = Fresh(f)
           /\ f \in Categories \ {<<>>} => load_user_preset_set(f) = f
<1> DEFINE e == <<>>
           one == <<e>>
<1>1. one \in Categories \ {<<>>}
  <2>1. e \in Seq(Values)
    OBVIOUS
  <2> HIDE DEF e
  <2>2. one \in Seq(Seq(Values)) /\ one # <<>>
    BY <2>1
  <2>3. QED
    BY <2>2 DEF Categories
<1>2. load_user_preset_set(f) = IF f \in {torn, <<>>} THEN one ELSE f
  BY DEF load_user_preset_set
<1> HIDE DEF one
<1>3. load_user_preset_set(f) \in Categories \ {<<>>}
  BY <1>1, <1>2
<1>4. f \in Categories \ {<<>>} => load_user_preset_set(f) = f
  BY <1>2, PresetsAssumption
<1> DEFINE l == load_user_preset_set(f)
<1> HIDE DEF l
<1>5. l \in Categories
  BY <1>3 DEF l
<1>6. ASSUME NEW dyn \in Categories PROVE dyn \o Default \o l \in Categories
  <2>1. dyn \o Default \in Categories
    BY PresetsAssumption, CategoriesAfter
  <2>2. QED
    BY <1>5, <2>1, CategoriesAfter
<1>7. Default \o l \in Categories
  BY <1>5, PresetsAssumption, CategoriesAfter
<1>8. <<>> \o Default = Default
  BY PresetsAssumption, ConcatEmptySeq DEF Categories
<1>9. QED
  BY <1>3, <1>4, <1>6, <1>7, <1>8 DEF l, Fresh

\* Adding, deleting and appending save an operation applied to the list, or fail to.
LEMMA SavesAnOperation ==
    ASSUME PresetsTypes, NEW c \in Control,
           \/ \E cells \in SUBSET Cell : append_user_preset(c, cells)
           \/ \E index \in 1..MaxItems : delete_user_preset(c, index)
           \/ \E new \in Import : append_user_preset_set(c, new)
    PROVE  /\ phase[c] \in {"add", "delete", "append"}
           /\ \/ save_fails(c)
              \/ \E op \in Operation : save_user_preset_set(c, op, Apply(op, user[c]))
<1>1. user[c] \in Categories \ {<<>>} /\ sheet[c] \in [Cell -> Setting]
  BY DEF PresetsTypes
<1>2. ASSUME NEW cells \in SUBSET Cell, append_user_preset(c, cells)
      PROVE  /\ phase[c] = "add"
             /\ save_fails(c)
                \/ \E op \in Operation : save_user_preset_set(c, op, Apply(op, user[c]))
  <2> DEFINE value == [k \in cells |-> sheet[c][k]]
             op == [what |-> "add", value |-> value]
  <2>1. value \in Values
    BY <1>1, ValueFacts
  <2>2. phase[c] = "add" /\ (save_user_preset_set(c, op, Apply(op, user[c])) \/ save_fails(c))
    BY <1>2 DEF append_user_preset
  <2> HIDE DEF value
  <2>3. op \in Operation
    BY <2>1 DEF Operation
  <2> HIDE DEF op
  <2>4. QED
    BY <2>2, <2>3
<1>3. ASSUME NEW index \in 1..MaxItems, delete_user_preset(c, index)
      PROVE  /\ phase[c] = "delete"
             /\ save_fails(c)
                \/ \E op \in Operation : save_user_preset_set(c, op, Apply(op, user[c]))
  <2> DEFINE first == user[c][1]
             value == first[index]
             op == [what |-> "delete", index |-> index, value |-> value]
  <2>1. first \in Seq(Values)
    <3>1. <<>> \in Seq(Values)
      OBVIOUS
    <3>2. QED
      BY <1>1, <3>1, FirstReplaced
  <2>2. /\ phase[c] = "delete" /\ index \in DOMAIN first
        /\ \/ save_user_preset_set(c, op, [user[c] EXCEPT ![1] = RemoveAt(first, index)])
           \/ save_fails(c)
    BY <1>3 DEF delete_user_preset
  <2>3. value \in Values /\ index \in Nat
    BY <2>1, <2>2, ElementOfSeq
  <2>4. op \in Operation
    <3> HIDE DEF value
    <3>1. QED
      BY <2>3 DEF Operation
  <2>5. op.what = "delete" /\ op.index = index /\ op.value = value
    OBVIOUS
  <2>6. Apply(op, user[c]) = [user[c] EXCEPT ![1] = RemoveAt(first, index)]
    <3> HIDE DEF op
    <3>1. Apply(op, user[c]) =
            [user[c] EXCEPT ![1] = IF op.index \in DOMAIN first /\ first[op.index] = op.value
                                   THEN RemoveAt(first, op.index)
                                   ELSE RemoveFirst(first, op.value)]
      BY <2>5 DEF Apply
    <3>2. QED
      BY <2>2, <2>5, <3>1
  <2> HIDE DEF op, first
  <2>7. QED
    BY <2>2, <2>4, <2>6
<1>4. ASSUME NEW new \in Import, append_user_preset_set(c, new)
      PROVE  /\ phase[c] = "append"
             /\ save_fails(c)
                \/ \E op \in Operation : save_user_preset_set(c, op, Apply(op, user[c]))
  <2> DEFINE op == [what |-> "append", categories |-> new]
  <2>1. phase[c] = "append" /\ (save_user_preset_set(c, op, Apply(op, user[c])) \/ save_fails(c))
    BY <1>4 DEF append_user_preset_set
  <2>2. op \in Operation
    BY PresetsAssumption DEF Operation
  <2> HIDE DEF op
  <2>3. QED
    BY <2>1, <2>2
<1>5. QED
  BY <1>2, <1>3, <1>4

\* The other variables: the file, the lists, and what is being saved.
Keeps ==
    /\ file \in Categories \cup {torn} /\ user \in [Control -> Categories \ {<<>>}]
    /\ dynamic \in [Control -> Categories] /\ state_cell \in [Control -> Seq(Values)]
    /\ phase \in [Control -> {"idle", "add", "delete", "append", "saving"}]
    /\ saved \in [Control -> Operation \cup {nothing}]
    /\ \A c \in Control : phase[c] = "saving" => saved[c] \in Operation
    /\ kept \in Categories \ {<<>>} /\ lost \in BOOLEAN

\* The two make the invariant.
LEMMA InvariantInTwo == PresetsInv <=> Shows /\ Keeps
  BY DEF PresetsInv, PresetsTypes, Shows, Keeps

\* A change of the sheet, by the user, another widget, or a preset imbued.
LEMMA SheetStep ==
    ASSUME PresetsInv, NEW c \in Control, NEW s \in [Cell -> Setting],
           NEW cat \in popup_t(Seq(Values)), NEW menu \in popup_t(Values),
           cat.items = composite[c],
           s = sheet[c] => AgreesWith(menu.last, s) /\ AgreesWith(menu.shown, s),
           SetSheet(c, s, cat, menu), UNCHANGED list_vars
    PROVE  Shows'
<1>1. Displays(c, s, cat.items) /\ sheet' = [sheet EXCEPT ![c] = s]
  BY SheetFollows
<1>2. composite' = [composite EXCEPT ![c] = composite[c]] /\ composite[c] \in Categories
  BY DEF list_vars, PresetsInv, PresetsTypes
<1>3. QED
  BY <1>1, <1>2, ShowsNext

\* What an idle control shows is fit to be shown.
LEMMA ShownNow ==
    ASSUME PresetsInv, NEW c \in Control
    PROVE  /\ category[c] \in popup_t(Seq(Values)) /\ popup[c] \in popup_t(Values)
           /\ category[c].items = composite[c] /\ composite[c] \in Categories
           /\ sheet[c] \in [Cell -> Setting] /\ last[c] = sheet[c]
           /\ AgreesWith(popup[c].last, sheet[c]) /\ AgreesWith(popup[c].shown, sheet[c])
           /\ \A s : AgreesWith(custom, s)
  BY DEF PresetsInv, PresetsTypes, Follows, AgreesWith

\* Another widget changes the sheet.
LEMMA ChangeStep ==
    ASSUME PresetsInv, NEW c \in Control, NEW s \in [Cell -> Setting], change(c, s)
    PROVE  Shows' /\ Keeps'
<1>1. SetSheet(c, s, category[c], popup[c]) /\ s # sheet[c] /\ UNCHANGED list_vars
  BY DEF change
<1>2. Shows'
  BY <1>1, ShownNow, SheetStep
<1>3. Keeps'
  BY InvariantInTwo DEF change, Keeps, list_vars
<1>4. QED
  BY <1>2, <1>3

\* A preset is chosen.
LEMMA ImbueStep ==
    ASSUME PresetsInv, NEW c \in Control, NEW v \in Values, do_imbue(c, v)
    PROVE  Shows' /\ Keeps'
<1> DEFINE s == Imbued(v, sheet[c])
           menu == Picked(popup[c], v)
<1>1. v \in ToSet(popup[c].items) /\ SetSheet(c, s, category[c], menu) /\ UNCHANGED list_vars
  BY DEF do_imbue, imbue_preset
<1>2. s \in [Cell -> Setting] /\ AgreesWith(v, s)
  BY ShownNow, ValueFacts
<1>3. menu \in popup_t(Values) /\ menu.last = popup[c].last /\ menu.shown = v
  BY <1>1, ShownNow, PopupFacts
<1> HIDE DEF s, menu
<1>4. s = sheet[c] => AgreesWith(menu.last, s) /\ AgreesWith(menu.shown, s)
  BY <1>2, <1>3, ShownNow
<1>5. Shows'
  BY <1>1, <1>2, <1>3, <1>4, ShownNow, SheetStep
<1>6. Keeps'
  BY InvariantInTwo DEF do_imbue, Keeps, list_vars
<1>7. QED
  BY <1>5, <1>6

\* A category is chosen.
LEMMA ChooseStep ==
    ASSUME PresetsInv, NEW c \in Control, NEW items \in ToSet(composite[c]),
           choose_category(c, items)
    PROVE  Shows' /\ Keeps'
<1> DEFINE cat == Displayed(category[c], items)
           picked == Picked(category[c], items)
           menu == Reset(popup[c], items)
           s == Imbued(items[1], sheet[c])
<1>1. UNCHANGED list_vars /\ state_cell' = [state_cell EXCEPT ![c] = items]
  BY DEF choose_category
<1>2. items \in Seq(Values)
  BY ShownNow, ToSetOf DEF Categories
<1>3. /\ cat \in popup_t(Seq(Values)) /\ cat.items = composite[c]
      /\ picked \in popup_t(Seq(Values)) /\ picked.items = composite[c]
  <2> DEFINE p == category[c]
  <2>1. p \in popup_t(Seq(Values)) /\ p.items = composite[c] /\ items \in ToSet(p.items)
    BY ShownNow
  <2> HIDE DEF p
  <2>2. Displayed(p, items) \in popup_t(Seq(Values)) /\ Displayed(p, items).items = p.items
    BY <1>2, <2>1, PopupFacts
  <2>3. Picked(p, items) \in popup_t(Seq(Values)) /\ Picked(p, items).items = p.items
    BY <2>1, PopupFacts
  <2>4. QED
    BY <2>1, <2>2, <2>3 DEF p
<1>4. menu \in popup_t(Values) /\ menu.last = popup[c].last /\ menu.shown \in {popup[c].last, custom}
  BY <1>2, ShownNow, PopupFacts
<1>5. AgreesWith(menu.last, sheet[c]) /\ AgreesWith(menu.shown, sheet[c])
  BY <1>4, ShownNow
<1>6. items # <<>> => items[1] \in Values
  <2>1. ASSUME items # <<>> PROVE 1 \in 1..Len(items)
    BY <1>2, <2>1, EmptySeq
  <2>2. QED
    BY <1>2, <2>1, ElementOfSeq
<1>7. items # <<>> => s \in [Cell -> Setting]
  BY <1>6, ShownNow, ValueFacts
<1>8. \/ SetSheet(c, sheet[c], picked, popup[c])
      \/ SetSheet(c, sheet[c], cat, menu)
      \/ items # <<>> /\ SetSheet(c, s, cat, menu)
  BY DEF choose_category, imbue_preset
<1> HIDE DEF cat, picked, menu, s
<1>9. Shows'
  <2>1. CASE SetSheet(c, sheet[c], picked, popup[c])
    BY <1>1, <1>3, <2>1, ShownNow, SheetStep
  <2>2. CASE SetSheet(c, sheet[c], cat, menu)
    BY <1>1, <1>3, <1>4, <1>5, <2>2, ShownNow, SheetStep
  <2>3. CASE items # <<>> /\ SetSheet(c, s, cat, menu)
    BY <1>1, <1>3, <1>4, <1>5, <1>7, <2>3, SheetStep
  <2>4. QED
    BY <1>8, <2>1, <2>2, <2>3
<1>10. Keeps'
  <2>1. (state_cell \in [Control -> Seq(Values)])'
    BY <1>1, <1>2, InvariantInTwo DEF Keeps
  <2>2. QED
    BY <2>1, InvariantInTwo DEF choose_category, Keeps, list_vars
<1>11. QED
  BY <1>9, <1>10

\* The list is loaded: what is shown follows, and the lists are the file's.
LEMMA ReloadStep ==
    ASSUME PresetsInv, NEW c \in Control, NEW f \in Categories \cup {torn},
           NEW dyn \in Categories, reload_preset_widget(c, f, dyn), UNCHANGED sheet
    PROVE  /\ Shows'
           /\ user' = [user EXCEPT ![c] = load_user_preset_set(f)]
           /\ dynamic' = [dynamic EXCEPT ![c] = dyn]
           /\ composite' = [composite EXCEPT ![c] = dyn \o Default \o load_user_preset_set(f)]
           /\ (user \in [Control -> Categories \ {<<>>}])'
           /\ (dynamic \in [Control -> Categories])'
<1> DEFINE all == dyn \o Default \o load_user_preset_set(f)
           cat == Reset(category[c], all)
<1>1. /\ user' = [user EXCEPT ![c] = load_user_preset_set(f)]
      /\ dynamic' = [dynamic EXCEPT ![c] = dyn]
      /\ composite' = [composite EXCEPT ![c] = all]
      /\ display(c, last[c], cat, popup[c])
  BY DEF reload_preset_widget
<1>2. all \in Categories /\ load_user_preset_set(f) \in Categories \ {<<>>}
  BY LoadedTypes
<1> HIDE DEF all
<1>3. cat \in popup_t(Seq(Values)) /\ cat.items = all
  BY <1>2, ShownNow, PopupFacts DEF Categories
<1> HIDE DEF cat
<1>4. Displays(c, last[c], all)
  BY <1>1, <1>3, ShownNow, DisplayFollows
<1>5. sheet' = [sheet EXCEPT ![c] = last[c]] /\ last[c] \in [Cell -> Setting]
  BY ShownNow DEF PresetsInv, PresetsTypes
<1>6. Shows'
  BY <1>1, <1>2, <1>4, <1>5, ShowsNext
<1>7. (user \in [Control -> Categories \ {<<>>}])' /\ (dynamic \in [Control -> Categories])'
  BY <1>1, <1>2, InvariantInTwo DEF Keeps
<1>8. QED
  BY <1>1, <1>6, <1>7 DEF all

\* The additional presets change.
LEMMA AdditionalStep ==
    ASSUME PresetsInv, NEW c \in Control, NEW dyn \in Additional,
           display_additional_preset_set(c, dyn)
    PROVE  Shows' /\ Keeps'
<1>1. /\ reload_preset_widget(c, file, dyn)
      /\ UNCHANGED <<file, sheet, state_cell, phase, saved, kept, lost>>
  BY DEF display_additional_preset_set
<1>2. file \in Categories \cup {torn} /\ dyn \in Categories
  BY PresetsAssumption, InvariantInTwo DEF Keeps
<1>3. /\ Shows' /\ (user \in [Control -> Categories \ {<<>>}])'
      /\ (dynamic \in [Control -> Categories])'
  BY <1>1, <1>2, ReloadStep
<1>4. Keeps'
  BY <1>1, <1>3, InvariantInTwo DEF Keeps
<1>5. QED
  BY <1>3, <1>4

\* A dialog is opened or cancelled.
LEMMA PressStep ==
    ASSUME PresetsInv, NEW c \in Control,
           (\E dialog \in {"add", "delete", "append"} : press(c, dialog)) \/ cancel(c)
    PROVE  Shows' /\ Keeps'
<1>1. /\ \E d \in {"idle", "add", "delete", "append"} : phase' = [phase EXCEPT ![c] = d]
      /\ UNCHANGED <<file, sheet, list_vars, popup_vars, state_cell, saved, kept, lost>>
  BY DEF press, cancel
<1>2. PICK d \in {"idle", "add", "delete", "append"} : phase' = [phase EXCEPT ![c] = d]
  BY <1>1
<1>3. Shows'
  BY <1>1, InvariantInTwo DEF Shows, Follows, AgreesWith, list_vars, popup_vars
<1>4. (phase \in [Control -> {"idle", "add", "delete", "append", "saving"}])'
  BY <1>2, InvariantInTwo DEF Keeps
<1>5. (\A x \in Control : phase[x] = "saving" => saved[x] \in Operation)'
  BY <1>1, <1>2, InvariantInTwo DEF Keeps
<1>6. Keeps'
  BY <1>1, <1>4, <1>5, InvariantInTwo DEF Keeps, list_vars
<1>7. QED
  BY <1>3, <1>6

\* The file is opened, and so emptied.
LEMMA SavesStep ==
    ASSUME PresetsInv, NEW c \in Control, NEW op \in Operation,
           save_user_preset_set(c, op, Apply(op, user[c]))
    PROVE  Shows' /\ Keeps'
<1> DEFINE list == Apply(op, user[c])
<1>1. /\ file' = torn /\ user' = [user EXCEPT ![c] = list]
      /\ saved' = [saved EXCEPT ![c] = op] /\ phase' = [phase EXCEPT ![c] = "saving"]
      /\ UNCHANGED <<sheet, dynamic, composite, popup_vars, state_cell, kept, lost>>
  BY DEF save_user_preset_set
<1>2. list \in Categories \ {<<>>}
  BY InvariantInTwo, ApplyTypes DEF Keeps
<1> HIDE DEF list
<1>3. Shows'
  BY <1>1, InvariantInTwo DEF Shows, Follows, AgreesWith, popup_vars
<1>4. (user \in [Control -> Categories \ {<<>>}])'
  BY <1>1, <1>2, InvariantInTwo DEF Keeps
<1>5. /\ (phase \in [Control -> {"idle", "add", "delete", "append", "saving"}])'
      /\ (saved \in [Control -> Operation \cup {nothing}])'
  BY <1>1, InvariantInTwo DEF Keeps
<1>6. (\A x \in Control : phase[x] = "saving" => saved[x] \in Operation)'
  BY <1>1, InvariantInTwo DEF Keeps
<1>7. Keeps'
  BY <1>1, <1>4, <1>5, <1>6, InvariantInTwo DEF Keeps
<1>8. QED
  BY <1>3, <1>7

\* The file cannot be opened; the control goes back to what the file has.
LEMMA FailsStep ==
    ASSUME PresetsInv, NEW c \in Control, save_fails(c)
    PROVE  Shows' /\ Keeps'
<1>1. /\ reload_preset_widget(c, file, dynamic[c])
      /\ phase' = [phase EXCEPT ![c] = "idle"]
      /\ UNCHANGED <<file, sheet, state_cell, saved, kept, lost>>
  BY DEF save_fails
<1>2. file \in Categories \cup {torn} /\ dynamic[c] \in Categories
  BY InvariantInTwo DEF Keeps
<1>3. /\ Shows' /\ (user \in [Control -> Categories \ {<<>>}])'
      /\ (dynamic \in [Control -> Categories])'
  BY <1>1, <1>2, ReloadStep
<1>4. /\ (phase \in [Control -> {"idle", "add", "delete", "append", "saving"}])'
      /\ (\A x \in Control : phase[x] = "saving" => saved[x] \in Operation)'
  BY <1>1, InvariantInTwo DEF Keeps
<1>5. Keeps'
  BY <1>1, <1>3, <1>4, InvariantInTwo DEF Keeps
<1>6. QED
  BY <1>3, <1>5

\* The list is written, and the control refreshed.
LEMMA WrittenStep ==
    ASSUME PresetsInv, NEW c \in Control, write_user_preset_set(c)
    PROVE  Shows' /\ Keeps'
<1>1. /\ phase[c] = "saving" /\ file' = user[c]
      /\ kept' = IF lost THEN kept ELSE Apply(saved[c], kept)
      /\ reload_preset_widget(c, user[c], dynamic[c])
      /\ phase' = [phase EXCEPT ![c] = "idle"] /\ saved' = [saved EXCEPT ![c] = nothing]
      /\ UNCHANGED <<sheet, state_cell, lost>>
  BY DEF write_user_preset_set
<1>2. user[c] \in Categories \ {<<>>} /\ dynamic[c] \in Categories
  BY InvariantInTwo DEF Keeps
<1>3. /\ Shows' /\ (user \in [Control -> Categories \ {<<>>}])'
      /\ (dynamic \in [Control -> Categories])'
  BY <1>1, <1>2, ReloadStep
<1>4. /\ (phase \in [Control -> {"idle", "add", "delete", "append", "saving"}])'
      /\ (saved \in [Control -> Operation \cup {nothing}])'
      /\ (\A x \in Control : phase[x] = "saving" => saved[x] \in Operation)'
  BY <1>1, InvariantInTwo DEF Keeps
<1>5. (kept \in Categories \ {<<>>})'
  <2>1. saved[c] \in Operation /\ kept \in Categories \ {<<>>}
    BY <1>1, InvariantInTwo DEF Keeps
  <2>2. Apply(saved[c], kept) \in Categories \ {<<>>}
    BY <2>1, ApplyTypes
  <2>3. QED
    BY <1>1, <2>1, <2>2
<1>6. Keeps'
  BY <1>1, <1>2, <1>3, <1>4, <1>5, InvariantInTwo DEF Keeps
<1>7. QED
  BY <1>3, <1>6

\* The program dies and is started again.
LEMMA CrashStep ==
    ASSUME PresetsInv, NEW c \in Control, crash(c)
    PROVE  Shows' /\ Keeps'
<1>1. file \in Categories \cup {torn}
  BY InvariantInTwo DEF Keeps
<1> DEFINE e == <<>>
           one == <<e>>
           l == load_user_preset_set(file)
           all == Fresh(file)
<1>2. /\ phase' = [phase EXCEPT ![c] = "idle"] /\ saved' = [saved EXCEPT ![c] = nothing]
      /\ lost' = (lost \/ phase[c] = "saving")
      /\ user' = [user EXCEPT ![c] = l] /\ dynamic' = [dynamic EXCEPT ![c] = e]
      /\ composite' = [composite EXCEPT ![c] = all]
      /\ last' = [last EXCEPT ![c] = sheet[c]]
      /\ category' = [category EXCEPT ![c] = FreshCategory(file)]
      /\ popup' = [popup EXCEPT ![c] = FreshPopup]
      /\ state_cell' = [state_cell EXCEPT ![c] = e]
      /\ kept' = IF phase[c] = "saving" THEN one ELSE kept
      /\ UNCHANGED <<file, sheet>>
  BY DEF crash
<1>3. e \in Seq(Values) /\ e \in Categories
  BY DEF Categories
<1>4. one \in Categories \ {<<>>}
  <2> HIDE DEF e
  <2>1. one \in Seq(Seq(Values)) /\ one # <<>>
    BY <1>3
  <2>2. QED
    BY <2>1 DEF Categories
<1>5. l \in Categories \ {<<>>} /\ all \in Categories
  BY <1>1, LoadedTypes
<1>6. /\ FreshCategory(file) \in popup_t(Seq(Values)) /\ FreshCategory(file).items = all
      /\ FreshPopup \in popup_t(Values) /\ FreshPopup.last = custom /\ FreshPopup.shown = custom
  BY <1>3, <1>5 DEF FreshCategory, FreshPopup, popup_t, Categories
<1> HIDE DEF e, one, l, all
<1>7. Displays(c, sheet[c], all)
  BY <1>2, <1>6, ShownNow DEF Displays
<1>8. sheet' = [sheet EXCEPT ![c] = sheet[c]]
  BY <1>2, InvariantInTwo DEF Shows
<1>9. Shows'
  BY <1>2, <1>5, <1>7, <1>8, ShownNow, ShowsNext
<1>10. /\ (user \in [Control -> Categories \ {<<>>}])' /\ (dynamic \in [Control -> Categories])'
       /\ (state_cell \in [Control -> Seq(Values)])'
  BY <1>2, <1>3, <1>5, InvariantInTwo DEF Keeps
<1>11. /\ (phase \in [Control -> {"idle", "add", "delete", "append", "saving"}])'
       /\ (saved \in [Control -> Operation \cup {nothing}])'
       /\ (\A x \in Control : phase[x] = "saving" => saved[x] \in Operation)'
  BY <1>2, InvariantInTwo DEF Keeps
<1>12. (kept \in Categories \ {<<>>})' /\ (lost \in BOOLEAN)'
  BY <1>2, <1>4, InvariantInTwo DEF Keeps
<1>13. Keeps'
  BY <1>2, <1>10, <1>11, <1>12, InvariantInTwo DEF Keeps
<1>14. QED
  BY <1>9, <1>13

\* Nothing has happened yet.
LEMMA PresetsStart == PresetsInit => PresetsInv
<1> SUFFICES ASSUME PresetsInit PROVE Shows /\ Keeps
  BY InvariantInTwo
<1> DEFINE e == <<>>
           l == load_user_preset_set(file)
<1>1. e \in Seq(Values) /\ e \in Categories
  BY DEF Categories
<1>2. file = e /\ file \in Categories \cup {torn}
  BY <1>1 DEF PresetsInit
<1>3. l \in Categories \ {<<>>} /\ Fresh(file) \in Categories
  BY <1>2, LoadedTypes
<1>4. /\ FreshCategory(file) \in popup_t(Seq(Values)) /\ FreshCategory(file).items = Fresh(file)
      /\ FreshPopup \in popup_t(Values) /\ FreshPopup.last = custom /\ FreshPopup.shown = custom
  BY <1>1, <1>3 DEF FreshCategory, FreshPopup, popup_t, Categories
<1>5. /\ sheet \in [Control -> [Cell -> Setting]] /\ last = sheet
      /\ user = [c \in Control |-> l] /\ dynamic = [c \in Control |-> e]
      /\ composite = [c \in Control |-> Fresh(file)]
      /\ category = [c \in Control |-> FreshCategory(file)]
      /\ popup = [c \in Control |-> FreshPopup]
      /\ state_cell = [c \in Control |-> e]
      /\ phase = [c \in Control |-> "idle"] /\ saved = [c \in Control |-> nothing]
      /\ kept = l /\ lost = FALSE
  BY DEF PresetsInit
<1> HIDE DEF e, l
<1>6. Shows
  BY <1>3, <1>4, <1>5 DEF Shows, Follows, AgreesWith
<1>7. Keeps
  BY <1>1, <1>2, <1>3, <1>5 DEF Keeps
<1>8. QED
  BY <1>6, <1>7

\* A step of a control keeps the invariant.
LEMMA PresetsStep == PresetsInv /\ [PresetsNext]_presets_vars => PresetsInv'
<1> SUFFICES ASSUME PresetsInv, [PresetsNext]_presets_vars PROVE Shows' /\ Keeps'
  BY DEF PresetsInv, PresetsTypes, Shows, Keeps
<1>1. CASE UNCHANGED presets_vars
  BY <1>1, InvariantInTwo DEF presets_vars, Shows, Follows, AgreesWith, Keeps
<1>2. CASE PresetsNext
  <2>1. PICK c \in Control :
          \/ \E s \in [Cell -> Setting] : change(c, s)
          \/ \E v \in Values : do_imbue(c, v)
          \/ \E items \in ToSet(composite[c]) : choose_category(c, items)
          \/ \E dyn \in Additional : display_additional_preset_set(c, dyn)
          \/ \E dialog \in {"add", "delete", "append"} : press(c, dialog)
          \/ cancel(c)
          \/ \E cells \in SUBSET Cell : append_user_preset(c, cells)
          \/ \E index \in 1..MaxItems : delete_user_preset(c, index)
          \/ \E new \in Import : append_user_preset_set(c, new)
          \/ write_user_preset_set(c) \/ crash(c)
    BY <1>2 DEF PresetsNext
  <2>2. ASSUME \/ \E cells \in SUBSET Cell : append_user_preset(c, cells)
               \/ \E index \in 1..MaxItems : delete_user_preset(c, index)
               \/ \E new \in Import : append_user_preset_set(c, new)
        PROVE  Shows' /\ Keeps'
    <3>1. save_fails(c) \/ \E op \in Operation : save_user_preset_set(c, op, Apply(op, user[c]))
      BY <2>2, SavesAnOperation DEF PresetsInv
    <3>2. QED
      BY <3>1, SavesStep, FailsStep
  <2>3. QED
    BY <2>1, <2>2, ChangeStep, ImbueStep, ChooseStep, AdditionalStep, PressStep, WrittenStep,
       CrashStep
<1>3. QED
  BY <1>1, <1>2

\* The variables of the presets hold what they should, and every control follows its sheet.
THEOREM PresetsInvariance == PresetsSpec => []PresetsInv
<1>1. QED
  BY PresetsStart, PresetsStep, PTL DEF PresetsSpec

\* A preset a popup shows is one the sheet agrees with.
THEOREM AgreesWithSheet == PresetsSpec => []NeverShowsWrong
<1>1. PresetsInv => NeverShowsWrong
  BY DEF PresetsInv, Follows, AgreesWith, NeverShowsWrong
<1>2. QED
  BY <1>1, PresetsInvariance, PTL

\* The list is the file's, and what is saved is what the operations make: between
\* them, and while one is being written over the file.
Kept ==
    \A c \in Control :
        /\ phase[c] # "saving" =>
              /\ user[c] = load_user_preset_set(file)
              /\ composite[c] = dynamic[c] \o Default \o load_user_preset_set(file)
        /\ ~lost => IF phase[c] = "saving" THEN user[c] = Apply(saved[c], kept)
                    ELSE load_user_preset_set(file) = kept

\* What one control with the file to itself keeps besides.
KeptInv == PresetsInv /\ Kept

\* What Kept says of the only control there is.
LEMMA OnlyControl ==
    ASSUME PresetsInv, NEW c, Control = {c}
    PROVE  /\ c \in Control
           /\ file \in Categories \cup {torn} /\ user[c] \in Categories \ {<<>>}
           /\ dynamic[c] \in Categories
           /\ DOMAIN user = Control /\ DOMAIN dynamic = Control /\ DOMAIN composite = Control
           /\ DOMAIN phase = Control /\ DOMAIN saved = Control
  BY DEF PresetsInv, PresetsTypes

\* The list is reloaded from the file, which is what it was or what has been written.
LEMMA ReloadKeeps ==
    ASSUME KeptInv, NEW c, Control = {c}, NEW f \in Categories \cup {torn}, NEW dyn \in Categories,
           reload_preset_widget(c, f, dyn), UNCHANGED sheet
    PROVE  /\ (user[c])' = load_user_preset_set(f)
           /\ (composite[c])' = (dynamic[c])' \o Default \o load_user_preset_set(f)
<1>1. /\ user' = [user EXCEPT ![c] = load_user_preset_set(f)]
      /\ dynamic' = [dynamic EXCEPT ![c] = dyn]
      /\ composite' = [composite EXCEPT ![c] = dyn \o Default \o load_user_preset_set(f)]
  BY OnlyControl, ReloadStep DEF KeptInv
<1> DEFINE l == load_user_preset_set(f)
           all == dyn \o Default \o l
<1>2. user'[c] = l /\ dynamic'[c] = dyn /\ composite'[c] = all
  <2> HIDE DEF l
  <2>1. QED
    BY <1>1, OnlyControl DEF KeptInv, l
<1>3. QED
  BY <1>2

\* A step of the only control keeps it.
LEMMA KeptStep ==
    ASSUME NEW c, Control = {c}, KeptInv, [PresetsNext]_presets_vars
    PROVE  Kept'
<1> DEFINE Before ==
               /\ phase[c] # "saving" =>
                     /\ user[c] = load_user_preset_set(file)
                     /\ composite[c] = dynamic[c] \o Default \o load_user_preset_set(file)
               /\ ~lost => IF phase[c] = "saving" THEN user[c] = Apply(saved[c], kept)
                           ELSE load_user_preset_set(file) = kept
<1>1. Before
  BY DEF KeptInv, Kept
<1> SUFFICES Before'
  BY DEF Kept
<1>2. CASE UNCHANGED presets_vars
  BY <1>1, <1>2 DEF presets_vars
<1>3. ASSUME UNCHANGED <<file, user, dynamic, composite, saved, kept, lost>>,
             (phase[c])' = "saving" <=> phase[c] = "saving"
      PROVE  Before'
  BY <1>1, <1>3
<1>4. ASSUME UNCHANGED <<file, list_vars, phase, saved, kept, lost>> PROVE Before'
  BY <1>3, <1>4 DEF list_vars
<1>5. ASSUME (\E dialog \in {"add", "delete", "append"} : press(c, dialog)) \/ cancel(c)
      PROVE  Before'
  <2>1. /\ \E d \in {"idle", "add", "delete", "append"} : phase' = [phase EXCEPT ![c] = d]
        /\ phase[c] # "saving" /\ UNCHANGED <<file, list_vars, saved, kept, lost>>
    BY <1>5 DEF press, cancel, Idle
  <2>2. (phase[c])' # "saving"
    BY <2>1, OnlyControl DEF KeptInv
  <2>3. QED
    BY <1>3, <2>1, <2>2 DEF list_vars
<1>6. ASSUME NEW dyn \in Additional, display_additional_preset_set(c, dyn) PROVE Before'
  <2>1. /\ reload_preset_widget(c, file, dyn) /\ phase[c] # "saving"
        /\ UNCHANGED <<file, sheet, state_cell, phase, saved, kept, lost>>
    BY <1>6 DEF display_additional_preset_set, Idle
  <2>2. /\ (user[c])' = load_user_preset_set(file)
        /\ (composite[c])' = (dynamic[c])' \o Default \o load_user_preset_set(file)
    BY <2>1, OnlyControl, ReloadKeeps, PresetsAssumption DEF KeptInv
  <2>3. QED
    BY <1>1, <2>1, <2>2
<1>7. ASSUME phase[c] # "saving", save_fails(c) PROVE Before'
  <2>1. /\ reload_preset_widget(c, file, dynamic[c])
        /\ phase' = [phase EXCEPT ![c] = "idle"]
        /\ UNCHANGED <<file, sheet, state_cell, saved, kept, lost>>
    BY <1>7 DEF save_fails
  <2>2. /\ (user[c])' = load_user_preset_set(file)
        /\ (composite[c])' = (dynamic[c])' \o Default \o load_user_preset_set(file)
    BY <2>1, OnlyControl, ReloadKeeps DEF KeptInv
  <2>3. (phase[c])' = "idle"
    BY <2>1, OnlyControl DEF KeptInv
  <2>4. QED
    BY <1>1, <1>7, <2>1, <2>2, <2>3
<1>8. ASSUME NEW op \in Operation, phase[c] # "saving",
             save_user_preset_set(c, op, Apply(op, user[c]))
      PROVE  Before'
  <2>1. /\ user' = [user EXCEPT ![c] = Apply(op, user[c])]
        /\ saved' = [saved EXCEPT ![c] = op] /\ phase' = [phase EXCEPT ![c] = "saving"]
        /\ UNCHANGED <<kept, lost>>
    BY <1>8 DEF save_user_preset_set
  <2> DEFINE list == Apply(op, user[c])
  <2>2. (user[c])' = list /\ (saved[c])' = op /\ (phase[c])' = "saving"
    <3> HIDE DEF list
    <3>1. QED
      BY <2>1, OnlyControl DEF KeptInv, list
  <2>3. ~lost => user[c] = kept
    BY <1>1, <1>8
  <2>4. QED
    BY <2>1, <2>2, <2>3
<1>9. ASSUME write_user_preset_set(c) PROVE Before'
  <2>1. /\ phase[c] = "saving" /\ file' = user[c]
        /\ kept' = IF lost THEN kept ELSE Apply(saved[c], kept)
        /\ reload_preset_widget(c, user[c], dynamic[c])
        /\ phase' = [phase EXCEPT ![c] = "idle"]
        /\ UNCHANGED <<sheet, state_cell, lost>>
    BY <1>9 DEF write_user_preset_set
  <2>2. (phase[c])' = "idle"
    BY <2>1, OnlyControl DEF KeptInv
  <2>3. /\ (user[c])' = load_user_preset_set(user[c])
        /\ (composite[c])' = (dynamic[c])' \o Default \o load_user_preset_set(user[c])
    BY <2>1, OnlyControl, ReloadKeeps DEF KeptInv
  <2>4. load_user_preset_set(user[c]) = user[c]
    BY OnlyControl, LoadedTypes DEF KeptInv
  <2>5. (load_user_preset_set(file))' = load_user_preset_set(user[c])
    BY <2>1 DEF load_user_preset_set
  <2>6. ~lost => kept' = user[c]
    BY <1>1, <2>1
  <2>7. QED
    BY <2>1, <2>2, <2>3, <2>4, <2>5, <2>6
<1>10. ASSUME crash(c) PROVE Before'
  <2> DEFINE l == load_user_preset_set(file)
             all == Fresh(file)
             e == <<>>
  <2>1. /\ phase' = [phase EXCEPT ![c] = "idle"]
        /\ lost' = (lost \/ phase[c] = "saving")
        /\ user' = [user EXCEPT ![c] = l] /\ dynamic' = [dynamic EXCEPT ![c] = e]
        /\ composite' = [composite EXCEPT ![c] = all]
        /\ kept' = IF phase[c] = "saving" THEN <<<<>>>> ELSE kept
        /\ file' = file
    BY <1>10 DEF crash
  <2>2. e \o Default \o l = all
    BY OnlyControl, LoadedTypes DEF KeptInv
  <2>3. /\ (phase[c])' = "idle" /\ (user[c])' = l /\ (dynamic[c])' = e
        /\ (composite[c])' = all
    <3> HIDE DEF l, all, e
    <3>1. QED
      BY <2>1, OnlyControl DEF KeptInv
  <2>4. (load_user_preset_set(file))' = l
    BY <2>1 DEF load_user_preset_set
  <2>5. ~lost' => phase[c] # "saving" /\ ~lost
    BY <2>1
  <2>6. ~lost' => l = kept /\ kept' = kept
    <3> HIDE DEF l, all, e
    <3>1. QED
      BY <1>1, <2>1, <2>5 DEF l
  <2> HIDE DEF l, all, e
  <2>7. (composite[c])' = (dynamic[c])' \o Default \o l
    BY <2>2, <2>3
  <2>8. QED
    BY <2>3, <2>4, <2>6, <2>7
<1>11. CASE PresetsNext
  <2>1. \/ \E s \in [Cell -> Setting] : change(c, s)
        \/ \E v \in Values : do_imbue(c, v)
        \/ \E items \in ToSet(composite[c]) : choose_category(c, items)
        \/ \E dyn \in Additional : display_additional_preset_set(c, dyn)
        \/ \E dialog \in {"add", "delete", "append"} : press(c, dialog)
        \/ cancel(c)
        \/ \E cells \in SUBSET Cell : append_user_preset(c, cells)
        \/ \E index \in 1..MaxItems : delete_user_preset(c, index)
        \/ \E new \in Import : append_user_preset_set(c, new)
        \/ write_user_preset_set(c) \/ crash(c)
    BY <1>11 DEF PresetsNext
  <2>2. ASSUME \/ \E cells \in SUBSET Cell : append_user_preset(c, cells)
               \/ \E index \in 1..MaxItems : delete_user_preset(c, index)
               \/ \E new \in Import : append_user_preset_set(c, new)
        PROVE  Before'
    <3>1. /\ phase[c] # "saving"
          /\ save_fails(c) \/ \E op \in Operation : save_user_preset_set(c, op, Apply(op, user[c]))
      BY <2>2, SavesAnOperation, OnlyControl DEF PresetsInv, KeptInv
    <3> HIDE DEF Before
    <3>2. QED
      BY <1>7, <1>8, <3>1
  <2>3. ASSUME \/ \E s \in [Cell -> Setting] : change(c, s)
               \/ \E v \in Values : do_imbue(c, v)
               \/ \E items \in ToSet(composite[c]) : choose_category(c, items)
        PROVE  UNCHANGED <<file, list_vars, phase, saved, kept, lost>>
    BY <2>3 DEF change, do_imbue, choose_category
  <2> HIDE DEF Before
  <2>4. QED
    BY <1>4, <1>5, <1>6, <1>9, <1>10, <2>1, <2>2, <2>3
<1>12. QED
  BY <1>2, <1>11

\* At the start there is no file, and nothing has been saved.
LEMMA KeptStart == PresetsInit => Kept
<1> SUFFICES ASSUME PresetsInit PROVE Kept
  OBVIOUS
<1> DEFINE e == <<>>
           l == load_user_preset_set(file)
<1>1. /\ user = [c \in Control |-> l] /\ dynamic = [c \in Control |-> e]
      /\ composite = [c \in Control |-> Fresh(file)]
      /\ phase = [c \in Control |-> "idle"] /\ kept = l
  BY DEF PresetsInit
<1>2. file \in Categories \cup {torn}
  BY DEF PresetsInit, Categories
<1>3. e \o Default \o l = Fresh(file)
  BY <1>2, LoadedTypes
<1> HIDE DEF e, l
<1>4. QED
  BY <1>1, <1>3 DEF Kept, l

\* The only control keeps it.
LEMMA KeptInvariance ==
    ASSUME NEW c, Control = {c}
    PROVE  PresetsSpec => []KeptInv
<1>1. PresetsInit => KeptInv
  BY PresetsStart, KeptStart DEF KeptInv
<1>2. KeptInv /\ [PresetsNext]_presets_vars => KeptInv'
  BY KeptStep, PresetsStep DEF KeptInv
<1>3. QED
  BY <1>1, <1>2, PTL DEF PresetsSpec

\* The presets of the only control of a file are those of the file.
THEOREM ListIsAlwaysFile ==
    ASSUME NEW c, Control = {c}
    PROVE  PresetsSpec => []ListIsFile
<1>1. KeptInv => ListIsFile
  BY DEF KeptInv, Kept, ListIsFile, Idle
<1>2. QED
  BY <1>1, KeptInvariance, PTL

\* With one control, what the operations saved make is what the file holds, unless
\* the program died while it saved.
THEOREM PresetsAlwaysPreserved ==
    ASSUME NEW c, Control = {c}
    PROVE  PresetsSpec => []PresetsPreserved
<1>1. KeptInv => PresetsPreserved
  BY DEF KeptInv, Kept, PresetsPreserved
<1>2. QED
  BY <1>1, KeptInvariance, PTL

------------------------------------------------------------------------------
(* edit_number_t *)

\* A finite set of integers has a least one: or one of the smallest sets without would
\* have a smaller one, without it.
LEMMA LeastOfFinite ==
    ASSUME NEW S, S \subseteq Int, S # {}, IsFiniteSet(S)
    PROVE  \E x \in S : \A y \in S : x <= y
<1> DEFINE Bad(A) == A \subseteq S /\ IsFiniteSet(A) /\ A # {} /\ ~\E x \in A : \A y \in A : x <= y
           Sizes == {n \in Nat : \E A \in SUBSET S : Bad(A) /\ Cardinality(A) = n}
<1> SUFFICES ASSUME Bad(S) PROVE FALSE
  OBVIOUS
<1>1. Cardinality(S) \in Sizes
  BY FS_CardinalityType
<1>2. PICK n \in Sizes : \A m \in Sizes : n <= m
  BY <1>1, LeastNat
<1>3. PICK A \in SUBSET S : Bad(A) /\ Cardinality(A) = n
  BY <1>2
<1>4. PICK a \in A : TRUE
  BY <1>3
<1>5. IsFiniteSet(A \ {a}) /\ Cardinality(A \ {a}) = n - 1
  BY <1>3, <1>4, FS_RemoveElement
<1>6. n - 1 \notin Sizes
  BY <1>2
<1>7. ~Bad(A \ {a})
  <2>1. Cardinality(A \ {a}) \in Nat
    BY <1>5, FS_CardinalityType
  <2>2. QED
    BY <2>1, <1>3, <1>5, <1>6
<1>8. CASE A \ {a} = {}
  BY <1>8, <1>3, <1>4
<1>9. CASE A \ {a} # {}
  <2>1. PICK x \in A \ {a} : \A y \in A \ {a} : x <= y
    BY <1>3, <1>5, <1>7, <1>9
  <2>2. a \in Int /\ x \in Int /\ A \subseteq Int
    BY <1>3, <1>4
  <2>3. CASE a <= x
    <3>1. \A y \in A : a <= y
      BY <2>1, <2>2, <2>3
    <3>2. QED
      BY <1>3, <1>4, <3>1
  <2>4. CASE x <= a
    <3>1. \A y \in A : x <= y
      BY <2>1, <2>2, <2>4
    <3>2. QED
      BY <1>3, <2>1, <3>1
  <2>5. QED
    BY <2>2, <2>3, <2>4
<1>10. QED
  BY <1>8, <1>9

\* It has a greatest one, the least of their opposites.
LEMMA GreatestOfFinite ==
    ASSUME NEW S, S \subseteq Int, S # {}, IsFiniteSet(S)
    PROVE  \E x \in S : \A y \in S : x >= y
<1> DEFINE f == [x \in S |-> -x]
           T == {f[x] : x \in S}
<1>1. T \subseteq Int /\ T # {}
  <2>1. \A x \in S : f[x] \in Int
    OBVIOUS
  <2>2. QED
    BY <2>1
<1>2. f \in Surjection(S, T)
  BY DEF Surjection
<1>3. IsFiniteSet(T)
  BY <1>2, FS_Surjection
<1>4. PICK t \in T : \A y \in T : t <= y
  BY <1>1, <1>3, LeastOfFinite
<1>5. PICK x \in S : t = f[x]
  BY <1>4
<1>6. \A y \in S : f[y] \in T /\ t <= f[y]
  BY <1>4
<1>7. \A y \in S : x >= y
  BY <1>5, <1>6
<1>8. QED
  BY <1>7

\* The limits of a cell are integers, if they are stated.
LEMMA LimitTypes ==
    ASSUME NEW c
    PROVE  min_m(c) \in Int \cup {unset} /\ max_m(c) \in Int \cup {unset}
<1> DEFINE names == {n \in UnitName : Unit[n].base_unit = c}
           lows  == {u.min_value : u \in base_unit_set(c)} \ {unset}
           highs == {u.max_value : u \in base_unit_set(c)} \ {unset}
<1>1. /\ Unit \in [UnitName -> unit_t] /\ IsFiniteSet(UnitName)
      /\ \A n \in UnitName : /\ Unit[n].min_value \in Int \cup {unset}
                             /\ Unit[n].max_value \in Int \cup {unset}
  BY UnitAssumption DEF unit_t
<1>2. lows \subseteq Int /\ IsFiniteSet(lows)
  <2> DEFINE from == {n \in names : Unit[n].min_value # unset}
             f == [n \in from |-> Unit[n].min_value]
  <2>1. f \in Surjection(from, lows)
    BY <1>1 DEF Surjection, base_unit_set
  <2>2. IsFiniteSet(from)
    BY <1>1, FS_Subset
  <2>3. QED
    <3>1. IsFiniteSet(lows)
      BY <2>1, <2>2, FS_Surjection
    <3>2. lows \subseteq Int
      BY <1>1 DEF base_unit_set
    <3>3. QED
      BY <3>1, <3>2
<1>3. highs \subseteq Int /\ IsFiniteSet(highs)
  <2> DEFINE from == {n \in names : Unit[n].max_value # unset}
             f == [n \in from |-> Unit[n].max_value]
  <2>1. f \in Surjection(from, highs)
    BY <1>1 DEF Surjection, base_unit_set
  <2>2. IsFiniteSet(from)
    BY <1>1, FS_Subset
  <2>3. QED
    <3>1. IsFiniteSet(highs)
      BY <2>1, <2>2, FS_Surjection
    <3>2. highs \subseteq Int
      BY <1>1 DEF base_unit_set
    <3>3. QED
      BY <3>1, <3>2
<1>4. min_m(c) = IF lows = {} THEN unset ELSE Min(lows)
  BY DEF min_m
<1>5. max_m(c) = IF highs = {} THEN unset ELSE Max(highs)
  BY DEF max_m
<1> HIDE DEF lows, highs
<1>6. lows # {} => Min(lows) \in Int
  BY <1>2, LeastOfFinite DEF Min
<1>7. highs # {} => Max(highs) \in Int
  BY <1>3, GreatestOfFinite DEF Max
<1>8. QED
  BY <1>4, <1>5, <1>6, <1>7

\* What the units compute is an integer.
LEMMA UnitArithmetic ==
    ASSUME NEW n \in UnitName
    PROVE  /\ Unit[n].base_unit \in BaseUnit /\ Unit[n].format \in Int /\ Unit[n].format > 0
           /\ Unit[n].scale \in Int /\ Unit[n].increment \in Int
           /\ \A text \in Int : to_pinned_base_value(text, Unit[n]) \in Int
           /\ \A base, format \in Int : format > 0 => Formatted(base, Unit[n], format) \in Int
           /\ \A base \in Int : Shown(Unit[n], base) \in Int
<1> DEFINE u == Unit[n]
<1>1. /\ u.base_unit \in BaseUnit /\ u.format \in Int /\ u.format > 0 /\ u.increment \in Int
      /\ u.scale \in Int /\ u.scale > 0 /\ u.offset \in Int
  BY UnitAssumption DEF unit_t
<1> HIDE DEF u
<1>2. \A text \in Int : to_base_value(text, u) \in Int
  BY <1>1 DEF to_base_value
<1>3. \A text \in Int : to_pinned_base_value(text, u) \in Int
  <2> TAKE text \in Int
  <2>1. min_m(u.base_unit) \in Int \cup {unset} /\ max_m(u.base_unit) \in Int \cup {unset}
    BY LimitTypes
  <2> QED
    BY <2>1, <1>2 DEF to_pinned_base_value
<1>4. ASSUME NEW base \in Int, NEW format \in Int, format > 0
      PROVE  Formatted(base, u, format) \in Int
  <2> DEFINE num == 2 * (base + u.scale * u.offset) + u.scale * format
             den == 2 * u.scale * format
             half == u.scale * format
  <2>1. num \in Int
    BY <1>1
  <2>2. half \in Int /\ half > 0
    BY <1>1, <1>4
  <2>3. den = 2 * half
    BY <1>1
  <2>4. Formatted(base, u, format) = format * (num \div den)
    BY DEF Formatted
  <2> HIDE DEF num, den, half
  <2>5. den \in Int /\ den > 0
    BY <2>2, <2>3
  <2>6. num \div den \in Int
    BY <2>1, <2>5
  <2> DEFINE q == num \div den
  <2> HIDE DEF q
  <2>7. QED
    BY <2>4, <2>6 DEF q
<1>5. \A base \in Int : Shown(u, base) \in Int
  BY <1>1, <1>4 DEF Shown
<1>6. QED
  BY <1>1, <1>3, <1>4, <1>5 DEF u

\* The text is what the unit shows of the value, or what the user typed for it.
Agrees(text, u, base) ==
    \/ text = intermediate /\ base = 0
    \/ /\ text \in Int
       /\ text = Shown(u, base) \/ to_pinned_base_value(text, u) = base

\* A field whose text the widget was told of agrees with the value believed of the
\* selected unit's cell.
NumberInv ==
    /\ NumberTypes
    /\ edit_enabled = enabled_m[current_base_unit(unit)]
    /\ DebounceFollowsCells
    /\ ~edit_text.untold =>
          /\ edit_text.field = edit_text.value_m
          /\ Agrees(edit_text.field, unit, debounce_set_m[current_base_unit(unit)])

\* What the edit text is: its field, the value it told, and whether there is more to tell.
edit_text_t == [field : Int \cup {intermediate, junk}, value_m : Int \cup {intermediate},
                untold : BOOLEAN]

\* What the step promises of the field and of what is believed.
FieldStep ==
    /\ cell' \in [BaseUnit -> CellValue] /\ debounce_set_m' \in [BaseUnit -> Int]
    /\ edit_text' \in edit_text_t /\ format_m' \in Int /\ format_m' > 0
    /\ refused' \subseteq BaseUnit
    /\ \A c \in BaseUnit \ refused' : debounce_set_m'[c] = cell'[c]
    /\ ~edit_text'.untold =>
          /\ edit_text'.field = edit_text'.value_m
          /\ Agrees(edit_text'.field, unit', debounce_set_m'[current_base_unit(unit')])

\* The edit text stays one, and shows what it is told to display.
LEMMA FieldKept ==
    ASSUME NEW was \in edit_text_t, NEW text \in Int \cup {intermediate}
    PROVE  /\ Holding(text) \in edit_text_t
           /\ edit_text_display(text, was) \in edit_text_t
           /\ LET n == edit_text_display(text, was)
              IN  (~was.untold => was.field = was.value_m) /\ ~n.untold =>
                      n.field = text /\ n.value_m = text
BY UnitAssumption DEF edit_text_t, Holding, edit_text_display

\* The views: whatever the cells become.
LEMMA RefreshStep ==
    ASSUME NumberInv, unit_index_m' \in UnitName, cell' \in [BaseUnit -> CellValue],
           NEW believed \in [BaseUnit -> Int], NEW was \in edit_text_t, NEW told \in SUBSET BaseUnit,
           \A d \in BaseUnit \ told : believed[d] = debounce_set_m[d],
           ~was.untold => /\ was.field = was.value_m
                          /\ Agrees(was.field, unit', believed[current_base_unit(unit')]),
           refresh_view(believed, was, told)
    PROVE  FieldStep
<1> DEFINE u == Unit[unit_index_m']
           c == u.base_unit
           changed == {d \in BaseUnit : cell'[d] # cell[d]}
           shows_it == c \in changed /\ believed[c] # cell'[c]
           text == Shown(u, cell'[c])
<1>1. unit' = u /\ current_base_unit(u) = c
  BY DEF unit, current_base_unit
<1>2. /\ debounce_set_m' = [d \in BaseUnit |-> IF d \in changed THEN cell'[d] ELSE believed[d]]
      /\ refused' = {d \in refused \cup told : debounce_set_m'[d] # cell'[d]}
      /\ edit_text' = IF shows_it THEN edit_text_display(text, was) ELSE was
      /\ format_m' = IF shows_it THEN u.format ELSE format_m
  BY <1>1 DEF refresh_view
<1>3. CellValue \subseteq Int
  BY UnitAssumption
<1>4. debounce_set_m' \in [BaseUnit -> Int]
  BY <1>2, <1>3
<1>5. c \in BaseUnit /\ u.format \in Int /\ u.format > 0 /\ text \in Int
  BY <1>3, UnitArithmetic
<1>6. format_m \in Int /\ format_m > 0 /\ refused \subseteq BaseUnit
      /\ \A d \in BaseUnit \ refused : debounce_set_m[d] = cell[d]
  BY DEF NumberInv, NumberTypes, DebounceFollowsCells
<1>7. /\ edit_text_display(text, was) \in edit_text_t
      /\ ~edit_text_display(text, was).untold =>
             edit_text_display(text, was).field = text /\ edit_text_display(text, was).value_m = text
  BY <1>5, FieldKept
<1> HIDE DEF u
<1>8. edit_text' \in edit_text_t /\ format_m' \in Int /\ format_m' > 0 /\ refused' \subseteq BaseUnit
  BY <1>2, <1>5, <1>6, <1>7
<1>9. \A d \in BaseUnit \ refused' : debounce_set_m'[d] = cell'[d]
  BY <1>2, <1>6
<1>10. ~edit_text'.untold => /\ edit_text'.field = edit_text'.value_m
                             /\ Agrees(edit_text'.field, u, debounce_set_m'[c])
  <2>1. CASE shows_it
    <3>1. debounce_set_m'[c] = cell'[c]
      BY <1>2, <1>5, <2>1
    <3>2. Agrees(text, u, cell'[c])
      BY <1>5 DEF Agrees
    <3>3. QED
      BY <1>2, <1>7, <2>1, <3>1, <3>2
  <2>2. CASE ~shows_it
    <3>1. debounce_set_m'[c] = believed[c]
      BY <1>2, <1>5, <2>2
    <3>2. QED
      BY <1>1, <1>2, <2>2, <3>1
  <2>3. QED
    BY <2>1, <2>2
<1>11. QED
  BY <1>1, <1>4, <1>8, <1>9, <1>10 DEF FieldStep

\* A text becomes the cell's value.
LEMMA MonitorStep ==
    ASSUME NumberInv, unit_index_m' \in UnitName, NEW updated \in BOOLEAN,
           NEW was \in edit_text_t, NEW text \in Int \cup {intermediate, junk},
           updated => text = was.field,
           ~updated => /\ text \in Int /\ unit_index_m' = unit_index_m /\ was = edit_text,
           ~was.untold => was.field = was.value_m,
           monitor_text(text, updated, was)
    PROVE  FieldStep
<1>0. PICK number \in parse(text) :
        LET c == current_base_unit(unit')
            real == IF text = intermediate THEN 0 ELSE to_pinned_base_value(number, unit')
            told == IF updated \/ text = intermediate THEN {c} ELSE {}
        IN  IF debounce_set_m[c] = real
            THEN edit_text' = was /\ UNCHANGED <<cell, debounce_set_m, refused, format_m>>
            ELSE /\ sheet_set(c, real)
                 /\ refresh_view([d \in BaseUnit |-> IF d \in told THEN real ELSE debounce_set_m[d]],
                                 was, told)
  BY DEF monitor_text
<1> DEFINE u == Unit[unit_index_m']
           c == u.base_unit
           real == IF text = intermediate THEN 0 ELSE to_pinned_base_value(number, u)
           told == IF updated \/ text = intermediate THEN {c} ELSE {}
           believed == [d \in BaseUnit |-> IF d \in told THEN real ELSE debounce_set_m[d]]
<1>1. unit' = u /\ current_base_unit(u) = c
  BY DEF unit, current_base_unit
<1>2. IF debounce_set_m[c] = real
      THEN edit_text' = was /\ UNCHANGED <<cell, debounce_set_m, refused, format_m>>
      ELSE sheet_set(c, real) /\ refresh_view(believed, was, told)
  BY <1>0, <1>1
<1>3. c \in BaseUnit /\ real \in Int
  <2>1. c \in BaseUnit /\ \A t \in Int : to_pinned_base_value(t, u) \in Int
    BY UnitArithmetic
  <2>2. number \in Int
    BY <1>0, UnitAssumption DEF parse
  <2>3. QED
    BY <2>1, <2>2
<1>4. /\ cell \in [BaseUnit -> CellValue] /\ debounce_set_m \in [BaseUnit -> Int]
      /\ format_m \in Int /\ format_m > 0 /\ refused \subseteq BaseUnit
      /\ \A d \in BaseUnit \ refused : debounce_set_m[d] = cell[d]
  BY DEF NumberInv, NumberTypes, DebounceFollowsCells
<1>5. ~was.untold => was.value_m \in Int \cup {intermediate} /\ was.field = was.value_m
  BY DEF edit_text_t
<1>6. updated /\ ~was.untold => Agrees(was.field, u, real)
  <2>1. text \in Int => number = text
    BY <1>0, UnitAssumption DEF parse
  <2>2. QED
    BY <1>5, <2>1, UnitAssumption DEF Agrees
<1>7. ~updated /\ ~was.untold => Agrees(was.field, u, debounce_set_m[c])
  <2>1. ~updated => unit = u
    BY DEF unit
  <2>2. QED
    BY <1>1, <2>1 DEF NumberInv
<1>8. CASE debounce_set_m[c] = real
  <2>1. Agrees(was.field, u, debounce_set_m[c]) \/ was.untold
    BY <1>6, <1>7, <1>8
  <2>2. edit_text' = was /\ UNCHANGED <<cell, debounce_set_m, refused, format_m>>
    BY <1>2, <1>8
  <2> HIDE DEF u
  <2>3. QED
    BY <1>1, <1>4, <1>5, <2>1, <2>2 DEF FieldStep
<1>9. CASE debounce_set_m[c] # real
  <2>1. cell' \in [BaseUnit -> CellValue]
    BY <1>2, <1>9 DEF sheet_set
  <2>2. told \in SUBSET BaseUnit /\ believed \in [BaseUnit -> Int]
        /\ \A d \in BaseUnit \ told : believed[d] = debounce_set_m[d]
    BY <1>3, <1>4
  <2>3. ~was.untold => Agrees(was.field, u, believed[c])
    <3>1. ~updated => believed[c] = debounce_set_m[c]
      BY <1>3, UnitAssumption
    <3>2. updated => believed[c] = real
      BY <1>3
    <3> HIDE DEF u, believed
    <3>3. QED
      BY <1>6, <1>7, <3>1, <3>2
  <2>4. refresh_view(believed, was, told)
    BY <1>2, <1>9
  <2> HIDE DEF u, believed, told
  <2>5. QED
    BY <1>1, <1>5, <2>1, <2>2, <2>3, <2>4, RefreshStep
<1>10. QED
  BY <1>8, <1>9

\* The same with force.
LEMMA RedisplayStep ==
    ASSUME NumberInv, unit_index_m' \in UnitName, redisplay
    PROVE  FieldStep
<1> DEFINE u == Unit[unit_index_m']
           text == Shown(u, debounce_set_m[u.base_unit])
<1>1. unit' = u /\ current_base_unit(u) = u.base_unit
  BY DEF unit, current_base_unit
<1>2. /\ edit_text' = edit_text_display(text, edit_text) /\ format_m' = u.format
      /\ UNCHANGED <<cell, debounce_set_m, refused>>
  BY <1>1 DEF redisplay
<1>3. /\ cell \in [BaseUnit -> CellValue] /\ debounce_set_m \in [BaseUnit -> Int]
      /\ edit_text \in edit_text_t /\ refused \subseteq BaseUnit
      /\ \A d \in BaseUnit \ refused : debounce_set_m[d] = cell[d]
      /\ ~edit_text.untold => edit_text.field = edit_text.value_m
  BY DEF NumberInv, NumberTypes, DebounceFollowsCells, edit_text_t
<1>4. u.base_unit \in BaseUnit /\ u.format \in Int /\ u.format > 0 /\ text \in Int
  BY <1>3, UnitArithmetic
<1>5. /\ edit_text' \in edit_text_t
      /\ ~edit_text'.untold => edit_text'.field = text /\ edit_text'.value_m = text
  BY <1>2, <1>3, <1>4, FieldKept
<1>6. Agrees(text, u, debounce_set_m[u.base_unit])
  BY <1>4 DEF Agrees
<1> HIDE DEF u, text
<1>7. ~edit_text'.untold => /\ edit_text'.field = edit_text'.value_m
                            /\ Agrees(edit_text'.field, u, debounce_set_m'[u.base_unit])
  BY <1>2, <1>5, <1>6
<1>8. QED
  BY <1>1, <1>2, <1>3, <1>4, <1>5, <1>7 DEF FieldStep

\* An increment and a typed text keep the invariant, and so does what else keeps the unit.
LEMMA SameUnitStep ==
    ASSUME NumberInv, UNCHANGED <<untouched, unit_index_m>>, FieldStep
    PROVE  NumberInv'
<1>1. unit' = unit /\ current_base_unit(unit') = current_base_unit(unit)
  BY DEF untouched, unit
<1>2. NumberTypes'
  BY DEF NumberInv, NumberTypes, FieldStep, untouched, edit_text_t
<1>3. (edit_enabled = enabled_m[current_base_unit(unit)])'
  BY <1>1 DEF NumberInv, untouched
<1>4. DebounceFollowsCells'
  BY DEF FieldStep, DebounceFollowsCells
<1>5. QED
  BY <1>2, <1>3, <1>4 DEF NumberInv, FieldStep

\* The arrow keys and the wheel.
LEMMA IncrementStep ==
    ASSUME NumberInv, NEW n \in Int, increment_n(n)
    PROVE  NumberInv'
<1> DEFINE text == Formatted(debounce_set_m[current_base_unit(unit)]
                               + unit.scale * unit.increment * n, unit, format_m)
<1>1. /\ unit_index_m \in UnitName /\ debounce_set_m \in [BaseUnit -> Int]
      /\ format_m \in Int /\ format_m > 0 /\ edit_text \in edit_text_t
      /\ ~edit_text.untold => edit_text.field = edit_text.value_m
  BY DEF NumberInv, NumberTypes, edit_text_t
<1>2. text \in Int
  <2> DEFINE u == Unit[unit_index_m]
  <2>1. /\ u.base_unit \in BaseUnit /\ u.scale \in Int /\ u.increment \in Int
        /\ \A base, format \in Int : format > 0 => Formatted(base, u, format) \in Int
    BY <1>1, UnitArithmetic
  <2> DEFINE base == debounce_set_m[u.base_unit] + u.scale * u.increment * n
  <2>2. text = Formatted(base, u, format_m)
    BY DEF unit, current_base_unit
  <2> HIDE DEF u, text
  <2>3. base \in Int
    BY <1>1, <2>1
  <2> HIDE DEF base
  <2>4. QED
    BY <1>1, <2>1, <2>2, <2>3
<1>3. UNCHANGED <<untouched, unit_index_m>> /\ monitor_text(text, FALSE, edit_text)
  BY DEF increment_n
<1> HIDE DEF text
<1>4. unit_index_m' \in UnitName /\ unit_index_m' = unit_index_m
  BY <1>1, <1>3
<1>5. FieldStep
  BY <1>1, <1>2, <1>3, <1>4, MonitorStep
<1>6. QED
  BY <1>3, <1>5, SameUnitStep

\* A step of the widget or of the sheet keeps the invariant.
LEMMA NumberStep == NumberInv /\ [NumberNext]_number_vars => NumberInv'
<1> SUFFICES ASSUME NumberInv, [NumberNext]_number_vars PROVE NumberInv'
  OBVIOUS
<1>0. /\ unit_index_m \in UnitName /\ edit_text \in edit_text_t
      /\ ~edit_text.untold => edit_text.field = edit_text.value_m
      /\ debounce_set_m \in [BaseUnit -> Int] /\ cell \in [BaseUnit -> CellValue]
      /\ edit_enabled = enabled_m[current_base_unit(unit)]
  BY DEF NumberInv, NumberTypes, edit_text_t
<1>1. CASE UNCHANGED number_vars
  BY <1>1 DEF number_vars, NumberInv, NumberTypes, DebounceFollowsCells, unit
<1>2. ASSUME NEW text \in Number \cup {intermediate, junk}, type_text(text)
      PROVE  NumberInv'
  <2>1. /\ UNCHANGED <<untouched, unit_index_m>> /\ text # junk
        /\ monitor_text(text, TRUE, Holding(text))
    BY <1>2 DEF type_text, squelch
  <2>2. text \in Int \cup {intermediate}
    BY <2>1, UnitAssumption
  <2>3. Holding(text) \in edit_text_t /\ Holding(text).field = text /\ Holding(text).value_m = text
    BY <2>2, FieldKept, <1>0 DEF Holding
  <2>4. FieldStep
    BY <1>0, <2>1, <2>2, <2>3, MonitorStep
  <2>5. QED
    BY <2>1, <2>4, SameUnitStep
<1>3. ASSUME NEW text \in Number \cup {intermediate, junk}, edit_untold(text)
      PROVE  NumberInv'
  <2>1. edit_text' = [edit_text EXCEPT !.field = text, !.untold = TRUE]
        /\ UNCHANGED <<untouched, unit_index_m, cell, debounce_set_m, format_m, refused>>
    BY <1>3 DEF edit_untold
  <2>2. edit_text' \in edit_text_t /\ edit_text'.untold
    BY <1>0, <2>1, UnitAssumption DEF edit_text_t
  <2>3. FieldStep
    BY <2>1, <2>2 DEF FieldStep, NumberInv, NumberTypes, DebounceFollowsCells
  <2>4. QED
    BY <2>1, <2>3, SameUnitStep
<1>4. ASSUME NEW up \in BOOLEAN, handle_key(up) \/ field_text_filter_arrow(up)
      PROVE  NumberInv'
  BY <1>4, IncrementStep DEF handle_key, field_text_filter_arrow
<1>5. ASSUME NEW delta \in Delta \cup {0}, NEW tenfold \in BOOLEAN,
             \/ wheel(delta, tenfold) \/ label_message(delta, tenfold)
             \/ label_subevent(delta, tenfold)
      PROVE  NumberInv'
  <2>1. delta \in Int /\ delta * 10 \in Int
    BY UnitAssumption
  <2>2. increment_n(IF tenfold THEN delta * 10 ELSE delta)
    BY <1>5 DEF wheel, label_message, label_subevent
  <2>3. QED
    BY <2>1, <2>2, IncrementStep
<1>6. ASSUME NEW name \in UnitName, display_unit(name)
      PROVE  NumberInv'
  <2>1. /\ unit_index_m' = name /\ edit_enabled' = enabled_m[current_base_unit(unit')]
        /\ monitor_text(edit_text.field, TRUE, edit_text) \/ redisplay
        /\ UNCHANGED <<os, enabled_m, focused>>
    BY <1>6 DEF display_unit
  <2>2. FieldStep
    <3>1. CASE monitor_text(edit_text.field, TRUE, edit_text)
      <4>1. edit_text.field \in Int \cup {intermediate, junk}
        BY <1>0 DEF edit_text_t
      <4>2. QED
        BY <1>0, <2>1, <3>1, <4>1, MonitorStep
    <3>2. CASE redisplay
      BY <2>1, <3>2, RedisplayStep
    <3>3. QED
      BY <2>1, <3>1, <3>2
  <2>3. unit'.base_unit \in BaseUnit /\ enabled_m \in [BaseUnit -> BOOLEAN]
    BY <2>1, UnitArithmetic DEF unit, NumberInv, NumberTypes
  <2>4. NumberTypes'
    BY <2>1, <2>2, <2>3 DEF FieldStep, NumberInv, NumberTypes, edit_text_t, current_base_unit
  <2>5. (edit_enabled = enabled_m[current_base_unit(unit)])'
    BY <2>1
  <2>6. DebounceFollowsCells'
    BY <2>2 DEF FieldStep, DebounceFollowsCells
  <2>7. QED
    BY <2>2, <2>4, <2>5, <2>6 DEF NumberInv, FieldStep
<1>7. ASSUME NEW c \in BaseUnit, NEW b \in BOOLEAN, controller_enable(c, b)
      PROVE  NumberInv'
  <2>1. /\ enabled_m' = [enabled_m EXCEPT ![c] = b]
        /\ edit_enabled' = IF c = current_base_unit(unit) THEN b ELSE edit_enabled
        /\ UNCHANGED <<os, cell, unit_index_m, debounce_set_m, edit_text, format_m,
                       focused, refused>>
    BY <1>7 DEF controller_enable
  <2>2. unit' = unit /\ current_base_unit(unit') = current_base_unit(unit)
    BY <2>1 DEF unit
  <2>3. NumberTypes'
    BY <2>1 DEF NumberInv, NumberTypes
  <2>4. (edit_enabled = enabled_m[current_base_unit(unit)])'
    <3>1. current_base_unit(unit) \in BaseUnit /\ enabled_m \in [BaseUnit -> BOOLEAN]
      BY UnitArithmetic DEF unit, current_base_unit, NumberInv, NumberTypes
    <3>2. QED
      BY <1>0, <2>1, <2>2, <3>1
  <2>5. DebounceFollowsCells'
    BY <2>1 DEF NumberInv, DebounceFollowsCells
  <2>6. QED
    BY <2>1, <2>2, <2>3, <2>4, <2>5 DEF NumberInv
<1>8. ASSUME NEW solution \in [BaseUnit -> CellValue], view_display(solution)
      PROVE  NumberInv'
  <2>1. /\ cell' = solution /\ UNCHANGED <<untouched, unit_index_m>>
        /\ refresh_view(debounce_set_m, edit_text, {})
    BY <1>8 DEF view_display
  <2>2. unit' = unit
    BY <2>1 DEF unit
  <2>3. ~edit_text.untold =>
          Agrees(edit_text.field, unit', debounce_set_m[current_base_unit(unit')])
    BY <2>2 DEF NumberInv
  <2>4. FieldStep
    BY <1>0, <2>1, <2>3, RefreshStep
  <2>5. QED
    BY <2>1, <2>4, SameUnitStep
<1>9. CASE monitor_locale
  <2>1. UNCHANGED <<untouched, unit_index_m>> /\ redisplay
    BY <1>9 DEF monitor_locale
  <2>2. FieldStep
    BY <1>0, <2>1, RedisplayStep
  <2>3. QED
    BY <2>1, <2>2, SameUnitStep
<1>10. CASE focus
  BY <1>10 DEF focus, NumberInv, NumberTypes, DebounceFollowsCells, unit
<1>11. QED
  BY <1>1, <1>2, <1>3, <1>4, <1>5, <1>6, <1>7, <1>8, <1>9, <1>10 DEF NumberNext

\* The edit number keeps its invariant, for any cells and units.
THEOREM NumberInvariance == NumberSpec => []NumberInv
<1>1. NumberInit => NumberInv
  <2> SUFFICES ASSUME NumberInit PROVE NumberInv
    OBVIOUS
  <2> DEFINE u == Unit[unit_index_m]
             text == Shown(u, cell[u.base_unit])
  <2>1. /\ unit = u /\ current_base_unit(unit) = u.base_unit
        /\ unit_index_m \in UnitName /\ cell \in [BaseUnit -> CellValue] /\ debounce_set_m = cell
        /\ CellValue \subseteq Int
    BY UnitAssumption DEF NumberInit, unit, current_base_unit
  <2>2. u.base_unit \in BaseUnit /\ u.format \in Int /\ u.format > 0 /\ text \in Int
    BY <2>1, UnitArithmetic
  <2>3. edit_text = [field |-> text, value_m |-> text, untold |-> FALSE]
    BY <2>1 DEF NumberInit, Holding
  <2>4. Agrees(text, u, cell[u.base_unit])
    BY <2>2 DEF Agrees
  <2> HIDE DEF u, text
  <2>5. NumberTypes
    <3>1. debounce_set_m \in [BaseUnit -> Int] /\ format_m \in Int /\ format_m > 0
      BY <2>1, <2>2 DEF NumberInit
    <3>2. enabled_m \in [BaseUnit -> BOOLEAN] /\ edit_enabled \in BOOLEAN
      BY DEF NumberInit
    <3>3. edit_text \in [field : Int \cup {intermediate, junk}, value_m : Int \cup {intermediate},
                         untold : BOOLEAN]
      BY <2>2, <2>3
    <3>4. QED
      BY <2>1, <3>1, <3>2, <3>3 DEF NumberInit, NumberTypes
  <2>6. edit_enabled = enabled_m[current_base_unit(unit)] /\ DebounceFollowsCells
    BY <2>1, <2>2 DEF NumberInit, DebounceFollowsCells
  <2>7. QED
    BY <2>1, <2>3, <2>4, <2>5, <2>6 DEF NumberInv
<1>2. QED
  BY <1>1, NumberStep, PTL DEF NumberSpec

\* The field shows the value believed of the cell in the unit selected, whatever is
\* typed, incremented, redisplayed or changed by the sheet.
THEOREM FieldAlwaysShowsUnit == NumberSpec => []FieldShowsUnit
<1>1. NumberInv => FieldShowsUnit
  BY DEF NumberInv, FieldShowsUnit, Agrees
<1>2. QED
  BY <1>1, NumberInvariance, PTL

\* What is believed of a cell that did not refuse a value is what the sheet has.
THEOREM DebounceAlwaysFollows == NumberSpec => []DebounceFollowsCells
<1>1. NumberInv => DebounceFollowsCells
  BY DEF NumberInv
<1>2. QED
  BY <1>1, NumberInvariance, PTL

------------------------------------------------------------------------------
(* bitpath_t: paths through a forest *)

\* The edges of a forest are seen as a walk up and down: what ends where, and what is
\* inside of what, are facts about how deep it is.

\* Edges opened in a part of a forest are counted one by one, and part by part.
LEMMA OpenedFacts ==
    ASSUME NEW f, NEW i \in Nat \ {0}, NEW j \in Nat, i <= j + 1
    PROVE  /\ Opened(f, i, j) \in Nat
           /\ i = j + 1 => Opened(f, i, j) = 0
           /\ Opened(f, i, j + 1) = Opened(f, i, j) + IF f[j + 1] = "leading" THEN 1 ELSE 0
           /\ Opened(f, 1, j) = Opened(f, 1, i - 1) + Opened(f, i, j)
<1> DEFINE In(l, h) == {k \in l..h : f[k] = "leading"}
<1>1. ASSUME NEW l \in Int, NEW h \in Int
      PROVE  IsFiniteSet(In(l, h)) /\ Cardinality(In(l, h)) \in Nat
  <2>1. IsFiniteSet(l..h)
    BY FS_Interval
  <2>2. QED
    BY <2>1, FS_Subset, FS_CardinalityType
<1>3. ASSUME i = j + 1 PROVE Cardinality(In(i, j)) = 0
  <2>1. In(i, j) = {}
    BY <1>3
  <2>2. QED
    BY <2>1, FS_EmptySet
<1>4. Cardinality(In(i, j + 1)) = Cardinality(In(i, j)) + IF f[j + 1] = "leading" THEN 1 ELSE 0
  <2>1. i..j + 1 = (i..j) \cup {j + 1} /\ j + 1 \notin i..j
    OBVIOUS
  <2>2. CASE f[j + 1] = "leading"
    <3>1. In(i, j + 1) = In(i, j) \cup {j + 1} /\ j + 1 \notin In(i, j)
      BY <2>1, <2>2
    <3> HIDE DEF In
    <3>2. QED
      BY <1>1, <2>2, <3>1, FS_AddElement
  <2>3. CASE f[j + 1] # "leading"
    <3>1. In(i, j + 1) = In(i, j)
      BY <2>1, <2>3
    <3> HIDE DEF In
    <3>2. QED
      BY <1>1, <2>3, <3>1
  <2>4. QED
    BY <2>2, <2>3
<1>5. Cardinality(In(1, j)) = Cardinality(In(1, i - 1)) + Cardinality(In(i, j))
  <2>1. 1..j = (1..i - 1) \cup (i..j) /\ (1..i - 1) \cap (i..j) = {}
    OBVIOUS
  <2>2. In(1, j) = In(1, i - 1) \cup In(i, j) /\ In(1, i - 1) \cap In(i, j) = {}
    BY <2>1
  <2> DEFINE a == In(1, i - 1)
             b == In(i, j)
  <2>3. IsFiniteSet(a) /\ IsFiniteSet(b) /\ Cardinality(a) \in Nat /\ Cardinality(b) \in Nat
    BY <1>1
  <2>4. In(1, j) = a \cup b /\ a \cap b = {}
    BY <2>2
  <2> HIDE DEF a, b
  <2>5. Cardinality(a \cup b) = Cardinality(a) + Cardinality(b)
    <3>1. Cardinality(a \cup b) = Cardinality(a) + Cardinality(b) - Cardinality(a \cap b)
      BY <2>3, FS_Union
    <3>2. Cardinality(a \cap b) = 0
      BY <2>4, FS_EmptySet
    <3>3. QED
      BY <2>3, <3>1, <3>2
  <2>6. QED
    BY <2>4, <2>5 DEF a, b
<1>6. /\ Opened(f, i, j) = Cardinality(In(i, j)) /\ Opened(f, i, j + 1) = Cardinality(In(i, j + 1))
      /\ Opened(f, 1, j) = Cardinality(In(1, j))
      /\ Opened(f, 1, i - 1) = Cardinality(In(1, i - 1))
  BY DEF Opened
<1> HIDE DEF In
<1>7. Cardinality(In(i, j)) \in Nat
  <2>1. i \in Int /\ j \in Int
    OBVIOUS
  <2>2. QED
    BY <1>1, <2>1
<1>8. QED
  BY <1>3, <1>4, <1>5, <1>6, <1>7

\* How many nodes are open after the first j edges.
Depth(f, j) == Opened(f, 1, j) - Closed(f, 1, j)

\* A forest is a walk up and down, by one at a time, from the ground to the ground.
Walk(f) ==
    /\ Len(f) \in Nat \ {0, 1} /\ DOMAIN f = 1..Len(f)
    /\ \A i \in 1..Len(f) : f[i] \in {"leading", "trailing"}
    /\ Depth(f, 0) = 0 /\ Depth(f, Len(f)) = 0
    /\ \A j \in 0..Len(f) : Depth(f, j) \in Nat
    /\ \A j \in 1..Len(f) :
          Depth(f, j) = IF f[j] = "leading" THEN Depth(f, j - 1) + 1 ELSE Depth(f, j - 1) - 1

LEMMA ForestsWalk ==
    ASSUME NEW f \in Forests, MaxNodes \in Nat
    PROVE  /\ Walk(f)
           /\ \A i \in 1..Len(f), j \in 0..Len(f) :
                 i <= j + 1 => Opened(f, i, j) - Closed(f, i, j) = Depth(f, j) - Depth(f, i - 1)
           /\ \A i \in 1..Len(f), j \in 0..Len(f) :
                 i <= j + 1 => Opened(f, i, j) \in Nat /\ Closed(f, i, j) \in Int
<1>1. PICK n \in 1..MaxNodes :
          /\ f \in [1..2 * n -> {"leading", "trailing"}]
          /\ Opened(f, 1, 2 * n) = n
          /\ \A j \in 1..2 * n : Opened(f, 1, j) >= Closed(f, 1, j)
  BY DEF Forests
<1>2. Len(f) = 2 * n /\ DOMAIN f = 1..2 * n
  <2>1. 2 * n \in Nat
    OBVIOUS
  <2>2. f \in Seq({"leading", "trailing"})
    BY <1>1, <2>1, SeqDef
  <2>3. DOMAIN f = 1..Len(f) /\ Len(f) \in Nat /\ DOMAIN f = 1..2 * n
    BY <1>1, <2>2, LenProperties
  <2> DEFINE M == 2 * n
             L == Len(f)
  <2>4. M \in Nat \ {0} /\ L \in Nat /\ 1..L = 1..M
    <3>1. n \in Nat \ {0}
      OBVIOUS
    <3>2. 2 * n \in Nat \ {0}
      BY <3>1
    <3>3. QED
      BY <2>3, <3>2
  <2> HIDE DEF M, L
  <2>5. M \in 1..L /\ L \in 1..M
    BY <2>4
  <2>6. M = L
    BY <2>4, <2>5
  <2>7. QED
    BY <2>3, <2>6 DEF M, L
<1> DEFINE N == 2 * n
<1>3. N \in Nat \ {0, 1} /\ Len(f) = N
  BY <1>2
<1>20. /\ Opened(f, 1, N) = n /\ N = 2 * n /\ n \in Nat
      /\ \A j \in 1..N : Opened(f, 1, j) >= Closed(f, 1, j)
  BY <1>1
<1> HIDE DEF N
<1>4. \A j \in 0..N : Opened(f, 1, j) \in Nat /\ Depth(f, j) = 2 * Opened(f, 1, j) - j
  <2> TAKE j \in 0..N
  <2>1. Opened(f, 1, j) \in Nat
    <3>1. j \in Nat /\ 1 \in Nat \ {0} /\ 1 <= j + 1
      BY <1>3
    <3>2. QED
      BY <3>1, OpenedFacts
  <2>2. QED
    BY <1>3, <2>1 DEF Depth, Closed
<1>5. Opened(f, 1, 0) = 0
  <2>1. 1 \in Nat \ {0} /\ 0 \in Nat /\ 1 <= 0 + 1 /\ 1 = 0 + 1
    OBVIOUS
  <2>2. QED
    BY <2>1, OpenedFacts
<1>6. \A j \in 1..N : Opened(f, 1, j) = Opened(f, 1, j - 1) + IF f[j] = "leading" THEN 1 ELSE 0
  <2> TAKE j \in 1..N
  <2> DEFINE i == j - 1
  <2>1. i \in Nat /\ j = i + 1 /\ 1 <= i + 1
    BY <1>3
  <2> HIDE DEF i
  <2>2. Opened(f, 1, i + 1) = Opened(f, 1, i) + IF f[i + 1] = "leading" THEN 1 ELSE 0
    BY <2>1, OpenedFacts
  <2>3. QED
    BY <2>1, <2>2 DEF i
<1>7. ASSUME NEW i \in 1..N, NEW j \in 0..N, i <= j + 1
      PROVE  /\ Opened(f, i, j) - Closed(f, i, j) = Depth(f, j) - Depth(f, i - 1)
             /\ Opened(f, i, j) \in Nat /\ Closed(f, i, j) \in Int
  <2>1. /\ Opened(f, i, j) \in Nat
        /\ Opened(f, 1, j) = Opened(f, 1, i - 1) + Opened(f, i, j)
    <3>1. i \in Nat \ {0} /\ j \in Nat
      BY <1>3
    <3>2. QED
      BY <1>7, <3>1, OpenedFacts
  <2>2. i - 1 \in 0..N
    BY <1>3
  <2>3. Opened(f, 1, i - 1) \in Nat /\ Depth(f, i - 1) = 2 * Opened(f, 1, i - 1) - (i - 1)
    BY <1>4, <2>2
  <2>4. Opened(f, 1, j) \in Nat /\ Depth(f, j) = 2 * Opened(f, 1, j) - j
    BY <1>4
  <2>5. i \in Int /\ j \in Int
    BY <1>3
  <2>6. QED
    BY <2>1, <2>3, <2>4, <2>5 DEF Closed
<1>8. Depth(f, 0) = 0 /\ Depth(f, N) = 0
  <2>1. 0 \in 0..N /\ N \in 0..N
    BY <1>3
  <2>2. QED
    BY <1>3, <1>4, <1>5, <1>20, <2>1
<1>9. ASSUME NEW j \in 0..N PROVE Depth(f, j) \in Nat
  <2>1. j = 0 \/ j \in 1..N
    BY <1>3
  <2>2. CASE j \in 1..N
    <3>1. Opened(f, 1, j) >= Closed(f, 1, j)
      BY <1>20, <2>2
    <3>2. Opened(f, 1, j) \in Nat
      BY <1>4
    <3>3. j \in Int
      BY <1>3
    <3>4. QED
      BY <3>1, <3>2, <3>3 DEF Depth, Closed
  <2>3. QED
    BY <1>8, <2>1, <2>2
<1>10. ASSUME NEW j \in 1..N
       PROVE  Depth(f, j) = IF f[j] = "leading" THEN Depth(f, j - 1) + 1 ELSE Depth(f, j - 1) - 1
  <2>1. j \in 0..N /\ j - 1 \in 0..N
    BY <1>3
  <2> DEFINE a == Opened(f, 1, j)
             b == Opened(f, 1, j - 1)
  <2>2. /\ a \in Nat /\ b \in Nat /\ j \in Int
        /\ Depth(f, j) = 2 * a - j /\ Depth(f, j - 1) = 2 * b - (j - 1)
        /\ a = b + IF f[j] = "leading" THEN 1 ELSE 0
    BY <1>3, <1>4, <1>6, <2>1
  <2> HIDE DEF a, b
  <2>3. QED
    BY <2>2
<1>11. Walk(f)
  <2>1. \A i \in 1..N : f[i] \in {"leading", "trailing"}
    BY <1>1, <1>20
  <2>2. DOMAIN f = 1..N
    BY <1>2, <1>20
  <2>3. QED
    BY <1>3, <1>8, <1>9, <1>10, <2>1, <2>2 DEF Walk
<1>12. QED
  BY <1>3, <1>7, <1>11

\* What begins at a node ends where the walk is first down again.
LEMMA TrailingIsWhereDown ==
    ASSUME NEW f \in Forests, MaxNodes \in Nat, NEW i \in Nodes(f)
    PROVE  /\ trailing_of(f, i) \in i + 1..Len(f) /\ f[trailing_of(f, i)] = "trailing"
           /\ Depth(f, trailing_of(f, i)) = Depth(f, i - 1)
           /\ \A k \in i..trailing_of(f, i) - 1 : Depth(f, k) > Depth(f, i - 1)
<1> DEFINE N == Len(f)
           D(j) == Depth(f, j)
<1>1. /\ N \in Nat /\ D(N) = 0 /\ \A j \in 0..N : D(j) \in Nat
      /\ \A j \in 1..N : f[j] \in {"leading", "trailing"}
      /\ \A j \in 1..N : D(j) = IF f[j] = "leading" THEN D(j - 1) + 1 ELSE D(j - 1) - 1
  BY ForestsWalk DEF Walk
<1>2. i \in 1..N /\ f[i] = "leading"
  BY DEF Nodes
<1>3. \A j \in i + 1..N : Opened(f, i, j) = Closed(f, i, j) <=> D(j) = D(i - 1)
  <2> TAKE j \in i + 1..N
  <2>1. i \in 1..N /\ j \in 0..N /\ i <= j + 1 /\ i - 1 \in 0..N
    BY <1>1, <1>2
  <2>2. /\ Opened(f, i, j) - Closed(f, i, j) = D(j) - D(i - 1)
        /\ Opened(f, i, j) \in Nat /\ Closed(f, i, j) \in Int
    BY <2>1, ForestsWalk
  <2>3. D(j) \in Nat /\ D(i - 1) \in Nat
    BY <1>1, <2>1
  <2> HIDE DEF D
  <2>4. QED
    BY <2>2, <2>3
<1> DEFINE d == D(i - 1)
<1>4. d \in Nat /\ D(i) = d + 1
  BY <1>1, <1>2
<1> HIDE DEF D
<1>5. PICK m \in i + 1..N : D(m) <= d /\ \A k \in i + 1..m - 1 : D(k) > d
  <2> DEFINE U == {j \in i + 1..N : D(j) <= d}
  <2>1. N \in U
    BY <1>1, <1>2, <1>4
  <2>2. U \subseteq Nat /\ U # {}
    BY <1>1, <1>2, <2>1
  <2>3. PICK m \in U : \A k \in U : m <= k
    BY <2>2, LeastNat
  <2>4. \A k \in i + 1..m - 1 : k \in i + 1..N /\ k \in 0..N /\ k < m /\ D(k) \in Nat
    BY <1>1, <1>2
  <2>5. \A k \in i + 1..m - 1 : D(k) > d
    <3> TAKE k \in i + 1..m - 1
    <3>1. k \notin U
      BY <1>1, <1>2, <2>3, <2>4
    <3>2. QED
      BY <1>4, <2>4, <3>1
  <2>6. QED
    BY <2>3, <2>5
<1>6. \A k \in i..m - 1 : D(k) > d
  <2> TAKE k \in i..m - 1
  <2>1. k = i \/ k \in i + 1..m - 1
    BY <1>1, <1>2, <1>5
  <2>2. QED
    BY <1>4, <1>5, <2>1
<1>7. f[m] = "trailing" /\ D(m) = d
  <2>1. m \in 1..N /\ m - 1 \in 0..N /\ m - 1 \in i..m - 1 /\ m \in 0..N
    BY <1>1, <1>2, <1>5
  <2>2. D(m) \in Nat /\ D(m - 1) \in Nat /\ D(m - 1) > d /\ D(m) <= d
    BY <1>1, <1>5, <1>6, <2>1
  <2>3. f[m] \in {"leading", "trailing"} /\ D(m) = IF f[m] = "leading" THEN D(m - 1) + 1 ELSE D(m - 1) - 1
    BY <1>1, <2>1
  <2>4. QED
    BY <1>4, <2>2, <2>3
<1> DEFINE T == {j \in i + 1..N : Opened(f, i, j) = Closed(f, i, j)}
<1>8. m \in T /\ \A y \in T : m <= y
  <2>1. m \in T
    BY <1>3, <1>5, <1>7
  <2>2. ASSUME NEW y \in T PROVE m <= y
    <3>1. y \in i + 1..N /\ D(y) = d
      BY <1>3
    <3>2. ~(y \in i + 1..m - 1)
      BY <1>4, <1>5, <3>1
    <3>3. QED
      BY <1>1, <1>2, <1>5, <3>1, <3>2
  <2>3. QED
    BY <2>1, <2>2
<1>9. Min(T) = m
  <2>1. T \subseteq Int
    BY <1>1, <1>2
  <2> HIDE DEF T
  <2>2. \A y \in T : (\A z \in T : y <= z) => y = m
    BY <1>8, <2>1
  <2>3. QED
    BY <1>8, <2>2 DEF Min
<1>10. trailing_of(f, i) = m
  <2>1. edge(f, i) = "leading"
    BY <1>1, <1>2 DEF edge
  <2>2. QED
    BY <1>9, <2>1 DEF trailing_of
<1>11. QED
  BY <1>5, <1>6, <1>7, <1>10 DEF D

\* Two edges make a node.
LEMMA LeadingOf ==
    ASSUME NEW f \in Forests, MaxNodes \in Nat
    PROVE  /\ \A n \in Nodes(f) : leading_of(f, n) = n /\ leading_of(f, trailing_of(f, n)) = n
           /\ \A t \in 1..Len(f) : f[t] = "trailing" =>
                 /\ leading_of(f, t) \in Nodes(f) /\ leading_of(f, t) < t
                 /\ trailing_of(f, leading_of(f, t)) = t
<1> DEFINE N == Len(f)
           D(j) == Depth(f, j)
           end(n) == trailing_of(f, n)
<1>1. /\ N \in Nat /\ D(0) = 0 /\ \A j \in 0..N : D(j) \in Nat
      /\ \A j \in 1..N : f[j] \in {"leading", "trailing"}
      /\ \A j \in 1..N : D(j) = IF f[j] = "leading" THEN D(j - 1) + 1 ELSE D(j - 1) - 1
  BY ForestsWalk DEF Walk
<1>2. \A n : n \in Nodes(f) <=> n \in 1..N /\ f[n] = "leading"
  BY DEF Nodes
<1>3. \A n \in Nodes(f) :
         /\ end(n) \in n + 1..N /\ f[end(n)] = "trailing" /\ D(end(n)) = D(n - 1)
         /\ \A k \in n..end(n) - 1 : D(k) > D(n - 1)
  BY TrailingIsWhereDown
<1> HIDE DEF D, end
<1>4. ASSUME NEW n \in Nodes(f), NEW m \in Nodes(f), end(n) = end(m), n < m PROVE FALSE
  <2>1. n \in 1..N /\ m \in 1..N
    BY <1>2
  <2>2. m - 1 \in n..end(n) - 1
    <3>1. end(m) \in m + 1..N
      BY <1>3
    <3>2. QED
      BY <1>1, <1>4, <2>1, <3>1
  <2>3. D(m - 1) > D(n - 1)
    BY <1>3, <2>2
  <2>4. D(m - 1) = D(n - 1)
    BY <1>3, <1>4
  <2>5. D(m - 1) \in Nat
    <3>1. m - 1 \in 0..N
      BY <1>1, <2>1
    <3>2. QED
      BY <1>1, <3>1
  <2>6. QED
    BY <2>3, <2>4, <2>5
<1>5. ASSUME NEW n \in Nodes(f), NEW m \in Nodes(f), end(n) = end(m) PROVE n = m
  <2>1. n \in Nat /\ m \in Nat
    BY <1>1, <1>2
  <2>2. ~(n < m) /\ ~(m < n)
    BY <1>4, <1>5
  <2>3. QED
    BY <2>1, <2>2
<1>6. ASSUME NEW n \in Nodes(f)
      PROVE  leading_of(f, n) = n /\ leading_of(f, end(n)) = n
  <2>1. f[n] = "leading" /\ \A m \in Nodes(f) : f[m] = "leading" /\ f[end(m)] = "trailing"
    BY <1>2, <1>3
  <2>2. \A m \in Nodes(f) : n \in {m, end(m)} <=> m = n
    BY <2>1
  <2>3. \A m \in Nodes(f) : end(n) \in {m, end(m)} <=> m = n
    BY <1>5, <2>1
  <2>4. leading_of(f, n) = CHOOSE m \in Nodes(f) : n \in {m, end(m)}
    BY DEF leading_of, end
  <2>5. leading_of(f, end(n)) = CHOOSE m \in Nodes(f) : end(n) \in {m, end(m)}
    BY DEF leading_of, end
  <2>6. QED
    BY <2>2, <2>3, <2>4, <2>5
<1>7. ASSUME NEW t \in 1..N, f[t] = "trailing"
      PROVE  \E n \in Nodes(f) : end(n) = t /\ n < t
  <2> DEFINE d == D(t)
  <2>1. d \in Nat /\ D(t - 1) = d + 1 /\ t - 1 \in 0..N /\ t \in Int
    <3>1. t \in 0..N /\ t - 1 \in 0..N /\ t \in Int
      BY <1>1
    <3>2. D(t) \in Nat /\ D(t - 1) \in Nat /\ D(t) = D(t - 1) - 1
      BY <1>1, <1>7, <3>1
    <3>3. QED
      BY <3>1, <3>2
  <2> DEFINE U == {u \in 1..t : D(t - u) <= d}
  <2>2. PICK u \in U : \A w \in U : u <= w
    <3>1. t \in U /\ U \subseteq Nat
      BY <1>1, <2>1
    <3>2. QED
      BY <3>1, LeastNat
  <2> DEFINE k == t - u
             n == k + 1
  <2>3. k \in 0..t - 1 /\ D(k) <= d /\ u \in 1..t
    BY <2>1, <2>2
  <2>4. \A w \in 1..u - 1 : D(t - w) \in Nat /\ D(t - w) > d
    <3> TAKE w \in 1..u - 1
    <3>1. w \in 1..t /\ w < u /\ w \in Int /\ u \in Int /\ t - w \in 0..N
      BY <1>1, <2>3
    <3>2. w \notin U
      BY <2>2, <3>1
    <3>3. D(t - w) \in Nat
      BY <1>1, <3>1
    <3>4. QED
      BY <2>1, <3>1, <3>2, <3>3
  <2>5. n \in 1..N /\ n < t /\ n \in 0..N /\ k \in 0..N
    <3>1. k # t - 1
      BY <2>1, <2>3
    <3>2. QED
      BY <1>1, <2>1, <2>3, <3>1
  <2>6. D(n) > d
    <3>1. u - 1 \in 1..u - 1 /\ t - (u - 1) = n
      BY <2>1, <2>3, <2>5
    <3>2. QED
      BY <2>4, <3>1
  <2>7. f[n] = "leading" /\ D(k) = d
    <3>1. D(n) \in Nat /\ D(k) \in Nat /\ f[n] \in {"leading", "trailing"}
      BY <1>1, <2>5
    <3>2. D(n) = IF f[n] = "leading" THEN D(k) + 1 ELSE D(k) - 1
      <4>1. n - 1 = k
        BY <2>1, <2>3
      <4>2. QED
        BY <1>1, <2>5, <4>1
    <3>3. QED
      BY <2>1, <2>3, <2>6, <3>1, <3>2
  <2>8. n \in Nodes(f)
    BY <1>2, <2>5, <2>7
  <2>9. end(n) = t
    <3>1. n - 1 = k /\ n \in Int
      BY <2>1, <2>3
    <3>2. end(n) \in n + 1..N /\ D(end(n)) = d /\ \A j \in n..end(n) - 1 : D(j) > d
      BY <1>3, <2>7, <2>8, <3>1
    <3>3. ~(end(n) < t)
      <4>1. SUFFICES ASSUME end(n) < t PROVE FALSE
        OBVIOUS
      <4> DEFINE w == t - end(n)
      <4>2. w \in 1..u - 1 /\ t - w = end(n)
        BY <2>1, <2>3, <3>1, <3>2, <4>1
      <4>3. D(end(n)) > d
        BY <2>4, <4>2
      <4>4. QED
        BY <2>1, <3>2, <4>3
    <3>4. ~(t < end(n))
      <4>1. SUFFICES ASSUME t < end(n) PROVE FALSE
        OBVIOUS
      <4>2. t \in n..end(n) - 1
        BY <2>1, <2>5, <3>1, <3>2, <4>1
      <4>3. QED
        BY <2>1, <3>2, <4>2
    <3>5. QED
      BY <1>1, <2>1, <3>1, <3>2, <3>3, <3>4
  <2>10. QED
    BY <2>5, <2>8, <2>9
<1>8. ASSUME NEW t \in 1..N, f[t] = "trailing"
      PROVE  leading_of(f, t) \in Nodes(f) /\ leading_of(f, t) < t /\ end(leading_of(f, t)) = t
  BY <1>6, <1>7, <1>8
<1>9. QED
  BY <1>6, <1>8 DEF end

\* The node a move from which leads to another, and the bit of the move.
before(f, n) == leading_of(f, n - 1)
bit_of(f, n) == IF edge(f, n - 1) = "trailing" THEN 1 ELSE 0

\* A node is a first child of the one before, or its next sibling.
LEMMA OneIsBefore ==
    ASSUME NEW f \in Forests, MaxNodes \in Nat
    PROVE  /\ 1 \in Nodes(f) /\ \A n \in Nodes(f) : n \in 1..Len(f) /\ f[n] = "leading"
           /\ \A n \in Nodes(f) \ {1} :
                 /\ before(f, n) \in Nodes(f) /\ before(f, n) < n /\ n - 1 \in 1..Len(f)
                 /\ edge(f, n - 1) = f[n - 1] /\ edge(f, n - 1) \in {"leading", "trailing"}
                 /\ edge(f, n - 1) = "leading" => before(f, n) = n - 1 /\ bit_of(f, n) = 0
                 /\ edge(f, n - 1) = "trailing" =>
                       trailing_of(f, before(f, n)) = n - 1 /\ bit_of(f, n) = 1
<1> DEFINE N == Len(f)
<1>1. /\ N \in Nat \ {0, 1} /\ Depth(f, 0) = 0 /\ Depth(f, 1) \in Nat
      /\ \A i \in 1..N : f[i] \in {"leading", "trailing"}
      /\ f[1] # "leading" => Depth(f, 1) = Depth(f, 0) - 1
  <2>1. Walk(f)
    BY ForestsWalk
  <2>2. N \in Nat \ {0, 1} /\ 1 \in 1..N /\ 1 \in 0..N /\ 1 - 1 = 0
    BY <2>1 DEF Walk
  <2>3. Depth(f, 1) = IF f[1] = "leading" THEN Depth(f, 1 - 1) + 1 ELSE Depth(f, 1 - 1) - 1
    BY <2>1, <2>2 DEF Walk
  <2>4. QED
    BY <2>1, <2>2, <2>3 DEF Walk
<1>2. \A n : n \in Nodes(f) <=> n \in 1..N /\ f[n] = "leading"
  BY DEF Nodes
<1>3. 1 \in Nodes(f)
  <2>1. f[1] = "leading"
    <3>1. SUFFICES ASSUME f[1] # "leading" PROVE FALSE
      OBVIOUS
    <3>2. Depth(f, 1) = 0 - 1 /\ Depth(f, 1) \in Nat
      BY <1>1, <3>1
    <3> DEFINE d == Depth(f, 1)
    <3>3. d = 0 - 1 /\ d \in Nat
      BY <3>2
    <3> HIDE DEF d
    <3>4. QED
      BY <3>3
  <2>2. QED
    BY <1>1, <1>2, <2>1
<1>4. ASSUME NEW n \in Nodes(f) \ {1}
      PROVE  /\ before(f, n) \in Nodes(f) /\ before(f, n) < n /\ n - 1 \in 1..N
             /\ edge(f, n - 1) = f[n - 1] /\ edge(f, n - 1) \in {"leading", "trailing"}
             /\ edge(f, n - 1) = "leading" => before(f, n) = n - 1 /\ bit_of(f, n) = 0
             /\ edge(f, n - 1) = "trailing" =>
                   trailing_of(f, before(f, n)) = n - 1 /\ bit_of(f, n) = 1
  <2>1. n \in 2..N /\ n - 1 \in 1..N
    BY <1>1, <1>2
  <2>2. edge(f, n - 1) = f[n - 1] /\ f[n - 1] \in {"leading", "trailing"}
    BY <1>1, <2>1 DEF edge
  <2>3. CASE f[n - 1] = "leading"
    <3>1. n - 1 \in Nodes(f)
      BY <1>2, <2>1, <2>3
    <3>2. before(f, n) = n - 1
      BY <3>1, LeadingOf DEF before
    <3>3. QED
      BY <1>1, <2>1, <2>2, <2>3, <3>1, <3>2 DEF bit_of
  <2>4. CASE f[n - 1] = "trailing"
    <3>1. /\ before(f, n) \in Nodes(f) /\ before(f, n) < n - 1
          /\ trailing_of(f, before(f, n)) = n - 1
      BY <2>1, <2>4, LeadingOf DEF before
    <3>2. before(f, n) \in Int
      BY <1>1, <1>2, <3>1
    <3>3. QED
      BY <1>1, <2>1, <2>2, <2>4, <3>1, <3>2 DEF bit_of
  <2>5. QED
    BY <2>2, <2>3, <2>4
<1>5. QED
  BY <1>2, <1>3, <1>4

\* The moves to a node, g of those before.
MovesOf(f, g, m) == IF m = 1 THEN <<>> ELSE push(g[before(f, m)], bit_of(f, m))
MovesFn(f) == CHOOSE g : g = [m \in Nodes(f) |-> MovesOf(f, g, m)]

\* Moves is a recursive function of the nodes.
LEMMA MovesIs ==
    ASSUME NEW f, NEW n
    PROVE  Moves(f, n) = MovesFn(f)[n]
BY DEF Moves, MovesFn, MovesOf, before, bit_of

\* A path is a sequence of bits.
LEMMA PushSeq ==
    ASSUME NEW b \in {0, 1}, NEW p \in Seq({0, 1})
    PROVE  push(p, b) \in Seq({0, 1})
BY ConcatProperties DEF push

\* The moves to the nodes are made one after another.
LEMMA MovesExist ==
    ASSUME NEW f \in Forests, MaxNodes \in Nat
    PROVE  \E g : g = [m \in Nodes(f) |-> MovesOf(f, g, m)]
<1> DEFINE Bits == Seq({0, 1})
           Part(k) == {m \in Nodes(f) : m <= k}
           P(k) == \E g \in [Part(k) -> Bits] : \A m \in Part(k) : g[m] = MovesOf(f, g, m)
<1>1. /\ Len(f) \in Nat /\ Nodes(f) \subseteq 1..Len(f)
      /\ \A n \in Nodes(f) \ {1} : before(f, n) \in Nodes(f) /\ before(f, n) < n
  <2>1. Walk(f)
    BY ForestsWalk
  <2>2. QED
    BY <2>1, OneIsBefore DEF Walk
<1>2. P(0)
  <2>1. Part(0) = {}
    BY <1>1
  <2> DEFINE g == [m \in Part(0) |-> <<>>]
  <2>2. g \in [Part(0) -> Bits] /\ \A m \in Part(0) : g[m] = MovesOf(f, g, m)
    BY <2>1
  <2>3. QED
    BY <2>2
<1>3. ASSUME NEW k \in Nat, P(k) PROVE P(k + 1)
  <2>1. PICK g \in [Part(k) -> Bits] : \A m \in Part(k) : g[m] = MovesOf(f, g, m)
    BY <1>3
  <2> DEFINE h == [m \in Part(k + 1) |-> IF m = k + 1 THEN MovesOf(f, g, m) ELSE g[m]]
  <2>2. \A m \in Part(k + 1) : m # k + 1 => m \in Part(k)
    BY <1>1
  <2>3. \A m \in Part(k + 1) : m # 1 => before(f, m) \in Part(k) /\ before(f, m) # k + 1
                                        /\ before(f, m) \in Part(k + 1)
    BY <1>1
  <2>4. \A m \in Part(k + 1) : MovesOf(f, g, m) \in Bits
    <3> TAKE m \in Part(k + 1)
    <3>1. CASE m = 1
      <4>1. <<>> \in Bits
        BY EmptySeq
      <4>2. QED
        BY <3>1, <4>1 DEF MovesOf
    <3>2. CASE m # 1
      <4>1. g[before(f, m)] \in Bits
        BY <2>1, <2>3, <3>2
      <4>2. bit_of(f, m) \in {0, 1}
        BY DEF bit_of
      <4>3. QED
        BY <3>2, <4>1, <4>2, PushSeq DEF MovesOf
    <3>3. QED
      BY <3>1, <3>2
  <2>5. h \in [Part(k + 1) -> Bits]
    BY <2>1, <2>2, <2>4
  <2>6. \A m \in Part(k + 1) : MovesOf(f, h, m) = MovesOf(f, g, m)
    BY <2>3 DEF MovesOf
  <2>7. \A m \in Part(k + 1) : h[m] = MovesOf(f, h, m)
    BY <2>1, <2>2, <2>6
  <2>8. QED
    BY <2>5, <2>7
<1> DEFINE U == {k \in Nat : ~P(k)}
<1>4. U = {}
  <2>1. SUFFICES ASSUME U # {} PROVE FALSE
    OBVIOUS
  <2>2. PICK k \in U : \A m \in U : k <= m
    BY <2>1, LeastNat
  <2>3. k \in Nat \ {0}
    BY <1>2
  <2>4. k - 1 \in Nat /\ (k - 1) + 1 = k /\ ~(k <= k - 1)
    BY <2>3
  <2> HIDE DEF P
  <2>5. P(k - 1)
    BY <2>2, <2>4
  <2>6. P(k)
    BY <1>3, <2>4, <2>5
  <2>7. QED
    BY <2>2, <2>6
<1>5. P(Len(f))
  <2> HIDE DEF P
  <2>1. QED
    BY <1>1, <1>4
<1>6. Part(Len(f)) = Nodes(f)
  BY <1>1
<1>7. PICK g \in [Nodes(f) -> Bits] : \A m \in Nodes(f) : g[m] = MovesOf(f, g, m)
  BY <1>5, <1>6
<1>8. g = [m \in Nodes(f) |-> MovesOf(f, g, m)]
  BY <1>7
<1>9. QED
  BY <1>8

\* The moves to a node are those to the one before and one more.
LEMMA MovesStep ==
    ASSUME NEW f \in Forests, MaxNodes \in Nat
    PROVE  /\ Moves(f, 1) = <<>> /\ \A n \in Nodes(f) : Moves(f, n) \in Seq({0, 1})
           /\ \A n \in Nodes(f) \ {1} :
                 Moves(f, n) = push(Moves(f, before(f, n)), bit_of(f, n))
<1> DEFINE g == MovesFn(f)
<1>1. g = [m \in Nodes(f) |-> MovesOf(f, g, m)]
  BY MovesExist DEF MovesFn
<1> HIDE DEF g
<1>2. /\ Len(f) \in Nat /\ Nodes(f) \subseteq 1..Len(f) /\ 1 \in Nodes(f)
      /\ \A n \in Nodes(f) \ {1} : before(f, n) \in Nodes(f) /\ before(f, n) < n
  <2>1. Walk(f)
    BY ForestsWalk
  <2>2. QED
    BY <2>1, OneIsBefore DEF Walk
<1>3. \A n \in Nodes(f) : g[n] = MovesOf(f, g, n)
  BY <1>1
<1>4. g[1] = <<>> /\ \A n \in Nodes(f) \ {1} : g[n] = push(g[before(f, n)], bit_of(f, n))
  BY <1>2, <1>3 DEF MovesOf
<1> DEFINE U == {n \in Nodes(f) : g[n] \notin Seq({0, 1})}
<1>5. U = {}
  <2>1. SUFFICES ASSUME U # {} PROVE FALSE
    OBVIOUS
  <2>2. U \subseteq Nat
    BY <1>2
  <2>3. PICK n \in U : \A m \in U : n <= m
    BY <2>1, <2>2, LeastNat
  <2>4. n # 1
    BY <1>4, EmptySeq
  <2>5. before(f, n) \in Nodes(f) /\ ~(n <= before(f, n))
    BY <1>2, <2>4
  <2>6. g[before(f, n)] \in Seq({0, 1}) /\ bit_of(f, n) \in {0, 1}
    BY <2>3, <2>5 DEF bit_of
  <2>7. g[n] \in Seq({0, 1})
    BY <1>4, <2>4, <2>6, PushSeq
  <2>8. QED
    BY <2>7
<1>6. \A n : Moves(f, n) = g[n]
  BY MovesIs DEF g
<1>7. QED
  BY <1>4, <1>5, <1>6

\* The smallest of numbers.
LEMMA MinIs ==
    ASSUME NEW S \in SUBSET Int, NEW m \in S, \A y \in S : m <= y
    PROVE  Min(S) = m
<1>1. \A y \in S : (\A z \in S : y <= z) => y = m
  OBVIOUS
<1>2. QED
  BY <1>1 DEF Min

\* The largest of numbers.
LEMMA MaxIs ==
    ASSUME NEW S \in SUBSET Int, NEW m \in S, \A y \in S : y <= m
    PROVE  Max(S) = m
<1>1. \A y \in S : (\A z \in S : y >= z) => y = m
  OBVIOUS
<1>2. QED
  BY <1>1 DEF Max

\* A bit that is pushed comes first.
LEMMA PushAt ==
    ASSUME NEW p \in Seq({0, 1}), NEW b \in {0, 1}
    PROVE  /\ push(p, b) \in Seq({0, 1}) /\ Len(push(p, b)) = 1 + Len(p) /\ Len(p) \in Nat
           /\ push(p, b)[1] = b /\ \A i \in 1..Len(p) : push(p, b)[i + 1] = p[i]
           /\ DOMAIN push(p, b) = 1..(1 + Len(p)) /\ DOMAIN p = 1..Len(p)
<1>1. push(p, b) = Cons(b, p)
  BY DEF push, Cons
<1> DEFINE q == Cons(b, p)
           n == Len(p)
<1>2. /\ q \in Seq({0, 1}) /\ Len(q) = 1 + n /\ n \in Nat
      /\ \A i \in 1..(1 + n) : q[i] = IF i = 1 THEN b ELSE p[i - 1]
  <2> DEFINE Bits == {0, 1}
  <2>1. p \in Seq(Bits) /\ b \in Bits
    OBVIOUS
  <2> HIDE DEF Bits
  <2>2. /\ q \in Seq(Bits) /\ Len(q) = 1 + n /\ n \in Nat
        /\ \A i \in 1..(1 + n) : q[i] = IF i = 1 THEN b ELSE p[i - 1]
    BY <2>1, ConsAt
  <2>3. QED
    BY <2>2 DEF Bits
<1>3. DOMAIN q = 1..Len(q) /\ DOMAIN p = 1..n
  BY <1>2, LenProperties
<1> HIDE DEF q, n
<1>4. q[1] = b
  BY <1>2
<1>5. ASSUME NEW i \in 1..n PROVE q[i + 1] = p[i]
  <2>1. i + 1 \in 1..(1 + n) /\ i + 1 # 1 /\ (i + 1) - 1 = i
    BY <1>2
  <2>2. QED
    BY <1>2, <2>1
<1>6. QED
  BY <1>1, <1>2, <1>3, <1>4, <1>5 DEF q, n

\* What is pushed is popped.
LEMMA PoppedPush ==
    ASSUME NEW p \in Seq({0, 1}), NEW b \in {0, 1}, NEW bit \in {0, 1}
    PROVE  Popped(push(p, b), bit) = IF b = bit THEN p ELSE Popped(p, bit)
<1> DEFINE q == push(p, b)
           n == Len(p)
           A == {i \in DOMAIN p : p[i] = bit}
           B == {i \in DOMAIN q : q[i] = bit}
<1>1. /\ q \in Seq({0, 1}) /\ Len(q) = 1 + n /\ n \in Nat
      /\ q[1] = b /\ \A i \in 1..n : q[i + 1] = p[i]
      /\ DOMAIN q = 1..(1 + n) /\ DOMAIN p = 1..n
  BY PushAt
<1>2. /\ Popped(q, bit) = IF \E i \in DOMAIN q : q[i] = bit THEN SubSeq(q, Min(B) + 1, Len(q)) ELSE no_path
      /\ Popped(p, bit) = IF \E i \in DOMAIN p : p[i] = bit THEN SubSeq(p, Min(A) + 1, Len(p)) ELSE no_path
  BY DEF Popped
<1>3. \A i \in 1..n : i \in A <=> i + 1 \in B
  <2>1. \A i \in 1..n : i + 1 \in 1..(1 + n)
    BY <1>1
  <2>2. QED
    BY <1>1, <2>1
<1>4. \A i \in B : i = 1 \/ (i - 1 \in A /\ i = (i - 1) + 1)
  <2> TAKE i \in B
  <2>1. CASE i # 1
    <3>1. i - 1 \in 1..n /\ i = (i - 1) + 1
      BY <1>1, <2>1
    <3>2. QED
      BY <1>3, <3>1
  <2>2. QED
    BY <2>1
<1>5. A \in SUBSET Int /\ B \in SUBSET Int /\ \A i \in A : i \in 1..n
  BY <1>1
<1>6. ASSUME NEW l \in 0..n PROVE SubSeq(q, l + 2, 1 + n) = SubSeq(p, l + 1, n)
  <2> DEFINE s == SubSeq(q, l + 2, 1 + n)
             t == SubSeq(p, l + 1, n)
  <2>1. /\ \A i \in l + 2..1 + n : i \in 1..Len(q)
        /\ \A i \in l + 1..n : i \in 1..Len(p)
    BY <1>1
  <2>2. /\ \A i \in l + 2..1 + n : q[i] \in {0, 1}
        /\ \A i \in l + 1..n : p[i] \in {0, 1}
    BY <1>1, <2>1, ElementOfSeq
  <2>3. l + 2 \in Int /\ 1 + n \in Int /\ l + 1 \in Int /\ n \in Int
    BY <1>1
  <2>4. /\ s \in Seq({0, 1}) /\ Len(s) = IF l + 2 <= 1 + n THEN (1 + n) - (l + 2) + 1 ELSE 0
        /\ \A i \in 1..(1 + n) - (l + 2) + 1 : s[i] = q[l + 2 + i - 1]
    BY <2>2, <2>3, SubSeqProperties
  <2>5. /\ t \in Seq({0, 1}) /\ Len(t) = IF l + 1 <= n THEN n - (l + 1) + 1 ELSE 0
        /\ \A i \in 1..n - (l + 1) + 1 : t[i] = p[l + 1 + i - 1]
    BY <2>2, <2>3, SubSeqProperties
  <2> HIDE DEF s, t
  <2>6. Len(s) = n - l /\ Len(t) = n - l
    <3>1. n \in Int /\ l \in Int /\ l <= n
      BY <1>1
    <3> HIDE DEF n
    <3>2. QED
      BY <2>4, <2>5, <3>1
  <2>7. ASSUME NEW i \in 1..n - l PROVE s[i] = t[i]
    <3>1. /\ i \in 1..(1 + n) - (l + 2) + 1 /\ i \in 1..n - (l + 1) + 1
          /\ l + 2 + i - 1 = (l + i) + 1 /\ l + 1 + i - 1 = l + i /\ l + i \in 1..n
      BY <1>1
    <3>2. s[i] = q[(l + i) + 1] /\ t[i] = p[l + i]
      BY <2>4, <2>5, <3>1
    <3>3. QED
      BY <1>1, <3>1, <3>2
  <2>8. s = t
    BY <2>4, <2>5, <2>6, <2>7, SeqEqual
  <2>9. QED
    BY <2>8 DEF s, t
<1>7. CASE b = bit
  <2>1. 1 \in B /\ \A i \in B : 1 <= i
    BY <1>1, <1>7
  <2>2. Min(B) = 1
    <3> HIDE DEF B
    <3>1. QED
      BY <1>5, <2>1, MinIs
  <2>3. Popped(q, bit) = SubSeq(q, 0 + 2, 1 + n)
    <3>1. \E i \in DOMAIN q : q[i] = bit
      BY <2>1
    <3>2. Min(B) + 1 = 0 + 2
      BY <2>2
    <3>3. Popped(q, bit) = SubSeq(q, Min(B) + 1, Len(q))
      BY <1>2, <3>1
    <3>4. QED
      BY <1>1, <3>2, <3>3
  <2>4. SubSeq(q, 0 + 2, 1 + n) = SubSeq(p, 0 + 1, n)
    <3>1. 0 \in 0..n
      BY <1>1
    <3>2. QED
      BY <1>6, <3>1
  <2>5. SubSeq(p, 0 + 1, n) = p
    BY SubSeqFull
  <2>6. QED
    BY <1>7, <2>3, <2>4, <2>5
<1>8. CASE b # bit
  <2>1. 1 \notin B
    BY <1>1, <1>8
  <2>2. CASE A = {}
    <3>1. B = {}
      BY <1>4, <2>1, <2>2
    <3>2. (~ \E i \in DOMAIN q : q[i] = bit) /\ (~ \E i \in DOMAIN p : p[i] = bit)
      BY <2>2, <3>1
    <3>3. QED
      BY <1>2, <1>8, <3>2
  <2>3. CASE A # {}
    <3>1. PICK m \in A : \A y \in A : m <= y
      <4>1. A \in SUBSET Nat
        BY <1>1
      <4>2. QED
        BY <2>3, <4>1, LeastNat
    <3>2. m \in 1..n /\ m + 1 \in B
      BY <1>3, <1>5, <3>1
    <3>3. \A y \in B : m + 1 <= y
      BY <1>4, <1>5, <2>1, <3>1, <3>2
    <3>4. Min(A) = m /\ Min(B) = m + 1
      <4> HIDE DEF A, B
      <4>1. QED
        BY <1>5, <3>1, <3>2, <3>3, MinIs
    <3>5. (\E i \in DOMAIN q : q[i] = bit) /\ (\E i \in DOMAIN p : p[i] = bit)
      BY <3>1, <3>2
    <3>6. (m + 1) + 1 = m + 2 /\ m \in 0..n
      BY <1>1, <3>2
    <3>7. Popped(q, bit) = SubSeq(q, m + 2, 1 + n) /\ Popped(p, bit) = SubSeq(p, m + 1, n)
      BY <1>1, <1>2, <3>4, <3>5, <3>6
    <3>8. QED
      BY <1>6, <1>8, <3>6, <3>7
  <2>4. QED
    BY <2>2, <2>3
<1>9. QED
  BY <1>7, <1>8

\* A path under its mark.
LEMMA Marked ==
    ASSUME NEW s \in Seq({0, 1})
    PROVE  /\ Append(s, 1) \in Seq({0, 1}) /\ Front(Append(s, 1)) = s /\ valid(Append(s, 1))
           /\ Len(Append(s, 1)) = Len(s) + 1 /\ Len(s) \in Nat
           /\ \A b \in {0, 1} : Append(push(s, b), 1) = push(Append(s, 1), b)
<1> DEFINE p == Append(s, 1)
<1>1. 1 \in {0, 1} /\ Len(s) \in Nat
  BY LenProperties
<1>2. /\ p \in Seq({0, 1}) /\ Len(p) = Len(s) + 1
      /\ \A i \in 1..Len(s) : p[i] = s[i]
      /\ p[Len(s) + 1] = 1
  BY <1>1, AppendProperties
<1> HIDE DEF p
<1>3. p # <<>>
  BY <1>1, <1>2, EmptySeq
<1>4. valid(p)
  BY <1>2, <1>3 DEF valid, no_path, Last
<1>5. Front(p) = s
  <2>1. Front(p) \in Seq({0, 1}) /\ Len(Front(p)) = Len(s) /\ \A j \in 1..Len(s) : Front(p)[j] = s[j]
    <3>1. /\ Front(p) \in Seq({0, 1}) /\ Len(Front(p)) = Len(p) - 1
          /\ \A j \in 1..(Len(p) - 1) : Front(p)[j] = p[j]
      BY <1>2, <1>3, FrontSeq
    <3>2. Len(p) - 1 = Len(s)
      BY <1>1, <1>2
    <3>3. QED
      BY <1>2, <3>1, <3>2
  <2>2. QED
    BY <2>1, SeqEqual
<1>6. ASSUME NEW b \in {0, 1} PROVE Append(push(s, b), 1) = push(Append(s, 1), b)
  <2>1. <<b>> \in Seq({0, 1}) /\ <<1>> \in Seq({0, 1})
    OBVIOUS
  <2>2. <<b>> \o s \in Seq({0, 1})
    BY <2>1, ConcatProperties
  <2>3. Append(<<b>> \o s, 1) = (<<b>> \o s) \o <<1>> /\ Append(s, 1) = s \o <<1>>
    BY <1>1, <2>2, AppendIsConcat
  <2>4. (<<b>> \o s) \o <<1>> = <<b>> \o (s \o <<1>>)
    BY <2>1, ConcatAssociative
  <2>5. QED
    BY <2>3, <2>4 DEF push
<1>7. QED
  BY <1>1, <1>2, <1>4, <1>5, <1>6 DEF p

\* A path is made of the one to the node before and the move from there.
LEMMA PathStep ==
    ASSUME NEW f \in Forests, MaxNodes \in Nat
    PROVE  /\ bitpath_t(f, 1) = first_bitpath
           /\ \A n \in Nodes(f) :
                 /\ bitpath_t(f, n) \in Seq({0, 1}) /\ valid(bitpath_t(f, n))
                 /\ Front(bitpath_t(f, n)) = Moves(f, n) /\ Moves(f, n) \in Seq({0, 1})
                 /\ Len(bitpath_t(f, n)) = Len(Moves(f, n)) + 1 /\ Len(Moves(f, n)) \in Nat
           /\ \A n \in Nodes(f) \ {1} :
                 bitpath_t(f, n) = push(bitpath_t(f, before(f, n)), bit_of(f, n))
<1>1. /\ Moves(f, 1) = <<>> /\ \A n \in Nodes(f) : Moves(f, n) \in Seq({0, 1})
      /\ \A n \in Nodes(f) \ {1} : Moves(f, n) = push(Moves(f, before(f, n)), bit_of(f, n))
  BY MovesStep
<1>2. \A n : bitpath_t(f, n) = Append(Moves(f, n), 1)
  BY DEF bitpath_t
<1>3. bitpath_t(f, 1) = first_bitpath
  <2>1. Append(<<>>, 1) = <<1>>
    OBVIOUS
  <2>2. QED
    BY <1>1, <1>2, <2>1 DEF first_bitpath
<1>4. ASSUME NEW n \in Nodes(f)
      PROVE  /\ bitpath_t(f, n) \in Seq({0, 1}) /\ valid(bitpath_t(f, n))
             /\ Front(bitpath_t(f, n)) = Moves(f, n) /\ Moves(f, n) \in Seq({0, 1})
             /\ Len(bitpath_t(f, n)) = Len(Moves(f, n)) + 1 /\ Len(Moves(f, n)) \in Nat
  BY <1>1, <1>2, Marked
<1>5. ASSUME NEW n \in Nodes(f) \ {1}
      PROVE  bitpath_t(f, n) = push(bitpath_t(f, before(f, n)), bit_of(f, n))
  <2>1. before(f, n) \in Nodes(f) /\ bit_of(f, n) \in {0, 1}
    BY OneIsBefore DEF bit_of
  <2>2. Moves(f, before(f, n)) \in Seq({0, 1})
    BY <1>1, <2>1
  <2> DEFINE s == Moves(f, before(f, n))
             b == bit_of(f, n)
  <2>3. Append(push(s, b), 1) = push(Append(s, 1), b)
    BY <2>1, <2>2, Marked
  <2>4. Moves(f, n) = push(s, b)
    BY <1>1
  <2>5. QED
    BY <1>2, <2>3, <2>4
<1>6. QED
  BY <1>3, <1>4, <1>5

\* Where traverse gets from a node, and after how many moves.
Stepped(f, at, bit) ==
    IF edge(f, at) = "trailing" THEN at
    ELSE IF bit = 1 THEN trailing_of(f, at) + 1 ELSE at + 1
ReachedOf(f, bits, g, k) == IF k = 0 THEN 1 ELSE Stepped(f, g[k - 1], bits[Len(bits) + 1 - k])
Reached(f, bits) == CHOOSE g : g = [k \in 0..Len(bits) |-> ReachedOf(f, bits, g, k)]

\* traverse is a recursive function of the moves made.
LEMMA TraverseIs ==
    ASSUME NEW f, NEW p
    PROVE  traverse(p, f) = Reached(f, Front(p))[Len(Front(p))]
BY DEF traverse, Reached, ReachedOf, Stepped

\* Nodes are reached one after another.
LEMMA ReachedStep ==
    ASSUME NEW f, NEW bits, Len(bits) \in Nat
    PROVE  /\ Reached(f, bits)[0] = 1
           /\ \A k \in 1..Len(bits) :
                 Reached(f, bits)[k] = Stepped(f, Reached(f, bits)[k - 1], bits[Len(bits) + 1 - k])
<1> DEFINE N == Len(bits)
           P(k) == \E g : g = [j \in 0..k |-> ReachedOf(f, bits, g, j)]
<1>1. P(0)
  <2> DEFINE g == [j \in 0..0 |-> 1]
  <2>1. \A j \in 0..0 : ReachedOf(f, bits, g, j) = 1
    BY DEF ReachedOf
  <2>2. g = [j \in 0..0 |-> ReachedOf(f, bits, g, j)]
    BY <2>1
  <2>3. QED
    BY <2>2
<1>2. ASSUME NEW k \in Nat, P(k) PROVE P(k + 1)
  <2>1. PICK g : g = [j \in 0..k |-> ReachedOf(f, bits, g, j)]
    BY <1>2
  <2>2. \A j \in 0..k : g[j] = ReachedOf(f, bits, g, j)
    BY <2>1
  <2> DEFINE h == [j \in 0..k + 1 |-> IF j = k + 1 THEN ReachedOf(f, bits, g, j) ELSE g[j]]
  <2>3. \A j \in 0..k + 1 : j = 0 \/ (j - 1 \in 0..k + 1 /\ j - 1 # k + 1)
    OBVIOUS
  <2>4. \A j \in 0..k + 1 : ReachedOf(f, bits, h, j) = ReachedOf(f, bits, g, j)
    <3> TAKE j \in 0..k + 1
    <3>1. j # 0 => h[j - 1] = g[j - 1]
      BY <2>3
    <3> HIDE DEF h
    <3>2. QED
      BY <3>1 DEF ReachedOf
  <2>5. \A j \in 0..k + 1 : j = k + 1 \/ j \in 0..k
    OBVIOUS
  <2>6. \A j \in 0..k + 1 : h[j] = ReachedOf(f, bits, g, j)
    BY <2>2, <2>5
  <2>7. \A j \in 0..k + 1 : h[j] = ReachedOf(f, bits, h, j)
    BY <2>4, <2>6
  <2>8. h = [j \in 0..k + 1 |-> h[j]]
    OBVIOUS
  <2> HIDE DEF h
  <2>9. h = [j \in 0..k + 1 |-> ReachedOf(f, bits, h, j)]
    BY <2>7, <2>8
  <2>10. QED
    BY <2>9
<1> DEFINE U == {k \in Nat : ~P(k)}
<1>3. U = {}
  <2>1. SUFFICES ASSUME U # {} PROVE FALSE
    OBVIOUS
  <2>2. PICK k \in U : \A m \in U : k <= m
    BY <2>1, LeastNat
  <2> HIDE DEF P
  <2>3. k \in Nat \ {0}
    BY <1>1
  <2>4. k - 1 \in Nat /\ (k - 1) + 1 = k /\ ~(k <= k - 1)
    BY <2>3
  <2>5. P(k - 1)
    BY <2>2, <2>4
  <2>6. P(k)
    BY <1>2, <2>4, <2>5
  <2>7. QED
    BY <2>2, <2>6
<1>4. P(N)
  <2> HIDE DEF P
  <2>1. QED
    BY <1>3
<1> DEFINE r == Reached(f, bits)
<1>5. r = [k \in 0..N |-> ReachedOf(f, bits, r, k)]
  BY <1>4 DEF Reached
<1> HIDE DEF r
<1>6. \A k \in 0..N : r[k] = ReachedOf(f, bits, r, k)
  BY <1>5
<1>7. 0 \in 0..N /\ \A k \in 1..N : k \in 0..N /\ k # 0
  OBVIOUS
<1>8. QED
  BY <1>6, <1>7 DEF r, ReachedOf

\* The moves to the node before reach it; the last move goes on from there.
LEMMA ReachedPush ==
    ASSUME NEW f, NEW bits \in Seq({0, 1}), NEW b \in {0, 1}
    PROVE  Reached(f, push(bits, b))[Len(bits) + 1] = Stepped(f, Reached(f, bits)[Len(bits)], b)
<1> DEFINE N == Len(bits)
           q == push(bits, b)
           r == Reached(f, bits)
           t == Reached(f, q)
<1>1. /\ Len(q) = 1 + N /\ N \in Nat /\ q[1] = b /\ \A i \in 1..N : q[i + 1] = bits[i]
  BY PushAt
<1>2. r[0] = 1 /\ \A k \in 1..N : r[k] = Stepped(f, r[k - 1], bits[N + 1 - k])
  BY <1>1, ReachedStep
<1>3. t[0] = 1 /\ \A k \in 1..1 + N : t[k] = Stepped(f, t[k - 1], q[1 + N + 1 - k])
  <2>1. Len(q) \in Nat
    BY <1>1
  <2> HIDE DEF q
  <2>2. t[0] = 1 /\ \A k \in 1..Len(q) : t[k] = Stepped(f, t[k - 1], q[Len(q) + 1 - k])
    BY <2>1, ReachedStep
  <2>3. QED
    BY <1>1, <2>2
<1> HIDE DEF N, q, r, t
<1> DEFINE U == {k \in 0..N : t[k] # r[k]}
<1>4. U = {}
  <2>1. SUFFICES ASSUME U # {} PROVE FALSE
    OBVIOUS
  <2>2. U \subseteq Nat
    BY <1>1
  <2>3. PICK k \in U : \A m \in U : k <= m
    BY <2>1, <2>2, LeastNat
  <2>4. k # 0 /\ k \in 0..N /\ t[k] # r[k]
    BY <1>2, <1>3, <2>3
  <2>5. /\ k \in 1..N /\ k \in 1..1 + N /\ k - 1 \in 0..N /\ ~(k <= k - 1)
        /\ 1 + N + 1 - k = (N + 1 - k) + 1 /\ N + 1 - k \in 1..N
    BY <1>1, <2>4
  <2>6. t[k - 1] = r[k - 1]
    BY <2>3, <2>5
  <2>7. q[1 + N + 1 - k] = bits[N + 1 - k]
    BY <1>1, <2>5
  <2>8. QED
    BY <1>2, <1>3, <2>4, <2>5, <2>6, <2>7
<1>5. /\ N + 1 \in 1..1 + N /\ (N + 1) - 1 = N /\ 1 + N + 1 - (N + 1) = 1 /\ N \in 0..N
  BY <1>1
<1>6. t[N + 1] = Stepped(f, t[N], b)
  BY <1>1, <1>3, <1>5
<1>7. t[N] = r[N]
  BY <1>4, <1>5
<1>8. QED
  BY <1>6, <1>7 DEF N, q, r, t

\* traverse: the path to a node leads to it.
LEMMA TraversePath ==
    ASSUME NEW f \in Forests, MaxNodes \in Nat, NEW n \in Nodes(f)
    PROVE  traverse(bitpath_t(f, n), f) = n
<1> DEFINE at(m) == Reached(f, Moves(f, m))[Len(Moves(f, m))]
<1>1. \A m \in Nodes(f) : traverse(bitpath_t(f, m), f) = at(m)
  BY TraverseIs, PathStep
<1>2. at(1) = 1
  <2>1. Moves(f, 1) = <<>> /\ Len(<<>>) = 0
    BY MovesStep
  <2>2. Reached(f, <<>>)[0] = 1
    <3>1. Len(<<>>) \in Nat
      BY <2>1
    <3>2. QED
      BY <3>1, ReachedStep
  <2>3. QED
    BY <2>1, <2>2
<1>3. ASSUME NEW m \in Nodes(f) \ {1}, at(before(f, m)) = before(f, m) PROVE at(m) = m
  <2> DEFINE k == before(f, m)
             b == bit_of(f, m)
             bits == Moves(f, k)
  <2>1. /\ k \in Nodes(f) /\ b \in {0, 1} /\ k \in Int /\ m \in Int
        /\ edge(f, m - 1) \in {"leading", "trailing"}
        /\ edge(f, m - 1) = "leading" => k = m - 1 /\ b = 0
        /\ edge(f, m - 1) = "trailing" => trailing_of(f, k) = m - 1 /\ b = 1
    BY OneIsBefore DEF bit_of
  <2>2. bits \in Seq({0, 1}) /\ Moves(f, m) = push(bits, b)
    BY <2>1, MovesStep
  <2>3. Len(Moves(f, m)) = Len(bits) + 1
    BY <2>1, <2>2, PushAt
  <2> HIDE DEF k, b, bits
  <2>4. at(m) = Stepped(f, Reached(f, bits)[Len(bits)], b)
    BY <2>1, <2>2, <2>3, ReachedPush
  <2>5. at(k) = k
    BY <1>3 DEF k
  <2>6. at(m) = Stepped(f, k, b)
    BY <2>4, <2>5 DEF bits
  <2>7. edge(f, k) = "leading"
    <3>1. k \in 1..Len(f) /\ f[k] = "leading"
      BY <2>1, OneIsBefore
    <3>2. Len(f) \in Nat
      BY ForestsWalk DEF Walk
    <3>3. QED
      BY <3>1, <3>2 DEF edge
  <2> HIDE DEF at
  <2>8. QED
    BY <2>1, <2>6, <2>7 DEF Stepped
<1> HIDE DEF at
<1> DEFINE U == {m \in Nodes(f) : at(m) # m}
<1>4. U = {}
  <2>1. SUFFICES ASSUME U # {} PROVE FALSE
    OBVIOUS
  <2>2. U \subseteq Nat
    BY OneIsBefore
  <2>3. PICK m \in U : \A k \in U : m <= k
    BY <2>1, <2>2, LeastNat
  <2>4. m # 1
    BY <1>2
  <2>5. before(f, m) \in Nodes(f) /\ before(f, m) < m
    BY <2>4, OneIsBefore
  <2>6. before(f, m) \notin U
    BY <2>2, <2>3, <2>5
  <2>7. QED
    BY <1>3, <2>4, <2>5, <2>6
<1>5. QED
  BY <1>1, <1>4

\* The nodes a node is inside of.
Ancestors(f, n) == {a \in Nodes(f) : a < n /\ trailing_of(f, a) > n}

\* A sibling has the ancestors of the sibling before.
LEMMA SiblingAncestors ==
    ASSUME NEW f \in Forests, MaxNodes \in Nat, NEW n \in Nodes(f), NEW s \in Nodes(f),
           trailing_of(f, s) = n - 1
    PROVE  Ancestors(f, n) = Ancestors(f, s)
<1> DEFINE N == Len(f)
           D(j) == Depth(f, j)
           end(a) == trailing_of(f, a)
<1>1. N \in Nat /\ \A j \in 0..N : D(j) \in Nat
  BY ForestsWalk DEF Walk
<1>2. \A a : a \in Nodes(f) <=> a \in 1..N /\ f[a] = "leading"
  BY DEF Nodes
<1>3. \A a \in Nodes(f) :
         /\ end(a) \in a + 1..N /\ f[end(a)] = "trailing" /\ D(end(a)) = D(a - 1)
         /\ \A k \in a..end(a) - 1 : D(k) > D(a - 1)
  BY TrailingIsWhereDown
<1> HIDE DEF D, end
<1>4. s \in 1..N /\ n \in 1..N /\ s < n - 1 /\ D(n - 1) = D(s - 1) /\ n - 1 \in 0..N /\ s - 1 \in 0..N
  <2>1. end(s) = n - 1
    BY DEF end
  <2>2. s \in 1..N /\ n \in 1..N /\ end(s) \in s + 1..N /\ D(end(s)) = D(s - 1)
    BY <1>2, <1>3
  <2>3. QED
    BY <1>1, <2>1, <2>2
<1>5. f[n] = "leading" /\ f[n - 1] = "trailing" /\ \A k \in s..n - 2 : D(k) > D(s - 1)
  <2>1. end(s) = n - 1 /\ (n - 1) - 1 = n - 2
    BY <1>4 DEF end
  <2>2. QED
    BY <1>2, <1>3, <2>1
<1>6. ASSUME NEW a \in Nodes(f), a < s, end(a) > s PROVE a < n /\ end(a) > n
  <2>1. a \in 1..N /\ end(a) \in a + 1..N /\ a - 1 \in 0..N
    BY <1>1, <1>2, <1>3
  <2>2. D(a - 1) \in Nat /\ D(s - 1) \in Nat
    BY <1>1, <1>4, <2>1
  <2>3. D(s - 1) > D(a - 1)
    <3>1. s - 1 \in a..end(a) - 1
      BY <1>4, <1>6, <2>1
    <3>2. QED
      BY <1>3, <3>1
  <2>4. D(end(a)) = D(a - 1)
    BY <1>3
  <2>5. end(a) # n - 1
    BY <1>4, <2>2, <2>3, <2>4
  <2>6. ~(end(a) \in s..n - 2)
    <3>1. SUFFICES ASSUME end(a) \in s..n - 2 PROVE FALSE
      OBVIOUS
    <3>2. D(a - 1) > D(s - 1)
      BY <1>5, <2>4, <3>1
    <3>3. QED
      BY <2>2, <2>3, <3>2
  <2>7. end(a) # n
    BY <1>3, <1>5
  <2>8. QED
    BY <1>4, <1>6, <2>1, <2>5, <2>6, <2>7
<1>7. ASSUME NEW a \in Nodes(f), a < n, end(a) > n PROVE a < s /\ end(a) > s
  <2>1. a \in 1..N /\ end(a) \in a + 1..N /\ a - 1 \in 0..N
    BY <1>1, <1>2, <1>3
  <2>2. D(a - 1) \in Nat /\ D(s - 1) \in Nat
    BY <1>1, <1>4, <2>1
  <2>3. a # n - 1
    BY <1>2, <1>5
  <2>4. a # s
    <3>1. end(s) = n - 1
      BY DEF end
    <3>2. QED
      BY <1>4, <1>7, <3>1
  <2>5. ~(a \in s + 1..n - 2)
    <3>1. SUFFICES ASSUME a \in s + 1..n - 2 PROVE FALSE
      OBVIOUS
    <3>2. a - 1 \in s..n - 2 /\ n - 1 \in a..end(a) - 1
      BY <1>4, <1>7, <2>1, <3>1
    <3>3. D(a - 1) > D(s - 1) /\ D(n - 1) > D(a - 1)
      BY <1>3, <1>5, <3>2
    <3>4. QED
      BY <1>4, <2>2, <3>3
  <2>6. QED
    BY <1>4, <1>7, <2>1, <2>3, <2>4, <2>5
<1>8. QED
  BY <1>6, <1>7 DEF Ancestors, end

\* parent_of: above the first move to a child is the parent's path.
LEMMA ParentPath ==
    ASSUME NEW f \in Forests, MaxNodes \in Nat, NEW n \in Nodes(f), Ancestors(f, n) # {}
    PROVE  /\ Max(Ancestors(f, n)) \in Nodes(f)
           /\ parent_of(bitpath_t(f, n)) = bitpath_t(f, Max(Ancestors(f, n)))
<1> DEFINE Good(m) ==
             Ancestors(f, m) # {} =>
                 /\ Max(Ancestors(f, m)) \in Nodes(f)
                 /\ Popped(bitpath_t(f, m), 0) = bitpath_t(f, Max(Ancestors(f, m)))
<1>1. /\ 1 \in Nodes(f) /\ Nodes(f) \subseteq Nat
      /\ \A m \in Nodes(f) \ {1} :
            /\ before(f, m) \in Nodes(f) /\ before(f, m) < m
            /\ edge(f, m - 1) \in {"leading", "trailing"}
            /\ edge(f, m - 1) = "leading" => before(f, m) = m - 1 /\ bit_of(f, m) = 0
            /\ edge(f, m - 1) = "trailing" =>
                  trailing_of(f, before(f, m)) = m - 1 /\ bit_of(f, m) = 1
  BY OneIsBefore
<1>2. Good(1)
  <2>1. Ancestors(f, 1) = {}
    <3>1. \A a \in Nodes(f) : ~(a < 1)
      BY OneIsBefore
    <3>2. QED
      BY <3>1 DEF Ancestors
  <2>2. QED
    BY <2>1
<1>3. ASSUME NEW m \in Nodes(f) \ {1}, Good(before(f, m)) PROVE Good(m)
  <2> DEFINE k == before(f, m)
             p == bitpath_t(f, k)
             b == bit_of(f, m)
  <2>1. k \in Nodes(f) /\ b \in {0, 1} /\ m \in Nat /\ k \in Nat
    BY <1>1 DEF bit_of
  <2>2. p \in Seq({0, 1}) /\ bitpath_t(f, m) = push(p, b)
    BY <2>1, PathStep
  <2>3. Popped(bitpath_t(f, m), 0) = IF b = 0 THEN p ELSE Popped(p, 0)
    <3> HIDE DEF p, b
    <3>1. 0 \in {0, 1}
      OBVIOUS
    <3>2. QED
      BY <2>1, <2>2, <3>1, PoppedPush
  <2>4. CASE edge(f, m - 1) = "leading"
    <3>1. k = m - 1 /\ b = 0
      BY <1>1, <2>4
    <3>2. k \in Ancestors(f, m)
      <4>1. /\ trailing_of(f, k) \in k + 1..Len(f) /\ f[trailing_of(f, k)] = "trailing"
            /\ f[m] = "leading" /\ Len(f) \in Nat
        <5>1. Len(f) \in Nat
          BY ForestsWalk DEF Walk
        <5>2. QED
          BY <2>1, <5>1, OneIsBefore, TrailingIsWhereDown
      <4>2. trailing_of(f, k) # m
        BY <4>1
      <4>3. k < m /\ trailing_of(f, k) > m
        BY <2>1, <3>1, <4>1, <4>2
      <4>4. QED
        BY <2>1, <4>3 DEF Ancestors
    <3>3. \A a \in Ancestors(f, m) : a <= k
      BY <1>1, <2>1, <3>1 DEF Ancestors
    <3>4. Max(Ancestors(f, m)) = k
      <4>1. Ancestors(f, m) \in SUBSET Int
        BY <1>1 DEF Ancestors
      <4> HIDE DEF k
      <4>2. QED
        BY <3>2, <3>3, <4>1, MaxIs
    <3>5. QED
      BY <2>1, <2>3, <3>1, <3>4
  <2>5. CASE edge(f, m - 1) = "trailing"
    <3>1. trailing_of(f, k) = m - 1 /\ b = 1
      BY <1>1, <2>5
    <3>2. Ancestors(f, m) = Ancestors(f, k)
      BY <2>1, <3>1, SiblingAncestors
    <3>3. QED
      BY <1>3, <2>3, <3>1, <3>2
  <2>6. QED
    BY <1>1, <2>4, <2>5
<1> HIDE DEF Good
<1> DEFINE U == {m \in Nodes(f) : ~Good(m)}
<1>4. U = {}
  <2>1. SUFFICES ASSUME U # {} PROVE FALSE
    OBVIOUS
  <2>2. U \subseteq Nat
    BY <1>1
  <2>3. PICK m \in U : \A k \in U : m <= k
    BY <2>1, <2>2, LeastNat
  <2>4. m # 1
    BY <1>2
  <2>5. before(f, m) \in Nodes(f) /\ before(f, m) < m
    BY <1>1, <2>4
  <2>6. before(f, m) \notin U
    BY <2>2, <2>3, <2>5
  <2>7. QED
    BY <1>3, <2>4, <2>5, <2>6
<1>5. Good(n)
  BY <1>4
<1>6. QED
  BY <1>5 DEF Good, parent_of

\* What a client keeps: a forest, one of its nodes, and the node's path.
WalkInv ==
    /\ edges \in Forests /\ node \in Nodes(edges)
    /\ path = bitpath_t(edges, node)

\* Every move keeps the path.
LEMMA WalkStep ==
    ASSUME MaxNodes \in Nat, WalkInv, BitpathNext
    PROVE  WalkInv'
<1> DEFINE N == Len(edges)
<1>1. edges \in Forests /\ node \in Nodes(edges) /\ path = bitpath_t(edges, node)
  BY DEF WalkInv
<1>2. N \in Nat /\ node \in 1..N /\ edges[node] = "leading"
  <2>1. N \in Nat
    BY <1>1, ForestsWalk DEF Walk
  <2>2. QED
    BY <1>1, <2>1, OneIsBefore
<1>3. ASSUME NEW i \in 1..N + 1, edge(edges, i) = "leading" PROVE i \in Nodes(edges)
  BY <1>2, <1>3 DEF edge, Nodes
<1>4. ASSUME NEW n \in Nodes(edges), NEW along, Walks(n, along), along = bitpath_t(edges, n)
      PROVE  WalkInv'
  BY <1>1, <1>4 DEF Walks, WalkInv
<1>5. CASE to_first_child
  <2> DEFINE n == node + 1
  <2>1. edge(edges, n) = "leading" /\ Walks(n, push(path, 0))
    BY <1>5 DEF to_first_child, has_children, first_child_of
  <2>2. n \in Nodes(edges) \ {1} /\ n - 1 = node
    BY <1>2, <1>3, <2>1
  <2>3. before(edges, n) = node /\ bit_of(edges, n) = 0
    <3>1. edge(edges, n - 1) = "leading"
      BY <1>2, <2>2 DEF edge
    <3>2. QED
      BY <1>1, <2>2, <3>1, OneIsBefore
  <2>4. bitpath_t(edges, n) = push(path, 0)
    BY <1>1, <2>2, <2>3, PathStep
  <2>5. QED
    BY <1>4, <2>1, <2>2, <2>4
<1>6. CASE to_next_sibling
  <2> DEFINE t == trailing_of(edges, node)
             n == t + 1
  <2>1. edge(edges, n) = "leading" /\ Walks(n, push(path, 1))
    BY <1>6 DEF to_next_sibling, has_next_sibling, next_sibling_of
  <2>2. t \in node + 1..N /\ edges[t] = "trailing" /\ leading_of(edges, t) = node
    BY <1>1, TrailingIsWhereDown, LeadingOf
  <2>3. n \in Nodes(edges) \ {1} /\ n - 1 = t
    BY <1>2, <1>3, <2>1, <2>2
  <2>4. before(edges, n) = node /\ bit_of(edges, n) = 1
    <3>1. edge(edges, t) = "trailing"
      BY <1>2, <2>2 DEF edge
    <3>2. QED
      BY <2>2, <2>3, <3>1 DEF before, bit_of
  <2>5. bitpath_t(edges, n) = push(path, 1)
    BY <1>1, <2>3, <2>4, PathStep
  <2>6. QED
    BY <1>4, <2>1, <2>3, <2>5
<1>7. CASE to_prior_sibling
  <2> DEFINE n == before(edges, node)
  <2>1. edge(edges, node - 1) = "trailing" /\ Walks(n, Popped(path, 1))
    BY <1>7 DEF to_prior_sibling, prior_sibling_of, before
  <2>2. node # 1
    <3>1. edge(edges, 0) = "leading"
      BY DEF edge
    <3>2. QED
      BY <2>1, <3>1
  <2>3. n \in Nodes(edges) /\ bit_of(edges, node) = 1
    BY <1>1, <2>1, <2>2, OneIsBefore
  <2> DEFINE p == bitpath_t(edges, n)
  <2>4. p \in Seq({0, 1}) /\ path = push(p, 1)
    BY <1>1, <2>2, <2>3, PathStep
  <2>5. Popped(path, 1) = p
    <3> HIDE DEF p
    <3>1. 1 \in {0, 1}
      OBVIOUS
    <3>2. QED
      BY <2>4, <3>1, PoppedPush
  <2>6. QED
    BY <1>4, <2>1, <2>3, <2>5
<1>8. CASE to_parent
  <2> DEFINE n == Max(Ancestors(edges, node))
  <2>1. Ancestors(edges, node) # {} /\ Walks(n, parent_of(path))
    BY <1>8 DEF to_parent, Ancestors
  <2>2. n \in Nodes(edges) /\ parent_of(path) = bitpath_t(edges, n)
    BY <1>1, <2>1, ParentPath
  <2>3. QED
    BY <1>4, <2>1, <2>2
<1>9. QED
  BY <1>5, <1>6, <1>7, <1>8 DEF BitpathNext

\* So it is the path of the node whatever moves are made.
LEMMA WalkInvariance == BitpathSpec => []WalkInv
<1>1. MaxNodes \in Nat
  BY BitpathAssumption
<1>2. BitpathInit => WalkInv
  <2>1. SUFFICES ASSUME BitpathInit PROVE WalkInv
    OBVIOUS
  <2>2. edges \in Forests /\ node = 1 /\ path = first_bitpath
    BY <2>1 DEF BitpathInit
  <2>3. QED
    BY <1>1, <2>2, OneIsBefore, PathStep DEF WalkInv
<1>3. WalkInv /\ [BitpathNext]_bitpath_vars => WalkInv'
  <2>1. SUFFICES ASSUME WalkInv, [BitpathNext]_bitpath_vars PROVE WalkInv'
    OBVIOUS
  <2>2. CASE BitpathNext
    BY <1>1, <2>1, <2>2, WalkStep
  <2>3. CASE UNCHANGED bitpath_vars
    BY <2>1, <2>3 DEF WalkInv, bitpath_vars
  <2>4. QED
    BY <2>1, <2>2, <2>3
<1>4. QED
  BY <1>2, <1>3, PTL DEF BitpathSpec

\* A path passes through what it is, and through what it passes before its last move.
LEMMA PassesPush ==
    ASSUME NEW p \in Seq({0, 1}), NEW c \in Seq({0, 1}), valid(p), valid(c), NEW b \in {0, 1}
    PROVE  passes_through(push(p, b), c) <=> c = push(p, b) \/ passes_through(p, c)
<1> DEFINE q == push(p, b)
           n == Len(p)
           m == Len(c)
<1>1. /\ q \in Seq({0, 1}) /\ Len(q) = 1 + n /\ n \in Nat
      /\ q[1] = b /\ \A i \in 1..n : q[i + 1] = p[i]
  BY PushAt
<1>2. DOMAIN c = 1..m /\ m \in Nat /\ m # 0 /\ n # 0
  <2>1. p # <<>> /\ c # <<>>
    BY DEF valid, no_path
  <2>2. QED
    BY <2>1, LenProperties, EmptySeq
<1>3. valid(q)
  <2>1. p[n] = 1 /\ q[n + 1] = p[n]
    BY <1>1, <1>2 DEF valid, Last
  <2>2. q # <<>> /\ Len(q) = n + 1
    BY <1>1, EmptySeq
  <2> HIDE DEF q
  <2>3. QED
    BY <2>1, <2>2 DEF valid, Last, no_path
<1>4. /\ passes_through(q, c) <=> m <= 1 + n /\ \A i \in 1..m : q[(1 + n) - m + i] = c[i]
      /\ passes_through(p, c) <=> m <= n /\ \A i \in 1..m : p[n - m + i] = c[i]
  <2> HIDE DEF q
  <2> DEFINE l == 1 + n
  <2>1. Len(q) = l /\ Len(p) = n /\ Len(c) = m /\ DOMAIN c = 1..m
    BY <1>1, <1>2
  <2> HIDE DEF l, n, m
  <2>2. passes_through(q, c) <=> m <= l /\ \A i \in 1..m : q[l - m + i] = c[i]
    BY <1>3, <2>1, Zenon DEF passes_through
  <2>3. passes_through(p, c) <=> m <= n /\ \A i \in 1..m : p[n - m + i] = c[i]
    BY <2>1, Zenon DEF passes_through
  <2>4. QED
    BY <2>2, <2>3 DEF l
<1> HIDE DEF q, n, m
<1>5. CASE m > 1 + n
  <2>1. c # q
    BY <1>1, <1>2, <1>5 DEF m
  <2>2. QED
    BY <1>1, <1>2, <1>4, <1>5, <2>1 DEF q
<1>6. CASE m = 1 + n
  <2>1. \A i \in 1..m : (1 + n) - m + i = i
    BY <1>1, <1>2, <1>6
  <2>2. passes_through(q, c) <=> \A i \in 1..m : q[i] = c[i]
    BY <1>1, <1>2, <1>4, <1>6, <2>1
  <2>3. (\A i \in 1..m : q[i] = c[i]) <=> c = q
    BY <1>1, <1>6, SeqEqual DEF m
  <2>4. ~passes_through(p, c)
    BY <1>1, <1>2, <1>4, <1>6
  <2>5. QED
    BY <2>2, <2>3, <2>4 DEF q
<1>7. CASE m <= n
  <2>1. ASSUME NEW i \in 1..m PROVE q[(1 + n) - m + i] = p[n - m + i]
    <3>1. (1 + n) - m + i = (n - m + i) + 1 /\ n - m + i \in 1..n
      BY <1>1, <1>2, <1>7
    <3>2. QED
      BY <1>1, <3>1
  <2>2. passes_through(q, c) <=> passes_through(p, c)
    BY <1>1, <1>2, <1>4, <1>7, <2>1
  <2>3. c # q
    BY <1>1, <1>2, <1>7 DEF m
  <2>4. QED
    BY <2>2, <2>3 DEF q
<1>8. QED
  BY <1>1, <1>2, <1>5, <1>6, <1>7

\* One never goes below a node on the way through it.
StaysAbove(f, n, to) ==
    n <= to /\ \A k \in n - 1..to - 1 : Depth(f, k) >= Depth(f, n - 1)

\* That is what it is to be on the way.
LEMMA OnTheWayStaysAbove ==
    ASSUME edges \in Forests, MaxNodes \in Nat, NEW n \in Nodes(edges), NEW to \in Nodes(edges)
    PROVE  OnTheWay(n, to) <=> StaysAbove(edges, n, to)
<1> DEFINE N == Len(edges)
           D(j) == Depth(edges, j)
           end(a) == trailing_of(edges, a)
<1>1. /\ N \in Nat /\ \A j \in 0..N : D(j) \in Nat
      /\ \A j \in 1..N : edges[j] \in {"leading", "trailing"}
      /\ \A j \in 1..N : D(j) = IF edges[j] = "leading" THEN D(j - 1) + 1 ELSE D(j - 1) - 1
  BY ForestsWalk DEF Walk
<1>2. \A a : a \in Nodes(edges) <=> a \in 1..N /\ edges[a] = "leading"
  BY DEF Nodes
<1>3. \A a \in Nodes(edges) :
         /\ end(a) \in a + 1..N /\ D(end(a)) = D(a - 1)
         /\ \A k \in a..end(a) - 1 : D(k) > D(a - 1)
  BY TrailingIsWhereDown
<1>4. \A i \in 1..N, j \in 0..N : i <= j + 1 =>
         (Opened(edges, i, j) >= Closed(edges, i, j) <=> D(j) >= D(i - 1))
  <2> TAKE i \in 1..N, j \in 0..N
  <2> HAVE i <= j + 1
  <2>1. /\ Opened(edges, i, j) - Closed(edges, i, j) = D(j) - D(i - 1)
        /\ Opened(edges, i, j) \in Nat /\ Closed(edges, i, j) \in Int
    BY ForestsWalk
  <2>2. D(j) \in Nat /\ D(i - 1) \in Nat
    <3>1. i - 1 \in 0..N
      BY <1>1
    <3>2. QED
      BY <1>1, <3>1
  <2> HIDE DEF D
  <2>3. QED
    BY <2>1, <2>2
<1>5. n \in 1..N /\ to \in 1..N /\ edges[to] = "leading" /\ n - 1 \in 0..N
  BY <1>1, <1>2
<1>6. OnTheWay(n, to) <=>
         \/ n <= to /\ end(n) >= to
         \/ \E a \in Nodes(edges) :
               /\ a <= to /\ end(a) >= to /\ n < a
               /\ D(n - 1) = D(a - 1)
               /\ \A k \in n..a - 1 : Opened(edges, n, k) >= Closed(edges, n, k)
  BY DEF OnTheWay, Depth
<1>7. StaysAbove(edges, n, to) <=> n <= to /\ \A k \in n - 1..to - 1 : D(k) >= D(n - 1)
  BY DEF StaysAbove
<1> HIDE DEF D, end
<1>8. \A k \in 0..to : D(k) \in Nat
  BY <1>1, <1>5
<1>9. ASSUME NEW a \in Nodes(edges), a <= to, end(a) >= to
      PROVE  \A k \in a..to - 1 : D(k) > D(a - 1)
  <2>1. a \in 1..N /\ end(a) \in a + 1..N /\ \A k \in a..end(a) - 1 : D(k) > D(a - 1)
    BY <1>2, <1>3
  <2>2. \A k \in a..to - 1 : k \in a..end(a) - 1
    BY <1>1, <1>5, <1>9, <2>1
  <2>3. QED
    BY <2>1, <2>2
<1>10. ASSUME n <= to, end(n) >= to PROVE StaysAbove(edges, n, to)
  <2>1. \A k \in n..to - 1 : D(k) > D(n - 1)
    BY <1>9, <1>10
  <2>2. \A k \in n - 1..to - 1 : k \in 0..to /\ (k = n - 1 \/ k \in n..to - 1)
    BY <1>1, <1>5
  <2>3. D(n - 1) \in Nat
    BY <1>1, <1>5
  <2>4. \A k \in n - 1..to - 1 : D(k) >= D(n - 1)
    BY <1>8, <2>1, <2>2, <2>3
  <2>5. QED
    BY <1>7, <1>10, <2>4
<1>11. ASSUME NEW a \in Nodes(edges), a <= to, end(a) >= to, n < a, D(n - 1) = D(a - 1),
              \A k \in n..a - 1 : Opened(edges, n, k) >= Closed(edges, n, k)
       PROVE  StaysAbove(edges, n, to)
  <2>1. \A k \in a..to - 1 : D(k) > D(n - 1)
    BY <1>9, <1>11
  <2>2. a \in 1..N
    BY <1>2
  <2>3. \A k \in n..a - 1 : k \in 0..N /\ n <= k + 1
    BY <1>1, <1>5, <2>2
  <2>4. \A k \in n..a - 1 : D(k) >= D(n - 1)
    BY <1>4, <1>5, <1>11, <2>3
  <2>5. \A k \in n - 1..to - 1 : k \in 0..to /\ (k = n - 1 \/ k \in n..a - 1 \/ k \in a..to - 1)
    BY <1>1, <1>5, <1>11, <2>2
  <2>6. D(n - 1) \in Nat
    BY <1>1, <1>5
  <2>7. \A k \in n - 1..to - 1 : D(k) >= D(n - 1)
    BY <1>8, <2>1, <2>4, <2>5, <2>6
  <2>8. n <= to
    BY <1>1, <1>5, <1>11, <2>2
  <2>9. QED
    BY <1>7, <2>7, <2>8
<1>12. ASSUME StaysAbove(edges, n, to) PROVE OnTheWay(n, to)
  <2> DEFINE d == D(n - 1)
  <2>1. n <= to /\ d \in Nat /\ \A k \in n - 1..to - 1 : D(k) >= d /\ D(k) \in Nat
    <3>1. \A k \in n - 1..to - 1 : k \in 0..to
      BY <1>1, <1>5
    <3>2. QED
      BY <1>1, <1>5, <1>7, <1>8, <1>12, <3>1
  <2> HIDE DEF d
  <2> DEFINE U == {u \in 1..to : to - u \in n - 1..to - 1 /\ D(to - u) = d}
  <2>2. PICK u \in U : \A w \in U : u <= w
    <3>1. to - n + 1 \in U
      <4>1. to - (to - n + 1) = n - 1 /\ to - n + 1 \in 1..to
        BY <1>1, <1>5, <2>1
      <4>2. QED
        BY <1>5, <2>1, <4>1 DEF d
    <3>2. U \subseteq Nat
      BY <1>5
    <3>3. QED
      BY <3>1, <3>2, LeastNat
  <2> DEFINE a == to - u + 1
  <2>3. /\ u \in 1..to /\ a \in n..to /\ a \in Int /\ D(a - 1) = d
        /\ a - 1 = to - u /\ a \in 1..N
    BY <1>1, <1>5, <2>2
  <2>4. \A k \in a..to - 1 : D(k) > d
    <3> TAKE k \in a..to - 1
    <3>1. k \in n - 1..to - 1 /\ to - k \in 1..to /\ to - (to - k) = k /\ ~(u <= to - k)
      BY <1>1, <1>5, <2>3
    <3>2. to - k \notin U
      BY <2>2, <3>1
    <3>3. D(k) # d
      BY <3>1, <3>2
    <3>4. QED
      BY <2>1, <3>1, <3>3
  <2> HIDE DEF a
  <2>5. a \in Nodes(edges)
    <3>1. CASE a = to
      BY <3>1
    <3>2. CASE a # to
      <4>1. a \in a..to - 1 /\ a \in 0..N
        BY <1>1, <1>5, <2>3, <3>2
      <4>2. D(a) > d /\ D(a) \in Nat
        BY <1>1, <2>4, <4>1
      <4>3. edges[a] # "trailing"
        BY <1>1, <2>1, <2>3, <4>2
      <4>4. QED
        BY <1>1, <1>2, <2>3, <4>3
    <3>3. QED
      BY <3>1, <3>2
  <2>6. end(a) >= to
    <3>1. end(a) \in a + 1..N /\ D(end(a)) = d
      BY <1>3, <2>3, <2>5
    <3>2. ~(end(a) \in a..to - 1)
      BY <2>1, <2>4, <3>1
    <3>3. QED
      BY <1>1, <1>5, <2>3, <3>1, <3>2
  <2>7. CASE a = n
    BY <1>6, <2>1, <2>6, <2>7
  <2>8. CASE a # n
    <3>1. n < a /\ a <= to
      BY <1>5, <2>3, <2>8
    <3>2. \A k \in n..a - 1 : k \in 0..N /\ n <= k + 1 /\ k \in n - 1..to - 1
      BY <1>1, <1>5, <2>3
    <3>3. \A k \in n..a - 1 : Opened(edges, n, k) >= Closed(edges, n, k)
      BY <1>4, <1>5, <2>1, <3>2 DEF d
    <3>4. D(n - 1) = D(a - 1)
      BY <2>3 DEF d
    <3>5. QED
      BY <1>6, <2>5, <2>6, <3>1, <3>3, <3>4
  <2>9. QED
    BY <2>7, <2>8
<1>13. QED
  BY <1>6, <1>10, <1>11, <1>12

\* On the way to a node is the node, and what is on the way to the one before.
LEMMA WayStep ==
    ASSUME NEW f \in Forests, MaxNodes \in Nat, NEW n \in Nodes(f), NEW to \in Nodes(f) \ {1}
    PROVE  StaysAbove(f, n, to) <=> n = to \/ StaysAbove(f, n, before(f, to))
<1> DEFINE N == Len(f)
           D(j) == Depth(f, j)
           s == before(f, to)
<1>1. /\ N \in Nat /\ \A j \in 0..N : D(j) \in Nat
      /\ \A j \in 1..N : D(j) = IF f[j] = "leading" THEN D(j - 1) + 1 ELSE D(j - 1) - 1
  BY ForestsWalk DEF Walk
<1>2. /\ n \in 1..N /\ to \in 1..N /\ f[n] = "leading" /\ f[to] = "leading"
      /\ s \in Nodes(f) /\ s \in 1..N /\ s < to /\ to - 1 \in 1..N
      /\ edge(f, to - 1) = f[to - 1] /\ edge(f, to - 1) \in {"leading", "trailing"}
      /\ edge(f, to - 1) = "leading" => s = to - 1
      /\ edge(f, to - 1) = "trailing" => trailing_of(f, s) = to - 1
  BY OneIsBefore
<1>3. \A m : StaysAbove(f, n, m) <=> n <= m /\ \A k \in n - 1..m - 1 : D(k) >= D(n - 1)
  BY DEF StaysAbove
<1>4. f[to - 1] = "trailing" =>
         D(to - 1) = D(s - 1) /\ \A k \in s..to - 2 : D(k) > D(s - 1)
  <2>1. SUFFICES ASSUME f[to - 1] = "trailing"
                 PROVE  D(to - 1) = D(s - 1) /\ \A k \in s..to - 2 : D(k) > D(s - 1)
    OBVIOUS
  <2>2. trailing_of(f, s) = to - 1
    BY <1>2, <2>1
  <2>3. to - 2 = (to - 1) - 1
    BY <1>1, <1>2
  <2>4. QED
    BY <1>2, <2>2, <2>3, TrailingIsWhereDown
<1> HIDE DEF D, s
<1>5. D(n - 1) \in Nat /\ D(s - 1) \in Nat /\ D(to - 1) \in Nat /\ \A k \in 0..N : D(k) \in Nat
  <2>1. n - 1 \in 0..N /\ s - 1 \in 0..N /\ to - 1 \in 0..N
    BY <1>1, <1>2
  <2>2. QED
    BY <1>1, <2>1
<1>6. StaysAbove(f, to, to)
  <2>1. to <= to /\ \A k \in to - 1..to - 1 : k = to - 1
    BY <1>1, <1>2
  <2>2. \A k \in to - 1..to - 1 : D(k) >= D(to - 1)
    BY <1>5, <2>1
  <2>3. QED
    BY <2>1, <2>2 DEF StaysAbove, D
<1>7. CASE f[to - 1] = "leading"
  <2>1. s = to - 1
    BY <1>2, <1>7
  <2>2. ASSUME StaysAbove(f, n, to), n # to PROVE StaysAbove(f, n, s)
    <3>1. n <= s /\ \A k \in n - 1..s - 1 : k \in n - 1..to - 1
      BY <1>1, <1>2, <1>3, <2>1, <2>2
    <3>2. QED
      BY <1>3, <2>2, <3>1
  <2>3. ASSUME StaysAbove(f, n, s) PROVE StaysAbove(f, n, to)
    <3>1. n <= s /\ \A k \in n - 1..s - 1 : D(k) >= D(n - 1)
      BY <1>3, <2>3
    <3>2. D(to - 1) = D(s - 1) + 1 /\ D(s - 1) >= D(n - 1)
      <4>1. s - 1 \in n - 1..s - 1 /\ s - 1 = (to - 1) - 1
        BY <1>1, <1>2, <2>1, <3>1
      <4>2. QED
        BY <1>1, <1>2, <1>7, <3>1, <4>1
    <3>3. n <= to /\ \A k \in n - 1..to - 1 : k = to - 1 \/ k \in n - 1..s - 1
      BY <1>1, <1>2, <2>1, <3>1
    <3>4. \A k \in n - 1..to - 1 : D(k) >= D(n - 1)
      BY <1>5, <3>1, <3>2, <3>3
    <3>5. QED
      BY <1>3, <3>3, <3>4
  <2>4. n = to => StaysAbove(f, n, to)
    BY <1>6
  <2>5. QED
    BY <2>2, <2>3, <2>4 DEF s
<1>8. CASE f[to - 1] = "trailing"
  <2>1. D(to - 1) = D(s - 1) /\ \A k \in s..to - 2 : D(k) > D(s - 1)
    BY <1>4, <1>8
  <2>2. ASSUME StaysAbove(f, n, to), n # to PROVE StaysAbove(f, n, s)
    <3>1. n <= to /\ \A k \in n - 1..to - 1 : D(k) >= D(n - 1)
      BY <1>3, <2>2
    <3>2. D(to - 1) >= D(n - 1)
      <4>1. to - 1 \in n - 1..to - 1
        BY <1>1, <1>2, <3>1
      <4>2. QED
        BY <3>1, <4>1
    <3>3. n <= s
      <4>1. SUFFICES ASSUME s < n PROVE FALSE
        BY <1>1, <1>2
      <4>2. n # to - 1
        BY <1>2, <1>8
      <4>3. n - 1 \in s..to - 2
        BY <1>1, <1>2, <2>2, <3>1, <4>1, <4>2
      <4>4. D(n - 1) > D(s - 1)
        BY <2>1, <4>3
      <4>5. QED
        BY <1>5, <2>1, <3>2, <4>4
    <3>4. \A k \in n - 1..s - 1 : k \in n - 1..to - 1
      BY <1>1, <1>2, <3>1
    <3>5. QED
      BY <1>3, <3>1, <3>3, <3>4
  <2>3. ASSUME StaysAbove(f, n, s) PROVE StaysAbove(f, n, to)
    <3>1. n <= s /\ \A k \in n - 1..s - 1 : D(k) >= D(n - 1)
      BY <1>3, <2>3
    <3>2. D(s - 1) >= D(n - 1)
      <4>1. s - 1 \in n - 1..s - 1
        BY <1>1, <1>2, <3>1
      <4>2. QED
        BY <3>1, <4>1
    <3>3. /\ n <= to
          /\ \A k \in n - 1..to - 1 :
                k \in 0..N /\ (k = to - 1 \/ k \in n - 1..s - 1 \/ k \in s..to - 2)
      BY <1>1, <1>2, <3>1
    <3>4. \A k \in n - 1..to - 1 : D(k) >= D(n - 1)
      <4> TAKE k \in n - 1..to - 1
      <4>1. CASE k = to - 1
        BY <2>1, <3>2, <4>1
      <4>2. CASE k \in n - 1..s - 1
        BY <3>1, <4>2
      <4>3. CASE k \in s..to - 2
        <5>1. D(k) > D(s - 1) /\ D(k) \in Nat
          BY <1>5, <2>1, <3>3, <4>3
        <5>2. QED
          BY <1>5, <3>2, <5>1
      <4>4. QED
        BY <3>3, <4>1, <4>2, <4>3
    <3>5. QED
      BY <1>3, <3>3, <3>4
  <2>4. n = to => StaysAbove(f, n, to)
    BY <1>6
  <2>5. QED
    BY <2>2, <2>3, <2>4 DEF s
<1>9. QED
  BY <1>2, <1>7, <1>8 DEF s

\* passes_through: a path passes through the nodes on its way and no others.
LEMMA PassesExactly ==
    ASSUME NEW f \in Forests, MaxNodes \in Nat, NEW n \in Nodes(f), NEW to \in Nodes(f)
    PROVE  passes_through(bitpath_t(f, to), bitpath_t(f, n)) <=> StaysAbove(f, n, to)
<1> DEFINE p(m) == bitpath_t(f, m)
           Good(m) == passes_through(p(m), p(n)) <=> StaysAbove(f, n, m)
<1>1. /\ 1 \in Nodes(f) /\ Nodes(f) \subseteq Nat \ {0}
      /\ \A m \in Nodes(f) \ {1} :
            /\ before(f, m) \in Nodes(f) /\ before(f, m) < m /\ bit_of(f, m) \in {0, 1}
  BY OneIsBefore DEF bit_of
<1>2. /\ p(1) = <<1>> /\ \A m \in Nodes(f) : p(m) \in Seq({0, 1}) /\ valid(p(m))
      /\ \A m \in Nodes(f) \ {1} : p(m) = push(p(before(f, m)), bit_of(f, m))
  BY PathStep DEF first_bitpath
<1>3. \A m \in Nodes(f) : p(m) = p(n) <=> m = n
  BY TraversePath
<1> HIDE DEF p
<1>4. Good(1)
  <2>1. passes_through(p(1), p(n)) <=> p(n) = p(1)
    <3> DEFINE c == p(n)
    <3>1. c \in Seq({0, 1}) /\ valid(c) /\ valid(<<1>>)
      BY <1>1, <1>2
    <3>2. c # <<>> /\ Last(c) = 1
      BY <3>1 DEF valid, no_path
    <3> HIDE DEF c
    <3>3. Len(c) \in Nat \ {0} /\ DOMAIN c = 1..Len(c) /\ c[Len(c)] = 1
      BY <3>1, <3>2, EmptySeq, LenProperties DEF Last
    <3> DEFINE one == <<1>>
    <3>4. one \in Seq({0, 1}) /\ Len(one) = 1 /\ one[1] = 1
      OBVIOUS
    <3>5. valid(one)
      BY <3>1
    <3> HIDE DEF one
    <3>6. passes_through(one, c) => c = one
      <4>1. SUFFICES ASSUME passes_through(one, c) PROVE c = one
        OBVIOUS
      <4>2. Len(c) = 1
        BY <3>3, <3>4, <4>1 DEF passes_through
      <4>3. \A i \in 1..Len(c) : c[i] = one[i]
        BY <3>3, <3>4, <4>2
      <4>4. QED
        BY <3>1, <3>4, <4>2, <4>3, SeqEqual
    <3>7. passes_through(one, one)
      <4>1. DOMAIN one = 1..1 /\ Len(one) - Len(one) = 0
        BY <3>4, LenProperties
      <4>2. \A i \in DOMAIN one : Len(one) - Len(one) + i = i
        BY <4>1
      <4>3. Len(one) <= Len(one)
        BY <3>4
      <4>4. QED
        BY <3>5, <4>2, <4>3 DEF passes_through
    <3>8. QED
      BY <1>2, <3>6, <3>7 DEF c, one
  <2>2. StaysAbove(f, n, 1) <=> n = 1
    <3>1. n <= 1 <=> n = 1
      BY <1>1
    <3>2. n = 1 => \A k \in n - 1..1 - 1 : Depth(f, k) >= Depth(f, n - 1)
      <4>1. SUFFICES ASSUME n = 1 PROVE \A k \in n - 1..1 - 1 : Depth(f, k) >= Depth(f, n - 1)
        OBVIOUS
      <4>2. n - 1 = 0 /\ \A k \in n - 1..1 - 1 : k = 0
        BY <4>1
      <4>3. Depth(f, 0) = 0
        BY ForestsWalk DEF Walk
      <4>4. QED
        BY <4>2, <4>3
    <3>3. QED
      BY <3>1, <3>2 DEF StaysAbove
  <2>3. QED
    BY <1>1, <1>3, <2>1, <2>2
<1>5. ASSUME NEW m \in Nodes(f) \ {1}, Good(before(f, m)) PROVE Good(m)
  <2> DEFINE k == before(f, m)
             b == bit_of(f, m)
  <2>1. /\ k \in Nodes(f) /\ b \in {0, 1} /\ p(m) = push(p(k), b)
        /\ p(k) \in Seq({0, 1}) /\ valid(p(k)) /\ p(n) \in Seq({0, 1}) /\ valid(p(n))
    BY <1>1, <1>2
  <2>2. passes_through(p(m), p(n)) <=> p(n) = p(m) \/ passes_through(p(k), p(n))
    <3> HIDE DEF k, b
    <3>1. passes_through(push(p(k), b), p(n)) <=> p(n) = push(p(k), b) \/ passes_through(p(k), p(n))
      BY <2>1, PassesPush
    <3>2. QED
      BY <2>1, <3>1
  <2>3. StaysAbove(f, n, m) <=> n = m \/ StaysAbove(f, n, k)
    BY WayStep
  <2>4. QED
    BY <1>3, <1>5, <2>2, <2>3
<1> HIDE DEF Good
<1> DEFINE U == {m \in Nodes(f) : ~Good(m)}
<1>6. U = {}
  <2>1. SUFFICES ASSUME U # {} PROVE FALSE
    OBVIOUS
  <2>2. U \subseteq Nat
    BY <1>1
  <2>3. PICK m \in U : \A k \in U : m <= k
    BY <2>1, <2>2, LeastNat
  <2>4. m # 1
    BY <1>4
  <2>5. before(f, m) \in Nodes(f) /\ before(f, m) < m
    BY <1>1, <2>4
  <2>6. before(f, m) \notin U
    BY <2>2, <2>3, <2>5
  <2>7. QED
    BY <1>5, <2>4, <2>5, <2>6
<1>7. QED
  BY <1>6 DEF Good, p

\* Enough blocks for all.
LEMMA Blocks ==
    ASSUME NEW l \in Nat \ {0}, NEW w \in Nat \ {0}
    PROVE  (l + w - 1) \div w \in Nat \ {0} /\ ((l + w - 1) \div w) * w >= l
<1> DEFINE x == l + w - 1
           q == x \div w
<1>1. x \in Nat /\ x >= w
  OBVIOUS
<1> HIDE DEF x
<1>2. q \in Nat /\ x = q * w + (x % w) /\ x % w \in 0..w - 1
  BY <1>1
<1> HIDE DEF q
<1> DEFINE r == x % w
           y == q * w
<1>3. y \in Int /\ r \in 0..w - 1 /\ x = y + r
  BY <1>2
<1>4. q = 0 => y = 0
  BY <1>2
<1> HIDE DEF r, y
<1>5. y >= l
  BY <1>1, <1>3 DEF x
<1>6. q # 0
  BY <1>4, <1>5
<1>7. QED
  BY <1>2, <1>5, <1>6 DEF q, x, y

\* What FlattenSeq has put together of the first blocks, g of those before.
FlatOf(s, g, i) == IF i = 1 THEN s[i] ELSE g[i - 1] \o s[i]
Flat(s) == CHOOSE g : g = [i \in 1..Len(s) |-> FlatOf(s, g, i)]

\* FlattenSeq is a recursive function of the blocks.
LEMMA FlattenSeqIs ==
    ASSUME NEW s, Len(s) # 0
    PROVE  FlattenSeq(s) = Flat(s)[Len(s)]
BY DEF FlattenSeq, Flat, FlatOf

\* Blocks are put together one after another.
LEMMA FlatStep ==
    ASSUME NEW s, Len(s) \in Nat \ {0}
    PROVE  /\ Flat(s)[1] = s[1]
           /\ \A k \in 2..Len(s) : Flat(s)[k] = Flat(s)[k - 1] \o s[k]
<1> DEFINE N == Len(s)
           P(k) == \E g : g = [j \in 1..k |-> FlatOf(s, g, j)]
<1>1. P(0)
  <2> DEFINE g == [j \in 1..0 |-> 1]
  <2>1. \A j \in 1..0 : g[j] = FlatOf(s, g, j)
    OBVIOUS
  <2>2. g = [j \in 1..0 |-> FlatOf(s, g, j)]
    BY <2>1
  <2>3. QED
    BY <2>2
<1>2. ASSUME NEW k \in Nat, P(k) PROVE P(k + 1)
  <2>1. PICK g : g = [j \in 1..k |-> FlatOf(s, g, j)]
    BY <1>2
  <2>2. \A j \in 1..k : g[j] = FlatOf(s, g, j)
    BY <2>1
  <2> DEFINE h == [j \in 1..k + 1 |-> IF j = k + 1 THEN FlatOf(s, g, j) ELSE g[j]]
  <2>3. \A j \in 1..k + 1 : j = 1 \/ (j - 1 \in 1..k + 1 /\ j - 1 # k + 1)
    OBVIOUS
  <2>4. \A j \in 1..k + 1 : FlatOf(s, h, j) = FlatOf(s, g, j)
    <3> TAKE j \in 1..k + 1
    <3>1. j # 1 => h[j - 1] = g[j - 1]
      BY <2>3
    <3> HIDE DEF h
    <3>2. QED
      BY <3>1 DEF FlatOf
  <2>5. \A j \in 1..k + 1 : j = k + 1 \/ j \in 1..k
    OBVIOUS
  <2>6. \A j \in 1..k + 1 : h[j] = FlatOf(s, g, j)
    BY <2>2, <2>5
  <2>7. \A j \in 1..k + 1 : h[j] = FlatOf(s, h, j)
    BY <2>4, <2>6
  <2>8. h = [j \in 1..k + 1 |-> h[j]]
    OBVIOUS
  <2> HIDE DEF h
  <2>9. h = [j \in 1..k + 1 |-> FlatOf(s, h, j)]
    BY <2>7, <2>8
  <2>10. QED
    BY <2>9
<1> DEFINE U == {k \in Nat : ~P(k)}
<1>3. U = {}
  <2>1. SUFFICES ASSUME U # {} PROVE FALSE
    OBVIOUS
  <2>2. PICK k \in U : \A m \in U : k <= m
    BY <2>1, LeastNat
  <2> HIDE DEF P
  <2>3. k \in Nat \ {0}
    BY <1>1
  <2>4. k - 1 \in Nat /\ (k - 1) + 1 = k /\ ~(k <= k - 1)
    BY <2>3
  <2>5. P(k - 1)
    BY <2>2, <2>4
  <2>6. P(k)
    BY <1>2, <2>4, <2>5
  <2>7. QED
    BY <2>2, <2>6
<1>4. P(N)
  <2> HIDE DEF P
  <2>1. QED
    BY <1>3
<1> DEFINE r == Flat(s)
<1>5. r = [k \in 1..N |-> FlatOf(s, r, k)]
  BY <1>4 DEF Flat
<1> HIDE DEF r
<1>6. \A k \in 1..N : r[k] = FlatOf(s, r, k)
  BY <1>5
<1>7. 1 \in 1..N /\ \A k \in 2..N : k \in 1..N /\ k # 1
  OBVIOUS
<1>8. QED
  BY <1>6, <1>7 DEF r, FlatOf

\* A path that is exported and imported is the same path.
LEMMA RoundTrip ==
    ASSUME NEW p \in Seq({0, 1}), valid(p), bits_per_block \in Nat \ {0}
    PROVE  imported(portable(p)) = p
<1> DEFINE l == Len(p)
           w == bits_per_block
           n == (l + w - 1) \div w
           pad(x) == IF x <= l THEN p[x] ELSE 0
           block(b) == [i \in 1..w |-> pad((b - 1) * w + i)]
           s == portable(p)
<1>1. l \in Nat \ {0} /\ p[l] = 1 /\ DOMAIN p = 1..l /\ \A x \in 1..l : p[x] \in {0, 1}
  <2>1. p # <<>>
    BY DEF valid, no_path
  <2>2. QED
    BY <2>1, EmptySeq, LenProperties DEF valid, Last
<1>2. w \in Nat \ {0} /\ n \in Nat \ {0} /\ n * w >= l
  <2> HIDE DEF l, w
  <2>1. l \in Nat \ {0} /\ w \in Nat \ {0}
    BY <1>1 DEF w
  <2>2. QED
    BY <2>1, Blocks
<1>3. s = [b \in 1..n |-> block(b)]
  BY DEF portable
<1> HIDE DEF l, w, n, s
<1>4. \A x \in Nat \ {0} : pad(x) \in {0, 1}
  BY <1>1
<1>5. ASSUME NEW b \in 1..n
      PROVE  /\ block(b) \in Seq({0, 1}) /\ Len(block(b)) = w
             /\ \A i \in 1..w : block(b)[i] = pad((b - 1) * w + i)
  <2>1. (b - 1) * w \in Nat
    BY <1>2
  <2>2. \A i \in 1..w : (b - 1) * w + i \in Nat \ {0}
    BY <1>2, <2>1
  <2> HIDE DEF pad
  <2>3. block(b) \in [1..w -> {0, 1}]
    BY <1>4, <2>2
  <2> DEFINE c == block(b)
  <2>4. c \in Seq({0, 1}) /\ DOMAIN c = 1..w
    <3>1. c \in [1..w -> {0, 1}] /\ w \in Nat
      BY <1>2, <2>3
    <3> HIDE DEF c
    <3>2. QED
      BY <3>1, SeqDef
  <2>5. Len(c) = w
    <3> HIDE DEF c
    <3>1. Len(c) \in Nat /\ 1..Len(c) = 1..w
      BY <2>4, LenProperties
    <3>2. w \in 1..Len(c) /\ (Len(c) = 0 \/ Len(c) \in 1..w)
      BY <1>2, <3>1
    <3>3. QED
      BY <1>2, <3>1, <3>2
  <2>6. QED
    BY <2>4, <2>5
<1> HIDE DEF pad, block
<1>6. Len(s) = n /\ \A b \in 1..n : s[b] = block(b)
  <2>1. s \in [1..n -> Seq({0, 1})]
    BY <1>3, <1>5
  <2>2. s \in Seq(Seq({0, 1})) /\ DOMAIN s = 1..n
    BY <1>2, <2>1, SeqDef
  <2>3. Len(s) \in Nat /\ 1..Len(s) = 1..n
    BY <2>2, LenProperties
  <2>4. n \in 1..Len(s) /\ (Len(s) = 0 \/ Len(s) \in 1..n)
    BY <1>2, <2>3
  <2>5. QED
    BY <1>2, <1>3, <2>3, <2>4
<1> DEFINE g == Flat(s)
<1>7. g[1] = block(1) /\ \A k \in 2..n : g[k] = g[k - 1] \o block(k)
  <2>1. Len(s) \in Nat \ {0}
    BY <1>2, <1>6
  <2>2. g[1] = s[1] /\ \A k \in 2..Len(s) : g[k] = g[k - 1] \o s[k]
    BY <2>1, FlatStep
  <2>3. 1 \in 1..n /\ \A k \in 2..n : k \in 1..n
    BY <1>2
  <2>4. QED
    BY <1>6, <2>2, <2>3
<1> HIDE DEF g
<1> DEFINE Good(k) ==
             /\ g[k] \in Seq({0, 1}) /\ Len(g[k]) = k * w
             /\ \A x \in 1..k * w : g[k][x] = pad(x)
<1>8. Good(1)
  <2>1. 1 \in 1..n /\ 1 * w = w /\ \A i \in 1..w : (1 - 1) * w + i = i
    BY <1>2
  <2>2. QED
    BY <1>5, <1>7, <2>1
<1>9. ASSUME NEW k \in 2..n, Good(k - 1) PROVE Good(k)
  <2> DEFINE a == g[k - 1]
             b == block(k)
             m == (k - 1) * w
  <2>1. k \in 1..n /\ k \in Int /\ w \in Int
    BY <1>2
  <2>2. m \in Nat /\ k * w = m + w
    BY <1>2, <2>1
  <2>3. /\ a \in Seq({0, 1}) /\ Len(a) = m /\ \A x \in 1..m : a[x] = pad(x)
        /\ b \in Seq({0, 1}) /\ Len(b) = w /\ \A i \in 1..w : b[i] = pad(m + i)
    BY <1>5, <1>9, <2>1
  <2>4. g[k] = a \o b
    BY <1>7
  <2> HIDE DEF a, b, m
  <2>5. /\ a \o b \in Seq({0, 1}) /\ Len(a \o b) = m + w
        /\ \A x \in 1..m + w : (a \o b)[x] = IF x <= m THEN a[x] ELSE b[x - m]
    BY <2>3, ConcatProperties
  <2>6. \A x \in 1..m + w : (a \o b)[x] = pad(x)
    <3> TAKE x \in 1..m + w
    <3>1. CASE x <= m
      <4>1. x \in 1..m
        BY <2>2, <3>1
      <4>2. QED
        BY <2>3, <2>5, <3>1, <4>1
    <3>2. CASE ~(x <= m)
      <4>1. x - m \in 1..w /\ m + (x - m) = x
        BY <1>2, <2>2, <3>2
      <4>2. QED
        BY <2>3, <2>5, <3>2, <4>1
    <3>3. QED
      BY <3>1, <3>2
  <2>7. QED
    BY <2>2, <2>4, <2>5, <2>6
<1> HIDE DEF Good
<1> DEFINE U == {k \in 1..n : ~Good(k)}
<1>10. U = {}
  <2>1. SUFFICES ASSUME U # {} PROVE FALSE
    OBVIOUS
  <2>2. U \subseteq Nat
    BY <1>2
  <2>3. PICK k \in U : \A m \in U : k <= m
    BY <2>1, <2>2, LeastNat
  <2>4. k # 1
    BY <1>8
  <2>5. k \in 2..n /\ k - 1 \in 1..n /\ ~(k <= k - 1)
    BY <1>2, <2>4
  <2>6. k - 1 \notin U
    BY <2>3, <2>5
  <2>7. QED
    BY <1>9, <2>5, <2>6
<1> DEFINE F == FlattenSeq(s)
           h == n * w
<1>11. /\ F \in Seq({0, 1}) /\ Len(F) = h /\ h \in Nat /\ h >= l
       /\ \A x \in 1..h : F[x] = pad(x)
  <2>1. Len(s) # 0
    BY <1>2, <1>6
  <2>2. F = g[n]
    BY <1>6, <2>1, FlattenSeqIs DEF g
  <2>3. Good(n)
    BY <1>2, <1>10
  <2>4. h \in Nat
    BY <1>2
  <2>5. QED
    BY <1>2, <2>2, <2>3, <2>4 DEF Good
<1> HIDE DEF F, h
<1>12. DOMAIN F = 1..h
  BY <1>11, LenProperties
<1> DEFINE ones == {1} \cup {i \in DOMAIN F : F[i] = 1}
<1>13. Max(ones) = l
  <2>1. l \in ones
    <3>1. l \in 1..h
      BY <1>1, <1>11
    <3>2. F[l] = 1
      BY <1>1, <1>11, <3>1 DEF pad
    <3>3. QED
      BY <1>12, <3>1, <3>2
  <2>2. \A i \in ones : i \in Int /\ i <= l
    <3> TAKE i \in ones
    <3>1. CASE i = 1
      BY <1>1, <3>1
    <3>2. CASE i # 1
      <4>1. i \in 1..h /\ F[i] = 1
        BY <1>12, <3>2
      <4>2. pad(i) = 1
        BY <1>11, <4>1
      <4>3. i <= l
        BY <4>2 DEF pad
      <4>4. QED
        BY <1>11, <4>1, <4>3
    <3>3. QED
      BY <3>1, <3>2
  <2> HIDE DEF ones
  <2>3. ones \in SUBSET Int
    BY <2>2
  <2>4. QED
    BY <2>1, <2>2, <2>3, MaxIs
<1>14. SubSeq(F, 1, l) = p
  <2> DEFINE t == SubSeq(F, 1, l)
  <2>1. \A i \in 1..l : i \in 1..Len(F) /\ i \in 1..h
    BY <1>1, <1>11
  <2>2. \A i \in 1..l : F[i] \in {0, 1} /\ F[i] = p[i]
    BY <1>1, <1>11, <2>1 DEF pad
  <2>3. 1 \in Int /\ l \in Int /\ 1 <= l
    BY <1>1
  <2>4. /\ t \in Seq({0, 1}) /\ Len(t) = IF 1 <= l THEN l - 1 + 1 ELSE 0
        /\ \A i \in 1..l - 1 + 1 : t[i] = F[1 + i - 1]
    BY <2>2, <2>3, SubSeqProperties
  <2> HIDE DEF t
  <2>5. Len(t) = l /\ \A i \in 1..l : t[i] = p[i]
    <3>1. l - 1 + 1 = l /\ \A i \in 1..l : 1 + i - 1 = i
      BY <2>3
    <3>2. QED
      BY <2>2, <2>3, <2>4, <3>1
  <2>6. t = p
    BY <2>4, <2>5, SeqEqual DEF l
  <2>7. QED
    BY <2>6 DEF t
<1>15. QED
  BY <1>13, <1>14 DEF imported, clip_zero_fill, F, s

\* Whatever moves are made through a forest of any size, the path that is kept is the one
\* bitpath_t makes of the node, traverse leads back to it, and a path that is exported in
\* blocks of any width and imported is the same path.
THEOREM PathAlwaysNamesNode == BitpathSpec => []PathNamesNode
<1>1. WalkInv => PathNamesNode
  <2>1. SUFFICES ASSUME WalkInv PROVE PathNamesNode
    OBVIOUS
  <2>2. MaxNodes \in Nat /\ bits_per_block \in Nat \ {0}
    BY BitpathAssumption
  <2>3. edges \in Forests /\ node \in Nodes(edges) /\ path = bitpath_t(edges, node)
    BY <2>1 DEF WalkInv
  <2>4. path \in Seq({0, 1}) /\ valid(path) /\ traverse(path, edges) = node
    BY <2>2, <2>3, PathStep, TraversePath
  <2>5. PortableRoundTrip
    BY <2>2, <2>4, RoundTrip DEF PortableRoundTrip
  <2>6. QED
    BY <2>3, <2>4, <2>5 DEF PathNamesNode
<1>2. QED
  BY <1>1, WalkInvariance, PTL

\* passes_through says of the path that is kept and of any node's whether the node is on the
\* way, in a forest of any size.
THEOREM PassesThroughJustTheWay == BitpathSpec => []PassesThroughWay
<1>1. WalkInv => PassesThroughWay
  <2>1. SUFFICES ASSUME WalkInv, NEW n \in Nodes(edges)
                 PROVE  passes_through(path, bitpath_t(edges, n)) <=> OnTheWay(n, node)
    BY DEF PassesThroughWay
  <2>2. MaxNodes \in Nat
    BY BitpathAssumption
  <2>3. edges \in Forests /\ node \in Nodes(edges) /\ path = bitpath_t(edges, node)
    BY <2>1 DEF WalkInv
  <2>4. QED
    BY <2>2, <2>3, PassesExactly, OnTheWayStaysAbove
<1>2. QED
  BY <1>1, WalkInvariance, PTL
===============================================================================
