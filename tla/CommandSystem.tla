---------------------------- MODULE CommandSystem ----------------------------
(***************************************************************************)
(* command_system_t (adobe/future/source/cmd_system.cpp): commands by      *)
(* name, each enabled or not, and monitors that are called when that       *)
(* changes.  A monitor may call the command system again from inside its   *)
(* call; a command may do so while it is done.  calls holds the calls that *)
(* have not returned, the innermost first.                                 *)
(*                                                                         *)
(* A command is not removed while it is done or its monitors are called:   *)
(* remove_command would destroy the procedure, or the signal, that runs.   *)
(***************************************************************************)
EXTENDS Naturals, Sequences, SequencesExt

CONSTANTS Name, Monitor,
          untold,        \* what a monitor has heard at first
          MaxCalls       \* bound of the model: how deep calls nest

CommandAssumption == untold \notin BOOLEAN /\ MaxCalls \in Nat \ {0}

VARIABLES command_map_m,  \* the names there are
          enabled_m,      \* [Name -> BOOLEAN]
          callbacks_m,    \* [Name -> Seq(Monitor)]: enabled_callback_m
          heard,          \* [Monitor -> BOOLEAN or untold]: what it heard last
          calls,          \* Seq([name, enabled, rest])
          crossed         \* commands enabled again while their monitors are called, and
                          \* those some of whose monitors an exception left uncalled

command_vars == <<command_map_m, enabled_m, callbacks_m, heard, calls, crossed>>

NoCommands ==
    /\ command_map_m = {} /\ crossed = {}
    /\ enabled_m = [n \in Name |-> FALSE] /\ callbacks_m = [n \in Name |-> <<>>]
    /\ heard = [m \in Monitor |-> untold] /\ calls = <<>>

Init == NoCommands

\* What runs may call: the program, a command that is done, or a monitor that has
\* just been called.
MayCall == Len(calls) < MaxCalls
Running == {calls[i].name : i \in DOMAIN calls}
Notifying(n) == \E i \in DOMAIN calls : calls[i].name = n /\ calls[i].rest # <<>>
Listens(m) == \E n \in Name : m \in ToSet(callbacks_m[n])

------------------------------------------------------------------------------
(* Operations *)

\* A name that is taken throws.
insert_command(n) ==
    /\ MayCall /\ n \notin command_map_m
    /\ command_map_m' = command_map_m \cup {n}
    /\ enabled_m' = [enabled_m EXCEPT ![n] = FALSE]
    /\ UNCHANGED <<callbacks_m, heard, calls, crossed>>

\* The monitors go with the command.
remove_command(n) ==
    /\ MayCall /\ n \in command_map_m \ Running
    /\ command_map_m' = command_map_m \ {n}
    /\ heard' = [m \in Monitor |-> IF m \in ToSet(callbacks_m[n]) THEN untold ELSE heard[m]]
    /\ callbacks_m' = [callbacks_m EXCEPT ![n] = <<>>]
    /\ crossed' = crossed \ {n}
    /\ UNCHANGED <<enabled_m, calls>>

\* Wrong: the monitors are told what the command was before.
enable_command_told_first(n, enabled) ==
    /\ MayCall /\ n \in command_map_m /\ enabled_m[n] # enabled
    /\ calls' = <<[name |-> n, enabled |-> enabled_m[n], rest |-> callbacks_m[n]]>> \o calls
    /\ enabled_m' = [enabled_m EXCEPT ![n] = enabled]
    /\ crossed' = IF Notifying(n) THEN crossed \cup {n} ELSE crossed \ {n}
    /\ UNCHANGED <<command_map_m, callbacks_m, heard>>

\* A command that is enabled as asked tells nobody; otherwise its monitors of now
\* are called in turn, with the value of now.
enable_command(n, enabled) ==
    /\ MayCall /\ n \in command_map_m /\ enabled_m[n] # enabled
    /\ enabled_m' = [enabled_m EXCEPT ![n] = enabled]
    /\ calls' = <<[name |-> n, enabled |-> enabled, rest |-> callbacks_m[n]]>> \o calls
    /\ crossed' = IF Notifying(n) THEN crossed \cup {n} ELSE crossed \ {n}
    /\ UNCHANGED <<command_map_m, callbacks_m, heard>>

\* The next monitor is called.
enabled_callback ==
    /\ calls # <<>> /\ Head(calls).rest # <<>>
    /\ LET call == Head(calls)
       IN  /\ heard' = [heard EXCEPT ![Head(call.rest)] = call.enabled]
           /\ calls' = <<[call EXCEPT !.rest = Tail(@)]>> \o Tail(calls)
    /\ UNCHANGED <<command_map_m, enabled_m, callbacks_m, crossed>>

\* A command that is not enabled is not done.
do_command(n) ==
    /\ MayCall /\ n \in command_map_m /\ enabled_m[n]
    /\ calls' = <<[name |-> n, enabled |-> TRUE, rest |-> <<>>]>> \o calls
    /\ UNCHANGED <<command_map_m, enabled_m, callbacks_m, heard, crossed>>

returns ==
    /\ calls # <<>> /\ Head(calls).rest = <<>>
    /\ calls' = Tail(calls)
    /\ UNCHANGED <<command_map_m, enabled_m, callbacks_m, heard, crossed>>

\* A monitor or a command that is called throws.  The call around it ends in the same way,
\* or goes on.
throws ==
    /\ calls # <<>>
    /\ calls' = Tail(calls)
    /\ crossed' = IF Head(calls).rest = <<>> THEN crossed ELSE crossed \cup {Head(calls).name}
    /\ UNCHANGED <<command_map_m, enabled_m, callbacks_m, heard>>

\* A monitor is not told how the command is at the time, nor by a call that is
\* already on its way.
monitor_enabled(n, m) ==
    /\ MayCall /\ n \in command_map_m /\ ~Listens(m)
    /\ callbacks_m' = [callbacks_m EXCEPT ![n] = Append(@, m)]
    /\ UNCHANGED <<command_map_m, enabled_m, heard, calls, crossed>>

CommandNext ==
    \/ \E n \in Name : insert_command(n) \/ remove_command(n) \/ do_command(n)
    \/ \E n \in Name, enabled \in BOOLEAN : enable_command(n, enabled)
    \/ \E n \in Name, m \in Monitor : monitor_enabled(n, m)
    \/ enabled_callback \/ returns \/ throws

------------------------------------------------------------------------------
(* Properties *)

\* When all calls have returned, what a monitor heard last is how its command is,
\* whatever other commands the monitors enabled on the way.  Not so if a command
\* is enabled again while its own monitors are called: those after the one that
\* did it hear the value of the outer call last; nor if one of them throws, until the
\* command is enabled the next time.
MonitorsAgree ==
    calls = <<>> =>
        \A n \in command_map_m \ crossed : \A m \in ToSet(callbacks_m[n]) :
            heard[m] \in {untold, enabled_m[n]}
===============================================================================
