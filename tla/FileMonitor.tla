------------------------------ MODULE FileMonitor ------------------------------
(***************************************************************************)
(* file_monitor_t (platform_file_monitor_impl.cpp, Windows and Mac) and    *)
(* its client, Begin's file_buffer_t (src/test/begin).                     *)
(*                                                                         *)
(* Files are written by other programs, between any two steps of this one. *)
(* A monitor keeps the time of the last write it knows of; a timer asks    *)
(* the system which monitors have an event, and calls the client of a file *)
(* whose time is another one.  The buffer reloads, or asks the user in a   *)
(* dialog if it has changes of its own.  On Windows the timer goes on in   *)
(* that dialog, inside the loop that called the buffer; on the Mac it does *)
(* not fire inside itself.                                                 *)
(*                                                                         *)
(* Of contents it matters only whether a buffer has what is in its file;   *)
(* time is in seconds, as last_write_time has it.                          *)
(***************************************************************************)
EXTENDS Naturals, Sequences, SequencesExt

CONSTANTS Path, Buffer, nowhere,
          MaxTime     \* bound of the model: the clock's last second

ASSUME FileAssumption ==
    /\ nowhere \notin Path \cup Buffer \cup (Buffer \X Nat) /\ MaxTime \in Nat
    /\ IsFiniteSet(Buffer)     \* a program opens finitely many files

VARIABLES system,        \* "win" or "mac"
          now,           \* the clock
          disk,          \* [Path -> [exists, written]]
          path_m,        \* [Buffer -> Path or nowhere]: the buffer's file
          contents_m,    \* [Buffer -> {"file", "other"}]: what its file has, or not
          dirty_m,       \* [Buffer -> BOOLEAN]
          opening,       \* buffers that have read or written their file, and have
                         \* still to have it monitored
          connecting,    \* those whose monitor has read the time and not yet attached
          asking,        \* buffers that ask where they should be saved
          monitored,     \* [Buffer -> Path or nowhere]: the monitor's path_m
          last_write_m,  \* [Buffer -> Nat]
          attached,      \* monitors whose descriptor is of the file that has their path
          event,         \* monitors the system has an event for
          loops,         \* the file_monitor_loops that run, the innermost first
          blind          \* buffers that do not hold their file's contents and will not
                         \* be told; see NoChangeHidden

buffer_vars == <<path_m, contents_m, dirty_m, opening, connecting, asking>>
monitor_vars == <<monitored, last_write_m, attached, event>>
file_vars == <<system, now, disk, buffer_vars, monitor_vars, loops, blind>>

Put(f, x, y) == [f EXCEPT ![x] = y]
Made == SetToSeq(Buffer)    \* in the order they were made

\* A loop has monitors still to look at.  It pauses before the next one (Mac), is
\* ready to look at it, is about to call a buffer, or waits in the buffer's dialog;
\* the last two about a buffer and the time of a write.
Question == Buffer \X Nat
Loop == [rest : Seq(Buffer), stage : {"pauses", "ready", "calls", "asks"},
         about : Question \cup {nowhere}]
Quiet == loops = <<>> /\ opening = {} /\ connecting = {}
At(stage) == loops # <<>> /\ Head(loops).stage = stage
Subject == Head(loops).about[1]
Comes_to(stage) == loops' = <<[Head(loops) EXCEPT !.stage = stage]>> \o Tail(loops)

FileInit ==
    /\ system \in {"win", "mac"} /\ now = 1
    /\ disk = [p \in Path |-> [exists |-> TRUE, written |-> 1]]
    /\ path_m = [b \in Buffer |-> nowhere] /\ contents_m = [b \in Buffer |-> "other"]
    /\ dirty_m \in {[b \in Buffer |-> d] : d \in BOOLEAN}     \* the constructor leaves it as it is
    /\ opening = {} /\ connecting = {} /\ asking = {} /\ monitored = path_m
    /\ last_write_m = [b \in Buffer |-> 0] /\ attached = {}
    /\ event = {} /\ loops = <<>> /\ blind = {}

------------------------------------------------------------------------------
(* The system *)

Watching(p) == {b \in Buffer : monitored[b] = p}
Told(p) == Watching(p) \cap attached       \* whose monitors get an event

\* The monitors that have an event or that a loop has still to look at.
Seen_to == event \cup UNION {ToSet(loops[i].rest) : i \in DOMAIN loops}

\* A monitor finds a write if it looks at it and knows of none in this very second.
Finds(b) == (b \in attached \/ b \in Seen_to) /\ last_write_m[b] # now

Written(p) == disk' = [disk EXCEPT ![p] = [exists |-> TRUE, written |-> now]]

\* After a write of p: who will find it is not blind any more; who will not is, and so
\* is a buffer that has read the file and is not yet connected.
Blinds(p) ==
    LET clients == {b \in Watching(p) : path_m[b] = p}
    IN  (blind \ {b \in clients : Finds(b)})
            \cup {b \in clients : ~Finds(b)}
            \cup {b \in opening : path_m[b] = p /\ monitored[b] # p}

OthersThan(p) == [b \in Buffer |-> IF path_m[b] = p THEN "other" ELSE contents_m[b]]

write(p) ==
    /\ Written(p) /\ event' = event \cup Told(p) /\ blind' = Blinds(p)
    /\ contents_m' = OthersThan(p)
    /\ UNCHANGED <<system, now, path_m, dirty_m, opening, connecting, asking, monitored,
                   last_write_m, attached, loops>>

\* Windows watches the directory, the Mac the file that was there at connecting: one
\* that is made again under its name is another.
remove(p) ==
    /\ disk[p].exists
    /\ disk' = [disk EXCEPT ![p] = [exists |-> FALSE, written |-> 0]]
    /\ event' = event \cup Told(p)
    /\ attached' = IF system = "mac" THEN attached \ Watching(p) ELSE attached
    /\ UNCHANGED <<system, now, buffer_vars, monitored, last_write_m, loops, blind>>

\* A second passes, which is what the Mac's loop pauses for.  In the last second
\* the pauses go on.
tick ==
    /\ now < MaxTime \/ At("pauses")
    /\ now' = IF now < MaxTime THEN now + 1 ELSE now
    /\ IF At("pauses") THEN Comes_to("ready") ELSE UNCHANGED loops
    /\ UNCHANGED <<system, disk, buffer_vars, monitor_vars, blind>>

------------------------------------------------------------------------------
(* file_monitor_platform_data_t *)

is_valid(b) == path_m[b] # nowhere /\ disk[path_m[b]].exists

\* set_path does nothing if there is no such file, or it is monitored already.
\* Otherwise it closes the descriptor, whose event goes with it, and connect reads the
\* time of the last write
set_path(b) ==
    /\ b \in opening /\ opening' = {}
    /\ IF is_valid(b) /\ monitored[b] # path_m[b]
       THEN /\ monitored' = Put(monitored, b, path_m[b])
            /\ last_write_m' = Put(last_write_m, b, disk[path_m[b]].written)
            /\ attached' = attached \ {b} /\ event' = event \ {b}
            /\ connecting' = {b}
       ELSE UNCHANGED <<connecting, monitor_vars>>
    /\ UNCHANGED <<system, now, disk, path_m, contents_m, dirty_m, asking, loops, blind>>

\* and then opens the next; on the Mac that throws if there is no file any more.
connect(b) ==
    /\ b \in connecting /\ connecting' = {}
    /\ attached' = IF system = "mac" /\ ~disk[monitored[b]].exists THEN attached
                   ELSE attached \cup {b}
    /\ UNCHANGED <<system, now, disk, path_m, contents_m, dirty_m, opening, asking, monitored,
                   last_write_m, event, loops, blind>>

Pending(b) == b \in event /\ monitored[b] # nowhere
              /\ (disk[monitored[b]].exists => disk[monitored[b]].written # last_write_m[b])

\* On the Mac a second passes before a monitor is looked at.
At_rest(rest) ==
    [rest |-> rest, stage |-> IF system = "mac" THEN "pauses" ELSE "ready", about |-> nowhere]
Start(rest) == loops' = <<At_rest(rest)>> \o loops
Leave == loops' = Tail(loops)
Go_on == loops' = <<At_rest(Head(loops).rest)>> \o Tail(loops)

\* Windows: the timer's procedure goes through all monitors, in the order they
\* were made, also from inside a dialog.  One that finds nothing is left out.
file_monitor_loop_win ==
    /\ system = "win" /\ (Quiet \/ At("asks"))
    /\ \E b \in Buffer : Pending(b)
    /\ Start(Made)
    /\ UNCHANGED <<system, now, disk, buffer_vars, monitor_vars, blind>>

Between == loops # <<>> /\ Head(loops).stage \in {"pauses", "ready"}

\* Wrong: of the events that are taken only the first is seen to.
file_monitor_loop_mac_first ==
    /\ system = "mac" /\ event # {}
    /\ \E b \in event :
           \/ Quiet /\ Start(<<b>>)
           \/ Between /\ Head(loops).rest = <<>> /\ loops' = <<At_rest(<<b>>)>>
    /\ event' = {}
    /\ UNCHANGED <<system, now, disk, buffer_vars, monitored, last_write_m, attached, blind>>

\* Mac: the timer's procedure takes the events there are, until there are none.
file_monitor_loop_mac ==
    /\ system = "mac" /\ event # {}
    /\ \E batch \in SetToSeqs(event) :
           \/ Quiet /\ Start(batch)
           \/ Between /\ Head(loops).rest = <<>> /\ loops' = <<At_rest(batch)>>
    /\ event' = {}
    /\ UNCHANGED <<system, now, disk, buffer_vars, monitored, last_write_m, attached, blind>>

loop_ends ==
    /\ Between /\ Head(loops).rest = <<>> /\ (system = "mac" => event = {})
    /\ Leave
    /\ UNCHANGED <<system, now, disk, buffer_vars, monitor_vars, blind>>

\* An exception leaves the loop.  What the Mac's took from the queue is gone.
Throws ==
    /\ Leave
    /\ blind' = IF system = "mac" THEN blind \cup ToSet(Head(loops).rest) ELSE blind

Looks == At("ready") /\ Head(loops).rest # <<>>
Next_b == Head(Head(loops).rest)
Looked_at == loops' = <<At_rest(Tail(Head(loops).rest))>> \o Tail(loops)

Unchanged(b) ==
    \/ system = "win" /\ (b \notin event \/ monitored[b] = nowhere)
    \/ /\ monitored[b] # nowhere /\ disk[monitored[b]].exists
       /\ disk[monitored[b]].written = last_write_m[b]

\* Wrong: a monitor with nothing to tell ends the loop.
look_unchanged_returns ==
    /\ Looks /\ Unchanged(Next_b)
    /\ Leave
    /\ UNCHANGED <<system, now, disk, buffer_vars, monitor_vars, blind>>

\* The file has no other time than the one that is known; on Windows also one of
\* which there is no event.
look_unchanged ==
    /\ Looks /\ Unchanged(Next_b)
    /\ Looked_at
    /\ UNCHANGED <<system, now, disk, buffer_vars, monitor_vars, blind>>

\* There is no such file, or no longer: last_write_time throws.
look_missing ==
    /\ Looks /\ Next_b \in (event \cup IF system = "mac" THEN Buffer ELSE {})
    /\ monitored[Next_b] # nowhere /\ ~disk[monitored[Next_b]].exists
    /\ Throws
    /\ UNCHANGED <<system, now, disk, buffer_vars, monitor_vars>>

Changed(b) == /\ b \in event \/ system = "mac"
              /\ monitored[b] # nowhere /\ disk[monitored[b]].exists
              /\ disk[monitored[b]].written # last_write_m[b]

Calls(b) ==
    loops' = <<[rest |-> Tail(Head(loops).rest), stage |-> "calls",
                about |-> <<b, disk[monitored[b]].written>>]>> \o Tail(loops)

\* Wrong: the time is kept only once the buffer has seen to it.
look_changed_late ==
    /\ Looks /\ Changed(Next_b)
    /\ last_write_m' = IF dirty_m[Next_b] THEN last_write_m
                       ELSE Put(last_write_m, Next_b, disk[monitored[Next_b]].written)
    /\ Calls(Next_b)
    /\ UNCHANGED <<system, now, disk, buffer_vars, monitored, attached, event, blind>>

\* The time is another one: it is kept, and the buffer is going to be called.
look_changed ==
    /\ Looks /\ Changed(Next_b)
    /\ last_write_m' = Put(last_write_m, Next_b, disk[monitored[Next_b]].written)
    /\ Calls(Next_b)
    /\ UNCHANGED <<system, now, disk, buffer_vars, monitored, attached, event, blind>>

------------------------------------------------------------------------------
(* file_buffer_t *)

\* What is read is there; contents that come from nowhere throw.
reload_from_disk(b) ==
    IF disk[path_m[b]].exists
    THEN /\ contents_m' = Put(contents_m, b, "file") /\ dirty_m' = Put(dirty_m, b, FALSE)
         /\ blind' = blind \ {b}
         /\ Go_on
    ELSE Throws /\ UNCHANGED <<contents_m, dirty_m>>

\* A buffer of another path throws, a clean one reloads, any other asks the user.
file_on_disk_event ==
    /\ At("calls")
    /\ IF path_m[Subject] # monitored[Subject]
       THEN Throws /\ UNCHANGED <<contents_m, dirty_m>>
       ELSE IF dirty_m[Subject]
       THEN Comes_to("asks") /\ UNCHANGED <<contents_m, dirty_m, blind>>
       ELSE reload_from_disk(Subject)
    /\ UNCHANGED <<system, now, disk, path_m, opening, connecting, asking, monitor_vars>>

\* The innermost dialog is answered.
answer(replace) ==
    /\ At("asks")
    /\ IF replace THEN reload_from_disk(Subject)
       ELSE Go_on /\ UNCHANGED <<contents_m, dirty_m, blind>>
    /\ UNCHANGED <<system, now, disk, path_m, opening, connecting, asking, monitor_vars>>

\* The user opens a file: the buffer reads it and has it monitored then.  With no
\* file to read it throws, and has the new path all the same.
open(b, p) ==
    /\ Quiet /\ asking = {}
    /\ path_m' = Put(path_m, b, p)
    /\ IF disk[p].exists
       THEN /\ contents_m' = Put(contents_m, b, "file")
            /\ dirty_m' = Put(dirty_m, b, FALSE)
            /\ opening' = {b} /\ blind' = blind \ {b}
       ELSE contents_m' = Put(contents_m, b, "other") /\ UNCHANGED <<dirty_m, opening, blind>>
    /\ UNCHANGED <<system, now, disk, connecting, asking, monitor_vars, loops>>

edit(b) ==
    /\ Quiet /\ asking = {}
    /\ contents_m' = Put(contents_m, b, "other") /\ dirty_m' = Put(dirty_m, b, TRUE)
    /\ UNCHANGED <<system, now, disk, path_m, opening, connecting, asking, monitor_vars, loops,
                   blind>>

\* The buffer writes the file and has it monitored then.
Saves(b, p) ==
    /\ Written(p) /\ event' = event \cup Told(p) /\ blind' = Blinds(p) \ {b}
    /\ path_m' = Put(path_m, b, p)
    /\ contents_m' = Put(OthersThan(p), b, "file") /\ dirty_m' = Put(dirty_m, b, FALSE)
    /\ opening' = {b}
    /\ UNCHANGED <<system, now, connecting, monitored, last_write_m, attached, loops>>

save(b) ==
    /\ Quiet /\ asking = {} /\ dirty_m[b]
    /\ \/ is_valid(b) /\ Saves(b, path_m[b]) /\ UNCHANGED asking
       \/ /\ ~is_valid(b) /\ asking' = {b}
          /\ UNCHANGED <<system, now, disk, path_m, contents_m, dirty_m, opening, connecting,
                         monitor_vars, loops, blind>>

\* The user is asked for a path, and the timer goes on meanwhile: a path is picked and
\* written, or picked and cannot be written, or none is.
ask_for_path(b) ==
    /\ b \in asking /\ Quiet /\ asking' = {}
    /\ \/ \E p \in Path : Saves(b, p)
       \/ /\ \E p \in Path :
                 /\ path_m' = Put(path_m, b, p)
                 /\ contents_m' = IF p = path_m[b] THEN contents_m ELSE Put(contents_m, b, "other")
          /\ UNCHANGED <<system, now, disk, dirty_m, opening, connecting, monitor_vars, loops,
                         blind>>
       \/ UNCHANGED <<system, now, disk, path_m, contents_m, dirty_m, opening, connecting,
                      monitor_vars, loops, blind>>

loop_runs == loop_ends \/ look_unchanged \/ look_missing \/ look_changed \/ file_on_disk_event
timer == file_monitor_loop_win \/ file_monitor_loop_mac

FileNext ==
    \/ \E p \in Path : write(p) \/ remove(p)
    \/ tick \/ timer \/ loop_runs
    \/ \E replace \in BOOLEAN : answer(replace)
    \/ \E b \in Buffer, p \in Path : open(b, p)
    \/ \E b \in Buffer : set_path(b) \/ connect(b) \/ edit(b) \/ save(b) \/ ask_for_path(b)

\* Time passes, the timer fires, the program's calls return, and the user answers.
FileFairness ==
    /\ WF_file_vars(tick) /\ SF_file_vars(timer) /\ WF_file_vars(loop_runs)
    /\ SF_file_vars(\E replace \in BOOLEAN : answer(replace))
    /\ WF_file_vars(\E b \in Buffer : set_path(b) \/ connect(b))

FileSpec == FileInit /\ [][FileNext]_file_vars /\ FileFairness

------------------------------------------------------------------------------
(* Properties *)

Connected(b) == is_valid(b) /\ path_m[b] = monitored[b]

\* A monitor that knows of an earlier write and is to be looked at.
Due(b) == b \in Seen_to /\ disk[path_m[b]].written # last_write_m[b]

\* A loop is about to call the buffer.
Called(b) == At("calls") /\ Subject = b

\* A buffer without changes of its own has what is in its file, or is to be told: its
\* monitor is to be looked at and knows of an earlier write, or it is being called.
\* What escapes it is exactly this (blind), until its next write that does not: a
\* write in the second of the last one the monitor knows of; a write before the monitor
\* is attached; on the Mac, a write of a file that was removed and made
\* again, and what a loop had still to look at when it was left by an exception.
NoChangeHidden ==
    \A b \in Buffer \ blind :
        Connected(b) /\ ~dirty_m[b] =>
            contents_m[b] = "file" \/ Due(b) \/ Called(b)

\* However long a question stays open and the timer goes on around it, it is not
\* asked again: of two open questions about a buffer each is about another write.
AskedOnce ==
    \A i, j \in DOMAIN loops :
        i # j /\ loops[i].stage = "asks" => loops[i].about # loops[j].about

\* Where files do not stay away, a buffer that is not blind gets what is in its file, and
\* one with changes of its own gets asked: no write goes unseen for good, whether its
\* event waits in the system or was taken by a loop.
Unseen(b) ==
    /\ b \notin blind /\ Connected(b)
    /\ Due(b) \/ (~dirty_m[b] /\ contents_m[b] # "file")
WritesSeen ==
    <>[](\A p \in Path : disk[p].exists) => []<>(\A b \in Buffer : ~Unseen(b))
===============================================================================
