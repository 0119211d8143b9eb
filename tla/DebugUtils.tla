----------------------------- MODULE DebugUtils -----------------------------
(***************************************************************************)
(* sys/debug_utils.c: the switches and log files of the debug units, the     *)
(* printing functions as far as they use them, and the end of the program:   *)
(* printb calls exit(), which runs the functions given to atexit(), last     *)
(* first, then the C library's own closing of files and _exit.  The release  *)
(* build compiles logging out.                                             *)
(***************************************************************************)
EXTENDS Integers, Sequences

CONSTANTS Units,      \* debug units
          MaxLines    \* bound on the lines of a log

VARIABLES release,    \* the build has RELEASE defined
          print, log, \* debug_unit.print and debug_unit.log
          file,       \* the file of debug_unit.fd: "none" for a null pointer,
                      \* "open", "closed", or "corrupt" after a use while closed
          lines,      \* lines in each log file
          handlers,   \* functions given to atexit
          phase       \* "start", "run", "exit" or "end"

vars == <<release, print, log, file, lines, handlers, phase>>

\* fprintf to the files of units us, fclose of them.
fprintf(us) ==
  /\ \A ue \in us : lines[ue] < MaxLines
  /\ file'  = [ue \in Units |-> IF ue \in us /\ file[ue] # "open" THEN "corrupt" ELSE file[ue]]
  /\ lines' = [ue \in Units |-> IF ue \in us THEN lines[ue] + 1 ELSE lines[ue]]

fclose(us) ==
  file' = [ue \in Units |-> IF ue \notin us THEN file[ue]
                            ELSE IF file[ue] = "open" THEN "closed" ELSE "corrupt"]

debug_utils_init ==
  /\ phase = "start"
  /\ handlers' = Append(handlers, "debug_utils_close")
  /\ print' = [ue \in Units |-> FALSE]
  /\ log'   = [ue \in Units |-> FALSE]
  /\ file'  = [ue \in Units |-> "none"]
  /\ phase' = "run"
  /\ UNCHANGED <<release, lines>>

\* main() registers cleanup after the devices are ready.
atexit_cleanup ==
  /\ phase = "run" /\ Len(handlers) = 1
  /\ handlers' = Append(handlers, "cleanup")
  /\ UNCHANGED <<release, print, log, file, lines, phase>>

debug_utils_setp(ue, on) ==
  /\ phase = "run"
  /\ print' = IF release THEN print ELSE [print EXCEPT ![ue] = on]
  /\ UNCHANGED <<release, log, file, lines, handlers, phase>>

\* printm_base: a line on stderr, and in the log where logging is compiled in.
printm_base(leave, ue) ==
  /\ phase = "run"
  /\ fprintf(IF log[ue] /\ ~release THEN {ue} ELSE {})
  /\ phase' = IF leave THEN "exit" ELSE phase
  /\ UNCHANGED <<release, print, log, handlers>>

\* printd_base: only where it is switched on.
printd_base(ue) ==
  /\ phase = "run" /\ ~release /\ (print[ue] \/ log[ue])
  /\ fprintf(IF log[ue] THEN {ue} ELSE {})
  /\ UNCHANGED <<release, print, log, handlers, phase>>

\* The file is opened again, which empties it.
debug_utils_setl_bug(ue, opens) ==
  /\ phase = "run" /\ ~release /\ opens
  /\ file'  = [file EXCEPT ![ue] = "open"]
  /\ lines' = [lines EXCEPT ![ue] = 0]
  /\ log' = [log EXCEPT ![ue] = TRUE]
  /\ UNCHANGED <<release, print, handlers, phase>>

\* The file is opened once and stays open; when that fails, printb ends the
\* program before log is set.
debug_utils_setl(ue, opens) ==
  \/ /\ phase = "run" /\ ~release /\ (file[ue] = "none" => opens)
     /\ file'  = [file EXCEPT ![ue] = IF @ = "none" THEN "open" ELSE @]
     /\ lines' = IF file[ue] = "none" THEN [lines EXCEPT ![ue] = 0] ELSE lines
     /\ log' = [log EXCEPT ![ue] = TRUE]
     /\ UNCHANGED <<release, print, handlers, phase>>
  \/ /\ ~release /\ file[ue] = "none" /\ ~opens
     /\ printm_base(TRUE, ue)

debug_utils_unsetl(ue) ==
  /\ phase = "run" /\ ~release
  /\ log' = [log EXCEPT ![ue] = FALSE]
  /\ UNCHANGED <<release, print, file, lines, handlers, phase>>

at_exit(f) == phase = "exit" /\ handlers # <<>> /\ handlers[Len(handlers)] = f
popped == SubSeq(handlers, 1, Len(handlers) - 1)

\* The number of pages in use, on stderr only.
cleanup ==
  /\ at_exit("cleanup")
  /\ handlers' = popped
  /\ UNCHANGED <<release, print, log, file, lines, phase>>

\* Only the files of units that are logging are closed.
debug_utils_close_bug ==
  /\ at_exit("debug_utils_close")
  /\ handlers' = popped
  /\ fclose(IF release THEN {} ELSE {ue \in Units : log[ue]})
  /\ UNCHANGED <<release, print, log, lines, phase>>

debug_utils_close ==
  /\ at_exit("debug_utils_close")
  /\ handlers' = popped
  /\ fclose(IF release THEN {} ELSE {ue \in Units : file[ue] # "none"})
  /\ UNCHANGED <<release, print, log, lines, phase>>

\* _exit: the SWI stops the machine.
exit ==
  /\ phase = "exit" /\ handlers = <<>>
  /\ phase' = "end"
  /\ UNCHANGED <<release, print, log, file, lines, handlers>>

Stopped == phase = "end" /\ UNCHANGED vars

\* Static data is zero before debug_utils_init.
Init ==
  /\ release \in BOOLEAN
  /\ print = [ue \in Units |-> FALSE]
  /\ log = [ue \in Units |-> FALSE]
  /\ file = [ue \in Units |-> "none"]
  /\ lines = [ue \in Units |-> 0]
  /\ handlers = <<>>
  /\ phase = "start"

Next ==
  \/ debug_utils_init \/ atexit_cleanup
  \/ \E ue \in Units, b \in BOOLEAN :
       debug_utils_setp(ue, b) \/ debug_utils_setl(ue, b) \/ printm_base(b, ue)
  \/ \E ue \in Units : printd_base(ue) \/ debug_utils_unsetl(ue)
  \/ cleanup \/ debug_utils_close \/ exit
  \/ Stopped

Spec == Init /\ [][Next]_vars

(***************************************************************************)
(* Properties.                                                             *)
(***************************************************************************)
\* No log file is used before it is open or after it is closed, or closed
\* twice, in any sequence of switching logs on and off, printing, a log that
\* cannot be opened, and leaving; and whatever ends the program, every log is
\* closed then, those that were switched off before included.
FilesUsedOpen ==
  \A ue \in Units : file[ue] # "corrupt" /\ (phase = "end" => file[ue] # "open")

\* Switching a log off and on again keeps what it holds.
LogsKept == [][\A ue \in Units : lines'[ue] >= lines[ue]]_vars
=============================================================================
