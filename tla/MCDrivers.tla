------------------------------ MODULE MCDrivers ------------------------------
(***************************************************************************)
(* The drivers and the C library's stubs: Heap, DevTimer, Uart, Semihost and *)
(* DebugUtils.  They share no state, so a behaviour follows one of them.     *)
(* Addresses and increments of the heap have eight bits instead of 32; a     *)
(* text is longer than the FIFO, with a line feed where that is full; of the *)
(* two files' paths one is a prefix of the other.                          *)
(***************************************************************************)
EXTENDS Heap, TLC

CONSTANTS Slice, Max16, Max32, Reset,                             \* DevTimer
          Depth, Texts, Files, StdoutPtr, StderrPtr, MaxCalls,    \* Uart
          Contents, Fds, Data, Offsets, PathMax, BufMax, SizeMax, \* Semihost
          Units, MaxLines                                         \* DebugUtils

VARIABLES part,
          control_reg, hw, pc,
          vectors, cr, booted, todo, tx, sent, rx, got, line, written, calls,
          reg, disk, open, answer, asked,
          release, print, log, file, lines, handlers, phase

timerVars == <<control_reg, hw, pc>>
uartVars  == <<vectors, cr, booted, todo, tx, sent, rx, got, line, written, calls>>
hostVars  == <<reg, disk, open, answer, asked>>
debugVars == <<release, print, log, file, lines, handlers, phase>>
allVars   == <<part, vars, timerVars, uartVars, hostVars, debugVars>>

T == INSTANCE DevTimer
U == INSTANCE Uart
S == INSTANCE Semihost
D == INSTANCE DebugUtils

ASSUME DriversAssumption ==
  T!SliceAssumption /\ U!TextsAssumption /\ S!SemihostAssumption

Increments == -128 .. 127
SomeTexts  == {<<"c", "\n", "c">>, <<"\n", "\r", "\n">>}
TwoFiles   == <<"a">> :> <<"y", "z">> @@ <<"a", "b">> :> <<"z">>
Bytes      == {<<"x">>}
Back       == {-1}

\* What a part may start with is left open only where it is followed.
MCInit ==
  /\ part \in {"heap", "timer", "uart", "semihost", "debug"}
  /\ Init /\ T!Init /\ U!Init /\ S!Init /\ D!Init
  /\ part # "timer" => \A n \in T!Timers : hw[n].control = {} /\ ~hw[n].raw
  /\ part # "uart"  => 0 \in cr
  /\ part # "debug" => release

Timer(A)    == part = "timer" /\ A /\ UNCHANGED <<part, vars, uartVars, hostVars, debugVars>>
Console(A)  == part = "uart"  /\ A /\ UNCHANGED <<part, vars, timerVars, hostVars, debugVars>>

MCNext ==
  \/ Timer(T!Next)
  \/ Console(U!Next)
  \/ part = "heap"     /\ Next   /\ UNCHANGED <<part, timerVars, uartVars, hostVars, debugVars>>
  \/ part = "semihost" /\ S!Next /\ UNCHANGED <<part, vars, timerVars, uartVars, debugVars>>
  \/ part = "debug"    /\ D!Next /\ UNCHANGED <<part, vars, timerVars, uartVars, hostVars>>

\* The fairness of DevTimer and of Uart.
MCSpec ==
  /\ MCInit /\ [][MCNext]_allVars
  /\ WF_allVars(Timer(pc # T!Guest /\ T!Program))
  /\ WF_allVars(Timer(T!Clock(0)))
  /\ WF_allVars(Console(U!dev_uart_wait_txff))
  /\ WF_allVars(Console(U!Transmit))

\* The registers are the timer the scheduler counts on (DevTimer).
RefinesSlice == T!RefinesSlice

\* Unless switches keep starting new slices, the timer keeps interrupting
\* (DevTimer).
SliceEnds == part = "timer" => T!SliceEnds

\* No character is lost, doubled or overtaken (Uart).
TextInOrder == U!TextInOrder

\* With the device on, all text is sent (Uart).
TextSent == part = "uart" => U!TextSent

\* Every call is served as it was asked, whatever earlier ones left in the
\* registers (Semihost).
ServedAsAsked == S!ServedAsAsked

\* Log files are used only while open, and closed when the program ends
\* (DebugUtils).
FilesUsedOpen == D!FilesUsedOpen

\* Switching a log off and on again keeps what it holds (DebugUtils).
LogsKept == D!LogsKept
=============================================================================
