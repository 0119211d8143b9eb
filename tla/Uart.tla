-------------------------------- MODULE Uart --------------------------------
(***************************************************************************)
(* The console: _write of vmm/newlib_stub.c over                            *)
(* devices/dev_uart.c, whose transmitter and receiver empty and fill their   *)
(* FIFOs while the driver polls the flag register.  A step of the driver is  *)
(* one pass of a polling loop, with the data access after the last one.     *)
(***************************************************************************)
EXTENDS BitOpt, Sequences, SequencesExt

CONSTANTS Depth,      \* entries of a FIFO
          Texts,      \* what may be written: sequences of "c", "\n" and "\r"
          Files,      \* descriptors a caller passes to _write
          StdoutPtr,  \* (int)stdout, the address of a FILE
          StderrPtr,  \* (int)stderr
          MaxCalls    \* bound on calls of _write and of dev_uart_rx_char

\* The characters the code tells apart.
Char == {"c", "\n", "\r"}

VARIABLES vectors,  \* the code at address 0: "code" or "overwritten"
          cr,       \* the control register of the device
          booted,   \* dev_uart_init has returned
          todo,     \* what _write has still to send, <<>> outside of it
          tx, sent, \* the transmit FIFO and what has left it
          rx, got,  \* the receive FIFO and what dev_uart_rx_char returned
          line,     \* history: all characters that arrived
          written,  \* history: what _write was given for the console
          calls     \* calls so far

vars == <<vectors, cr, booted, todo, tx, sent, rx, got, line, written, calls>>

(***************************************************************************)
(* Flag register.                                                          *)
(***************************************************************************)
Flags ==
  (IF rx = <<>> THEN {4} ELSE {}) \cup (IF Len(tx) = Depth THEN {5} ELSE {}) \cup
  (IF Len(rx) = Depth THEN {6} ELSE {}) \cup (IF tx = <<>> THEN {7} ELSE {})

dev_uart_fr_rxfe(flag) == 4 \in flag

dev_uart_fr_rxff(flag) == 6 \in flag

dev_uart_fr_txfe(flag) == 7 \in flag

dev_uart_fr_txff(flag) == 5 \in flag

(***************************************************************************)
(* dev_uart_init.  cr is not among the addresses it sets, so disable and    *)
(* enable write to the address a zeroed structure holds.                   *)
(***************************************************************************)
cr_address == 0

write_cr(w) ==
  IF cr_address = 0 THEN vectors' = "overwritten" /\ UNCHANGED cr
                    ELSE cr' = w /\ UNCHANGED vectors

dev_uart_init ==
  /\ ~booted
  /\ write_cr(Bits(769))         \* 0x301, over the 0 of dev_uart_disable
  /\ booted' = TRUE
  /\ UNCHANGED <<todo, tx, sent, rx, got, line, written, calls>>

(***************************************************************************)
(* Sending.                                                                *)
(***************************************************************************)
\* What dev_uart_tx_char puts into the FIFO.
dev_uart_tx_char(c) == IF c = "\n" THEN <<"\r", "\n">> ELSE <<c>>

console(file) == file \in {StdoutPtr, StderrPtr}

Fragments(text) == [i \in DOMAIN text |-> IF text[i] = "\r" THEN <<>> ELSE dev_uart_tx_char(text[i])]

\* The text is over the characters the code tells apart, and so is what is sent.
TextsAssumption ==
  /\ Depth \in Nat \ {0}
  /\ Texts \subseteq Seq(Char)
  /\ \A text \in Texts : FlattenSeq(Fragments(text)) \in Seq(Char)

\* _write: console text goes to the UART, the rest to a file of the host.
newlib_write(file, text) ==
  /\ booted /\ todo = <<>> /\ calls < MaxCalls
  /\ calls' = calls + 1
  /\ IF console(file)
     THEN /\ todo' = FlattenSeq(Fragments(text))
          /\ written' = written \o text
     ELSE UNCHANGED <<todo, written>>
  /\ UNCHANGED <<vectors, cr, booted, tx, sent, rx, got, line>>

\* dev_uart_wait_txff ends, and the next character is written.  The device
\* drops a character that does not fit.
dev_uart_wait_txff ==
  /\ todo # <<>>
  /\ ~dev_uart_fr_txff(Flags)
  /\ tx' = IF Len(tx) < Depth THEN Append(tx, Head(todo)) ELSE tx
  /\ todo' = Tail(todo)
  /\ UNCHANGED <<vectors, cr, booted, sent, rx, got, line, written, calls>>

\* dev_uart_wait_rxfe ends, and a character is read.
dev_uart_rx_char ==
  /\ booted /\ todo = <<>>
  /\ ~dev_uart_fr_rxfe(Flags)
  /\ got' = Append(got, Head(rx))
  /\ rx' = Tail(rx)
  /\ UNCHANGED <<vectors, cr, booted, todo, tx, sent, line, written, calls>>

\* A pass of either polling loop that does not end it.
polling ==
  /\ \/ todo # <<>> /\ dev_uart_fr_txff(Flags)
     \/ booted /\ todo = <<>> /\ dev_uart_fr_rxfe(Flags)
  /\ UNCHANGED vars

(***************************************************************************)
(* The device: bit 0 of the control register turns it on.                  *)
(***************************************************************************)
Transmit ==
  /\ 0 \in cr /\ tx # <<>>
  /\ sent' = Append(sent, Head(tx))
  /\ tx' = Tail(tx)
  /\ UNCHANGED <<vectors, cr, booted, todo, rx, got, line, written, calls>>

Receive(c) ==
  /\ 0 \in cr /\ Len(rx) < Depth /\ Len(line) < MaxCalls
  /\ rx' = Append(rx, c)
  /\ line' = Append(line, c)
  /\ UNCHANGED <<vectors, cr, booted, todo, tx, sent, got, written, calls>>

\* The device may be on or off after reset.
Init ==
  /\ vectors = "code"
  /\ cr \in {Bits(768), Bits(769)}
  /\ booted = FALSE
  /\ todo = <<>> /\ tx = <<>> /\ sent = <<>> /\ written = <<>>
  /\ rx = <<>> /\ got = <<>> /\ line = <<>>
  /\ calls = 0

Next ==
  \/ dev_uart_init
  \/ \E file \in Files, text \in Texts : newlib_write(file, text)
  \/ dev_uart_wait_txff
  \/ dev_uart_rx_char
  \/ polling
  \/ Transmit
  \/ \E c \in {"c", "\r"} : Receive(c)

\* The CPU keeps polling and the device keeps sending.
FairSpec == Init /\ [][Next]_vars /\ WF_vars(dev_uart_wait_txff) /\ WF_vars(Transmit)

(***************************************************************************)
(* Properties.                                                             *)
(***************************************************************************)
\* The console's text as a terminal needs it: every line feed follows one
\* carriage return, and those of the text itself are dropped.
Lines(text) ==
  LET kept == SelectSeq(text, LAMBDA c : c # "\r")
  IN  FoldLeft(LAMBDA s, c : IF c = "\n" THEN s \o <<"\r", "\n">> ELSE Append(s, c), <<>>, kept)

\* What has been sent, is in the FIFO and is still to be sent.
Stream == sent \o tx \o todo

\* Whatever the FIFO's fill and the transmitter's pace, no character of the
\* console is lost, doubled or overtaken, and characters come in in order.
InputInOrder == got \o rx = line
TextInOrder  == Stream = Lines(written) /\ InputInOrder

\* With the device on, polling for room never hangs: all text is sent.
TextSent == 0 \in cr ~> (sent = Lines(written) /\ todo = <<>>)
=============================================================================
