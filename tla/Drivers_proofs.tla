--------------------------- MODULE Drivers_proofs ---------------------------
(***************************************************************************)
(* The drivers and the C library's stubs.  The heap is exact for every       *)
(* layout and every set of increments that cannot wrap upwards (HeapExact is *)
(* inductive as it stands); log files are used while open and keep their     *)
(* lines; the host serves every call as it was asked; the timer's registers  *)
(* implement the slice timer.                                              *)
(***************************************************************************)
EXTENDS MCDrivers, SequenceTheorems, TLAPS

\* Below Top, the 32-bit sum is the sum.
LEMMA NoWrap ==
  ASSUME NEW n \in Int, 0 <= n, n < Top
  PROVE  uint32(n) = n
BY HeapAssumption DEF uint32

\* What sbrk does when the request is served: the new end is the plain sum and
\* stays in the heap, for negative increments because newlib only gives back
\* what it has.
LEMMA Served ==
  ASSUME HeapExact, NEW incr \in Incr, Asks(incr), ~full(incr)
  PROVE  /\ uint32(current_heap_end + incr) = current_heap_end + incr
         /\ current_heap_end + incr \in heap_start .. heap_end
<1>1. incr \in Int /\ current_heap_end \in Int
  BY HeapAssumption DEF HeapExact
<1>2. heap_start <= current_heap_end + incr
  <2>1. CASE incr >= 0
    BY <1>1, <2>1, HeapAssumption DEF HeapExact
  <2>2. CASE incr < 0
    <3>1. current_heap_end + incr \in (current_heap_end + incr) .. (current_heap_end - 1)
      BY <1>1, <2>2
    <3>2. current_heap_end + incr \in heap_start .. (current_heap_end - 1)
      BY <3>1, <2>2 DEF Asks, HeapExact
    <3> QED BY <3>2, <1>1, HeapAssumption
  <2> QED BY <1>1, <2>1, <2>2
<1>3. current_heap_end + incr < Top
  BY <1>1, HeapAssumption DEF HeapExact
<1>4. uint32(current_heap_end + incr) = current_heap_end + incr
  BY <1>1, <1>2, <1>3, NoWrap, HeapAssumption
<1> QED BY <1>1, <1>2, <1>4, HeapAssumption DEF full

\* newlib always has exactly the memory between heap_start and the current end
\* of the heap, within the heap: _sbrk gives no byte away twice and none of the
\* program's or the stack's.
THEOREM HeapCorrect == Spec => []HeapExact
<1>1. Init => HeapExact
  BY HeapAssumption DEF Init, HeapExact
<1>2. HeapExact /\ [Next]_vars => HeapExact'
  <2> SUFFICES ASSUME HeapExact, [Next]_vars PROVE HeapExact'
    OBVIOUS
  <2>1. ASSUME NEW incr \in Incr, sbrk(incr) PROVE HeapExact'
    <3>1. /\ incr \in Int
          /\ current_heap_end' = current_heap_end + incr
          /\ current_heap_end' \in heap_start .. heap_end
      BY <2>1, Served, HeapAssumption DEF sbrk
    <3>2. current_heap_end \in Int /\ heap_start <= current_heap_end /\ heap_start \in Int
      BY HeapAssumption DEF HeapExact
    <3>3. blocks' = heap_start .. (current_heap_end' - 1)
      <4>1. CASE incr >= 0
        BY <2>1, <3>1, <3>2, <4>1 DEF sbrk, HeapExact
      <4>2. CASE incr < 0
        <5>1. blocks' = (heap_start .. (current_heap_end - 1))
                          \ ((current_heap_end + incr) .. (current_heap_end - 1))
          BY <2>1, <3>1, <4>2 DEF sbrk, HeapExact
        <5>2. \A a : a \in blocks' <=> a \in heap_start .. (current_heap_end' - 1)
          BY <3>1, <3>2, <4>2, <5>1
        <5> QED BY <5>2
      <4> QED BY <3>1, <4>1, <4>2
    <3> QED BY <3>1, <3>3 DEF HeapExact
  <2>2. ASSUME NEW incr \in Incr, out_of_memory(incr) PROVE HeapExact'
    BY <2>2 DEF out_of_memory, vars, HeapExact
  <2>3. CASE UNCHANGED vars
    BY <2>3 DEF vars, HeapExact
  <2> QED BY <2>1, <2>2, <2>3 DEF Next
<1> QED BY <1>1, <1>2, PTL DEF Spec


-----------------------------------------------------------------------------
(***************************************************************************)
(* DebugUtils.                                                             *)
(***************************************************************************)
\* The functions atexit may hold: debug_utils_close first, so it runs last.
H1 == <<"debug_utils_close">>
H2 == <<"debug_utils_close", "cleanup">>

\* One more element at the end of a sequence.
LEMMA Appended ==
  ASSUME NEW Set, NEW s \in Seq(Set), NEW e \in Set, NEW t, t = Append(s, e)
  PROVE  /\ t \in Seq(Set) /\ Len(t) = Len(s) + 1
         /\ \A i \in 1 .. Len(s) : t[i] = s[i]
         /\ t[Len(s) + 1] = e
  BY AppendProperties, SMT

\* The handlers when one is registered or run.
LEMMA Handlers ==
  /\ Append(<<>>, "debug_utils_close") = H1 /\ Append(H1, "cleanup") = H2
  /\ Len(H1) = 1 /\ Len(H2) = 2 /\ H1 # <<>> /\ H2 # <<>>
  /\ H1[1] = "debug_utils_close" /\ H2[2] = "cleanup"
  /\ SubSeq(H2, 1, 1) = H1 /\ SubSeq(H1, 1, 0) = <<>>
  <1> DEFINE c == "debug_utils_close"
             d == "cleanup"
  <1>1. H1 = <<c>> /\ H2 = <<c, d>> /\ c # d
    BY DEF H1, H2
  <1> HIDE DEF c, d
  <1>2. Append(<<>>, c) = <<c>>
    OBVIOUS
  <1>3. Append(<<c>>, d) = <<c, d>>
    <2> DEFINE Set == {c, d}
               s == <<c>>
               t == Append(s, d)
               u == <<c, d>>
    <2>1. s \in Seq(Set) /\ Len(s) = 1 /\ s[1] = c /\ d \in Set
      OBVIOUS
    <2>2. u \in Seq(Set) /\ Len(u) = 2 /\ u[1] = c /\ u[2] = d
      OBVIOUS
    <2> HIDE DEF s, u, Set
    <2>7. s \in Seq(Set) /\ d \in Set
      BY <2>1
    <2>0. /\ t \in Seq(Set) /\ Len(t) = Len(s) + 1
          /\ \A i \in 1 .. Len(s) : t[i] = s[i]
          /\ t[Len(s) + 1] = d
      BY <2>7, Appended
    <2> HIDE DEF t
    <2>5. Len(t) = 2 /\ t[2] = d
      BY <2>0, <2>1
    <2>6. t[1] = c
      BY <2>0, <2>1
    <2>3. t \in Seq(Set) /\ Len(t) = 2 /\ t[1] = c /\ t[2] = d
      BY <2>0, <2>5, <2>6
    <2>4. t = u
      BY <2>2, <2>3, SeqEqual
    <2> QED BY <2>4 DEF s, t, u
  <1>4. Len(<<c>>) = 1 /\ Len(<<c, d>>) = 2 /\ <<c>> # <<>> /\ <<c, d>> # <<>>
    OBVIOUS
  <1>5. <<c>>[1] = c /\ <<c, d>>[2] = d
    OBVIOUS
  <1>6. SubSeq(<<c, d>>, 1, 1) = <<c>>
    <2> DEFINE Set == {c}
               s == <<c, d>>
               t == SubSeq(s, 1, 1)
               u == <<c>>
    <2>1. \A i \in 1 .. 1 : s[i] \in Set /\ s[i] = c
      OBVIOUS
    <2>2. u \in Seq(Set) /\ Len(u) = 1 /\ u[1] = c
      OBVIOUS
    <2> HIDE DEF s, u, Set
    <2>3. t \in Seq(Set) /\ Len(t) = 1 /\ t[1] = c
      BY <2>1, SubSeqProperties
    <2> HIDE DEF t
    <2>4. t = u
      BY <2>2, <2>3, SeqEqual
    <2> QED BY <2>4 DEF s, t, u
  <1>7. SubSeq(<<c>>, 1, 0) = <<>>
    OBVIOUS
  <1> QED BY <1>1, <1>2, <1>3, <1>4, <1>5, <1>6, <1>7 DEF c, d

\* The inductive invariant: a log that is on has its file open while the program
\* runs, a file is opened once, and closed only by the last function to run.
FilesBefore == \A ue \in Units : file[ue] = "none" \/ file[ue] = "open"
FilesAfter  == \A ue \in Units : file[ue] = "none" \/ file[ue] = "closed"

DInv ==
  /\ file = [ue \in Units |-> file[ue]] /\ log = [ue \in Units |-> log[ue]]
  /\ lines = [ue \in Units |-> lines[ue]] /\ \A ue \in Units : lines[ue] \in Nat
  /\ \A ue \in Units : file[ue] = "none" => lines[ue] = 0
  /\ release => \A ue \in Units : file[ue] = "none"
  /\ phase \in {"start", "run", "exit", "end"}
  /\ phase = "start" => handlers = <<>> /\ \A ue \in Units : file[ue] = "none"
  /\ phase = "run" => /\ handlers = H1 \/ handlers = H2
                      /\ FilesBefore
                      /\ \A ue \in Units : log[ue] => file[ue] = "open"
  /\ phase = "exit" => \/ (handlers = H1 \/ handlers = H2) /\ FilesBefore
                       \/ handlers = <<>> /\ FilesAfter
  /\ phase = "end" => FilesAfter

\* What a step may not do to the logs.
Grow == \A ue \in Units : lines'[ue] >= lines[ue]

\* A line is written only to open files.
LEMMA Printed ==
  ASSUME DInv, phase = "run", NEW us, us \subseteq Units, \A ue \in us : log[ue], D!fprintf(us)
  PROVE  /\ file' = file /\ lines' = [ue \in Units |-> lines'[ue]]
         /\ \A ue \in Units : lines'[ue] \in Nat /\ lines'[ue] >= lines[ue]
         /\ \A ue \in Units : file[ue] = "none" => lines'[ue] = 0
  <1>1. \A ue \in us : file[ue] = "open"
    BY DEF DInv
  <1>2. file' = file
    <2>1. file' = [ue \in Units |-> file[ue]]
      BY <1>1 DEF D!fprintf
    <2> QED BY <2>1 DEF DInv
  <1>3. lines' = [ue \in Units |-> IF ue \in us THEN lines[ue] + 1 ELSE lines[ue]]
    BY DEF D!fprintf
  <1>4. \A ue \in Units : lines[ue] \in Nat /\ (file[ue] = "none" => lines[ue] = 0 /\ ue \notin us)
    BY <1>1 DEF DInv
  <1> QED BY <1>2, <1>3, <1>4

\* Every step keeps the invariant and what the logs hold.
LEMMA DebugStep == DInv /\ [D!Next]_(D!vars) => DInv' /\ (UNCHANGED D!vars \/ Grow)
  <1> SUFFICES ASSUME DInv, [D!Next]_(D!vars) PROVE DInv' /\ (UNCHANGED D!vars \/ Grow)
    OBVIOUS
  <1>0. \A ue \in Units : lines[ue] \in Nat /\ lines[ue] >= lines[ue]
    BY DEF DInv
  <1>1. CASE D!debug_utils_init
    <2>1. phase = "start" /\ handlers = <<>> /\ \A ue \in Units : file[ue] = "none"
      BY <1>1 DEF DInv, D!debug_utils_init
    <2>2. handlers' = H1 /\ phase' = "run" /\ lines' = lines /\ release' = release
      BY <1>1, <2>1, Handlers DEF D!debug_utils_init
    <2>3. file' = [ue \in Units |-> "none"] /\ log' = [ue \in Units |-> FALSE]
      BY <1>1 DEF D!debug_utils_init
    <2>4. FilesBefore' /\ \A ue \in Units : file'[ue] = "none" /\ log'[ue] = FALSE
      BY <2>3 DEF FilesBefore
    <2>5. DInv'
      BY <2>1, <2>2, <2>3, <2>4 DEF DInv
    <2> QED BY <1>0, <2>2, <2>5 DEF Grow
  <1>2. CASE D!atexit_cleanup
    <2>1. phase = "run" /\ handlers = H1
      BY <1>2, Handlers DEF DInv, D!atexit_cleanup
    <2>2. /\ handlers' = H2 /\ phase' = phase /\ lines' = lines /\ release' = release
          /\ file' = file /\ log' = log
      BY <1>2, <2>1, Handlers DEF D!atexit_cleanup
    <2>3. DInv'
      BY <2>1, <2>2 DEF DInv, FilesBefore, FilesAfter
    <2> QED BY <1>0, <2>2, <2>3 DEF Grow
  <1>3. ASSUME NEW ue \in Units, NEW b \in BOOLEAN, D!debug_utils_setp(ue, b)
        PROVE  DInv' /\ Grow
    <2>1. /\ handlers' = handlers /\ phase' = phase /\ lines' = lines /\ release' = release
          /\ file' = file /\ log' = log
      BY <1>3 DEF D!debug_utils_setp
    <2>2. DInv'
      BY <2>1 DEF DInv, FilesBefore, FilesAfter
    <2> QED BY <1>0, <2>1, <2>2 DEF Grow
  <1>4. ASSUME NEW ue \in Units, NEW b \in BOOLEAN, D!printm_base(b, ue)
        PROVE  DInv' /\ Grow
    <2> DEFINE us == IF log[ue] /\ ~release THEN {ue} ELSE {}
    <2>1. /\ handlers' = handlers /\ release' = release /\ log' = log
          /\ phase = "run" /\ phase' \in {"run", "exit"} /\ D!fprintf(us)
      BY <1>4 DEF D!printm_base
    <2>2. us \subseteq Units /\ \A u \in us : log[u]
      OBVIOUS
    <2> HIDE DEF us
    <2>3. /\ file' = file /\ lines' = [u \in Units |-> lines'[u]]
          /\ \A u \in Units : lines'[u] \in Nat /\ lines'[u] >= lines[u]
          /\ \A u \in Units : file[u] = "none" => lines'[u] = 0
      BY <2>1, <2>2, Printed
    <2>4. DInv'
      BY <2>1, <2>3 DEF DInv, FilesBefore, FilesAfter
    <2> QED BY <2>3, <2>4 DEF Grow
  <1>5. ASSUME NEW ue \in Units, NEW b \in BOOLEAN, D!debug_utils_setl(ue, b)
        PROVE  DInv' /\ Grow
    <2>1. CASE D!printm_base(TRUE, ue)
      BY <1>4, <2>1
    <2>2. CASE /\ phase = "run" /\ ~release
               /\ file' = [file EXCEPT ![ue] = IF @ = "none" THEN "open" ELSE @]
               /\ lines' = IF file[ue] = "none" THEN [lines EXCEPT ![ue] = 0] ELSE lines
               /\ log' = [log EXCEPT ![ue] = TRUE]
               /\ UNCHANGED <<release, print, handlers, phase>>
      <3>1. FilesBefore /\ (handlers = H1 \/ handlers = H2)
        BY <2>2 DEF DInv
      <3>2. /\ file' = [u \in Units |-> file'[u]] /\ log' = [u \in Units |-> log'[u]]
            /\ file'[ue] = "open"
            /\ \A u \in Units : u # ue => file'[u] = file[u] /\ log'[u] = log[u]
        BY <2>2, <3>1 DEF DInv, FilesBefore
      <3>3. lines' = lines
        BY <2>2 DEF DInv
      <3>4. FilesBefore' /\ \A u \in Units : log'[u] => file'[u] = "open"
        BY <2>2, <3>1, <3>2 DEF DInv, FilesBefore
      <3>5. \A u \in Units : file'[u] = "none" => lines'[u] = 0
        BY <3>2, <3>3 DEF DInv
      <3>6. phase' = "run" /\ ~release' /\ handlers' = handlers
        BY <2>2
      <3>7. DInv'
        BY <3>1, <3>2, <3>3, <3>4, <3>5, <3>6 DEF DInv
      <3> QED BY <1>0, <3>3, <3>7 DEF Grow
    <2> QED BY <1>5, <2>1, <2>2 DEF D!debug_utils_setl
  <1>6. ASSUME NEW ue \in Units, D!printd_base(ue) PROVE DInv' /\ Grow
    <2> DEFINE us == IF log[ue] THEN {ue} ELSE {}
    <2>1. /\ handlers' = handlers /\ release' = release /\ log' = log
          /\ phase = "run" /\ phase' = phase /\ D!fprintf(us)
      BY <1>6 DEF D!printd_base
    <2>2. us \subseteq Units /\ \A u \in us : log[u]
      OBVIOUS
    <2> HIDE DEF us
    <2>3. /\ file' = file /\ lines' = [u \in Units |-> lines'[u]]
          /\ \A u \in Units : lines'[u] \in Nat /\ lines'[u] >= lines[u]
          /\ \A u \in Units : file[u] = "none" => lines'[u] = 0
      BY <2>1, <2>2, Printed
    <2>4. DInv'
      BY <2>1, <2>3 DEF DInv, FilesBefore, FilesAfter
    <2> QED BY <2>3, <2>4 DEF Grow
  <1>7. ASSUME NEW ue \in Units, D!debug_utils_unsetl(ue) PROVE DInv' /\ Grow
    <2>1. /\ handlers' = handlers /\ phase' = phase /\ lines' = lines /\ release' = release
          /\ file' = file /\ log' = [log EXCEPT ![ue] = FALSE] /\ phase = "run"
      BY <1>7 DEF D!debug_utils_unsetl
    <2>2. log' = [u \in Units |-> log'[u]] /\ \A u \in Units : log'[u] => log[u]
      BY <2>1 DEF DInv
    <2>3. DInv'
      BY <2>1, <2>2 DEF DInv, FilesBefore, FilesAfter
    <2> QED BY <1>0, <2>1, <2>3 DEF Grow
  <1>8. CASE D!cleanup
    <2>1. phase = "exit" /\ handlers # <<>> /\ handlers[Len(handlers)] = "cleanup"
      BY <1>8 DEF D!cleanup, D!at_exit
    <2>2. handlers = H2 /\ FilesBefore
      BY <2>1, Handlers DEF DInv
    <2>3. /\ handlers' = H1 /\ phase' = phase /\ lines' = lines /\ release' = release
          /\ file' = file /\ log' = log
      BY <1>8, <2>2, Handlers DEF D!cleanup, D!popped
    <2>4. DInv'
      BY <2>1, <2>2, <2>3 DEF DInv, FilesBefore, FilesAfter
    <2> QED BY <1>0, <2>3, <2>4 DEF Grow
  <1>9. CASE D!debug_utils_close
    <2>1. phase = "exit" /\ handlers # <<>> /\ handlers[Len(handlers)] = "debug_utils_close"
      BY <1>9 DEF D!debug_utils_close, D!at_exit
    <2>2. handlers = H1 /\ FilesBefore
      BY <2>1, Handlers DEF DInv
    <2> DEFINE us == IF release THEN {} ELSE {ue \in Units : file[ue] # "none"}
    <2>3. /\ handlers' = <<>> /\ phase' = phase /\ lines' = lines /\ release' = release
          /\ log' = log /\ D!fclose(us)
      BY <1>9, <2>2, Handlers DEF D!debug_utils_close, D!popped
    <2>4. \A ue \in Units : ue \in us <=> file[ue] = "open"
      BY <2>2 DEF DInv, FilesBefore
    <2> HIDE DEF us
    <2>5. /\ file' = [ue \in Units |-> file'[ue]]
          /\ \A ue \in Units : file'[ue] = IF file[ue] = "open" THEN "closed" ELSE file[ue]
      BY <2>3, <2>4 DEF D!fclose
    <2>6. FilesAfter' /\ \A ue \in Units : file'[ue] = "none" <=> file[ue] = "none"
      BY <2>2, <2>5 DEF FilesBefore, FilesAfter
    <2>7. DInv'
      BY <2>1, <2>3, <2>5, <2>6 DEF DInv
    <2> QED BY <1>0, <2>3, <2>7 DEF Grow
  <1>10. CASE D!exit
    <2>1. /\ phase = "exit" /\ handlers = <<>> /\ phase' = "end" /\ lines' = lines
          /\ release' = release /\ file' = file /\ log' = log /\ handlers' = handlers
      BY <1>10 DEF D!exit
    <2>2. FilesAfter
      BY <2>1, Handlers DEF DInv
    <2>3. DInv'
      BY <2>1, <2>2 DEF DInv, FilesAfter
    <2> QED BY <1>0, <2>1, <2>3 DEF Grow
  <1>11. CASE UNCHANGED D!vars
    BY <1>11 DEF DInv, FilesBefore, FilesAfter, D!vars
  <1> QED BY <1>1, <1>2, <1>3, <1>4, <1>5, <1>6, <1>7, <1>8, <1>9, <1>10, <1>11
          DEF D!Next, D!Stopped

\* The static data before debug_utils_init.
LEMMA DebugInit == D!Init => DInv
  BY DEF D!Init, DInv

\* Log files are used only while open, and closed when the program ends, for any
\* set of units: sys/debug_utils.c up to debug_utils_close.
THEOREM DebugFilesUsedOpen == D!Spec => []FilesUsedOpen
  <1>1. DInv => FilesUsedOpen
    BY DEF DInv, FilesUsedOpen, D!FilesUsedOpen, FilesBefore, FilesAfter
  <1> QED BY <1>1, DebugInit, DebugStep, PTL DEF D!Spec

\* Switching a log off and on again keeps what it holds: debug_utils_setl opens
\* the file once.
THEOREM DebugLogsKept == D!Spec => LogsKept
  <1>1. DInv /\ [D!Next]_(D!vars) => [Grow]_(D!vars)
    BY DebugStep
  <1> QED BY <1>1, DebugInit, DebugStep, PTL DEF D!Spec, LogsKept, D!LogsKept, Grow


-----------------------------------------------------------------------------
(***************************************************************************)
(* Semihost.                                                               *)
(***************************************************************************)
\* The constants of the device.
LEMMA HostConstants ==
  /\ Fds \subseteq Nat /\ PathMax \in Nat /\ BufMax \in Nat \ {0} /\ Offsets \subseteq Int
  /\ Contents \in [S!Paths -> Seq(S!Byte)]
  /\ \A p \in S!Paths : /\ p \in Seq(S!Byte) /\ Len(p) < PathMax
                        /\ \A i \in 1 .. Len(p) : p[i] # "0"
  /\ \A s \in Data : s \in Seq(S!Byte) /\ Len(s) <= BufMax
  BY DriversAssumption DEF S!SemihostAssumption

\* An array of n entries.
IsArray(a, n) == a = [i \in 1 .. n |-> a[i]]

\* The first bytes of an array are those written to it.
LEMMA Writearr ==
  ASSUME NEW n \in Nat, NEW a, IsArray(a, n), NEW A, NEW s \in Seq(A), Len(s) <= n
  PROVE  /\ IsArray(S!writearr(a, s), n)
         /\ \A i \in 1 .. Len(s) : S!writearr(a, s)[i] = s[i]
         /\ SubSeq(S!writearr(a, s), 1, Len(s)) = s
  <1> DEFINE w == S!writearr(a, s)
             l == Len(s)
             t == SubSeq(w, 1, l)
  <1>1. DOMAIN a = 1 .. n
    BY DEF IsArray
  <1>2. w = [i \in 1 .. n |-> IF i <= l THEN s[i] ELSE a[i]]
    BY <1>1 DEF S!writearr
  <1>3. l \in Nat /\ l <= n
    BY LenProperties
  <1> HIDE DEF w
  <1>4. IsArray(w, n) /\ \A i \in 1 .. l : w[i] = s[i]
    <2> HIDE DEF l
    <2>1. \A i \in 1 .. l : i \in 1 .. n /\ i <= l
      BY <1>3
    <2>2. \A i \in 1 .. l : w[i] = s[i]
      BY <1>2, <2>1
    <2>3. IsArray(w, n)
      BY <1>2 DEF IsArray
    <2> QED BY <2>2, <2>3
  <1>5. \A i \in 1 .. l : w[i] \in A
    BY <1>4, ElementOfSeq
  <1>6. t \in Seq(A) /\ Len(t) = (IF 1 <= l THEN l - 1 + 1 ELSE 0)
        /\ \A i \in 1 .. l - 1 + 1 : t[i] = w[1 + i - 1]
    <2> HIDE DEF l
    <2>1. 1 \in Int /\ l \in Int
      BY <1>3
    <2> QED BY <1>5, <2>1, SubSeqProperties
  <1> HIDE DEF t
  <1>7. Len(t) = l /\ \A i \in 1 .. l : t[i] = s[i]
    <2> HIDE DEF l
    <2>1. Len(t) = l /\ l - 1 + 1 = l
      BY <1>3, <1>6
    <2>2. \A i \in 1 .. l : t[i] = w[i]
      <3> TAKE i \in 1 .. l
      <3>1. 1 + i - 1 = i
        BY <1>3
      <3> QED BY <1>6, <2>1, <3>1
    <2> QED BY <1>4, <2>1, <2>2
  <1>8. t = s
    BY <1>6, <1>7, SeqEqual
  <1> QED BY <1>4, <1>8 DEF w, t

\* The host's files d and its open files o.
HostOk(d, o) ==
  /\ d = [p \in S!Paths |-> d[p]] /\ \A p \in S!Paths : d[p] \in Seq(S!Byte)
  /\ o = [fd \in DOMAIN o |-> o[fd]]
  /\ \A fd \in DOMAIN o : /\ o[fd] = [path |-> o[fd].path, pos |-> o[fd].pos]
                          /\ o[fd].path \in S!Paths /\ o[fd].pos \in Nat

\* The parts of an outcome.
LEMMA ResultParts ==
  ASSUME NEW d, NEW o, NEW ret, NEW data
  PROVE  LET s == S!Result(d, o, ret, data)
         IN  s.disk = d /\ s.open = o /\ s.ret = ret /\ s.data = data
  BY DEF S!Result

\* An open file moved to position p.
LEMMA MovedOk ==
  ASSUME HostOk(disk, open), NEW fd \in DOMAIN open, NEW p \in Nat
  PROVE  HostOk(disk, S!Moved(fd, p))
  <1> DEFINE o == S!Moved(fd, p)
             x == [open[fd] EXCEPT !.pos = p]
             a == open[fd].path
  <1>1. open[fd] = [path |-> a, pos |-> open[fd].pos] /\ a \in S!Paths
    BY DEF HostOk
  <1>2. open = [g \in DOMAIN open |-> open[g]]
    BY DEF HostOk
  <1>3. o = [open EXCEPT ![fd] = x]
    BY DEF S!Moved
  <1> HIDE DEF a
  <1>4. x = [path |-> a, pos |-> p]
    BY <1>1
  <1> HIDE DEF x, o
  <1>5. x.path = a /\ x.pos = p
    BY <1>4
  <1>6. DOMAIN o = DOMAIN open /\ o = [g \in DOMAIN o |-> o[g]] /\ o[fd] = x
        /\ \A g \in DOMAIN open : g # fd => o[g] = open[g]
    BY <1>2, <1>3
  <1>7. ASSUME NEW g \in DOMAIN o
        PROVE  /\ o[g] = [path |-> o[g].path, pos |-> o[g].pos]
               /\ o[g].path \in S!Paths /\ o[g].pos \in Nat
    <2>1. CASE g = fd
      BY <1>1, <1>4, <1>5, <1>6, <2>1
    <2>2. CASE g # fd
      BY <1>6, <2>2 DEF HostOk
    <2> QED BY <2>1, <2>2
  <1>8. disk = [q \in S!Paths |-> disk[q]] /\ \A q \in S!Paths : disk[q] \in Seq(S!Byte)
    BY DEF HostOk
  <1> QED BY <1>6, <1>7, <1>8 DEF HostOk, o


\* The smaller and the larger of two numbers.
LEMMA MinMax ==
  ASSUME NEW a \in Int, NEW b \in Int
  PROVE  /\ S!Min({a, b}) = IF a <= b THEN a ELSE b
         /\ S!Max({a, b}) = IF a <= b THEN b ELSE a
  BY DEF S!Min, S!Max

\* host_open: a new descriptor at the start of the file.
LEMMA OpenOk ==
  ASSUME HostOk(disk, open), NEW path
  PROVE  LET s == S!host_open(path) IN HostOk(s.disk, s.open) /\ s.data = <<>>
  <1> DEFINE s == S!host_open(path)
             free == Fds \ DOMAIN open
             fd == S!Min(free)
             x == [path |-> path, pos |-> 0]
             o == [d \in DOMAIN open \cup {fd} |-> IF d = fd THEN x ELSE open[d]]
  <1>1. CASE path \in S!Paths /\ free # {}
    <2>1. s = S!Result(disk, o, fd, <<>>)
      BY <1>1 DEF S!host_open
    <2>2. x.path = path /\ x.pos = 0 /\ x = [path |-> x.path, pos |-> x.pos]
      OBVIOUS
    <2> HIDE DEF fd, free, x
    <2>3. /\ DOMAIN o = DOMAIN open \cup {fd} /\ o = [d \in DOMAIN o |-> o[d]]
          /\ o[fd] = x /\ \A d \in DOMAIN open : d # fd => o[d] = open[d]
      OBVIOUS
    <2> HIDE DEF o, s
    <2>4. ASSUME NEW d \in DOMAIN o
          PROVE  /\ o[d] = [path |-> o[d].path, pos |-> o[d].pos]
                 /\ o[d].path \in S!Paths /\ o[d].pos \in Nat
      <3>1. CASE d = fd
        BY <1>1, <2>2, <2>3, <3>1
      <3>2. CASE d # fd
        BY <2>3, <3>2 DEF HostOk
      <3> QED BY <3>1, <3>2
    <2>5. HostOk(disk, o)
      BY <2>3, <2>4 DEF HostOk
    <2>6. s.disk = disk /\ s.open = o /\ s.data = <<>>
      BY <2>1, ResultParts
    <2> QED BY <2>5, <2>6 DEF s
  <1>2. CASE ~(path \in S!Paths /\ free # {})
    <2>1. s = S!Result(disk, open, -1, <<>>)
      BY <1>2 DEF S!host_open, S!Failed
    <2> HIDE DEF s
    <2>2. s.disk = disk /\ s.open = open /\ s.data = <<>>
      BY <2>1, ResultParts
    <2> QED BY <2>2 DEF s
  <1> QED BY <1>1, <1>2

\* host_close: the descriptor is free again.
LEMMA CloseOk ==
  ASSUME HostOk(disk, open), NEW fd
  PROVE  LET s == S!host_close(fd) IN HostOk(s.disk, s.open) /\ s.data = <<>>
  <1> DEFINE s == S!host_close(fd)
             o == [d \in DOMAIN open \ {fd} |-> open[d]]
  <1>1. s = S!Result(disk, o, 0, <<>>)
    BY DEF S!host_close
  <1>2. /\ DOMAIN o = DOMAIN open \ {fd} /\ o = [d \in DOMAIN o |-> o[d]]
        /\ \A d \in DOMAIN o : o[d] = open[d]
    OBVIOUS
  <1> HIDE DEF o, s
  <1>3. s.disk = disk /\ s.open = o /\ s.data = <<>>
    BY <1>1, ResultParts
  <1>4. HostOk(disk, o)
    BY <1>2 DEF HostOk
  <1> QED BY <1>3, <1>4 DEF s

\* host_fstat changes nothing and tells one thing.
LEMMA FstatOk ==
  ASSUME HostOk(disk, open), NEW fd
  PROVE  LET s == S!host_fstat(fd)
         IN  HostOk(s.disk, s.open) /\ Len(s.data) = 1 /\ s.data \in Seq({s.data[1]})
  <1> DEFINE s == S!host_fstat(fd)
             n == S!ToString(Len(disk[open[fd].path]))
  <1>1. s = S!Result(disk, open, 0, <<n>>)
    BY DEF S!host_fstat
  <1> HIDE DEF n, s
  <1>2. s.disk = disk /\ s.open = open /\ s.data = <<n>>
    BY <1>1, ResultParts
  <1>3. Len(<<n>>) = 1 /\ <<n>> \in Seq({n}) /\ <<n>>[1] = n
    OBVIOUS
  <1> QED BY <1>2, <1>3 DEF s

\* host_read: at most count bytes of the file, and the position moves by them.
LEMMA ReadOk ==
  ASSUME HostOk(disk, open), NEW fd \in DOMAIN open, NEW count \in Nat
  PROVE  LET s == S!host_read(fd, count)
         IN  HostOk(s.disk, s.open) /\ s.data \in Seq(S!Byte) /\ Len(s.data) <= count
  <1> DEFINE s == S!host_read(fd, count)
             f == disk[open[fd].path]
             l == Len(f)
             pos == open[fd].pos
             m == S!Min({l, pos + count})
             some == SubSeq(f, pos + 1, m)
             to == pos + Len(some)
  <1>1. s = S!Result(disk, S!Moved(fd, to), Len(some), some)
    BY DEF S!host_read
  <1>2. f \in Seq(S!Byte) /\ pos \in Nat
    BY DEF HostOk
  <1>3. l \in Nat /\ \A i \in 1 .. l : f[i] \in S!Byte
    <2> HIDE DEF f
    <2> QED BY <1>2, LenProperties, ElementOfSeq
  <1> HIDE DEF f, l, pos
  <1>4. m = IF l <= pos + count THEN l ELSE pos + count
    BY <1>2, <1>3, MinMax
  <1>5. m \in Int /\ m <= l /\ m <= pos + count
    BY <1>2, <1>3, <1>4
  <1> HIDE DEF m, some
  <1>6. some \in Seq(S!Byte) /\ Len(some) = IF pos + 1 <= m THEN m - (pos + 1) + 1 ELSE 0
    <2>1. pos + 1 \in Int /\ \A i \in pos + 1 .. m : f[i] \in S!Byte
      BY <1>2, <1>3, <1>5
    <2> DEFINE p1 == pos + 1
    <2> HIDE DEF p1
    <2>2. p1 \in Int /\ \A i \in p1 .. m : f[i] \in S!Byte
      BY <2>1 DEF p1
    <2>3. LET z == SubSeq(f, p1, m)
          IN  z \in Seq(S!Byte) /\ Len(z) = IF p1 <= m THEN m - p1 + 1 ELSE 0
      BY <1>5, <2>2, SubSeqProperties
    <2> QED BY <2>3 DEF p1, some
  <1>7. Len(some) \in Nat /\ Len(some) <= count /\ to \in Nat
    BY <1>2, <1>5, <1>6
  <1> HIDE DEF to, s
  <1>8. s.disk = disk /\ s.open = S!Moved(fd, to) /\ s.data = some
    BY <1>1, ResultParts
  <1>9. HostOk(disk, S!Moved(fd, to))
    BY <1>7, MovedOk
  <1> QED BY <1>6, <1>7, <1>8, <1>9 DEF s


\* A file that is written stays a file.
LEMMA OverwrittenOk ==
  ASSUME NEW f \in Seq(S!Byte), NEW p \in Nat, NEW s \in Seq(S!Byte)
  PROVE  S!Overwritten(f, p, s) \in Seq(S!Byte)
  <1> DEFINE l == Len(f)
             k == Len(s)
             n == S!Max({l, p + k})
             w == S!Overwritten(f, p, s)
             E(i) == IF i > p /\ i <= p + k THEN s[i - p] ELSE IF i <= l THEN f[i] ELSE "0"
  <1>0. l \in Nat /\ k \in Nat
    BY LenProperties
  <1>1. l \in Nat /\ k \in Nat /\ (\A i \in 1 .. l : f[i] \in S!Byte)
        /\ \A i \in 1 .. k : s[i] \in S!Byte
    <2>1. \A i \in 1 .. l : f[i] \in S!Byte
      BY ElementOfSeq
    <2>2. \A i \in 1 .. k : s[i] \in S!Byte
      BY ElementOfSeq
    <2> QED BY <1>0, <2>1, <2>2
  <1>2. w = [i \in 1 .. n |-> E(i)]
    BY DEF S!Overwritten
  <1> HIDE DEF l, k, w
  <1>3. n = IF l <= p + k THEN p + k ELSE l
    <2> DEFINE b == p + k
    <2>1. l \in Int /\ b \in Int /\ n = S!Max({l, b})
      BY <1>1
    <2> HIDE DEF b, n
    <2>2. S!Max({l, b}) = IF l <= b THEN b ELSE l
      BY <2>1, MinMax
    <2> QED BY <2>1, <2>2 DEF b
  <1>4. n \in Nat
    BY <1>1, <1>3
  <1> HIDE DEF n
  <1>5. \A i \in 1 .. n : E(i) \in S!Byte
    <2> TAKE i \in 1 .. n
    <2>1. CASE i > p /\ i <= p + k
      <3>1. i - p \in 1 .. k
        BY <1>1, <1>4, <2>1
      <3> QED BY <1>1, <2>1, <3>1
    <2>2. CASE ~(i > p /\ i <= p + k) /\ i <= l
      <3>1. i \in 1 .. l
        BY <1>1, <1>4, <2>2
      <3> QED BY <1>1, <2>2, <3>1
    <2>3. CASE ~(i > p /\ i <= p + k) /\ ~(i <= l)
      <3>1. "0" \in S!Byte
        BY DEF S!Byte
      <3> QED BY <2>3, <3>1
    <2> QED BY <2>1, <2>2, <2>3
  <1> HIDE DEF E
  <1>6. w \in [1 .. n -> S!Byte]
    BY <1>2, <1>5
  <1>7. w \in Seq(S!Byte)
    BY <1>4, <1>6, SeqDef
  <1> QED BY <1>7 DEF w

\* host_write: the file has the bytes, and the position moves by them.
LEMMA WriteOk ==
  ASSUME HostOk(disk, open), NEW fd \in DOMAIN open, NEW data \in Seq(S!Byte)
  PROVE  LET s == S!host_write(fd, data) IN HostOk(s.disk, s.open) /\ s.data = <<>>
  <1> DEFINE s == S!host_write(fd, data)
             path == open[fd].path
             pos == open[fd].pos
             x == S!Overwritten(disk[path], pos, data)
             d == [disk EXCEPT ![path] = x]
             to == pos + Len(data)
             o == S!Moved(fd, to)
  <1>1. s = S!Result(d, o, Len(data), <<>>)
    BY DEF S!host_write
  <1>2. /\ path \in S!Paths /\ pos \in Nat /\ disk[path] \in Seq(S!Byte)
        /\ disk = [q \in S!Paths |-> disk[q]] /\ \A q \in S!Paths : disk[q] \in Seq(S!Byte)
    BY DEF HostOk
  <1>3. to \in Nat
    BY <1>2, LenProperties
  <1> HIDE DEF to
  <1>4. HostOk(disk, o)
    BY <1>3, MovedOk
  <1> HIDE DEF path, pos, o, s
  <1>5. x \in Seq(S!Byte)
    BY <1>2, OverwrittenOk
  <1> HIDE DEF x
  <1>6. d = [q \in S!Paths |-> d[q]] /\ \A q \in S!Paths : d[q] \in Seq(S!Byte)
    BY <1>2, <1>5
  <1> HIDE DEF d
  <1>7. HostOk(d, o)
    BY <1>4, <1>6 DEF HostOk
  <1>8. s.disk = d /\ s.open = o /\ s.data = <<>>
    BY <1>1, ResultParts
  <1> QED BY <1>7, <1>8 DEF s

\* host_lseek moves to a position that is not negative, or fails.
LEMMA LseekOk ==
  ASSUME HostOk(disk, open), NEW fd \in DOMAIN open, NEW offset \in Int, NEW whence \in 0 .. 2
  PROVE  LET s == S!host_lseek(fd, offset, whence) IN HostOk(s.disk, s.open) /\ s.data = <<>>
  <1> DEFINE s == S!host_lseek(fd, offset, whence)
             pos == open[fd].pos
             l == Len(disk[open[fd].path])
             from == CASE whence = 0 -> 0 [] whence = 1 -> pos [] whence = 2 -> l
             goal == offset + from
  <1>1. s = IF goal >= 0 THEN S!Result(disk, S!Moved(fd, goal), goal, <<>>) ELSE S!Failed
    BY DEF S!host_lseek
  <1>2. pos \in Nat /\ l \in Nat
    BY LenProperties DEF HostOk
  <1> HIDE DEF pos, l, s
  <1>3. from \in Nat
    <2>1. CASE whence = 0
      BY <2>1
    <2>2. CASE whence = 1
      BY <1>2, <2>2
    <2>3. CASE whence = 2
      BY <1>2, <2>3
    <2> QED BY <2>1, <2>2, <2>3
  <1> HIDE DEF from
  <1>4. CASE goal >= 0
    <2>1. goal \in Nat
      BY <1>3, <1>4
    <2> HIDE DEF goal
    <2>2. s = S!Result(disk, S!Moved(fd, goal), goal, <<>>)
      BY <1>1, <1>4
    <2>3. s.disk = disk /\ s.open = S!Moved(fd, goal) /\ s.data = <<>>
      BY <2>2, ResultParts
    <2>4. HostOk(disk, S!Moved(fd, goal))
      BY <2>1, MovedOk
    <2> QED BY <2>3, <2>4 DEF s
  <1>5. CASE ~(goal >= 0)
    <2>1. s = S!Result(disk, open, -1, <<>>)
      BY <1>1, <1>5 DEF S!Failed
    <2>2. s.disk = disk /\ s.open = open /\ s.data = <<>>
      BY <2>1, ResultParts
    <2> QED BY <2>2 DEF s
  <1> QED BY <1>4, <1>5

\* A request that cannot be served changes nothing.
LEMMA FailedOk ==
  ASSUME HostOk(disk, open)
  PROVE  HostOk(S!Failed.disk, S!Failed.open) /\ S!Failed.data = <<>>
  BY ResultParts DEF S!Failed

\* The path the device reads from its array is the one written there.
LEMMA DecodedPath ==
  ASSUME NEW a, IsArray(a, PathMax), NEW path \in S!Paths
  PROVE  LET w == S!writearr(a, Append(path, "0"))
         IN  /\ IsArray(w, PathMax)
             /\ SubSeq(w, 1, S!Min({i \in 1 .. PathMax : w[i] = "0"}) - 1) = path
  <1> DEFINE t == Append(path, "0")
             w == S!writearr(a, t)
             l == Len(path)
             Z == {i \in 1 .. PathMax : w[i] = "0"}
  <1>1. /\ path \in Seq(S!Byte) /\ l \in Nat /\ l < PathMax /\ PathMax \in Nat
        /\ \A i \in 1 .. l : path[i] # "0" /\ path[i] \in S!Byte
    BY HostConstants, LenProperties, ElementOfSeq
  <1>2. "0" \in S!Byte
    BY DEF S!Byte
  <1>3. /\ t \in Seq(S!Byte) /\ Len(t) = l + 1
        /\ \A i \in 1 .. l : t[i] = path[i]
        /\ t[l + 1] = "0"
    BY <1>1, <1>2, AppendProperties
  <1> HIDE DEF t
  <1>4. IsArray(w, PathMax) /\ \A i \in 1 .. Len(t) : w[i] = t[i]
    <2>1. Len(t) <= PathMax
      BY <1>1, <1>3
    <2> QED BY <1>1, <1>3, <2>1, Writearr
  <1> HIDE DEF w, l
  <1>5. w[l + 1] = "0" /\ \A i \in 1 .. l : w[i] = path[i]
    BY <1>1, <1>3, <1>4
  <1>6. S!Min(Z) = l + 1
    <2>1. l + 1 \in Z
      BY <1>1, <1>5
    <2>2. \A i \in Z : i \in Int /\ l + 1 <= i
      <3> TAKE i \in Z
      <3>1. i \in 1 .. PathMax /\ w[i] = "0"
        OBVIOUS
      <3>2. ~(i <= l)
        BY <1>1, <1>5, <3>1
      <3> QED BY <1>1, <3>1, <3>2
    <2> HIDE DEF Z
    <2> DEFINE P(x) == x \in Z /\ \A y \in Z : x <= y
    <2>3. P(l + 1)
      BY <2>1, <2>2
    <2>4. \A x : P(x) => x = l + 1
      BY <1>1, <2>1, <2>2
    <2>5. S!Min(Z) = CHOOSE x \in Z : \A y \in Z : x <= y
      BY DEF S!Min
    <2> QED BY <2>3, <2>4, <2>5
  <1>7. SubSeq(w, 1, l) = path
    <2> DEFINE u == SubSeq(w, 1, l)
    <2>1. \A i \in 1 .. l : w[i] \in S!Byte
      BY <1>1, <1>5
    <2>2. u \in Seq(S!Byte) /\ Len(u) = (IF 1 <= l THEN l - 1 + 1 ELSE 0)
          /\ \A i \in 1 .. l - 1 + 1 : u[i] = w[1 + i - 1]
      <3>1. 1 \in Int /\ l \in Int
        BY <1>1
      <3> QED BY <2>1, <3>1, SubSeqProperties
    <2> HIDE DEF u
    <2>3. Len(u) = l /\ \A i \in 1 .. l : u[i] = path[i]
      <3>1. Len(u) = l /\ l - 1 + 1 = l
        BY <1>1, <2>2
      <3>2. \A i \in 1 .. l : u[i] = w[i]
        <4> TAKE i \in 1 .. l
        <4>1. 1 + i - 1 = i
          BY <1>1
        <4> QED BY <2>2, <3>1, <4>1
      <3> QED BY <1>5, <3>1, <3>2
    <2>4. u = path
      BY <1>1, <2>2, <2>3, SeqEqual DEF l
    <2> QED BY <2>4 DEF u
  <1>8. S!Min(Z) - 1 = l
    BY <1>1, <1>6
  <1> QED BY <1>4, <1>7, <1>8 DEF w, t


\* The first bytes of the caller's buffer are those the device gave.
LEMMA Prefix ==
  ASSUME NEW n \in Nat, NEW b, IsArray(b, n), NEW A, NEW s \in Seq(A), NEW c \in Nat,
         Len(s) <= c, c <= n
  PROVE  SubSeq(SubSeq(S!writearr(b, s), 1, c), 1, Len(s)) = s
  <1> DEFINE w == S!writearr(b, s)
             k == Len(s)
             B == {w[i] : i \in 1 .. n}
             v == SubSeq(w, 1, c)
             t == SubSeq(v, 1, k)
  <1>0. k \in Nat
    BY LenProperties
  <1>1. \A i \in 1 .. k : w[i] = s[i] /\ s[i] \in A
    <2>1. Len(s) <= n
      BY <1>0
    <2>2. \A i \in 1 .. Len(s) : w[i] = s[i]
      BY <2>1, Writearr
    <2> QED BY <2>2, ElementOfSeq
  <1>2. \A i \in 1 .. c : w[i] \in B
    OBVIOUS
  <1> HIDE DEF w, B
  <1>3. \A i \in 1 .. c - 1 + 1 : v[i] = w[1 + i - 1]
    <2>1. 1 \in Int /\ c \in Int
      OBVIOUS
    <2> QED BY <1>2, <2>1, SubSeqProperties
  <1> HIDE DEF v
  <1>4. \A i \in 1 .. c : v[i] = w[i]
    <2> TAKE i \in 1 .. c
    <2>1. 1 + i - 1 = i /\ i \in 1 .. c - 1 + 1
      OBVIOUS
    <2> QED BY <1>3, <2>1
  <1>5. \A i \in 1 .. k : v[i] = s[i] /\ v[i] \in A
    <2> HIDE DEF k
    <2>1. \A i \in 1 .. k : i \in 1 .. c
      BY <1>0 DEF k
    <2> QED BY <1>1, <1>4, <2>1
  <1>6. t \in Seq(A) /\ Len(t) = (IF 1 <= k THEN k - 1 + 1 ELSE 0)
        /\ \A i \in 1 .. k - 1 + 1 : t[i] = v[1 + i - 1]
    <2> HIDE DEF k
    <2>1. 1 \in Int /\ k \in Int
      BY <1>0
    <2> QED BY <1>5, <2>1, SubSeqProperties
  <1> HIDE DEF t
  <1>7. Len(t) = k /\ \A i \in 1 .. k : t[i] = s[i]
    <2> HIDE DEF k
    <2>1. Len(t) = k /\ k - 1 + 1 = k
      BY <1>0, <1>6
    <2>2. \A i \in 1 .. k : t[i] = v[i]
      <3> TAKE i \in 1 .. k
      <3>1. 1 + i - 1 = i
        BY <1>0
      <3> QED BY <1>6, <2>1, <3>1
    <2> QED BY <1>5, <2>1, <2>2
  <1>8. t = s
    BY <1>6, <1>7, SeqEqual
  <1> QED BY <1>8 DEF w, v, t

\* The registers, and a request, field by field.
RG(ty, fd, n, o, wh, ret, p, b) ==
  [type |-> ty, fd |-> fd, count |-> n, offset |-> o, whence |-> wh, ret |-> ret,
   path |-> p, buf |-> b]
RQ(ty, fd, n, o, wh, p, d) ==
  [type |-> ty, fd |-> fd, count |-> n, offset |-> o, whence |-> wh, path |-> p, data |-> d]

\* The registers as the calls find them.
IsReg(r) ==
  /\ r = RG(r.type, r.fd, r.count, r.offset, r.whence, r.ret, r.path, r.buf)
  /\ IsArray(r.path, PathMax) /\ IsArray(r.buf, BufMax)

\* Their fields.
LEMMA Fields ==
  ASSUME NEW ty, NEW fd, NEW n, NEW o, NEW wh, NEW ret, NEW p, NEW b
  PROVE  /\ LET r == RG(ty, fd, n, o, wh, ret, p, b)
            IN  /\ r.type = ty /\ r.fd = fd /\ r.count = n /\ r.offset = o /\ r.whence = wh
                /\ r.ret = ret /\ r.path = p /\ r.buf = b
         /\ LET q == RQ(ty, fd, n, o, wh, p, b)
            IN  /\ q.type = ty /\ q.fd = fd /\ q.count = n /\ q.offset = o /\ q.whence = wh
                /\ q.path = p /\ q.data = b
  BY DEF RG, RQ

\* What the device makes of its registers.
LEMMA DecodedRG ==
  ASSUME NEW ty, NEW fd, NEW n, NEW o, NEW wh, NEW ret, NEW p, NEW b
  PROVE  S!Decoded(RG(ty, fd, n, o, wh, ret, p, b)) =
           RQ(ty, fd, n, o, wh, SubSeq(p, 1, S!Min({i \in 1 .. PathMax : p[i] = "0"}) - 1),
              SubSeq(b, 1, n))
  <1> DEFINE r == RG(ty, fd, n, o, wh, ret, p, b)
  <1>1. /\ r.type = ty /\ r.fd = fd /\ r.count = n /\ r.offset = o /\ r.whence = wh
        /\ r.path = p /\ r.buf = b
    BY Fields
  <1> HIDE DEF r
  <1>2. S!Decoded(r) =
          RQ(ty, fd, n, o, wh, SubSeq(p, 1, S!Min({i \in 1 .. PathMax : p[i] = "0"}) - 1),
             SubSeq(b, 1, n))
    BY <1>1 DEF S!Decoded, RQ
  <1> QED BY <1>2 DEF r

\* What of a request each kind of it uses.
LEMMA Served1 ==
  ASSUME NEW fd, NEW n, NEW o, NEW wh, NEW p, NEW d
  PROVE  S!Serve(RQ("OPEN", fd, n, o, wh, p, d)) = S!host_open(p)
  BY Fields DEF S!Serve

\* The others need an open file.
LEMMA Served2 ==
  ASSUME NEW fd, NEW n, NEW o, NEW wh, NEW p, NEW d
  PROVE  /\ S!Serve(RQ("READ", fd, n, o, wh, p, d)) =
              IF fd \in DOMAIN open THEN S!host_read(fd, n) ELSE S!Failed
         /\ S!Serve(RQ("WRITE", fd, n, o, wh, p, d)) =
              IF fd \in DOMAIN open THEN S!host_write(fd, d) ELSE S!Failed
         /\ S!Serve(RQ("LSEEK", fd, n, o, wh, p, d)) =
              IF fd \in DOMAIN open THEN S!host_lseek(fd, o, wh) ELSE S!Failed
         /\ S!Serve(RQ("FSTAT", fd, n, o, wh, p, d)) =
              IF fd \in DOMAIN open THEN S!host_fstat(fd) ELSE S!Failed
         /\ S!Serve(RQ("CLOSE", fd, n, o, wh, p, d)) =
              IF fd \in DOMAIN open THEN S!host_close(fd) ELSE S!Failed
  <1> DEFINE Q(ty) == RQ(ty, fd, n, o, wh, p, d)
             Arm(q) == CASE q.type = "READ"  -> S!host_read(q.fd, q.count)
                         [] q.type = "WRITE" -> S!host_write(q.fd, q.data)
                         [] q.type = "LSEEK" -> S!host_lseek(q.fd, q.offset, q.whence)
                         [] q.type = "FSTAT" -> S!host_fstat(q.fd)
                         [] q.type = "CLOSE" -> S!host_close(q.fd)
  <1>1. \A ty : /\ Q(ty).type = ty /\ Q(ty).fd = fd /\ Q(ty).count = n /\ Q(ty).offset = o
                /\ Q(ty).whence = wh /\ Q(ty).data = d
    BY Fields
  <1>2. \A q : S!Serve(q) = IF q.type = "OPEN" THEN S!host_open(q.path)
                            ELSE IF q.fd \notin DOMAIN open THEN S!Failed ELSE Arm(q)
    BY DEF S!Serve
  <1>3. /\ \A q : q.type = "READ" => Arm(q) = S!host_read(q.fd, q.count)
        /\ \A q : q.type = "WRITE" => Arm(q) = S!host_write(q.fd, q.data)
        /\ \A q : q.type = "LSEEK" => Arm(q) = S!host_lseek(q.fd, q.offset, q.whence)
        /\ \A q : q.type = "FSTAT" => Arm(q) = S!host_fstat(q.fd)
        /\ \A q : q.type = "CLOSE" => Arm(q) = S!host_close(q.fd)
    OBVIOUS
  <1> HIDE DEF Q, Arm
  <1>4. S!Serve(Q("READ")) = IF fd \in DOMAIN open THEN S!host_read(fd, n) ELSE S!Failed
    BY <1>1, <1>2, <1>3
  <1>5. S!Serve(Q("WRITE")) = IF fd \in DOMAIN open THEN S!host_write(fd, d) ELSE S!Failed
    BY <1>1, <1>2, <1>3
  <1>6. S!Serve(Q("LSEEK")) = IF fd \in DOMAIN open THEN S!host_lseek(fd, o, wh) ELSE S!Failed
    BY <1>1, <1>2, <1>3
  <1>7. S!Serve(Q("FSTAT")) = IF fd \in DOMAIN open THEN S!host_fstat(fd) ELSE S!Failed
    BY <1>1, <1>2, <1>3
  <1>8. S!Serve(Q("CLOSE")) = IF fd \in DOMAIN open THEN S!host_close(fd) ELSE S!Failed
    BY <1>1, <1>2, <1>3
  <1> QED BY <1>4, <1>5, <1>6, <1>7, <1>8 DEF Q


\* The invariant: well-formed registers, files and positions.
SInv == IsReg(reg) /\ HostOk(disk, open)

\* What a step must do: ServedAsAsked.
Asked ==
  LET served == S!Serve(asked')
  IN  /\ disk' = served.disk /\ open' = served.open /\ answer'.ret = served.ret
      /\ SubSeq(answer'.data, 1, Len(served.data)) = served.data

\* What the device may give for request q in s.
DataOk(q, s) ==
  \/ s.data = <<>>
  \/ /\ q.type = "READ" /\ q.count \in 0 .. BufMax
     /\ s.data \in Seq(S!Byte) /\ Len(s.data) <= q.count
  \/ q.type = "FSTAT" /\ Len(s.data) = 1 /\ s.data \in Seq({s.data[1]})

\* The array stays an array.
LEMMA WritearrArray ==
  ASSUME NEW a, NEW n, IsArray(a, n), NEW s
  PROVE  IsArray(S!writearr(a, s), n)
  <1>1. DOMAIN a = 1 .. n
    BY DEF IsArray
  <1>2. S!writearr(a, s) = [i \in 1 .. n |-> IF i <= Len(s) THEN s[i] ELSE a[i]]
    BY <1>1 DEF S!writearr
  <1> DEFINE E(i) == IF i <= Len(s) THEN s[i] ELSE a[i]
  <1> HIDE DEF E
  <1>3. S!writearr(a, s) = [i \in 1 .. n |-> E(i)]
    BY <1>2 DEF E
  <1> QED BY <1>3 DEF IsArray

\* A request whose registers say what was asked.
LEMMA Submitted ==
  ASSUME NEW ty, NEW fd, NEW n, NEW o, NEW wh, NEW ret, NEW p, NEW b, NEW q, NEW s,
         IsArray(p, PathMax), IsArray(b, BufMax),
         s = S!Serve(S!Decoded(RG(ty, fd, n, o, wh, ret, p, b))), s = S!Serve(q),
         HostOk(s.disk, s.open), DataOk(q, s), S!submit(RG(ty, fd, n, o, wh, ret, p, b), q)
  PROVE  SInv' /\ Asked
  <1> DEFINE r == RG(ty, fd, n, o, wh, ret, p, b)
             w == S!writearr(b, s.data)
             e == s.ret
             r1 == [r EXCEPT !.ret = e]
             r2 == [r1 EXCEPT !.buf = w]
             A == CASE q.type = "READ" -> SubSeq(w, 1, q.count)
                    [] q.type = "FSTAT" -> SubSeq(w, 1, 1)
                    [] OTHER -> <<>>
  <1>1. r.buf = b
    BY Fields
  <1>2. /\ disk' = s.disk /\ open' = s.open /\ asked' = q /\ reg' = r2
        /\ answer' = [ret |-> e, data |-> A]
    BY <1>1 DEF S!submit
  <1>3. IsArray(w, BufMax)
    BY WritearrArray
  <1> HIDE DEF A, w, e
  <1>4. r1 = RG(ty, fd, n, o, wh, e, p, b)
    BY DEF RG
  <1> HIDE DEF r1
  <1>5. r2 = RG(ty, fd, n, o, wh, e, p, w)
    BY <1>4 DEF RG
  <1> HIDE DEF r2
  <1>6. /\ r2.type = ty /\ r2.fd = fd /\ r2.count = n /\ r2.offset = o /\ r2.whence = wh
        /\ r2.ret = e /\ r2.path = p /\ r2.buf = w
    BY <1>5, Fields
  <1>7. IsReg(r2)
    BY <1>3, <1>5, <1>6 DEF IsReg
  <1>8. SInv'
    <2>1. IsReg(reg')
      BY <1>2, <1>7
    <2>2. HostOk(disk', open')
      BY <1>2
    <2> QED BY <2>1, <2>2 DEF SInv
  <1>9. SubSeq(A, 1, Len(s.data)) = s.data
    <2>1. CASE s.data = <<>>
      <3>1. Len(<<>>) = 0 /\ SubSeq(A, 1, 0) = <<>>
        BY SubSeqEmpty, EmptySeq
      <3> QED BY <2>1, <3>1
    <2>2. CASE /\ q.type = "READ" /\ q.count \in 0 .. BufMax
               /\ s.data \in Seq(S!Byte) /\ Len(s.data) <= q.count
      <3> DEFINE c == q.count
                 x == s.data
      <3>1. A = SubSeq(w, 1, c)
        BY <2>2 DEF A
      <3>2. /\ BufMax \in Nat /\ c \in Nat /\ c <= BufMax /\ x \in Seq(S!Byte) /\ Len(x) <= c
            /\ w = S!writearr(b, x)
        BY <2>2, HostConstants DEF w
      <3> HIDE DEF c, x
      <3>3. SubSeq(SubSeq(S!writearr(b, x), 1, c), 1, Len(x)) = x
        BY <3>2, Prefix
      <3> QED BY <3>1, <3>2, <3>3 DEF x
    <2>3. CASE q.type = "FSTAT" /\ Len(s.data) = 1 /\ s.data \in Seq({s.data[1]})
      <3> DEFINE x == s.data
                 y == {s.data[1]}
      <3>1. A = SubSeq(w, 1, 1)
        BY <2>3 DEF A
      <3>2. /\ BufMax \in Nat /\ 1 \in Nat /\ 1 <= BufMax /\ x \in Seq(y) /\ Len(x) <= 1
            /\ w = S!writearr(b, x)
        BY <2>3, HostConstants DEF w
      <3> HIDE DEF x, y
      <3>3. SubSeq(SubSeq(S!writearr(b, x), 1, 1), 1, Len(x)) = x
        BY <3>2, Prefix
      <3> QED BY <3>1, <3>2, <3>3 DEF x
    <2> QED BY <2>1, <2>2, <2>3 DEF DataOk
  <1>10. answer'.ret = s.ret /\ answer'.data = A
    BY <1>2 DEF e
  <1>11. S!Serve(asked') = s
    BY <1>2
  <1>12. Asked
    BY <1>2, <1>9, <1>10, <1>11 DEF Asked
  <1> QED BY <1>8, <1>12


\* The blank request.
LEMMA BlankRQ == S!Blank = RQ("none", 0, 0, 0, 0, <<>>, <<>>)
  BY DEF S!Blank, RQ

\* dev_semihost_do_read.
LEMMA CallRead ==
  ASSUME SInv, NEW fd \in Fds, NEW count \in 1 .. BufMax, S!dev_semihost_do_read(fd, count)
  PROVE  SInv' /\ Asked
  <1> DEFINE o == reg.offset
             wh == reg.whence
             ret == reg.ret
             p == reg.path
             b == reg.buf
             ty == reg.type
             f0 == reg.fd
             n0 == reg.count
             READ == "READ"
             r == RG(READ, fd, count, o, wh, ret, p, b)
             q == RQ(READ, fd, count, 0, 0, <<>>, <<>>)
             s == S!Serve(q)
  <1>1. /\ reg = RG(ty, f0, n0, o, wh, ret, p, b) /\ IsArray(p, PathMax) /\ IsArray(b, BufMax)
        /\ HostOk(disk, open)
    BY DEF SInv, IsReg
  <1>2. S!submit([reg EXCEPT !.type = READ, !.fd = fd, !.count = count],
                 [S!Blank EXCEPT !.type = READ, !.fd = fd, !.count = count])
    BY DEF S!dev_semihost_do_read
  <1> HIDE DEF o, wh, ret, p, b, ty, f0, n0, READ
  <1>3. [reg EXCEPT !.type = READ, !.fd = fd, !.count = count] = r
    <2> DEFINE r1 == [reg EXCEPT !.type = READ]
               r2 == [r1 EXCEPT !.fd = fd]
               r3 == [r2 EXCEPT !.count = count]
    <2>1. r1 = RG(READ, f0, n0, o, wh, ret, p, b)
      BY <1>1 DEF RG
    <2> HIDE DEF r1
    <2>2. r2 = RG(READ, fd, n0, o, wh, ret, p, b)
      BY <2>1 DEF RG
    <2> HIDE DEF r2
    <2>3. r3 = r
      BY <2>2 DEF RG
    <2> QED BY <2>3 DEF r1, r2
  <1>4. [S!Blank EXCEPT !.type = READ, !.fd = fd, !.count = count] = q
    <2> DEFINE q0 == S!Blank
               q1 == [q0 EXCEPT !.type = READ]
               q2 == [q1 EXCEPT !.fd = fd]
               q3 == [q2 EXCEPT !.count = count]
    <2>0. q0 = RQ("none", 0, 0, 0, 0, <<>>, <<>>)
      BY BlankRQ
    <2> HIDE DEF q0
    <2>1. q1 = RQ(READ, 0, 0, 0, 0, <<>>, <<>>)
      BY <2>0 DEF RQ
    <2> HIDE DEF q1
    <2>2. q2 = RQ(READ, fd, 0, 0, 0, <<>>, <<>>)
      BY <2>1 DEF RQ
    <2> HIDE DEF q2
    <2>3. q3 = q
      BY <2>2 DEF RQ
    <2> QED BY <2>3 DEF q0, q1, q2
  <1>5. S!submit(r, q)
    BY <1>2, <1>3, <1>4
  <1>6. s = IF fd \in DOMAIN open THEN S!host_read(fd, count) ELSE S!Failed
    BY Served2 DEF READ
  <1>7. S!Serve(S!Decoded(r)) = s
    <2> DEFINE x == SubSeq(p, 1, S!Min({i \in 1 .. PathMax : p[i] = "0"}) - 1)
               y == SubSeq(b, 1, count)
    <2>1. S!Decoded(r) = RQ(READ, fd, count, o, wh, x, y)
      BY DecodedRG
    <2> HIDE DEF x, y
    <2>2. S!Serve(RQ(READ, fd, count, o, wh, x, y))
            = IF fd \in DOMAIN open THEN S!host_read(fd, count) ELSE S!Failed
      BY Served2 DEF READ
    <2> QED BY <1>6, <2>1, <2>2
  <1>8. q.type = "READ" /\ q.count = count
    BY Fields DEF READ
  <1> HIDE DEF q, s
  <1>9. HostOk(s.disk, s.open) /\ DataOk(q, s)
    <2>1. CASE fd \in DOMAIN open
      <3>1. count \in Nat /\ count \in 0 .. BufMax
        BY HostConstants
      <3>2. HostOk(s.disk, s.open) /\ s.data \in Seq(S!Byte) /\ Len(s.data) <= count
        BY <1>1, <1>6, <2>1, <3>1, ReadOk
      <3> QED BY <1>8, <3>1, <3>2 DEF DataOk
    <2>2. CASE fd \notin DOMAIN open
      BY <1>1, <1>6, <2>2, FailedOk DEF DataOk
    <2> QED BY <2>1, <2>2
  <1>10. s = S!Serve(q)
    BY DEF s
  <1> QED BY <1>1, <1>5, <1>7, <1>9, <1>10, Submitted


\* dev_semihost_do_lseek.
LEMMA CallLseek ==
  ASSUME SInv, NEW fd \in Fds, NEW offset \in Offsets, NEW whence \in 0 .. 2,
         S!dev_semihost_do_lseek(fd, offset, whence)
  PROVE  SInv' /\ Asked
  <1> DEFINE o == reg.offset
             wh == reg.whence
             ret == reg.ret
             p == reg.path
             b == reg.buf
             ty == reg.type
             f0 == reg.fd
             n0 == reg.count
             LSEEK == "LSEEK"
             r == RG(LSEEK, fd, n0, offset, whence, ret, p, b)
             q == RQ(LSEEK, fd, 0, offset, whence, <<>>, <<>>)
             s == S!Serve(q)
  <1>1. /\ reg = RG(ty, f0, n0, o, wh, ret, p, b) /\ IsArray(p, PathMax) /\ IsArray(b, BufMax)
        /\ HostOk(disk, open)
    BY DEF SInv, IsReg
  <1>2. S!submit([reg EXCEPT !.type = LSEEK, !.fd = fd, !.offset = offset, !.whence = whence],
                 [S!Blank EXCEPT !.type = LSEEK, !.fd = fd, !.offset = offset, !.whence = whence])
    BY DEF S!dev_semihost_do_lseek
  <1> HIDE DEF o, wh, ret, p, b, ty, f0, n0, LSEEK
  <1>3. [reg EXCEPT !.type = LSEEK, !.fd = fd, !.offset = offset, !.whence = whence] = r
    <2> DEFINE r1 == [reg EXCEPT !.type = LSEEK]
               r2 == [r1 EXCEPT !.fd = fd]
               r3 == [r2 EXCEPT !.offset = offset]
               r4 == [r3 EXCEPT !.whence = whence]
    <2>1. r1 = RG(LSEEK, f0, n0, o, wh, ret, p, b)
      BY <1>1 DEF RG
    <2> HIDE DEF r1
    <2>2. r2 = RG(LSEEK, fd, n0, o, wh, ret, p, b)
      BY <2>1 DEF RG
    <2> HIDE DEF r2
    <2>3. r3 = RG(LSEEK, fd, n0, offset, wh, ret, p, b)
      BY <2>2 DEF RG
    <2> HIDE DEF r3
    <2>4. r4 = RG(LSEEK, fd, n0, offset, whence, ret, p, b)
      BY <2>3 DEF RG
    <2> QED BY <2>4 DEF r1, r2, r3
  <1>4. [S!Blank EXCEPT !.type = LSEEK, !.fd = fd, !.offset = offset, !.whence = whence] = q
    <2> DEFINE q0 == S!Blank
               q1 == [q0 EXCEPT !.type = LSEEK]
               q2 == [q1 EXCEPT !.fd = fd]
               q3 == [q2 EXCEPT !.offset = offset]
               q4 == [q3 EXCEPT !.whence = whence]
    <2>0. q0 = RQ("none", 0, 0, 0, 0, <<>>, <<>>)
      BY BlankRQ
    <2> HIDE DEF q0
    <2>1. q1 = RQ(LSEEK, 0, 0, 0, 0, <<>>, <<>>)
      BY <2>0 DEF RQ
    <2> HIDE DEF q1
    <2>2. q2 = RQ(LSEEK, fd, 0, 0, 0, <<>>, <<>>)
      BY <2>1 DEF RQ
    <2> HIDE DEF q2
    <2>3. q3 = RQ(LSEEK, fd, 0, offset, 0, <<>>, <<>>)
      BY <2>2 DEF RQ
    <2> HIDE DEF q3
    <2>4. q4 = RQ(LSEEK, fd, 0, offset, whence, <<>>, <<>>)
      BY <2>3 DEF RQ
    <2> QED BY <2>4 DEF q0, q1, q2, q3
  <1>5. S!submit(r, q)
    BY <1>2, <1>3, <1>4
  <1>6. s = IF fd \in DOMAIN open THEN S!host_lseek(fd, offset, whence) ELSE S!Failed
    BY Served2 DEF LSEEK
  <1>7. S!Serve(S!Decoded(r)) = s
    <2> DEFINE x == SubSeq(p, 1, S!Min({i \in 1 .. PathMax : p[i] = "0"}) - 1)
               y == SubSeq(b, 1, n0)
    <2>1. S!Decoded(r) = RQ(LSEEK, fd, n0, offset, whence, x, y)
      BY DecodedRG
    <2> HIDE DEF x, y
    <2>2. S!Serve(RQ(LSEEK, fd, n0, offset, whence, x, y))
            = IF fd \in DOMAIN open THEN S!host_lseek(fd, offset, whence) ELSE S!Failed
      BY Served2 DEF LSEEK
    <2> QED BY <1>6, <2>1, <2>2
  <1>8. q.type = "LSEEK"
    BY Fields DEF LSEEK
  <1> HIDE DEF q, s
  <1>9. HostOk(s.disk, s.open) /\ DataOk(q, s)
    <2>1. CASE fd \in DOMAIN open
      <3>1. offset \in Int
        BY HostConstants
      <3>2. HostOk(s.disk, s.open) /\ s.data = <<>>
        BY <1>1, <1>6, <2>1, <3>1, LseekOk
      <3> QED BY <3>2 DEF DataOk
    <2>2. CASE fd \notin DOMAIN open
      BY <1>1, <1>6, <2>2, FailedOk DEF DataOk
    <2> QED BY <2>1, <2>2
  <1>10. s = S!Serve(q)
    BY DEF s
  <1> QED BY <1>1, <1>5, <1>7, <1>9, <1>10, Submitted

\* dev_semihost_do_close.
LEMMA CallClose ==
  ASSUME SInv, NEW fd \in Fds, S!dev_semihost_do_close(fd)
  PROVE  SInv' /\ Asked
  <1> DEFINE o == reg.offset
             wh == reg.whence
             ret == reg.ret
             p == reg.path
             b == reg.buf
             ty == reg.type
             f0 == reg.fd
             n0 == reg.count
             CLOSE == "CLOSE"
             r == RG(CLOSE, fd, n0, o, wh, ret, p, b)
             q == RQ(CLOSE, fd, 0, 0, 0, <<>>, <<>>)
             s == S!Serve(q)
  <1>1. /\ reg = RG(ty, f0, n0, o, wh, ret, p, b) /\ IsArray(p, PathMax) /\ IsArray(b, BufMax)
        /\ HostOk(disk, open)
    BY DEF SInv, IsReg
  <1>2. S!submit([reg EXCEPT !.type = CLOSE, !.fd = fd],
                 [S!Blank EXCEPT !.type = CLOSE, !.fd = fd])
    BY DEF S!dev_semihost_do_close
  <1> HIDE DEF o, wh, ret, p, b, ty, f0, n0, CLOSE
  <1>3. [reg EXCEPT !.type = CLOSE, !.fd = fd] = r
    <2> DEFINE r1 == [reg EXCEPT !.type = CLOSE]
               r2 == [r1 EXCEPT !.fd = fd]
    <2>1. r1 = RG(CLOSE, f0, n0, o, wh, ret, p, b)
      BY <1>1 DEF RG
    <2> HIDE DEF r1
    <2>2. r2 = RG(CLOSE, fd, n0, o, wh, ret, p, b)
      BY <2>1 DEF RG
    <2> QED BY <2>2 DEF r1
  <1>4. [S!Blank EXCEPT !.type = CLOSE, !.fd = fd] = q
    <2> DEFINE q0 == S!Blank
               q1 == [q0 EXCEPT !.type = CLOSE]
               q2 == [q1 EXCEPT !.fd = fd]
    <2>0. q0 = RQ("none", 0, 0, 0, 0, <<>>, <<>>)
      BY BlankRQ
    <2> HIDE DEF q0
    <2>1. q1 = RQ(CLOSE, 0, 0, 0, 0, <<>>, <<>>)
      BY <2>0 DEF RQ
    <2> HIDE DEF q1
    <2>2. q2 = RQ(CLOSE, fd, 0, 0, 0, <<>>, <<>>)
      BY <2>1 DEF RQ
    <2> QED BY <2>2 DEF q0, q1
  <1>5. S!submit(r, q)
    BY <1>2, <1>3, <1>4
  <1>6. s = IF fd \in DOMAIN open THEN S!host_close(fd) ELSE S!Failed
    BY Served2 DEF CLOSE
  <1>7. S!Serve(S!Decoded(r)) = s
    <2> DEFINE x == SubSeq(p, 1, S!Min({i \in 1 .. PathMax : p[i] = "0"}) - 1)
               y == SubSeq(b, 1, n0)
    <2>1. S!Decoded(r) = RQ(CLOSE, fd, n0, o, wh, x, y)
      BY DecodedRG
    <2> HIDE DEF x, y
    <2>2. S!Serve(RQ(CLOSE, fd, n0, o, wh, x, y))
            = IF fd \in DOMAIN open THEN S!host_close(fd) ELSE S!Failed
      BY Served2 DEF CLOSE
    <2> QED BY <1>6, <2>1, <2>2
  <1>8. q.type = "CLOSE"
    BY Fields DEF CLOSE
  <1> HIDE DEF q, s
  <1>9. HostOk(s.disk, s.open) /\ DataOk(q, s)
    <2>1. CASE fd \in DOMAIN open
      BY <1>1, <1>6, <2>1, CloseOk DEF DataOk
    <2>2. CASE fd \notin DOMAIN open
      BY <1>1, <1>6, <2>2, FailedOk DEF DataOk
    <2> QED BY <2>1, <2>2
  <1>10. s = S!Serve(q)
    BY DEF s
  <1> QED BY <1>1, <1>5, <1>7, <1>9, <1>10, Submitted

\* dev_semihost_do_fstat.
LEMMA CallFstat ==
  ASSUME SInv, NEW fd \in Fds, S!dev_semihost_do_fstat(fd)
  PROVE  SInv' /\ Asked
  <1> DEFINE o == reg.offset
             wh == reg.whence
             ret == reg.ret
             p == reg.path
             b == reg.buf
             ty == reg.type
             f0 == reg.fd
             n0 == reg.count
             FSTAT == "FSTAT"
             r == RG(FSTAT, fd, n0, o, wh, ret, p, b)
             q == RQ(FSTAT, fd, 0, 0, 0, <<>>, <<>>)
             s == S!Serve(q)
  <1>1. /\ reg = RG(ty, f0, n0, o, wh, ret, p, b) /\ IsArray(p, PathMax) /\ IsArray(b, BufMax)
        /\ HostOk(disk, open)
    BY DEF SInv, IsReg
  <1>2. S!submit([reg EXCEPT !.type = FSTAT, !.fd = fd],
                 [S!Blank EXCEPT !.type = FSTAT, !.fd = fd])
    BY DEF S!dev_semihost_do_fstat
  <1> HIDE DEF o, wh, ret, p, b, ty, f0, n0, FSTAT
  <1>3. [reg EXCEPT !.type = FSTAT, !.fd = fd] = r
    <2> DEFINE r1 == [reg EXCEPT !.type = FSTAT]
               r2 == [r1 EXCEPT !.fd = fd]
    <2>1. r1 = RG(FSTAT, f0, n0, o, wh, ret, p, b)
      BY <1>1 DEF RG
    <2> HIDE DEF r1
    <2>2. r2 = RG(FSTAT, fd, n0, o, wh, ret, p, b)
      BY <2>1 DEF RG
    <2> QED BY <2>2 DEF r1
  <1>4. [S!Blank EXCEPT !.type = FSTAT, !.fd = fd] = q
    <2> DEFINE q0 == S!Blank
               q1 == [q0 EXCEPT !.type = FSTAT]
               q2 == [q1 EXCEPT !.fd = fd]
    <2>0. q0 = RQ("none", 0, 0, 0, 0, <<>>, <<>>)
      BY BlankRQ
    <2> HIDE DEF q0
    <2>1. q1 = RQ(FSTAT, 0, 0, 0, 0, <<>>, <<>>)
      BY <2>0 DEF RQ
    <2> HIDE DEF q1
    <2>2. q2 = RQ(FSTAT, fd, 0, 0, 0, <<>>, <<>>)
      BY <2>1 DEF RQ
    <2> QED BY <2>2 DEF q0, q1
  <1>5. S!submit(r, q)
    BY <1>2, <1>3, <1>4
  <1>6. s = IF fd \in DOMAIN open THEN S!host_fstat(fd) ELSE S!Failed
    BY Served2 DEF FSTAT
  <1>7. S!Serve(S!Decoded(r)) = s
    <2> DEFINE x == SubSeq(p, 1, S!Min({i \in 1 .. PathMax : p[i] = "0"}) - 1)
               y == SubSeq(b, 1, n0)
    <2>1. S!Decoded(r) = RQ(FSTAT, fd, n0, o, wh, x, y)
      BY DecodedRG
    <2> HIDE DEF x, y
    <2>2. S!Serve(RQ(FSTAT, fd, n0, o, wh, x, y))
            = IF fd \in DOMAIN open THEN S!host_fstat(fd) ELSE S!Failed
      BY Served2 DEF FSTAT
    <2> QED BY <1>6, <2>1, <2>2
  <1>8. q.type = "FSTAT"
    BY Fields DEF FSTAT
  <1> HIDE DEF q, s
  <1>9. HostOk(s.disk, s.open) /\ DataOk(q, s)
    <2>1. CASE fd \in DOMAIN open
      BY <1>1, <1>6, <1>8, <2>1, FstatOk DEF DataOk
    <2>2. CASE fd \notin DOMAIN open
      BY <1>1, <1>6, <2>2, FailedOk DEF DataOk
    <2> QED BY <2>1, <2>2
  <1>10. s = S!Serve(q)
    BY DEF s
  <1> QED BY <1>1, <1>5, <1>7, <1>9, <1>10, Submitted


\* dev_semihost_do_write: the device is given as many bytes as were put in the array.
LEMMA CallWrite ==
  ASSUME SInv, NEW fd \in Fds, NEW t \in Data, S!dev_semihost_do_write(fd, t)
  PROVE  SInv' /\ Asked
  <1> DEFINE o == reg.offset
             wh == reg.whence
             ret == reg.ret
             p == reg.path
             b == reg.buf
             ty == reg.type
             f0 == reg.fd
             n0 == reg.count
             WRITE == "WRITE"
             l == Len(t)
             w == S!writearr(b, t)
             r == RG(WRITE, fd, l, o, wh, ret, p, w)
             q == RQ(WRITE, fd, 0, 0, 0, <<>>, t)
             s == S!Serve(q)
  <1>1. /\ reg = RG(ty, f0, n0, o, wh, ret, p, b) /\ IsArray(p, PathMax) /\ IsArray(b, BufMax)
        /\ HostOk(disk, open)
    BY DEF SInv, IsReg
  <1>2. S!submit([reg EXCEPT !.type = WRITE, !.fd = fd, !.count = l, !.buf = S!writearr(@, t)],
                 [S!Blank EXCEPT !.type = WRITE, !.fd = fd, !.data = t])
    BY DEF S!dev_semihost_do_write
  <1>a. t \in Seq(S!Byte) /\ l <= BufMax /\ BufMax \in Nat
    BY HostConstants
  <1>b. IsArray(w, BufMax) /\ SubSeq(w, 1, l) = t
    BY <1>1, <1>a, Writearr
  <1> HIDE DEF o, wh, ret, p, b, ty, f0, n0, WRITE, l, w
  <1>3. [reg EXCEPT !.type = WRITE, !.fd = fd, !.count = l, !.buf = S!writearr(@, t)] = r
    <2> DEFINE r1 == [reg EXCEPT !.type = WRITE]
               r2 == [r1 EXCEPT !.fd = fd]
               r3 == [r2 EXCEPT !.count = l]
               r4 == [r3 EXCEPT !.buf = w]
    <2>1. r1 = RG(WRITE, f0, n0, o, wh, ret, p, b)
      BY <1>1 DEF RG
    <2> HIDE DEF r1
    <2>2. r2 = RG(WRITE, fd, n0, o, wh, ret, p, b)
      BY <2>1 DEF RG
    <2> HIDE DEF r2
    <2>3. r3 = RG(WRITE, fd, l, o, wh, ret, p, b)
      BY <2>2 DEF RG
    <2> HIDE DEF r3
    <2>4. r4 = r
      BY <2>3 DEF RG
    <2>5. S!writearr(r3.buf, t) = w
      BY <2>3, Fields DEF w
    <2>6. [r3 EXCEPT !.buf = S!writearr(@, t)] = r4
      BY <2>5
    <2> QED BY <2>4, <2>6 DEF r1, r2, r3
  <1>4. [S!Blank EXCEPT !.type = WRITE, !.fd = fd, !.data = t] = q
    <2> DEFINE q0 == S!Blank
               q1 == [q0 EXCEPT !.type = WRITE]
               q2 == [q1 EXCEPT !.fd = fd]
               q3 == [q2 EXCEPT !.data = t]
    <2>0. q0 = RQ("none", 0, 0, 0, 0, <<>>, <<>>)
      BY BlankRQ
    <2> HIDE DEF q0
    <2>1. q1 = RQ(WRITE, 0, 0, 0, 0, <<>>, <<>>)
      BY <2>0 DEF RQ
    <2> HIDE DEF q1
    <2>2. q2 = RQ(WRITE, fd, 0, 0, 0, <<>>, <<>>)
      BY <2>1 DEF RQ
    <2> HIDE DEF q2
    <2>3. q3 = RQ(WRITE, fd, 0, 0, 0, <<>>, t)
      BY <2>2 DEF RQ
    <2> QED BY <2>3 DEF q0, q1, q2
  <1>5. S!submit(r, q)
    BY <1>2, <1>3, <1>4
  <1>6. s = IF fd \in DOMAIN open THEN S!host_write(fd, t) ELSE S!Failed
    BY Served2 DEF WRITE
  <1>7. S!Serve(S!Decoded(r)) = s
    <2> DEFINE x == SubSeq(p, 1, S!Min({i \in 1 .. PathMax : p[i] = "0"}) - 1)
    <2>1. S!Decoded(r) = RQ(WRITE, fd, l, o, wh, x, SubSeq(w, 1, l))
      BY DecodedRG
    <2> HIDE DEF x
    <2>2. S!Serve(RQ(WRITE, fd, l, o, wh, x, t))
            = IF fd \in DOMAIN open THEN S!host_write(fd, t) ELSE S!Failed
      BY Served2 DEF WRITE
    <2> QED BY <1>b, <1>6, <2>1, <2>2
  <1> HIDE DEF q, s
  <1>9. HostOk(s.disk, s.open) /\ DataOk(q, s)
    <2>1. CASE fd \in DOMAIN open
      BY <1>1, <1>a, <1>6, <2>1, WriteOk DEF DataOk
    <2>2. CASE fd \notin DOMAIN open
      BY <1>1, <1>6, <2>2, FailedOk DEF DataOk
    <2> QED BY <2>1, <2>2
  <1>10. s = S!Serve(q)
    BY DEF s
  <1> QED BY <1>1, <1>b, <1>5, <1>7, <1>9, <1>10, Submitted

\* dev_semihost_do_open: the path the device finds is the one written, with its zero.
LEMMA CallOpen ==
  ASSUME SInv, NEW path \in S!Paths, S!dev_semihost_do_open(path)
  PROVE  SInv' /\ Asked
  <1> DEFINE o == reg.offset
             wh == reg.whence
             ret == reg.ret
             p == reg.path
             b == reg.buf
             ty == reg.type
             f0 == reg.fd
             n0 == reg.count
             OPEN == "OPEN"
             t == Append(path, "0")
             w == S!writearr(p, t)
             r == RG(OPEN, f0, n0, o, wh, ret, w, b)
             q == RQ(OPEN, 0, 0, 0, 0, path, <<>>)
             s == S!Serve(q)
  <1>1. /\ reg = RG(ty, f0, n0, o, wh, ret, p, b) /\ IsArray(p, PathMax) /\ IsArray(b, BufMax)
        /\ HostOk(disk, open)
    BY DEF SInv, IsReg
  <1>2. S!submit([reg EXCEPT !.type = OPEN, !.path = S!writearr(@, t)],
                 [S!Blank EXCEPT !.type = OPEN, !.path = path])
    BY DEF S!dev_semihost_do_open
  <1>b. IsArray(w, PathMax) /\ SubSeq(w, 1, S!Min({i \in 1 .. PathMax : w[i] = "0"}) - 1) = path
    BY <1>1, DecodedPath
  <1> HIDE DEF o, wh, ret, p, b, ty, f0, n0, OPEN, t, w
  <1>3. [reg EXCEPT !.type = OPEN, !.path = S!writearr(@, t)] = r
    <2> DEFINE r1 == [reg EXCEPT !.type = OPEN]
               r2 == [r1 EXCEPT !.path = w]
    <2>1. r1 = RG(OPEN, f0, n0, o, wh, ret, p, b)
      BY <1>1 DEF RG
    <2> HIDE DEF r1
    <2>2. r2 = r
      BY <2>1 DEF RG
    <2>3. S!writearr(r1.path, t) = w
      BY <2>1, Fields DEF w
    <2>4. [r1 EXCEPT !.path = S!writearr(@, t)] = r2
      BY <2>3
    <2> QED BY <2>2, <2>4 DEF r1
  <1>4. [S!Blank EXCEPT !.type = OPEN, !.path = path] = q
    <2> DEFINE q0 == S!Blank
               q1 == [q0 EXCEPT !.type = OPEN]
               q2 == [q1 EXCEPT !.path = path]
    <2>0. q0 = RQ("none", 0, 0, 0, 0, <<>>, <<>>)
      BY BlankRQ
    <2> HIDE DEF q0
    <2>1. q1 = RQ(OPEN, 0, 0, 0, 0, <<>>, <<>>)
      BY <2>0 DEF RQ
    <2> HIDE DEF q1
    <2>2. q2 = RQ(OPEN, 0, 0, 0, 0, path, <<>>)
      BY <2>1 DEF RQ
    <2> QED BY <2>2 DEF q0, q1
  <1>5. S!submit(r, q)
    BY <1>2, <1>3, <1>4
  <1>6. s = S!host_open(path)
    BY Served1 DEF OPEN
  <1>7. S!Serve(S!Decoded(r)) = s
    <2> DEFINE y == SubSeq(b, 1, n0)
    <2>1. S!Decoded(r) = RQ(OPEN, f0, n0, o, wh,
                            SubSeq(w, 1, S!Min({i \in 1 .. PathMax : w[i] = "0"}) - 1), y)
      BY DecodedRG
    <2>2. S!Decoded(r) = RQ(OPEN, f0, n0, o, wh, path, y)
      BY <1>b, <2>1
    <2> HIDE DEF y
    <2>3. S!Serve(RQ(OPEN, f0, n0, o, wh, path, y)) = S!host_open(path)
      BY Served1 DEF OPEN
    <2> QED BY <1>6, <2>2, <2>3
  <1> HIDE DEF q, s
  <1>9. HostOk(s.disk, s.open) /\ DataOk(q, s)
    BY <1>1, <1>6, OpenOk DEF DataOk
  <1>10. s = S!Serve(q)
    BY DEF s
  <1> QED BY <1>1, <1>b, <1>5, <1>7, <1>9, <1>10, Submitted

\* The device at reset.
LEMMA SemihostInit == S!Init => SInv
  <1> SUFFICES ASSUME S!Init PROVE SInv
    OBVIOUS
  <1> DEFINE p == [i \in 1 .. PathMax |-> "0"]
             b == [i \in 1 .. BufMax |-> "0"]
  <1>1. reg = RG("OPEN", 0, 0, 0, 0, 0, p, b)
    BY DEF S!Init, RG
  <1>2. IsArray(p, PathMax) /\ IsArray(b, BufMax)
    BY DEF IsArray
  <1> HIDE DEF p, b
  <1>3. /\ reg.type = "OPEN" /\ reg.fd = 0 /\ reg.count = 0 /\ reg.offset = 0 /\ reg.whence = 0
        /\ reg.ret = 0 /\ reg.path = p /\ reg.buf = b
    BY <1>1, Fields
  <1>4. IsReg(reg)
    BY <1>1, <1>2, <1>3 DEF IsReg
  <1>5. disk = Contents /\ DOMAIN open = {} /\ open = [fd \in {} |-> open[fd]]
    BY DEF S!Init
  <1>6. DOMAIN disk = S!Paths
    BY <1>5 DEF S!Paths
  <1>7. disk = [x \in S!Paths |-> disk[x]] /\ \A x \in S!Paths : disk[x] \in Seq(S!Byte)
    BY <1>5, <1>6, HostConstants
  <1>8. HostOk(disk, open)
    BY <1>5, <1>7 DEF HostOk
  <1> QED BY <1>4, <1>8 DEF SInv

\* A step, one call each.
LEMMA SemihostStep == SInv /\ [S!Next]_(S!vars) => SInv' /\ (UNCHANGED S!vars \/ Asked)
  <1> SUFFICES ASSUME SInv, [S!Next]_(S!vars) PROVE SInv' /\ (UNCHANGED S!vars \/ Asked)
    OBVIOUS
  <1>1. CASE \E path \in S!Paths : S!dev_semihost_do_open(path)
    BY <1>1, CallOpen
  <1>2. CASE \E fd \in Fds : \E count \in 1 .. BufMax : S!dev_semihost_do_read(fd, count)
    BY <1>2, CallRead
  <1>3. CASE \E fd \in Fds : \E s \in Data : S!dev_semihost_do_write(fd, s)
    BY <1>3, CallWrite
  <1>4. CASE \E fd \in Fds : \E offset \in Offsets, whence \in 0 .. 2 :
               S!dev_semihost_do_lseek(fd, offset, whence)
    BY <1>4, CallLseek
  <1>5. CASE \E fd \in Fds : S!dev_semihost_do_fstat(fd)
    BY <1>5, CallFstat
  <1>6. CASE \E fd \in Fds : S!dev_semihost_do_close(fd)
    BY <1>6, CallClose
  <1>7. CASE UNCHANGED S!vars
    BY <1>7 DEF SInv, S!vars
  <1> QED BY <1>1, <1>2, <1>3, <1>4, <1>5, <1>6, <1>7 DEF S!Next

\* Every call of devices/dev_semihost.c is served as it was asked, for any files,
\* data and sizes of the arrays, whatever earlier calls left in the registers.
THEOREM SemihostServedAsAsked == S!Spec => ServedAsAsked
  <1>1. SInv /\ [S!Next]_(S!vars) => [Asked]_(S!vars)
    BY SemihostStep
  <1> QED BY <1>1, SemihostInit, SemihostStep, PTL
          DEF S!Spec, ServedAsAsked, S!ServedAsAsked, Asked


-----------------------------------------------------------------------------
(***************************************************************************)
(* DevTimer.                                                               *)
(***************************************************************************)
\* Six calls in a row.
LEMMA Six ==
  ASSUME NEW X, NEW a \in X, NEW b \in X, NEW c \in X, NEW d \in X, NEW e \in X, NEW f \in X
  PROVE  LET s == <<a, b, c, d, e, f>>
         IN  /\ s \in Seq(X) /\ Len(s) = 6
             /\ s[1] = a /\ s[2] = b /\ s[3] = c /\ s[4] = d /\ s[5] = e /\ s[6] = f
  OBVIOUS

\* Where the parts of the program are in the whole.
Parts(s, A, B, C, E) ==
  /\ Len(s) = 19 /\ DOMAIN s = 1 .. 19
  /\ \A i \in 1 .. 6 : s[i] = A[i] /\ s[i + 6] = B[i] /\ s[i + 12] = C[i]
  /\ s[19] = E[1]

\* They are there.
LEMMA Joined ==
  ASSUME NEW X, NEW A \in Seq(X), NEW B \in Seq(X), NEW C \in Seq(X), NEW E \in Seq(X),
         Len(A) = 6, Len(B) = 6, Len(C) = 6, Len(E) = 1
  PROVE  Parts(A \o B \o C \o E, A, B, C, E)
  <1> DEFINE u == A \o B
             v == u \o C
             s == v \o E
  <1>1. u \in Seq(X) /\ Len(u) = 12
        /\ \A i \in 1 .. 12 : u[i] = IF i <= 6 THEN A[i] ELSE B[i - 6]
    <2>1. /\ u \in Seq(X) /\ Len(u) = Len(A) + Len(B)
          /\ \A i \in 1 .. Len(A) + Len(B) :
               u[i] = IF i <= Len(A) THEN A[i] ELSE B[i - Len(A)]
      BY ConcatProperties
    <2> HIDE DEF u
    <2>2. Len(A) + Len(B) = 12 /\ Len(A) = 6
      OBVIOUS
    <2> QED BY <2>1, <2>2
  <1> HIDE DEF u
  <1>2. v \in Seq(X) /\ Len(v) = 18
        /\ \A i \in 1 .. 18 : v[i] = IF i <= 12 THEN u[i] ELSE C[i - 12]
    <2>1. /\ v \in Seq(X) /\ Len(v) = Len(u) + Len(C)
          /\ \A i \in 1 .. Len(u) + Len(C) :
               v[i] = IF i <= Len(u) THEN u[i] ELSE C[i - Len(u)]
      BY <1>1, ConcatProperties
    <2> HIDE DEF v
    <2>2. Len(u) + Len(C) = 18 /\ Len(u) = 12
      BY <1>1
    <2> QED BY <2>1, <2>2
  <1> HIDE DEF v
  <1>3. s \in Seq(X) /\ Len(s) = 19
        /\ \A i \in 1 .. 19 : s[i] = IF i <= 18 THEN v[i] ELSE E[i - 18]
    <2>1. /\ s \in Seq(X) /\ Len(s) = Len(v) + Len(E)
          /\ \A i \in 1 .. Len(v) + Len(E) :
               s[i] = IF i <= Len(v) THEN v[i] ELSE E[i - Len(v)]
      BY <1>2, ConcatProperties
    <2> HIDE DEF s
    <2>2. Len(v) + Len(E) = 19 /\ Len(v) = 18
      BY <1>2
    <2> QED BY <2>1, <2>2
  <1> HIDE DEF s
  <1>4. DOMAIN s = 1 .. 19
    BY <1>3, LenProperties
  <1>5. ASSUME NEW i \in 1 .. 6
        PROVE  s[i] = A[i] /\ s[i + 6] = B[i] /\ s[i + 12] = C[i]
    <2> DEFINE j == i + 6
               k == i + 12
    <2>0. /\ i \in 1 .. 18 /\ j \in 1 .. 18 /\ k \in 1 .. 18
          /\ i <= 12 /\ j <= 12 /\ ~(k <= 12) /\ k - 12 = i
      OBVIOUS
    <2> HIDE DEF j, k
    <2>4. ASSUME NEW n \in 1 .. 18 PROVE s[n] = v[n]
      <3>1. n \in 1 .. 19 /\ n <= 18
        OBVIOUS
      <3>2. \A m \in 1 .. 19 : s[m] = IF m <= 18 THEN v[m] ELSE E[m - 18]
        BY <1>3
      <3>3. s[n] = IF n <= 18 THEN v[n] ELSE E[n - 18]
        BY <3>1, <3>2
      <3> QED BY <3>1, <3>3
    <2>1. s[i] = v[i] /\ s[j] = v[j] /\ s[k] = v[k]
      BY <2>0, <2>4
    <2>5. \A n \in 1 .. 18 : v[n] = IF n <= 12 THEN u[n] ELSE C[n - 12]
      BY <1>2
    <2>6. v[i] = u[i] /\ v[j] = u[j]
      BY <2>0, <2>5
    <2>7. v[k] = C[k - 12]
      BY <2>0, <2>5
    <2>2. v[i] = u[i] /\ v[j] = u[j] /\ v[k] = C[k - 12]
      BY <2>6, <2>7
    <2>3. u[i] = A[i] /\ u[i + 6] = B[i]
      BY <1>1
    <2> QED BY <2>0, <2>1, <2>2, <2>3 DEF j, k
  <1>6. s[19] = E[1]
    BY <1>3
  <1> QED BY <1>3, <1>4, <1>5, <1>6 DEF u, v, s, Parts

\* The flags the setters are given.
No  == FALSE
Yes == TRUE

\* The calls of the program, in their order.
LEMMA CallList ==
  /\ DOMAIN T!Calls = 1 .. 19 /\ Len(T!Calls) = 19
  /\ T!Calls[1] = T!call("wrapping", 0, No) /\ T!Calls[2] = T!call("size", 0, 32)
  /\ T!Calls[3] = T!call("prescale", 0, 1) /\ T!Calls[4] = T!call("interrupt", 0, No)
  /\ T!Calls[5] = T!call("mode", 0, "Period") /\ T!Calls[6] = T!call("enable", 0, No)
  /\ T!Calls[7] = T!call("wrapping", 1, No) /\ T!Calls[8] = T!call("size", 1, 32)
  /\ T!Calls[9] = T!call("prescale", 1, 1) /\ T!Calls[10] = T!call("interrupt", 1, No)
  /\ T!Calls[11] = T!call("mode", 1, "Period") /\ T!Calls[12] = T!call("enable", 1, No)
  /\ T!Calls[13] = T!call("wrapping", 0, No) /\ T!Calls[14] = T!call("size", 0, 32)
  /\ T!Calls[15] = T!call("prescale", 0, 1) /\ T!Calls[16] = T!call("mode", 0, "Period")
  /\ T!Calls[17] = T!call("interrupt", 0, Yes) /\ T!Calls[18] = T!call("enable", 0, Yes)
  /\ T!Calls[19] = T!call("load", 0, Slice)
  <1> DEFINE w(n) == T!call("wrapping", n, No)
             z(n) == T!call("size", n, 32)
             p(n) == T!call("prescale", n, 1)
             i(n) == T!call("interrupt", n, No)
             m(n) == T!call("mode", n, "Period")
             e(n) == T!call("enable", n, No)
             i1 == T!call("interrupt", 0, Yes)
             e1 == T!call("enable", 0, Yes)
             l == T!call("load", 0, Slice)
             X == {w(0), z(0), p(0), i(0), m(0), e(0), w(1), z(1), p(1), i(1), m(1), e(1), i1, e1, l}
             A == <<w(0), z(0), p(0), i(0), m(0), e(0)>>
             B == <<w(1), z(1), p(1), i(1), m(1), e(1)>>
             C == <<w(0), z(0), p(0), m(0), i1, e1>>
             E == <<l>>
             s == A \o B \o C \o E
  <1>1. T!Calls = s
    BY DEF T!Calls, T!dev_timer_init, T!meteor_devices_init, No, Yes
  <1> HIDE DEF w, z, p, i, m, e, i1, e1, l
  <1>2. /\ w(0) \in X /\ z(0) \in X /\ p(0) \in X /\ i(0) \in X /\ m(0) \in X /\ e(0) \in X
        /\ w(1) \in X /\ z(1) \in X /\ p(1) \in X /\ i(1) \in X /\ m(1) \in X /\ e(1) \in X
        /\ i1 \in X /\ e1 \in X /\ l \in X
    OBVIOUS
  <1> HIDE DEF X
  <1>3. /\ A \in Seq(X) /\ Len(A) = 6 /\ A[1] = w(0) /\ A[2] = z(0) /\ A[3] = p(0)
        /\ A[4] = i(0) /\ A[5] = m(0) /\ A[6] = e(0)
    BY <1>2, Six
  <1>4. /\ B \in Seq(X) /\ Len(B) = 6 /\ B[1] = w(1) /\ B[2] = z(1) /\ B[3] = p(1)
        /\ B[4] = i(1) /\ B[5] = m(1) /\ B[6] = e(1)
    BY <1>2, Six
  <1>5. /\ C \in Seq(X) /\ Len(C) = 6 /\ C[1] = w(0) /\ C[2] = z(0) /\ C[3] = p(0)
        /\ C[4] = m(0) /\ C[5] = i1 /\ C[6] = e1
    BY <1>2, Six
  <1>6. E \in Seq(X) /\ Len(E) = 1 /\ E[1] = l
    BY <1>2
  <1> HIDE DEF A, B, C, E
  <1>0. /\ A \in Seq(X) /\ Len(A) = 6 /\ B \in Seq(X) /\ Len(B) = 6
        /\ C \in Seq(X) /\ Len(C) = 6 /\ E \in Seq(X) /\ Len(E) = 1
    BY <1>3, <1>4, <1>5, <1>6
  <1>a. Parts(s, A, B, C, E)
    BY <1>0, Joined
  <1> HIDE DEF s
  <1>7. /\ Len(s) = 19 /\ DOMAIN s = 1 .. 19
        /\ \A k \in 1 .. 6 : s[k] = A[k] /\ s[k + 6] = B[k] /\ s[k + 12] = C[k]
        /\ s[19] = E[1]
    BY <1>a DEF Parts
  <1>8. s[1] = A[1] /\ s[7] = B[1] /\ s[13] = C[1]
    BY <1>7
  <1>9. s[2] = A[2] /\ s[8] = B[2] /\ s[14] = C[2]
    BY <1>7
  <1>10. s[3] = A[3] /\ s[9] = B[3] /\ s[15] = C[3]
    BY <1>7
  <1>11. s[4] = A[4] /\ s[10] = B[4] /\ s[16] = C[4]
    BY <1>7
  <1>12. s[5] = A[5] /\ s[11] = B[5] /\ s[17] = C[5]
    BY <1>7
  <1>13. s[6] = A[6] /\ s[12] = B[6] /\ s[18] = C[6]
    BY <1>7
  <1>14. /\ s[1] = w(0) /\ s[2] = z(0) /\ s[3] = p(0) /\ s[4] = i(0) /\ s[5] = m(0) /\ s[6] = e(0)
         /\ s[7] = w(1) /\ s[8] = z(1) /\ s[9] = p(1) /\ s[10] = i(1) /\ s[11] = m(1) /\ s[12] = e(1)
    BY <1>3, <1>4, <1>8, <1>9, <1>10, <1>11, <1>12, <1>13
  <1>15. /\ s[13] = w(0) /\ s[14] = z(0) /\ s[15] = p(0) /\ s[16] = m(0) /\ s[17] = i1
         /\ s[18] = e1 /\ s[19] = l
    BY <1>5, <1>6, <1>7, <1>8, <1>9, <1>10, <1>11, <1>12, <1>13
  <1> QED BY <1>1, <1>7, <1>14, <1>15, Zenon DEF w, z, p, i, m, e, i1, e1, l


\* What the calls of each setter are: which of the program they are, which timer
\* they are for and what they set.
LEMMA CallTable ==
  ASSUME NEW k \in DOMAIN T!Calls
  PROVE  LET c == T!Calls[k]
         IN  /\ k \in 1 .. 19 /\ (c.f = "load") = (k = 19)
             /\ c.f = "load" => c.n = 0 /\ c.a = Slice
             /\ c.f # "load" => c.n = IF k \in 7 .. 12 THEN 1 ELSE 0
             /\ c.f = "wrapping" => k \in {1, 7, 13} /\ c.a = No
             /\ c.f = "size" => k \in {2, 8, 14} /\ c.a = 32
             /\ c.f = "prescale" => k \in {3, 9, 15} /\ c.a = 1
             /\ c.f = "interrupt" => k \in {4, 10, 17} /\ c.a = IF k = 17 THEN Yes ELSE No
             /\ c.f = "mode" => k \in {5, 11, 16} /\ c.a = "Period"
             /\ c.f = "enable" => k \in {6, 12, 18} /\ c.a = IF k = 18 THEN Yes ELSE No
  <1> DEFINE c == T!Calls[k]
  <1>1. \A f, n, a : /\ T!call(f, n, a).f = f /\ T!call(f, n, a).n = n /\ T!call(f, n, a).a = a
    BY DEF T!call
  <1>2. k \in 1 .. 19
    BY CallList
  <1>3. CASE k \in {1, 7, 13}
    <2>1. c.f = "wrapping" /\ c.n = (IF k = 7 THEN 1 ELSE 0) /\ c.a = No
      BY <1>1, <1>3, CallList
    <2> HIDE DEF c
    <2>2. k # 19 /\ ((k \in 7 .. 12) <=> (k = 7))
      BY <1>3
    <2> QED BY <1>2, <1>3, <2>1, <2>2 DEF c
  <1>4. CASE k \in {2, 8, 14}
    <2>1. c.f = "size" /\ c.n = (IF k = 8 THEN 1 ELSE 0) /\ c.a = 32
      BY <1>1, <1>4, CallList
    <2> HIDE DEF c
    <2>2. k # 19 /\ ((k \in 7 .. 12) <=> (k = 8))
      BY <1>4
    <2> QED BY <1>2, <1>4, <2>1, <2>2 DEF c
  <1>5. CASE k \in {3, 9, 15}
    <2>1. c.f = "prescale" /\ c.n = (IF k = 9 THEN 1 ELSE 0) /\ c.a = 1
      BY <1>1, <1>5, CallList
    <2> HIDE DEF c
    <2>2. k # 19 /\ ((k \in 7 .. 12) <=> (k = 9))
      BY <1>5
    <2> QED BY <1>2, <1>5, <2>1, <2>2 DEF c
  <1>6. CASE k \in {4, 10, 17}
    <2>1. c.f = "interrupt" /\ c.n = (IF k = 10 THEN 1 ELSE 0) /\ c.a = IF k = 17 THEN Yes ELSE No
      <3>1. CASE k \in {4, 10}
        <4>1. c.f = "interrupt" /\ c.n = (IF k = 10 THEN 1 ELSE 0) /\ c.a = No
          BY <1>1, <3>1, CallList
        <4>2. k # 17
          BY <3>1
        <4> QED BY <4>1, <4>2
      <3>2. CASE k = 17
        <4>1. c.f = "interrupt" /\ c.n = 0 /\ c.a = Yes
          BY <1>1, <3>2, CallList
        <4>2. k # 10
          BY <3>2
        <4> QED BY <3>2, <4>1, <4>2
      <3> QED BY <1>6, <3>1, <3>2
    <2> HIDE DEF c
    <2>2. k # 19 /\ ((k \in 7 .. 12) <=> (k = 10))
      BY <1>6
    <2> QED BY <1>2, <1>6, <2>1, <2>2 DEF c
  <1>7. CASE k \in {5, 11, 16}
    <2>1. c.f = "mode" /\ c.n = (IF k = 11 THEN 1 ELSE 0) /\ c.a = "Period"
      BY <1>1, <1>7, CallList
    <2> HIDE DEF c
    <2>2. k # 19 /\ ((k \in 7 .. 12) <=> (k = 11))
      BY <1>7
    <2> QED BY <1>2, <1>7, <2>1, <2>2 DEF c
  <1>8. CASE k \in {6, 12, 18}
    <2>1. c.f = "enable" /\ c.n = (IF k = 12 THEN 1 ELSE 0) /\ c.a = IF k = 18 THEN Yes ELSE No
      <3>1. CASE k \in {6, 12}
        <4>1. c.f = "enable" /\ c.n = (IF k = 12 THEN 1 ELSE 0) /\ c.a = No
          BY <1>1, <3>1, CallList
        <4>2. k # 18
          BY <3>1
        <4> QED BY <4>1, <4>2
      <3>2. CASE k = 18
        <4>1. c.f = "enable" /\ c.n = 0 /\ c.a = Yes
          BY <1>1, <3>2, CallList
        <4>2. k # 12
          BY <3>2
        <4> QED BY <3>2, <4>1, <4>2
      <3> QED BY <1>8, <3>1, <3>2
    <2> HIDE DEF c
    <2>2. k # 19 /\ ((k \in 7 .. 12) <=> (k = 12))
      BY <1>8
    <2> QED BY <1>2, <1>8, <2>1, <2>2 DEF c
  <1>9. CASE k = 19
    <2>1. c.f = "load" /\ c.n = 0 /\ c.a = Slice
      BY <1>1, <1>9, CallList
    <2> HIDE DEF c
    <2> QED BY <1>2, <1>9, <2>1 DEF c
  <1>10. k \in {1, 7, 13} \/ k \in {2, 8, 14} \/ k \in {3, 9, 15} \/ k \in {4, 10, 17}
         \/ k \in {5, 11, 16} \/ k \in {6, 12, 18} \/ k = 19
    BY <1>2
  <1> QED BY <1>3, <1>4, <1>5, <1>6, <1>7, <1>8, <1>9, <1>10

\* The states of the program after its calls.
LEMMA Places == T!Guest = 20 /\ T!InIrq = 21
  BY CallList DEF T!Guest, T!InIrq

\* The registers of a timer.
IsTimer(t) ==
  t = [load |-> t.load, value |-> t.value, control |-> t.control, raw |-> t.raw, pre |-> t.pre]

\* Timer n's control word before call k.
WordOk(n, w, k) ==
  IF n = 0
  THEN /\ w \subseteq {1, 5, 6, 7}
       /\ (k >= 15 => 1 \in w) /\ (k >= 17 => 6 \in w) /\ (k >= 18 => 5 \in w) /\ (k >= 19 => 7 \in w)
  ELSE w \subseteq {1, 6}

\* The slice that runs once it has been set.
SliceRuns == hw[0].load = Slice /\ hw[0].pre = 0 /\ hw[0].value \in 1 .. Slice

\* The invariant: the copies hold what the calls so far have set, the registers
\* hold the copies from each timer's first call on, and the slice runs.
TInv ==
  /\ pc \in 1 .. 21
  /\ control_reg = [n \in {0, 1} |-> control_reg[n]]
  /\ hw = [n \in {0, 1} |-> hw[n]] /\ IsTimer(hw[0]) /\ IsTimer(hw[1])
  /\ WordOk(0, control_reg[0], pc) /\ WordOk(1, control_reg[1], pc)
  /\ pc >= 2 => hw[0].control = control_reg[0]
  /\ pc >= 8 => hw[1].control = control_reg[1]
  /\ pc >= 20 => SliceRuns

\* The reset state.
LEMMA TimerInit == T!Init => TInv /\ T!Sliced!Init
  <1> SUFFICES ASSUME T!Init PROVE TInv /\ T!Sliced!Init
    OBVIOUS
  <1>1. pc = 1 /\ control_reg = [n \in {0, 1} |-> {}]
    BY DEF T!Init, T!Timers
  <1>2. hw = [n \in {0, 1} |-> hw[n]] /\ IsTimer(hw[0]) /\ IsTimer(hw[1])
    BY DEF T!Init, T!Timers, IsTimer
  <1>3. control_reg[0] = {} /\ control_reg[1] = {} /\ control_reg = [n \in {0, 1} |-> control_reg[n]]
    BY <1>1
  <1>4. TInv
    BY <1>1, <1>2, <1>3 DEF TInv, WordOk
  <1>5. T!Sliced!Init
    BY <1>1, Places DEF T!Sliced!Init, T!Line
  <1> QED BY <1>4, <1>5


\* What the calls make of a control word that holds the bits set so far.
LEMMA Words ==
  ASSUME NEW w, w \subseteq {1, 5, 6, 7}
  PROVE  /\ T!set_bit(w, 1, FALSE) = w \ {1} /\ T!set_bit(w, 1, TRUE) = w \cup {1}
         /\ T!set_field(w, 3, 2, {}) = w
         /\ T!set_bit(w, 5, FALSE) = w \ {5} /\ T!set_bit(w, 5, TRUE) = w \cup {5}
         /\ T!set_bit(w, 6, TRUE) = w \cup {6}
         /\ T!set_bit(w, 7, FALSE) = w \ {7} /\ T!set_bit(w, 7, TRUE) = w \cup {7}
  <1>1. \A n \in 0 .. 31 : T!mask(n, n) = {n} /\ T!imask(n, n) = (0 .. 31) \ {n}
    BY DEF T!mask, T!imask, T!Bit
  <1>2. ASSUME NEW n \in 0 .. 31
        PROVE  T!set_bit(w, n, FALSE) = w \ {n} /\ T!set_bit(w, n, TRUE) = w \cup {n}
    <2>1. w \subseteq 0 .. 31
      OBVIOUS
    <2>2. T!set_bit(w, n, FALSE) = w \cap T!imask(n, n)
      BY DEF T!set_bit
    <2>3. T!set_bit(w, n, TRUE) = w \cup T!mask(n, n)
      BY DEF T!set_bit
    <2> QED BY <1>1, <2>1, <2>2, <2>3
  <1>3. T!set_field(w, 3, 2, {}) = w
    <2>1. T!shl({}, 2) = {}
      BY DEF T!shl
    <2>2. w \subseteq T!imask(3, 2)
      BY DEF T!mask, T!imask, T!Bit
    <2>3. T!set_field(w, 3, 2, {}) = (w \cap T!imask(3, 2)) \cup (T!shl({}, 2) \cap T!mask(3, 2))
      BY DEF T!set_field
    <2> QED BY <2>1, <2>2, <2>3
  <1>4. 1 \in 0 .. 31 /\ 5 \in 0 .. 31 /\ 6 \in 0 .. 31 /\ 7 \in 0 .. 31
    OBVIOUS
  <1>5. T!set_bit(w, 1, FALSE) = w \ {1} /\ T!set_bit(w, 1, TRUE) = w \cup {1}
    BY <1>2, <1>4, Zenon
  <1>6. T!set_bit(w, 5, FALSE) = w \ {5} /\ T!set_bit(w, 5, TRUE) = w \cup {5}
    BY <1>2, <1>4, Zenon
  <1>7. T!set_bit(w, 6, FALSE) = w \ {6} /\ T!set_bit(w, 6, TRUE) = w \cup {6}
    BY <1>2, <1>4, Zenon
  <1>8. T!set_bit(w, 7, FALSE) = w \ {7} /\ T!set_bit(w, 7, TRUE) = w \cup {7}
    BY <1>2, <1>4, Zenon
  <1> QED BY <1>3, <1>5, <1>6, <1>7, <1>8, Zenon

\* A step before the first slice is set: nothing is promised.
LEMMA EarlyStep ==
  ASSUME TInv, pc < 20, pc' < 20, pc' \in Int
  PROVE  T!Sliced!Next
  BY Places DEF T!Sliced!Next, T!Sliced!Early, T!Line, TInv

\* A setter's call: the copy and the register get the word.
LEMMA SetterStep ==
  ASSUME TInv, NEW n \in {0, 1}, NEW w, T!write_control(n, w), pc \in 1 .. 18, pc' = pc + 1,
         n = IF pc \in 7 .. 12 THEN 1 ELSE 0, WordOk(n, w, pc + 1)
  PROVE  TInv' /\ T!Sliced!Next
  <1> DEFINE c == control_reg'
             h == hw'
             k == pc + 1
             m == 1 - n
  <1>1. c = [control_reg EXCEPT ![n] = w] /\ h = [hw EXCEPT ![n] = [hw[n] EXCEPT !.control = w]]
    BY DEF T!write_control
  <1>2. /\ c = [x \in {0, 1} |-> c[x]] /\ c[n] = w /\ c[m] = control_reg[m]
        /\ h = [x \in {0, 1} |-> h[x]] /\ h[n] = [hw[n] EXCEPT !.control = w] /\ h[m] = hw[m]
    <2>1. m \in {0, 1} /\ m # n
      OBVIOUS
    <2>2. control_reg = [x \in {0, 1} |-> control_reg[x]] /\ hw = [x \in {0, 1} |-> hw[x]]
      BY DEF TInv
    <2> HIDE DEF m, c, h
    <2> QED BY <1>1, <2>1, <2>2
  <1>3. IsTimer(hw[n]) /\ IsTimer(hw[m])
    BY DEF TInv
  <1>4. IsTimer(h[n]) /\ h[n].control = w /\ IsTimer(h[m])
    BY <1>2, <1>3 DEF IsTimer
  <1>5. k \in 1 .. 19 /\ pc' = k
    OBVIOUS
  <1>6. WordOk(m, control_reg[m], k)
    BY DEF TInv, WordOk
  <1>7. (k >= 2 => h[0].control = c[0]) /\ (k >= 8 => h[1].control = c[1])
    <2>1. CASE n = 0
      <3>1. m = 1
        BY <2>1
      <3>2. k >= 8 => pc >= 8
        BY <2>1
      <3> QED BY <1>2, <1>4, <2>1, <3>1, <3>2 DEF TInv
    <2>2. CASE n = 1
      <3>1. m = 0 /\ pc >= 2
        BY <2>2
      <3> QED BY <1>2, <1>4, <2>2, <3>1 DEF TInv
    <2> QED BY <2>1, <2>2
  <1>8. {n, m} = {0, 1}
    OBVIOUS
  <1> HIDE DEF c, h, k, m
  <1>9. IsTimer(h[0]) /\ IsTimer(h[1]) /\ WordOk(0, c[0], k) /\ WordOk(1, c[1], k)
    <2>1. CASE n = 0 /\ m = 1
      BY <1>2, <1>4, <1>6, <2>1 DEF k
    <2>2. CASE n = 1 /\ m = 0
      BY <1>2, <1>4, <1>6, <2>2 DEF k
    <2> QED BY <1>8, <2>1, <2>2
  <1>10. TInv'
    BY <1>2, <1>5, <1>7, <1>9 DEF TInv, SliceRuns, c, h
  <1>11. T!Sliced!Next
    BY <1>5, EarlyStep DEF k
  <1> QED BY <1>10, <1>11

\* A setter's call takes effect on the right timer.
LEMMA SetStep ==
  ASSUME TInv, NEW f, f # "load", T!at(f), NEW w,
         T!write_control(T!Calls[pc].n, w), pc' = pc + 1, WordOk(T!Calls[pc].n, w, pc + 1)
  PROVE  TInv' /\ T!Sliced!Next
  <1> DEFINE n == T!Calls[pc].n
  <1>1. pc \in DOMAIN T!Calls /\ T!Calls[pc].f = f
    BY DEF T!at
  <1>2. pc \in 1 .. 19 /\ pc # 19 /\ n = IF pc \in 7 .. 12 THEN 1 ELSE 0
    BY <1>1, CallTable
  <1>3. n \in {0, 1} /\ pc \in 1 .. 18
    BY <1>2
  <1> HIDE DEF n
  <1>4. T!write_control(n, w) /\ WordOk(n, w, pc + 1)
    BY DEF n
  <1> QED BY <1>2, <1>3, <1>4, SetterStep


\* The copies hold the bits set so far.
LEMMA Copies ==
  ASSUME TInv, pc \in DOMAIN T!Calls, T!Calls[pc].f # "load"
  PROVE  LET n == T!Calls[pc].n
         IN  /\ n \in {0, 1} /\ n = IF pc \in 7 .. 12 THEN 1 ELSE 0
             /\ WordOk(n, control_reg[n], pc) /\ control_reg[n] \subseteq {1, 5, 6, 7}
  <1> DEFINE n == T!Calls[pc].n
  <1>1. n = IF pc \in 7 .. 12 THEN 1 ELSE 0
    BY CallTable
  <1> HIDE DEF n
  <1>2. n \in {0, 1}
    BY <1>1
  <1>3. WordOk(n, control_reg[n], pc)
    BY <1>2 DEF TInv
  <1>4. control_reg[n] \subseteq {1, 5, 6, 7}
    BY <1>3 DEF WordOk
  <1> QED BY <1>1, <1>2, <1>3, <1>4 DEF n

\* Bit 1 is cleared by dev_timer_set_wrapping, before the size is set.
LEMMA StepWrapping ==
  ASSUME TInv, T!set("wrapping", T!dev_timer_set_wrapping)
  PROVE  TInv' /\ T!Sliced!Next
  <1> DEFINE n == T!Calls[pc].n
             a == T!Calls[pc].a
             v == control_reg[n]
             w == T!dev_timer_set_wrapping(v, a)
  <1>1. T!at("wrapping") /\ T!write_control(n, w) /\ pc' = pc + 1
    BY DEF T!set
  <1>2. pc \in DOMAIN T!Calls /\ T!Calls[pc].f = "wrapping" /\ "wrapping" # "load"
    BY <1>1 DEF T!at
  <1>3. pc \in {1, 7, 13} /\ a = No
    BY <1>2, CallTable
  <1>4. WordOk(n, v, pc) /\ v \subseteq {1, 5, 6, 7} /\ n \in {0, 1}
    BY <1>2, Copies
  <1> HIDE DEF n, a, v
  <1>5. w = T!set_bit(v, 1, FALSE)
    BY <1>3 DEF T!dev_timer_set_wrapping, No
  <1>6. w = v \ {1}
    BY <1>4, <1>5, Words
  <1> HIDE DEF w
  <1>7. WordOk(n, w, pc + 1)
    BY <1>3, <1>4, <1>6 DEF WordOk
  <1> QED BY <1>1, <1>2, <1>7, SetStep DEF n



\* Bit 1 is set by dev_timer_set_size.
LEMMA StepSize ==
  ASSUME TInv, T!set("size", T!dev_timer_set_size)
  PROVE  TInv' /\ T!Sliced!Next
  <1> DEFINE n == T!Calls[pc].n
             a == T!Calls[pc].a
             v == control_reg[n]
             w == T!dev_timer_set_size(v, a)
  <1>1. T!at("size") /\ T!write_control(n, w) /\ pc' = pc + 1
    BY DEF T!set
  <1>2. pc \in DOMAIN T!Calls /\ T!Calls[pc].f = "size" /\ "size" # "load"
    BY <1>1 DEF T!at
  <1>3. pc \in {2, 8, 14} /\ a = 32
    BY <1>2, CallTable
  <1>4. /\ WordOk(n, v, pc) /\ v \subseteq {1, 5, 6, 7} /\ n \in {0, 1}
        /\ n = IF pc \in 7 .. 12 THEN 1 ELSE 0
    BY <1>2, Copies
  <1> HIDE DEF n, a, v
  <1>5. w = T!set_bit(v, 1, TRUE)
    <2> DEFINE x == T!set_bit(v, 1, FALSE)
               y == T!set_bit(v, 1, TRUE)
    <2>1. w = CASE a = 16 -> x [] a = 32 -> y
      BY Zenon DEF T!dev_timer_set_size
    <2> HIDE DEF w, x, y
    <2>2. w = y
      BY <1>3, <2>1
    <2> QED BY <2>2 DEF y
  <1>6. w = v \cup {1}
    BY <1>4, <1>5, Words, Zenon
  <1> HIDE DEF w
  <1>7. WordOk(n, w, pc + 1)
    BY <1>3, <1>4, <1>6 DEF WordOk
  <1> QED BY <1>1, <1>2, <1>7, SetStep DEF n

\* dev_timer_set_prescale leaves no prescaling.
LEMMA StepPrescale ==
  ASSUME TInv, T!set("prescale", T!dev_timer_set_prescale)
  PROVE  TInv' /\ T!Sliced!Next
  <1> DEFINE n == T!Calls[pc].n
             a == T!Calls[pc].a
             v == control_reg[n]
             w == T!dev_timer_set_prescale(v, a)
  <1>1. T!at("prescale") /\ T!write_control(n, w) /\ pc' = pc + 1
    BY DEF T!set
  <1>2. pc \in DOMAIN T!Calls /\ T!Calls[pc].f = "prescale" /\ "prescale" # "load"
    BY <1>1 DEF T!at
  <1>3. pc \in {3, 9, 15} /\ a = 1
    BY <1>2, CallTable
  <1>4. /\ WordOk(n, v, pc) /\ v \subseteq {1, 5, 6, 7} /\ n \in {0, 1}
        /\ n = IF pc \in 7 .. 12 THEN 1 ELSE 0
    BY <1>2, Copies
  <1> HIDE DEF n, a, v
  <1>5. w = T!set_field(v, 3, 2, {})
    <2> DEFINE x == T!set_field(v, 3, 2, {})
               y == T!set_field(v, 3, 2, {0})
               z == T!set_field(v, 3, 2, {1})
    <2>1. w = CASE a = 1 -> x [] a = 16 -> y [] a = 256 -> z
      BY Zenon DEF T!dev_timer_set_prescale
    <2> HIDE DEF w, x, y, z
    <2>2. w = x
      BY <1>3, <2>1
    <2> QED BY <2>2 DEF x
  <1>6. w = v
    BY <1>4, <1>5, Words, Zenon
  <1> HIDE DEF w
  <1>7. WordOk(n, w, pc + 1)
    BY <1>3, <1>4, <1>6 DEF WordOk
  <1> QED BY <1>1, <1>2, <1>7, SetStep DEF n

\* Bit 6 is set by dev_timer_set_mode.
LEMMA StepMode ==
  ASSUME TInv, T!set("mode", T!dev_timer_set_mode)
  PROVE  TInv' /\ T!Sliced!Next
  <1> DEFINE n == T!Calls[pc].n
             a == T!Calls[pc].a
             v == control_reg[n]
             w == T!dev_timer_set_mode(v, a)
  <1>1. T!at("mode") /\ T!write_control(n, w) /\ pc' = pc + 1
    BY DEF T!set
  <1>2. pc \in DOMAIN T!Calls /\ T!Calls[pc].f = "mode" /\ "mode" # "load"
    BY <1>1 DEF T!at
  <1>3. pc \in {5, 11, 16} /\ a = "Period"
    BY <1>2, CallTable
  <1>4. /\ WordOk(n, v, pc) /\ v \subseteq {1, 5, 6, 7} /\ n \in {0, 1}
        /\ n = IF pc \in 7 .. 12 THEN 1 ELSE 0
    BY <1>2, Copies
  <1> HIDE DEF n, a, v
  <1>5. w = T!set_bit(v, 6, TRUE)
    <2>1. (a = "Period") = TRUE
      BY <1>3
    <2> QED BY <2>1 DEF T!dev_timer_set_mode
  <1>6. w = v \cup {6}
    BY <1>4, <1>5, Words, Zenon
  <1> HIDE DEF w
  <1>7. WordOk(n, w, pc + 1)
    BY <1>3, <1>4, <1>6 DEF WordOk
  <1> QED BY <1>1, <1>2, <1>7, SetStep DEF n

\* Bit 5, of timer 0 only, by dev_timer_set_interrupt.
LEMMA StepInterrupt ==
  ASSUME TInv, T!set("interrupt", T!dev_timer_set_interrupt)
  PROVE  TInv' /\ T!Sliced!Next
  <1> DEFINE n == T!Calls[pc].n
             a == T!Calls[pc].a
             v == control_reg[n]
             w == T!dev_timer_set_interrupt(v, a)
  <1>1. T!at("interrupt") /\ T!write_control(n, w) /\ pc' = pc + 1
    BY DEF T!set
  <1>2. pc \in DOMAIN T!Calls /\ T!Calls[pc].f = "interrupt" /\ "interrupt" # "load"
    BY <1>1 DEF T!at
  <1>3. pc \in {4, 10, 17} /\ a = IF pc = 17 THEN Yes ELSE No
    BY <1>2, CallTable
  <1>4. /\ WordOk(n, v, pc) /\ v \subseteq {1, 5, 6, 7} /\ n \in {0, 1}
        /\ n = IF pc \in 7 .. 12 THEN 1 ELSE 0
    BY <1>2, Copies
  <1> HIDE DEF n, a, v
  <1>7. WordOk(n, w, pc + 1)
    <2>1. CASE pc = 17
      <3>1. w = T!set_bit(v, 5, TRUE)
        BY <1>3, <2>1 DEF T!dev_timer_set_interrupt, Yes
      <3>2. w = v \cup {5}
        BY <1>4, <3>1, Words, Zenon
      <3>3. n = 0
        BY <1>4, <2>1
      <3> HIDE DEF w
      <3> QED BY <1>4, <2>1, <3>2, <3>3 DEF WordOk
    <2>2. CASE pc # 17
      <3>1. w = T!set_bit(v, 5, FALSE)
        BY <1>3, <2>2 DEF T!dev_timer_set_interrupt, No
      <3>2. w = v \ {5}
        BY <1>4, <3>1, Words, Zenon
      <3> HIDE DEF w
      <3> QED BY <1>3, <1>4, <2>2, <3>2 DEF WordOk
    <2> QED BY <2>1, <2>2
  <1> QED BY <1>1, <1>2, <1>7, SetStep DEF n

\* Bit 7, of timer 0 only, by dev_timer_set_enable.
LEMMA StepEnable ==
  ASSUME TInv, T!set("enable", T!dev_timer_set_enable)
  PROVE  TInv' /\ T!Sliced!Next
  <1> DEFINE n == T!Calls[pc].n
             a == T!Calls[pc].a
             v == control_reg[n]
             w == T!dev_timer_set_enable(v, a)
  <1>1. T!at("enable") /\ T!write_control(n, w) /\ pc' = pc + 1
    BY DEF T!set
  <1>2. pc \in DOMAIN T!Calls /\ T!Calls[pc].f = "enable" /\ "enable" # "load"
    BY <1>1 DEF T!at
  <1>3. pc \in {6, 12, 18} /\ a = IF pc = 18 THEN Yes ELSE No
    BY <1>2, CallTable
  <1>4. /\ WordOk(n, v, pc) /\ v \subseteq {1, 5, 6, 7} /\ n \in {0, 1}
        /\ n = IF pc \in 7 .. 12 THEN 1 ELSE 0
    BY <1>2, Copies
  <1> HIDE DEF n, a, v
  <1>7. WordOk(n, w, pc + 1)
    <2>1. CASE pc = 18
      <3>1. w = T!set_bit(v, 7, TRUE)
        BY <1>3, <2>1 DEF T!dev_timer_set_enable, Yes
      <3>2. w = v \cup {7}
        BY <1>4, <3>1, Words, Zenon
      <3>3. n = 0
        BY <1>4, <2>1
      <3> HIDE DEF w
      <3> QED BY <1>4, <2>1, <3>2, <3>3 DEF WordOk
    <2>2. CASE pc # 18
      <3>1. w = T!set_bit(v, 7, FALSE)
        BY <1>3, <2>2 DEF T!dev_timer_set_enable, No
      <3>2. w = v \ {7}
        BY <1>4, <3>1, Words, Zenon
      <3> HIDE DEF w
      <3> QED BY <1>3, <1>4, <2>2, <3>2 DEF WordOk
    <2> QED BY <2>1, <2>2
  <1> QED BY <1>1, <1>2, <1>7, SetStep DEF n


\* The constants of the timer.
LEMMA SliceConstants ==
  /\ Slice \in Nat \ {0} /\ Max16 \in Nat /\ Max32 \in Nat /\ Slice <= Max32
  /\ Slice % (Max32 + 1) = Slice
  <1>1. Slice \in Nat \ {0} /\ Max16 \in Nat /\ Max32 \in Nat /\ Slice <= Max32
    BY DriversAssumption DEF T!SliceAssumption
  <1>2. Slice % (Max32 + 1) = Slice
    BY <1>1
  <1> QED BY <1>1, <1>2

\* Once all bits are set, timer 0 is the one that interrupts.
LEMMA Armed ==
  ASSUME TInv, pc >= 19
  PROVE  /\ hw[0].control = {1, 5, 6, 7} /\ 5 \notin hw[1].control
         /\ T!Line <=> hw[0].raw
  <1>1. pc \in 1 .. 21 /\ WordOk(0, control_reg[0], pc) /\ WordOk(1, control_reg[1], pc)
        /\ hw[0].control = control_reg[0] /\ hw[1].control = control_reg[1]
    BY DEF TInv
  <1>2. hw[0].control = {1, 5, 6, 7} /\ 5 \notin hw[1].control
    BY <1>1 DEF WordOk
  <1> QED BY <1>2 DEF T!Line, T!Timers

\* A timer's registers, one by one.
TM(load, value, control, raw, pre) ==
  [load |-> load, value |-> value, control |-> control, raw |-> raw, pre |-> pre]

\* And its fields.
LEMMA TimerFields ==
  ASSUME NEW load, NEW value, NEW control, NEW raw, NEW pre, NEW t,
         t = TM(load, value, control, raw, pre)
  PROVE  /\ IsTimer(t) /\ t.load = load /\ t.value = value /\ t.control = control /\ t.raw = raw
         /\ t.pre = pre
  BY DEF TM, IsTimer

\* One of the two timers changes.
LEMMA Replaced ==
  ASSUME NEW f, f = [n \in {0, 1} |-> f[n]], NEW k \in {0, 1}, NEW j \in {0, 1}, j # k, NEW x,
         NEW g, g = [f EXCEPT ![k] = x]
  PROVE  g[k] = x /\ g[j] = f[j] /\ g = [n \in {0, 1} |-> g[n]]
  OBVIOUS

\* Setting the slice: the counter holds all of it, and the request stays as it is.
LEMMA LoadStep ==
  ASSUME TInv, pc >= 19, T!write_load(0, Slice), pc' = 20
  PROVE  TInv' /\ T!Sliced!Next
  <1> DEFINE t == hw[0]
             h == hw'
             v == Slice % (T!Largest(hw[0].control) + 1)
             c == hw[0].control
             rw == hw[0].raw
             z == 0
  <1>1. control_reg' = control_reg
        /\ h = [hw EXCEPT ![0] = [[[t EXCEPT !.load = Slice] EXCEPT !.value = v] EXCEPT !.pre = 0]]
    BY DEF T!write_load
  <1>2. v = Slice
    BY SliceConstants, Armed DEF T!Largest
  <1>3. t = TM(t.load, t.value, c, rw, t.pre) /\ IsTimer(hw[1]) /\ hw = [n \in {0, 1} |-> hw[n]]
    BY DEF TInv, IsTimer, TM
  <1>4. c = {1, 5, 6, 7} /\ 5 \notin hw[1].control /\ (T!Line <=> rw)
    BY Armed
  <1>5. [[[t EXCEPT !.load = Slice] EXCEPT !.value = v] EXCEPT !.pre = 0] = TM(Slice, Slice, c, rw, 0)
    <2> DEFINE a == t.load
               b == t.value
               d == t.pre
               t1 == [t EXCEPT !.load = Slice]
               t2 == [t1 EXCEPT !.value = v]
               t3 == [t2 EXCEPT !.pre = z]
    <2>0. t = TM(a, b, c, rw, d)
      BY <1>3
    <2> HIDE DEF a, b, d, c, rw, t, v, z
    <2>1. t1 = TM(Slice, b, c, rw, d)
      BY <2>0 DEF TM
    <2> HIDE DEF t1
    <2>2. t2 = TM(Slice, Slice, c, rw, d)
      BY <1>2, <2>1 DEF TM
    <2> HIDE DEF t2
    <2>3. t3 = TM(Slice, Slice, c, rw, z)
      BY <2>2 DEF TM
    <2> QED BY <2>3 DEF t1, t2, z
  <1> HIDE DEF c, rw, h, v, t
  <1>6. h[0] = TM(Slice, Slice, c, rw, 0) /\ h[1] = hw[1] /\ h = [n \in {0, 1} |-> h[n]]
    <2> DEFINE x == TM(Slice, Slice, c, rw, 0)
               k == 0
               j == 1
    <2>0. h = [hw EXCEPT ![k] = x]
      BY <1>1, <1>5
    <2>1. k \in {0, 1} /\ j \in {0, 1} /\ j # k
      OBVIOUS
    <2> HIDE DEF x, k, j
    <2>2. hw = [n \in {0, 1} |-> hw[n]]
      BY <1>3
    <2>3. h[k] = x /\ h[j] = hw[j] /\ h = [n \in {0, 1} |-> h[n]]
      BY <2>0, <2>1, <2>2, Replaced
    <2> QED BY <2>3 DEF x, k, j
  <1>7. /\ IsTimer(h[0]) /\ h[0].load = Slice /\ h[0].value = Slice /\ h[0].control = c
        /\ h[0].raw = rw /\ h[0].pre = 0
    BY <1>6, TimerFields
  <1>8. WordOk(0, control_reg[0], 20) /\ WordOk(1, control_reg[1], 20)
        /\ c = control_reg[0] /\ hw[1].control = control_reg[1]
    BY DEF TInv, WordOk, c
  <1>9. TInv'
    <2>1. SliceRuns'
      BY <1>7, SliceConstants DEF SliceRuns, h
    <2>2. control_reg = [n \in {0, 1} |-> control_reg[n]]
      BY DEF TInv
    <2>3. 20 \in 1 .. 21
      OBVIOUS
    <2> QED BY <1>1, <1>3, <1>6, <1>7, <1>8, <2>1, <2>2, <2>3 DEF TInv, h
  <1>10. T!Line' <=> rw
    BY <1>4, <1>6, <1>7 DEF T!Line, T!Timers, h
  <1>11. T!Line' = T!Line
    BY <1>4, <1>10 DEF T!Line
  <1>12. T!Sliced!SetSlice
    BY <1>7, <1>11, Places DEF T!Sliced!SetSlice, h
  <1> QED BY <1>9, <1>12 DEF T!Sliced!Next


\* What timer k may count to, and where the program may be, after such a step.
CountOk(k, v, p) == (pc >= 20 /\ k = 0) => p = 0 /\ v \in 1 .. Slice
PlaceOk == pc' \in 1 .. 21 /\ (pc' = pc \/ (pc >= 20 /\ pc' >= 20))

\* Timer k with another value, request and prescaler.
Run(k, v, r, p) == [hw EXCEPT ![k] = TM(hw[k].load, v, hw[k].control, r, p)]

\* Timer k counts or its request changes: what the driver set stays.
LEMMA RunStep ==
  ASSUME TInv, NEW k \in {0, 1}, NEW j \in {0, 1}, j # k, NEW v, NEW r, NEW p,
         hw' = Run(k, v, r, p), control_reg' = control_reg, PlaceOk, CountOk(k, v, p)
  PROVE  /\ TInv' /\ hw'[j] = hw[j] /\ hw'[k].raw = r /\ hw'[k].value = v
         /\ hw'[k].control = hw[k].control
  <1> DEFINE h == hw'
             l == hw[k].load
             c == hw[k].control
             x == TM(l, v, c, r, p)
  <1>0. /\ pc' \in 1 .. 21 /\ (pc' = pc \/ (pc >= 20 /\ pc' >= 20))
        /\ (pc >= 20 /\ k = 0) => p = 0 /\ v \in 1 .. Slice
    BY DEF PlaceOk, CountOk
  <1>1. hw = [n \in {0, 1} |-> hw[n]] /\ h = [hw EXCEPT ![k] = x]
    BY DEF TInv, Run
  <1> HIDE DEF x, h, l, c
  <1>2. h[k] = x /\ h[j] = hw[j] /\ h = [n \in {0, 1} |-> h[n]]
    BY <1>1, Replaced
  <1>3. /\ IsTimer(x) /\ x.load = l /\ x.value = v /\ x.control = c /\ x.raw = r /\ x.pre = p
    BY TimerFields DEF x
  <1>4. h[0].control = hw[0].control /\ h[1].control = hw[1].control /\ IsTimer(h[0]) /\ IsTimer(h[1])
    <2>1. IsTimer(hw[j])
      BY DEF TInv
    <2>2. IsTimer(h[j]) /\ IsTimer(h[k]) /\ h[j].control = hw[j].control /\ h[k].control = hw[k].control
      BY <1>2, <1>3, <2>1 DEF c
    <2>3. CASE k = 0 /\ j = 1
      BY <2>2, <2>3
    <2>4. CASE k = 1 /\ j = 0
      BY <2>2, <2>4
    <2> QED BY <2>3, <2>4
  <1>5. pc' >= 20 => SliceRuns'
    <2> SUFFICES ASSUME pc' >= 20 PROVE SliceRuns'
      OBVIOUS
    <2>1. SliceRuns /\ pc >= 20
      BY <1>0 DEF TInv
    <2>2. CASE k = 0
      BY <1>0, <1>2, <1>3, <2>1, <2>2 DEF SliceRuns, h, l
    <2>3. CASE k = 1
      <3>1. h[0] = hw[0]
        BY <1>2, <2>3
      <3> QED BY <2>1, <3>1 DEF SliceRuns, h
    <2> QED BY <2>2, <2>3
  <1>6. WordOk(0, control_reg[0], pc') /\ WordOk(1, control_reg[1], pc')
    BY <1>0 DEF TInv, WordOk
  <1>7. control_reg = [n \in {0, 1} |-> control_reg[n]]
    BY DEF TInv
  <1>8. pc' >= 2 => hw[0].control = control_reg[0]
    BY <1>0 DEF TInv
  <1>9. pc' >= 8 => hw[1].control = control_reg[1]
    BY <1>0 DEF TInv
  <1>10. TInv'
    BY <1>0, <1>2, <1>4, <1>5, <1>6, <1>7, <1>8, <1>9 DEF TInv, h
  <1> QED BY <1>2, <1>3, <1>10 DEF h, c

\* dev_timer_clear_interrupt: the request goes and the slice runs on.
LEMMA ClearStep ==
  ASSUME TInv, T!dev_timer_clear_interrupt
  PROVE  TInv' /\ T!Sliced!Next
  <1> DEFINE t == hw[0]
             no == FALSE
             k == 0
             j == 1
             a == hw[0].load
             v == hw[0].value
             c == hw[0].control
             r == hw[0].raw
             p == hw[0].pre
             x == TM(a, v, c, no, p)
  <1>1. /\ pc = 20 /\ T!Line /\ pc' = 21 /\ control_reg' = control_reg
        /\ hw' = [hw EXCEPT ![k] = [t EXCEPT !.raw = no]]
    BY Places DEF T!dev_timer_clear_interrupt
  <1>2. t = TM(a, v, c, r, p)
    BY DEF TInv, IsTimer, TM
  <1>3. SliceRuns
    BY <1>1 DEF TInv
  <1>4. p = 0 /\ v \in 1 .. Slice
    BY <1>3 DEF SliceRuns
  <1>5. hw[k].load = a /\ hw[k].control = c /\ k \in {0, 1} /\ j \in {0, 1} /\ j # k
    OBVIOUS
  <1> HIDE DEF t, no, a, v, c, r, p, k, j
  <1>6. [t EXCEPT !.raw = no] = x
    BY <1>2 DEF TM
  <1>7. hw' = Run(k, v, no, p) /\ control_reg' = control_reg
    BY <1>1, <1>5, <1>6 DEF Run
  <1>8. pc >= 20 /\ pc' >= 20 /\ pc' \in 1 .. 21
    BY <1>1
  <1>a. PlaceOk /\ CountOk(k, v, p)
    BY <1>4, <1>8 DEF PlaceOk, CountOk
  <1>9. TInv' /\ hw'[k].raw = no /\ hw'[k].value = v
    BY <1>5, <1>7, <1>a, RunStep
  <1>10. hw'[0].raw = FALSE /\ hw'[0].value = v
    BY <1>9 DEF k, no
  <1>11. pc' >= 19
    BY <1>8
  <1>12. T!Line' = FALSE
    <2>1. 5 \notin hw'[1].control
      BY <1>8, <1>9 DEF TInv, WordOk
    <2> QED BY <1>10, <2>1 DEF T!Line, T!Timers
  <1>13. v > 0 /\ v = hw[0].value
    BY <1>4, SliceConstants DEF v
  <1>14. T!Sliced!Clear
    BY <1>1, <1>10, <1>12, <1>13, Places DEF T!Sliced!Clear
  <1> QED BY <1>9, <1>14 DEF T!Sliced!Next


\* What a clock leaves of timer n.
Counts(n) == hw[n].pre + 1 >= T!Divider(hw[n].control)
Ends(n) == Counts(n) /\ hw[n].value <= 1
Value(n) == IF Ends(n) THEN T!Reloaded(hw[n]) ELSE IF Counts(n) THEN hw[n].value - 1 ELSE hw[n].value
Raw(n) == hw[n].raw \/ Ends(n)
Pre(n) == IF Counts(n) THEN 0 ELSE hw[n].pre + 1

\* A clock changes the three registers that run.
LEMMA ClockRun ==
  ASSUME TInv, NEW n \in {0, 1}, T!Clock(n)
  PROVE  hw' = Run(n, Value(n), Raw(n), Pre(n)) /\ control_reg' = control_reg /\ pc' = pc
  <1> DEFINE t == hw[n]
             a == hw[n].load
             b == hw[n].value
             c == hw[n].control
             d == hw[n].raw
             e == hw[n].pre
             v == Value(n)
             r == Raw(n)
             p == Pre(n)
             t1 == [t EXCEPT !.pre = p]
             t2 == [t1 EXCEPT !.value = v]
             t3 == [t2 EXCEPT !.raw = r]
  <1>1. hw' = [hw EXCEPT ![n].pre = p, ![n].value = v, ![n].raw = r]
    BY DEF T!Clock, Value, Raw, Pre, Counts, Ends
  <1>2. control_reg' = control_reg /\ pc' = pc
    BY DEF T!Clock
  <1>3. t = TM(a, b, c, d, e)
    BY DEF TInv, IsTimer, TM
  <1>4. hw = [x \in {0, 1} |-> hw[x]]
    BY DEF TInv
  <1> HIDE DEF v, r, p
  <1>5. hw' = [hw EXCEPT ![n] = t3]
    BY <1>1, <1>4
  <1> HIDE DEF t, a, b, c, d, e
  <1>6. t1 = TM(a, b, c, d, p)
    BY <1>3 DEF TM
  <1> HIDE DEF t1
  <1>7. t2 = TM(a, v, c, d, p)
    BY <1>6 DEF TM
  <1> HIDE DEF t2
  <1>8. t3 = TM(a, v, c, r, p)
    BY <1>7 DEF TM
  <1> HIDE DEF t3
  <1>9. hw' = Run(n, v, r, p)
    BY <1>5, <1>8 DEF Run, a, c
  <1> QED BY <1>2, <1>9 DEF v, r, p

\* A clock of the timer that is not used.
LEMMA ClockOther ==
  ASSUME TInv, T!Clock(1)
  PROVE  TInv' /\ (T!Sliced!Next \/ UNCHANGED T!Sliced!vars)
  <1> DEFINE k == 1
             j == 0
             v == Value(1)
             r == Raw(1)
             p == Pre(1)
  <1>1. hw' = Run(k, v, r, p) /\ control_reg' = control_reg /\ pc' = pc
    BY ClockRun
  <1>2. k \in {0, 1} /\ j \in {0, 1} /\ j # k
    OBVIOUS
  <1>3. PlaceOk /\ CountOk(k, v, p)
    BY <1>1 DEF PlaceOk, CountOk, TInv
  <1> HIDE DEF k, j, v, r, p
  <1>4. TInv' /\ hw'[j] = hw[j] /\ hw'[k].control = hw[k].control
    BY <1>1, <1>2, <1>3, RunStep
  <1>5. hw'[0] = hw[0] /\ hw'[1].control = hw[1].control
    BY <1>4 DEF k, j
  <1>6. pc \in 1 .. 21
    BY DEF TInv
  <1>7. CASE pc < 20
    <2>1. pc' < 20 /\ pc' \in Int
      BY <1>1, <1>6, <1>7
    <2> QED BY <1>4, <1>7, <2>1, EarlyStep
  <1>8. CASE pc >= 20
    <2>1. 5 \notin hw[1].control
      BY <1>8, <1>6, Armed
    <2>2. T!Line' = T!Line
      BY <1>5, <2>1 DEF T!Line, T!Timers
    <2>3. UNCHANGED T!Sliced!vars
      BY <1>1, <1>5, <2>2 DEF T!Sliced!vars
    <2> QED BY <1>4, <2>3
  <1> QED BY <1>6, <1>7, <1>8

\* A clock of the timer that is: one less, and at the end the request and the
\* next slice.
LEMMA ClockSlice ==
  ASSUME TInv, T!Clock(0)
  PROVE  TInv' /\ (T!Sliced!Next \/ UNCHANGED T!Sliced!vars)
  <1> DEFINE k == 0
             j == 1
             v == Value(0)
             r == Raw(0)
             p == Pre(0)
             x == hw[0].value
  <1>1. hw' = Run(k, v, r, p) /\ control_reg' = control_reg /\ pc' = pc
    BY ClockRun
  <1>2. k \in {0, 1} /\ j \in {0, 1} /\ j # k
    OBVIOUS
  <1>3. pc \in 1 .. 21
    BY DEF TInv
  <1>4. PlaceOk
    BY <1>1, <1>3 DEF PlaceOk
  <1>5. CASE pc < 20
    <2>1. CountOk(k, v, p)
      BY <1>3, <1>5 DEF CountOk
    <2> HIDE DEF k, j, v, r, p
    <2>2. TInv'
      BY <1>1, <1>2, <1>4, <2>1, RunStep
    <2>3. pc' < 20 /\ pc' \in Int
      BY <1>1, <1>3, <1>5
    <2> QED BY <1>5, <2>2, <2>3, EarlyStep
  <1>6. CASE pc >= 20
    <2>0. pc >= 19
      BY <1>3, <1>6
    <2>1. /\ hw[0].control = {1, 5, 6, 7} /\ 5 \notin hw[1].control
          /\ T!Line <=> hw[0].raw
      BY <2>0, Armed
    <2>2. hw[0].load = Slice /\ hw[0].pre = 0 /\ x \in 1 .. Slice
      BY <1>6 DEF TInv, SliceRuns
    <2>3. T!Divider(hw[0].control) = 1
      <3>1. T!get_field({1, 5, 6, 7}, 3, 2) = {}
        <4>1. {1, 5, 6, 7} \cap T!mask(3, 2) = {}
          BY DEF T!mask
        <4> QED BY <4>1 DEF T!get_field, T!shr
      <3>2. {} # {0} /\ {} # {1}
        OBVIOUS
      <3> QED BY <2>1, <3>1, <3>2 DEF T!Divider
    <2>4. Counts(0)
      BY <2>2, <2>3 DEF Counts
    <2>5. Ends(0) <=> x = 1
      BY <2>2, <2>4, SliceConstants DEF Ends
    <2>6. T!Reloaded(hw[0]) = Slice
      <3>1. T!Largest(hw[0].control) = Max32
        BY <2>1 DEF T!Largest
      <3>2. 0 \notin hw[0].control /\ 6 \in hw[0].control
        BY <2>1
      <3>3. T!Reloaded(hw[0]) = hw[0].load % (T!Largest(hw[0].control) + 1)
        BY <3>2 DEF T!Reloaded
      <3> QED BY <2>2, <3>1, <3>3, SliceConstants
    <2>7. v = IF x = 1 THEN Slice ELSE x - 1
      BY <2>4, <2>5, <2>6 DEF Value
    <2>8. p = 0 /\ v \in 1 .. Slice
      <3>1. p = 0
        BY <2>4 DEF Pre
      <3>2. v \in 1 .. Slice
        <4> HIDE DEF v, x
        <4> QED BY <2>2, <2>7, SliceConstants
      <3> QED BY <3>1, <3>2
    <2>9. CountOk(k, v, p)
      BY <2>8 DEF CountOk
    <2>10. r <=> (hw[0].raw \/ x = 1)
      BY <2>5 DEF Raw
    <2> HIDE DEF k, j, v, r, p
    <2>11. /\ TInv' /\ hw'[j] = hw[j] /\ hw'[k].raw = r /\ hw'[k].value = v
           /\ hw'[k].control = hw[k].control
      BY <1>1, <1>2, <1>4, <2>9, RunStep
    <2>12. /\ hw'[1] = hw[1] /\ hw'[0].raw = r /\ hw'[0].value = v
           /\ hw'[0].control = hw[0].control
      BY <2>11 DEF k, j
    <2>13. T!Line' <=> r
      BY <2>1, <2>12 DEF T!Line, T!Timers
    <2>14. T!Line' = (T!Line \/ x = 1)
      BY <2>1, <2>10, <2>13 DEF T!Line
    <2>15. x > 0
      BY <2>2, SliceConstants
    <2>16. T!Sliced!Clock
      BY <1>1, <1>3, <1>6, <2>7, <2>12, <2>14, <2>15, Places DEF T!Sliced!Clock
    <2> QED BY <2>11, <2>16 DEF T!Sliced!Next
  <1> QED BY <1>3, <1>5, <1>6

\* A step: a call, an interrupt or a clock.
LEMMA TimerStep ==
  TInv /\ [T!Next]_(T!vars) => TInv' /\ [T!Sliced!Next]_(T!Sliced!vars)
  <1> SUFFICES ASSUME TInv, [T!Next]_(T!vars)
               PROVE  TInv' /\ (T!Sliced!Next \/ UNCHANGED T!Sliced!vars)
    OBVIOUS
  <1>1. CASE T!set("wrapping", T!dev_timer_set_wrapping)
    BY <1>1, StepWrapping
  <1>2. CASE T!set("size", T!dev_timer_set_size)
    BY <1>2, StepSize
  <1>3. CASE T!set("prescale", T!dev_timer_set_prescale)
    BY <1>3, StepPrescale
  <1>4. CASE T!set("interrupt", T!dev_timer_set_interrupt)
    BY <1>4, StepInterrupt
  <1>5. CASE T!set("mode", T!dev_timer_set_mode)
    BY <1>5, StepMode
  <1>6. CASE T!set("enable", T!dev_timer_set_enable)
    BY <1>6, StepEnable
  <1>7. CASE T!dev_timer_set_load
    <2>1. pc \in DOMAIN T!Calls /\ T!Calls[pc].f = "load" /\ pc' = pc + 1
          /\ T!write_load(T!Calls[pc].n, T!Calls[pc].a)
      BY <1>7 DEF T!dev_timer_set_load, T!at
    <2>2. pc = 19 /\ T!Calls[pc].n = 0 /\ T!Calls[pc].a = Slice
      BY <2>1, CallTable
    <2>3. pc >= 19 /\ pc' = 20 /\ T!write_load(0, Slice)
      BY <2>1, <2>2
    <2> QED BY <2>3, LoadStep
  <1>8. CASE T!scheduler_reset_timer
    <2>1. pc >= 19 /\ pc' = 20 /\ T!write_load(0, Slice)
      BY <1>8, Places DEF T!scheduler_reset_timer
    <2> QED BY <2>1, LoadStep
  <1>9. CASE T!dev_timer_clear_interrupt
    BY <1>9, ClearStep
  <1>10. CASE T!irq_reset_timer
    <2>1. pc >= 19 /\ pc' = 20 /\ T!write_load(0, Slice)
      BY <1>10, Places DEF T!irq_reset_timer
    <2> QED BY <2>1, LoadStep
  <1>11. CASE \E n \in T!Timers : T!Clock(n)
    <2>1. T!Clock(0) \/ T!Clock(1)
      BY <1>11 DEF T!Timers
    <2> QED BY <2>1, ClockSlice, ClockOther
  <1>12. CASE UNCHANGED T!vars
    <2>1. control_reg' = control_reg /\ hw' = hw /\ pc' = pc
      BY <1>12 DEF T!vars
    <2>2. TInv'
      BY <2>1 DEF TInv, SliceRuns
    <2>3. UNCHANGED T!Sliced!vars
      BY <2>1 DEF T!Sliced!vars, T!Line
    <2> QED BY <2>2, <2>3
  <1> QED BY <1>1, <1>2, <1>3, <1>4, <1>5, <1>6, <1>7, <1>8, <1>9, <1>10, <1>11, <1>12
          DEF T!Next, T!Program

\* The timer as devices/dev_timer.c and meteor_devices_init set it up, whatever
\* its control words were at reset and however the counters run between the
\* calls, is the timer the scheduler counts on, for any slice that fits it.
THEOREM TimerRefinesSlice == T!Spec => RefinesSlice
  BY TimerInit, TimerStep, PTL DEF T!Spec, RefinesSlice, T!RefinesSlice, T!Sliced!Spec


-----------------------------------------------------------------------------
(***************************************************************************)
(* Uart.                                                                   *)
(***************************************************************************)
\* A character passes from the head of one sequence to the end of another.
LEMMA Passed ==
  ASSUME NEW X, NEW s \in Seq(X), NEW t \in Seq(X), t # <<>>
  PROVE  /\ Append(s, Head(t)) \in Seq(X) /\ Tail(t) \in Seq(X)
         /\ Append(s, Head(t)) \o Tail(t) = s \o t
  <1> DEFINE h == Head(t)
             r == Tail(t)
             a == Append(s, h)
             l == Len(s)
             m == Len(t)
             u == a \o r
             v == s \o t
  <1>1. h \in X /\ h = t[1] /\ r \in Seq(X) /\ Len(r) = m - 1 /\ \A i \in 1 .. Len(r) : r[i] = t[i + 1]
    BY HeadTailProperties
  <1>2. l \in Nat /\ m \in Nat \ {0}
    BY LenProperties, EmptySeq
  <1> HIDE DEF h, r
  <1>3. a \in Seq(X) /\ Len(a) = l + 1 /\ (\A i \in 1 .. l : a[i] = s[i]) /\ a[l + 1] = h
    BY <1>1, AppendProperties
  <1> HIDE DEF a
  <1>4. /\ u \in Seq(X) /\ Len(u) = Len(a) + Len(r)
        /\ \A i \in 1 .. Len(a) + Len(r) : u[i] = IF i <= Len(a) THEN a[i] ELSE r[i - Len(a)]
    BY <1>1, <1>3, ConcatProperties
  <1>5. /\ v \in Seq(X) /\ Len(v) = l + m
        /\ \A i \in 1 .. l + m : v[i] = IF i <= l THEN s[i] ELSE t[i - l]
    BY ConcatProperties
  <1> HIDE DEF u, v, l, m
  <1>6. Len(u) = l + m /\ Len(a) = l + 1 /\ Len(r) = m - 1
    BY <1>1, <1>2, <1>3, <1>4
  <1>7. ASSUME NEW i \in 1 .. l + m
        PROVE  u[i] = v[i]
    <2>1. CASE i <= l
      <3>1. i \in 1 .. l /\ i <= Len(a) /\ i \in 1 .. Len(a) + Len(r)
        BY <1>2, <1>6, <2>1
      <3> QED BY <1>3, <1>4, <1>5, <2>1, <3>1
    <2>2. CASE i = l + 1
      <3>1. i <= Len(a) /\ ~(i <= l) /\ i - l = 1 /\ i \in 1 .. Len(a) + Len(r)
        BY <1>2, <1>6, <2>2
      <3>2. u[i] = h
        BY <1>3, <1>4, <2>2, <3>1
      <3>3. v[i] = t[1]
        BY <1>5, <3>1
      <3> QED BY <1>1, <3>2, <3>3
    <2>3. CASE i > l + 1
      <3> DEFINE k == i - Len(a)
      <3>1. /\ ~(i <= Len(a)) /\ ~(i <= l) /\ k \in 1 .. Len(r) /\ k + 1 = i - l
            /\ i \in 1 .. Len(a) + Len(r)
        BY <1>2, <1>6, <2>3
      <3>2. u[i] = r[k]
        BY <1>4, <3>1
      <3>3. v[i] = t[i - l]
        BY <1>5, <3>1
      <3> HIDE DEF k
      <3>4. r[k] = t[k + 1]
        BY <1>1, <3>1
      <3> QED BY <3>1, <3>2, <3>3, <3>4
    <2> QED BY <1>2, <2>1, <2>2, <2>3
  <1>8. u = v
    BY <1>4, <1>5, <1>6, <1>7, SeqEqual
  <1> QED BY <1>1, <1>3, <1>8 DEF u, v, a, h, r


\* The constants of the device.
LEMMA UartConstants ==
  /\ Depth \in Nat \ {0} /\ Texts \subseteq Seq(U!Char)
  /\ \A text \in Texts : U!FlattenSeq(U!Fragments(text)) \in Seq(U!Char)
  BY DriversAssumption DEF U!TextsAssumption

\* The invariant: sequences of characters, a transmit FIFO that is not overfull,
\* and the input in order.
UInv ==
  /\ tx \in Seq(U!Char) /\ sent \in Seq(U!Char) /\ todo \in Seq(U!Char)
  /\ rx \in Seq(U!Char) /\ got \in Seq(U!Char) /\ line \in Seq(U!Char)
  /\ Len(tx) <= Depth
  /\ U!InputInOrder

\* What a step does to the console's output.
StreamKept == written' = written /\ U!Stream' = U!Stream
StreamGrows ==
  \E text \in Texts : /\ written' = written \o text
                      /\ U!Stream' = U!Stream \o U!FlattenSeq(U!Fragments(text))

\* After reset nothing is on its way.
LEMMA UartInit == U!Init => UInv
  <1> SUFFICES ASSUME U!Init PROVE UInv
    OBVIOUS
  <1>1. /\ tx = <<>> /\ sent = <<>> /\ todo = <<>> /\ rx = <<>> /\ got = <<>> /\ line = <<>>
    BY DEF U!Init
  <1>2. <<>> \in Seq(U!Char) /\ Len(<<>>) = 0
    BY EmptySeq
  <1>3. 0 <= Depth
    BY UartConstants
  <1>4. <<>> \o <<>> = <<>>
    BY <1>2, ConcatEmptySeq
  <1>5. U!InputInOrder
    BY <1>1, <1>4 DEF U!InputInOrder
  <1> QED BY <1>1, <1>2, <1>3, <1>5 DEF UInv

\* A character is put at the end.
LEMMA AppendAfter ==
  ASSUME NEW X, NEW s \in Seq(X), NEW t \in Seq(X), NEW c \in X
  PROVE  s \o Append(t, c) = Append(s \o t, c) /\ Append(t, c) \in Seq(X)
  <1>1. <<c>> \in Seq(X)
    OBVIOUS
  <1>2. s \o t \in Seq(X)
    BY ConcatProperties
  <1>3. Append(t, c) = t \o <<c>>
    BY AppendIsConcat
  <1>4. Append(s \o t, c) = (s \o t) \o <<c>>
    BY <1>2, AppendIsConcat
  <1>5. (s \o t) \o <<c>> = s \o (t \o <<c>>)
    BY <1>1, ConcatAssociative
  <1>6. Append(t, c) \in Seq(X)
    BY AppendProperties
  <1> QED BY <1>3, <1>4, <1>5, <1>6

\* _write: text for the console goes behind what is there, other text nowhere.
LEMMA UartWrite ==
  ASSUME UInv, NEW file1, NEW text \in Texts, U!newlib_write(file1, text)
  PROVE  UInv' /\ (StreamKept \/ StreamGrows)
  <1> DEFINE F == U!FlattenSeq(U!Fragments(text))
  <1>1. /\ todo = <<>> /\ tx' = tx /\ sent' = sent /\ rx' = rx /\ got' = got /\ line' = line
    BY DEF U!newlib_write
  <1>2. \/ todo' = F /\ written' = written \o text
        \/ todo' = todo /\ written' = written
    BY DEF U!newlib_write
  <1>3. F \in Seq(U!Char)
    BY UartConstants
  <1> HIDE DEF F
  <1>4. UInv'
    BY <1>1, <1>2, <1>3 DEF UInv, U!InputInOrder
  <1>5. U!Stream = sent \o tx
    <2>1. sent \o tx \in Seq(U!Char)
      BY ConcatProperties DEF UInv
    <2>2. (sent \o tx) \o <<>> = sent \o tx
      BY <2>1, ConcatEmptySeq
    <2> QED BY <1>1, <2>2 DEF U!Stream
  <1>6. CASE todo' = F /\ written' = written \o text
    <2>1. U!Stream' = (sent \o tx) \o F
      BY <1>1, <1>6 DEF U!Stream
    <2>2. U!Stream' = U!Stream \o F
      BY <1>5, <2>1
    <2> QED BY <1>4, <1>6, <2>2 DEF StreamGrows, F
  <1>7. CASE todo' = todo /\ written' = written
    BY <1>1, <1>4, <1>7 DEF StreamKept, U!Stream
  <1> QED BY <1>2, <1>6, <1>7

\* dev_uart_wait_txff: the FIFO has room, so the character is not dropped.
LEMMA UartSend ==
  ASSUME UInv, U!dev_uart_wait_txff
  PROVE  UInv' /\ StreamKept
  <1>1. /\ todo # <<>> /\ sent' = sent /\ rx' = rx /\ got' = got /\ line' = line
        /\ written' = written /\ todo' = Tail(todo)
    BY DEF U!dev_uart_wait_txff
  <1>2. Len(tx) # Depth
    BY DEF U!dev_uart_wait_txff, U!dev_uart_fr_txff, U!Flags
  <1>3. Len(tx) \in Nat /\ Len(tx) < Depth
    <2>1. tx \in Seq(U!Char) /\ Len(tx) <= Depth
      BY DEF UInv
    <2>2. Len(tx) \in Nat
      BY <2>1, LenProperties
    <2> QED BY <1>2, <2>1, <2>2, UartConstants
  <1>4. tx' = Append(tx, Head(todo))
    BY <1>3 DEF U!dev_uart_wait_txff
  <1>5. tx \in Seq(U!Char) /\ todo \in Seq(U!Char) /\ sent \in Seq(U!Char)
    BY DEF UInv
  <1>6. tx' \in Seq(U!Char) /\ todo' \in Seq(U!Char) /\ tx' \o todo' = tx \o todo
    BY <1>1, <1>4, <1>5, Passed
  <1>7. Len(tx') <= Depth
    <2>1. Head(todo) \in U!Char
      BY <1>1, <1>5, HeadTailProperties
    <2>2. Len(tx') = Len(tx) + 1
      BY <1>4, <1>5, <2>1, AppendProperties
    <2> QED BY <1>3, <2>2, UartConstants
  <1>8. (sent \o tx') \o todo' = (sent \o tx) \o todo
    <2> DEFINE a == tx'
               b == todo'
    <2>0. a \in Seq(U!Char) /\ b \in Seq(U!Char) /\ a \o b = tx \o todo
      BY <1>6
    <2> HIDE DEF a, b
    <2>1. sent \in Seq(U!Char) /\ a \in Seq(U!Char) /\ b \in Seq(U!Char)
      BY <1>5, <2>0
    <2>2. (sent \o a) \o b = sent \o (a \o b)
      BY <2>1, ConcatAssociative
    <2>3. (sent \o tx) \o todo = sent \o (tx \o todo)
      BY <1>5, ConcatAssociative
    <2>4. (sent \o a) \o b = (sent \o tx) \o todo
      BY <2>0, <2>2, <2>3
    <2> QED BY <2>4 DEF a, b
  <1>9. UInv'
    BY <1>1, <1>6, <1>7 DEF UInv, U!InputInOrder
  <1>10. StreamKept
    BY <1>1, <1>8 DEF StreamKept, U!Stream
  <1> QED BY <1>9, <1>10

\* The device sends the oldest character.
LEMMA UartTransmit ==
  ASSUME UInv, U!Transmit
  PROVE  UInv' /\ StreamKept
  <1>1. /\ tx # <<>> /\ todo' = todo /\ rx' = rx /\ got' = got /\ line' = line
        /\ written' = written /\ sent' = Append(sent, Head(tx)) /\ tx' = Tail(tx)
    BY DEF U!Transmit
  <1>2. tx \in Seq(U!Char) /\ sent \in Seq(U!Char) /\ Len(tx) <= Depth
    BY DEF UInv
  <1>3. sent' \in Seq(U!Char) /\ tx' \in Seq(U!Char) /\ sent' \o tx' = sent \o tx
    BY <1>1, <1>2, Passed
  <1>4. Len(tx') <= Depth
    <2>1. Len(tx') = Len(tx) - 1
      BY <1>1, <1>2, HeadTailProperties
    <2>2. Len(tx) \in Nat
      BY <1>2, LenProperties
    <2> QED BY <1>2, <2>1, <2>2, UartConstants
  <1>5. UInv'
    BY <1>1, <1>3, <1>4 DEF UInv, U!InputInOrder
  <1>6. StreamKept
    BY <1>1, <1>3 DEF StreamKept, U!Stream
  <1> QED BY <1>5, <1>6

\* dev_uart_rx_char: the oldest character received is returned.
LEMMA UartGet ==
  ASSUME UInv, U!dev_uart_rx_char
  PROVE  UInv' /\ StreamKept
  <1>1. /\ todo' = todo /\ tx' = tx /\ sent' = sent /\ line' = line /\ written' = written
        /\ got' = Append(got, Head(rx)) /\ rx' = Tail(rx)
    BY DEF U!dev_uart_rx_char
  <1>2. rx # <<>>
    BY DEF U!dev_uart_rx_char, U!dev_uart_fr_rxfe, U!Flags
  <1>3. rx \in Seq(U!Char) /\ got \in Seq(U!Char)
    BY DEF UInv
  <1>4. got' \in Seq(U!Char) /\ rx' \in Seq(U!Char) /\ got' \o rx' = got \o rx
    BY <1>1, <1>2, <1>3, Passed
  <1>5. UInv'
    BY <1>1, <1>4 DEF UInv, U!InputInOrder
  <1> QED BY <1>1, <1>5 DEF StreamKept, U!Stream

\* A character arrives.
LEMMA UartReceive ==
  ASSUME UInv, NEW c \in U!Char, U!Receive(c)
  PROVE  UInv' /\ StreamKept
  <1>1. /\ todo' = todo /\ tx' = tx /\ sent' = sent /\ got' = got /\ written' = written
        /\ rx' = Append(rx, c) /\ line' = Append(line, c)
    BY DEF U!Receive
  <1>2. rx \in Seq(U!Char) /\ got \in Seq(U!Char) /\ line \in Seq(U!Char) /\ got \o rx = line
    BY DEF UInv, U!InputInOrder
  <1>3. got \o Append(rx, c) = Append(got \o rx, c) /\ Append(rx, c) \in Seq(U!Char)
    BY <1>2, AppendAfter
  <1>4. line' \in Seq(U!Char)
    BY <1>1, <1>2, AppendProperties
  <1>5. UInv'
    BY <1>1, <1>2, <1>3, <1>4 DEF UInv, U!InputInOrder
  <1> QED BY <1>1, <1>5 DEF StreamKept, U!Stream

\* A step of the driver or of the device.
LEMMA UartStep ==
  UInv /\ [U!Next]_(U!vars) => UInv' /\ (StreamKept \/ StreamGrows)
  <1> SUFFICES ASSUME UInv, [U!Next]_(U!vars) PROVE UInv' /\ (StreamKept \/ StreamGrows)
    OBVIOUS
  <1>1. CASE U!dev_uart_init
    <2>1. /\ todo' = todo /\ tx' = tx /\ sent' = sent /\ got' = got /\ written' = written
          /\ rx' = rx /\ line' = line
      BY <1>1 DEF U!dev_uart_init
    <2> QED BY <2>1 DEF UInv, U!InputInOrder, StreamKept, U!Stream
  <1>2. CASE \E f \in Files, text \in Texts : U!newlib_write(f, text)
    BY <1>2, UartWrite
  <1>3. CASE U!dev_uart_wait_txff
    BY <1>3, UartSend
  <1>4. CASE U!dev_uart_rx_char
    BY <1>4, UartGet
  <1>5. CASE U!polling \/ UNCHANGED U!vars
    <2>1. /\ todo' = todo /\ tx' = tx /\ sent' = sent /\ got' = got /\ written' = written
          /\ rx' = rx /\ line' = line
      BY <1>5 DEF U!polling, U!vars
    <2> QED BY <2>1 DEF UInv, U!InputInOrder, StreamKept, U!Stream
  <1>6. CASE U!Transmit
    BY <1>6, UartTransmit
  <1>7. CASE \E c \in {"c", "\r"} : U!Receive(c)
    <2>1. PICK c \in {"c", "\r"} : U!Receive(c)
      BY <1>7
    <2>2. c \in U!Char
      BY DEF U!Char
    <2> QED BY <2>1, <2>2, UartReceive
  <1> QED BY <1>1, <1>2, <1>3, <1>4, <1>5, <1>6, <1>7 DEF U!Next

\* Characters come in in order and none is lost once it is in the FIFO
\* (dev_uart_rx_char), for any depth.
THEOREM UartInputInOrder == U!Init /\ [][U!Next]_(U!vars) => []U!InputInOrder
  <1>1. UInv => U!InputInOrder
    BY DEF UInv
  <1> QED BY <1>1, UartInit, UartStep, PTL

\* Polling for room never loses, doubles or reorders a character of the console,
\* for any depth of the FIFO and pace of the transmitter: what has been sent, is
\* in the FIFO and is still to be sent only changes when _write adds a text to
\* its end.
THEOREM UartStreamKept ==
  U!Init /\ [][U!Next]_(U!vars) => [][StreamKept \/ StreamGrows]_(U!vars)
  <1>1. UInv /\ [U!Next]_(U!vars) => [StreamKept \/ StreamGrows]_(U!vars)
    BY UartStep
  <1> QED BY <1>1, UartInit, UartStep, PTL
=============================================================================
