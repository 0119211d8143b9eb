------------------------------ MODULE Semihost ------------------------------
(***************************************************************************)
(* The file stubs of vmm/newlib_stub.c over devices/dev_semihost.c.  The      *)
(* device has one set of registers and two arrays; a request writes some of  *)
(* them, submits, and reads the answer.  What a request does not write keeps *)
(* what earlier requests left there.  Calls come from the one thread of      *)
(* hypervisor mode with interrupts masked, so a call is one step.           *)
(***************************************************************************)
EXTENDS Integers, Sequences, FiniteSetsExt, TLC

CONSTANTS Contents,  \* initial contents of the host's files, by path
          Fds,       \* descriptors the host may give out
          Data,      \* what is written: sequences of bytes
          Offsets,   \* offsets of lseek
          PathMax,   \* bytes of the path array that are looked at
          BufMax,    \* bytes of the data array that are looked at
          SizeMax    \* bound on file sizes and positions

Paths == DOMAIN Contents

\* The bytes there are in paths, files and data, with the zero.
Byte ==
  {"0"} \cup UNION {{s[i] : i \in DOMAIN s} : s \in Paths \cup Data \cup {Contents[p] : p \in Paths}}

\* Paths and data fit the arrays; a path holds no terminator.
SemihostAssumption ==
  /\ Fds \subseteq Nat /\ PathMax \in Nat /\ BufMax \in Nat \ {0} /\ Offsets \subseteq Int
  /\ Contents \in [Paths -> Seq(Byte)]
  /\ \A p \in Paths : /\ p \in Seq(Byte) /\ Len(p) < PathMax
                      /\ \A i \in 1 .. Len(p) : p[i] # "0"
  /\ \A s \in Data : s \in Seq(Byte) /\ Len(s) <= BufMax

VARIABLES reg,    \* the device's registers and arrays
          disk,   \* the host's files: contents by path
          open,   \* the host's open files: descriptor -> [path, pos]
          answer, \* what the last call gave its caller
          asked   \* history: the last call

vars == <<reg, disk, open, answer, asked>>

(***************************************************************************)
(* The host: files with positions.                                         *)
(***************************************************************************)
Result(d, o, ret, data) == [disk |-> d, open |-> o, ret |-> ret, data |-> data]

\* File f with s put at position p; a gap reads as zero.
Overwritten(f, p, s) ==
  [i \in 1 .. Max({Len(f), p + Len(s)}) |->
     IF i > p /\ i <= p + Len(s) THEN s[i - p] ELSE IF i <= Len(f) THEN f[i] ELSE "0"]

\* The requests; -1 when the host cannot serve one.
Failed == Result(disk, open, -1, <<>>)

Moved(fd, p) == [open EXCEPT ![fd].pos = p]

host_open(path) ==
  LET free == Fds \ DOMAIN open
      fd   == Min(free)
  IN  IF path \in Paths /\ free # {}
      THEN Result(disk, [d \in DOMAIN open \cup {fd} |->
                           IF d = fd THEN [path |-> path, pos |-> 0] ELSE open[d]], fd, <<>>)
      ELSE Failed

host_read(fd, count) ==
  LET file == disk[open[fd].path]
      pos  == open[fd].pos
      some == SubSeq(file, pos + 1, Min({Len(file), pos + count}))
  IN  Result(disk, Moved(fd, pos + Len(some)), Len(some), some)

host_write(fd, data) ==
  LET path == open[fd].path
      pos  == open[fd].pos
  IN  Result([disk EXCEPT ![path] = Overwritten(disk[path], pos, data)],
             Moved(fd, pos + Len(data)), Len(data), <<>>)

host_lseek(fd, offset, whence) ==
  LET goal == offset + (CASE whence = 0 -> 0
                          [] whence = 1 -> open[fd].pos
                          [] whence = 2 -> Len(disk[open[fd].path]))
  IN  IF goal >= 0 THEN Result(disk, Moved(fd, goal), goal, <<>>) ELSE Failed

\* Of a file's status only the size is told.
host_fstat(fd) == Result(disk, open, 0, <<ToString(Len(disk[open[fd].path]))>>)

host_close(fd) == Result(disk, [d \in DOMAIN open \ {fd} |-> open[d]], 0, <<>>)

\* What the host does for request q.
Serve(q) ==
  IF q.type = "OPEN" THEN host_open(q.path)
  ELSE IF q.fd \notin DOMAIN open THEN Failed
  ELSE CASE q.type = "READ"  -> host_read(q.fd, q.count)
         [] q.type = "WRITE" -> host_write(q.fd, q.data)
         [] q.type = "LSEEK" -> host_lseek(q.fd, q.offset, q.whence)
         [] q.type = "FSTAT" -> host_fstat(q.fd)
         [] q.type = "CLOSE" -> host_close(q.fd)

\* A write to OFFSET_SUBMIT: the request is what the registers r say.
Decoded(r) ==
  [type |-> r.type, fd |-> r.fd, count |-> r.count, offset |-> r.offset, whence |-> r.whence,
   path |-> SubSeq(r.path, 1, Min({i \in 1 .. PathMax : r.path[i] = "0"}) - 1),
   data |-> SubSeq(r.buf, 1, r.count)]

(***************************************************************************)
(* The driver.                                                             *)
(***************************************************************************)
\* dev_semihost_writearr: array a with the first bytes from s.
writearr(a, s) == [i \in DOMAIN a |-> IF i <= Len(s) THEN s[i] ELSE a[i]]

\* r are the registers as they are submitted; the data the device read is in
\* the data array, and the caller gets count bytes of it, or the status.
submit(r, q) ==
  LET served == Serve(Decoded(r))
      buf    == writearr(r.buf, served.data)
  IN  /\ disk' = served.disk
      /\ open' = served.open
      /\ reg' = [r EXCEPT !.ret = served.ret, !.buf = buf]
      /\ answer' = [ret  |-> served.ret,
                    data |-> CASE q.type = "READ"  -> SubSeq(buf, 1, q.count)
                               [] q.type = "FSTAT" -> SubSeq(buf, 1, 1)
                               [] OTHER            -> <<>>]
      /\ asked' = q

\* A call, for the history; fields a call does not have are those of Blank.
Blank == [type |-> "none", fd |-> 0, count |-> 0, offset |-> 0, whence |-> 0,
          path |-> <<>>, data |-> <<>>]

\* The terminating zero of the path is left out.
dev_semihost_do_open_bug(path) ==
  submit([reg EXCEPT !.type = "OPEN", !.path = writearr(@, path)],
         [Blank EXCEPT !.type = "OPEN", !.path = path])

\* flags and mode are registers of this request only.
dev_semihost_do_open(path) ==
  submit([reg EXCEPT !.type = "OPEN", !.path = writearr(@, Append(path, "0"))],
         [Blank EXCEPT !.type = "OPEN", !.path = path])

dev_semihost_do_read(fd, count) ==
  submit([reg EXCEPT !.type = "READ", !.fd = fd, !.count = count],
         [Blank EXCEPT !.type = "READ", !.fd = fd, !.count = count])

dev_semihost_do_write(fd, s) ==
  submit([reg EXCEPT !.type = "WRITE", !.fd = fd, !.count = Len(s), !.buf = writearr(@, s)],
         [Blank EXCEPT !.type = "WRITE", !.fd = fd, !.data = s])

dev_semihost_do_lseek(fd, offset, whence) ==
  submit([reg EXCEPT !.type = "LSEEK", !.fd = fd, !.offset = offset, !.whence = whence],
         [Blank EXCEPT !.type = "LSEEK", !.fd = fd, !.offset = offset, !.whence = whence])

dev_semihost_do_close(fd) ==
  submit([reg EXCEPT !.type = "CLOSE", !.fd = fd], [Blank EXCEPT !.type = "CLOSE", !.fd = fd])

dev_semihost_do_fstat(fd) ==
  submit([reg EXCEPT !.type = "FSTAT", !.fd = fd], [Blank EXCEPT !.type = "FSTAT", !.fd = fd])

Init ==
  /\ reg = [type |-> "OPEN", fd |-> 0, count |-> 0, offset |-> 0, whence |-> 0, ret |-> 0,
            path |-> [i \in 1 .. PathMax |-> "0"], buf |-> [i \in 1 .. BufMax |-> "0"]]
  /\ disk = Contents
  /\ open = [fd \in {} |-> Blank]
  /\ answer = [ret |-> 0, data |-> <<>>]
  /\ asked = Blank

\* Newlib calls the stubs with any open or closed descriptor.
Next ==
  \/ \E path \in Paths : dev_semihost_do_open(path)
  \/ \E fd \in Fds :
       \/ \E count \in 1 .. BufMax : dev_semihost_do_read(fd, count)
       \/ \E s \in Data :
            /\ fd \in DOMAIN open => open[fd].pos + Len(s) <= SizeMax
            /\ dev_semihost_do_write(fd, s)
       \/ \E offset \in Offsets, whence \in 0 .. 2 :
            /\ fd \in DOMAIN open => open[fd].pos + offset <= SizeMax
            /\ dev_semihost_do_lseek(fd, offset, whence)
       \/ dev_semihost_do_fstat(fd)
       \/ dev_semihost_do_close(fd)

Spec == Init /\ [][Next]_vars

(***************************************************************************)
(* Properties.                                                             *)
(***************************************************************************)
\* Every call is served as it was asked, whatever earlier calls left in the
\* registers and arrays: the right file moves, and the bytes a caller may use
\* of its buffer (as many as the call returned) are the file's.
ServedAsAsked ==
  [][LET served == Serve(asked')
     IN  /\ disk' = served.disk
         /\ open' = served.open
         /\ answer'.ret = served.ret
         /\ SubSeq(answer'.data, 1, Len(served.data)) = served.data]_vars
=============================================================================
