------------------------------- MODULE Stdio -------------------------------
(***************************************************************************)
(* c/rt/stdio.c: the streams.  A stream that reads is a copy of the file   *)
(* taken by fopen; a stream that writes collects its bytes and hands them  *)
(* to SYS_FWRITE, which replaces the whole file, when flushed or closed.   *)
(*                                                                         *)
(* Files are sequences of characters, on HBFS or in the memory file system *)
(* mounted at /tmp (kernel/vfs.inc).  The actions are the calls of one     *)
(* program; streams meet only in the files.  Allocation, SYS_FREAD and     *)
(* SYS_FWRITE may fail.  Standard input and the console are left out.      *)
(***************************************************************************)
EXTENDS Integers, Sequences, SequencesExt, FiniteSetsExt

CONSTANTS Streams,        \* FILE objects
          Paths,
          Chars, NL,      \* characters, and the newline among them
          Texts,          \* what programs write in one call
          FIRST_CAP,      \* 1024: the first write buffer
          TMPFS_FILE_MAX, \* what a file in /tmp holds
          MaxFile         \* bound: characters given to one stream

ASSUME StdioAssumption ==
  /\ NL \in Chars /\ Texts \subseteq Seq(Chars)
  /\ {FIRST_CAP, TMPFS_FILE_MAX, MaxFile} \subseteq Nat \ {0}

VARIABLES
  mount,          \* the file system of each path, which stays
  disk,           \* the file of each path, or Absent
  file,           \* struct mv_file of each open stream, or Closed
  ghost,          \* history of each open stream: see NoGhost
  said            \* what the last call answered, if it was fclose

vars == <<mount, disk, file, ghost, said>>

Absent == <<"absent">>
NoPath == "no path"
NoBuf == <<"no buffer">>
Closed == [fd |-> FALSE]
None == "none"                     \* ungot = -1

\* fopen's mode_flags.
Modes ==
  {[access |-> "r",  creat |-> FALSE, trunc |-> FALSE, append |-> FALSE],
   [access |-> "rw", creat |-> FALSE, trunc |-> FALSE, append |-> FALSE],
   [access |-> "w",  creat |-> TRUE,  trunc |-> TRUE,  append |-> FALSE],
   [access |-> "rw", creat |-> TRUE,  trunc |-> TRUE,  append |-> FALSE],
   [access |-> "w",  creat |-> TRUE,  trunc |-> FALSE, append |-> TRUE],
   [access |-> "rw", creat |-> TRUE,  trunc |-> FALSE, append |-> TRUE]}

\* given: everything the program gave the stream; old: the file that an append stream
\* was opened on; seen: what it has read and not pushed back; snap: the copy fopen took;
\* flushed: bytes have left the stream before its close; erred: ferror was true, or
\* append could not read the file.
NoGhost == [given |-> <<>>, old |-> <<>>, seen |-> <<>>, snap |-> <<>>, flushed |-> FALSE, erred |-> FALSE]

Prefix(q, n) == SubSeq(q, 1, n)

\* vfs_tmp_write: "short write at the limit".
Stored(path, bytes) ==
  IF mount[path] = "tmpfs" THEN Prefix(bytes, Min({Len(bytes), TMPFS_FILE_MAX})) ELSE bytes

Init ==
  /\ mount \in [Paths -> {"hbfs", "tmpfs"}]
  /\ disk \in [Paths -> {Absent} \cup Texts] /\ \A p \in Paths : disk[p] \in {Absent, Stored(p, disk[p])}
  /\ file = [s \in Streams |-> Closed]
  /\ ghost = [s \in Streams |-> NoGhost]
  /\ said = None

Open(s) == file[s] # Closed
Silent == said' = None /\ UNCHANGED mount

-----------------------------------------------------------------------------
(* Opening.  SYS_OPEN settles O_CREAT and O_TRUNC before anything else.    *)

stream_new(path) ==
  [fd |-> TRUE, path |-> path, eof |-> FALSE, error |-> FALSE, ungot |-> None,
   wbuf |-> <<>>, wcap |-> 0, rbuf |-> NoBuf, rpos |-> 0]

\* In /tmp an open for writing creates, and SYS_OPEN unlinks for O_CREAT alone too.
Opens(path, m) ==
  m.creat \/ disk[path] # Absent \/ (mount[path] = "tmpfs" /\ m.access # "r")
Replaced(path, m) == m.trunc \/ (mount[path] = "tmpfs" /\ m.creat)
Settled(path, m) == IF Replaced(path, m) \/ disk[path] = Absent THEN <<>> ELSE disk[path]

\* What fwrite makes of text: everything is collected, or the buffer could not
\* be grown and the rest is dropped with the error flag set.
Caps(f) == {f.wcap} \cup {FIRST_CAP * 2 ^ i : i \in 0 .. MaxFile}
Collects(f, text) ==
  LET end  == Len(f.wbuf) + Len(text)
      cap  == Min({c \in Caps(f) : c >= Max({end, f.wcap})})
      full == [f EXCEPT !.wbuf = @ \o text, !.wcap = cap]
      cut(c) == [f EXCEPT !.wbuf = Prefix(@ \o text, c), !.wcap = c, !.error = TRUE]
  IN  {full} \cup {cut(c) : c \in {c \in Caps(f) : f.wcap <= c /\ c < end}}

\* SYS_FREAD's answer: the file, or nothing when it fails.
SysFread(path, m) == {Settled(path, m), <<>>}

\* "Append has to carry the existing bytes with it".  Fault: it does not.
Carried_none(m, old) == <<>>
Carried(m, old) == IF m.append THEN old ELSE <<>>

fopen(s, path, m) ==
  /\ ~Open(s) /\ Opens(path, m)
  /\ disk' = [disk EXCEPT ![path] = Settled(path, m)]
  /\ \E copy \in SysFread(path, m) \cup {NoBuf}, old \in SysFread(path, m) :
     \E f \in Collects(stream_new(path), Carried(m, old)) :
       /\ file' = [file EXCEPT ![s] =
                     IF m.access = "w" THEN f ELSE [f EXCEPT !.rbuf = copy]]
       /\ ghost' = [ghost EXCEPT ![s] =
                     [NoGhost EXCEPT !.snap = copy,
                        !.old = IF m.append /\ disk[path] # Absent THEN disk[path] ELSE <<>>,
                        !.erred = f.error \/ (m.append /\ old # Settled(path, m))]]
  /\ Silent

\* No memory for the stream: the descriptor is closed, but the file has been
\* created or emptied.
FopenNoMemory(path, m) ==
  /\ Opens(path, m)
  /\ disk' = [disk EXCEPT ![path] = Settled(path, m)]
  /\ UNCHANGED <<file, ghost>> /\ Silent

\* SYS_OPEN fails between removing the old file and making the new one.
OpenFails(path, m) ==
  /\ Replaced(path, m)
  /\ disk' = [disk EXCEPT ![path] = Absent]
  /\ UNCHANGED <<file, ghost>> /\ Silent

\* A stream over a descriptor has no name to hand a write to.
fdopen(s) ==
  /\ ~Open(s)
  /\ file' = [file EXCEPT ![s] = stream_new(NoPath)]
  /\ ghost' = [ghost EXCEPT ![s] = NoGhost]
  /\ UNCHANGED disk /\ Silent

-----------------------------------------------------------------------------
(* Writing *)

Update(s, f, g) ==
  /\ file' = [file EXCEPT ![s] = f]
  /\ ghost' = [ghost EXCEPT ![s] = [g EXCEPT !.erred = @ \/ f.error]]

\* fwrite, fputc and fputs: the mode of the stream is not looked at.
fwrite(s, text) ==
  /\ Open(s) /\ Len(ghost[s].old) + Len(ghost[s].given) + Len(text) <= MaxFile
  /\ \E f \in Collects(file[s], text) :
       Update(s, f, [ghost[s] EXCEPT
                       !.given = @ \o Prefix(text, Len(f.wbuf) - Len(file[s].wbuf))])
  /\ UNCHANGED disk /\ Silent

\* SYS_FWRITE deletes the old file and writes a new one: success, a refusal that leaves
\* the file (HBFS), or a failure between the two.  A short write is a success.
SysFwrite(path, bytes) ==
  [ok : {TRUE}, now : {Stored(path, bytes)}]
    \cup [ok : {FALSE}, now : IF mount[path] = "hbfs" THEN {disk[path], Absent} ELSE {Absent}]

\* What fflush does to a stream and to its file.  An empty buffer is a success.
Flushed(f) ==
  IF f.wbuf = <<>> THEN {[f |-> f, disk |-> disk, ok |-> TRUE]}
  ELSE IF f.path = NoPath THEN {[f |-> [f EXCEPT !.error = TRUE], disk |-> disk, ok |-> FALSE]}
  ELSE {[f    |-> IF w.ok THEN [f EXCEPT !.wbuf = <<>>] ELSE [f EXCEPT !.error = TRUE],
         disk |-> [disk EXCEPT ![f.path] = w.now], ok |-> w.ok]
          : w \in SysFwrite(f.path, f.wbuf)}

fflush(s) ==
  /\ Open(s)
  /\ \E r \in Flushed(file[s]) :
       /\ disk' = r.disk
       /\ Update(s, r.f, [ghost[s] EXCEPT !.flushed = @ \/ file[s].wbuf # <<>>])
  /\ Silent

\* The descriptor is closed and the stream freed whatever the flush answered.
fclose(s) ==
  /\ Open(s)
  /\ \E r \in Flushed(file[s]) :
       /\ disk' = r.disk
       /\ \E closed \in BOOLEAN : said' = IF r.ok /\ closed THEN "0" ELSE "EOF"
  /\ file' = [file EXCEPT ![s] = Closed] /\ ghost' = [ghost EXCEPT ![s] = NoGhost]
  /\ UNCHANGED mount

-----------------------------------------------------------------------------
(* Reading *)

Buffered(s) == Open(s) /\ file[s].rbuf # NoBuf
Pushed(f) == IF f.ungot = None THEN <<>> ELSE <<f.ungot>>
Rest(f) == SubSeq(f.rbuf, f.rpos + 1, Len(f.rbuf))
Ready(f) == Pushed(f) \o Rest(f)

\* k characters are handed out, the pushed-back one first; eof is looked at if
\* the copy was.
Taken(f, k, looked) ==
  LET pos == f.rpos + k - Len(Pushed(f))
  IN  [f EXCEPT !.ungot = None, !.rpos = pos,
                !.eof = IF looked THEN @ \/ pos >= Len(f.rbuf) ELSE @]

Reads(s, k, looked) ==
  /\ IF k = 0 /\ ~looked THEN UNCHANGED <<file, ghost>>
     ELSE Update(s, Taken(file[s], k, looked),
                 [ghost[s] EXCEPT !.seen = @ \o Prefix(Ready(file[s]), k)])
  /\ UNCHANGED disk /\ Silent

fread(s, n) ==
  /\ Buffered(s)
  /\ Reads(s, Min({n, Len(Ready(file[s]))}), TRUE)

fgetc(s) ==
  /\ Buffered(s)
  /\ Reads(s, Min({1, Len(Ready(file[s]))}), file[s].ungot = None)

\* The characters up to the first newline, but no more than n.
LineLength(q, n) ==
  LET ends == {i \in 1 .. Len(q) : q[i] = NL} IN Min(ends \cup {n, Len(q)})

\* fgets: fgetc until size - 1 characters, a newline, or the end.
fgets(s, size) ==
  LET q == Ready(file[s])
      k == LineLength(q, size - 1)
  IN
  /\ Buffered(s)
  /\ Reads(s, k, k > Len(Pushed(file[s])) \/ (k = Len(q) /\ k < size - 1 /\ NL \notin Range(q)))

\* getline: the caller's buffer grows with the line; when it cannot, the call
\* ends after some character of the line, as an fgets of that size does (the
\* program does not get the last one).
getdelim(s) == Buffered(s) /\ fgets(s, Len(Ready(file[s])) + 2)

\* No copy of the file: the descriptor's read path, which gives nothing useful
\* (docs/POSIX.md).
ReadDescriptor(s) ==
  /\ Open(s) /\ ~Buffered(s) /\ file[s].ungot = None
  /\ \E f \in {[file[s] EXCEPT !.eof = TRUE], [file[s] EXCEPT !.error = TRUE]} :
       Update(s, f, ghost[s])
  /\ UNCHANGED disk /\ Silent

\* ungetc of the character last read; one at a time.
PushedBack(f, c) == [f EXCEPT !.ungot = c, !.eof = FALSE]
ungetc(s) ==
  /\ Buffered(s) /\ file[s].ungot = None /\ ghost[s].seen # <<>>
  /\ Update(s, PushedBack(file[s], Last(ghost[s].seen)), [ghost[s] EXCEPT !.seen = Front(@)])
  /\ UNCHANGED disk /\ Silent

\* fseek and rewind: the pushed-back character is dropped even when the target
\* is refused.  Fault: it is kept.
Sought_ungot(f, target) == [f EXCEPT !.eof = FALSE, !.rpos = target]
Sought(f, target) == [f EXCEPT !.ungot = None, !.eof = FALSE, !.rpos = target]

fseek(s, target) ==
  /\ Buffered(s)
  /\ LET to == IF target \in 0 .. Len(file[s].rbuf) THEN target ELSE file[s].rpos
     IN  Update(s, Sought(file[s], to), [ghost[s] EXCEPT !.seen = Prefix(file[s].rbuf, to)])
  /\ UNCHANGED disk /\ Silent

\* Without a copy the descriptor is moved, or is refused.
SeekDescriptor(s) ==
  /\ Open(s) /\ ~Buffered(s)
  /\ \E e \in BOOLEAN :
       Update(s, [file[s] EXCEPT !.ungot = None, !.eof = FALSE, !.error = @ \/ e], ghost[s])
  /\ UNCHANGED disk /\ Silent

clearerr(s) ==
  /\ Open(s)
  /\ Update(s, [file[s] EXCEPT !.eof = FALSE, !.error = FALSE], ghost[s])
  /\ UNCHANGED disk /\ Silent

-----------------------------------------------------------------------------
(* Names *)

remove(path) ==
  /\ disk[path] # Absent /\ disk' = [disk EXCEPT ![path] = Absent]
  /\ UNCHANGED <<file, ghost>> /\ Silent

\* Other programs replace files too; renaming another file over this one looks
\* the same.
OtherProgram(path, text) ==
  /\ disk' = [disk EXCEPT ![path] = Stored(path, text)]
  /\ UNCHANGED <<file, ghost>> /\ Silent

Next ==
  \/ \E s \in Streams, p \in Paths, m \in Modes : fopen(s, p, m)
  \/ \E p \in Paths, m \in Modes : FopenNoMemory(p, m) \/ OpenFails(p, m)
  \/ \E p \in Paths : remove(p) \/ \E t \in Texts : OtherProgram(p, t)
  \/ \E s \in Streams :
       \/ fdopen(s) \/ fflush(s) \/ fclose(s)
       \/ fgetc(s) \/ getdelim(s) \/ ReadDescriptor(s) \/ SeekDescriptor(s)
       \/ ungetc(s) \/ clearerr(s)
       \/ \E t \in Texts : fwrite(s, t)
       \/ \E n \in 1 .. MaxFile : fread(s, n) \/ fgets(s, n)
       \/ \E n \in -1 .. MaxFile + 1 : fseek(s, n)

Spec == Init /\ [][Next]_vars

-----------------------------------------------------------------------------
(* Properties *)

\* A stream reads the file as it was at fopen, every character once and in
\* order, through any mix of fgetc, fread, fgets, getline, ungetc and fseek, and
\* whatever other streams do to the file meanwhile; and feof is never true while a
\* character is left to read.
ReadsSnapshot ==
  \A s \in Streams : Buffered(s) =>
    /\ ghost[s].seen \o Ready(file[s]) = ghost[s].snap
    /\ file[s].eof => Ready(file[s]) = <<>>

\* "fflush and fclose return a status worth checking": if fclose answers 0, the
\* file is what the stream was given, behind the old file if it was opened to append -
\* provided no call had failed and nothing had been flushed before.  In /tmp it is
\* as much of what the stream was given as a file there holds, the old file gone.
ClosedFileWhole ==
  [][\A s \in Streams :
       /\ Open(s) /\ file'[s] = Closed /\ said' = "0"
       /\ ghost[s].given # <<>> /\ ~ghost[s].flushed /\ ~ghost[s].erred
       => LET path == file[s].path IN
          /\ path # NoPath
          /\ disk'[path] = IF mount[path] = "hbfs" THEN ghost[s].old \o ghost[s].given
                           ELSE Stored(path, ghost[s].given)]_vars

=============================================================================
