-------------------------------- MODULE Stdio --------------------------------
(***************************************************************************)
(* A stream of the C library, src/lib/libc: its FILE, the descriptor below *)
(* it and the file the descriptor is open on.  One action is one call of   *)
(* the library; the program makes its calls one after the other.  What the *)
(* program may do next is what ISO C lets it do: between a write and a     *)
(* read it flushes or seeks, between a read and a write it seeks.          *)
(*                                                                         *)
(* The file is the device: _read() gives what there is, _write() writes    *)
(* less than it was asked to when the disk is full.                        *)
(***************************************************************************)
EXTENDS Integers, SequencesExt

CONSTANTS
    Chars, NL,  \* the bytes, the newline among them
    BUFSIZ,     \* the size of a buffer
    DISK,       \* the bytes the disk has room for
    Files,      \* what the file may hold at first
    Strings,    \* what the program writes with fwrite()
    Typed,      \* with fputc(), and what it puts back with ungetc()
    Places,     \* where in the file it seeks to
    Counts,     \* how much it reads with fread()
    Lens,       \* and with fgets(), the 0 behind the line included
    Modes       \* what it opens streams for

ASSUME StdioAssumption ==
    /\ Chars \subseteq Nat \ {0} /\ NL \in Chars
    /\ BUFSIZ \in Nat \ {0} /\ DISK \in Nat
    /\ Files \subseteq Seq(Chars) /\ Files # {} /\ Strings \subseteq Seq(Chars) \ {<<>>}
    /\ \A f \in Files : Len(f) <= DISK
    /\ Typed \subseteq Chars /\ Places \subseteq Nat
    /\ Counts \subseteq Nat \ {0} /\ Lens \subseteq Nat \ {0, 1}
    /\ Modes \subseteq {"r", "r+", "w", "w+", "a", "a+"}

VARIABLES
    st,         \* the FILE, its descriptor and the file, see TypeOK
    open,       \* the program has the FILE
    dir,        \* what the program has to keep to: "any", "read" or "write"
    ret         \* the last call: its name, its result, the bytes it gave

vars == <<st, open, dir, ret>>

EOF == -1
Hole == 0
Least(a, b) == IF a < b THEN a ELSE b
Most(a, b) == IF a > b THEN a ELSE b
First(s, n) == SubSeq(s, 1, Least(n, Len(s)))
After(s, n) == SubSeq(s, n + 1, Len(s))

Access == {"none", "line", "full"}
-----------------------------------------------------------------------------
(* The descriptor: _open(), _read(), _write(), _lseek(). *)

\* s with the bytes of b from offset p on.
Overwrite(s, p, b) ==
    IF b = <<>> THEN s
    ELSE [i \in 1..Most(Len(s), p + Len(b)) |->
            CASE i > p /\ i <= p + Len(b) -> b[i - p]
              [] i <= p /\ i > Len(s) -> Hole
              [] OTHER -> s[i]]

DevRead(s, n) == First(After(s.file, s.pos), n)
DevRoom(s) == Most(DISK - s.pos, 0)
DevWrite(s, b) ==
    LET w == First(b, DevRoom(s)) IN
    [s EXCEPT !.file = Overwrite(@, s.pos, w), !.pos = @ + Len(w),
              !.lost = @ \/ w # b]
Short(s, b) == Len(b) > DevRoom(s)
-----------------------------------------------------------------------------
(* The buffer.  buf holds the bytes up to `end'; those up to ptr are used. *)

End(s) == Len(s.buf)
Held(s) == After(s.buf, s.ptr)
Unread(s) == End(s) - s.ptr
Empty(s) == s.ptr >= End(s)
Discard(s) == [s EXCEPT !.ptr = 0, !.buf = <<>>]

Refill(s) ==
    IF ~Empty(s) THEN s
    ELSE LET b == DevRead(s, BUFSIZ) IN
         [s EXCEPT !.ptr = 0, !.buf = b, !.pos = @ + Len(b), !.err = @ \/ b = <<>>]

\* Mutants: the full buffer is noticed a byte late; only the first line goes out.
LinesEndFirst(s) == Min({i \in s.ptr + 1 .. End(s) : s.buf[i] = NL} \cup {End(s)})

Full(s) == End(s) >= BUFSIZ

\* Where the last complete line in the buffer ends.
LinesEnd(s) == Max({i \in s.ptr + 1 .. End(s) : s.buf[i] = NL} \cup {s.ptr})

\* Writes out a buffer that is full, or the lines that are complete.
Fsync(s) ==
    LET out == IF Full(s) THEN Held(s) ELSE SubSeq(s.buf, s.ptr + 1, LinesEnd(s))
        t == DevWrite(IF Full(s) THEN Discard(s) ELSE [s EXCEPT !.ptr = LinesEnd(s)], out)
    IN  IF Full(s) \/ s.acc = "line"
        THEN [t EXCEPT !.err = @ \/ Short(s, out)]
        ELSE s

May(s, way) == way \in s.can /\ ~s.err

\* fflush(), also as fseek() and fclose() call it.  The call fails if it
\* cannot write all there is; the buffer is empty all the same.
FlushFails(s) == ~s.err /\ s.last = "write" /\ Short(s, Held(s))
Flushed(s) ==
    LET t == [s EXCEPT !.ch = EOF] IN
    CASE s.err -> s
      [] ~s.err /\ s.last = "write" /\ s.acc # "none" -> DevWrite(Discard(t), Held(s))
      [] ~s.err /\ s.last = "write" /\ s.acc = "none" -> t
      [] OTHER -> Discard(t)
-----------------------------------------------------------------------------
(* Calls.  Each leaves the FILE as t and returns n, with the bytes b. *)

Call(fn, t, n, b) ==
    /\ open
    /\ st' = t /\ ret' = [fn |-> fn, n |-> n, s |-> b]
    /\ UNCHANGED open
Keep(d) == dir' = d

\* A call that finds the stream not open for it, or in error.
Refuse(fn, n) == Call(fn, st, n, <<>>) /\ Keep(dir)

Reads(fn, none) ==
    /\ dir # "write"
    /\ IF May(st, "read") THEN Keep("read") ELSE Refuse(fn, none)

Fgetc ==
    LET s == [st EXCEPT !.last = "read"]
        c == DevRead(s, 1)
        t == Refill(s)
    IN
    /\ Reads("fgetc", EOF)
    /\ \/ ~May(st, "read")
       \/ /\ May(st, "read") /\ st.ch # EOF
          /\ Call("fgetc", [s EXCEPT !.ch = EOF], st.ch, <<>>)
       \/ /\ May(st, "read") /\ st.ch = EOF /\ st.acc = "none"
          /\ Call("fgetc", [s EXCEPT !.pos = @ + Len(c)], IF c = <<>> THEN EOF ELSE c[1], <<>>)
       \/ /\ May(st, "read") /\ st.ch = EOF /\ st.acc # "none"
          /\ IF t.err
             THEN Call("fgetc", t, EOF, <<>>)
             ELSE Call("fgetc", [t EXCEPT !.ptr = @ + 1], t.buf[t.ptr + 1], <<>>)

\* fread(), with `n' bytes still to come into the program's array after b.
\* The buffer is used up, whole buffers are read past it as long as more than
\* one is wanted, and the rest goes through the buffer again.
FreadDirect(s, b, n) ==
    LET m == BUFSIZ * ((n - 1) \div BUFSIZ)
        d == DevRead(s, m)
        t == [s EXCEPT !.pos = @ + Len(d)]
        u == Refill(t)
        k == Least(Unread(u), n - m)
    IN  CASE n = 0 -> Call("fread", s, Len(b), b)
          [] n > 0 /\ Len(d) < m ->
                Call("fread", [t EXCEPT !.err = TRUE], Len(b \o d), b \o d)
          [] n > 0 /\ Len(d) = m /\ u.err -> Call("fread", u, Len(b \o d), b \o d)
          [] OTHER -> Call("fread", [u EXCEPT !.ptr = k], Len(b) + m + k, b \o d \o First(u.buf, k))

FreadBuffered(s, b, n) ==
    LET t == Refill(s)
        k == Least(Unread(t), n)
    IN  IF t.err
        THEN Call("fread", t, 0, <<>>)
        ELSE FreadDirect([t EXCEPT !.ptr = @ + k], b \o First(Held(t), k), n - k)

Fread(count) ==
    LET b == IF st.ch = EOF THEN <<>> ELSE <<st.ch>>
        n == count - Len(b)
        s == [st EXCEPT !.last = "read", !.ch = EOF]
        d == DevRead(s, n)
    IN
    /\ Reads("fread", 0)
    /\ \/ ~May(st, "read")
       \/ /\ May(st, "read") /\ st.acc = "none"
          /\ Call("fread", [s EXCEPT !.pos = @ + Len(d), !.err = Len(d) # n], Len(d), b \o d)
       \/ May(st, "read") /\ st.acc # "none" /\ FreadBuffered(s, b, n)

\* fgets(): bytes are taken until a newline, `max' of them or the end of the
\* file; got is what the program's array has of them.
GetsStep(s, got) ==
    LET t == Refill(s) IN
    [s |-> IF t.err THEN t ELSE [t EXCEPT !.ptr = @ + 1],
     b |-> IF t.err THEN got ELSE Append(got, t.buf[t.ptr + 1])]

GetsNext(g) ==
    IF g.s.err \/ (g.b # <<>> /\ Last(g.b) = NL) THEN g ELSE GetsStep(g.s, g.b)

GetsBuffered(s, max) ==
    LET taken[i \in 0..max] ==
            IF i = 0 THEN [s |-> s, b |-> <<>>] ELSE GetsNext(taken[i - 1])
    IN  taken[max]

\* The bytes fgets_raw() reads, one _read() each.
RawLine(s, max) ==
    LET d == DevRead(s, max)
        nls == {i \in 1..Len(d) : d[i] = NL}
    IN  First(d, Min(nls \cup {max}))

Fgets(len) ==
    LET b == IF st.ch = EOF THEN <<>> ELSE <<st.ch>>
        max == len - 1 - Len(b)
        s == [st EXCEPT !.last = "read", !.ch = EOF]
        g == GetsBuffered(s, max)
        r == RawLine(s, max)
        whole == Len(r) = max \/ (r # <<>> /\ Last(r) = NL)
    IN
    /\ Reads("fgets", 0)
    /\ \/ ~May(st, "read")
       \/ /\ May(st, "read") /\ st.acc = "none"
          /\ Call("fgets", [s EXCEPT !.pos = @ + Len(r)],
                  IF whole THEN 1 ELSE 0, IF whole THEN r ELSE <<>>)
       \/ /\ May(st, "read") /\ st.acc # "none"
          /\ IF g.s.err
             THEN Call("fgets", g.s, 0, <<>>)
             ELSE Call("fgets", g.s, 1, b \o g.b)

\* Mutant: the character put back is not counted.
TellNoBack(s) ==
    IF s.acc = "none" THEN s.pos
    ELSE s.pos + (IF s.last = "read" THEN -Unread(s) ELSE Unread(s))

\* ftell(): the descriptor's place, and how far the program is from it.
Tell(s) ==
    IF s.acc = "none" THEN s.pos
    ELSE s.pos + (IF s.last = "read"
                  THEN -Unread(s) - (IF s.ch = EOF THEN 0 ELSE 1)
                  ELSE Unread(s))

\* A program puts back what it has read.
Ungetc(c) ==
    /\ dir = "read" /\ Tell(st) > 0
    /\ IF st.ch # EOF
       THEN Refuse("ungetc", EOF)
       ELSE Call("ungetc", [st EXCEPT !.ch = c, !.err = FALSE], c, <<>>) /\ Keep(dir)
-----------------------------------------------------------------------------
Writes(fn, none) ==
    /\ dir # "read"
    /\ IF May(st, "write") THEN Keep("write") ELSE \E n \in none : Refuse(fn, n)

Fputc(c) ==
    LET s == [st EXCEPT !.last = "write"]       \* 1 stands for the result c
        t == IF Full(s) THEN Fsync(s) ELSE s
        u == [t EXCEPT !.buf = Append(@, c)]
        v == IF s.acc = "line" THEN Fsync(u) ELSE u
    IN
    /\ Writes("fputc", {EOF})
    /\ \/ ~May(st, "write")
       \/ /\ May(st, "write") /\ st.acc = "none"
          /\ Call("fputc", DevWrite(s, <<c>>), IF Short(s, <<c>>) THEN EOF ELSE 1, <<>>)
       \/ /\ May(st, "write") /\ st.acc # "none"
          /\ IF t.err
             THEN Call("fputc", t, EOF, <<>>)
             ELSE Call("fputc", v, IF v.err THEN EOF ELSE 1, <<>>)

\* fwrite(): what fits goes into the buffer, whole buffers past it as long as
\* there is more than one, the rest into the buffer again.
FwriteRest(s, total, p) ==
    LET m == BUFSIZ * ((Len(p) - 1) \div BUFSIZ)
        t == DevWrite(s, First(p, m))
        u == [t EXCEPT !.buf = After(p, m)]
        v == IF s.acc = "line" THEN Fsync(u) ELSE u
        turns == DevRoom(s) \div BUFSIZ
    IN  CASE p = <<>> ->
                LET w == IF s.acc = "line" THEN Fsync(s) ELSE s
                IN  Call("fwrite", w, total, <<>>)
          [] p # <<>> /\ m > DevRoom(s) ->
                Call("fwrite", [t EXCEPT !.err = TRUE], total - Len(p) + turns * BUFSIZ, <<>>)
          [] OTHER ->
                Call("fwrite", v, IF v.err THEN m + total - Len(p) ELSE total, <<>>)

Fwrite(p) ==
    LET s == [st EXCEPT !.last = "write"]
        k == Least(BUFSIZ - End(s), Len(p))
        t == Fsync([s EXCEPT !.buf = @ \o First(p, k)])
    IN
    /\ Writes("fwrite", {0})
    /\ \/ ~May(st, "write")
       \/ /\ May(st, "write") /\ st.acc = "none"
          /\ Call("fwrite", [DevWrite(s, p) EXCEPT !.err = Short(s, p)],
                  Least(Len(p), DevRoom(s)), <<>>)
       \/ /\ May(st, "write") /\ st.acc # "none"
          /\ IF t.err
             THEN Call("fwrite", t, 0, <<>>)
             ELSE FwriteRest(t, Len(p), After(p, k))
-----------------------------------------------------------------------------
Fflush ==
    /\ dir # "read"
    /\ Call("fflush", Flushed(st), IF FlushFails(st) THEN EOF ELSE 0, <<>>)
    /\ Keep("any")

\* fseek() works out the distance between descriptor and program before it
\* flushes.
SeekTo(s, how, off) ==
    CASE how = "set" -> off
      [] how = "cur" -> s.pos + off + (Tell(st) - st.pos)
      [] how = "end" -> Len(s.file) + off

\* What is still to be written, and the file as the program sees it.
Pending == IF st.last = "write" THEN Held(st) ELSE <<>>
Data == Overwrite(st.file, st.pos, Pending)

\* The program seeks to places in the file, which is no longer than the disk.
Place(how) ==
    CASE how = "set" -> 0
      [] how = "cur" -> Tell(st)
      [] how = "end" -> Len(Data)

\* _lseek() has no place before the first byte.
Fseek(how, to) ==
    LET off == to - Place(how)
        t == Flushed(st)
        p == SeekTo(t, how, off)
    IN
    /\ to <= Least(Len(Data), DISK)
    /\ IF FlushFails(st) \/ p < 0
       THEN Call("fseek", t, EOF, <<>>) /\ Keep(dir)
       ELSE Call("fseek", [t EXCEPT !.pos = p], 0, <<>>) /\ Keep("any")

Ftell == Call("ftell", st, Tell(st), <<>>) /\ Keep(dir)

Clearerr == Call("clearerr", [st EXCEPT !.err = FALSE], 0, <<>>) /\ Keep(dir)
-----------------------------------------------------------------------------
WaysOf(mode) ==
    IF mode \in {"r+", "w+", "a+"} THEN {"read", "write"}
    ELSE IF mode = "r" THEN {"read"} ELSE {"write"}

\* _openfd(): the file and where the descriptor is in it.
Openfd(s, mode) ==
    LET f == IF mode \in {"w", "w+"} THEN <<>> ELSE s.file IN
    [s EXCEPT !.there = TRUE, !.file = f,
              !.pos = IF mode \in {"a", "a+"} THEN Len(f) ELSE 0]

\* The FILE as fdopen() and freopen() set it up.
Fresh(s, mode) ==
    [Discard(s) EXCEPT !.can = WaysOf(mode), !.err = FALSE, !.last = "closed",
                       !.ch = EOF, !.lost = FALSE]

Opened(fn, t) ==
    /\ st' = t /\ ret' = [fn |-> fn, n |-> 1, s |-> <<>>]
    /\ open' = TRUE /\ dir' = "any"

\* fopen(), and a setvbuf() before anything else is done.
Fopen(mode, acc) ==
    /\ ~open
    /\ IF mode \in {"r", "r+"} /\ ~st.there
       THEN /\ ret' = [fn |-> "fopen", n |-> 0, s |-> <<>>]
            /\ UNCHANGED <<st, open, dir>>
       ELSE Opened("fopen", [Fresh(Openfd(st, mode), mode) EXCEPT !.acc = acc])

\* With a path the file is opened again; what is in the buffer is forgotten.
Freopen(path, mode) ==
    /\ open
    /\ Opened("freopen", Fresh(IF path THEN Openfd(st, mode) ELSE st, mode))

Closed(s) == [Fresh(s, "r") EXCEPT !.can = {}, !.pos = 0, !.acc = "full"]

Fclose ==
    LET t == IF st.last = "write" THEN Flushed(st) ELSE st IN
    IF FlushFails(st)
    THEN Call("fclose", t, EOF, <<>>) /\ Keep(dir)
    ELSE /\ open
         /\ st' = Closed(t) /\ ret' = [fn |-> "fclose", n |-> 0, s |-> <<>>]
         /\ open' = FALSE /\ dir' = "any"

\* The program ends without exit().
Killed ==
    /\ open
    /\ st' = Closed(st) /\ ret' = [fn |-> "killed", n |-> 0, s |-> <<>>]
    /\ open' = FALSE /\ dir' = "any"
-----------------------------------------------------------------------------
Init ==
    /\ \E f \in Files, there \in BOOLEAN :
          /\ there \/ f = <<>>
          /\ st = [file |-> f, there |-> there, pos |-> 0, lost |-> FALSE,
                   can |-> {}, err |-> FALSE, last |-> "closed", acc |-> "full",
                   ptr |-> 0, buf |-> <<>>, ch |-> EOF]
    /\ open = FALSE /\ dir = "any"
    /\ ret = [fn |-> "none", n |-> 0, s |-> <<>>]

Next ==
    \/ Fgetc \/ Fflush \/ Ftell \/ Clearerr \/ Fclose \/ Killed
    \/ \E n \in Counts : Fread(n)
    \/ \E n \in Lens : Fgets(n)
    \/ \E c \in Typed : Ungetc(c) \/ Fputc(c)
    \/ \E p \in Strings : Fwrite(p)
    \/ \E how \in {"set", "cur", "end"}, to \in Places : Fseek(how, to)
    \/ \E mode \in Modes, acc \in Access : Fopen(mode, acc)
    \/ \E path \in BOOLEAN, mode \in Modes : Freopen(path, mode)

Spec == Init /\ [][Next]_vars
-----------------------------------------------------------------------------
(* Properties *)

\* The buffer has room for what is in it, and the bytes used are in it.
TypeOK ==
    /\ st.file \in Seq(Chars \cup {Hole})
    /\ st.there \in BOOLEAN /\ st.err \in BOOLEAN /\ st.lost \in BOOLEAN
    /\ st.pos \in Nat /\ st.ptr \in 0..End(st)
    /\ st.can \subseteq {"read", "write"}
    /\ st.last \in {"closed", "read", "write"} /\ st.acc \in Access
    /\ st.buf \in Seq(Chars \cup {Hole}) /\ End(st) <= BUFSIZ
    /\ st.ch \in Chars \cup {EOF}
    /\ open \in BOOLEAN /\ dir \in {"any", "read", "write"}

\* On a line-buffered stream no complete line waits in the buffer: what a
\* program prints before it asks is on the screen (_fsync()).
LinesAreOut == st.acc = "line" /\ ~st.lost => ~Contains(Pending, NL)

\* The stream implements the bytes and the position a program believes in.
Position == IF st.last = "read" THEN st.pos - Unread(st) ELSE st.pos + Len(Pending)
Buffered == st.acc # "none"
Dirty == Pending # <<>>
Kept == ~st.lost

Abs == INSTANCE AbstractStream WITH
    can <- st.can,
    buffered <- Buffered,
    data <- Data,
    pos <- Position,
    back <- st.ch,
    stuck <- st.err,
    dirty <- Dirty,
    ok <- Kept,
    Far <- DISK + BUFSIZ,
    Strings <- Strings \cup Files
KeepsPromise == Abs!Spec
=============================================================================
