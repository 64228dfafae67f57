---------------------------- MODULE AbstractStream ----------------------------
(***************************************************************************)
(* A stream as the program that reads and writes it sees it: the bytes of  *)
(* the file, a position, one character put back.  There is no buffer; all  *)
(* that is left of it is `dirty': some of what was written may still be    *)
(* forgotten.  Where the library gives less than ISO C asks of it, there   *)
(* is a clause that says how much less, marked `departure'.                *)
(***************************************************************************)
EXTENDS Integers, Sequences, FiniteSetsExt

CONSTANTS
    Chars, NL,  \* the bytes, the newline among them
    BUFSIZ,     \* the size of the library's buffer
    Strings,    \* what a program writes
    Lens,       \* the sizes of the arrays it has lines read into
    Far         \* how far it seeks

VARIABLES
    open,       \* the stream is open
    can,        \* what it was opened for
    buffered,   \* it has a buffer
    data,       \* the bytes of the file
    pos,        \* the next byte to be read or written
    back,       \* the character put back, EOF if none
    stuck,      \* the error flag: it is also the end-of-file flag
    dirty,      \* something written was not flushed
    ok,         \* no write failed since the stream was opened
    ret         \* the last call: its name, its result, the bytes it gave

stream == <<open, can, buffered, data, pos, back, stuck, dirty, ok>>
vars == <<stream, ret>>

EOF == -1
Hole == 0       \* what a file has where nothing was written
Least(a, b) == IF a < b THEN a ELSE b
Most(a, b) == IF a > b THEN a ELSE b
First(s, n) == SubSeq(s, 1, Least(n, Len(s)))
After(s, n) == SubSeq(s, n + 1, Len(s))

\* s with the bytes of b from offset p on.
Overwrite(s, p, b) ==
    IF b = <<>> THEN s
    ELSE [i \in 1..Most(Len(s), p + Len(b)) |->
            CASE i > p /\ i <= p + Len(b) -> b[i - p]
              [] i <= p /\ i > Len(s) -> Hole
              [] OTHER -> s[i]]

\* The length of the line s starts with, of no more than max bytes.
LineLen(s, max) ==
    Min({i \in 1..Len(s) : s[i] = NL} \cup {Len(s), max})

PutBack == IF back = EOF THEN <<>> ELSE <<back>>
Ahead == After(data, pos)
Input == PutBack \o Ahead           \* what a program can read

\* The first n bytes of Input are consumed.
Take(n) == back' = EOF /\ pos' = pos + n - Len(PutBack)

Says(fn, n, s) == ret' = [fn |-> fn, n |-> n, s |-> s]
Keeps == UNCHANGED <<open, can, buffered, ok>>

Readable == open /\ ok /\ "read" \in can /\ ~stuck
Writable == open /\ ok /\ "write" \in can /\ ~stuck
-----------------------------------------------------------------------------
\* A call that does nothing: of a stream not open for it, or that is stuck.
Refused(fn, n) == open /\ ok /\ Says(fn, n, <<>>) /\ UNCHANGED stream

Getc ==
    \/ /\ Readable /\ Input # <<>>
       /\ Says("fgetc", Head(Input), <<>>) /\ Take(1)
       /\ Keeps /\ UNCHANGED <<data, stuck, dirty>>
    \/ /\ Readable /\ Input = <<>>
       /\ Says("fgetc", EOF, <<>>)
       /\ stuck' = buffered
       /\ Keeps /\ UNCHANGED <<data, pos, back, dirty>>
    \/ ~Readable /\ Refused("fgetc", EOF)

\* Departures: a character put back is lost if nothing follows it, and not
\* counted in what is read without a buffer.
Read ==
    \/ \E n \in 1..Len(Input) :
        /\ Readable
        /\ \E k \in {n, n - Len(PutBack)} :
              /\ k = n \/ ~buffered
              /\ Says("fread", k, First(Input, n))
        /\ Take(n)
        /\ stuck' => n = Len(Input)
        /\ Keeps /\ UNCHANGED <<data, dirty>>
    \/ /\ Readable /\ Ahead = <<>>
       /\ Says("fread", 0, <<>>) /\ back' = EOF /\ stuck'
       /\ Keeps /\ UNCHANGED <<data, pos, dirty>>
    \/ ~Readable /\ Refused("fread", 0)

\* Departures: a newline put back does not end the line, a line without a
\* newline at the end of the file is lost, and so is what was put back if
\* there is no buffer.
Gets(len) ==
    LET k == Len(PutBack)
        n == k + LineLen(Ahead, len - 1 - k)
        line == First(Input, n)
        whole == n = len - 1 \/ (n > k /\ line[n] = NL)
    IN
    \/ /\ Readable /\ whole
       /\ Says("fgets", 1, IF buffered THEN line ELSE After(line, k))
       /\ back' = EOF /\ pos' = pos + n - k
       /\ Keeps /\ UNCHANGED <<data, stuck, dirty>>
    \/ /\ Readable /\ ~whole
       /\ Says("fgets", 0, <<>>)
       /\ back' = EOF /\ pos' = pos + n - k /\ stuck' = buffered
       /\ Keeps /\ UNCHANGED <<data, dirty>>
    \/ ~Readable /\ Refused("fgets", 0)

PutCharBack(c) ==
    /\ open /\ ok
    /\ IF back # EOF
       THEN Refused("ungetc", EOF)
       ELSE /\ Says("ungetc", c, <<>>) /\ back' = c /\ stuck' = FALSE
            /\ Keeps /\ UNCHANGED <<data, pos, dirty>>

Write(fn, b) ==
    \/ /\ Writable /\ Says(fn, Len(b), <<>>)
       /\ data' = Overwrite(data, pos, b) /\ pos' = pos + Len(b)
       /\ dirty' \in BOOLEAN
       /\ Keeps /\ UNCHANGED <<back, stuck>>
    \/ ~Writable /\ \E n \in {EOF, 0} : Refused(fn, n)

Flush ==
    /\ open /\ ok /\ Says("fflush", 0, <<>>)
    /\ dirty' = FALSE
    /\ back' = IF stuck THEN back ELSE EOF
    /\ Keeps /\ UNCHANGED <<data, pos, stuck>>

\* Departures: relative to the position, up to a buffer too far if there was
\* something to flush, and one too far if a character was put back and there
\* is no buffer.
Seek(how, off) ==
    /\ open /\ ok /\ Says("fseek", 0, <<>>)
    /\ back' = EOF /\ dirty' = FALSE
    /\ CASE how = "set" -> pos' = off
         [] how = "end" -> pos' = Len(data) + off
         [] how = "cur" /\ dirty -> pos' \in pos + off .. pos + off + BUFSIZ
         [] OTHER -> pos' = pos + off - (IF buffered THEN Len(PutBack) ELSE 0)
    /\ Keeps /\ UNCHANGED <<data, stuck>>

\* Departure: without a buffer the character put back is not counted.
Tell ==
    /\ open /\ ok
    /\ Says("ftell", pos - (IF buffered THEN Len(PutBack) ELSE 0), <<>>)
    /\ UNCHANGED stream

Clearerr ==
    /\ open /\ ok /\ Says("clearerr", 0, <<>>) /\ stuck' = FALSE
    /\ Keeps /\ UNCHANGED <<data, pos, back, dirty>>

Close ==
    /\ open /\ ok /\ Says("fclose", 0, <<>>)
    /\ open' = FALSE /\ ok' /\ dirty' = FALSE /\ UNCHANGED data

Open(fn, mode) ==
    /\ Says(fn, 1, <<>>) /\ open' /\ ok' /\ can' = mode
    /\ back' = EOF /\ stuck' = FALSE /\ dirty' = FALSE

Fopen(mode) ==
    \/ /\ ~open /\ Open("fopen", mode)
       /\ data' \in {data, <<>>} /\ pos' \in {0, Len(data')}
    \/ ~open /\ Says("fopen", 0, <<>>) /\ UNCHANGED stream

\* Departure: what was not flushed may be lost, and so may be the place of a
\* reader whose file is not opened again.
Freopen(mode) ==
    /\ open /\ Open("freopen", mode) /\ UNCHANGED buffered
    /\ dirty \/ ~ok \/ data' \in {data, <<>>}
    /\ dirty \/ ~ok \/ pos' \in {0, Len(data')} \/ (pos' >= pos /\ data' = data)

\* The program ends without exit(): what it wrote and did not flush is lost.
Killed ==
    /\ open /\ Says("killed", 0, <<>>)
    /\ open' = FALSE /\ ok' /\ dirty' = FALSE
    /\ dirty \/ ~ok \/ data' = data

\* A write that fails is reported by the call that fails; nothing is promised
\* from then on until the stream is opened again.
Fail(b) ==
    /\ open /\ open' /\ ok /\ ~ok'
    /\ \/ ret'.fn \in {"fputc", "fflush", "fclose", "fseek"} /\ ret'.n = EOF
       \/ ret'.fn = "fwrite" /\ ret'.n < Len(b)
Unpromised == open /\ ~ok /\ (open' => ~ok')

Ways == (SUBSET {"read", "write"}) \ {{}}

Init ==
    /\ open = FALSE /\ can = {} /\ buffered = TRUE
    /\ data \in Strings \cup {<<>>} /\ pos = 0 /\ back = EOF
    /\ stuck = FALSE /\ dirty = FALSE /\ ok = TRUE
    /\ ret = [fn |-> "none", n |-> 0, s |-> <<>>]

Next ==
    \/ Getc \/ Read \/ Flush \/ Tell \/ Clearerr \/ Close \/ Killed \/ Unpromised
    \/ \E len \in Lens : Gets(len)
    \/ \E c \in Chars : PutCharBack(c) \/ Write("fputc", <<c>>)
    \/ \E b \in Strings : Write("fwrite", b) \/ Fail(b)
    \/ \E how \in {"set", "cur", "end"}, off \in -Far..Far : Seek(how, off)
    \/ \E m \in Ways : Fopen(m) \/ Freopen(m)

Spec == Init /\ [][Next]_vars
=============================================================================
