------------------------------- MODULE Malloc -------------------------------
(***************************************************************************)
(* The heap of the C library: malloc(), free() and realloc() of            *)
(* src/lib/libc.  The arena is an array of ints that grows with _sbrk().   *)
(* Each block starts with a header word: its length in words, positive     *)
(* while the block is free and negative while it is allocated.  malloc()   *)
(* walks the ring of blocks from freep, coalesces free neighbours when     *)
(* nothing fits, and extends the arena when that did not help.             *)
(*                                                                         *)
(* One action is one iteration of one of malloc()'s loops, so that a walk  *)
(* that never ends is a behaviour of the model.  Addresses are word        *)
(* offsets from _arena.  The client fills every block it is given with     *)
(* Fill, a word that is not a legal header: reading the client's data as a *)
(* header, or writing a header over it, is visible.                        *)
(***************************************************************************)
EXTENDS Integers

CONSTANTS
    MaxWords,   \* words _sbrk() can hand out before it fails
    THRESHOLD,  \* requests of this many words extend the arena exactly
    OVERALLOC,  \* smaller ones extend it by this factor
    Requests    \* the byte counts the client asks for

ASSUME MallocAssumption ==
    /\ MaxWords \in Nat \ {0}
    /\ THRESHOLD \in Nat
    /\ OVERALLOC \in Nat /\ OVERALLOC >= 2
    /\ Requests \subseteq Nat

VARIABLES
    arena,      \* _arena: "null", "failed" (the (int *)-1 of a failed _sbrk) or "set"
    asize,      \* _asize
    freep,      \* freep: where the next search starts
    mem,        \* the words above _arena
    pc,         \* the loop the call in progress is in
    fn, bytes, old, size,   \* the call: function, its arguments, size in words
    tries, p, q,            \* malloc()'s and defrag()'s locals
    ret,        \* what malloc() returned
    owned,      \* the client: words it may use from a pointer, NULL if not its own
    hdrs,       \* auxiliary: where the blocks of the arena start
    merged      \* auxiliary: the headers this call's defrag() merged away

heap == <<arena, asize, freep, mem, hdrs, merged>>
call == <<fn, bytes, old, size>>
vars == <<heap, call, pc, tries, p, q, ret, owned>>

NULL == -1
Fill == 0
IntBytes == 2
Addr == 0..MaxWords

AbsInt(n) == IF n < 0 THEN -n ELSE n
Words(b) == (b + IntBytes - 1) \div IntBytes
GrowBy(s) == IF s >= THRESHOLD THEN s + 1 ELSE s * OVERALLOC

\* The sizes are computed in the 16-bit int and unsigned of the target, which
\* wrap beyond this; what the library then does is left out.
ASSUME RequestsFit == \A b \in Requests : GrowBy(Words(b)) * IntBytes <= 32767

\* The words of the block a client pointer designates.
Block(a) == a .. a + owned[a] - 1
Owned == {a \in Addr : owned[a] # NULL}

Init ==
    /\ arena = "null" /\ asize = 0 /\ freep = 0
    /\ mem = [a \in Addr |-> 0]
    /\ pc = "idle"
    /\ fn = "malloc" /\ bytes = 0 /\ old = NULL /\ size = 0
    /\ tries = 0 /\ p = 0 /\ q = 0 /\ ret = NULL
    /\ owned = [a \in Addr |-> NULL]
    /\ hdrs = {} /\ merged = {}
-----------------------------------------------------------------------------
(* malloc(), up to the first search. *)

Enter(f, b, o) ==
    /\ pc = "idle"
    /\ fn' = f /\ bytes' = b /\ old' = o /\ size' = Words(b)
    /\ tries' = 0
    /\ UNCHANGED <<q, owned, merged>>

\* The first call obtains the arena and makes it one free block.
FirstCall ==
    LET n == GrowBy(size') IN
    /\ arena = "null"
    /\ IF n > MaxWords
       THEN /\ arena' = "failed" /\ asize' = n /\ ret' = NULL /\ pc' = "return"
            /\ UNCHANGED <<freep, mem, hdrs, p>>
       ELSE /\ arena' = "set" /\ asize' = n /\ freep' = 0
            /\ mem' = [mem EXCEPT ![0] = n]
            /\ hdrs' = IF n = 0 THEN {} ELSE {0}
            /\ pc' = "search" /\ p' = 0
            /\ UNCHANGED ret

LaterCall ==
    /\ arena = "set"
    /\ pc' = "search" /\ p' = freep
    /\ UNCHANGED <<arena, asize, freep, mem, hdrs, ret>>

\* _arena kept the (int *)-1 of the failed _sbrk(): the search would start at
\* the null freep and walk memory that is not the heap's.
WildCall ==
    /\ arena = "failed"
    /\ pc' = "wild"
    /\ UNCHANGED <<arena, asize, freep, mem, hdrs, ret, p>>

CallMalloc(b) == Enter("malloc", b, NULL) /\ (FirstCall \/ LaterCall \/ WildCall)
CallRealloc(o, b) == Enter("realloc", b, o) /\ (FirstCall \/ LaterCall \/ WildCall)
-----------------------------------------------------------------------------
(* malloc()'s search: one iteration of the do-while loop. *)

\* Mutant: the remainder of a split keeps the header's word.
TakeBlockLongRest ==
    /\ pc = "search" /\ mem[p] > size
    /\ IF mem[p] = size + 1
       THEN mem' = [mem EXCEPT ![p] = -@] /\ hdrs' = hdrs
       ELSE /\ mem' = [mem EXCEPT ![p] = -(size + 1),
                                  ![p + size + 1] = mem[p] - size]
            /\ hdrs' = hdrs \cup {p + size + 1}
    /\ freep' = p
    /\ ret' = p + 1
    /\ pc' = "return"
    /\ UNCHANGED <<arena, asize, merged, call, tries, p, q, owned>>

TakeBlock ==
    /\ pc = "search" /\ mem[p] > size
    /\ IF mem[p] = size + 1
       THEN mem' = [mem EXCEPT ![p] = -@] /\ hdrs' = hdrs
       ELSE /\ mem' = [mem EXCEPT ![p] = -(size + 1),
                                  ![p + size + 1] = mem[p] - size - 1]
            /\ hdrs' = hdrs \cup {p + size + 1}
    /\ freep' = p
    /\ ret' = p + 1
    /\ pc' = "return"
    /\ UNCHANGED <<arena, asize, merged, call, tries, p, q, owned>>

\* Mutant: p is not wrapped at the end of the arena.
AfterNoWrap(a) == a + AbsInt(mem[a])

\* The next block of the ring.
After(a) == LET n == a + AbsInt(mem[a]) IN IF n = asize THEN 0 ELSE n

\* Mutant: the walk ends at the start of the arena, not at freep.
PassBlockToStart ==
    /\ pc = "search" /\ mem[p] <= size
    /\ p' = After(p)
    /\ IF After(p) >= asize \/ mem[After(p)] = 0
       THEN pc' = "aborted" /\ UNCHANGED q
       ELSE IF After(p) # 0
       THEN UNCHANGED <<pc, q>>
       ELSE IF tries = 0 THEN pc' = "defrag" /\ q' = 0
       ELSE pc' = "extend" /\ UNCHANGED q
    /\ UNCHANGED <<heap, call, tries, ret, owned>>

PassBlock ==
    /\ pc = "search" /\ mem[p] <= size
    /\ p' = After(p)
    /\ IF After(p) >= asize \/ mem[After(p)] = 0
       THEN pc' = "aborted" /\ UNCHANGED q
       ELSE IF After(p) # freep
       THEN UNCHANGED <<pc, q>>
       ELSE IF tries = 0 THEN pc' = "defrag" /\ q' = 0
       ELSE pc' = "extend" /\ UNCHANGED q
    /\ UNCHANGED <<heap, call, tries, ret, owned>>

(* defrag(): q is the outer loop's p; Measure is the inner loop, which     *)
(* finds the end of a run of free blocks.                                  *)

\* Mutant: the length of an allocated block keeps its sign.
SkipAllocated ==
    /\ pc = "defrag" /\ q < asize /\ mem[q] <= 0
    /\ q' = q + AbsInt(mem[q])
    /\ UNCHANGED <<heap, call, pc, tries, p, ret, owned>>

StartRun ==
    /\ pc = "defrag" /\ q < asize /\ mem[q] > 0
    /\ p' = q
    /\ pc' = "merge"
    /\ UNCHANGED <<heap, call, tries, q, ret, owned>>

\* Mutant: the run does not end at an allocated block.
MeasureAll ==
    /\ pc = "merge" /\ q < asize
    /\ q' = q + AbsInt(mem[q])
    /\ UNCHANGED <<heap, call, pc, tries, p, ret, owned>>

Measure ==
    /\ pc = "merge" /\ q < asize /\ mem[q] > 0
    /\ q' = q + mem[q]
    /\ UNCHANGED <<heap, call, pc, tries, p, ret, owned>>

MergeRun ==
    /\ pc = "merge" /\ ~(q < asize /\ mem[q] > 0)
    /\ mem' = [mem EXCEPT ![p] = q - p]
    /\ hdrs' = hdrs \ (p + 1 .. q - 1)
    /\ merged' = merged \cup (hdrs \cap (p + 1 .. q - 1))
    /\ pc' = "defrag"
    /\ UNCHANGED <<arena, asize, freep, call, tries, p, q, ret, owned>>

\* Mutant: the try that ended in defrag() is not counted.
EndDefragUncounted ==
    /\ pc = "defrag" /\ q >= asize
    /\ p' = freep /\ pc' = "search"
    /\ UNCHANGED <<heap, call, tries, q, ret, owned>>

EndDefrag ==
    /\ pc = "defrag" /\ q >= asize
    /\ tries' = 1 /\ p' = freep /\ pc' = "search"
    /\ UNCHANGED <<heap, call, q, ret, owned>>

(* The arena grows by one free block; the third try is the last. *)

SbrkFails ==
    /\ pc = "extend" /\ asize + GrowBy(size) > MaxWords
    /\ ret' = NULL /\ pc' = "return"
    /\ UNCHANGED <<heap, call, tries, p, q, owned>>

\* Mutant: there is no third try.
ExtendTwoTries ==
    LET n == GrowBy(size) IN
    /\ pc = "extend" /\ asize + n <= MaxWords
    /\ asize' = asize + n
    /\ mem' = [mem EXCEPT ![asize] = n]
    /\ hdrs' = IF n = 0 THEN hdrs ELSE hdrs \cup {asize}
    /\ tries' = tries + 1
    /\ IF tries = 1
       THEN ret' = NULL /\ pc' = "return" /\ UNCHANGED p
       ELSE pc' = "search" /\ p' = freep /\ UNCHANGED ret
    /\ UNCHANGED <<arena, freep, merged, call, q, owned>>

Extend ==
    LET n == GrowBy(size) IN
    /\ pc = "extend" /\ asize + n <= MaxWords
    /\ asize' = asize + n
    /\ mem' = [mem EXCEPT ![asize] = n]
    /\ hdrs' = IF n = 0 THEN hdrs ELSE hdrs \cup {asize}
    /\ tries' = tries + 1
    /\ IF tries = 2
       THEN ret' = NULL /\ pc' = "return" /\ UNCHANGED p
       ELSE pc' = "search" /\ p' = freep /\ UNCHANGED ret
    /\ UNCHANGED <<arena, freep, merged, call, q, owned>>
-----------------------------------------------------------------------------
(* Back in the caller. *)

\* The call's arguments and locals are gone when it has returned.
EndCall ==
    /\ pc' = "idle"
    /\ fn' = "malloc" /\ bytes' = 0 /\ old' = NULL /\ size' = 0
    /\ tries' = 0 /\ p' = 0 /\ q' = 0 /\ ret' = NULL
    /\ merged' = {}

\* The client uses all of the block it was given.
Filled(m, a, n) == [w \in Addr |-> IF w \in a .. a + n - 1 THEN Fill ELSE m[w]]

MallocReturns ==
    /\ pc = "return" /\ (fn = "malloc" \/ ret = NULL)
    /\ IF ret = NULL
       THEN UNCHANGED <<mem, owned>>
       ELSE /\ owned' = [owned EXCEPT ![ret] = size]
            /\ mem' = Filled(mem, ret, size)
    /\ EndCall
    /\ UNCHANGED <<arena, asize, freep, hdrs>>

\* memcpy() of the old contents, in whole words: an odd last byte shares its
\* word with a byte that is not copied and is left out.
\* Mutant: the old block's header is counted twice.
CopyWordsShort ==
    LET k == (-mem[old - 1] - 2) * IntBytes
    IN (IF bytes < k THEN bytes ELSE k) \div IntBytes

CopyWords ==
    LET k == (-mem[old - 1] - 1) * IntBytes
    IN (IF bytes < k THEN bytes ELSE k) \div IntBytes

ReallocCopies ==
    /\ pc = "return" /\ fn = "realloc" /\ ret # NULL
    /\ IF mem[old - 1] >= 0
       THEN pc' = "aborted" /\ UNCHANGED mem
       ELSE /\ mem' = [w \in Addr |-> IF w \in ret .. ret + CopyWords - 1
                                      THEN mem[w - ret + old] ELSE mem[w]]
            /\ pc' = "copied"
    /\ UNCHANGED <<arena, asize, freep, hdrs, merged, call, tries, p, q, ret, owned>>

\* The test free() makes of its argument.
BadPointer(a) == a < 0 \/ asize < a \/ mem[a - 1] >= 0

\* Mutant: the old block is not freed.
ReallocLeaks ==
    /\ pc = "copied"
    /\ owned' = [owned EXCEPT ![old] = NULL, ![ret] = size]
    /\ mem' = Filled(mem, ret, size)
    /\ EndCall
    /\ UNCHANGED <<arena, asize, freep, hdrs>>

ReallocFrees ==
    /\ pc = "copied"
    /\ IF BadPointer(old)
       THEN pc' = "aborted" /\ UNCHANGED <<mem, owned, merged, call, tries, p, q, ret>>
       ELSE /\ owned' = [owned EXCEPT ![old] = NULL, ![ret] = size]
            /\ mem' = Filled([mem EXCEPT ![old - 1] = -@], ret, size)
            /\ EndCall
    /\ UNCHANGED <<arena, asize, freep, hdrs>>

\* free() of a pointer the client holds.
Free(a) ==
    /\ pc = "idle" /\ owned[a] # NULL
    /\ IF BadPointer(a)
       THEN pc' = "aborted" /\ UNCHANGED <<mem, owned>>
       ELSE /\ mem' = [mem EXCEPT ![a - 1] = -@]
            /\ owned' = [owned EXCEPT ![a] = NULL]
            /\ UNCHANGED pc
    /\ UNCHANGED <<arena, asize, freep, hdrs, merged, call, tries, p, q, ret>>

\* abort() ends the program; after a wild search nothing is promised.
Dead == pc \in {"aborted", "wild"} /\ UNCHANGED vars

Search == TakeBlock \/ PassBlock
Defrag == SkipAllocated \/ StartRun \/ Measure \/ MergeRun \/ EndDefrag
Grow == SbrkFails \/ Extend
Return == MallocReturns \/ ReallocCopies \/ ReallocFrees
Step == Search \/ Defrag \/ Grow \/ Return

Next ==
    \/ \E b \in Requests : CallMalloc(b)
    \/ \E o \in Owned, b \in Requests : CallRealloc(o, b)
    \/ Step
    \/ \E a \in Owned : Free(a)
    \/ Dead

Spec == Init /\ [][Next]_vars
\* A call in progress keeps running; the client need not call.
FairSpec == Spec /\ WF_vars(Step)
-----------------------------------------------------------------------------
(* Properties. *)

TypeOK ==
    /\ arena \in {"null", "failed", "set"}
    /\ asize \in Nat /\ freep \in Addr
    /\ mem \in [Addr -> Int]
    /\ pc \in {"idle", "search", "defrag", "merge", "extend", "return", "copied",
               "aborted", "wild"}
    /\ fn \in {"malloc", "realloc"} /\ bytes \in Nat /\ old \in Addr \cup {NULL}
    /\ size \in Nat
    /\ tries \in 0..3 /\ p \in Addr /\ q \in Addr
    /\ ret \in Addr \cup {NULL}
    /\ owned \in [Addr -> Nat \cup {NULL}]
    /\ hdrs \subseteq Addr /\ merged \subseteq Addr

\* The blocks tile the arena: starting at _arena, each header leads to the next
\* one or to the end, and no block reaches into another.  (defrag()'s and
\* malloc()'s walks, malloc.c 22 and 65, rely on it.)
Tiling ==
    /\ arena = "set" /\ asize > 0 => 0 \in hdrs
    /\ \A h \in hdrs : mem[h] # 0 /\ h + AbsInt(mem[h]) \in hdrs \cup {asize}
    /\ \A g, h \in hdrs : g < h => g + AbsInt(mem[g]) <= h

\* A pointer that was handed out: the client's, or malloc()'s result on its way
\* to the client.
HandedOut(a) ==
    \/ owned[a] # NULL
    \/ pc \in {"return", "copied"} /\ a = ret

\* The allocated blocks are exactly those handed out and not freed, each of the
\* size asked for: no block is lost, none is handed out twice.
AllocatedIsHandedOut ==
    /\ \A h \in hdrs : mem[h] < 0 => HandedOut(h + 1)
    /\ \A a \in Owned : a - 1 \in hdrs /\ mem[a - 1] = -(owned[a] + 1)
    /\ pc \in {"return", "copied"} /\ ret # NULL =>
          ret - 1 \in hdrs /\ mem[ret - 1] = -(size + 1) /\ owned[ret] = NULL

\* Whatever malloc(), realloc() and free() do to the headers, splitting, merging
\* and growing, the client finds its blocks as it left them.
DataIntact == \A a \in Owned : \A w \in Block(a) : mem[w] = Fill

\* realloc() has copied every whole word both blocks hold before it frees the
\* old one (realloc.c 22-24).
ReallocKeeps ==
    pc = "copied" =>
        \A w \in 0 .. (bytes \div IntBytes) - 1 :
            w < owned[old] => mem[ret + w] = Fill

\* "corrupt arena" and "bad pointer" are never reported to a client that frees
\* only what it holds, except after malloc(0) as the very first call: it makes an
\* arena of no words (malloc.c 38-46).
AbortOnlyOnEmptyArena == pc = "aborted" => asize = 0

\* The arena grows only when no block fits and no two free blocks are
\* neighbours: the search went all around the ring although it starts at freep,
\* and defrag() left nothing to coalesce (malloc.c 52-73).
GrowOnlyWhenFull ==
    pc = "extend" /\ size > 0 =>
        /\ tries = 1
        /\ \A h \in hdrs : /\ mem[h] <= size
                           /\ mem[h] > 0 => mem[h + mem[h]] < 0 \/ h + mem[h] = asize

\* malloc() of at least one byte returns NULL only when _sbrk() refused: after
\* the extension the third try always finds the new block (malloc.c 49, 84-86).
NullOnlyWhenRefused ==
    pc = "return" /\ ret = NULL /\ size > 0 =>
        arena = "failed" \/ asize + GrowBy(size) > MaxWords

\* The search that cannot end: defrag() merged the block freep points to into
\* its predecessor, and no block fits, so that p runs around the ring and never
\* meets freep (malloc.c 71).
Hung ==
    /\ pc = "search" /\ tries = 1 /\ freep \notin hdrs
    /\ \A h \in hdrs : mem[h] <= size

\* The heap keeps what AbstractHeap promises its client: every pointer handed out
\* designates words no other block of the client's has.
Promise == INSTANCE AbstractHeap
KeepsPromise == Promise!Spec

\* Every call ends, by returning or by aborting, unless it runs into Hung.
CallsEnd == []<>(pc \in {"idle", "aborted", "wild"} \/ Hung)

\* Nothing malloc() does gets it out of Hung: the call never returns and never
\* asks _sbrk() for the memory that would satisfy it.
HungForever == [][Hung => Hung']_vars
=============================================================================
