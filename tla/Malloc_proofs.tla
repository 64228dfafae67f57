---------------------------- MODULE Malloc_proofs ----------------------------
(***************************************************************************)
(* Proofs about Malloc, for every size of memory, threshold, growth factor *)
(* and set of requests.  IInv is the inductive invariant: besides the      *)
(* properties themselves it says where malloc() and defrag() may be in     *)
(* their walks, and what the headers they have passed look like.           *)
(***************************************************************************)
EXTENDS Malloc, TLAPS

Walking == {"search", "defrag", "merge", "extend"}
InCall == Walking \cup {"return", "copied"}

\* The arena, and the states in which it has no block.
ArenaInv ==
    /\ arena = "null" => pc = "idle"
    /\ arena = "failed" => pc \in {"idle", "return", "wild"} /\ ret = NULL
    /\ arena # "set" => hdrs = {}
    /\ arena = "set" => asize <= MaxWords /\ pc # "wild"
    /\ \A h \in hdrs : h < asize
    /\ asize = 0 /\ arena = "set" => pc \in {"search", "aborted"} /\ tries = 0 /\ p = 0 /\ mem[0] = 0

\* The call in progress.
CallInv ==
    /\ pc = "idle" => merged = {}
    /\ pc \in InCall => size = Words(bytes)
    /\ pc \in InCall /\ fn = "realloc" => old \in Addr /\ owned[old] # NULL
    /\ pc = "copied" => fn = "realloc" /\ ret # NULL
    /\ pc = "search" => tries \in 0..2
    /\ pc = "extend" => tries \in 1..2
    /\ pc \in {"defrag", "merge"} => tries = 0

\* freep points to a block, but for the rest of a call whose defrag() merged it.
FreepInv ==
    arena = "set" /\ asize > 0 /\ pc # "aborted" =>
        freep \in hdrs \/ (freep \in merged /\ pc \in Walking \ {"extend"})

\* The headers merged away still lead forward, and none of them is large enough.
MergedInv ==
    pc \in Walking =>
        /\ merged \cap hdrs = {}
        /\ pc = "search" /\ tries = 0 => merged = {}
        /\ \A m \in merged : /\ m < asize
                             /\ mem[m] > 0 /\ mem[m] <= size
                             /\ m + mem[m] \in hdrs \cup merged \cup {asize}

\* The blocks the search has passed on its way from freep to p.
Passed(h) == IF freep <= p THEN freep <= h /\ h < p ELSE freep <= h \/ h < p

SearchInv ==
    pc = "search" /\ asize > 0 =>
        /\ p \in hdrs \cup merged
        /\ freep \notin hdrs => p \in hdrs \/ freep <= p
        /\ freep \in hdrs =>
              p \in hdrs /\ \A h \in hdrs : Passed(h) => mem[h] <= size

\* The free block h is followed by an allocated one, or by the end of the arena.
Coalesced(h) == mem[h] > 0 => h + mem[h] = asize \/ mem[h + mem[h]] < 0

DefragInv ==
    /\ pc = "defrag" =>
          /\ q \in hdrs \cup {asize}
          /\ \A h \in hdrs : IF q <= h THEN mem[h] <= size ELSE Coalesced(h)
    /\ pc = "merge" =>
          /\ q \in hdrs \cup {asize} /\ p \in hdrs /\ p <= q /\ mem[p] > 0
          /\ \A h \in hdrs : IF p <= h THEN mem[h] <= size ELSE Coalesced(h)
          /\ \A h \in hdrs : p <= h /\ h < q => mem[h] > 0

GrowInv ==
    /\ pc = "extend" => \A h \in hdrs : mem[h] <= size
    /\ pc \in {"search", "extend"} /\ tries = 1 => \A h \in hdrs : Coalesced(h)
    /\ pc \in {"search", "extend"} /\ tries = 2 /\ size > 0 => \E h \in hdrs : mem[h] > size

IInv ==
    /\ TypeOK /\ ArenaInv /\ CallInv /\ FreepInv /\ MergedInv
    /\ SearchInv /\ DefragInv /\ GrowInv
    /\ Tiling /\ AllocatedIsHandedOut /\ DataIntact /\ ReallocKeeps
    /\ NullOnlyWhenRefused /\ AbortOnlyOnEmptyArena
-----------------------------------------------------------------------------
(* Facts about the operators. *)

\* A size in words is a number, and holds every whole word of the bytes asked for.
LEMMA WordsType == ASSUME NEW b \in Nat
                   PROVE  Words(b) \in Nat /\ b \div IntBytes \in Nat /\ b \div IntBytes <= Words(b)
BY SMT DEF Words, IntBytes

\* The arena grows by a block that is large enough for the request and its header.
LEMMA GrowByType == ASSUME NEW n \in Nat
                    PROVE  GrowBy(n) \in Nat /\ (n > 0 => GrowBy(n) > n)
<1>1. CASE n >= THRESHOLD
  BY <1>1, MallocAssumption DEF GrowBy
<1>2. CASE n < THRESHOLD
  <2>1. n * OVERALLOC \in Nat /\ n * OVERALLOC >= n * 2
    BY MallocAssumption, SMT
  <2> QED
    BY <1>2, <2>1, MallocAssumption DEF GrowBy
<1> QED
  BY <1>1, <1>2, MallocAssumption

\* Addresses are the numbers up to MaxWords.
LEMMA AddrType == /\ \A x : x \in Addr <=> x \in Nat /\ x <= MaxWords
                  /\ MaxWords \in Nat
BY MallocAssumption DEF Addr

\* The length of a block from its header.
LEMMA AbsType == \A n \in Int : /\ AbsInt(n) \in Nat
                                /\ n # 0 => AbsInt(n) > 0
                                /\ n >= 0 => AbsInt(n) = n
                                /\ n <= 0 => AbsInt(n) = -n
BY DEF AbsInt

\* The blocks as Tiling, TypeOK and ArenaInv describe them.
LEMMA Headers ==
    ASSUME IInv
    PROVE  /\ asize \in Nat /\ size \in Nat /\ mem \in [Addr -> Int]
           /\ \A h \in hdrs : /\ h \in Addr /\ h \in Nat /\ h < asize
                              /\ mem[h] \in Int /\ mem[h] # 0
                              /\ AbsInt(mem[h]) \in Nat /\ AbsInt(mem[h]) > 0
                              /\ h + AbsInt(mem[h]) \in hdrs \cup {asize}
                              /\ h + AbsInt(mem[h]) <= asize
           /\ \A g, h \in hdrs : g < h => g + AbsInt(mem[g]) <= h
           /\ arena = "set" /\ asize > 0 => 0 \in hdrs
           /\ arena = "set" => asize <= MaxWords
           /\ hdrs # {} => arena = "set" /\ asize > 0
<1>1. asize \in Nat /\ size \in Nat /\ mem \in [Addr -> Int] /\ hdrs \subseteq Addr
  BY DEF IInv, TypeOK
<1>2. /\ \A h \in hdrs : h < asize
      /\ arena = "set" => asize <= MaxWords
      /\ hdrs # {} => arena = "set"
  BY DEF IInv, ArenaInv
<1>3. /\ \A h \in hdrs : mem[h] # 0 /\ h + AbsInt(mem[h]) \in hdrs \cup {asize}
      /\ \A g, h \in hdrs : g < h => g + AbsInt(mem[g]) <= h
      /\ arena = "set" /\ asize > 0 => 0 \in hdrs
  BY DEF IInv, Tiling
<1>4. \A h \in hdrs : /\ h \in Addr /\ h \in Nat /\ mem[h] \in Int
                      /\ AbsInt(mem[h]) \in Nat /\ AbsInt(mem[h]) > 0
  BY <1>1, <1>3, AddrType, AbsType
<1>5. ASSUME NEW h \in hdrs PROVE h + AbsInt(mem[h]) <= asize
  <2>1. \A g \in hdrs : g <= asize
    BY <1>1, <1>2, <1>4
  <2> QED
    BY <1>1, <1>3, <2>1
<1>6. hdrs # {} => asize > 0
  BY <1>1, <1>2, <1>4
<1> QED
  BY <1>1, <1>2, <1>3, <1>4, <1>5, <1>6

\* A block the client holds is inside the arena, apart from every other block.
LEMMA OwnedBlock ==
    ASSUME IInv, NEW a \in Owned
    PROVE  /\ a - 1 \in hdrs /\ mem[a - 1] = -(owned[a] + 1) /\ owned[a] \in Nat
           /\ a \in Addr /\ a \in Nat \ {0}
           /\ a + owned[a] <= asize
           /\ \A w \in Block(a) : w \in Addr /\ w \in Nat /\ a <= w /\ w < a + owned[a]
           /\ \A h \in hdrs : h # a - 1 => h + AbsInt(mem[h]) < a \/ h >= a + owned[a]
           /\ \A h \in hdrs : h < a \/ h >= a + owned[a]
<1>1. a \in Addr /\ a \in Nat /\ owned[a] \in Nat
  BY AddrType DEF IInv, Owned, TypeOK, NULL
<1>2. a - 1 \in hdrs /\ mem[a - 1] = -(owned[a] + 1)
  BY DEF IInv, AllocatedIsHandedOut
<1>3. a # 0 /\ AbsInt(mem[a - 1]) = owned[a] + 1 /\ arena = "set" /\ asize <= MaxWords /\ asize \in Nat
  BY <1>1, <1>2, Headers, AbsType
<1>4. a + owned[a] <= asize
  BY <1>1, <1>2, <1>3, Headers
<1>5. \A w \in Block(a) : w \in Addr /\ w \in Nat /\ a <= w /\ w < a + owned[a]
  BY <1>1, <1>3, <1>4, AddrType DEF Block
<1>6. \A h \in hdrs : h # a - 1 => h + AbsInt(mem[h]) < a \/ h >= a + owned[a]
  <2> TAKE h \in hdrs
  <2>1. h < a - 1 => h + AbsInt(mem[h]) <= a - 1
    BY <1>2, Headers
  <2>2. h > a - 1 => a - 1 + (owned[a] + 1) <= h
    BY <1>2, <1>3, Headers
  <2> QED
    BY <1>1, <2>1, <2>2, Headers
<1> QED
  BY <1>1, <1>2, <1>3, <1>4, <1>5, <1>6, Headers

\* While malloc() walks the ring, the properties of the client's blocks hold as
\* long as the heap does not change.
LEMMA WalkKeeps ==
    ASSUME IInv, pc \in Walking, pc' \in Walking,
           UNCHANGED <<arena, asize, freep, mem, hdrs, merged, fn, bytes, old, size, ret, owned>>
    PROVE  /\ Tiling' /\ AllocatedIsHandedOut' /\ DataIntact' /\ ReallocKeeps'
           /\ NullOnlyWhenRefused' /\ AbortOnlyOnEmptyArena'
<1>1. Tiling' /\ DataIntact'
  BY DEF IInv, Tiling, DataIntact, Owned, Block
<1>2. AllocatedIsHandedOut'
  BY DEF IInv, AllocatedIsHandedOut, HandedOut, Owned, Walking
<1>3. ReallocKeeps' /\ NullOnlyWhenRefused' /\ AbortOnlyOnEmptyArena'
  BY DEF ReallocKeeps, NullOnlyWhenRefused, AbortOnlyOnEmptyArena, Walking
<1> QED
  BY <1>1, <1>2, <1>3

\* The invariant holds before the first call.
LEMMA InitInv == Init => IInv
<1> SUFFICES ASSUME Init PROVE IInv
  OBVIOUS
<1>1. TypeOK
  BY MallocAssumption DEF Init, TypeOK, Addr, NULL
<1>2. ArenaInv /\ CallInv /\ FreepInv /\ MergedInv /\ SearchInv /\ DefragInv /\ GrowInv
  BY DEF Init, ArenaInv, CallInv, FreepInv, MergedInv, SearchInv, DefragInv, GrowInv, Walking, InCall
<1>3. /\ Tiling /\ AllocatedIsHandedOut /\ DataIntact /\ ReallocKeeps
      /\ NullOnlyWhenRefused /\ AbortOnlyOnEmptyArena
  BY DEF Init, Tiling, AllocatedIsHandedOut, DataIntact, ReallocKeeps, NullOnlyWhenRefused,
         AbortOnlyOnEmptyArena, Owned, NULL
<1> QED
  BY <1>1, <1>2, <1>3 DEF IInv
-----------------------------------------------------------------------------
(* The search. *)

\* What the search knows of the block it is at.
LEMMA SearchAt ==
    ASSUME IInv, pc = "search"
    PROVE  /\ arena = "set" /\ p \in Addr /\ p \in Nat /\ freep \in Nat /\ freep \in Addr
           /\ mem[p] \in Int
           /\ asize > 0 => p \in hdrs \cup merged
           /\ asize = 0 => p = 0 /\ mem[0] = 0
           /\ mem[p] > size => p \in hdrs /\ asize > 0 /\ AbsInt(mem[p]) = mem[p]
           /\ p \in merged => mem[p] <= size
           /\ \A m \in merged : /\ m \in Nat /\ m < asize
                                /\ mem[m] \in Int /\ mem[m] > 0
                                /\ AbsInt(mem[m]) = mem[m]
                                /\ m + mem[m] \in hdrs \cup merged \cup {asize}
           /\ merged \cap hdrs = {}
<1>1. /\ arena = "set" /\ p \in Addr /\ freep \in Addr /\ merged \subseteq Addr
      /\ size \in Nat /\ mem \in [Addr -> Int] /\ asize \in Nat
  BY DEF IInv, TypeOK, ArenaInv
<1>2. p \in Nat /\ freep \in Nat /\ mem[p] \in Int
  BY <1>1, AddrType
<1>3. /\ asize > 0 => p \in hdrs \cup merged
      /\ asize = 0 => p = 0 /\ mem[0] = 0
  BY <1>1 DEF IInv, SearchInv, ArenaInv
<1>4. /\ \A m \in merged : /\ m < asize /\ mem[m] > 0 /\ mem[m] <= size
                           /\ m + mem[m] \in hdrs \cup merged \cup {asize}
      /\ merged \cap hdrs = {}
  BY DEF IInv, MergedInv, Walking
<1>5. \A m \in merged : m \in Nat /\ mem[m] \in Int /\ AbsInt(mem[m]) = mem[m]
  BY <1>1, <1>4, AddrType, AbsType
<1>6. mem[p] > size => p \in hdrs /\ asize > 0 /\ AbsInt(mem[p]) = mem[p]
  BY <1>1, <1>2, <1>3, <1>4, AbsType
<1> QED
  BY <1>1, <1>2, <1>3, <1>4, <1>5, <1>6

\* Taking a block, whole or split, keeps the invariant: the remainder becomes a block
\* of its own between the one taken and the next.
LEMMA TakeBlockStep == ASSUME IInv, TakeBlock PROVE IInv'
<1> DEFINE rest == p + size + 1
<1>1. /\ p \in hdrs /\ mem[p] > size /\ mem \in [Addr -> Int] /\ size \in Nat
      /\ p + mem[p] <= asize /\ asize <= MaxWords /\ asize \in Nat /\ arena = "set" /\ asize > 0
      /\ p \in Addr /\ p \in Nat /\ mem[p] \in Int /\ p < asize
      /\ AbsInt(mem[p]) = mem[p] /\ p + mem[p] \in hdrs \cup {asize}
  BY SearchAt, Headers DEF TakeBlock
<1>2. /\ rest \in Nat /\ p < rest /\ rest <= p + mem[p] /\ p + 1 \in Addr
      /\ mem[p] # size + 1 => rest \in Addr /\ rest < asize /\ rest < p + mem[p]
      /\ mem[p] = size + 1 => rest = p + mem[p]
      /\ rest + (mem[p] - size - 1) = p + mem[p]
      /\ rest = p + (size + 1)
  BY <1>1, AddrType
<1>3. /\ mem' \in [Addr -> Int] /\ mem'[p] = -(size + 1)
      /\ \A h \in Addr : h # p /\ (h # rest \/ mem[p] = size + 1) => mem'[h] = mem[h]
      /\ mem[p] = size + 1 => hdrs' = hdrs
      /\ mem[p] # size + 1 => hdrs' = hdrs \cup {rest} /\ mem'[rest] = mem[p] - size - 1
  BY <1>1, <1>2 DEF TakeBlock
<1> HIDE DEF rest
<1>4. /\ UNCHANGED <<arena, asize, merged, fn, bytes, old, size, tries, p, q, owned>>
      /\ freep' = p /\ ret' = p + 1 /\ pc' = "return" /\ pc = "search"
  BY DEF TakeBlock, call
<1>5. \A h \in hdrs : h # p => h < p \/ h >= p + mem[p]
  BY <1>1, Headers
<1>6. /\ \A h \in hdrs : h # p => mem'[h] = mem[h]
      /\ mem[p] # size + 1 => mem'[rest] > 0
      /\ AbsInt(mem'[p]) = size + 1
      /\ mem[p] # size + 1 => AbsInt(mem'[rest]) = mem[p] - size - 1
      /\ p \in hdrs'
  <2>1. \A h \in hdrs : h # p => mem'[h] = mem[h]
    BY <1>1, <1>2, <1>3, <1>5, Headers
  <2> QED
    BY <1>1, <1>3, <2>1, AbsType
<1>7. TypeOK'
  <2>1. hdrs' \subseteq Addr
    BY <1>2, <1>3 DEF IInv, TypeOK
  <2> QED
    BY <1>1, <1>2, <1>3, <1>4, <2>1 DEF IInv, TypeOK
<1>8. ArenaInv'
  <2>1. \A h \in hdrs' : h < asize
    BY <1>2, <1>3, Headers
  <2> QED
    BY <1>1, <1>4, <2>1 DEF ArenaInv
<1>9. CallInv' /\ FreepInv' /\ MergedInv' /\ SearchInv' /\ DefragInv' /\ GrowInv'
  BY <1>4, <1>6 DEF IInv, CallInv, FreepInv, MergedInv, SearchInv, DefragInv, GrowInv, Walking, InCall
<1>10. Tiling'
  <2>1. 0 \in hdrs'
    BY <1>1, <1>3, Headers
  <2>2. ASSUME NEW h \in hdrs' PROVE mem'[h] # 0 /\ h + AbsInt(mem'[h]) \in hdrs' \cup {asize}
    <3>1. CASE h = p
      BY <1>1, <1>2, <1>3, <1>6, <3>1
    <3>2. CASE h = rest /\ mem[p] # size + 1
      BY <1>1, <1>2, <1>3, <1>6, <3>2
    <3>3. CASE h \in hdrs /\ h # p
      BY <1>3, <1>6, <3>3, Headers
    <3> QED
      BY <1>3, <3>1, <3>2, <3>3
  <2>3. ASSUME NEW g \in hdrs', NEW h \in hdrs', g < h PROVE g + AbsInt(mem'[g]) <= h
    <3>1. CASE g \in hdrs /\ h \in hdrs /\ g # p
      BY <1>6, <2>3, <3>1, Headers
    <3>2. CASE g = p
      <4>1. h \in hdrs => h >= p + mem[p]
        BY <1>1, <1>5, <2>3, <3>2, Headers
      <4>2. h >= rest
        <5>1. CASE h \in hdrs
          BY <1>1, <1>2, <4>1, <5>1, Headers
        <5>2. CASE h = rest
          BY <1>2, <5>2
        <5> QED
          BY <1>3, <5>1, <5>2
      <4> QED
        BY <1>2, <1>6, <3>2, <4>2
    <3>3. CASE g = rest /\ mem[p] # size + 1
      <4>1. h \in hdrs /\ h # p
        BY <1>1, <1>2, <1>3, <2>3, <3>3
      <4>2. h >= p + mem[p]
        BY <1>1, <1>2, <1>5, <2>3, <3>3, <4>1, Headers
      <4> QED
        BY <1>2, <1>6, <3>3, <4>2
    <3>4. CASE h = rest /\ g \in hdrs /\ g # p /\ mem[p] # size + 1
      <4>1. g < p
        BY <1>1, <1>2, <1>5, <2>3, <3>4, Headers
      <4>2. g + AbsInt(mem[g]) <= p /\ mem'[g] = mem[g]
        BY <1>1, <1>6, <3>4, <4>1, Headers
      <4> QED
        BY <1>1, <1>2, <3>4, <4>2, Headers
    <3> QED
      BY <1>3, <3>1, <3>2, <3>3, <3>4
  <2> QED
    BY <1>4, <2>1, <2>2, <2>3 DEF Tiling
<1>11. AllocatedIsHandedOut'
  <2>1. \A a \in Owned : /\ a - 1 \in hdrs /\ mem[a - 1] = -(owned[a] + 1) /\ owned[a] \in Nat
    BY OwnedBlock
  <2>2. \A a \in Owned : a - 1 # p
    BY <1>1, <2>1
  <2>3. owned[p + 1] = NULL
    BY <1>1, <1>2, <2>2 DEF Owned
  <2>4. \A h \in hdrs : mem[h] < 0 => owned[h + 1] # NULL
    BY <1>4 DEF IInv, AllocatedIsHandedOut, HandedOut
  <2>5. \A h \in hdrs' : mem'[h] < 0 => h = p \/ owned[h + 1] # NULL
    <3> SUFFICES ASSUME NEW h \in hdrs', mem'[h] < 0, h # p PROVE owned[h + 1] # NULL
      OBVIOUS
    <3>1. h \in hdrs
      BY <1>1, <1>2, <1>3
    <3> QED
      BY <1>6, <2>4, <3>1
  <2>6. \A a \in Owned : a - 1 \in hdrs' /\ mem'[a - 1] = -(owned[a] + 1)
    BY <1>3, <1>6, <2>1, <2>2
  <2> QED
    BY <1>1, <1>3, <1>4, <1>6, <2>3, <2>5, <2>6 DEF AllocatedIsHandedOut, HandedOut, Owned
<1>12. DataIntact'
  <2> SUFFICES ASSUME NEW a \in Owned, NEW w \in Block(a) PROVE mem'[w] = Fill
    BY <1>4 DEF DataIntact, Owned, Block
  <2>1. a - 1 # p
    BY <1>1, OwnedBlock
  <2>2. w \in Addr /\ w \in Nat /\ (w < p \/ w >= p + mem[p])
    BY <1>1, <2>1, OwnedBlock
  <2>3. mem[w] = Fill
    BY DEF IInv, DataIntact
  <2> QED
    BY <1>1, <1>2, <1>3, <2>2, <2>3
<1>13. ReallocKeeps' /\ NullOnlyWhenRefused' /\ AbortOnlyOnEmptyArena'
  BY <1>1, <1>4 DEF ReallocKeeps, NullOnlyWhenRefused, AbortOnlyOnEmptyArena, NULL
<1> QED
  BY <1>7, <1>8, <1>9, <1>10, <1>11, <1>12, <1>13 DEF IInv

\* The step to the next block of the ring.
LEMMA AfterType ==
    ASSUME IInv, pc = "search", asize > 0
    PROVE  /\ After(p) \in hdrs \cup merged /\ After(p) \in Nat /\ After(p) < asize
           /\ mem[After(p)] # 0
           /\ p \in hdrs => After(p) \in hdrs
           /\ \/ After(p) = 0 /\ 0 \in hdrs /\ p + AbsInt(mem[p]) = asize
              \/ After(p) > p /\ After(p) = p + AbsInt(mem[p])
<1> DEFINE e == p + AbsInt(mem[p])
<1>1. /\ p \in Nat /\ p < asize /\ AbsInt(mem[p]) \in Nat /\ AbsInt(mem[p]) > 0
      /\ e \in hdrs \cup merged \cup {asize}
      /\ p \in hdrs => e \in hdrs \cup {asize}
      /\ asize \in Nat
  <2>1. CASE p \in hdrs
    BY <2>1, Headers
  <2>2. CASE p \in merged
    BY <2>2, SearchAt, Headers
  <2> QED
    BY <2>1, <2>2, SearchAt
<1>2. e \in Nat /\ e > p
  BY <1>1
<1>3. /\ 0 \in hdrs
      /\ \A h \in hdrs \cup merged : h < asize /\ mem[h] # 0
  BY SearchAt, Headers
<1>4. CASE e = asize
  <2>1. After(p) = 0
    BY <1>4 DEF After
  <2> HIDE DEF After
  <2> QED
    BY <1>3, <1>4, <2>1
<1>5. CASE e # asize
  <2>1. After(p) = e
    BY <1>5 DEF After
  <2> HIDE DEF After, e
  <2>2. e \in hdrs \cup merged /\ (p \in hdrs => e \in hdrs)
    BY <1>1, <1>5
  <2>3. e < asize /\ mem[e] # 0
    BY <1>3, <2>2
  <2> QED
    BY <1>2, <2>1, <2>2, <2>3 DEF e
<1> QED
  BY <1>4, <1>5

\* When the walk started at a block, the blocks between freep and p have been
\* passed: nothing of size fits in them.
LEMMA SearchPasses ==
    ASSUME IInv, pc = "search", asize > 0, freep \in hdrs, mem[p] <= size
    PROVE  /\ After(p) = freep => \A h \in hdrs : mem[h] <= size
           /\ After(p) # freep =>
                 \A h \in hdrs : (IF freep <= After(p) THEN freep <= h /\ h < After(p)
                                  ELSE freep <= h \/ h < After(p)) => mem[h] <= size
<1>1. p \in hdrs /\ \A h \in hdrs : h = p \/ Passed(h) => mem[h] <= size
  BY DEF IInv, SearchInv
<1>2. /\ \A h \in hdrs : h \in Nat /\ h < asize
      /\ \A h \in hdrs : h > p => h >= p + AbsInt(mem[p])
      /\ freep \in Nat /\ p \in Nat /\ freep < asize
  BY <1>1, Headers
<1>3. CASE After(p) = 0 /\ p + AbsInt(mem[p]) = asize
  <2>1. \A h \in hdrs : h <= p
    BY <1>2, <1>3, Headers
  <2> QED
    BY <1>1, <1>2, <1>3, <2>1 DEF Passed
<1>4. CASE After(p) > p /\ After(p) = p + AbsInt(mem[p])
  <2>1. \A h \in hdrs : h <= p \/ h >= After(p)
    BY <1>2, <1>4
  <2>2. After(p) \in Nat
    BY AfterType
  <2> HIDE DEF After
  <2> QED
    BY <1>1, <1>2, <1>4, <2>1, <2>2 DEF Passed
<1> QED
  BY <1>3, <1>4, AfterType

\* Passing a block keeps it: what was passed is too small, and a walk that comes back
\* to freep has passed every block.
LEMMA PassBlockStep == ASSUME IInv, PassBlock PROVE IInv'
<1>1. UNCHANGED <<arena, asize, freep, mem, hdrs, merged, fn, bytes, old, size, tries, ret, owned>>
  BY DEF PassBlock, heap, call
<1>2. /\ pc = "search" /\ mem[p] <= size
      /\ p' = After(p)
      /\ \/ pc' = "aborted" /\ q' = q /\ (After(p) >= asize \/ mem[After(p)] = 0)
         \/ pc' = "search" /\ q' = q /\ After(p) # freep
         \/ pc' = "defrag" /\ q' = 0 /\ tries = 0 /\ After(p) = freep
         \/ pc' = "extend" /\ q' = q /\ tries # 0 /\ After(p) = freep
  BY DEF PassBlock
<1>3. CASE asize = 0
  <2>1. p = 0 /\ mem[0] = 0 /\ AbsInt(0) = 0
    BY <1>2, <1>3, SearchAt, AbsType
  <2>2. After(p) = 0 /\ mem[After(p)] = 0
    BY <1>3, <2>1 DEF After
  <2>3. pc' = "aborted" /\ p' = 0 /\ q' = q
    BY <1>3, <2>2 DEF PassBlock
  <2>4. TypeOK'
    BY <1>1, <2>3, AddrType DEF IInv, TypeOK
  <2>5. hdrs = {} /\ arena = "set" /\ tries = 0
    BY <1>2, <1>3, Headers, SearchAt DEF IInv, ArenaInv
  <2>6. ArenaInv' /\ CallInv' /\ FreepInv' /\ MergedInv' /\ SearchInv' /\ DefragInv' /\ GrowInv'
    BY <1>1, <1>2, <1>3, <2>1, <2>3, <2>5, SearchAt, Headers DEF ArenaInv, CallInv, FreepInv, MergedInv, SearchInv,
       DefragInv, GrowInv, Walking, InCall
  <2>7. Owned = {}
    BY <2>5, OwnedBlock
  <2>8. /\ Tiling' /\ AllocatedIsHandedOut' /\ DataIntact' /\ ReallocKeeps'
        /\ NullOnlyWhenRefused' /\ AbortOnlyOnEmptyArena'
    BY <1>1, <1>3, <2>3, <2>5, <2>7 DEF Tiling, AllocatedIsHandedOut, DataIntact, ReallocKeeps,
       NullOnlyWhenRefused, AbortOnlyOnEmptyArena, Owned
  <2> QED
    BY <2>4, <2>6, <2>8 DEF IInv
<1>4. CASE asize > 0
  <2>1. /\ After(p) \in hdrs \cup merged /\ After(p) \in Nat /\ After(p) < asize
        /\ mem[After(p)] # 0 /\ (p \in hdrs => After(p) \in hdrs)
    BY <1>2, <1>4, AfterType
  <2>2. pc' # "aborted" /\ pc' \in Walking /\ arena = "set"
    BY <1>2, <2>1, SearchAt, Headers DEF Walking
  <2>3. /\ freep \in hdrs \cup merged
        /\ freep \in hdrs => p \in hdrs
    BY <1>2, <1>4, <2>2 DEF IInv, SearchInv, FreepInv
  <2>4. freep \notin hdrs => After(p) # freep /\ (After(p) \in hdrs \/ freep <= After(p))
    <3> SUFFICES ASSUME freep \notin hdrs PROVE After(p) # freep /\ (After(p) \in hdrs \/ freep <= After(p))
      OBVIOUS
    <3>1. p \in hdrs \/ freep <= p
      BY <1>2, <1>4 DEF IInv, SearchInv
    <3>2. freep \in Nat /\ p \in Nat
      BY <1>2, SearchAt
    <3> QED
      BY <1>2, <1>4, <2>1, <3>1, <3>2, AfterType
  <2>5. After(p) = freep => \A h \in hdrs : mem[h] <= size
    BY <1>2, <1>4, <2>4, SearchPasses
  <2>6. TypeOK'
    BY <1>1, <1>2, <2>1, AddrType, Headers, SearchAt DEF IInv, TypeOK
  <2>7. ArenaInv'
    BY <1>1, <1>2, <1>4, <2>2 DEF IInv, ArenaInv
  <2>8. CallInv'
    BY <1>1, <1>2, <2>2 DEF IInv, CallInv, InCall, Walking
  <2>9. FreepInv'
    BY <1>1, <1>2, <2>2, <2>3, <2>4 DEF FreepInv, Walking
  <2>10. MergedInv'
    BY <1>1, <1>2 DEF IInv, MergedInv, Walking
  <2>11. SearchInv'
    BY <1>1, <1>2, <1>4, <2>1, <2>3, <2>4, SearchPasses DEF SearchInv, Passed
  <2>12. DefragInv'
    <3> SUFFICES ASSUME pc' = "defrag" PROVE DefragInv'
      BY <1>2 DEF DefragInv
    <3> QED
      BY <1>1, <1>2, <1>4, <2>2, <2>5, Headers DEF DefragInv
  <2>13. GrowInv'
    BY <1>1, <1>2, <2>5 DEF IInv, GrowInv, Coalesced
  <2>14. /\ Tiling' /\ AllocatedIsHandedOut' /\ DataIntact' /\ ReallocKeeps'
         /\ NullOnlyWhenRefused' /\ AbortOnlyOnEmptyArena'
    BY <1>1, <1>2, <2>2, WalkKeeps DEF Walking
  <2> QED
    BY <2>6, <2>7, <2>8, <2>9, <2>10, <2>11, <2>12, <2>13, <2>14 DEF IInv
<1> QED
  BY <1>3, <1>4, Headers
-----------------------------------------------------------------------------
(* defrag(). *)

\* defrag() skips an allocated block.
LEMMA SkipAllocatedStep == ASSUME IInv, SkipAllocated PROVE IInv'
<1>1. /\ UNCHANGED <<arena, asize, freep, mem, hdrs, merged, fn, bytes, old, size, tries, p, ret, owned>>
      /\ pc = "defrag" /\ pc' = "defrag" /\ q < asize /\ mem[q] <= 0 /\ q' = q + AbsInt(mem[q])
  BY DEF SkipAllocated, heap, call
<1>2. q \in hdrs /\ arena = "set"
  BY <1>1 DEF IInv, DefragInv, ArenaInv, TypeOK
<1>3. q' \in hdrs \cup {asize} /\ q' \in Addr /\ q \in Nat /\ q' \in Nat /\ q' > q
  BY <1>1, <1>2, Headers, AddrType
<1>4. TypeOK' /\ ArenaInv' /\ CallInv' /\ FreepInv' /\ MergedInv' /\ SearchInv' /\ GrowInv'
  BY <1>1, <1>3 DEF IInv, TypeOK, ArenaInv, CallInv, FreepInv, MergedInv, SearchInv, GrowInv, Walking, InCall
<1>5. DefragInv'
  <2> SUFFICES ASSUME NEW h \in hdrs PROVE IF q' <= h THEN mem[h] <= size ELSE Coalesced(h)
    BY <1>1, <1>3 DEF DefragInv, Coalesced
  <2>1. h > q => h >= q'
    BY <1>1, <1>2, Headers
  <2>2. Coalesced(q)
    BY <1>1, <1>2, Headers DEF Coalesced
  <2>3. IF q <= h THEN mem[h] <= size ELSE Coalesced(h)
    BY <1>1 DEF IInv, DefragInv
  <2> QED
    BY <1>3, <2>1, <2>2, <2>3, Headers
<1>6. /\ Tiling' /\ AllocatedIsHandedOut' /\ DataIntact' /\ ReallocKeeps'
      /\ NullOnlyWhenRefused' /\ AbortOnlyOnEmptyArena'
  BY <1>1, WalkKeeps DEF Walking
<1> QED
  BY <1>4, <1>5, <1>6 DEF IInv

\* defrag() starts to measure a run of free blocks.
LEMMA StartRunStep == ASSUME IInv, StartRun PROVE IInv'
<1>1. /\ UNCHANGED <<arena, asize, freep, mem, hdrs, merged, fn, bytes, old, size, tries, q, ret, owned>>
      /\ pc = "defrag" /\ pc' = "merge" /\ q < asize /\ mem[q] > 0 /\ p' = q
  BY DEF StartRun, heap, call
<1>2. q \in hdrs /\ arena = "set" /\ q \in Addr /\ q \in Nat
  BY <1>1, AddrType DEF IInv, DefragInv, ArenaInv, TypeOK
<1>3. TypeOK' /\ ArenaInv' /\ CallInv' /\ FreepInv' /\ MergedInv' /\ SearchInv' /\ GrowInv'
  BY <1>1, <1>2 DEF IInv, TypeOK, ArenaInv, CallInv, FreepInv, MergedInv, SearchInv, GrowInv, Walking, InCall
<1>4. DefragInv'
  <2>1. \A h \in hdrs : IF q <= h THEN mem[h] <= size ELSE Coalesced(h)
    BY <1>1 DEF IInv, DefragInv
  <2>2. \A h \in hdrs : ~(q <= h /\ h < q)
    BY <1>2, Headers
  <2>3. mem[p'] > 0 /\ q' = p' /\ p' = q /\ q <= q
    BY <1>1, <1>2
  <2>4. \A h \in hdrs : IF p' <= h THEN mem[h] <= size ELSE Coalesced(h)'
    BY <1>1, <2>1 DEF Coalesced
  <2>5. \A h \in hdrs : ~(p' <= h /\ h < q')
    BY <2>2, <2>3
  <2> QED
    BY <1>1, <1>2, <2>3, <2>4, <2>5 DEF DefragInv
<1>5. /\ Tiling' /\ AllocatedIsHandedOut' /\ DataIntact' /\ ReallocKeeps'
      /\ NullOnlyWhenRefused' /\ AbortOnlyOnEmptyArena'
  BY <1>1, WalkKeeps DEF Walking
<1> QED
  BY <1>3, <1>4, <1>5 DEF IInv

\* The run goes on over one more free block.
LEMMA MeasureStep == ASSUME IInv, Measure PROVE IInv'
<1>1. /\ UNCHANGED <<arena, asize, freep, mem, hdrs, merged, fn, bytes, old, size, tries, p, ret, owned>>
      /\ pc = "merge" /\ pc' = "merge" /\ q < asize /\ mem[q] > 0 /\ q' = q + mem[q]
  BY DEF Measure, heap, call
<1>2. q \in hdrs /\ arena = "set" /\ p \in hdrs /\ p <= q /\ mem[p] > 0
  BY <1>1 DEF IInv, DefragInv, ArenaInv, TypeOK
<1>3. /\ q' \in hdrs \cup {asize} /\ q' \in Addr /\ q \in Nat /\ q' \in Nat /\ q' > q
      /\ q' = q + AbsInt(mem[q])
  BY <1>1, <1>2, Headers, AddrType, AbsType
<1>4. TypeOK' /\ ArenaInv' /\ CallInv' /\ FreepInv' /\ MergedInv' /\ SearchInv' /\ GrowInv'
  BY <1>1, <1>3 DEF IInv, TypeOK, ArenaInv, CallInv, FreepInv, MergedInv, SearchInv, GrowInv, Walking, InCall
<1>5. DefragInv'
  <2>1. \A h \in hdrs : h > q => h >= q'
    BY <1>2, <1>3, Headers
  <2>2. \A h \in hdrs : p <= h /\ h < q' => mem[h] > 0
    BY <1>1, <1>2, <1>3, <2>1, Headers DEF IInv, DefragInv
  <2>3. p <= q'
    BY <1>2, <1>3, Headers
  <2>4. \A h \in hdrs : IF p <= h THEN mem[h] <= size ELSE Coalesced(h)
    BY <1>1 DEF IInv, DefragInv
  <2> QED
    BY <1>1, <1>2, <1>3, <2>2, <2>3, <2>4 DEF DefragInv, Coalesced
<1>6. /\ Tiling' /\ AllocatedIsHandedOut' /\ DataIntact' /\ ReallocKeeps'
      /\ NullOnlyWhenRefused' /\ AbortOnlyOnEmptyArena'
  BY <1>1, WalkKeeps DEF Walking
<1> QED
  BY <1>4, <1>5, <1>6 DEF IInv

\* The run becomes one block; the headers inside it are no blocks any more, but lead
\* the search out of the run if it starts at one of them.
LEMMA MergeRunStep == ASSUME IInv, MergeRun PROVE IInv'
<1>1. /\ UNCHANGED <<arena, asize, freep, fn, bytes, old, size, tries, p, q, ret, owned>>
      /\ pc = "merge" /\ pc' = "defrag" /\ ~(q < asize /\ mem[q] > 0)
      /\ mem' = [mem EXCEPT ![p] = q - p]
      /\ hdrs' = hdrs \ (p + 1 .. q - 1)
      /\ merged' = merged \cup (hdrs \cap (p + 1 .. q - 1))
  BY DEF MergeRun, call
<1>2. /\ q \in hdrs \cup {asize} /\ p \in hdrs /\ p <= q /\ mem[p] > 0 /\ tries = 0 /\ arena = "set"
      /\ \A h \in hdrs : IF p <= h THEN mem[h] <= size ELSE Coalesced(h)
      /\ \A h \in hdrs : p <= h /\ h < q => mem[h] > 0
  BY <1>1 DEF IInv, DefragInv, CallInv, ArenaInv
<1>3. /\ p \in Nat /\ p \in Addr /\ q \in Nat /\ p < asize /\ asize \in Nat /\ asize > 0 /\ q <= asize
      /\ mem \in [Addr -> Int] /\ p < q
  <2>1. /\ p \in Nat /\ p \in Addr /\ q \in Nat /\ p < asize /\ asize \in Nat /\ asize > 0 /\ q <= asize
        /\ mem \in [Addr -> Int]
    BY <1>2, Headers
  <2>2. p # q
    BY <1>1, <1>2, <2>1
  <2> QED
    BY <1>2, <2>1, <2>2
<1>4. /\ \A h \in hdrs' : h \in hdrs /\ h \in Addr /\ h \in Nat /\ h < asize /\ (h <= p \/ h >= q)
      /\ \A h \in hdrs : h <= p \/ h >= q => h \in hdrs'
      /\ \A h \in hdrs : h > p /\ h < q => h \in merged'
      /\ \A h \in merged' : h \in merged \/ (h \in hdrs /\ h > p /\ h < q)
      /\ merged \subseteq merged'
  <2>1. \A h \in Nat : h \in p + 1 .. q - 1 <=> h > p /\ h < q
    BY <1>3
  <2>2. \A h \in hdrs : h \in Addr /\ h \in Nat /\ h < asize
    BY Headers
  <2> QED
    BY <1>1, <1>3, <2>1, <2>2
<1>5. /\ mem' \in [Addr -> Int] /\ mem'[p] = q - p /\ AbsInt(mem'[p]) = q - p /\ mem'[p] > 0
      /\ \A h \in Addr : h # p => mem'[h] = mem[h]
      /\ \A h \in hdrs : h # p => mem'[h] = mem[h]
  <2>1. /\ mem' \in [Addr -> Int] /\ mem'[p] = q - p
        /\ \A h \in Addr : h # p => mem'[h] = mem[h]
    BY <1>1, <1>3
  <2> QED
    BY <1>3, <2>1, Headers, AbsType
<1>6. p \in hdrs' /\ q \in hdrs' \cup {asize} /\ 0 \in hdrs'
  BY <1>2, <1>3, <1>4, Headers
<1>7. TypeOK'
  <2>1. merged' \subseteq Addr
    BY <1>1, Headers DEF IInv, TypeOK
  <2> QED
    BY <1>1, <1>4, <1>5, <2>1 DEF IInv, TypeOK
<1>8. ArenaInv' /\ CallInv' /\ SearchInv' /\ GrowInv'
  BY <1>1, <1>2, <1>3, <1>4 DEF IInv, ArenaInv, CallInv, SearchInv, GrowInv, Walking, InCall
<1>9. FreepInv'
  <2>1. freep \in hdrs \cup merged
    BY <1>1, <1>2, <1>3 DEF IInv, FreepInv
  <2>2. freep \in hdrs => freep \in hdrs' \cup merged'
    BY <1>3, <1>4, Headers
  <2> QED
    BY <1>1, <1>4, <2>1, <2>2 DEF FreepInv, Walking
<1>10. MergedInv'
  <2>1. /\ merged \cap hdrs = {}
        /\ \A m \in merged : m < asize /\ mem[m] > 0 /\ mem[m] <= size /\ m + mem[m] \in hdrs \cup merged \cup {asize}
        /\ \A m \in merged : m \in Addr
    BY <1>1 DEF IInv, MergedInv, Walking, TypeOK
  <2>2. merged' \cap hdrs' = {}
    <3> SUFFICES ASSUME NEW h \in merged', h \in hdrs' PROVE FALSE
      OBVIOUS
    <3> QED
      BY <1>3, <1>4, <2>1
  <2>3. hdrs \cup merged \subseteq hdrs' \cup merged'
    BY <1>3, <1>4, Headers
  <2>4. ASSUME NEW m \in merged'
        PROVE  m < asize /\ mem'[m] > 0 /\ mem'[m] <= size /\ m + mem'[m] \in hdrs' \cup merged' \cup {asize}
    <3>1. CASE m \in merged
      <4>1. mem'[m] = mem[m]
        BY <1>2, <1>5, <2>1, <3>1
      <4> QED
        BY <2>1, <2>3, <3>1, <4>1
    <3>2. CASE m \in hdrs /\ m > p /\ m < q
      <4>1. mem'[m] = mem[m] /\ m < asize /\ mem[m] > 0 /\ mem[m] <= size
        BY <1>2, <1>3, <1>5, <3>2, Headers
      <4>2. m + mem[m] \in hdrs \cup {asize}
        BY <3>2, <4>1, Headers, AbsType
      <4> QED
        BY <2>3, <4>1, <4>2
    <3> QED
      BY <1>4, <3>1, <3>2
  <2> QED
    BY <1>1, <2>2, <2>4 DEF MergedInv
<1>11. DefragInv'
  <2>1. ASSUME NEW h \in hdrs', q <= h PROVE mem'[h] <= size
    BY <1>2, <1>3, <1>4, <1>5, <2>1
  <2>2. ASSUME NEW h \in hdrs', ~(q <= h), mem'[h] > 0
        PROVE  h + mem'[h] = asize \/ mem'[h + mem'[h]] < 0
    <3>1. CASE h = p
      <4>1. h + mem'[h] = q
        BY <1>3, <1>5, <3>1
      <4>2. q \in hdrs => mem[q] < 0 /\ mem'[q] = mem[q]
        BY <1>1, <1>3, <1>5, Headers
      <4> QED
        BY <1>2, <4>1, <4>2
    <3>2. CASE h # p
      <4>1. h \in hdrs /\ h < p /\ mem'[h] = mem[h]
        BY <1>3, <1>4, <1>5, <2>2, <3>2
      <4>2. h + mem[h] = asize \/ mem[h + mem[h]] < 0
        BY <1>2, <1>3, <2>2, <4>1, Headers DEF Coalesced
      <4>3. h + mem[h] \in hdrs \cup {asize}
        BY <2>2, <4>1, Headers, AbsType
      <4>4. \A e \in hdrs : mem[e] < 0 => mem'[e] < 0
        <5> SUFFICES ASSUME NEW e \in hdrs, mem[e] < 0 PROVE mem'[e] < 0
          OBVIOUS
        <5>1. e # p
          BY <1>2, Headers
        <5> QED
          BY <1>5, <5>1
      <4> QED
        BY <4>1, <4>2, <4>3, <4>4
    <3> QED
      BY <3>1, <3>2
  <2> QED
    BY <1>1, <1>6, <2>1, <2>2 DEF DefragInv, Coalesced
<1>12. Tiling'
  <2>1. ASSUME NEW h \in hdrs' PROVE mem'[h] # 0 /\ h + AbsInt(mem'[h]) \in hdrs' \cup {asize}
    <3>1. CASE h = p
      BY <1>3, <1>5, <1>6, <3>1
    <3>2. CASE h # p
      <4>1. h \in hdrs /\ mem'[h] = mem[h] /\ h \in Nat
        BY <1>4, <1>5, <3>2
      <4>2. h < p => h + AbsInt(mem[h]) <= p
        BY <1>2, <4>1, Headers
      <4>3. h > p => h + AbsInt(mem[h]) >= q
        BY <1>3, <1>4, <4>1, Headers
      <4>4. h + AbsInt(mem[h]) \in hdrs \cup {asize} /\ h + AbsInt(mem[h]) \in Nat /\ mem[h] # 0
        BY <4>1, Headers
      <4> QED
        BY <1>3, <1>4, <3>2, <4>1, <4>2, <4>3, <4>4
    <3> QED
      BY <3>1, <3>2
  <2>2. ASSUME NEW g \in hdrs', NEW h \in hdrs', g < h PROVE g + AbsInt(mem'[g]) <= h
    <3>1. CASE g = p
      BY <1>3, <1>4, <1>5, <2>2, <3>1
    <3>2. CASE g # p
      BY <1>4, <1>5, <2>2, <3>2, Headers
    <3> QED
      BY <3>1, <3>2
  <2> QED
    BY <1>1, <1>6, <2>1, <2>2 DEF Tiling
<1>13. AllocatedIsHandedOut'
  <2>1. \A h \in hdrs' : mem'[h] < 0 => owned[h + 1] # NULL
    <3>1. \A h \in hdrs : mem[h] < 0 => owned[h + 1] # NULL
      BY <1>1 DEF IInv, AllocatedIsHandedOut, HandedOut
    <3> QED
      BY <1>4, <1>5, <3>1
  <2>2. ASSUME NEW a \in Owned PROVE a - 1 \in hdrs' /\ mem'[a - 1] = -(owned[a] + 1)
    <3>1. a - 1 \in hdrs /\ mem[a - 1] = -(owned[a] + 1) /\ owned[a] \in Nat
      BY OwnedBlock
    <3>2. ~(mem[a - 1] > 0) /\ a - 1 \in Nat
      BY <3>1, Headers
    <3>3. a - 1 <= p \/ a - 1 >= q
      BY <1>2, <1>3, <3>1, <3>2
    <3> QED
      BY <1>2, <1>4, <1>5, <3>1, <3>2, <3>3
  <2> QED
    BY <1>1, <2>1, <2>2 DEF AllocatedIsHandedOut, HandedOut, Owned
<1>14. DataIntact'
  <2> SUFFICES ASSUME NEW a \in Owned, NEW w \in Block(a) PROVE mem'[w] = Fill
    BY <1>1 DEF DataIntact, Owned, Block
  <2>1. w \in Addr /\ w # p /\ mem[w] = Fill
    BY <1>2, <1>3, OwnedBlock DEF IInv, DataIntact
  <2> QED
    BY <1>5, <2>1
<1>15. ReallocKeeps' /\ NullOnlyWhenRefused' /\ AbortOnlyOnEmptyArena'
  BY <1>1 DEF ReallocKeeps, NullOnlyWhenRefused, AbortOnlyOnEmptyArena
<1> QED
  BY <1>7, <1>8, <1>9, <1>10, <1>11, <1>12, <1>13, <1>14, <1>15 DEF IInv

\* defrag() is done: no two free blocks are neighbours.
LEMMA EndDefragStep == ASSUME IInv, EndDefrag PROVE IInv'
<1>1. /\ UNCHANGED <<arena, asize, freep, mem, hdrs, merged, fn, bytes, old, size, q, ret, owned>>
      /\ pc = "defrag" /\ pc' = "search" /\ q >= asize /\ tries' = 1 /\ p' = freep
  BY DEF EndDefrag, heap, call
<1>2. arena = "set" /\ asize \in Nat /\ freep \in Nat /\ freep \in Addr /\ q \in Nat
  BY <1>1, AddrType DEF IInv, ArenaInv, TypeOK
<1>3. asize > 0
  BY <1>1, <1>2 DEF IInv, ArenaInv
<1>4. freep \in hdrs \cup merged
  BY <1>1, <1>2, <1>3 DEF IInv, FreepInv
<1>5. TypeOK' /\ ArenaInv' /\ CallInv' /\ FreepInv' /\ MergedInv' /\ DefragInv'
  BY <1>1, <1>2, <1>3, <1>4 DEF IInv, TypeOK, ArenaInv, CallInv, FreepInv, MergedInv, DefragInv, Walking, InCall
<1>6. SearchInv'
  BY <1>1, <1>2, <1>4, Headers DEF SearchInv, Passed
<1>7. GrowInv'
  <2>1. \A h \in hdrs : Coalesced(h)
    BY <1>1, <1>2, Headers DEF IInv, DefragInv
  <2> QED
    BY <1>1, <2>1 DEF GrowInv, Coalesced
<1>8. /\ Tiling' /\ AllocatedIsHandedOut' /\ DataIntact' /\ ReallocKeeps'
      /\ NullOnlyWhenRefused' /\ AbortOnlyOnEmptyArena'
  BY <1>1, WalkKeeps DEF Walking
<1> QED
  BY <1>5, <1>6, <1>7, <1>8 DEF IInv
-----------------------------------------------------------------------------
(* Growing. *)

\* malloc() gives up when _sbrk() does.
LEMMA SbrkFailsStep == ASSUME IInv, SbrkFails PROVE IInv'
<1>1. /\ UNCHANGED <<arena, asize, freep, mem, hdrs, merged, fn, bytes, old, size, tries, p, q, owned>>
      /\ pc = "extend" /\ pc' = "return" /\ ret' = NULL /\ asize + GrowBy(size) > MaxWords
  BY DEF SbrkFails, heap, call
<1>2. arena = "set"
  BY <1>1 DEF IInv, ArenaInv, TypeOK
<1>3. TypeOK' /\ ArenaInv' /\ CallInv' /\ FreepInv' /\ MergedInv' /\ SearchInv' /\ DefragInv' /\ GrowInv'
  BY <1>1, <1>2 DEF IInv, TypeOK, ArenaInv, CallInv, FreepInv, MergedInv, SearchInv, DefragInv, GrowInv, Walking, InCall
<1>4. Tiling' /\ DataIntact'
  BY <1>1 DEF IInv, Tiling, DataIntact, Owned, Block
<1>5. AllocatedIsHandedOut'
  BY <1>1 DEF IInv, AllocatedIsHandedOut, HandedOut, Owned
<1>6. ReallocKeeps' /\ NullOnlyWhenRefused' /\ AbortOnlyOnEmptyArena'
  BY <1>1 DEF ReallocKeeps, NullOnlyWhenRefused, AbortOnlyOnEmptyArena, GrowBy
<1> QED
  BY <1>3, <1>4, <1>5, <1>6 DEF IInv

\* The new block fits the request, and the search that follows finds it.
LEMMA ExtendStep == ASSUME IInv, Extend PROVE IInv'
<1> DEFINE n == GrowBy(size)
<1>1. /\ UNCHANGED <<arena, freep, merged, fn, bytes, old, size, q, owned>>
      /\ pc = "extend" /\ asize + n <= MaxWords
      /\ asize' = asize + n /\ mem' = [mem EXCEPT ![asize] = n]
      /\ hdrs' = IF n = 0 THEN hdrs ELSE hdrs \cup {asize}
      /\ tries' = tries + 1
      /\ \/ tries = 2 /\ ret' = NULL /\ pc' = "return" /\ p' = p
         \/ tries # 2 /\ ret' = ret /\ pc' = "search" /\ p' = freep
  BY DEF Extend, call
<1>2. /\ arena = "set" /\ asize \in Nat /\ size \in Nat /\ tries \in 1..2
      /\ mem \in [Addr -> Int] /\ freep \in Addr /\ freep \in Nat
  BY <1>1, AddrType DEF IInv, ArenaInv, TypeOK, CallInv
<1>3. n \in Nat /\ (size > 0 => n > size)
  BY <1>2, GrowByType
<1> HIDE DEF n
<1>4. asize > 0 /\ asize \in Addr /\ freep \in hdrs /\ 0 \in hdrs
  BY <1>1, <1>2, <1>3, AddrType, Headers DEF IInv, ArenaInv, FreepInv
<1>5. /\ mem' \in [Addr -> Int] /\ mem'[asize] = n /\ AbsInt(n) = n
      /\ \A h \in Addr : h # asize => mem'[h] = mem[h]
      /\ \A h \in hdrs : mem'[h] = mem[h]
  <2>1. /\ mem' \in [Addr -> Int] /\ mem'[asize] = n
        /\ \A h \in Addr : h # asize => mem'[h] = mem[h]
    BY <1>1, <1>2, <1>3, <1>4
  <2> QED
    BY <1>2, <1>3, <2>1, Headers, AbsType
<1>6. /\ hdrs \subseteq hdrs'
      /\ \A h \in hdrs' : h \in hdrs \/ (h = asize /\ n > 0)
      /\ asize \in hdrs' \/ asize' = asize
      /\ n > 0 => asize \in hdrs'
  BY <1>1, <1>2, <1>3
<1>7. TypeOK'
  <2>1. hdrs' \subseteq Addr
    BY <1>4, <1>6, Headers
  <2> QED
    BY <1>1, <1>2, <1>3, <1>5, <2>1 DEF IInv, TypeOK
<1>8. ArenaInv' /\ CallInv' /\ FreepInv' /\ DefragInv'
  <2>1. \A h \in hdrs' : h < asize'
    BY <1>1, <1>2, <1>3, <1>6, Headers
  <2> QED
    BY <1>1, <1>2, <1>3, <1>4, <1>6, <2>1 DEF IInv, ArenaInv, CallInv, FreepInv, DefragInv, Walking, InCall
<1>9. MergedInv'
  <2>1. /\ merged \cap hdrs = {}
        /\ \A m \in merged : m < asize /\ mem[m] > 0 /\ mem[m] <= size /\ m + mem[m] \in hdrs \cup merged \cup {asize}
        /\ \A m \in merged : m \in Addr /\ m \in Nat
    BY <1>1, AddrType DEF IInv, MergedInv, Walking, TypeOK
  <2>2. \A m \in merged : mem'[m] = mem[m] /\ m < asize' /\ m # asize
    BY <1>1, <1>2, <1>3, <1>5, <2>1
  <2>3. merged' \cap hdrs' = {}
    BY <1>1, <1>6, <2>1, <2>2
  <2>4. hdrs \cup merged \cup {asize} \subseteq hdrs' \cup merged \cup {asize'}
    BY <1>6
  <2>5. \A m \in merged : mem'[m] > 0 /\ mem'[m] <= size /\ m + mem'[m] \in hdrs' \cup merged \cup {asize'}
    BY <2>1, <2>2, <2>4
  <2> QED
    BY <1>1, <1>2, <2>2, <2>3, <2>5 DEF MergedInv, Walking
<1>10. SearchInv'
  <2>1. \A h \in hdrs' : h \in Nat
    BY <1>2, <1>6, Headers
  <2> QED
    BY <1>1, <1>2, <1>4, <1>6, <2>1 DEF SearchInv, Passed
<1>11. GrowInv'
  <2>1. size > 0 => asize \in hdrs' /\ mem'[asize] > size
    BY <1>2, <1>3, <1>5, <1>6
  <2> QED
    BY <1>1, <1>2, <2>1 DEF GrowInv
<1>12. Tiling'
  <2>1. ASSUME NEW h \in hdrs' PROVE mem'[h] # 0 /\ h + AbsInt(mem'[h]) \in hdrs' \cup {asize'}
    <3>1. CASE h \in hdrs
      BY <1>5, <1>6, <3>1, Headers
    <3>2. CASE h = asize /\ n > 0
      BY <1>1, <1>3, <1>5, <3>2
    <3> QED
      BY <1>6, <3>1, <3>2
  <2>2. ASSUME NEW g \in hdrs', NEW h \in hdrs', g < h PROVE g + AbsInt(mem'[g]) <= h
    <3>1. g \in hdrs
      BY <1>2, <1>6, <2>2, Headers
    <3>2. CASE h \in hdrs
      BY <1>5, <2>2, <3>1, <3>2, Headers
    <3>3. CASE h = asize
      BY <1>5, <3>1, <3>3, Headers
    <3> QED
      BY <1>6, <3>2, <3>3
  <2> QED
    BY <1>4, <1>6, <2>1, <2>2 DEF Tiling
<1>13. AllocatedIsHandedOut'
  <2>1. \A h \in hdrs : mem[h] < 0 => owned[h + 1] # NULL
    BY <1>1 DEF IInv, AllocatedIsHandedOut, HandedOut
  <2>2. \A h \in hdrs' : mem'[h] < 0 => owned[h + 1] # NULL
    BY <1>3, <1>5, <1>6, <2>1
  <2>3. \A a \in Owned : a - 1 \in hdrs /\ mem[a - 1] = -(owned[a] + 1)
    BY OwnedBlock
  <2>4. \A a \in Owned : a - 1 \in hdrs' /\ mem'[a - 1] = -(owned[a] + 1)
    BY <1>5, <1>6, <2>3
  <2> QED
    BY <1>1, <2>2, <2>4 DEF AllocatedIsHandedOut, HandedOut, Owned
<1>14. DataIntact'
  <2> SUFFICES ASSUME NEW a \in Owned, NEW w \in Block(a) PROVE mem'[w] = Fill
    BY <1>1 DEF DataIntact, Owned, Block
  <2>1. w \in Addr /\ w # asize /\ mem[w] = Fill
    BY <1>2, OwnedBlock DEF IInv, DataIntact
  <2> QED
    BY <1>5, <2>1
<1>15. NullOnlyWhenRefused'
  <2>1. tries = 2 => size = 0
    <3>1. \A h \in hdrs : mem[h] <= size
      BY <1>1 DEF IInv, GrowInv
    <3>2. tries = 2 /\ size > 0 => \E h \in hdrs : mem[h] > size
      BY <1>1 DEF IInv, GrowInv
    <3> QED
      BY <1>2, <3>1, <3>2, Headers
  <2> QED
    BY <1>1, <2>1 DEF NullOnlyWhenRefused
<1>16. ReallocKeeps' /\ AbortOnlyOnEmptyArena'
  BY <1>1 DEF ReallocKeeps, AbortOnlyOnEmptyArena
<1> QED
  BY <1>7, <1>8, <1>9, <1>10, <1>11, <1>12, <1>13, <1>14, <1>15, <1>16 DEF IInv

-----------------------------------------------------------------------------
(* The calls. *)

\* A call starts: the first one makes the arena one block.
LEMMA EnterStep ==
    ASSUME IInv, NEW f \in {"malloc", "realloc"}, NEW b \in Nat, NEW o \in Addr \cup {NULL},
           f = "realloc" => o \in Owned,
           Enter(f, b, o), FirstCall \/ LaterCall \/ WildCall
    PROVE  IInv'
<1>1. /\ pc = "idle" /\ fn' = f /\ bytes' = b /\ old' = o /\ size' = Words(b) /\ tries' = 0
      /\ q' = q /\ owned' = owned /\ merged' = merged /\ merged = {}
  BY DEF Enter, IInv, CallInv
<1>2. /\ size' \in Nat /\ asize \in Nat /\ mem \in [Addr -> Int] /\ 0 \in Addr /\ MaxWords \in Nat
      /\ GrowBy(size') \in Nat
  BY <1>1, WordsType, GrowByType, AddrType, Headers
<1>3. ReallocKeeps' /\ CallInv' /\ DefragInv' /\ AbortOnlyOnEmptyArena'
  <2>1. pc' \in {"search", "return", "wild"} /\ (pc' = "wild" => arena = "failed")
    BY DEF FirstCall, LaterCall, WildCall
  <2>2. f = "realloc" => o \in Addr /\ owned[o] # NULL
    BY DEF Owned
  <2> QED
    BY <1>1, <2>1, <2>2 DEF ReallocKeeps, CallInv, DefragInv, AbortOnlyOnEmptyArena, InCall, Walking
<1>4. CASE FirstCall
  <2>1. arena = "null" /\ hdrs = {} /\ Owned = {}
    BY <1>4, OwnedBlock DEF FirstCall, IInv, ArenaInv
  <2>2. CASE GrowBy(size') > MaxWords
    <3>1. /\ arena' = "failed" /\ asize' = GrowBy(size') /\ ret' = NULL /\ pc' = "return"
          /\ UNCHANGED <<freep, mem, hdrs, p>>
      BY <1>4, <2>2 DEF FirstCall
    <3>2. TypeOK'
      BY <1>1, <1>2, <3>1 DEF IInv, TypeOK
    <3>3. ArenaInv' /\ FreepInv' /\ MergedInv' /\ SearchInv' /\ GrowInv'
      BY <2>1, <3>1 DEF ArenaInv, FreepInv, MergedInv, SearchInv, GrowInv, Walking
    <3>4. Tiling' /\ AllocatedIsHandedOut' /\ DataIntact' /\ NullOnlyWhenRefused'
      BY <1>1, <2>1, <3>1 DEF Tiling, AllocatedIsHandedOut, DataIntact, NullOnlyWhenRefused, Owned
    <3> QED
      BY <1>3, <3>2, <3>3, <3>4 DEF IInv
  <2>3. CASE ~(GrowBy(size') > MaxWords)
    <3> DEFINE n == GrowBy(size')
    <3>1. /\ arena' = "set" /\ asize' = n /\ freep' = 0 /\ mem' = [mem EXCEPT ![0] = n]
          /\ hdrs' = (IF n = 0 THEN {} ELSE {0})
          /\ pc' = "search" /\ p' = 0 /\ ret' = ret
      BY <1>4, <2>3 DEF FirstCall
    <3>2. n \in Nat /\ n <= MaxWords
      BY <1>2, <2>3
    <3> HIDE DEF n
    <3>3. mem' \in [Addr -> Int] /\ mem'[0] = n /\ AbsInt(n) = n
      BY <1>2, <3>1, <3>2, AbsType
    <3>4. TypeOK'
      BY <1>1, <1>2, <3>1, <3>2, <3>3 DEF IInv, TypeOK
    <3>5. ArenaInv'
      BY <1>1, <3>1, <3>2, <3>3 DEF ArenaInv
    <3>6. FreepInv' /\ MergedInv' /\ GrowInv'
      BY <1>1, <3>1, <3>2 DEF FreepInv, MergedInv, GrowInv, Walking
    <3>7. SearchInv'
      BY <1>1, <3>1, <3>2 DEF SearchInv, Passed
    <3>8. Tiling'
      BY <3>1, <3>2, <3>3 DEF Tiling
    <3>9. AllocatedIsHandedOut' /\ DataIntact' /\ NullOnlyWhenRefused'
      BY <1>1, <2>1, <3>1, <3>2, <3>3 DEF AllocatedIsHandedOut, DataIntact, NullOnlyWhenRefused, Owned
    <3> QED
      BY <1>3, <3>4, <3>5, <3>6, <3>7, <3>8, <3>9 DEF IInv
  <2> QED
    BY <2>2, <2>3
<1>5. CASE LaterCall
  <2>1. /\ arena = "set" /\ pc' = "search" /\ p' = freep
        /\ UNCHANGED <<arena, asize, freep, mem, hdrs, ret>>
    BY <1>5 DEF LaterCall
  <2>2. asize > 0 /\ freep \in hdrs /\ freep \in Addr
    BY <1>1, <1>2, <2>1 DEF IInv, ArenaInv, FreepInv, TypeOK
  <2>3. TypeOK' /\ ArenaInv' /\ FreepInv' /\ MergedInv' /\ GrowInv'
    BY <1>1, <1>2, <2>1, <2>2 DEF IInv, TypeOK, ArenaInv, FreepInv, MergedInv, GrowInv, Walking
  <2>4. SearchInv'
    BY <1>1, <2>1, <2>2, Headers DEF SearchInv, Passed
  <2>5. Tiling' /\ DataIntact'
    BY <1>1, <2>1 DEF IInv, Tiling, DataIntact, Owned, Block
  <2>6. AllocatedIsHandedOut' /\ NullOnlyWhenRefused'
    BY <1>1, <2>1 DEF IInv, AllocatedIsHandedOut, HandedOut, NullOnlyWhenRefused, Owned
  <2> QED
    BY <1>3, <2>3, <2>4, <2>5, <2>6 DEF IInv
<1>6. CASE WildCall
  <2>1. /\ arena = "failed" /\ pc' = "wild" /\ UNCHANGED <<arena, asize, freep, mem, hdrs, ret, p>>
    BY <1>6 DEF WildCall
  <2>2. /\ TypeOK' /\ ArenaInv' /\ FreepInv' /\ MergedInv' /\ SearchInv' /\ GrowInv'
    BY <1>1, <1>2, <2>1 DEF IInv, TypeOK, ArenaInv, FreepInv, MergedInv, SearchInv, GrowInv, Walking
  <2>3. Tiling' /\ DataIntact'
    BY <1>1, <2>1 DEF IInv, Tiling, DataIntact, Owned, Block
  <2>4. AllocatedIsHandedOut' /\ NullOnlyWhenRefused'
    BY <1>1, <2>1 DEF IInv, AllocatedIsHandedOut, HandedOut, NullOnlyWhenRefused, Owned
  <2> QED
    BY <1>3, <2>2, <2>3, <2>4 DEF IInv
<1> QED
  BY <1>4, <1>5, <1>6

\* The calls of the client.
LEMMA CallStep ==
    ASSUME IInv,
           \/ \E b \in Requests : CallMalloc(b)
           \/ \E o \in Owned, b \in Requests : CallRealloc(o, b)
    PROVE  IInv'
<1>1. Requests \subseteq Nat
  BY MallocAssumption
<1>2. ASSUME NEW b \in Requests, CallMalloc(b) PROVE IInv'
  BY <1>1, <1>2, EnterStep DEF CallMalloc
<1>3. ASSUME NEW o \in Owned, NEW b \in Requests, CallRealloc(o, b) PROVE IInv'
  <2>1. o \in Addr
    BY DEF Owned
  <2> QED
    BY <1>1, <1>3, <2>1, EnterStep DEF CallRealloc
<1> QED
  BY <1>2, <1>3
-----------------------------------------------------------------------------
(* Back in the caller. *)

\* The block malloc() returned is inside the arena, and shares no word with a
\* block of the client's or with a header.
LEMMA ReturnedBlock ==
    ASSUME IInv, pc \in {"return", "copied"}, ret # NULL
    PROVE  /\ ret - 1 \in hdrs /\ mem[ret - 1] = -(size + 1) /\ owned[ret] = NULL
           /\ ret \in Addr /\ ret \in Nat /\ ret + size <= asize /\ asize <= MaxWords
           /\ arena = "set" /\ freep \in hdrs /\ asize > 0
           /\ \A h \in hdrs : h < ret \/ h >= ret + size
           /\ \A a \in Owned : a # ret /\ (a + owned[a] < ret \/ a > ret + size)
<1>1. /\ ret - 1 \in hdrs /\ mem[ret - 1] = -(size + 1) /\ owned[ret] = NULL
      /\ ret \in Addr /\ ret \in Nat /\ size \in Nat
  BY AddrType DEF IInv, AllocatedIsHandedOut, TypeOK
<1>2. AbsInt(mem[ret - 1]) = size + 1
  BY <1>1, AbsType
<1>3. arena = "set" /\ asize > 0 /\ ret + size <= asize /\ asize <= MaxWords
  BY <1>1, <1>2, Headers
<1>4. freep \in hdrs
  BY <1>3 DEF IInv, FreepInv, Walking
<1>5. \A h \in hdrs : h < ret - 1 => h + AbsInt(mem[h]) <= ret - 1
  BY <1>1, Headers
<1>6. \A h \in hdrs : h > ret - 1 => ret - 1 + (size + 1) <= h
  BY <1>1, <1>2, Headers
<1>7. ASSUME NEW a \in Owned PROVE a # ret /\ (a + owned[a] < ret \/ a > ret + size)
  <2>1. /\ a - 1 \in hdrs /\ mem[a - 1] = -(owned[a] + 1) /\ owned[a] \in Nat /\ a \in Nat
        /\ AbsInt(mem[a - 1]) = owned[a] + 1
    BY OwnedBlock, AbsType
  <2>2. a # ret
    BY <1>1 DEF Owned
  <2> QED
    BY <1>1, <1>5, <1>6, <2>1, <2>2
<1> QED
  BY <1>1, <1>3, <1>4, <1>6, <1>7, Headers

\* What is left when a call that was given a block, or none, has returned: the
\* headers where they were, and the client's blocks.
LEMMA Returned ==
    ASSUME IInv, EndCall, UNCHANGED <<arena, asize, freep, hdrs>>,
           pc \in {"return", "copied"},
           mem' \in [Addr -> Int], owned' \in [Addr -> Nat \cup {NULL}],
           \A h \in hdrs : mem'[h] = mem[h] \/ (mem[h] < 0 /\ mem'[h] = -mem[h]),
           AllocatedIsHandedOut', DataIntact'
    PROVE  IInv'
<1>1. /\ pc' = "idle" /\ fn' = "malloc" /\ bytes' = 0 /\ old' = NULL /\ size' = 0
      /\ tries' = 0 /\ p' = 0 /\ q' = 0 /\ ret' = NULL /\ merged' = {} /\ 0 \in Addr
  BY AddrType DEF EndCall
<1>2. TypeOK'
  BY <1>1 DEF IInv, TypeOK
<1>3. arena = "set" => asize # 0
  BY DEF IInv, ArenaInv
<1>4. ArenaInv' /\ CallInv' /\ MergedInv' /\ SearchInv' /\ DefragInv' /\ GrowInv'
  BY <1>1, <1>3 DEF IInv, ArenaInv, CallInv, MergedInv, SearchInv, DefragInv, GrowInv, Walking, InCall
<1>5. FreepInv'
  BY DEF IInv, FreepInv, Walking
<1>6. Tiling'
  <2>1. \A h \in hdrs : mem'[h] # 0 /\ AbsInt(mem'[h]) = AbsInt(mem[h])
    BY Headers, AbsType
  <2> QED
    BY <2>1 DEF IInv, Tiling
<1>7. ReallocKeeps' /\ NullOnlyWhenRefused' /\ AbortOnlyOnEmptyArena'
  BY <1>1 DEF ReallocKeeps, NullOnlyWhenRefused, AbortOnlyOnEmptyArena
<1> QED
  BY <1>2, <1>4, <1>5, <1>6, <1>7 DEF IInv

\* The client gets the block and writes all of it.
LEMMA MallocReturnsStep == ASSUME IInv, MallocReturns PROVE IInv'
<1>1. pc = "return" /\ EndCall /\ UNCHANGED <<arena, asize, freep, hdrs>>
  BY DEF MallocReturns
<1>2. pc' = "idle" /\ ret' = NULL
  BY <1>1 DEF EndCall
<1>3. /\ mem \in [Addr -> Int] /\ owned \in [Addr -> Nat \cup {NULL}] /\ size \in Nat
      /\ ret \in Addr \cup {NULL}
  BY DEF IInv, TypeOK
<1>4. /\ \A h \in hdrs : mem[h] < 0 => HandedOut(h + 1)
      /\ \A a \in Owned : a - 1 \in hdrs /\ mem[a - 1] = -(owned[a] + 1)
      /\ \A a \in Owned : \A w \in Block(a) : mem[w] = Fill
  BY DEF IInv, AllocatedIsHandedOut, DataIntact
<1>5. CASE ret = NULL
  <2>1. mem' = mem /\ owned' = owned
    BY <1>5 DEF MallocReturns
  <2>2. \A h \in hdrs : h + 1 # ret
    BY <1>5, Headers DEF NULL
  <2>3. AllocatedIsHandedOut' /\ DataIntact'
    BY <1>1, <1>2, <1>4, <2>1, <2>2 DEF AllocatedIsHandedOut, HandedOut, DataIntact, Owned, Block
  <2> QED
    BY <1>1, <1>3, <2>1, <2>3, Returned
<1>6. CASE ret # NULL
  <2>1. owned' = [owned EXCEPT ![ret] = size] /\ mem' = Filled(mem, ret, size)
    BY <1>6 DEF MallocReturns
  <2>2. ret \in Addr /\ ret \in Nat
    BY <1>3, <1>6, AddrType
  <2>3. /\ mem' \in [Addr -> Int] /\ owned' \in [Addr -> Nat \cup {NULL}]
        /\ owned'[ret] = size /\ size # NULL
        /\ \A a \in Addr : a # ret => owned'[a] = owned[a]
        /\ \A w \in Addr : mem'[w] = IF ret <= w /\ w < ret + size THEN Fill ELSE mem[w]
    BY <1>3, <2>1, <2>2, AddrType DEF Filled, Fill, NULL
  <2>4. \A h \in hdrs : mem'[h] = mem[h]
    BY <1>1, <1>6, <2>3, Headers, ReturnedBlock
  <2>5. \A a \in Addr : owned'[a] # NULL => a = ret \/ (a \in Owned /\ owned'[a] = owned[a])
    BY <2>3 DEF Owned
  <2>6. AllocatedIsHandedOut'
    <3>1. ASSUME NEW h \in hdrs, mem'[h] < 0 PROVE owned'[h + 1] # NULL
      <4>1. owned[h + 1] # NULL \/ h + 1 = ret
        BY <1>4, <2>4, <3>1 DEF HandedOut
      <4>2. h + 1 \in Addr
        BY Headers, AddrType DEF IInv, ArenaInv
      <4> QED
        BY <2>3, <4>1, <4>2
    <3>2. ASSUME NEW a \in Addr, owned'[a] # NULL PROVE a - 1 \in hdrs /\ mem'[a - 1] = -(owned'[a] + 1)
      BY <1>1, <1>4, <1>6, <2>3, <2>4, <2>5, <3>2, ReturnedBlock
    <3> QED
      BY <1>1, <1>2, <3>1, <3>2 DEF AllocatedIsHandedOut, HandedOut, Owned
  <2>7. DataIntact'
    <3> SUFFICES ASSUME NEW a \in Addr, owned'[a] # NULL, NEW w \in a .. a + owned'[a] - 1
                 PROVE  mem'[w] = Fill
      BY DEF DataIntact, Owned, Block
    <3>1. CASE a = ret
      <4>1. w \in Nat /\ ret <= w /\ w < ret + size /\ ret + size <= MaxWords
        BY <1>1, <1>3, <1>6, <2>2, <2>3, <3>1, ReturnedBlock, Headers, AddrType
      <4> QED
        BY <1>3, <2>2, <2>3, <4>1, AddrType
    <3>2. CASE a \in Owned /\ owned'[a] = owned[a]
      <4>1. w \in Block(a) /\ w \in Addr
        BY <3>2, OwnedBlock DEF Block
      <4> QED
        BY <1>4, <2>3, <3>2, <4>1 DEF Fill
    <3> QED
      BY <2>5, <3>1, <3>2
  <2> QED
    BY <1>1, <1>3, <2>3, <2>4, <2>6, <2>7, Returned
<1> QED
  BY <1>5, <1>6

\* realloc() copies no more words than either block has.
LEMMA CopyBounds ==
    ASSUME IInv, pc = "return", fn = "realloc"
    PROVE  /\ CopyWords \in Nat /\ CopyWords <= size /\ CopyWords <= owned[old]
           /\ bytes \in Nat /\ old \in Owned /\ owned[old] \in Nat
           /\ \A w \in Nat : w < bytes \div IntBytes /\ w < owned[old] => w < CopyWords
           /\ mem[old - 1] < 0
<1>1. old \in Owned /\ size = Words(bytes) /\ bytes \in Nat
  BY DEF IInv, CallInv, InCall, Walking, Owned, TypeOK
<1>2. mem[old - 1] = -(owned[old] + 1) /\ owned[old] \in Nat
  BY <1>1, OwnedBlock
<1> DEFINE k == owned[old] * 2
<1>3. CopyWords = (IF bytes < k THEN bytes ELSE k) \div 2 /\ k \in Nat
  BY <1>2 DEF CopyWords, IntBytes
<1>4. k \div 2 = owned[old]
  BY <1>2, SMT
<1>5. bytes \div 2 \in Nat /\ bytes \div 2 <= size
  BY <1>1, WordsType DEF IntBytes
<1>6. CASE bytes < k
  <2>1. CopyWords = bytes \div 2
    BY <1>3, <1>6
  <2>2. bytes \div 2 <= owned[old]
    BY <1>1, <1>2, <1>6, SMT
  <2> QED
    BY <1>1, <1>2, <1>5, <2>1, <2>2 DEF IntBytes
<1>7. CASE ~(bytes < k)
  <2>1. CopyWords = owned[old]
    BY <1>3, <1>4, <1>7
  <2>2. owned[old] <= bytes \div 2
    BY <1>1, <1>2, <1>7, SMT
  <2> QED
    BY <1>1, <1>2, <1>5, <2>1, <2>2, Headers DEF IntBytes
<1> QED
  BY <1>6, <1>7

\* realloc() copies into the new block, and nowhere else.
LEMMA ReallocCopiesStep == ASSUME IInv, ReallocCopies PROVE IInv'
<1>1. /\ pc = "return" /\ fn = "realloc" /\ ret # NULL
      /\ UNCHANGED <<arena, asize, freep, hdrs, merged, fn, bytes, old, size, tries, p, q, ret, owned>>
  BY DEF ReallocCopies, call
<1>2. /\ mem \in [Addr -> Int] /\ owned \in [Addr -> Nat \cup {NULL}] /\ size \in Nat
      /\ ret \in Addr /\ ret \in Nat
  BY <1>1, AddrType DEF IInv, TypeOK
<1>3. /\ CopyWords \in Nat /\ CopyWords <= size /\ CopyWords <= owned[old]
      /\ old \in Owned /\ mem[old - 1] < 0 /\ old \in Nat /\ owned[old] \in Nat
  BY <1>1, CopyBounds, OwnedBlock
<1>4. /\ pc' = "copied"
      /\ mem' = [w \in Addr |-> IF w \in ret .. ret + CopyWords - 1
                                THEN mem[w - ret + old] ELSE mem[w]]
  BY <1>2, <1>3, OwnedBlock, Headers DEF ReallocCopies
<1> HIDE DEF CopyWords
<1>5. /\ old + owned[old] <= asize /\ ret + size <= asize /\ asize <= MaxWords /\ asize \in Nat
      /\ \A w \in Block(old) : mem[w] = Fill
  BY <1>1, <1>3, OwnedBlock, ReturnedBlock, Headers DEF IInv, DataIntact
<1>6. \A w \in Addr : /\ ret <= w /\ w < ret + CopyWords => mem'[w] = Fill
                      /\ w < ret \/ w >= ret + CopyWords => mem'[w] = mem[w]
  <2>1. ASSUME NEW w \in Addr, ret <= w, w < ret + CopyWords PROVE mem'[w] = Fill
    <3>1. w \in ret .. ret + CopyWords - 1 /\ w \in Nat
      BY <1>2, <1>3, <2>1, AddrType
    <3>2. w - ret + old \in Block(old)
      BY <1>2, <1>3, <2>1, <3>1 DEF Block
    <3> QED
      BY <1>4, <1>5, <3>1, <3>2
  <2>2. ASSUME NEW w \in Addr, w < ret \/ w >= ret + CopyWords PROVE mem'[w] = mem[w]
    <3>1. w \notin ret .. ret + CopyWords - 1
      BY <1>2, <1>3, <2>2, AddrType
    <3> QED
      BY <1>4, <3>1
  <2> QED
    BY <2>1, <2>2
<1>7. mem' \in [Addr -> Int]
  <2>1. \A w \in Addr : mem'[w] \in Int
    BY <1>2, <1>3, <1>6, AddrType DEF Fill
  <2> QED
    BY <1>4, <2>1
<1>8. \A h \in hdrs : mem'[h] = mem[h]
  <2> SUFFICES ASSUME NEW h \in hdrs PROVE mem'[h] = mem[h]
    OBVIOUS
  <2>1. h \in Addr /\ h \in Nat /\ (h < ret \/ h >= ret + size)
    BY <1>1, Headers, ReturnedBlock
  <2> QED
    BY <1>2, <1>3, <1>6, <2>1
<1>9. TypeOK'
  BY <1>1, <1>4, <1>7 DEF IInv, TypeOK
<1>10. /\ ArenaInv' /\ CallInv' /\ FreepInv' /\ MergedInv' /\ SearchInv' /\ DefragInv' /\ GrowInv'
  <2>1. arena = "set" /\ asize > 0
    BY <1>1, ReturnedBlock
  <2> QED
    BY <1>1, <1>4, <2>1 DEF IInv, ArenaInv, CallInv, FreepInv, MergedInv, SearchInv, DefragInv, GrowInv,
       Walking, InCall
<1>11. Tiling'
  BY <1>1, <1>8 DEF IInv, Tiling
<1>12. AllocatedIsHandedOut'
  <2>1. \A a \in Owned : a - 1 \in hdrs /\ mem[a - 1] = -(owned[a] + 1)
    BY OwnedBlock
  <2> QED
    BY <1>1, <1>4, <1>8, <2>1 DEF IInv, AllocatedIsHandedOut, HandedOut, Owned
<1>13. DataIntact'
  <2> SUFFICES ASSUME NEW a \in Owned, NEW w \in Block(a) PROVE mem'[w] = Fill
    BY <1>1 DEF DataIntact, Owned, Block
  <2>1. w \in Addr /\ w \in Nat /\ mem[w] = Fill
    BY OwnedBlock DEF IInv, DataIntact
  <2> QED
    BY <1>2, <1>3, <1>6, <2>1
<1>14. ReallocKeeps'
  <2> SUFFICES ASSUME NEW w \in 0 .. (bytes \div IntBytes) - 1, w < owned[old] PROVE mem'[ret + w] = Fill
    BY <1>1 DEF ReallocKeeps
  <2>1. bytes \div IntBytes \in Nat
    BY <1>1, CopyBounds, WordsType
  <2>2. w \in Nat /\ w < bytes \div IntBytes
    BY <2>1
  <2>3. w < CopyWords
    BY <1>1, <2>2, CopyBounds
  <2>4. ret + w \in Addr
    BY <1>2, <1>3, <1>5, <2>2, <2>3, AddrType
  <2> QED
    BY <1>2, <1>3, <1>6, <2>2, <2>3, <2>4
<1>15. NullOnlyWhenRefused' /\ AbortOnlyOnEmptyArena'
  BY <1>4 DEF NullOnlyWhenRefused, AbortOnlyOnEmptyArena
<1> QED
  BY <1>9, <1>10, <1>11, <1>12, <1>13, <1>14, <1>15 DEF IInv

\* free() accepts every pointer the client holds.
LEMMA GoodPointer == ASSUME IInv, NEW a \in Owned PROVE ~BadPointer(a)
<1>1. a \in Nat /\ a + owned[a] <= asize /\ owned[a] \in Nat /\ mem[a - 1] = -(owned[a] + 1)
  BY OwnedBlock
<1>2. asize \in Nat
  BY Headers
<1> QED
  BY <1>1, <1>2 DEF BadPointer

\* realloc() frees the old block and hands out the new one.
LEMMA ReallocFreesStep == ASSUME IInv, ReallocFrees PROVE IInv'
<1>1. /\ pc = "copied" /\ ret # NULL /\ old \in Owned
  BY DEF ReallocFrees, IInv, CallInv, InCall, Walking, Owned
<1>2. /\ owned' = [owned EXCEPT ![old] = NULL, ![ret] = size]
      /\ mem' = Filled([mem EXCEPT ![old - 1] = -@], ret, size)
      /\ EndCall /\ UNCHANGED <<arena, asize, freep, hdrs>>
  BY <1>1, GoodPointer DEF ReallocFrees
<1>3. pc' = "idle" /\ ret' = NULL
  BY <1>2 DEF EndCall
<1>4. /\ mem \in [Addr -> Int] /\ owned \in [Addr -> Nat \cup {NULL}] /\ size \in Nat
      /\ ret \in Addr /\ ret \in Nat /\ old \in Addr /\ old \in Nat
      /\ old - 1 \in hdrs /\ old - 1 \in Addr /\ mem[old - 1] < 0 /\ old # ret
      /\ mem[old - 1] \in Int
  BY <1>1, AddrType, OwnedBlock, ReturnedBlock, Headers DEF IInv, TypeOK
<1>5. /\ mem' \in [Addr -> Int] /\ owned' \in [Addr -> Nat \cup {NULL}]
      /\ owned'[ret] = size /\ owned'[old] = NULL /\ size # NULL
      /\ \A a \in Addr : a # ret /\ a # old => owned'[a] = owned[a]
      /\ \A w \in Addr : mem'[w] = IF ret <= w /\ w < ret + size THEN Fill
                                   ELSE IF w = old - 1 THEN -mem[w] ELSE mem[w]
  <2>1. /\ owned' \in [Addr -> Nat \cup {NULL}]
        /\ owned'[ret] = size /\ owned'[old] = NULL /\ size # NULL
        /\ \A a \in Addr : a # ret /\ a # old => owned'[a] = owned[a]
    BY <1>2, <1>4 DEF NULL
  <2> DEFINE m == [mem EXCEPT ![old - 1] = -@]
  <2>2. m \in [Addr -> Int] /\ \A w \in Addr : m[w] = IF w = old - 1 THEN -mem[w] ELSE mem[w]
    BY <1>4
  <2>3. mem' = Filled(m, ret, size)
    BY <1>2
  <2> HIDE DEF m
  <2>4. \A w \in Addr : mem'[w] = IF ret <= w /\ w < ret + size THEN Fill ELSE m[w]
    BY <1>4, <2>3, AddrType DEF Filled
  <2>5. mem' \in [Addr -> Int]
    BY <2>2, <2>3 DEF Filled, Fill
  <2> QED
    BY <2>1, <2>2, <2>4, <2>5
<1>6. \A h \in hdrs : mem'[h] = IF h = old - 1 THEN -mem[h] ELSE mem[h]
  BY <1>1, <1>5, Headers, ReturnedBlock
<1>7. \A a \in Addr : owned'[a] # NULL => a = ret \/ (a \in Owned /\ a # old /\ owned'[a] = owned[a])
  BY <1>5 DEF Owned
<1>8. AllocatedIsHandedOut'
  <2>1. ASSUME NEW h \in hdrs, mem'[h] < 0 PROVE owned'[h + 1] # NULL
    <3>1. h # old - 1 /\ mem[h] < 0
      BY <1>4, <1>6, <2>1
    <3>2. owned[h + 1] # NULL \/ h + 1 = ret
      BY <3>1 DEF IInv, AllocatedIsHandedOut, HandedOut
    <3>3. h + 1 \in Addr /\ h + 1 # old
      BY <1>4, <3>1, Headers, AddrType
    <3> QED
      BY <1>5, <3>2, <3>3
  <2>2. ASSUME NEW a \in Addr, owned'[a] # NULL PROVE a - 1 \in hdrs /\ mem'[a - 1] = -(owned'[a] + 1)
    <3>1. CASE a = ret
      BY <1>1, <1>4, <1>5, <1>6, <3>1, ReturnedBlock
    <3>2. CASE a \in Owned /\ a # old /\ owned'[a] = owned[a]
      <4>1. a - 1 \in hdrs /\ mem[a - 1] = -(owned[a] + 1) /\ a \in Nat
        BY <3>2, OwnedBlock
      <4> QED
        BY <1>4, <1>6, <3>2, <4>1
    <3> QED
      BY <1>7, <2>2, <3>1, <3>2
  <2> QED
    BY <1>2, <1>3, <2>1, <2>2 DEF AllocatedIsHandedOut, HandedOut, Owned
<1>9. DataIntact'
  <2> SUFFICES ASSUME NEW a \in Addr, owned'[a] # NULL, NEW w \in a .. a + owned'[a] - 1
               PROVE  mem'[w] = Fill
    BY DEF DataIntact, Owned, Block
  <2>1. CASE a = ret
    <3>1. w \in Nat /\ ret <= w /\ w < ret + size /\ ret + size <= MaxWords
      BY <1>1, <1>4, <1>5, <2>1, ReturnedBlock, Headers, AddrType
    <3> QED
      BY <1>4, <1>5, <3>1, AddrType
  <2>2. CASE a \in Owned /\ owned'[a] = owned[a]
    <3>1. w \in Block(a) /\ w \in Addr /\ w # old - 1
      BY <1>4, <2>2, OwnedBlock, Headers DEF Block
    <3>2. mem[w] = Fill
      BY <2>2, <3>1 DEF IInv, DataIntact
    <3> QED
      BY <1>5, <3>1, <3>2
  <2> QED
    BY <1>7, <2>1, <2>2
<1>10. \A h \in hdrs : mem'[h] = mem[h] \/ (mem[h] < 0 /\ mem'[h] = -mem[h])
  BY <1>4, <1>6
<1> QED
  BY <1>1, <1>2, <1>5, <1>8, <1>9, <1>10, Returned

\* free() turns the block back into a free one.
LEMMA FreeStep == ASSUME IInv, NEW a \in Owned, Free(a) PROVE IInv'
<1>1. /\ pc = "idle" /\ pc' = pc
      /\ mem' = [mem EXCEPT ![a - 1] = -@] /\ owned' = [owned EXCEPT ![a] = NULL]
      /\ UNCHANGED <<arena, asize, freep, hdrs, merged, fn, bytes, old, size, tries, p, q, ret>>
  BY GoodPointer DEF Free, call
<1>2. /\ mem \in [Addr -> Int] /\ owned \in [Addr -> Nat \cup {NULL}]
      /\ a - 1 \in hdrs /\ a - 1 \in Addr /\ mem[a - 1] \in Int /\ mem[a - 1] < 0 /\ a \in Addr /\ a \in Nat
  BY OwnedBlock, Headers DEF IInv, TypeOK
<1>3. /\ mem' \in [Addr -> Int] /\ owned' \in [Addr -> Nat \cup {NULL}]
      /\ \A w \in Addr : mem'[w] = IF w = a - 1 THEN -mem[w] ELSE mem[w]
      /\ \A b \in Addr : owned'[b] = IF b = a THEN NULL ELSE owned[b]
  BY <1>1, <1>2
<1>4. \A h \in hdrs : mem'[h] = IF h = a - 1 THEN -mem[h] ELSE mem[h]
  BY <1>3, Headers
<1>5. TypeOK'
  BY <1>1, <1>3 DEF IInv, TypeOK
<1>6. /\ ArenaInv' /\ CallInv' /\ FreepInv' /\ MergedInv' /\ SearchInv' /\ DefragInv' /\ GrowInv'
  BY <1>1 DEF IInv, ArenaInv, CallInv, FreepInv, MergedInv, SearchInv, DefragInv, GrowInv, Walking, InCall
<1>7. Tiling'
  <2>1. \A h \in hdrs : mem'[h] # 0 /\ AbsInt(mem'[h]) = AbsInt(mem[h])
    BY <1>2, <1>4, Headers, AbsType
  <2> QED
    BY <1>1, <2>1 DEF IInv, Tiling
<1>8. AllocatedIsHandedOut'
  <2>1. ASSUME NEW h \in hdrs, mem'[h] < 0 PROVE owned'[h + 1] # NULL
    <3>1. h # a - 1 /\ mem[h] < 0
      BY <1>2, <1>4, <2>1
    <3>2. owned[h + 1] # NULL
      BY <1>1, <3>1 DEF IInv, AllocatedIsHandedOut, HandedOut
    <3>3. h + 1 \in Addr /\ h + 1 # a
      BY <1>2, <3>1, Headers, AddrType
    <3> QED
      BY <1>3, <3>2, <3>3
  <2>2. ASSUME NEW b \in Addr, owned'[b] # NULL PROVE b - 1 \in hdrs /\ mem'[b - 1] = -(owned'[b] + 1)
    <3>1. b \in Owned /\ b # a /\ owned'[b] = owned[b]
      BY <1>3, <2>2 DEF Owned
    <3>2. b - 1 \in hdrs /\ mem[b - 1] = -(owned[b] + 1) /\ b \in Nat
      BY <3>1, OwnedBlock
    <3> QED
      BY <1>2, <1>4, <3>1, <3>2
  <2> QED
    BY <1>1, <2>1, <2>2 DEF AllocatedIsHandedOut, HandedOut, Owned
<1>9. DataIntact'
  <2> SUFFICES ASSUME NEW b \in Addr, owned'[b] # NULL, NEW w \in b .. b + owned'[b] - 1
               PROVE  mem'[w] = Fill
    BY DEF DataIntact, Owned, Block
  <2>1. b \in Owned /\ owned'[b] = owned[b]
    BY <1>3 DEF Owned
  <2>2. w \in Block(b) /\ w \in Addr /\ w # a - 1
    BY <1>2, <2>1, OwnedBlock, Headers DEF Block
  <2>3. mem[w] = Fill
    BY <2>1, <2>2 DEF IInv, DataIntact
  <2> QED
    BY <1>3, <2>2, <2>3
<1>10. ReallocKeeps' /\ NullOnlyWhenRefused' /\ AbortOnlyOnEmptyArena'
  BY <1>1 DEF ReallocKeeps, NullOnlyWhenRefused, AbortOnlyOnEmptyArena
<1> QED
  BY <1>5, <1>6, <1>7, <1>8, <1>9, <1>10 DEF IInv

-----------------------------------------------------------------------------
(* The invariant is inductive. *)

\* Every step of the heap and of its client keeps the invariant.
LEMMA NextInv == IInv /\ [Next]_vars => IInv'
<1> SUFFICES ASSUME IInv, [Next]_vars PROVE IInv'
  OBVIOUS
<1>1. ASSUME \/ \E b \in Requests : CallMalloc(b)
             \/ \E o \in Owned, b \in Requests : CallRealloc(o, b)
      PROVE  IInv'
  BY <1>1, CallStep
<1>2. CASE Search
  BY <1>2, TakeBlockStep, PassBlockStep DEF Search
<1>3. CASE Defrag
  BY <1>3, SkipAllocatedStep, StartRunStep, MeasureStep, MergeRunStep, EndDefragStep DEF Defrag
<1>4. CASE Grow
  BY <1>4, SbrkFailsStep, ExtendStep DEF Grow
<1>5. CASE Return
  BY <1>5, MallocReturnsStep, ReallocCopiesStep, ReallocFreesStep DEF Return
<1>6. ASSUME NEW a \in Owned, Free(a) PROVE IInv'
  BY <1>6, FreeStep
<1>7. CASE UNCHANGED vars
  <2>1. /\ TypeOK' /\ ArenaInv' /\ CallInv' /\ FreepInv' /\ MergedInv'
    BY <1>7 DEF IInv, TypeOK, ArenaInv, CallInv, FreepInv, MergedInv, vars, heap, call
  <2>2. SearchInv' /\ DefragInv' /\ GrowInv'
    BY <1>7 DEF IInv, SearchInv, Passed, DefragInv, GrowInv, Coalesced, vars, heap, call
  <2>3. Tiling' /\ AllocatedIsHandedOut' /\ DataIntact'
    BY <1>7 DEF IInv, Tiling, AllocatedIsHandedOut, HandedOut, DataIntact, Owned, Block, vars, heap, call
  <2>4. ReallocKeeps' /\ NullOnlyWhenRefused' /\ AbortOnlyOnEmptyArena'
    BY <1>7 DEF IInv, ReallocKeeps, NullOnlyWhenRefused, AbortOnlyOnEmptyArena, vars, heap, call
  <2> QED
    BY <2>1, <2>2, <2>3, <2>4 DEF IInv
<1> QED
  BY <1>1, <1>2, <1>3, <1>4, <1>5, <1>6, <1>7 DEF Next, Step, Dead

\* The invariant holds of every behaviour.
LEMMA Inductive == Spec => []IInv
BY InitInv, NextInv, PTL DEF Spec
-----------------------------------------------------------------------------
(* The theorems. *)

\* Every variable keeps its type: the walks of malloc() and defrag() never leave
\* the arena.
THEOREM TypeCorrect == Spec => []TypeOK
<1>1. IInv => TypeOK
  BY DEF IInv
<1> QED
  BY <1>1, Inductive, PTL

\* The blocks tile the arena after any sequence of calls, and at every step of a
\* call (malloc.c 22, 65).
THEOREM ArenaIsTiled == Spec => []Tiling
<1>1. IInv => Tiling
  BY DEF IInv
<1> QED
  BY <1>1, Inductive, PTL

\* The allocated blocks are those handed out: none is lost, none is given twice.
THEOREM NoBlockLostOrShared == Spec => []AllocatedIsHandedOut
<1>1. IInv => AllocatedIsHandedOut
  BY DEF IInv
<1> QED
  BY <1>1, Inductive, PTL

\* The heap never writes into a block of the client's.
THEOREM ClientDataIntact == Spec => []DataIntact
<1>1. IInv => DataIntact
  BY DEF IInv
<1> QED
  BY <1>1, Inductive, PTL

\* realloc() frees the old block only when the new one has its contents.
THEOREM ReallocKeepsContents == Spec => []ReallocKeeps
<1>1. IInv => ReallocKeeps
  BY DEF IInv
<1> QED
  BY <1>1, Inductive, PTL

\* malloc() asks for memory only when nothing fits and nothing can be coalesced.
THEOREM GrowsOnlyWhenFull == Spec => []GrowOnlyWhenFull
<1>1. IInv => GrowOnlyWhenFull
  <2> SUFFICES ASSUME IInv, pc = "extend", size > 0
               PROVE  /\ tries = 1
                      /\ \A h \in hdrs : /\ mem[h] <= size
                                         /\ mem[h] > 0 => mem[h + mem[h]] < 0 \/ h + mem[h] = asize
    BY DEF GrowOnlyWhenFull
  <2>1. \A h \in hdrs : mem[h] <= size /\ mem[h] \in Int
    BY Headers DEF IInv, GrowInv
  <2>2. tries # 2
    BY <2>1, Headers DEF IInv, GrowInv
  <2>3. tries = 1
    BY <2>2 DEF IInv, CallInv
  <2> QED
    BY <2>1, <2>3 DEF IInv, GrowInv, Coalesced
<1> QED
  BY <1>1, Inductive, PTL

\* malloc() fails only when _sbrk() does.
THEOREM NullMeansRefused == Spec => []NullOnlyWhenRefused
<1>1. IInv => NullOnlyWhenRefused
  BY DEF IInv
<1> QED
  BY <1>1, Inductive, PTL

\* The corruption checks never fire on a client that frees what it holds, but on
\* the arena of no words.
THEOREM NoFalseAlarm == Spec => []AbortOnlyOnEmptyArena
<1>1. IInv => AbortOnlyOnEmptyArena
  BY DEF IInv
<1> QED
  BY <1>1, Inductive, PTL

\* Once the search has lost its starting point it goes on for ever (malloc.c 71).
THEOREM HungStaysHung == Spec => HungForever
<1>1. IInv /\ [Next]_vars => (Hung => Hung')
  <2> SUFFICES ASSUME IInv, [Next]_vars, Hung PROVE Hung'
    OBVIOUS
  <2>1. pc = "search" /\ tries = 1 /\ freep \notin hdrs /\ \A h \in hdrs : mem[h] <= size
    BY DEF Hung
  <2>2. ~(mem[p] > size)
    BY <2>1, SearchAt, Headers
  <2>3. CASE UNCHANGED vars
    BY <2>1, <2>3 DEF Hung, vars, heap, call
  <2>4. CASE PassBlock
    <3>1. arena = "set" /\ asize # 0 /\ asize \in Nat
      BY <2>1, SearchAt, Headers DEF IInv, ArenaInv
    <3>2. After(p) \in Nat /\ After(p) < asize /\ mem[After(p)] # 0
      BY <2>1, <3>1, AfterType
    <3>3. IInv' /\ UNCHANGED <<arena, asize, freep, mem, hdrs, size, tries>>
      BY <2>4, PassBlockStep DEF PassBlock, heap, call
    <3>4. pc' \in {"search", "extend"}
      BY <2>1, <2>4, <3>1, <3>2 DEF PassBlock
    <3>5. pc' # "extend"
      BY <2>1, <3>1, <3>3 DEF IInv, FreepInv
    <3> QED
      BY <2>1, <3>3, <3>4, <3>5 DEF Hung
  <2> QED
    BY <2>1, <2>2, <2>3, <2>4 DEF Next, CallMalloc, CallRealloc, Enter, Step, Search, TakeBlock, Defrag,
       SkipAllocated, StartRun, Measure, MergeRun, EndDefrag, Grow, SbrkFails, Extend, Return, MallocReturns,
       ReallocCopies, ReallocFrees, Free, Dead
<1> QED
  BY <1>1, Inductive, PTL DEF Spec, HungForever

\* malloc(), realloc() and free() keep the promise of AbstractHeap: each step
\* hands out, moves or takes back one block, or is not seen by the client.
THEOREM HeapKeepsPromise == Spec => KeepsPromise
<1>1. Init => Promise!Init
  BY DEF Init, Promise!Init, Promise!Addr, Promise!NULL, Addr, NULL
<1>2. IInv /\ [Next]_vars => [Promise!Next]_owned
  <2> SUFFICES ASSUME IInv, [Next]_vars, owned' # owned PROVE Promise!Next
    OBVIOUS
  <2>1. Promise!Addr = Addr /\ Promise!NULL = NULL
    BY DEF Promise!Addr, Promise!NULL, Addr, NULL
  <2>2. (\E a \in Owned : Free(a)) \/ MallocReturns \/ ReallocFrees
    BY DEF Next, CallMalloc, CallRealloc, Enter, Step, Search, TakeBlock, PassBlock, Defrag,
       SkipAllocated, StartRun, Measure, MergeRun, EndDefrag, Grow, SbrkFails, Extend, Return,
       ReallocCopies, Dead, vars
  <2>3. ASSUME NEW a \in Owned, Free(a) PROVE Promise!Next
    <3>1. Promise!Free(a) /\ a \in Addr
      BY <2>1, <2>3 DEF Free, Promise!Free, Owned
    <3> QED
      BY <2>1, <3>1 DEF Promise!Next
  <2>4. ASSUME pc \in {"return", "copied"}, ret # NULL
        PROVE  ret \in Addr /\ size \in Addr /\ Promise!Fits(ret, size)
    <3>1. /\ ret \in Addr /\ ret \in Nat /\ size \in Nat /\ ret + size <= asize /\ asize <= MaxWords
          /\ owned[ret] = NULL /\ asize \in Nat
      BY <2>4, ReturnedBlock, Headers
    <3>2. size \in Addr /\ ret + size <= MaxWords
      BY <3>1, AddrType
    <3>3. ASSUME NEW b \in Addr, owned[b] # NULL PROVE ret + size <= b \/ b + owned[b] <= ret
      <4>1. b \in Owned
        BY <3>3 DEF Owned
      <4>2. (b + owned[b] < ret \/ b > ret + size) /\ b \in Nat /\ owned[b] \in Nat
        BY <2>4, <4>1, ReturnedBlock, OwnedBlock
      <4> QED
        BY <3>1, <4>2
    <3> QED
      BY <2>1, <3>1, <3>2, <3>3 DEF Promise!Fits
  <2>5. CASE MallocReturns
    <3>1. pc = "return" /\ ret # NULL /\ owned' = [owned EXCEPT ![ret] = size]
      BY <2>5 DEF MallocReturns
    <3>2. ret \in Addr /\ size \in Addr /\ Promise!Alloc(ret, size)
      BY <2>4, <3>1 DEF Promise!Alloc
    <3> QED
      BY <2>1, <3>2 DEF Promise!Next
  <2>6. CASE ReallocFrees
    <3>1. pc = "copied" /\ ret # NULL /\ old \in Addr /\ owned[old] # NULL
      BY <2>6 DEF ReallocFrees, IInv, CallInv, InCall, Walking
    <3>2. owned' = [owned EXCEPT ![old] = NULL, ![ret] = size]
      BY <2>6 DEF ReallocFrees
    <3>3. ret \in Addr /\ size \in Addr /\ Promise!Move(old, ret, size)
      BY <2>1, <2>4, <3>1, <3>2 DEF Promise!Move
    <3> QED
      BY <2>1, <3>1, <3>3 DEF Promise!Next
  <2> QED
    BY <2>2, <2>3, <2>5, <2>6
<1> QED
  BY <1>1, <1>2, Inductive, PTL DEF Spec, KeepsPromise, Promise!Spec
=============================================================================
