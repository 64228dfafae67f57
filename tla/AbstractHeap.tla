---------------------------- MODULE AbstractHeap ----------------------------
(***************************************************************************)
(* What malloc(), realloc() and free() promise a client: a block handed    *)
(* out shares no word with a block the client holds, and nothing else      *)
(* happens to the client's blocks.  Where blocks come from is left open.   *)
(***************************************************************************)
EXTENDS Integers

CONSTANT MaxWords

VARIABLE owned      \* words the client may use from an address, NULL if none

NULL == -1
Addr == 0..MaxWords

\* The n words at a are in memory and share none with a block of the client's.
Fits(a, n) ==
    /\ a + n <= MaxWords
    /\ owned[a] = NULL
    /\ \A b \in Addr : owned[b] # NULL => a + n <= b \/ b + owned[b] <= a

Init == owned = [a \in Addr |-> NULL]

Alloc(a, n) == owned' = [owned EXCEPT ![a] = n] /\ Fits(a, n)
Free(a) == owned[a] # NULL /\ owned' = [owned EXCEPT ![a] = NULL]
Move(o, a, n) ==
    /\ owned[o] # NULL
    /\ owned' = [owned EXCEPT ![o] = NULL, ![a] = n]
    /\ Fits(a, n)

Next ==
    /\ owned' # owned
    /\ \/ \E a \in Addr : Free(a)
       \/ \E a, n \in Addr : Alloc(a, n)
       \/ \E o, a, n \in Addr : Move(o, a, n)

Spec == Init /\ [][Next]_owned
=============================================================================
