------------------------------ MODULE MCMalloc ------------------------------
(* Small heaps for TLC: sizes below, at and above THRESHOLD, and odd byte     *)
(* counts that round up to a word.                                           *)
EXTENDS Malloc

\* 1, 2 and 4 words.
MCRequests == {2, 3, 7}

\* 0 and 2 words, and more than there is.
MCZeroRequests == {0, 3, 16}
=============================================================================
