------------------------------ MODULE Iterators ------------------------------
(***************************************************************************)
(* What the crates take from the iterators of the standard library.        *)
(***************************************************************************)
EXTENDS Integers, Sequences

\* filter(..).collect(): the elements of s that are in T, in their order.
Filter(s, T) ==
  LET filtered[i \in 0..Len(s)] ==
        IF i = 0 THEN <<>>
        ELSE IF s[i] \in T THEN Append(filtered[i - 1], s[i]) ELSE filtered[i - 1]
  IN  filtered[Len(s)]
=============================================================================
