---------------------------- MODULE Subsequences ----------------------------
(***************************************************************************)
(* SelectSeq for membership in a set, written as a recursive function so   *)
(* that proofs can expand it.                                              *)
(***************************************************************************)
EXTENDS Naturals, Sequences

\* The elements of s that are in T, in their order.
Picked(s, T) ==
  LET upTo[n \in 0 .. Len(s)] ==
        IF n = 0 THEN <<>>
        ELSE IF s[n] \in T THEN Append(upTo[n - 1], s[n])
        ELSE upTo[n - 1]
  IN  upTo[Len(s)]
=============================================================================
