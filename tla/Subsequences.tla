---------------------------- MODULE Subsequences ----------------------------
(***************************************************************************)
(* Parts of a sequence, in their order: list comprehensions with an "if"   *)
(* in the code.  They are recursive functions in place of SelectSeq, so    *)
(* that they can be reasoned about.                                        *)
(***************************************************************************)
EXTENDS Integers, Sequences

\* The elements at some positions.
At(s, positions) ==
    LET at[n \in 0..Len(s)] ==
            IF n = 0 THEN <<>>
            ELSE IF n \in positions THEN Append(at[n - 1], s[n]) ELSE at[n - 1]
    IN at[Len(s)]

\* The elements that are in a set.
Kept(s, T) == At(s, {i \in DOMAIN s : s[i] \in T})
=============================================================================
