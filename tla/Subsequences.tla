---------------------------- MODULE Subsequences ----------------------------
(***************************************************************************)
(* The items of a sequence at given positions, in their order.  SelectSeq  *)
(* of the standard modules chooses by item; it is built into the provers   *)
(* and has no definition to reason with, so the models that need theorems  *)
(* about what they select use this one.                                    *)
(***************************************************************************)
EXTENDS Naturals, Sequences

(* For every n, the items among the first n of s whose position is in I.   *)
Selections(s, I) ==
    LET upto[n \in 0 .. Len(s)] ==
            IF n = 0 THEN <<>>
            ELSE IF n \in I THEN Append(upto[n - 1], s[n]) ELSE upto[n - 1]
    IN  upto

Selected(s, I) == Selections(s, I)[Len(s)]

(* t is the beginning of s.                                                *)
Begins(t, s) == Len(t) <= Len(s) /\ \A i \in 1 .. Len(t) : t[i] = s[i]
=============================================================================
