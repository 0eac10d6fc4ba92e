-------------------------------- MODULE Lists -------------------------------
(***************************************************************************)
(* The lists of the elements, Click's Vector, as sequences: what a loop    *)
(* leaves that walks over one of them and erases some of its items.        *)
(***************************************************************************)
EXTENDS Sequences, FiniteSetsExt

(***************************************************************************)
(* Vector::erase: the item at position i is taken out.                     *)
(***************************************************************************)
Erase(s, i) == SubSeq(s, 1, i - 1) \o SubSeq(s, i + 1, Len(s))

(***************************************************************************)
(* The items of s that are in S, in their order.                           *)
(***************************************************************************)
Retain(s, S) ==
    LET upto[i \in 0 .. Len(s)] ==
          IF i = 0 THEN <<>>
          ELSE IF s[i] \in S THEN Append(upto[i - 1], s[i])
          ELSE upto[i - 1]
    IN  upto[Len(s)]
=============================================================================
