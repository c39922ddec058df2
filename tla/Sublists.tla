------------------------------ MODULE Sublists ------------------------------
(***************************************************************************)
(* The elements of a sequence that are in a set, and those that are not,   *)
(* in their order.  SelectSeq says the same of a predicate; with a set, and *)
(* defined by a function on the positions, it can be reasoned about.       *)
(***************************************************************************)
EXTENDS Integers, SequencesExt

Filter(s, T) ==
  LET kept[i \in 0..Len(s)] ==
        IF i = 0 THEN <<>>
        ELSE IF s[i] \in T THEN Append(kept[i - 1], s[i])
        ELSE kept[i - 1]
  IN kept[Len(s)]

Omit(s, T) == Filter(s, ToSet(s) \ T)
=============================================================================
