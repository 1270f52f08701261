-------------------------------- MODULE Scans --------------------------------
(***************************************************************************)
(* Array.prototype.filter as the modules use it: with a set in place of the *)
(* predicate, and as a function of the length scanned so far in place of    *)
(* SelectSeq, which the proof system cannot expand.                         *)
(***************************************************************************)
EXTENDS Integers, Sequences

\* The elements of S among the first n of list, in order, for every n.
Filtered(list, S) ==
  LET kept[n \in 0 .. Len(list)] ==
        IF n = 0 THEN << >>
        ELSE IF list[n] \in S THEN Append(kept[n - 1], list[n])
        ELSE kept[n - 1]
  IN kept

Filter(list, S) == Filtered(list, S)[Len(list)]

==============================================================================
