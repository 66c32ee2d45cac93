-------------------------------- MODULE Lists --------------------------------
(***************************************************************************)
(* A list without some of its elements.  It is SelectSeq, by a set and     *)
(* written as a recursive function, so that it can be reasoned about.      *)
(***************************************************************************)
EXTENDS Integers, Sequences

\* The elements of a list that are in S, in the order of the list.
Only(list, S) ==
  LET upTo[i \in 0..Len(list)] ==
        IF i = 0 THEN <<>>
        ELSE IF list[i] \in S THEN Append(upTo[i - 1], list[i]) ELSE upTo[i - 1]
  IN upTo[Len(list)]

=============================================================================
