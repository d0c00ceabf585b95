------------------------------- MODULE Lists --------------------------------
(***************************************************************************)
(* What the kernel's doubly linked lists are used for beyond sequences:    *)
(* taking out the members that a loop over the list, or list_remove,       *)
(* unlinks.  The others keep their order.                                  *)
(***************************************************************************)
EXTENDS Integers, Sequences, SequencesExt

(* The members of list s that are in set S, in the order of s. *)
Keep(s, S) ==
  LET kept[i \in 0 .. Len(s)] ==
        IF i = 0 THEN <<>>
        ELSE IF s[i] \in S THEN Append(kept[i - 1], s[i])
        ELSE kept[i - 1]
  IN kept[Len(s)]
=============================================================================
