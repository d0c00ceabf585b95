------------------------------ MODULE ListSeq -------------------------------
(***************************************************************************)
(* What a list promises: it is a sequence of objects, changed by inserting *)
(* one, removing one, or exchanging two.                                   *)
(***************************************************************************)
EXTENDS Integers, Sequences, SequencesExt

CONSTANT Obj

VARIABLE seq

Insert(i, o) == i \in 1 .. Len(seq) + 1 /\ seq' = InsertAt(seq, i, o)

Delete(i) == i \in 1 .. Len(seq) /\ seq' = RemoveAt(seq, i)

Exchange(i, j) ==
  /\ i \in 1 .. Len(seq) /\ j \in 1 .. Len(seq)
  /\ seq' = [seq EXCEPT ![i] = seq[j], ![j] = seq[i]]

Init == seq = <<>>

Next ==
  \/ \E o \in Obj : \E i \in 1 .. Len(seq) + 1 : Insert(i, o)
  \/ \E i \in 1 .. Len(seq) : Delete(i) \/ \E j \in 1 .. Len(seq) : Exchange(i, j)

Spec == Init /\ [][Next]_seq
=============================================================================
