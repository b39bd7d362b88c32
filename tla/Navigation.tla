----------------------------- MODULE Navigation -----------------------------
(***************************************************************************)
(* What browsing promises, for one panel: the user is at a path, goes into *)
(* a directory of it or out to the directory it came from; and a change of *)
(* devices may bring the panel back to the device list.                    *)
(***************************************************************************)
EXTENDS Integers, Sequences

CONSTANT Names

VARIABLE at     \* the path, a sequence of names; <<>> is the device list

Init == at = <<>>

In == \E n \in Names : at' = Append(at, n)

Out == at # <<>> /\ at' = SubSeq(at, 1, Len(at) - 1)

Home == at' = <<>>

Next == In \/ Out \/ Home

Spec == Init /\ [][Next]_at
=============================================================================
