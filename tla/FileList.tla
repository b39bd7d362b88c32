------------------------------ MODULE FileList ------------------------------
(***************************************************************************)
(* What a panel's file list promises, as a sequence: scanning a directory  *)
(* inserts its entries one by one, without losing or reordering those that *)
(* are there, and the selection is always on an entry of the list.         *)
(***************************************************************************)
EXTENDS Integers, Sequences, SequencesExt

CONSTANT MaxName    \* names are 1 .. MaxName, in strcmp order

VARIABLES
    list,   \* the entries, in the order they are drawn
    cur     \* the position of the selection; 0 when there is none

Item == [name : 1 .. MaxName, dir : BOOLEAN]

\* Directories first, then files, each by name.
Before(a, b) == IF a.dir = b.dir THEN a.name <= b.name ELSE a.dir
Sorted(l) == \A i, j \in DOMAIN l : i < j => Before(l[i], l[j])
HasFile(l) == \E i \in DOMAIN l : ~ l[i].dir

Init == list = <<>> /\ cur = 0

Clear == list' = <<>> /\ cur' = 0

\* The list is kept sorted, if it is, with one exception: the first file may go
\* anywhere among the directories.
Insert(e) ==
    \E i \in 1 .. Len(list) + 1 :
        /\ list' = InsertAt(list, i, e)
        /\ Sorted(list) /\ (e.dir \/ HasFile(list)) => Sorted(list')
        /\ cur' = 1

Move ==
    /\ list # <<>>
    /\ cur' \in DOMAIN list /\ cur' \in {cur - 1, cur + 1}
    /\ UNCHANGED list

Locate(name) ==
    /\ \E i \in DOMAIN list : list[i].name = name /\ cur' = i
    /\ UNCHANGED list

Next == \/ Clear \/ Move
        \/ \E e \in Item : Insert(e)
        \/ \E n \in 1 .. MaxName : Locate(n)

Spec == Init /\ [][Next]_<<list, cur>>
=============================================================================
