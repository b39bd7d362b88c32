------------------------------- MODULE MCJob -------------------------------
(* Two FAT drives, one system and one NTFS file system.  One of them holds a  *)
(* small tree, another one may hold an entry of the same name.                *)
EXTENDS Job, TLC

MCType == "fat0" :> "FAT" @@ "fat1" :> "FAT" @@ "sys" :> "SYS" @@ "ntfs0" :> "NTFS"
FSs == DOMAIN MCType
Roots == [p \in {<<v>> : v \in FSs} |-> Dir]

Whole(v) == <<v, "a">> :> Dir @@ <<v, "a", "f">> :> File(<<v, "a", "f">>)
            @@ <<v, "a", "a">> :> Dir @@ <<v, "a", "a", "f">> :> File(<<v, "a", "a", "f">>)

\* The parts of a tree that hold the directories around each of their paths.
Trees(v) == {Restrict(Whole(v), S) : S \in
                {S \in SUBSET DOMAIN Whole(v) : <<v, "a">> \in S
                    /\ \A p \in S : Len(p) = 2 \/ Front(p) \in S}}
            \cup {<<v, "a">> :> File(<<v, "a">>)}
Others(v) == {<<>>} \cup {<<v, "a">> :> x : x \in {Dir, File(<<v, "a">>)}}

\* A directory on the NTFS drive has a path that fills the buffer.
MCLong == {<<"ntfs0", "a", "a">>}
LongTrees == {t @@ x : t \in {t \in Trees("ntfs0") : MCLong \subseteq DOMAIN t},
                       x \in {<<>>, <<"ntfs0", "a", "a", "a">> :> Dir}}

MCDisks == {Roots @@ t @@ o : t \in UNION {Trees(v) : v \in {"fat0", "sys"}},
                              o \in UNION {Others(v) : v \in {"fat1", "ntfs0"}}}
           \cup {Roots @@ t : t \in Trees("ntfs0") \cup LongTrees}
=============================================================================
