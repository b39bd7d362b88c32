------------------------------ MODULE MCPanels ------------------------------
(* A FAT device with a directory that has an empty directory and a file; an   *)
(* empty system file system, and for the runs with two devices a NTFS one.    *)
EXTENDS Panels, TLC

MCTree ==
    <<"sys">>            :> {} @@
    <<"fat0">>           :> {Entry("a", TRUE)} @@
    <<"fat0", "a">>      :> {Entry("b", TRUE), Entry("f", FALSE)} @@
    <<"fat0", "a", "b">> :> {}

MCTwoTree == MCTree @@ <<"ntfs0">> :> {}

\* Smaller, for the run where devices and entries go away: a failed scan of NTFS
\* is no error, one of the system file system is.
MCSmallTree ==
    <<"sys">>        :> {} @@
    <<"ntfs0">>      :> {Entry("a", TRUE)} @@
    <<"ntfs0", "a">> :> {}

MCOrder == <<"a", "b", "f", "fat0", "ntfs0", "sys">>
=============================================================================
