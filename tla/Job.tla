-------------------------------- MODULE Job --------------------------------
(***************************************************************************)
(* The copy and the delete job of fm.c.  A job first scans the selected    *)
(* entry and all that is below it into a list (the *_job_scan functions of *)
(* fsutil.c), asks the user, and works through the list: a copy from the   *)
(* front, so that a directory is made before what goes into it; a delete   *)
(* from the back, so that a directory is empty when its turn comes.        *)
(* Errors are ignored, the job goes on with the next entry.                *)
(*                                                                         *)
(* A path is the sequence of its names, the first one its file system.     *)
(* Any call may fail; `failed` holds the entries that calls failed for.    *)
(* What fm_file_copy makes of one file is the outcome of module FileCopy.  *)
(***************************************************************************)
EXTENDS Integers, Sequences, SequencesExt, FiniteSets, Functions

CONSTANTS
    Type,       \* the type of each file system: FAT, SYS or NTFS
    Disks,      \* what the disks may hold at the start
    Long        \* the directories whose path leaves no room in the buffer for a name

\* A disk maps the paths that exist to what is there.
Dir == [dir |-> TRUE, data |-> <<>>]
File(data) == [dir |-> FALSE, data |-> data]
Damaged == File(<<>>)       \* cut short, or partly written

NoName == ""    \* between two slashes

\* A file system is a tree: a path has names, the entries around it are directories.
ASSUME DisksAssumption ==
    \A d \in Disks :
        /\ d = [p \in DOMAIN d |-> d[p]]
        /\ \A p \in DOMAIN d :
              /\ p \in Seq(STRING) \ {<<>>} /\ NoName \notin Range(p)
              /\ d[p] = Dir \/ d[p] = File(d[p].data)
              /\ \A n \in 1 .. Len(p) - 1 :
                    SubSeq(p, 1, n) \in DOMAIN d /\ d[SubSeq(p, 1, n)] = Dir

VARIABLES
    disk,       \* the disks
    op,         \* "copy" or "delete"
    src, dst,   \* the selected entry; the directory in the other panel
    phase,      \* "scan", "ask", "run", then "done", "cancelled" or "refused"; "lost" in
                \* a scan and "endless" in the copy of a file that go round and round
    todo,       \* the scan's stack: what is still to be read of each directory
    entries,    \* job->entries
    ktr,        \* the number of the entry to be worked on
    failed,
    before      \* the disks when the job began

args == <<op, src, dst, before>>
vars == <<disk, args, phase, todo, entries, ktr, failed>>

Kind(p) == Type[Head(p)]
IsDir(p) == p \in DOMAIN disk /\ disk[p].dir
IsFile(p) == p \in DOMAIN disk /\ ~ disk[p].dir
Children(p) == {q \in DOMAIN disk : Len(q) = Len(p) + 1 /\ IsPrefix(p, q)}
Below(p, d) == {q \in DOMAIN d : IsPrefix(p, q)}

Init ==
    /\ before \in Disks /\ disk = before
    /\ op \in {"copy", "delete"}
    /\ src \in {p \in DOMAIN disk : Len(p) > 1}
    /\ IF op = "copy" THEN dst \in {p \in DOMAIN disk : disk[p].dir}
                      ELSE dst = Front(src)
    /\ phase = "scan" /\ todo = <<{src}>> /\ entries = <<>> /\ ktr = 1
    /\ failed = {}

-----------------------------------------------------------------------------
(* fs_job_scan: sys_job_scan, fat_job_scan, ntfs_job_scan *)

Listed(p, isdir) == entries' = Append(entries, [path |-> p, dir |-> isdir])
Read(p) == <<Head(todo) \ {p}>> \o Tail(todo)
Scanning == phase = "scan" /\ todo # <<>> /\ UNCHANGED <<disk, args, phase, ktr>>

\* "%s/%s" is cut: the path of an entry comes out as that of its directory.
Cut(p) == p # src /\ Front(p) \in Long

\* No memory for the entry, or no answer of the file system.
Unlisted(p) == failed' = failed \cup {p} /\ UNCHANGED entries

\* The size is asked for; without an answer the file is listed with the size -1,
\* unless it is the selected one.
ScanFile(p) ==
    /\ Scanning /\ p \in Head(todo) /\ IsFile(p) /\ ~ Cut(p)
    /\ todo' = Read(p)
    /\ (Listed(p, FALSE) /\ UNCHANGED failed) \/ Unlisted(p)

\* Mutant: directories are read but not listed.
ScanDir_unlisted(p) ==
    /\ Scanning /\ p \in Head(todo) /\ IsDir(p) /\ ~ Cut(p)
    /\ todo' = <<Children(p)>> \o Read(p)
    /\ UNCHANGED <<failed, entries>>

\* A directory is listed and then what it holds.
ScanDir(p) ==
    /\ Scanning /\ p \in Head(todo) /\ IsDir(p) /\ ~ Cut(p)
    /\ todo' = <<Children(p)>> \o Read(p)
    /\ (Listed(p, TRUE) /\ UNCHANGED failed) \/ Unlisted(p)

\* A directory that does not open is listed alone, on SYS as a file; one whose
\* status cannot be read is not listed.
ScanDirFail(p) ==
    /\ Scanning /\ p \in Head(todo) /\ IsDir(p) /\ ~ Cut(p)
    /\ todo' = Read(p)
    /\ Listed(p, Kind(p) # "SYS") \/ UNCHANGED entries
    /\ failed' = failed \cup {p}

\* Under its cut path an entry is taken for its directory once more.  A delete does not
\* get rid of it: the entry is still in it; and a copy has made it already.  The entry
\* itself is left out.
ScanCut(p) ==
    /\ Scanning /\ p \in Head(todo) /\ Cut(p)
    /\ todo' = Read(p)
    /\ Unlisted(p)

\* A directory is thus read in itself, and in this one again, until the stack is used up.
ScanLost(p) ==
    /\ phase = "scan" /\ todo # <<>> /\ p \in Head(todo) /\ Cut(p) /\ IsDir(p)
    /\ phase' = "lost"
    /\ UNCHANGED <<disk, args, todo, entries, ktr, failed>>

\* The end of a directory, or an error that is taken for it.
ScanUp ==
    /\ Scanning /\ (Head(todo) = {} \/ Len(todo) > 1)
    /\ todo' = Tail(todo)
    /\ failed' = failed \cup Head(todo)
    /\ UNCHANGED entries

ScanEnd ==
    /\ phase = "scan" /\ todo = <<>>
    /\ phase' = "ask"
    /\ UNCHANGED <<disk, args, todo, entries, ktr, failed>>

\* YesNoDialog
Ask ==
    /\ phase = "ask"
    /\ phase' \in {"run", "refused"}
    /\ UNCHANGED <<disk, args, todo, entries, ktr, failed>>

-----------------------------------------------------------------------------
(* The work, one entry at a time *)

\* Mutant: both jobs work from the front.
Entry_front == entries[ktr]

\* The entry worked on.
Entry == IF op = "copy" THEN entries[ktr] ELSE entries[Len(entries) + 1 - ktr]

\* The counter goes on, or the cancel button was pressed.
Advance ==
    /\ ktr' = ktr + 1
    /\ phase' \in {"run", "cancelled"}

Running(o) == phase = "run" /\ op = o /\ ktr <= Len(entries)
Put(q, x) == [p \in DOMAIN disk \cup {q} |-> IF p = q THEN x ELSE disk[p]]
Del(q) == Restrict(disk, DOMAIN disk \ {q})

\* FatFs and libntfs have one call to remove files and empty directories.
Empty(p) == IsDir(p) /\ Children(p) = {}
Removable(e) ==
    IF Kind(e.path) = "SYS"
    THEN IF e.dir THEN Empty(e.path) ELSE IsFile(e.path)
    ELSE IsFile(e.path) \/ Empty(e.path)

DeleteEntry ==
    /\ Running("delete")
    /\ \/ disk' = (IF Removable(Entry) THEN Del(Entry.path) ELSE disk)
          /\ UNCHANGED failed
       \/ failed' = failed \cup {Entry.path} /\ UNCHANGED disk
    /\ Advance
    /\ UNCHANGED <<args, todo, entries>>

\* Mutant: the name of the selected entry is cut off with its path.
Target_cut(p) == dst \o SubSeq(p, Len(src) + 1, Len(p))

\* dp: the path in the destination.
Target(p) == dst \o SubSeq(p, Len(src), Len(p))

\* The texts of a name and of its dp, cut at their slashes: the root of a file
\* system ends in one, and so does the dpath that fmapp_update() passes.
Text(p) == <<Head(p), NoName>> \o Tail(p)
TargetText(p) == Text(dst) \o <<NoName>> \o SubSeq(p, Len(src), Len(p))
SameFile(p) == Text(p) = TargetText(p)

\* f_mkdir, sysLv2FsMkdir, ps3ntfs_mkdir
CopyDir ==
    LET q == Target(Entry.path)
        ok == ~ SameFile(Entry.path) /\ q \notin DOMAIN disk /\ IsDir(Front(q))
    IN  /\ Running("copy") /\ Entry.dir
        /\ \/ disk' = (IF ok THEN Put(q, Dir) ELSE disk) /\ UNCHANGED failed
           \/ failed' = failed \cup {Entry.path} /\ UNCHANGED disk
        /\ Advance
        /\ UNCHANGED <<args, todo, entries>>

-----------------------------------------------------------------------------
(* fm_file_copy of the entry p to q, as module FileCopy has it *)

\* Between two FAT drives the destination is never mounted.
CrossFat == Kind(src) = "FAT" /\ Kind(dst) = "FAT" /\ Head(src) # Head(dst)
Opens(q) == IsDir(Front(q)) /\ ~ IsDir(q) /\ ~ CrossFat

\* "remove file on error": the call of FAT removes an empty directory, too.
Unlink(q) == IF ~ CrossFat /\ Kind(q) # "NTFS"
                /\ (IsFile(q) \/ (Kind(q) = "FAT" /\ Empty(q)))
             THEN Del(q) ELSE disk

\* Opening the destination cuts the file.  FatFs may still read what it held.
Copied(p, q) ==
    IF SameFile(p) \/ ~ IsFile(p) THEN {disk}
    ELSE IF ~ Opens(q) THEN {Unlink(q)}
    ELSE IF p # q THEN {Put(q, disk[p])}
    ELSE IF Kind(p) = "FAT" THEN {disk, Put(q, Damaged), Unlink(q)}
    ELSE {Put(q, Damaged)}

CopyFile ==
    LET p == Entry.path IN
    /\ Running("copy") /\ ~ Entry.dir
    /\ disk' \in Copied(p, Target(p))
    /\ Advance
    /\ UNCHANGED <<args, todo, entries, failed>>

\* A call fails, or the user cancels the copy of the file.
CopyFailed(p, q) ==
    /\ Running("copy") /\ ~ Entry.dir /\ ~ SameFile(p)
    /\ disk' \in {disk, Unlink(q)}
                 \cup (IF IsFile(p) /\ Opens(q) THEN {Put(q, Damaged)} ELSE {})
    /\ failed' = failed \cup {p}
    /\ UNCHANGED <<args, todo, entries>>

\* Mutant: a file whose copy failed is tried again.
CopyFileFail_retry ==
    /\ CopyFailed(Entry.path, Target(Entry.path))
    /\ UNCHANGED ktr /\ phase' \in {"run", "cancelled"}

CopyFileFail ==
    /\ CopyFailed(Entry.path, Target(Entry.path))
    /\ Advance

\* Between two NTFS drives -1 for a read and -1 for the write of that many bytes are
\* no errors: the loop goes on.
CopyEndless ==
    LET p == Entry.path
        q == Target(p)
    IN  /\ Running("copy") /\ ~ Entry.dir /\ ~ SameFile(p)
        /\ Kind(src) = "NTFS" /\ Kind(dst) = "NTFS" /\ IsFile(p) /\ Opens(q)
        /\ disk' = Put(q, Damaged)
        /\ failed' = failed \cup {p}
        /\ phase' = "endless"
        /\ UNCHANGED <<args, todo, entries, ktr>>

\* The calls have other results, or the user cancels.
EndlessStop ==
    LET p == Entry.path
        q == Target(p)
    IN  /\ phase = "endless"
        /\ disk' \in {disk, Put(q, disk[p])}
        /\ Advance
        /\ UNCHANGED <<args, todo, entries, failed>>

Finish ==
    /\ phase = "run" /\ ktr > Len(entries)
    /\ phase' = "done"
    /\ UNCHANGED <<disk, args, todo, entries, ktr, failed>>

Step ==
    \/ \E p \in DOMAIN disk :
          ScanFile(p) \/ ScanDir(p) \/ ScanDirFail(p) \/ ScanCut(p) \/ ScanLost(p)
    \/ ScanUp \/ ScanEnd \/ Ask
    \/ DeleteEntry \/ CopyDir \/ CopyFile \/ CopyFileFail \/ CopyEndless \/ Finish

Next == Step \/ EndlessStop

Spec == Init /\ [][Next]_vars

\* The job is one function that goes on; the user answers the dialog.  Nobody has to
\* end a copy that goes round and round.
FairSpec == Spec /\ WF_vars(Step)

-----------------------------------------------------------------------------
(* Properties *)

\* A delete job that ran to its end removed everything that no call failed for:
\* what is left is a directory around a failure or part of one.
DeletesTheRest ==
    op = "delete" /\ phase = "done" =>
        \A p \in Below(src, disk) : \E f \in failed : IsPrefix(p, f) \/ IsPrefix(f, p)

\* Nothing is in the way of the copy.
Clear == Below(Append(dst, Last(src)), before) = {}

\* A copy job that ran to its end copied everything that no call failed for, also
\* into a directory below the one that is copied; except files between FAT drives.
CopiesTheRest ==
    op = "copy" /\ phase = "done" /\ Clear =>
        \A p \in Below(src, before) :
            \/ \E f \in failed : IsPrefix(f, p)
            \/ CrossFat /\ ~ before[p].dir
            \/ Target(p) \in DOMAIN disk /\ disk[Target(p)] = before[p]

\* A job touches nothing but the entry deleted, or the copy of the entry copied.
Confined ==
    [][LET root == IF op = "delete" THEN src ELSE Append(dst, Last(src)) IN
       \A p \in DOMAIN disk \cup DOMAIN disk' :
           IsPrefix(root, p) \/ (p \in DOMAIN disk \cap DOMAIN disk' /\ disk[p] = disk'[p])]_vars

\* A job ends, also the copy of a directory into itself; but not the copy between
\* NTFS drives whose reads and writes all fail, as long as nobody cancels it, nor the
\* scan of a directory whose path fills its buffer and that holds another one.
Terminates ==
    \/ <>(phase \in {"done", "cancelled", "refused"})
    \/ <>[](phase = "endless" /\ Kind(src) = "NTFS" /\ Kind(dst) = "NTFS")
    \/ <>(phase = "lost" /\ \E p \in DOMAIN before :
                                IsPrefix(src, p) /\ p # src /\ before[p].dir /\ Front(p) \in Long)

\* "same file?": a copy job in which no call fails leaves its source as it was.
SourceKept ==
    op = "copy" /\ failed = {} =>
        \A p \in Below(src, before) : p \in DOMAIN disk /\ disk[p] = before[p]
=============================================================================
