------------------------------ MODULE FileCopy ------------------------------
(***************************************************************************)
(* fm_file_copy() of fm.c: one file is copied in chunks between two of the *)
(* three kinds of file system (FAT through FatFs, the system's through the *)
(* kernel, NTFS through libntfs), which report errors in different ways:   *)
(* FatFs and the kernel by a result code, libntfs by -1 as the number of   *)
(* bytes, which the code keeps in an unsigned 64 bit integer.              *)
(*                                                                         *)
(* The data is its length, and whether what was written is what was read.  *)
(* Any call may fail at any time; `hit` remembers which kinds did.         *)
(***************************************************************************)
EXTENDS Integers

CONSTANTS
    MaxLen,     \* bound: the length of the source file
    BSZ,        \* the size of the copy buffer; 3 MB in the code
    U32, U64    \* 2^32 and 2^64

ASSUME SizesAssumption ==
    /\ MaxLen \in Nat
    /\ BSZ \in Nat \ {0} /\ U32 \in Nat /\ U64 \in Nat
    /\ BSZ < U32 /\ U32 < U64

Types == {"FAT", "SYS", "NTFS"}

\* Where src and dst are; same: on one FAT drive.
Pair == {p \in [srct : Types, dstt : Types, same : BOOLEAN] :
            p.same => p.srct = "FAT" /\ p.dstt = "FAT"}

\* The calls that can fail, and the user's cancel button.
Faults == {"malloc", "open", "read", "write", "close", "unlink", "cancel"}

VARIABLES
    pair,               \* the arguments srct and dstt, and where src and dst are
    ssz,                \* the length of the source file
    pc,
    ret,                \* 0, -1 on an error, -2 when cancelled
    buffer,             \* the copy buffer is allocated
    src_ok, dst_ok,     \* the files are open
    mounted,            \* the FAT drives mounted on the local work area `fs`
    fsx,                \* FAT files that were opened
    pos,                \* bytes read from the source
    br,                 \* the result of the last read, unsigned 64 bit
    dst,                \* what is at the destination: nothing, an older file or
                        \* the new one
    dlen, good,         \* length of the new file; it is a prefix of the source
    hit                 \* the kinds of faults that happened

args == <<pair, ssz>>
vars == <<args, pc, ret, buffer, src_ok, dst_ok, mounted, fsx, pos, br, dst, dlen,
          good, hit>>

srct == pair.srct
dstt == pair.dstt
SrcVol == "src"
DstVol == IF pair.same THEN "src" ELSE "dst"

Init ==
    /\ pair \in Pair /\ ssz \in 0 .. MaxLen
    /\ pc = "malloc" /\ ret = 0
    /\ buffer = FALSE /\ src_ok = FALSE /\ dst_ok = FALSE
    /\ mounted = {} /\ fsx = 0
    /\ pos = 0 /\ br = 0
    /\ dst \in {"absent", "old"} /\ dlen = 0 /\ good = TRUE
    /\ hit = {}

NoFault == UNCHANGED hit
Fault(f) == hit' = hit \cup {f}

-----------------------------------------------------------------------------
Malloc ==
    /\ pc = "malloc"
    /\ \/ NoFault /\ buffer' = TRUE /\ pc' = "open_src" /\ UNCHANGED ret
       \/ Fault("malloc") /\ ret' = -1 /\ pc' = "done" /\ UNCHANGED buffer
    /\ UNCHANGED <<args, src_ok, dst_ok, mounted, fsx, pos, br, dst, dlen, good>>

MountSrc == mounted' = IF srct = "FAT" THEN mounted \cup {SrcVol} ELSE mounted

OpenSrc ==
    /\ pc = "open_src"
    /\ NoFault
    /\ MountSrc
    /\ src_ok' = TRUE
    /\ fsx' = IF srct = "FAT" THEN fsx + 1 ELSE fsx
    /\ pc' = "open_dst"
    /\ UNCHANGED <<args, ret, buffer, dst_ok, pos, br, dst, dlen, good>>

\* The early return frees the buffer only.
OpenSrcFail ==
    /\ pc = "open_src"
    /\ Fault("open")
    /\ MountSrc
    /\ ret' = -1 /\ buffer' = FALSE
    /\ pc' = "done"
    /\ UNCHANGED <<args, src_ok, dst_ok, fsx, pos, br, dst, dlen, good>>

\* The work area goes to the destination's drive if no FAT source has it.
MountDst == mounted' = IF dstt = "FAT" /\ fsx = 0 THEN mounted \cup {DstVol}
                                                  ELSE mounted

\* FatFs opens a file on a mounted drive only.
DstMounted == dstt = "FAT" => DstVol \in mounted'

OpenDst ==
    /\ pc = "open_dst"
    /\ NoFault
    /\ MountDst /\ DstMounted
    /\ dst_ok' = TRUE
    /\ fsx' = IF dstt = "FAT" THEN fsx + 1 ELSE fsx
    /\ dst' = "new" /\ dlen' = 0 /\ good' = TRUE
    /\ pc' = "read"
    /\ UNCHANGED <<args, ret, buffer, src_ok, pos, br>>

OpenDstFail ==
    /\ pc = "open_dst"
    /\ MountDst
    /\ IF DstMounted THEN Fault("open") ELSE NoFault
    /\ ret' = -1
    /\ pc' = "close"
    /\ UNCHANGED <<args, buffer, src_ok, dst_ok, fsx, pos, br, dst, dlen, good>>

-----------------------------------------------------------------------------
(* The loop *)

\* Mutant: the last chunk is not cut at the end of the file.
ReadChunk_whole ==
    /\ pc = "read" /\ pos < ssz
    /\ NoFault
    /\ br' = BSZ /\ pos' = pos + BSZ
    /\ pc' = "write"
    /\ UNCHANGED <<args, ret, buffer, src_ok, dst_ok, mounted, fsx, dst, dlen, good>>

\* Up to BSZ bytes, at least one before the end of the file.
ReadChunk ==
    /\ pc = "read" /\ pos < ssz
    /\ NoFault
    /\ \E n \in 1 .. BSZ :
          /\ pos + n <= ssz
          /\ br' = n /\ pos' = pos + n
    /\ pc' = "write"
    /\ UNCHANGED <<args, ret, buffer, src_ok, dst_ok, mounted, fsx, dst, dlen, good>>

\* Mutant: only a negative number of bytes ends the loop.
ReadEnd_loop ==
    /\ pc = "read" /\ pos = ssz
    /\ NoFault
    /\ br' = 0
    /\ pc' = "write"
    /\ UNCHANGED <<args, ret, buffer, src_ok, dst_ok, mounted, fsx, pos, dst, dlen, good>>

\* The end of the file: 0 bytes, which ends the loop.
ReadEnd ==
    /\ pc = "read" /\ pos = ssz
    /\ NoFault
    /\ br' = 0
    /\ pc' = "close"
    /\ UNCHANGED <<args, ret, buffer, src_ok, dst_ok, mounted, fsx, pos, dst, dlen, good>>

\* libntfs' -1 is not an error here: as an unsigned number it is not <= 0 either.
ReadFail ==
    /\ pc = "read"
    /\ Fault("read")
    /\ IF srct = "NTFS"
       THEN br' = U64 - 1 /\ pc' = "write" /\ UNCHANGED ret
       ELSE br' = 0 /\ ret' = -1 /\ pc' = "close"
    /\ UNCHANGED <<args, buffer, src_ok, dst_ok, mounted, fsx, pos, dst, dlen, good>>

\* FatFs takes an unsigned int.
Requested == IF dstt = "FAT" THEN br % U32 ELSE br

\* n bytes are appended.  Beyond the buffer they are not the source's.
Store(n) == dlen' = dlen + n /\ good' = (good /\ (br <= BSZ \/ n = 0))

\* Mutant: the number written is not compared with the number read.
Written_unchecked(bw, err) ==
    IF err THEN ret' = -1 /\ pc' = "close" ELSE pc' = "progress" /\ UNCHANGED ret

\* What the code makes of a write of bw bytes, with or without an error code.
Written(bw, err) ==
    IF err \/ br # bw
    THEN ret' = -1 /\ pc' = "close"
    ELSE pc' = "progress" /\ UNCHANGED ret

WriteOK ==
    /\ pc = "write" /\ Requested <= BSZ
    /\ NoFault
    /\ Store(Requested)
    /\ Written(Requested, FALSE)
    /\ UNCHANGED <<args, buffer, src_ok, dst_ok, mounted, fsx, pos, br, dst>>

\* A request beyond the buffer cannot be carried out in full.
WriteFault == IF Requested > BSZ THEN NoFault ELSE Fault("write")

\* A full disk: fewer bytes, and no error code.
WriteShort ==
    /\ pc = "write"
    /\ WriteFault
    /\ \E n \in 0 .. BSZ :
          /\ n < Requested
          /\ Store(n)
          /\ Written(n, FALSE)
    /\ UNCHANGED <<args, buffer, src_ok, dst_ok, mounted, fsx, pos, br, dst>>

\* An error: libntfs' -1 is a number of bytes again.
WriteFail ==
    /\ pc = "write"
    /\ WriteFault
    /\ IF dstt = "NTFS" THEN Written(U64 - 1, FALSE) ELSE Written(0, TRUE)
    /\ UNCHANGED <<args, buffer, src_ok, dst_ok, mounted, fsx, pos, br, dst, dlen, good>>

\* The progress bar is drawn and the cancel button read.
Progress ==
    /\ pc = "progress"
    /\ \/ NoFault /\ pc' = "read" /\ UNCHANGED ret
       \/ Fault("cancel") /\ ret' = -2 /\ pc' = "close"
    /\ UNCHANGED <<args, buffer, src_ok, dst_ok, mounted, fsx, pos, br, dst, dlen, good>>

-----------------------------------------------------------------------------
(* The end *)

CloseSrc ==
    /\ pc = "close"
    /\ NoFault
    /\ buffer' = FALSE /\ src_ok' = FALSE
    /\ pc' = "close_dst"
    /\ UNCHANGED <<args, ret, dst_ok, mounted, fsx, pos, br, dst, dlen, good>>

\* Mutant: a partial copy is removed only when the user cancelled.
Removes_cancelled == ret = -2 /\ dstt # "NTFS" /\ (dstt = "FAT" => DstVol \in mounted)

\* "remove file on error", which is not done on NTFS.
Removes == ret # 0 /\ dstt # "NTFS" /\ (dstt = "FAT" => DstVol \in mounted)

\* A failed close loses what the library had not written yet; its result is ignored.
CloseOutcome(F) ==
    /\ F \subseteq {f \in {"close", "unlink"} : IF f = "close" THEN dst_ok ELSE Removes}
    /\ hit' = hit \cup F
    /\ good' = (good /\ "close" \notin F)
    /\ dst' = IF Removes /\ "unlink" \notin F THEN "absent" ELSE dst

\* Mutant: a cancelled copy does not close its file.
CloseDst_ok ==
    /\ pc = "close_dst"
    /\ \E F \in SUBSET Faults : CloseOutcome(F)
    /\ dst_ok' = (ret = -2 /\ dst_ok)
    /\ pc' = "unmount"
    /\ UNCHANGED <<args, ret, buffer, src_ok, mounted, fsx, pos, br, dlen>>

CloseDst ==
    /\ pc = "close_dst"
    /\ \E F \in SUBSET Faults : CloseOutcome(F)
    /\ dst_ok' = FALSE
    /\ pc' = "unmount"
    /\ UNCHANGED <<args, ret, buffer, src_ok, mounted, fsx, pos, br, dlen>>

Unmount ==
    /\ pc = "unmount"
    /\ NoFault
    /\ mounted' = IF fsx = 0 THEN mounted
                  ELSE mounted \ {IF srct = "FAT" THEN SrcVol ELSE DstVol}
    /\ pc' = "done"
    /\ UNCHANGED <<args, ret, buffer, src_ok, dst_ok, fsx, pos, br, dst, dlen, good>>

Next == \/ Malloc \/ OpenSrc \/ OpenSrcFail \/ OpenDst \/ OpenDstFail
        \/ ReadChunk \/ ReadEnd \/ ReadFail
        \/ WriteOK \/ WriteShort \/ WriteFail \/ Progress
        \/ CloseSrc \/ CloseDst \/ Unmount

Spec == Init /\ [][Next]_vars

\* A function that can take a step takes it.
FairSpec == Spec /\ WF_vars(Next)

-----------------------------------------------------------------------------
(* Properties *)

TypeOK ==
    /\ pair \in Pair /\ ssz \in 0 .. MaxLen
    /\ pc \in {"malloc", "open_src", "open_dst", "read", "write", "progress",
               "close", "close_dst", "unmount", "done"}
    /\ ret \in {0, -1, -2}
    /\ buffer \in BOOLEAN /\ src_ok \in BOOLEAN /\ dst_ok \in BOOLEAN
    /\ mounted \subseteq {"src", "dst"} /\ fsx \in 0 .. 2
    /\ pos \in 0 .. ssz /\ br \in 0 .. U64 - 1
    /\ dst \in {"absent", "old", "new"} /\ dlen \in Nat /\ good \in BOOLEAN
    /\ hit \subseteq Faults

\* A copy that reports success has made a complete and identical file, whatever
\* failed in between; but the result of the last flush, at the close, is ignored.
SuccessMeansCopied ==
    pc = "done" /\ ret = 0 /\ "close" \notin hit => dst = "new" /\ dlen = ssz /\ good

\* A copy that failed or was cancelled leaves no partial file behind on FAT and on
\* the system's file system, as far as it can be removed.
NoPartialFile ==
    pc = "done" /\ ret # 0 /\ dst = "new" => dstt = "NTFS" \/ "unlink" \in hit

\* However the copy ends, its files are closed and its buffer is freed; and the
\* drive whose files it opened does not stay mounted on the work area, which is in
\* the stack frame of the copy.
Released ==
    pc = "done" => /\ ~ src_ok /\ ~ dst_ok /\ ~ buffer
                   /\ fsx > 0 => mounted = {}

\* The copy ends, unless libntfs answers the reads and the writes with -1 for ever.
Terminates == <>(pc = "done") \/ <>[](srct = "NTFS" /\ dstt = "NTFS" /\ br = U64 - 1)

\* "rectangle for copy files/dirs": when no call fails the file is copied, between
\* any two places.
CopyWorks == pc = "done" /\ hit = {} => ret = 0
=============================================================================
