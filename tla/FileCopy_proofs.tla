-------------------------- MODULE FileCopy_proofs --------------------------
(***************************************************************************)
(* Proofs of the safety properties of module FileCopy, for every length of *)
(* the file, size of the buffer and width of the integers that satisfy     *)
(* SizesAssumption.                                                        *)
(***************************************************************************)
EXTENDS FileCopy, TLAPS

\* The files are open where the code has opened and not yet closed them, and a
\* FAT file that was made is on a drive that is mounted.
OpenInv ==
    /\ pc \in {"malloc", "open_src", "close_dst", "unmount", "done"} => ~ src_ok
    /\ pc \in {"malloc", "open_src", "open_dst", "unmount", "done"} => ~ dst_ok
    /\ pc \in {"malloc", "close_dst", "unmount", "done"} => ~ buffer
    /\ dst = "new" /\ dstt = "FAT" /\ pc \notin {"unmount", "done"} => DstVol \in mounted

\* Only one drive is mounted, the one that Unmount unmounts if a file was opened.
MountInv ==
    /\ pc \in {"malloc", "open_src"} => mounted = {} /\ fsx = 0
    /\ pc = "open_dst" => /\ mounted = (IF srct = "FAT" THEN {SrcVol} ELSE {})
                          /\ fsx = (IF srct = "FAT" THEN 1 ELSE 0)
    /\ fsx > 0 => mounted \subseteq {IF srct = "FAT" THEN SrcVol ELSE DstVol}
    /\ pc = "done" /\ fsx > 0 => mounted = {}

\* Before the loop nothing is copied and no error is noted; in the loop the new
\* file is what was read, less the chunk that is still to be written, unless that
\* is libntfs' -1.
LoopInv ==
    /\ pc \in {"malloc", "open_src", "open_dst"} => dst # "new" /\ pos = 0
    /\ pc \in {"malloc", "open_src", "open_dst", "read", "write", "progress"} => ret = 0
    /\ pc \in {"read", "write", "progress"} => dst = "new" /\ good
    /\ pc \in {"read", "progress"} => dlen = pos
    /\ pc = "write" => \/ br \in 1 .. BSZ /\ dlen + br = pos
                       \/ br = U64 - 1 /\ dlen = pos

\* After the loop: what is known when no error was noted, and when one was.
EndInv ==
    /\ pc \in {"close", "close_dst", "unmount", "done"} /\ ret = 0 =>
         dst = "new" /\ dlen = ssz /\ (good \/ "close" \in hit)
    /\ pc \in {"unmount", "done"} /\ ret # 0 /\ dst = "new" =>
         dstt = "NTFS" \/ "unlink" \in hit

IInv == TypeOK /\ OpenInv /\ MountInv /\ LoopInv /\ EndInv

-----------------------------------------------------------------------------
\* -1 as a 64 bit number is beyond any chunk.
LEMMA Widths == BSZ < U64 - 1 /\ U32 > 0 /\ U64 \in Nat /\ BSZ \in Nat
  BY SizesAssumption

\* Every step keeps the invariant, one action at a time.
LEMMA Inductive == IInv /\ [Next]_vars => IInv'
<1> SUFFICES ASSUME IInv, [Next]_vars PROVE IInv'
  OBVIOUS
<1> USE Widths, SizesAssumption
<1> USE DEF IInv, args, srct, dstt, SrcVol, DstVol
<1>1. CASE Malloc
  <2>1. TypeOK'
    BY <1>1 DEF TypeOK, Faults, Malloc, NoFault, Fault
  <2>2. OpenInv'
    BY <1>1 DEF OpenInv, Malloc
  <2>3. MountInv'
    BY <1>1 DEF MountInv, Malloc
  <2>4. LoopInv'
    BY <1>1 DEF LoopInv, Malloc
  <2>5. EndInv'
    BY <1>1 DEF EndInv, LoopInv, Malloc
  <2> QED
    BY <2>1, <2>2, <2>3, <2>4, <2>5
<1>2. CASE OpenSrc
  <2>1. TypeOK'
    BY <1>2 DEF TypeOK, MountInv, OpenSrc, NoFault, MountSrc
  <2>2. OpenInv'
    BY <1>2 DEF OpenInv, OpenSrc, NoFault, MountSrc
  <2>3. MountInv'
    <3>1. mounted = {} /\ fsx = 0 /\ UNCHANGED pair
      BY <1>2 DEF MountInv, OpenSrc
    <3>2. mounted' = IF srct = "FAT" THEN {SrcVol} ELSE {}
      BY <1>2, <3>1 DEF OpenSrc, MountSrc
    <3>3. fsx' = IF srct = "FAT" THEN 1 ELSE 0
      BY <1>2, <3>1 DEF OpenSrc
    <3>4. pc' = "open_dst"
      BY <1>2 DEF OpenSrc
    <3> QED
      BY <3>1, <3>2, <3>3, <3>4 DEF MountInv
  <2>4. LoopInv'
    BY <1>2 DEF LoopInv, OpenSrc
  <2>5. EndInv'
    BY <1>2 DEF EndInv, OpenSrc
  <2> QED
    BY <2>1, <2>2, <2>3, <2>4, <2>5
<1>3. CASE OpenSrcFail
  <2>1. TypeOK'
    BY <1>3 DEF TypeOK, Faults, OpenSrcFail, Fault, MountSrc
  <2>2. OpenInv'
    BY <1>3 DEF OpenInv, OpenSrcFail
  <2>3. MountInv'
    BY <1>3 DEF MountInv, OpenSrcFail
  <2>4. LoopInv'
    BY <1>3 DEF LoopInv, OpenSrcFail
  <2>5. EndInv'
    BY <1>3 DEF EndInv, LoopInv, OpenSrcFail
  <2> QED
    BY <2>1, <2>2, <2>3, <2>4, <2>5
<1>4. CASE OpenDst
  <2>1. TypeOK'
    BY <1>4 DEF TypeOK, MountInv, OpenDst, NoFault, MountDst, DstMounted
  <2>2. OpenInv'
    BY <1>4 DEF OpenInv, OpenDst, NoFault, MountDst, DstMounted
  <2>3. MountInv'
    BY <1>4 DEF MountInv, OpenDst, NoFault, MountDst, DstMounted
  <2>4. LoopInv'
    BY <1>4 DEF LoopInv, OpenDst
  <2>5. EndInv'
    BY <1>4 DEF EndInv, OpenDst
  <2> QED
    BY <2>1, <2>2, <2>3, <2>4, <2>5
<1>5. CASE OpenDstFail
  <2>1. TypeOK'
    BY <1>5 DEF TypeOK, Faults, OpenDstFail, NoFault, Fault, MountDst, DstMounted
  <2>2. OpenInv'
    BY <1>5 DEF OpenInv, TypeOK, LoopInv, OpenDstFail, NoFault, Fault, MountDst, DstMounted
  <2>3. MountInv'
    BY <1>5 DEF MountInv, OpenDstFail, NoFault, Fault, MountDst, DstMounted
  <2>4. LoopInv'
    BY <1>5 DEF LoopInv, OpenDstFail
  <2>5. EndInv'
    BY <1>5 DEF EndInv, OpenDstFail
  <2> QED
    BY <2>1, <2>2, <2>3, <2>4, <2>5
<1>6. CASE ReadChunk
  <2>1. TypeOK'
    BY <1>6 DEF TypeOK, ReadChunk, NoFault
  <2>2. OpenInv'
    BY <1>6 DEF OpenInv, ReadChunk
  <2>3. MountInv'
    BY <1>6 DEF MountInv, ReadChunk
  <2>4. LoopInv'
    BY <1>6 DEF LoopInv, ReadChunk
  <2>5. EndInv'
    BY <1>6 DEF EndInv, ReadChunk
  <2> QED
    BY <2>1, <2>2, <2>3, <2>4, <2>5
<1>7. CASE ReadEnd
  <2>1. TypeOK'
    BY <1>7 DEF TypeOK, ReadEnd, NoFault
  <2>2. OpenInv'
    BY <1>7 DEF OpenInv, ReadEnd
  <2>3. MountInv'
    BY <1>7 DEF MountInv, ReadEnd
  <2>4. LoopInv'
    BY <1>7 DEF LoopInv, ReadEnd
  <2>5. EndInv'
    BY <1>7 DEF EndInv, LoopInv, ReadEnd
  <2> QED
    BY <2>1, <2>2, <2>3, <2>4, <2>5
<1>8. CASE ReadFail
  <2>1. TypeOK'
    BY <1>8 DEF TypeOK, Faults, ReadFail, Fault
  <2>2. OpenInv'
    BY <1>8 DEF OpenInv, ReadFail
  <2>3. MountInv'
    BY <1>8 DEF MountInv, ReadFail
  <2>4. LoopInv'
    BY <1>8 DEF LoopInv, ReadFail
  <2>5. EndInv'
    BY <1>8 DEF EndInv, ReadFail
  <2> QED
    BY <2>1, <2>2, <2>3, <2>4, <2>5
<1>9. CASE WriteOK
  <2>0. Requested \in Nat
    BY DEF TypeOK, Requested
  <2>1. TypeOK'
    BY <1>9 DEF TypeOK, WriteOK, NoFault, Store, Written, Requested
  <2>2. OpenInv'
    BY <1>9 DEF OpenInv, WriteOK, NoFault, Store, Written, Requested
  <2>3. MountInv'
    BY <1>9 DEF MountInv, WriteOK, NoFault, Store, Written, Requested
  <2>4. LoopInv'
    <3>1. CASE pc' = "close"
      BY <1>9, <3>1 DEF LoopInv, WriteOK
    <3>2. CASE pc' # "close"
      <4>1. br = Requested /\ Requested <= BSZ /\ pc' = "progress" /\ ret' = ret
        BY <1>9, <3>2 DEF WriteOK, Written
      <4>2. br \in 1 .. BSZ /\ dlen + br = pos
        BY <1>9, <2>0, <4>1 DEF LoopInv, WriteOK
      <4>3. dlen' = pos' /\ dst' = "new" /\ ret' = 0
        BY <1>9, <4>1, <4>2 DEF LoopInv, WriteOK, Store
      <4>4. good'
        BY <1>9, <4>1, <4>2 DEF LoopInv, WriteOK, Store
      <4> QED
        BY <4>1, <4>3, <4>4 DEF LoopInv
    <3> QED
      BY <3>1, <3>2
  <2>5. EndInv'
    BY <1>9 DEF EndInv, WriteOK, NoFault, Store, Written, Requested
  <2> QED
    BY <2>1, <2>2, <2>3, <2>4, <2>5
<1>10. CASE WriteShort
  <2>0. Requested \in Nat
    BY DEF TypeOK, Requested
  <2>1. TypeOK'
    <3>1. dlen' \in Nat /\ good' \in BOOLEAN /\ ret' \in {0, -1, -2}
      BY <1>10, <2>0 DEF TypeOK, LoopInv, WriteShort, Store, Written
    <3>2. pc' \in {"close", "progress"}
      BY <1>10 DEF WriteShort, Written
    <3>3. hit' \subseteq Faults
      BY <1>10 DEF TypeOK, Faults, WriteShort, WriteFault, NoFault, Fault
    <3> QED
      BY <1>10, <3>1, <3>2, <3>3 DEF TypeOK, WriteShort
  <2>2. OpenInv'
    BY <1>10 DEF OpenInv, WriteShort, NoFault, Fault, WriteFault, Store, Written, Requested
  <2>3. MountInv'
    BY <1>10 DEF MountInv, WriteShort, NoFault, Fault, WriteFault, Store, Written, Requested
  <2>4. LoopInv'
    BY <1>10 DEF LoopInv, WriteShort, NoFault, Fault, WriteFault, Store, Written, Requested
  <2>5. EndInv'
    BY <1>10 DEF EndInv, WriteShort, NoFault, Fault, WriteFault, Store, Written, Requested
  <2> QED
    BY <2>1, <2>2, <2>3, <2>4, <2>5
<1>11. CASE WriteFail
  <2>1. TypeOK'
    BY <1>11 DEF TypeOK, Faults, WriteFail, NoFault, Fault, WriteFault, Written, Requested
  <2>2. OpenInv'
    BY <1>11 DEF OpenInv, WriteFail, NoFault, Fault, WriteFault, Written, Requested
  <2>3. MountInv'
    BY <1>11 DEF MountInv, WriteFail, NoFault, Fault, WriteFault, Written, Requested
  <2>4. LoopInv'
    BY <1>11 DEF LoopInv, WriteFail, NoFault, Fault, WriteFault, Written, Requested
  <2>5. EndInv'
    BY <1>11 DEF EndInv, WriteFail, NoFault, Fault, WriteFault, Written, Requested
  <2> QED
    BY <2>1, <2>2, <2>3, <2>4, <2>5
<1>12. CASE Progress
  <2>1. TypeOK'
    BY <1>12 DEF TypeOK, Faults, Progress, NoFault, Fault
  <2>2. OpenInv'
    BY <1>12 DEF OpenInv, Progress
  <2>3. MountInv'
    BY <1>12 DEF MountInv, Progress
  <2>4. LoopInv'
    BY <1>12 DEF LoopInv, Progress
  <2>5. EndInv'
    BY <1>12 DEF EndInv, Progress
  <2> QED
    BY <2>1, <2>2, <2>3, <2>4, <2>5
<1>13. CASE CloseSrc
  <2>1. TypeOK'
    BY <1>13 DEF TypeOK, CloseSrc, NoFault
  <2>2. OpenInv'
    BY <1>13 DEF OpenInv, CloseSrc
  <2>3. MountInv'
    BY <1>13 DEF MountInv, CloseSrc
  <2>4. LoopInv'
    BY <1>13 DEF LoopInv, CloseSrc
  <2>5. EndInv'
    BY <1>13 DEF EndInv, CloseSrc, NoFault
  <2> QED
    BY <2>1, <2>2, <2>3, <2>4, <2>5
<1>14. CASE CloseDst
  <2>1. TypeOK'
    BY <1>14 DEF TypeOK, CloseDst, CloseOutcome, Removes
  <2>2. OpenInv'
    BY <1>14 DEF OpenInv, CloseDst
  <2>3. MountInv'
    BY <1>14 DEF MountInv, CloseDst
  <2>4. LoopInv'
    BY <1>14 DEF LoopInv, CloseDst
  <2>5. EndInv'
    BY <1>14 DEF EndInv, OpenInv, CloseDst, CloseOutcome, Removes
  <2> QED
    BY <2>1, <2>2, <2>3, <2>4, <2>5
<1>15. CASE Unmount
  <2>1. TypeOK'
    BY <1>15 DEF TypeOK, Unmount, NoFault
  <2>2. OpenInv'
    BY <1>15 DEF OpenInv, Unmount
  <2>3. MountInv'
    BY <1>15 DEF MountInv, Unmount
  <2>4. LoopInv'
    BY <1>15 DEF LoopInv, Unmount
  <2>5. EndInv'
    BY <1>15 DEF EndInv, Unmount, NoFault
  <2> QED
    BY <2>1, <2>2, <2>3, <2>4, <2>5
<1>16. CASE UNCHANGED vars
  BY <1>16 DEF vars, TypeOK, OpenInv, MountInv, LoopInv, EndInv
<1> QED
  BY <1>1, <1>2, <1>3, <1>4, <1>5, <1>6, <1>7, <1>8, <1>9, <1>10, <1>11, <1>12, <1>13, <1>14, <1>15, <1>16 DEF Next

-----------------------------------------------------------------------------
LEMMA InitInv == Init => IInv
<1> SUFFICES ASSUME Init PROVE IInv
  OBVIOUS
<1>1. TypeOK
  <2>1. pos \in 0 .. ssz /\ br \in 0 .. U64 - 1 /\ dlen \in Nat
    BY SizesAssumption, Widths DEF Init
  <2>2. fsx \in 0 .. 2 /\ ret \in {0, -1, -2} /\ ssz \in 0 .. MaxLen
    BY DEF Init
  <2>3. buffer \in BOOLEAN /\ src_ok \in BOOLEAN /\ dst_ok \in BOOLEAN /\ good \in BOOLEAN
    BY Zenon DEF Init
  <2>4. mounted \subseteq {"src", "dst"} /\ hit \subseteq Faults
    BY DEF Init
  <2>5. /\ pair \in Pair /\ dst \in {"absent", "old", "new"}
        /\ pc = "malloc"
    BY DEF Init
  <2> QED
    BY <2>1, <2>2, <2>3, <2>4, <2>5 DEF TypeOK
<1>2. OpenInv /\ LoopInv /\ EndInv
  BY DEF Init, OpenInv, LoopInv, EndInv
<1>3. MountInv
  BY DEF Init, MountInv
<1> QED
  BY <1>1, <1>2, <1>3 DEF IInv

LEMMA Invariant == Spec => []IInv
  BY InitInv, Inductive, PTL DEF Spec

\* The variables have their types: no more is read than the file holds, and br is a
\* 64 bit number.
THEOREM TypeCorrect == Spec => []TypeOK
<1>1. IInv => TypeOK
  BY DEF IInv
<1> QED
  BY <1>1, Invariant, PTL

\* fm_file_copy returns 0 only for a complete and identical copy, unless the flush
\* at the close failed.
THEOREM SuccessCorrect == Spec => []SuccessMeansCopied
<1>1. IInv => SuccessMeansCopied
  BY DEF IInv, EndInv, SuccessMeansCopied
<1> QED
  BY <1>1, Invariant, PTL

\* A copy that did not succeed leaves no partial file on FAT and SYS.
THEOREM NoPartialCorrect == Spec => []NoPartialFile
<1>1. IInv => NoPartialFile
  BY DEF IInv, EndInv, NoPartialFile
<1> QED
  BY <1>1, Invariant, PTL

\* Whatever fails, the files are closed, the buffer is freed and the drive unmounted.
THEOREM ReleasedCorrect == Spec => []Released
<1>1. IInv => Released
  BY DEF IInv, TypeOK, OpenInv, MountInv, Released
<1> QED
  BY <1>1, Invariant, PTL
=============================================================================
