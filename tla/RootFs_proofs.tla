---------------------------- MODULE RootFs_proofs ----------------------------
(***************************************************************************)
(* The device table has its types and its counters count its rows, for any *)
(* number of slots and partitions, whatever the user plugs and unplugs.    *)
(* No NTFS volume leaks or is shared, and the list on the screen is the    *)
(* table.  When the user is calm, the FAT drive numbers are dense and      *)
(* bound to the right devices, and no FAT device that is plugged in is     *)
(* dropped.                                                                *)
(***************************************************************************)
EXTENDS RootFs, FiniteSetTheorems, TLAPS

USE DEF NULL, None, FS_TNONE, FS_TFAT, FS_TNTFS

\* The row the NTFS attempt works on is a free one.
PcInv == pc = "attach_ntfs" => k \in Slot /\ rootfs[k].fs = NULL

IInv == TypeOK /\ CounterInv /\ PcInv

-----------------------------------------------------------------------------
(* Rows and their number *)

\* A set of rows is finite and has at most NSlots members, less if a row is
\* not in it.
LEMMA RowsFinite ==
    ASSUME NEW S \in SUBSET Slot
    PROVE  /\ IsFiniteSet(S)
           /\ Cardinality(S) \in 0 .. NSlots
           /\ \A r \in Slot \ S : Cardinality(S) < NSlots
<1>1. IsFiniteSet(Slot) /\ Cardinality(Slot) = NSlots
  BY NSlotsAssumption, FS_Interval DEF Slot
<1>2. IsFiniteSet(S) /\ Cardinality(S) <= NSlots /\ Cardinality(S) \in Nat
  BY <1>1, FS_Subset, FS_CardinalityType
<1>3. ASSUME NEW r \in Slot \ S PROVE Cardinality(S) < NSlots
  <2>1. S # Slot
    BY <1>3
  <2>2. Cardinality(S) # NSlots
    BY <1>1, <2>1, FS_Subset
  <2> QED BY <1>2, <2>2, NSlotsAssumption
<1> QED BY <1>2, <1>3, NSlotsAssumption

\* Writing row k changes the membership of k only.
LEMMA RowsUpdate ==
    ASSUME rootfs \in [Slot -> Entry], k \in Slot,
           NEW e \in Entry, rootfs' = [rootfs EXCEPT ![k] = e],
           NEW CONSTANT type
    PROVE  Rows(type)' = IF e.fs_type = type THEN Rows(type) \cup {k}
                                             ELSE Rows(type) \ {k}
BY DEF Rows

\* Filling a free row with an entry of a type adds one to that type's number of
\* rows and nothing to the other's; the counter was below NSlots.
LEMMA Filled ==
    ASSUME IInv, k \in Slot, rootfs[k].fs = NULL,
           NEW e \in Entry, rootfs' = [rootfs EXCEPT ![k] = e],
           NEW CONSTANT type, type # FS_TNONE
    PROVE  /\ Cardinality(Rows(type)) \in 0 .. NSlots - 1
           /\ Cardinality(Rows(type)') = IF e.fs_type = type
                  THEN Cardinality(Rows(type)) + 1 ELSE Cardinality(Rows(type))
<1>1. rootfs \in [Slot -> Entry] /\ rootfs[k].fs_type = FS_TNONE
  BY DEF IInv, TypeOK, CounterInv
<1>2. k \notin Rows(type) /\ Rows(type) \in SUBSET Slot
  BY <1>1 DEF Rows
<1>3. Rows(type)' = IF e.fs_type = type THEN Rows(type) \cup {k} ELSE Rows(type)
  <2>1. Rows(type) \ {k} = Rows(type)
    BY <1>2
  <2>2. Rows(type)' = IF e.fs_type = type THEN Rows(type) \cup {k}
                                          ELSE Rows(type) \ {k}
    BY <1>1, RowsUpdate
  <2> QED BY <2>1, <2>2
<1>4. IsFiniteSet(Rows(type)) /\ Cardinality(Rows(type)) \in 0 .. NSlots - 1
  BY <1>2, RowsFinite, NSlotsAssumption
<1>5. Cardinality(Rows(type) \cup {k}) = Cardinality(Rows(type)) + 1
  BY <1>2, <1>4, FS_AddElement
<1> QED BY <1>3, <1>4, <1>5

\* Clearing a row takes one off the number of rows of its type.
LEMMA Cleared ==
    ASSUME IInv, k \in Slot, rootfs' = [rootfs EXCEPT ![k] = NoEntry],
           NEW CONSTANT type, type # FS_TNONE
    PROVE  Cardinality(Rows(type)') = IF rootfs[k].fs_type = type
               THEN Cardinality(Rows(type)) - 1 ELSE Cardinality(Rows(type))
<1>1. rootfs \in [Slot -> Entry] /\ NoEntry \in Entry
  BY DEF IInv, TypeOK, NoEntry, Entry, Name
<1>2. Rows(type)' = Rows(type) \ {k}
  BY <1>1, RowsUpdate DEF NoEntry
<1>3. Rows(type) \in SUBSET Slot /\ (k \in Rows(type) <=> rootfs[k].fs_type = type)
  BY DEF Rows
<1>4. IsFiniteSet(Rows(type))
  BY <1>3, RowsFinite
<1> QED BY <1>2, <1>3, <1>4, FS_RemoveElement

\* A step that leaves the table alone leaves the counting alone.
LEMMA CounterStable ==
    ASSUME CounterInv, UNCHANGED <<rootfs, fs_fat_k, fs_ntfs_k>>
    PROVE  CounterInv'
BY DEF CounterInv, Rows

-----------------------------------------------------------------------------
(* The invariant *)

LEMMA InitInv == Init => IInv
<1> SUFFICES ASSUME Init PROVE IInv
  OBVIOUS
<1>1. TypeOK
  BY NSlotsAssumption
  DEF Init, TypeOK, NoEntry, NoDevice, Entry, Name, Device, Slot, Drive
<1>2. Rows(FS_TFAT) = {} /\ Rows(FS_TNTFS) = {}
  BY DEF Init, Rows, NoEntry
<1>3. CounterInv
  BY <1>2, FS_EmptySet DEF Init, CounterInv, NoEntry
<1> QED BY <1>1, <1>3 DEF IInv, PcInv, Init

LEMMA DetachFatInv == IInv /\ DetachFat => IInv'
<1> SUFFICES ASSUME IInv, DetachFat PROVE IInv'
  OBVIOUS
<1>1. k \in Slot /\ NoEntry \in Entry
  BY NSlotsAssumption
  DEF IInv, TypeOK, DetachFat, Slot, NoEntry, Entry, Name
<1>2. rootfs' = [rootfs EXCEPT ![k] = NoEntry]
  BY DEF DetachFat, detach_fs
<1>3. rootfs[k].fs_type = FS_TFAT
  BY DEF DetachFat, FatGone
<1>4. /\ Cardinality(Rows(FS_TFAT)') = Cardinality(Rows(FS_TFAT)) - 1
      /\ Cardinality(Rows(FS_TNTFS)') = Cardinality(Rows(FS_TNTFS))
  BY <1>1, <1>2, <1>3, Cleared
<1>5. CounterInv'
  <2>1. /\ fs_fat_k' = Cardinality(Rows(FS_TFAT)')
        /\ fs_ntfs_k' = Cardinality(Rows(FS_TNTFS)')
    BY <1>4 DEF IInv, CounterInv, DetachFat, detach_fs
  <2>2. \A s \in Slot : rootfs'[s].fs = NULL <=> rootfs'[s].fs_type = FS_TNONE
    BY <1>1, <1>2 DEF IInv, TypeOK, CounterInv, NoEntry
  <2> QED BY <2>1, <2>2 DEF CounterInv
<1>6. TypeOK'
  <2>1. fs_fat_k' \in 0 .. NSlots
    BY NSlotsAssumption DEF IInv, TypeOK, DetachFat, FatGone, detach_fs
  <2>2. drive' \in [Drive -> Slot \cup {None}]
    BY DEF IInv, TypeOK, DetachFat, fflib_detach
  <2>3. k' \in 0 .. NSlots
    BY NSlotsAssumption DEF IInv, TypeOK, DetachFat, NextRow
  <2>4. rootfs' \in [Slot -> Entry]
    BY <1>1, <1>2 DEF IInv, TypeOK
  <2> QED BY <2>1, <2>2, <2>3, <2>4
          DEF IInv, TypeOK, DetachFat, detach_fs, NextRow
<1>7. PcInv'
  BY DEF PcInv, DetachFat, NextRow
<1> QED BY <1>5, <1>6, <1>7 DEF IInv

LEMMA DetachNtfsInv == IInv /\ DetachNtfs => IInv'
<1> SUFFICES ASSUME IInv, DetachNtfs PROVE IInv'
  OBVIOUS
<1>1. k \in Slot /\ NoEntry \in Entry
  BY NSlotsAssumption
  DEF IInv, TypeOK, DetachNtfs, Slot, NoEntry, Entry, Name
<1>2. rootfs' = [rootfs EXCEPT ![k] = NoEntry]
  BY DEF DetachNtfs, detach_fs
<1>3. rootfs[k].fs_type = FS_TNTFS
  BY DEF DetachNtfs, NtfsGone
<1>4. /\ Cardinality(Rows(FS_TNTFS)') = Cardinality(Rows(FS_TNTFS)) - 1
      /\ Cardinality(Rows(FS_TFAT)') = Cardinality(Rows(FS_TFAT))
  BY <1>1, <1>2, <1>3, Cleared
<1>5. CounterInv'
  <2>1. /\ fs_fat_k' = Cardinality(Rows(FS_TFAT)')
        /\ fs_ntfs_k' = Cardinality(Rows(FS_TNTFS)')
    BY <1>4 DEF IInv, CounterInv, DetachNtfs, detach_fs
  <2>2. \A s \in Slot : rootfs'[s].fs = NULL <=> rootfs'[s].fs_type = FS_TNONE
    BY <1>1, <1>2 DEF IInv, TypeOK, CounterInv, NoEntry
  <2> QED BY <2>1, <2>2 DEF CounterInv
<1>6. TypeOK'
  <2>1. fs_ntfs_k' \in 0 .. NSlots
    BY NSlotsAssumption DEF IInv, TypeOK, DetachNtfs, NtfsGone, detach_fs
  <2>2. k' \in 0 .. NSlots
    BY NSlotsAssumption DEF IInv, TypeOK, DetachNtfs, NextRow
  <2>3. rootfs' \in [Slot -> Entry]
    BY <1>1, <1>2 DEF IInv, TypeOK
  <2>4. mounts' \in [Slot -> SUBSET Volume] /\ vols' \subseteq Volume
    BY DEF IInv, TypeOK, DetachNtfs
  <2> QED BY <2>1, <2>2, <2>3, <2>4
          DEF IInv, TypeOK, DetachNtfs, detach_fs, NextRow
<1>7. PcInv'
  BY DEF PcInv, DetachNtfs, NextRow
<1> QED BY <1>5, <1>6, <1>7 DEF IInv

LEMMA AttachFatInv == IInv /\ AttachFat => IInv'
<1> SUFFICES ASSUME IInv, AttachFat PROVE IInv'
  OBVIOUS
<1> DEFINE e == [fs |-> <<"fat", fs_fat_k>>, fs_type |-> FS_TFAT,
                 fs_idx |-> fs_fat_k, fs_parts |-> -1]
<1>1. k \in Slot
  BY NSlotsAssumption DEF IInv, TypeOK, AttachFat, Slot
<1>2. rootfs' = [rootfs EXCEPT ![k] = e]
  BY DEF AttachFat, attach_fs
<1>3. rootfs[k].fs = NULL /\ rootfs[k].fs_type = FS_TNONE
  BY <1>1 DEF AttachFat, IInv, CounterInv
<1>4. fs_fat_k \in 0 .. NSlots - 1
  <2>1. Rows(FS_TFAT) \in SUBSET Slot /\ k \notin Rows(FS_TFAT)
    BY <1>3 DEF Rows
  <2>2. Cardinality(Rows(FS_TFAT)) < NSlots
    BY <1>1, <2>1, RowsFinite
  <2> QED BY <2>2, NSlotsAssumption DEF IInv, TypeOK, CounterInv
<1>5. e \in Entry
  BY <1>4 DEF Entry, Name, Drive
<1> HIDE DEF e
<1>6. e.fs_type = FS_TFAT /\ e.fs # NULL
  BY DEF e
<1>7. /\ Cardinality(Rows(FS_TFAT)') = Cardinality(Rows(FS_TFAT)) + 1
      /\ Cardinality(Rows(FS_TNTFS)') = Cardinality(Rows(FS_TNTFS))
  BY <1>1, <1>2, <1>3, <1>5, <1>6, Filled
<1>8. CounterInv'
  <2>1. /\ fs_fat_k' = Cardinality(Rows(FS_TFAT)')
        /\ fs_ntfs_k' = Cardinality(Rows(FS_TNTFS)')
    BY <1>7 DEF IInv, CounterInv, AttachFat, attach_fs
  <2>2. \A s \in Slot : rootfs'[s].fs = NULL <=> rootfs'[s].fs_type = FS_TNONE
    BY <1>1, <1>2, <1>6 DEF IInv, TypeOK, CounterInv
  <2> QED BY <2>1, <2>2 DEF CounterInv
<1>9. TypeOK'
  <2>1. fs_fat_k' \in 0 .. NSlots
    BY <1>4, NSlotsAssumption DEF AttachFat, attach_fs
  <2>2. drive' \in [Drive -> Slot \cup {None}]
    BY <1>1 DEF IInv, TypeOK, AttachFat, fflib_attach
  <2>3. k' \in 0 .. NSlots
    BY NSlotsAssumption DEF IInv, TypeOK, AttachFat, NextRow
  <2>4. rootfs' \in [Slot -> Entry]
    BY <1>1, <1>2, <1>5 DEF IInv, TypeOK
  <2> QED BY <2>1, <2>2, <2>3, <2>4
          DEF IInv, TypeOK, AttachFat, attach_fs, NextRow
<1>10. PcInv'
  BY DEF PcInv, AttachFat, NextRow
<1> QED BY <1>8, <1>9, <1>10 DEF IInv

LEMMA AttachNtfsInv == IInv /\ AttachNtfs => IInv'
<1> SUFFICES ASSUME IInv, AttachNtfs PROVE IInv'
  OBVIOUS
<1>1. k \in Slot /\ rootfs[k].fs = NULL /\ rootfs[k].fs_type = FS_TNONE
  BY DEF IInv, PcInv, AttachNtfs, CounterInv
<1>2. port[k].parts \in Int
  BY <1>1, MaxPartsAssumption DEF IInv, TypeOK, Device
<1>3. PICK new \in SUBSET (Volume \ vols), first \in Volume :
         /\ mounts' = [mounts EXCEPT ![k] = new]
         /\ vols' = vols \cup new
         /\ attach_fs(fs_ntfs_k, fs_fat_k, FS_TNTFS, <<"ntfs", first>>,
                      port[k].parts)
  BY DEF AttachNtfs
<1> DEFINE e == [fs |-> <<"ntfs", first>>, fs_type |-> FS_TNTFS,
                 fs_idx |-> fs_ntfs_k, fs_parts |-> port[k].parts]
<1>4. rootfs' = [rootfs EXCEPT ![k] = e]
  BY <1>3 DEF attach_fs
<1>5. fs_ntfs_k \in 0 .. NSlots - 1
  <2>1. Rows(FS_TNTFS) \in SUBSET Slot /\ k \notin Rows(FS_TNTFS)
    BY <1>1 DEF Rows
  <2>2. Cardinality(Rows(FS_TNTFS)) < NSlots
    BY <1>1, <2>1, RowsFinite
  <2> QED BY <2>2, NSlotsAssumption DEF IInv, TypeOK, CounterInv
<1>6. e \in Entry
  BY <1>2, <1>5 DEF Entry, Name
<1> HIDE DEF e
<1>7. e.fs_type = FS_TNTFS /\ e.fs # NULL
  BY DEF e
<1>8. /\ Cardinality(Rows(FS_TNTFS)') = Cardinality(Rows(FS_TNTFS)) + 1
      /\ Cardinality(Rows(FS_TFAT)') = Cardinality(Rows(FS_TFAT))
  BY <1>1, <1>4, <1>6, <1>7, Filled
<1>9. CounterInv'
  <2>1. /\ fs_fat_k' = Cardinality(Rows(FS_TFAT)')
        /\ fs_ntfs_k' = Cardinality(Rows(FS_TNTFS)')
    BY <1>3, <1>8 DEF IInv, CounterInv, attach_fs
  <2>2. \A s \in Slot : rootfs'[s].fs = NULL <=> rootfs'[s].fs_type = FS_TNONE
    BY <1>1, <1>4, <1>7 DEF IInv, TypeOK, CounterInv
  <2> QED BY <2>1, <2>2 DEF CounterInv
<1>10. TypeOK'
  <2>1. fs_ntfs_k' \in 0 .. NSlots
    BY <1>3, <1>5, NSlotsAssumption DEF attach_fs
  <2>2. k' \in 0 .. NSlots
    BY <1>1, NSlotsAssumption DEF AttachNtfs, Slot
  <2>3. rootfs' \in [Slot -> Entry]
    BY <1>1, <1>4, <1>6 DEF IInv, TypeOK
  <2>4. mounts' \in [Slot -> SUBSET Volume] /\ vols' \subseteq Volume
    BY <1>3 DEF IInv, TypeOK
  <2> QED BY <1>3, <2>1, <2>2, <2>3, <2>4
          DEF IInv, TypeOK, AttachNtfs, attach_fs
<1>11. PcInv'
  BY DEF PcInv, AttachNtfs
<1> QED BY <1>9, <1>10, <1>11 DEF IInv

\* The steps that do not write the table.
LEMMA QuietInv ==
    ASSUME IInv, DetachKeep \/ DetachDone \/ AttachSkip \/ AttachFatFail
                 \/ AttachNone \/ ProbeBegin \/ ProbeEnd \/ LeaveRoot
                 \/ ReturnToRoot \/ SwitchToRoot
    PROVE  IInv'
<1> USE NSlotsAssumption DEF IInv, TypeOK, table
<1>1. root_scan_path \subseteq Name
  BY DEF root_scan_path, Entry
<1>2. CASE DetachKeep
  BY <1>2, CounterStable DEF DetachKeep, NextRow, PcInv
<1>3. CASE DetachDone
  BY <1>3, CounterStable DEF DetachDone, PcInv
<1>4. CASE AttachSkip
  BY <1>4, CounterStable DEF AttachSkip, NextRow, PcInv
<1>5. CASE AttachFatFail
  <2>1. CounterInv'
    BY <1>5, CounterStable DEF AttachFatFail
  <2>2. drive' \in [Drive -> Slot \cup {None}]
    BY <1>5 DEF AttachFatFail, fflib_detach
  <2>3. PcInv'
    BY <1>5 DEF AttachFatFail, PcInv, Slot
  <2> QED BY <1>5, <2>1, <2>2, <2>3 DEF AttachFatFail
<1>6. CASE AttachNone
  BY <1>6, CounterStable DEF AttachNone, PcInv, Slot
<1>7. CASE ProbeBegin
  BY <1>7, CounterStable DEF ProbeBegin, PcInv
<1>8. CASE ProbeEnd
  BY <1>1, <1>8, CounterStable DEF ProbeEnd, PcInv
<1>9. CASE LeaveRoot
  BY <1>9, CounterStable DEF LeaveRoot, PcInv
<1>10. CASE ReturnToRoot
  BY <1>1, <1>10, CounterStable DEF ReturnToRoot, PcInv
<1>11. CASE SwitchToRoot
  BY <1>11, CounterStable DEF SwitchToRoot, PcInv
<1> QED BY <1>2, <1>3, <1>4, <1>5, <1>6, <1>7, <1>8, <1>9, <1>10, <1>11

LEMMA HotPlugInv ==
    ASSUME IInv, NEW s \in Slot,
           Unplug(s) \/ \E d \in Device : Plug(s, d)
    PROVE  IInv'
<1>1. /\ UNCHANGED <<drive, vols, mounts, table, pc, k, atRoot, listing>>
      /\ \E d \in Device : port' = [port EXCEPT ![s] = d]
  BY DEF Unplug, Plug, Device, NoDevice
<1>2. CounterInv'
  BY <1>1, CounterStable DEF IInv, table
<1> QED BY <1>1, <1>2 DEF IInv, TypeOK, PcInv, table

LEMMA NextInv == IInv /\ [Next]_vars => IInv'
<1> SUFFICES ASSUME IInv, [Next]_vars PROVE IInv'
  OBVIOUS
<1>1. CASE Next
  BY <1>1, DetachFatInv, DetachNtfsInv, AttachFatInv, AttachNtfsInv, QuietInv,
     HotPlugInv
  DEF Next, Probe, User, Detach, Attach
<1>2. CASE UNCHANGED vars
  <2>1. CounterInv'
    BY <1>2, CounterStable DEF IInv, vars
  <2> QED BY <1>2, <2>1 DEF IInv, TypeOK, PcInv, vars
<1> QED BY <1>1, <1>2

LEMMA Inductive == Spec => []IInv
<1> QED BY InitInv, NextInv, PTL DEF Spec

-----------------------------------------------------------------------------
\* Every variable of the device table has its type; in particular a drive number
\* handed to fflib is always one of FatFs' volumes.
THEOREM TypeCorrect == Spec => []TypeOK
<1>1. IInv => TypeOK
  BY DEF IInv
<1> QED BY <1>1, Inductive, PTL

\* _attach_fs and _detach_fs keep fs_fat_k and fs_ntfs_k equal to the number of
\* rows of each type, and names and types in step.
THEOREM CounterCorrect == Spec => []CounterInv
<1>1. IInv => CounterInv
  BY DEF IInv
<1> QED BY <1>1, Inductive, PTL

-----------------------------------------------------------------------------
(* The FAT drive numbers, with a calm user *)

\* A FAT row whose device is gone is the last one numbered, the detach loop has
\* not passed it, and there is none while the attach loop hands out numbers.
DeadLast ==
    \A s \in Slot :
        rootfs[s].fs_type = FS_TFAT /\ port[s].fs # "fat" =>
            /\ rootfs[s].fs_idx = fs_fat_k - 1
            /\ pc \in {"idle", "detach"}
            /\ pc = "detach" => s >= k

FatInv == FatDense /\ DeadLast

LEMMA FatRows ==
    ASSUME IInv, FatInv, NEW s \in Slot, rootfs[s].fs_type = FS_TFAT
    PROVE  /\ rootfs[s].fs_idx \in 0 .. fs_fat_k - 1
           /\ rootfs[s].fs_idx \in Drive
           /\ drive[rootfs[s].fs_idx] = s
           /\ rootfs[s].fs = <<"fat", rootfs[s].fs_idx>>
           /\ fs_fat_k # 0 /\ rootfs[s].fs # NULL
<1>1. s \in Rows(FS_TFAT)
  BY DEF Rows
<1>2. /\ rootfs[s].fs_idx \in 0 .. fs_fat_k - 1
      /\ rootfs[s].fs = <<"fat", rootfs[s].fs_idx>>
      /\ drive[rootfs[s].fs_idx] = s
  BY <1>1 DEF FatInv, FatDense
<1> QED BY <1>2, NSlotsAssumption DEF IInv, TypeOK, Drive

\* Used by the steps that write neither the table nor the drives.
LEMMA DenseStable ==
    ASSUME FatDense, UNCHANGED <<rootfs, fs_fat_k, drive>>
    PROVE  FatDense'
BY DEF FatDense, Rows

\* The FAT row the detach loop drops is that of a device that is gone.
LEMMA GoneIsGone ==
    ASSUME IInv, FatInv, k \in Slot, FatGone
    PROVE  port[k].fs # "fat" /\ rootfs[k].fs_idx = fs_fat_k - 1
<1>1. rootfs[k].fs_type = FS_TFAT /\ ~ f_opendir_OK(rootfs[k].fs[2])
  BY DEF FatGone
<1>2. rootfs[k].fs[2] = rootfs[k].fs_idx /\ drive[rootfs[k].fs_idx] = k
  BY <1>1, FatRows
<1>3. port[k].fs # "fat"
  BY <1>1, <1>2 DEF f_opendir_OK, Slot
<1> QED BY <1>1, <1>3 DEF FatInv, DeadLast

LEMMA InitFat == Init => FatInv
<1> SUFFICES ASSUME Init PROVE FatInv
  OBVIOUS
<1>1. Rows(FS_TFAT) = {} /\ fs_fat_k = 0
  BY DEF Init, Rows, NoEntry
<1>2. FatDense
  BY <1>1 DEF FatDense
<1> QED BY <1>2 DEF FatInv, DeadLast, Init, NoEntry

LEMMA DetachFatFat == IInv /\ FatInv /\ DetachFat => FatInv'
<1> SUFFICES ASSUME IInv, FatInv, DetachFat PROVE FatInv'
  OBVIOUS
<1>1. k \in Slot /\ NoEntry \in Entry
  BY NSlotsAssumption
  DEF IInv, TypeOK, DetachFat, Slot, NoEntry, Entry, Name
<1>2. /\ rootfs' = [rootfs EXCEPT ![k] = NoEntry]
      /\ fs_fat_k' = fs_fat_k - 1
      /\ drive' = [drive EXCEPT ![rootfs[k].fs_idx] = None]
      /\ rootfs[k].fs_type = FS_TFAT
  BY DEF DetachFat, detach_fs, fflib_detach, FatGone
<1>3. rootfs[k].fs_idx = fs_fat_k - 1
  BY <1>1, GoneIsGone DEF DetachFat
<1>4. Rows(FS_TFAT)' = Rows(FS_TFAT) \ {k}
  BY <1>1, <1>2, RowsUpdate DEF IInv, TypeOK, NoEntry
<1>5. ASSUME NEW s \in Rows(FS_TFAT)'
      PROVE  /\ s \in Slot /\ s # k /\ rootfs'[s] = rootfs[s]
             /\ rootfs[s].fs_type = FS_TFAT
             /\ rootfs[s].fs_idx \in 0 .. fs_fat_k - 2
             /\ drive'[rootfs[s].fs_idx] = s
  <2>1. s \in Slot /\ s # k /\ rootfs'[s] = rootfs[s] /\ rootfs[s].fs_type = FS_TFAT
    BY <1>1, <1>2, <1>4 DEF Rows, IInv, TypeOK
  <2>2. /\ rootfs[s].fs_idx \in 0 .. fs_fat_k - 1 /\ rootfs[s].fs_idx \in Drive
        /\ drive[rootfs[s].fs_idx] = s /\ drive[rootfs[k].fs_idx] = k
    BY <1>1, <1>2, <2>1, FatRows
  <2>3. rootfs[s].fs_idx # fs_fat_k - 1
    BY <1>3, <2>1, <2>2
  <2> QED BY <1>2, <1>3, <2>1, <2>2, <2>3, NSlotsAssumption DEF IInv, TypeOK
<1>6. {rootfs'[s].fs_idx : s \in Rows(FS_TFAT)'} = 0 .. fs_fat_k' - 1
  <2>1. ASSUME NEW i \in 0 .. fs_fat_k - 2
        PROVE  \E s \in Rows(FS_TFAT)' : rootfs'[s].fs_idx = i
    <3>1. fs_fat_k \in Nat /\ i \in 0 .. fs_fat_k - 1 /\ i # fs_fat_k - 1
      BY NSlotsAssumption DEF IInv, TypeOK
    <3>2. PICK s \in Rows(FS_TFAT) : rootfs[s].fs_idx = i
      BY <3>1 DEF FatInv, FatDense
    <3>3. s \in Rows(FS_TFAT)'
      BY <1>3, <1>4, <3>1, <3>2
    <3> QED BY <1>5, <3>2, <3>3
  <2>2. fs_fat_k' - 1 = fs_fat_k - 2
    BY <1>2, NSlotsAssumption DEF IInv, TypeOK
  <2> QED BY <1>5, <2>1, <2>2
<1>7. FatDense'
  <2>1. ASSUME NEW s \in Rows(FS_TFAT)'
        PROVE  /\ rootfs'[s].fs = <<"fat", rootfs'[s].fs_idx>>
               /\ drive'[rootfs'[s].fs_idx] = s
    BY <1>5, FatRows
  <2> QED BY <1>6, <2>1 DEF FatDense
<1>8. DeadLast'
  <2>1. ASSUME NEW s \in Slot, rootfs'[s].fs_type = FS_TFAT
        PROVE  port'[s].fs = "fat"
    <3>1. s \in Rows(FS_TFAT)'
      BY <2>1 DEF Rows
    <3>2. rootfs[s].fs_idx # fs_fat_k - 1 /\ rootfs[s].fs_type = FS_TFAT
      BY <1>5, <3>1, NSlotsAssumption DEF IInv, TypeOK
    <3> QED BY <3>2 DEF FatInv, DeadLast, DetachFat
  <2> QED BY <2>1 DEF DeadLast
<1> QED BY <1>7, <1>8 DEF FatInv

LEMMA AttachFatFat == IInv /\ FatInv /\ AttachFat => FatInv'
<1> SUFFICES ASSUME IInv, FatInv, AttachFat PROVE FatInv'
  OBVIOUS
<1> DEFINE e == [fs |-> <<"fat", fs_fat_k>>, fs_type |-> FS_TFAT,
                 fs_idx |-> fs_fat_k, fs_parts |-> -1]
<1>1. k \in Slot /\ rootfs[k].fs_type = FS_TNONE /\ port[k].fs = "fat"
  BY NSlotsAssumption DEF IInv, TypeOK, CounterInv, AttachFat, Slot
<1>2. /\ rootfs' = [rootfs EXCEPT ![k] = e]
      /\ fs_fat_k' = fs_fat_k + 1
      /\ drive' = [drive EXCEPT ![fs_fat_k] = k]
      /\ UNCHANGED port
  BY DEF AttachFat, attach_fs, fflib_attach
<1>3. fs_fat_k \in Drive
  <2>1. Rows(FS_TFAT) \in SUBSET Slot /\ k \notin Rows(FS_TFAT)
    BY <1>1 DEF Rows
  <2>2. Cardinality(Rows(FS_TFAT)) < NSlots
    BY <1>1, <2>1, RowsFinite
  <2> QED BY <2>2, NSlotsAssumption DEF IInv, TypeOK, CounterInv, Drive
<1>4. e \in Entry /\ e.fs_type = FS_TFAT /\ e.fs_idx = fs_fat_k
      /\ e.fs = <<"fat", fs_fat_k>>
  BY <1>3 DEF Entry, Name, Drive
<1> HIDE DEF e
<1>5. Rows(FS_TFAT)' = Rows(FS_TFAT) \cup {k}
  BY <1>1, <1>2, <1>4, RowsUpdate DEF IInv, TypeOK
<1>6. rootfs'[k] = e /\ drive'[fs_fat_k] = k
  BY <1>1, <1>2, <1>3 DEF IInv, TypeOK
<1>7. ASSUME NEW s \in Rows(FS_TFAT)
      PROVE  /\ rootfs'[s] = rootfs[s]
             /\ rootfs[s].fs_idx \in 0 .. fs_fat_k - 1
             /\ rootfs[s].fs = <<"fat", rootfs[s].fs_idx>>
             /\ drive'[rootfs[s].fs_idx] = s
  <2>1. s \in Slot /\ s # k /\ rootfs[s].fs_type = FS_TFAT
    BY <1>1 DEF Rows
  <2>2. /\ rootfs[s].fs_idx \in 0 .. fs_fat_k - 1 /\ rootfs[s].fs_idx \in Drive
        /\ drive[rootfs[s].fs_idx] = s
        /\ rootfs[s].fs = <<"fat", rootfs[s].fs_idx>>
    BY <2>1, FatRows
  <2>3. rootfs[s].fs_idx # fs_fat_k
    BY <2>2, NSlotsAssumption DEF IInv, TypeOK
  <2> QED BY <1>2, <2>1, <2>2, <2>3 DEF IInv, TypeOK
<1>8. {rootfs'[s].fs_idx : s \in Rows(FS_TFAT)'} = 0 .. fs_fat_k' - 1
  <2>1. ASSUME NEW i \in 0 .. fs_fat_k
        PROVE  \E s \in Rows(FS_TFAT)' : rootfs'[s].fs_idx = i
    <3>1. CASE i = fs_fat_k
      BY <1>4, <1>5, <1>6, <3>1
    <3>2. CASE i # fs_fat_k
      <4>1. i \in 0 .. fs_fat_k - 1
        BY <3>2, NSlotsAssumption DEF IInv, TypeOK
      <4>2. PICK s \in Rows(FS_TFAT) : rootfs[s].fs_idx = i
        BY <4>1 DEF FatInv, FatDense
      <4> QED BY <1>5, <1>7, <4>2
    <3> QED BY <3>1, <3>2
  <2>2. ASSUME NEW s \in Rows(FS_TFAT)'
        PROVE  rootfs'[s].fs_idx \in 0 .. fs_fat_k
    <3>1. CASE s = k
      BY <1>4, <1>6, <3>1, NSlotsAssumption DEF IInv, TypeOK
    <3>2. CASE s # k
      <4>1. s \in Rows(FS_TFAT)
        BY <1>5, <3>2
      <4>2. rootfs'[s].fs_idx \in 0 .. fs_fat_k - 1
        BY <1>7, <4>1
      <4> QED BY <4>2, NSlotsAssumption DEF IInv, TypeOK
    <3> QED BY <3>1, <3>2
  <2>3. fs_fat_k' - 1 = fs_fat_k
    BY <1>2, NSlotsAssumption DEF IInv, TypeOK
  <2> QED BY <2>1, <2>2, <2>3
<1>9. FatDense'
  <2>1. ASSUME NEW s \in Rows(FS_TFAT)'
        PROVE  /\ rootfs'[s].fs = <<"fat", rootfs'[s].fs_idx>>
               /\ drive'[rootfs'[s].fs_idx] = s
    BY <1>4, <1>5, <1>6, <1>7
  <2> QED BY <1>8, <2>1 DEF FatDense
<1>10. DeadLast'
  <2>1. ASSUME NEW s \in Slot, rootfs'[s].fs_type = FS_TFAT
        PROVE  port'[s].fs = "fat"
    <3>1. CASE s = k
      BY <1>1, <1>2, <3>1
    <3>2. CASE s # k
      BY <1>2, <2>1, <3>2 DEF FatInv, DeadLast, AttachFat, IInv, TypeOK
    <3> QED BY <3>1, <3>2
  <2> QED BY <2>1 DEF DeadLast
<1> QED BY <1>9, <1>10 DEF FatInv

\* Steps on rows that are not FAT rows, before and after.
LEMMA OtherRowFat ==
    ASSUME IInv, FatInv, k \in Slot, rootfs[k].fs_type # FS_TFAT,
           NEW e \in Entry, e.fs_type # FS_TFAT,
           rootfs' = [rootfs EXCEPT ![k] = e],
           UNCHANGED <<port, drive, fs_fat_k>>,
           \/ pc' = pc /\ k' = k + 1
           \/ pc' = "attach" /\ pc = "attach_ntfs"
    PROVE  FatInv'
<1>1. Rows(FS_TFAT)' = Rows(FS_TFAT)
  <2>1. Rows(FS_TFAT)' = Rows(FS_TFAT) \ {k}
    BY RowsUpdate DEF IInv, TypeOK
  <2>2. k \notin Rows(FS_TFAT)
    BY DEF Rows
  <2> QED BY <2>1, <2>2
<1>2. \A s \in Slot \ {k} : rootfs'[s] = rootfs[s]
  BY DEF IInv, TypeOK
<1>3. \A s \in Rows(FS_TFAT) : rootfs'[s] = rootfs[s]
  BY <1>2 DEF Rows
<1>4. FatDense'
  <2>1. {rootfs'[s].fs_idx : s \in Rows(FS_TFAT)} = {rootfs[s].fs_idx : s \in Rows(FS_TFAT)}
    BY <1>3
  <2> QED BY <1>1, <1>3, <2>1 DEF FatInv, FatDense
<1>5. rootfs'[k] = e
  BY DEF IInv, TypeOK
<1>6. DeadLast'
  <2>1. ASSUME NEW s \in Slot, rootfs'[s].fs_type = FS_TFAT, port'[s].fs # "fat"
        PROVE  /\ rootfs'[s].fs_idx = fs_fat_k' - 1
               /\ pc' \in {"idle", "detach"}
               /\ pc' = "detach" => s >= k'
    <3>1. s # k /\ rootfs'[s] = rootfs[s]
      BY <1>2, <1>5, <2>1
    <3>2. /\ rootfs[s].fs_idx = fs_fat_k - 1 /\ pc \in {"idle", "detach"}
          /\ pc = "detach" => s >= k
      BY <2>1, <3>1 DEF FatInv, DeadLast
    <3>3. pc' = pc /\ k' = k + 1
      BY <3>2
    <3> QED BY <3>1, <3>2, <3>3 DEF Slot
  <2> QED BY <2>1 DEF DeadLast
<1> QED BY <1>4, <1>6 DEF FatInv

LEMMA NtfsFat ==
    ASSUME IInv, IInv', FatInv, DetachNtfs \/ AttachNtfs
    PROVE  FatInv'
<1>1. CASE DetachNtfs
  <2> DEFINE e == NoEntry
  <2>1. k \in Slot /\ e \in Entry /\ e.fs_type # FS_TFAT
    BY <1>1, NSlotsAssumption
    DEF IInv, TypeOK, DetachNtfs, Slot, NoEntry, Entry, Name
  <2>2. rootfs[k].fs_type # FS_TFAT
    BY <1>1 DEF DetachNtfs, NtfsGone
  <2>3. /\ rootfs' = [rootfs EXCEPT ![k] = e]
        /\ UNCHANGED <<port, drive, fs_fat_k>>
        /\ pc' = pc /\ k' = k + 1
    BY <1>1 DEF DetachNtfs, detach_fs, NextRow
  <2> HIDE DEF e
  <2> QED BY <2>1, <2>2, <2>3, OtherRowFat
<1>2. CASE AttachNtfs
  <2>1. k \in Slot /\ rootfs[k].fs_type # FS_TFAT
    BY <1>2 DEF IInv, PcInv, AttachNtfs, CounterInv
  <2>2. PICK first \in Volume :
           attach_fs(fs_ntfs_k, fs_fat_k, FS_TNTFS, <<"ntfs", first>>,
                     port[k].parts)
    BY <1>2 DEF AttachNtfs
  <2> DEFINE e == [fs |-> <<"ntfs", first>>, fs_type |-> FS_TNTFS,
                   fs_idx |-> fs_ntfs_k, fs_parts |-> port[k].parts]
  <2>3. rootfs' = [rootfs EXCEPT ![k] = e] /\ UNCHANGED fs_fat_k
    BY <2>2 DEF attach_fs
  <2>4. e.fs_type # FS_TFAT
    OBVIOUS
  <2> HIDE DEF e
  <2>5. e \in Entry
    <3>1. rootfs'[k] = e
      BY <2>1, <2>3 DEF IInv, TypeOK
    <3> QED BY <2>1, <3>1 DEF IInv, TypeOK
  <2>6. UNCHANGED <<port, drive>> /\ pc' = "attach" /\ pc = "attach_ntfs"
    BY <1>2 DEF AttachNtfs
  <2> QED BY <2>1, <2>3, <2>4, <2>5, <2>6, OtherRowFat
<1> QED BY <1>1, <1>2

LEMMA QuietFat ==
    ASSUME IInv, FatInv,
           DetachKeep \/ DetachDone \/ AttachSkip \/ AttachFatFail
           \/ AttachNone \/ ProbeBegin \/ ProbeEnd \/ LeaveRoot \/ ReturnToRoot
           \/ SwitchToRoot
    PROVE  FatInv'
<1> USE DEF FatInv, DeadLast, table
<1>1. CASE DetachKeep
  <2>1. k \in Slot
    BY <1>1, NSlotsAssumption DEF IInv, TypeOK, DetachKeep, Slot
  <2>2. CASE rootfs[k].fs_type = FS_TFAT
    <3>1. port[k].fs = "fat"
      <4>1. ~ FatGone /\ fs_fat_k # 0
        BY <1>1, <2>1, <2>2, FatRows DEF DetachKeep
      <4>2. f_opendir_OK(rootfs[k].fs[2])
        BY <2>2, <4>1 DEF FatGone
      <4>3. rootfs[k].fs[2] = rootfs[k].fs_idx /\ drive[rootfs[k].fs_idx] = k
        BY <2>1, <2>2, FatRows
      <4> QED BY <4>2, <4>3 DEF f_opendir_OK
    <3>2. ASSUME NEW s \in Slot, s # k, s >= k PROVE s >= k + 1
      BY <2>1, <3>2 DEF Slot
    <3> QED BY <1>1, <3>1, <3>2, DenseStable DEF DetachKeep, NextRow
  <2>3. CASE rootfs[k].fs_type # FS_TFAT
    <3>1. ASSUME NEW s \in Slot, s # k, s >= k PROVE s >= k + 1
      BY <2>1, <3>1 DEF Slot
    <3> QED BY <1>1, <2>3, <3>1, DenseStable DEF DetachKeep, NextRow
  <2> QED BY <2>2, <2>3
<1>2. CASE DetachDone
  <2>1. \A s \in Slot : ~ (s >= k)
    BY <1>2, NSlotsAssumption DEF DetachDone, Slot
  <2> QED BY <1>2, <2>1, DenseStable DEF DetachDone
<1>3. CASE AttachSkip
  BY <1>3, DenseStable DEF AttachSkip, NextRow
<1>4. CASE AttachFatFail
  <2>1. drive' = [drive EXCEPT ![fs_fat_k] = None] /\ UNCHANGED <<rootfs, fs_fat_k, port>>
    BY <1>4 DEF AttachFatFail, fflib_detach
  <2>2. ASSUME NEW s \in Slot, rootfs[s].fs_type = FS_TFAT
        PROVE  drive'[rootfs[s].fs_idx] = s
    <3>1. rootfs[s].fs_idx \in 0 .. fs_fat_k - 1 /\ drive[rootfs[s].fs_idx] = s
          /\ rootfs[s].fs_idx \in Drive
      BY <2>2, FatRows
    <3>2. rootfs[s].fs_idx # fs_fat_k
      BY <3>1, NSlotsAssumption DEF IInv, TypeOK
    <3> QED BY <2>1, <3>1, <3>2 DEF IInv, TypeOK
  <2>3. FatDense'
    BY <2>1, <2>2 DEF FatDense, Rows
  <2> QED BY <1>4, <2>1, <2>3 DEF AttachFatFail
<1>5. CASE AttachNone
  BY <1>5, DenseStable DEF AttachNone
<1>6. CASE ProbeBegin
  BY <1>6, DenseStable DEF ProbeBegin, Slot
<1>7. CASE ProbeEnd
  BY <1>7, DenseStable DEF ProbeEnd
<1>8. CASE LeaveRoot
  BY <1>8, DenseStable DEF LeaveRoot
<1>9. CASE ReturnToRoot
  BY <1>9, DenseStable DEF ReturnToRoot
<1>10. CASE SwitchToRoot
  BY <1>10, DenseStable DEF SwitchToRoot
<1> QED BY <1>1, <1>2, <1>3, <1>4, <1>5, <1>6, <1>7, <1>8, <1>9, <1>10

\* The only place where the user's calm matters.
LEMMA HotPlugFat ==
    ASSUME Calm, IInv, FatInv, NEW s \in Slot,
           Unplug(s) \/ \E d \in Device : Plug(s, d)
    PROVE  FatInv'
<1>1. UNCHANGED <<drive, table, pc, k>>
  BY DEF Unplug, Plug
<1>2. FatDense'
  BY <1>1, DenseStable DEF FatInv, table
<1>3. \A t \in Slot \ {s} : port'[t] = port[t]
  BY DEF Unplug, Plug, IInv, TypeOK
<1>4. DeadLast'
  <2>1. CASE Unplug(s)
    BY <1>1, <1>3, <2>1 DEF FatInv, DeadLast, Unplug, CalmUnplug, table
  <2>2. CASE \E d \in Device : Plug(s, d)
    <3>1. port[s].fs # "fat"
      BY <2>2 DEF Plug, NoDevice
    <3> QED BY <1>1, <1>3, <3>1 DEF FatInv, DeadLast, table
  <2> QED BY <2>1, <2>2
<1> QED BY <1>2, <1>4 DEF FatInv

LEMMA NextFat ==
    ASSUME Calm, IInv, IInv', FatInv, [Next]_vars
    PROVE  FatInv'
<1>1. CASE Next
  BY <1>1, DetachFatFat, AttachFatFat, NtfsFat, QuietFat, HotPlugFat
  DEF Next, Probe, User, Detach, Attach
<1>2. CASE UNCHANGED vars
  BY <1>2, DenseStable DEF FatInv, DeadLast, vars
<1> QED BY <1>1, <1>2

\* With a calm user the FAT drives are numbered without holes or duplicates and
\* every "fat<n>:/" reads the device it was made for.
THEOREM FatDenseCorrect ==
    ASSUME Calm
    PROVE  Spec => []FatDense
<1>1. Init => FatInv
  BY InitFat
<1>2. IInv /\ IInv' /\ FatInv /\ [Next]_vars => FatInv'
  BY NextFat
<1>3. FatInv => FatDense
  BY DEF FatInv
<1> QED BY <1>1, <1>2, <1>3, Inductive, PTL DEF Spec

\* With a calm user the probe drops a FAT row only when its device is gone.
THEOREM NoFalseDetachCorrect ==
    ASSUME Calm
    PROVE  Spec => NoFalseDetach
<1> DEFINE A == \A s \in Slot :
                   rootfs[s].fs_type = FS_TFAT /\ rootfs'[s].fs_type # FS_TFAT
                       => port[s].fs # "fat"
<1>1. IInv /\ FatInv /\ [Next]_vars => [A]_vars
  <2> SUFFICES ASSUME IInv, FatInv, Next PROVE A
    OBVIOUS
  <2>1. CASE DetachFat
    <3>1. k \in Slot /\ FatGone /\ rootfs' = [rootfs EXCEPT ![k] = NoEntry]
      BY <2>1, NSlotsAssumption DEF IInv, TypeOK, DetachFat, Slot, detach_fs
    <3> QED BY <3>1, GoneIsGone DEF IInv, TypeOK
  <2>2. CASE DetachNtfs
    <3>1. /\ rootfs[k].fs_type = FS_TNTFS
          /\ rootfs' = [rootfs EXCEPT ![k] = NoEntry]
      BY <2>2 DEF DetachNtfs, NtfsGone, detach_fs
    <3> QED BY <3>1 DEF IInv, TypeOK
  <2>3. CASE AttachFat
    <3>1. k \in Slot /\ rootfs[k].fs_type = FS_TNONE
      BY <2>3, NSlotsAssumption DEF IInv, TypeOK, AttachFat, Slot, CounterInv
    <3>2. \A s \in Slot \ {k} : rootfs'[s] = rootfs[s]
      BY <2>3 DEF AttachFat, attach_fs, IInv, TypeOK
    <3> QED BY <3>1, <3>2
  <2>4. CASE AttachNtfs
    <3>1. k \in Slot /\ rootfs[k].fs_type = FS_TNONE
      BY <2>4 DEF IInv, PcInv, AttachNtfs, CounterInv
    <3>2. \A s \in Slot \ {k} : rootfs'[s] = rootfs[s]
      BY <2>4 DEF AttachNtfs, attach_fs, IInv, TypeOK
    <3> QED BY <3>1, <3>2
  <2>5. CASE UNCHANGED rootfs
    BY <2>5
  <2> QED
    BY <2>1, <2>2, <2>3, <2>4, <2>5
    DEF Next, Probe, User, Detach, Attach, DetachKeep, DetachDone, AttachSkip,
        AttachFatFail, AttachNone, ProbeBegin, ProbeEnd, LeaveRoot,
        ReturnToRoot, SwitchToRoot, Unplug, Plug, table
<1>2. Init => FatInv
  BY InitFat
<1>3. IInv /\ IInv' /\ FatInv /\ [Next]_vars => FatInv'
  BY NextFat
<1> QED BY <1>1, <1>2, <1>3, Inductive, PTL DEF Spec, NoFalseDetach
-----------------------------------------------------------------------------
(* The NTFS volumes, and the list on the screen *)

\* What the step DetachNtfs writes, and which row is gone.
LEMMA DetachesNtfs ==
    ASSUME IInv, DetachNtfs
    PROVE  /\ k \in Slot /\ rootfs[k].fs_type = FS_TNTFS /\ port[k].fs = "none"
           /\ rootfs' = [rootfs EXCEPT ![k] = NoEntry]
           /\ mounts' = [mounts EXCEPT ![k] = {}] /\ vols' = vols \ mounts[k]
BY NSlotsAssumption
DEF IInv, TypeOK, DetachNtfs, NtfsGone, PS3_NTFS_IsInserted, detach_fs, Slot

\* Of the steps that do not touch a NTFS row, the rest of the table is written by
\* DetachFat and AttachFat only, one row that is not NTFS before and after.
LEMMA FatRowOnly ==
    ASSUME IInv, DetachFat \/ AttachFat
    PROVE  /\ k \in Slot /\ rootfs[k].fs_type # FS_TNTFS
           /\ rootfs' \in [Slot -> Entry]
           /\ rootfs'[k].fs_type # FS_TNTFS
           /\ \A s \in Slot \ {k} : rootfs'[s] = rootfs[s]
           /\ UNCHANGED <<mounts, vols, atRoot, listing>>
<1>1. IInv'
  BY DetachFatInv, AttachFatInv
<1>2. k \in Slot
  BY NSlotsAssumption DEF IInv, TypeOK, DetachFat, AttachFat, Slot
<1>3. CASE DetachFat
  BY <1>1, <1>2, <1>3 DEF IInv, TypeOK, DetachFat, FatGone, detach_fs, NoEntry
<1>4. CASE AttachFat
  BY <1>1, <1>2, <1>4 DEF IInv, TypeOK, CounterInv, AttachFat, attach_fs
<1> QED BY <1>3, <1>4

\* What the step AttachNtfs writes: the volumes are new ones, as many as the device
\* has partitions, and the row was free.
LEMMA AttachesNtfs ==
    ASSUME IInv, AttachNtfs
    PROVE  /\ k \in Slot /\ rootfs[k].fs_type = FS_TNONE
           /\ \A s \in Slot \ {k} : rootfs'[s] = rootfs[s]
           /\ \E new \in SUBSET (Volume \ vols) :
                 /\ mounts' = [mounts EXCEPT ![k] = new] /\ vols' = vols \cup new
                 /\ rootfs'[k].fs_type = FS_TNTFS
                 /\ rootfs'[k].fs_parts = Cardinality(new)
                 /\ rootfs'[k].fs \in {"ntfs"} \X new
<1>1. k \in Slot /\ rootfs[k].fs_type = FS_TNONE
  BY DEF IInv, PcInv, AttachNtfs, CounterInv
<1>2. PICK new \in SUBSET (Volume \ vols), first \in Volume :
         /\ first \in new
         /\ LowestFree(new, port[k].parts)
         /\ mounts' = [mounts EXCEPT ![k] = new] /\ vols' = vols \cup new
         /\ attach_fs(fs_ntfs_k, fs_fat_k, FS_TNTFS, <<"ntfs", first>>, port[k].parts)
  BY DEF AttachNtfs
<1>3. rootfs' = [rootfs EXCEPT ![k] =
           [fs |-> <<"ntfs", first>>, fs_type |-> FS_TNTFS, fs_idx |-> fs_ntfs_k,
            fs_parts |-> port[k].parts]]
  BY <1>2 DEF attach_fs
<1>4. Cardinality(new) = port[k].parts
  BY <1>2 DEF LowestFree
<1>5. /\ rootfs'[k].fs_type = FS_TNTFS /\ rootfs'[k].fs_parts = Cardinality(new)
      /\ rootfs'[k].fs = <<"ntfs", first>>
      /\ \A s \in Slot \ {k} : rootfs'[s] = rootfs[s]
  BY <1>1, <1>3, <1>4 DEF IInv, TypeOK
<1>6. rootfs'[k].fs \in {"ntfs"} \X new
  BY <1>2, <1>5
<1>7. \E S \in SUBSET (Volume \ vols) :
         /\ mounts' = [mounts EXCEPT ![k] = S] /\ vols' = vols \cup S
         /\ rootfs'[k].fs_type = FS_TNTFS
         /\ rootfs'[k].fs_parts = Cardinality(S)
         /\ rootfs'[k].fs \in {"ntfs"} \X S
  BY <1>2, <1>5, <1>6
<1> QED BY <1>1, <1>5, <1>7

\* The steps that write neither the table nor the volumes.
Quiet ==
    \/ DetachKeep \/ DetachDone \/ AttachSkip \/ AttachFatFail \/ AttachNone
    \/ ProbeBegin \/ ProbeEnd \/ LeaveRoot \/ ReturnToRoot \/ SwitchToRoot
    \/ \E s \in Slot : Unplug(s) \/ \E d \in Device : Plug(s, d)

LEMMA Steps ==
    Next => DetachFat \/ AttachFat \/ DetachNtfs \/ AttachNtfs \/ Quiet
BY DEF Next, Probe, User, Detach, Attach, Quiet

LEMMA QuietTable == Quiet => UNCHANGED <<rootfs, mounts, vols>>
BY DEF Quiet, DetachKeep, DetachDone, AttachSkip, AttachFatFail, AttachNone,
       ProbeBegin, ProbeEnd, LeaveRoot, ReturnToRoot, SwitchToRoot, Unplug, Plug, table

-----------------------------------------------------------------------------
(* The volumes *)

\* What NtfsBalanced says of one row.
RowBalanced(s) ==
    IF rootfs[s].fs_type = FS_TNTFS
    THEN /\ rootfs[s].fs_parts = Cardinality(mounts[s])
         /\ rootfs[s].fs \in {"ntfs"} \X mounts[s]
    ELSE mounts[s] = {}

LEMMA BalancedRows ==
    NtfsBalanced <=>
        /\ vols = UNION {mounts[s] : s \in Slot}
        /\ \A s, t \in Slot : s # t => mounts[s] \cap mounts[t] = {}
        /\ \A s \in Slot : RowBalanced(s)
BY DEF NtfsBalanced, RowBalanced

LEMMA InitBalanced == Init => NtfsBalanced
BY DEF Init, NtfsBalanced, NoEntry

LEMMA FatBalanced ==
    ASSUME IInv, NtfsBalanced, DetachFat \/ AttachFat
    PROVE  NtfsBalanced'
<1>1. /\ k \in Slot /\ rootfs[k].fs_type # FS_TNTFS /\ rootfs'[k].fs_type # FS_TNTFS
      /\ \A s \in Slot \ {k} : rootfs'[s] = rootfs[s]
      /\ UNCHANGED <<mounts, vols>>
  BY FatRowOnly
<1>2. \A s \in Slot : RowBalanced(s)'
  BY <1>1 DEF NtfsBalanced, RowBalanced
<1> QED BY <1>1, <1>2 DEF NtfsBalanced, RowBalanced

LEMMA DetachBalanced ==
    ASSUME IInv, NtfsBalanced, DetachNtfs
    PROVE  NtfsBalanced'
<1>1. /\ k \in Slot /\ rootfs' = [rootfs EXCEPT ![k] = NoEntry]
      /\ mounts' = [mounts EXCEPT ![k] = {}] /\ vols' = vols \ mounts[k]
  BY DetachesNtfs
<1>2. /\ mounts'[k] = {} /\ rootfs'[k] = NoEntry
      /\ \A s \in Slot \ {k} : mounts'[s] = mounts[s] /\ rootfs'[s] = rootfs[s]
  BY <1>1 DEF IInv, TypeOK
<1>3. vols' = UNION {mounts'[s] : s \in Slot}
  <2>1. vols = UNION {mounts[s] : s \in Slot}
    BY DEF NtfsBalanced
  <2>2. \A s \in Slot \ {k} : mounts[s] \cap mounts[k] = {}
    BY <1>1 DEF NtfsBalanced
  <2> QED BY <1>1, <1>2, <2>1, <2>2
<1>4. \A s, t \in Slot : s # t => mounts'[s] \cap mounts'[t] = {}
  BY <1>2 DEF NtfsBalanced
<1>5. \A s \in Slot : RowBalanced(s)'
  BY <1>1, <1>2 DEF NtfsBalanced, RowBalanced, NoEntry
<1> QED BY <1>3, <1>4, <1>5 DEF NtfsBalanced, RowBalanced

LEMMA AttachBalanced ==
    ASSUME IInv, NtfsBalanced, AttachNtfs
    PROVE  NtfsBalanced'
<1>1. /\ k \in Slot /\ rootfs[k].fs_type = FS_TNONE
      /\ \A s \in Slot \ {k} : rootfs'[s] = rootfs[s]
  BY AttachesNtfs
<1>2. PICK new \in SUBSET (Volume \ vols) :
         /\ mounts' = [mounts EXCEPT ![k] = new] /\ vols' = vols \cup new
         /\ rootfs'[k].fs_type = FS_TNTFS
         /\ rootfs'[k].fs_parts = Cardinality(new)
         /\ rootfs'[k].fs \in {"ntfs"} \X new
  BY AttachesNtfs
<1>3. mounts'[k] = new /\ \A s \in Slot \ {k} : mounts'[s] = mounts[s]
  BY <1>1, <1>2 DEF IInv, TypeOK
<1>4. vols = UNION {mounts[s] : s \in Slot} /\ mounts[k] = {}
  BY <1>1 DEF NtfsBalanced
<1>5. vols' = UNION {mounts'[s] : s \in Slot}
  BY <1>1, <1>2, <1>3, <1>4
<1>6. \A s \in Slot \ {k} : mounts[s] \cap new = {}
  BY <1>2, <1>4
<1>7. \A s, t \in Slot : s # t => mounts'[s] \cap mounts'[t] = {}
  BY <1>3, <1>6 DEF NtfsBalanced
<1>8. \A s \in Slot : RowBalanced(s)'
  BY <1>1, <1>2, <1>3 DEF NtfsBalanced, RowBalanced
<1> QED BY <1>5, <1>7, <1>8 DEF NtfsBalanced, RowBalanced

LEMMA NextBalanced == IInv /\ NtfsBalanced /\ [Next]_vars => NtfsBalanced'
<1> SUFFICES ASSUME IInv, NtfsBalanced, [Next]_vars PROVE NtfsBalanced'
  OBVIOUS
<1>1. CASE UNCHANGED <<rootfs, mounts, vols>>
  BY <1>1 DEF NtfsBalanced
<1> QED
  BY <1>1, Steps, QuietTable, FatBalanced, DetachBalanced, AttachBalanced DEF vars

\* rootfs_probe mounts and unmounts the volumes of whole devices: none leaks, none is
\* in two rows, for any number of slots and partitions and any user.
THEOREM NtfsBalancedCorrect == Spec => []NtfsBalanced
<1> QED BY InitBalanced, NextBalanced, Inductive, PTL DEF Spec

-----------------------------------------------------------------------------
(* The list on the screen *)

\* A probe starts from a list that is the table, and counts each row it writes.
FreshInv ==
    /\ pc # "idle" => atRoot
    /\ pc = "idle" \/ flag = 0 => listing = root_scan_path

LEMMA InitFresh == Init => FreshInv
<1> SUFFICES ASSUME Init PROVE FreshInv
  OBVIOUS
<1>1. root_scan_path = {}
  BY DEF Init, root_scan_path, NoEntry
<1> QED BY <1>1 DEF Init, FreshInv

\* A row is written: the probe runs and has counted it.
LEMMA CountedFresh ==
    ASSUME IInv, FreshInv, DetachFat \/ AttachFat \/ DetachNtfs \/ AttachNtfs
    PROVE  FreshInv'
<1>1. flag' = flag + 1 /\ flag \in Nat
  BY DEF IInv, TypeOK, DetachFat, AttachFat, DetachNtfs, AttachNtfs, detach_fs, attach_fs
<1>2. pc # "idle" /\ pc' # "idle" /\ atRoot' = atRoot
  BY DEF DetachFat, AttachFat, DetachNtfs, AttachNtfs, NextRow
<1> QED BY <1>1, <1>2 DEF FreshInv

LEMMA QuietFresh ==
    ASSUME IInv, FreshInv, Quiet
    PROVE  FreshInv'
<1>1. root_scan_path' = root_scan_path
  BY QuietTable DEF root_scan_path
<1>2. CASE ProbeBegin
  BY <1>1, <1>2 DEF ProbeBegin, FreshInv
<1>3. CASE ProbeEnd
  BY <1>1, <1>3 DEF ProbeEnd, FreshInv, table
<1>4. CASE LeaveRoot \/ ReturnToRoot \/ SwitchToRoot
  BY <1>1, <1>4 DEF LeaveRoot, ReturnToRoot, SwitchToRoot, FreshInv
<1>5. CASE DetachKeep \/ DetachDone \/ AttachSkip \/ AttachFatFail \/ AttachNone
  <2>1. UNCHANGED <<flag, atRoot, listing>> /\ pc # "idle" /\ pc' # "idle"
    BY <1>5 DEF DetachKeep, DetachDone, AttachSkip, AttachFatFail, AttachNone, NextRow,
                table
  <2> QED BY <1>1, <2>1 DEF FreshInv
<1>6. CASE \E s \in Slot : Unplug(s) \/ \E d \in Device : Plug(s, d)
  <2>1. UNCHANGED <<flag, atRoot, listing, pc>>
    BY <1>6 DEF Unplug, Plug, table
  <2> QED BY <1>1, <2>1 DEF FreshInv
<1> QED BY <1>2, <1>3, <1>4, <1>5, <1>6 DEF Quiet

LEMMA NextFresh == IInv /\ FreshInv /\ [Next]_vars => FreshInv'
<1> SUFFICES ASSUME IInv, FreshInv, [Next]_vars PROVE FreshInv'
  OBVIOUS
<1>1. CASE UNCHANGED vars
  BY <1>1 DEF vars, FreshInv, root_scan_path
<1> QED BY <1>1, Steps, CountedFresh, QuietFresh

\* fmapp_update scans the device list again whenever rootfs_probe wrote a row: between
\* two probes the list on the screen is the table.
THEOREM ListingFreshCorrect == Spec => []ListingFresh
<1>1. FreshInv => ListingFresh
  BY DEF FreshInv, ListingFresh
<1> QED BY <1>1, InitFresh, NextFresh, Inductive, PTL DEF Spec
=============================================================================
