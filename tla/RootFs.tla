------------------------------- MODULE RootFs -------------------------------
(***************************************************************************)
(* The device table of fsutil.c (rootfs[], the file system counters, the   *)
(* NTFS mounts) and the automount probe that fmapp_update() runs while the *)
(* active panel shows the device list.  A probe walks the table twice,     *)
(* first to drop the devices that went away and then to add the new ones.  *)
(* The user plugs and unplugs devices between any two of its steps.        *)
(*                                                                         *)
(* fflib (FatFs on drive numbers) and libntfs are binary libraries: their  *)
(* state is `drive` and `vols`, modelled from how fsutil.c uses them.      *)
(***************************************************************************)
EXTENDS Integers, FiniteSets

CONSTANTS
    NSlots,     \* USB rows of rootfs[]; 8 in the code
    MaxParts,   \* bound: NTFS partitions on one device
    Calm        \* TRUE: the user unplugs FAT devices between probes only, and
                \* the one attached last first; FALSE: any device, any time

ASSUME NSlotsAssumption == NSlots \in Nat \ {0}
ASSUME MaxPartsAssumption == MaxParts \in Nat \ {0}
ASSUME CalmAssumption == Calm \in BOOLEAN

Slot == 0 .. NSlots - 1
Drive == 0 .. NSlots - 1                  \* FatFs drive numbers
None == -1                                \* no device assigned to a drive
Volume == 0 .. NSlots * MaxParts - 1      \* the n of libntfs' mount names ntfs<n>

\* What can be in a USB port: nothing, a FAT or a NTFS device, or another kind.
Device == [fs : {"none", "fat", "other"}, parts : {0}]
          \cup [fs : {"ntfs"}, parts : 1 .. MaxParts]
NoDevice == [fs |-> "none", parts |-> 0]

\* The mount names "fat<n>:/" and "ntfs<n>:/", and the NULL pointer.
NULL == <<"null", 0>>
Name == {NULL} \cup ({"fat"} \X Drive) \cup ({"ntfs"} \X Volume)

FS_TNONE == "NONE"
FS_TFAT  == "FAT"
FS_TNTFS == "NTFS"
Entry == [fs : Name, fs_type : {FS_TNONE, FS_TFAT, FS_TNTFS},
          fs_idx : Int, fs_parts : Int]
NoEntry == [fs |-> NULL, fs_type |-> FS_TNONE, fs_idx |-> -1, fs_parts |-> -1]

VARIABLES
    port,       \* environment: the device in each USB port
    drive,      \* fflib: the slot each drive number is assigned to
    vols,       \* libntfs: the mounted volumes
    rootfs,     \* the device table (its ninth row, "sys:/", never changes)
    mounts,     \* the volumes ntfsMountDevice returned for each slot
    fs_fat_k, fs_ntfs_k,    \* file system counters
    flag,       \* what rootfs_probe() will return: changes seen so far
    pc,         \* where the probe is; "idle" between two probes
    k,          \* the row the probe is at
    atRoot,     \* the active panel shows the device list (its path is NULL)
    listing     \* the names the panel shows there

vars == <<port, drive, vols, rootfs, mounts, fs_fat_k, fs_ntfs_k, flag, pc, k,
          atRoot, listing>>
table == <<rootfs, fs_fat_k, fs_ntfs_k, flag>>

Init ==
    /\ port \in [Slot -> {NoDevice, [fs |-> "fat", parts |-> 0]}]
    /\ drive = [d \in Drive |-> None]
    /\ vols = {}
    /\ rootfs = [s \in Slot |-> NoEntry]
    /\ mounts = [s \in Slot |-> {}]
    /\ fs_fat_k = 0 /\ fs_ntfs_k = 0 /\ flag = 0
    /\ pc = "idle" /\ k = 0
    /\ atRoot = TRUE /\ listing = {}

-----------------------------------------------------------------------------
(* Mutants: wrong variants of the table operations below.  *)

detach_fs_noflag(fsk, other) ==
    /\ rootfs' = [rootfs EXCEPT ![k] = NoEntry]
    /\ fsk' = fsk - 1 /\ other' = other
    /\ UNCHANGED flag

detach_fs_nocount(fsk, other) ==
    /\ rootfs' = [rootfs EXCEPT ![k] = NoEntry]
    /\ flag' = flag + 1
    /\ UNCHANGED <<fsk, other>>

attach_fs_noflag(fsk, other, type, name, parts) ==
    /\ rootfs' = [rootfs EXCEPT ![k] =
           [fs |-> name, fs_type |-> type, fs_idx |-> fsk, fs_parts |-> parts]]
    /\ fsk' = fsk + 1 /\ other' = other
    /\ UNCHANGED flag

attach_fs_preincrement(fsk, other, type, name, parts) ==
    /\ rootfs' = [rootfs EXCEPT ![k] =
           [fs |-> name, fs_type |-> type, fs_idx |-> fsk + 1, fs_parts |-> parts]]
    /\ fsk' = fsk + 1 /\ other' = other
    /\ flag' = flag + 1

-----------------------------------------------------------------------------
(* Table operations *)

\* _attach_fs: fill row k, number it with the counter of its type (fsk), count
\* it and report the change; the other type's counter stays.
attach_fs(fsk, other, type, name, parts) ==
    /\ rootfs' = [rootfs EXCEPT ![k] =
           [fs |-> name, fs_type |-> type, fs_idx |-> fsk, fs_parts |-> parts]]
    /\ fsk' = fsk + 1 /\ other' = other
    /\ flag' = flag + 1

\* _detach_fs: clear row k, count it out and report the change.
detach_fs(fsk, other) ==
    /\ rootfs' = [rootfs EXCEPT ![k] = NoEntry]
    /\ fsk' = fsk - 1 /\ other' = other
    /\ flag' = flag + 1

\* root_scan_path: the names the device list shows, besides the constant "sys:/".
root_scan_path == {rootfs[s].fs : s \in Slot} \ {NULL}

(* Library operations *)

\* f_mount (lazy, so it cannot fail) and f_opendir on "d:/": the directory opens
\* when the device assigned to the drive is present and formatted FAT.
f_opendir_OK(d) == drive[d] # None /\ port[drive[d]].fs = "fat"

fflib_detach(d) == drive' = [drive EXCEPT ![d] = None]

\* fflib_attach: the number is assigned to the slot of row k.
fflib_attach(d) == drive' = [drive EXCEPT ![d] = k]

\* PS3_NTFS_IsInserted asks the system for the device in port s: any device does.
PS3_NTFS_IsInserted(s) == port[s].fs # "none"

\* ntfsMountDevice takes the n lowest volume names that are free.
LowestFree(new, n) ==
    /\ Cardinality(new) = n
    /\ \A v \in new, w \in Volume \ vols : w < v => w \in new

-----------------------------------------------------------------------------
(* rootfs_probe, first loop: what is no longer there *)

NextRow == k' = k + 1 /\ UNCHANGED pc

\* Mutant: the row number is taken for the drive number.
FatGone_row == fs_fat_k # 0 /\ rootfs[k].fs_type = FS_TFAT /\ ~ f_opendir_OK(k)

\* The FAT device of row k no longer answers.
FatGone == /\ fs_fat_k # 0 /\ rootfs[k].fs_type = FS_TFAT
           /\ ~ f_opendir_OK(rootfs[k].fs[2])

\* Mutant: a device of one volume is taken for none.
NtfsGone_many == /\ fs_ntfs_k # 0 /\ rootfs[k].fs_type = FS_TNTFS
                 /\ rootfs[k].fs_parts > 1 /\ ~ PS3_NTFS_IsInserted(k)

\* The port of the NTFS device of row k is empty.
NtfsGone == /\ fs_ntfs_k # 0 /\ rootfs[k].fs_type = FS_TNTFS
            /\ rootfs[k].fs_parts > 0 /\ ~ PS3_NTFS_IsInserted(k)

DetachKeep ==
    /\ pc = "detach" /\ k < NSlots
    /\ rootfs[k].fs = NULL \/ (~ FatGone /\ ~ NtfsGone)
    /\ NextRow
    /\ UNCHANGED <<port, drive, vols, mounts, table, atRoot, listing>>

DetachFat ==
    /\ pc = "detach" /\ k < NSlots
    /\ rootfs[k].fs # NULL /\ FatGone
    /\ fflib_detach(rootfs[k].fs_idx)
    /\ detach_fs(fs_fat_k, fs_ntfs_k)
    /\ NextRow
    /\ UNCHANGED <<port, vols, mounts, atRoot, listing>>

\* Mutant: only the volume shown in the list is unmounted.
DetachNtfs_first ==
    /\ pc = "detach" /\ k < NSlots
    /\ rootfs[k].fs # NULL /\ NtfsGone
    /\ vols' = vols \ {rootfs[k].fs[2]}
    /\ mounts' = [mounts EXCEPT ![k] = {}]
    /\ detach_fs(fs_ntfs_k, fs_fat_k)
    /\ NextRow
    /\ UNCHANGED <<port, drive, atRoot, listing>>

\* Every volume of the device is unmounted, not only the one that is listed.
DetachNtfs ==
    /\ pc = "detach" /\ k < NSlots
    /\ rootfs[k].fs # NULL /\ NtfsGone
    /\ vols' = vols \ mounts[k]
    /\ mounts' = [mounts EXCEPT ![k] = {}]
    /\ detach_fs(fs_ntfs_k, fs_fat_k)
    /\ NextRow
    /\ UNCHANGED <<port, drive, atRoot, listing>>

DetachDone ==
    /\ pc = "detach" /\ k = NSlots
    /\ pc' = "attach" /\ k' = 0
    /\ UNCHANGED <<port, drive, vols, mounts, table, atRoot, listing>>

-----------------------------------------------------------------------------
(* rootfs_probe, second loop: what is new *)

AttachSkip ==
    /\ pc = "attach" /\ k < NSlots
    /\ rootfs[k].fs # NULL
    /\ NextRow
    /\ UNCHANGED <<port, drive, vols, mounts, table, atRoot, listing>>

AttachFat ==
    /\ pc = "attach" /\ k < NSlots
    /\ rootfs[k].fs = NULL
    /\ port[k].fs = "fat"
    /\ fflib_attach(fs_fat_k)
    /\ attach_fs(fs_fat_k, fs_ntfs_k, FS_TFAT, <<"fat", fs_fat_k>>, -1)
    /\ NextRow
    /\ UNCHANGED <<port, vols, mounts, atRoot, listing>>

\* The drive number, assigned to try it, is taken back; NTFS is tried next.
AttachFatFail ==
    /\ pc = "attach" /\ k < NSlots
    /\ rootfs[k].fs = NULL
    /\ port[k].fs # "fat"
    /\ fflib_detach(fs_fat_k)
    /\ pc' = "attach_ntfs"
    /\ UNCHANGED <<port, vols, mounts, table, k, atRoot, listing>>

\* All partitions are mounted; the row is named after the first volume.
AttachNtfs ==
    /\ pc = "attach_ntfs"
    /\ port[k].fs = "ntfs"
    /\ \E new \in SUBSET (Volume \ vols) : \E first \in new :
          /\ LowestFree(new, port[k].parts)
          /\ \A v \in new : first <= v
          /\ mounts' = [mounts EXCEPT ![k] = new]
          /\ vols' = vols \cup new
          /\ attach_fs(fs_ntfs_k, fs_fat_k, FS_TNTFS, <<"ntfs", first>>,
                       port[k].parts)
    /\ k' = k + 1 /\ pc' = "attach"
    /\ UNCHANGED <<port, drive, atRoot, listing>>

AttachNone ==
    /\ pc = "attach_ntfs"
    /\ port[k].fs # "ntfs"
    /\ k' = k + 1 /\ pc' = "attach"
    /\ UNCHANGED <<port, drive, vols, mounts, table, atRoot, listing>>

-----------------------------------------------------------------------------
(* The caller, fmapp_update(): it probes only while the active panel shows  *)
(* the device list, and scans the list again when the probe saw a change.   *)

ProbeBegin ==
    /\ pc = "idle" /\ atRoot
    /\ pc' = "detach" /\ k' = 0 /\ flag' = 0
    /\ UNCHANGED <<port, drive, vols, rootfs, mounts, fs_fat_k, fs_ntfs_k,
                   atRoot, listing>>

ProbeEnd ==
    /\ pc = "attach" /\ k = NSlots
    /\ pc' = "idle" /\ k' = 0
    /\ listing' = IF flag # 0 THEN root_scan_path ELSE listing
    /\ UNCHANGED <<port, drive, vols, mounts, table, atRoot>>

\* The user enters an entry of the list, or switches to the panel that shows a directory.
LeaveRoot ==
    /\ pc = "idle" /\ atRoot
    /\ atRoot' = FALSE
    /\ UNCHANGED <<port, drive, vols, mounts, table, pc, k, listing>>

\* The user leaves a directory for the list: it is scanned.
ReturnToRoot ==
    /\ pc = "idle" /\ ~ atRoot
    /\ atRoot' = TRUE
    /\ listing' = root_scan_path
    /\ UNCHANGED <<port, drive, vols, mounts, table, pc, k>>

\* The user switches to a panel that shows the list it was left with: nothing is scanned.
\* A probe that saw a change has scanned it in both panels.
SwitchToRoot ==
    /\ pc = "idle" /\ ~ atRoot
    /\ atRoot' = TRUE
    /\ UNCHANGED <<port, drive, vols, mounts, table, pc, k, listing>>

-----------------------------------------------------------------------------
(* The user's hands *)

Plug(s, d) ==
    /\ port[s] = NoDevice /\ d # NoDevice
    /\ port' = [port EXCEPT ![s] = d]
    /\ UNCHANGED <<drive, vols, mounts, table, pc, k, atRoot, listing>>

\* What a calm user does: FAT devices are taken out in the order opposite to the
\* one they were attached in, and not while a probe runs.
CalmUnplug(s) ==
    /\ pc = "idle"
    /\ rootfs[s].fs_type = FS_TFAT => rootfs[s].fs_idx = fs_fat_k - 1

Unplug(s) ==
    /\ port[s] # NoDevice
    /\ Calm => CalmUnplug(s)
    /\ port' = [port EXCEPT ![s] = NoDevice]
    /\ UNCHANGED <<drive, vols, mounts, table, pc, k, atRoot, listing>>

-----------------------------------------------------------------------------
Detach == DetachKeep \/ DetachFat \/ DetachNtfs \/ DetachDone
Attach == AttachSkip \/ AttachFat \/ AttachFatFail \/ AttachNtfs \/ AttachNone
Probe == ProbeBegin \/ Detach \/ Attach \/ ProbeEnd
User == \/ LeaveRoot \/ ReturnToRoot \/ SwitchToRoot
        \/ \E s \in Slot : Unplug(s) \/ \E d \in Device : Plug(s, d)

Next == Probe \/ User

Spec == Init /\ [][Next]_vars

\* fmapp_update() runs every frame, so a probe that can take a step takes it.
\* Nothing is assumed of the user.
FairSpec == Spec /\ WF_vars(Probe)

-----------------------------------------------------------------------------
(* Properties *)

\* Every variable has its type; in particular the counters never leave
\* the range of the table's rows, so drive numbers stay within FatFs' volumes.
TypeOK ==
    /\ port \in [Slot -> Device]
    /\ drive \in [Drive -> Slot \cup {None}]
    /\ vols \subseteq Volume
    /\ rootfs \in [Slot -> Entry]
    /\ mounts \in [Slot -> SUBSET Volume]
    /\ fs_fat_k \in 0 .. NSlots /\ fs_ntfs_k \in 0 .. NSlots
    /\ flag \in Nat
    /\ pc \in {"idle", "detach", "attach", "attach_ntfs"}
    /\ k \in 0 .. NSlots
    /\ atRoot \in BOOLEAN
    /\ listing \subseteq Name

Rows(type) == {s \in Slot : rootfs[s].fs_type = type}

\* The counters are the number of rows of their type, and a row has a name
\* exactly when it has a type: the drive number the next attach takes, and the
\* `fs_fat_k &&` guards of the probe, depend on it.
CounterInv ==
    /\ fs_fat_k = Cardinality(Rows(FS_TFAT))
    /\ fs_ntfs_k = Cardinality(Rows(FS_TNTFS))
    /\ \A s \in Slot : rootfs[s].fs = NULL <=> rootfs[s].fs_type = FS_TNONE

\* No NTFS volume leaks or is shared: the mounted volumes are those the NTFS
\* rows account for, each row owns its own, knows how many, and is named after
\* one of them, across any sequence of hot plugs.
NtfsBalanced ==
    /\ vols = UNION {mounts[s] : s \in Slot}
    /\ \A s, t \in Slot : s # t => mounts[s] \cap mounts[t] = {}
    /\ \A s \in Slot :
          IF rootfs[s].fs_type = FS_TNTFS
          THEN /\ rootfs[s].fs_parts = Cardinality(mounts[s])
               /\ rootfs[s].fs \in {"ntfs"} \X mounts[s]
          ELSE mounts[s] = {}

\* Between two probes the list on the screen is the device table: the change
\* flag of the probe misses no change.
ListingFresh == pc = "idle" /\ atRoot => listing = root_scan_path

\* With a calm user the FAT rows are numbered 0 .. fs_fat_k - 1 without a hole or
\* a duplicate, and each drive number is assigned to the device of its row, so
\* that "fat<n>:/" always reads the device it was made for.
FatDense ==
    LET fat == Rows(FS_TFAT) IN
    /\ {rootfs[s].fs_idx : s \in fat} = 0 .. fs_fat_k - 1
    /\ \A s \in fat : /\ rootfs[s].fs = <<"fat", rootfs[s].fs_idx>>
                      /\ drive[rootfs[s].fs_idx] = s

\* "no longer valid - detach": a FAT row is dropped only when its device is gone.
NoFalseDetach ==
    [][\A s \in Slot :
          rootfs[s].fs_type = FS_TFAT /\ rootfs'[s].fs_type # FS_TFAT
              => port[s].fs # "fat"]_vars

\* The user eventually stops plugging and navigating.
Settled == <>[][FALSE]_<<port, atRoot>>

\* "are these still plugged in?": once the user has stopped plugging, the row of
\* an empty port leaves the table for good.
DeadEntryRemoved ==
    \A s \in Slot :
        Settled /\ <>[](port[s] = NoDevice /\ atRoot)
            => <>[](rootfs[s].fs_type = FS_TNONE)

\* A NTFS device that stays in its port ends up in the list for good.
NtfsListed ==
    \A s \in Slot :
        <>[](port[s].fs = "ntfs" /\ atRoot)
            => <>[](rootfs[s].fs_type = FS_TNTFS /\ rootfs[s].fs \in listing)
=============================================================================
