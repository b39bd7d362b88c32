------------------------------- MODULE Panels -------------------------------
(***************************************************************************)
(* The two panels (fm.c) and the commands fmapp_update() gives them: enter *)
(* and leave a directory with the browsing history, scroll, switch panels, *)
(* create and delete a directory; and the automount probe that sends both  *)
(* panels back to the device list.                                         *)
(*                                                                         *)
(* The device table is the set of its names (module RootFs); a panel's     *)
(* list is some sequence of the directory's entries (modules PanelList and *)
(* FileList); a path is the sequence of its names, <<>> the NULL path.     *)
(***************************************************************************)
EXTENDS Integers, Sequences, FiniteSets, SequencesExt

CONSTANTS
    Fat, Ntfs,      \* the names of the FAT and of the NTFS devices
    Sys,            \* the name of the system file system
    Tree,           \* the entries of each directory at the start, by path
    NewNames,       \* names the user gives new directories
    Renames,        \* names the user gives entries that exist
    Order,          \* the sequence of all names, in strcmp order
    MaxHistory,     \* bound: directories entered and not left
    MaxDirs,        \* bound: directories on all devices, for copies and new ones
    Disturb         \* TRUE: devices are plugged and unplugged, entries deleted

Device == Fat \cup Ntfs
Panel == {"lp", "rp"}
Entry(n, d) == [name |-> n, dir |-> d]
Names == Device \cup {Sys} \cup NewNames \cup Renames
         \cup UNION {{e.name : e \in Tree[q]} : q \in DOMAIN Tree}
Entries == [name : Names, dir : BOOLEAN]

ASSUME NamesAssumption == IsFiniteSet(Names)
ASSUME TreeAssumption ==
    /\ Tree = [q \in DOMAIN Tree |-> Tree[q]]
    /\ DOMAIN Tree \subseteq Seq(Names) /\ \A q \in DOMAIN Tree : Tree[q] \subseteq Entries
    /\ \A d \in Device \cup {Sys} : <<d>> \in DOMAIN Tree
    /\ \A q \in DOMAIN Tree : \A e \in Tree[q] : e.dir => Append(q, e.name) \in DOMAIN Tree
ASSUME MaxHistoryAssumption == MaxHistory \in Nat \ {0}
ASSUME MaxDirsAssumption == MaxDirs \in Nat
ASSUME DisturbAssumption == Disturb \in BOOLEAN

VARIABLES
    plugged,    \* environment: the devices that answer
    tree,       \* the entries of each directory, by path
    table,      \* the device table: what the last probe saw
    path, history,      \* of each panel: where it is, the directories entered
    list, current,      \* of each panel: its entries, the selection (0: NULL)
    active,     \* the active panel
    crashed     \* a NULL p->current was dereferenced: the program is gone

panelVars == <<path, history, list, current>>
vars == <<plugged, tree, table, panelVars, active, crashed>>

-----------------------------------------------------------------------------
(* fm_panel_scan *)

Exists(q) == q \in DOMAIN tree /\ q[1] \in plugged \cup {Sys}

\* What a scan of a path reports, for a device table t; nothing on failure.
Found(q, t) == IF q = <<>> THEN {Entry(d, TRUE) : d \in t \cup {Sys}}
               ELSE IF Exists(q) THEN tree[q] ELSE {}

\* sys_scan_path and fat_scan_path return the error, ntfs_scan_path returns 0.
ScanOK(q) == q = <<>> \/ Exists(q) \/ q[1] \in Ntfs

\* A list of directories only is sorted; a file can spoil that (PanelList).
Rank(n) == CHOOSE i \in DOMAIN Order : Order[i] = n
Listings(S) ==
    {l \in [1 .. Cardinality(S) -> S] :
        /\ ToSet(l) = S
        /\ (\A e \in S : e.dir) =>
               \A i, j \in DOMAIN l : i < j => Rank(l[i].name) < Rank(l[j].name)}

First(l) == IF l = <<>> THEN 0 ELSE 1

\* Mutant: a name that is not found resets the selection's number.
Locate_reset(l, n) ==
    LET at == {i \in DOMAIN l : l[i].name = n} IN
    IF at = {} THEN -1 ELSE CHOOSE i \in at : \A j \in at : i <= j

\* Where fm_panel_locate puts the selection: it stays if there is no such name.
Locate(l, n) ==
    LET at == {i \in DOMAIN l : l[i].name = n} IN
    IF at = {} THEN First(l) ELSE CHOOSE i \in at : \A j \in at : i <= j

\* fm_panel_scan of path q, then fm_panel_locate of the name n, or of none.
NoName == ""
Scan(p, q, n) ==
    /\ path' = [path EXCEPT ![p] = q]
    /\ \E l \in Listings(Found(q, table)) :
          /\ list' = [list EXCEPT ![p] = l]
          /\ current' = [current EXCEPT ![p] = Locate(l, n)]

Init ==
    LET devices == {Entry(d, TRUE) : d \in plugged \cup {Sys}} IN
    /\ plugged \in (IF Disturb THEN SUBSET Device ELSE {Device})
    /\ tree = Tree /\ table = plugged       \* after the probe of the first frame
    /\ path = [p \in Panel |-> <<>>] /\ history = [p \in Panel |-> <<>>]
    /\ \E l \in Listings(devices) : list = [p \in Panel |-> l]
    /\ current = [p \in Panel |-> 1]
    /\ active = "lp" /\ crashed = FALSE

-----------------------------------------------------------------------------
(* The commands, on the active panel *)

Dereference(p) ==
    /\ current[p] = 0
    /\ crashed' = TRUE
    /\ UNCHANGED <<plugged, tree, table, panelVars, active>>

\* Mutant: the history is not extended.
EnterDir_nohistory(p) ==
    LET q == Append(path[p], list[p][current[p]].name) IN
    /\ current[p] # 0 /\ list[p][current[p]].dir
    /\ Len(history[p]) < MaxHistory
    /\ Scan(p, q, NoName)
    /\ UNCHANGED <<plugged, tree, table, history, active, crashed>>

\* The path is changed even when the scan fails, the history is not.
EnterDir(p) ==
    LET q == Append(path[p], list[p][current[p]].name) IN
    /\ current[p] # 0 /\ list[p][current[p]].dir
    /\ Len(history[p]) < MaxHistory
    /\ Scan(p, q, NoName)
    /\ history' = IF ScanOK(q) THEN [history EXCEPT ![p] = Append(@, q)] ELSE history
    /\ UNCHANGED <<plugged, tree, table, active, crashed>>

\* fm_panel_enter: it reads p->current->dir first; a file cannot be entered.
Enter == Dereference(active) \/ EnterDir(active)

\* Mutants: the directory left is not selected; the history is not shortened; the
\* scan goes one entry too far back.
Exit_first ==
    LET p == active  h == history[p] IN
    /\ history' = [history EXCEPT ![p] = IF h = <<>> THEN h ELSE Front(h)]
    /\ IF path[p] = <<>> THEN UNCHANGED <<path, list, current>>
       ELSE Scan(p, IF Len(h) < 2 THEN <<>> ELSE h[Len(h) - 1], NoName)
    /\ UNCHANGED <<plugged, tree, table, active, crashed>>

Exit_nopop ==
    LET p == active  h == history[p] IN
    /\ IF path[p] = <<>> THEN UNCHANGED <<path, list, current>>
       ELSE Scan(p, IF Len(h) < 2 THEN <<>> ELSE h[Len(h) - 1], NoName)
    /\ UNCHANGED <<plugged, tree, table, history, active, crashed>>

Exit_two ==
    LET p == active  h == history[p] IN
    /\ history' = [history EXCEPT ![p] = IF h = <<>> THEN h ELSE Front(h)]
    /\ IF path[p] = <<>> THEN UNCHANGED <<path, list, current>>
       ELSE Scan(p, IF Len(h) < 3 THEN <<>> ELSE h[Len(h) - 2], NoName)
    /\ UNCHANGED <<plugged, tree, table, active, crashed>>

\* fm_panel_exit: the last history entry goes, also on the device list; the one
\* before it is scanned and the directory left is selected in it.
Exit ==
    LET p == active  h == history[p] IN
    /\ history' = [history EXCEPT ![p] = IF h = <<>> THEN h ELSE Front(h)]
    /\ IF path[p] = <<>> THEN UNCHANGED <<path, list, current>>
       ELSE IF Len(h) < 2 THEN Scan(p, <<>>, NoName)
       ELSE Scan(p, h[Len(h) - 1], IF Len(Last(h)) = 1 THEN NoName ELSE Last(Last(h)))
    /\ UNCHANGED <<plugged, tree, table, active, crashed>>

\* Mutant: scrolling down does not stop at the last entry.
ScrollTo_over(p, i) ==
    /\ current[p] # 0 /\ i \in 1 .. Len(list[p]) + 1
    /\ current' = [current EXCEPT ![p] = i]
    /\ UNCHANGED <<plugged, tree, table, path, history, list, active, crashed>>

ScrollTo(p, i) ==
    /\ current[p] # 0 /\ i \in DOMAIN list[p]
    /\ current' = [current EXCEPT ![p] = i]
    /\ UNCHANGED <<plugged, tree, table, path, history, list, active, crashed>>

\* fm_panel_scroll
Scroll(dn) ==
    \/ Dereference(active)
    \/ ScrollTo(active, IF dn THEN current[active] + 1 ELSE current[active] - 1)

\* L1 and R1
Activate(p) ==
    /\ active' = p
    /\ UNCHANGED <<plugged, tree, table, panelVars, crashed>>

\* Mutant: it is always the active panel that is reloaded.
Reload_active(p, n) ==
    /\ \E l \in Listings(IF Exists(path[active]) THEN tree'[path[active]] ELSE {}) :
          /\ list' = [list EXCEPT ![active] = l]
          /\ current' = [current EXCEPT ![active] = Locate(l, n)]
    /\ UNCHANGED <<plugged, table, path, history, active, crashed>>

\* fm_panel_reload, then fm_panel_locate of n, or of none.
Reload(p, n) ==
    /\ \E l \in Listings(IF Exists(path[p]) THEN tree'[path[p]] ELSE {}) :
          /\ list' = [list EXCEPT ![p] = l]
          /\ current' = [current EXCEPT ![p] = Locate(l, n)]
    /\ UNCHANGED <<plugged, table, path, history, active, crashed>>

\* SELECT: fm_job_newdir; the name may be taken, and the call may fail.
NewDir(n) ==
    LET q == path[active]  new == Append(q, n)
        made == [r \in DOMAIN tree \cup {new} |->
                   IF r = q THEN tree[q] \cup {Entry(n, TRUE)}
                   ELSE IF r = new THEN {} ELSE tree[r]] IN
    /\ q # <<>>
    /\ \/ /\ Exists(q) /\ n \notin {e.name : e \in tree[q]}
          /\ tree' = made /\ Cardinality(DOMAIN made) <= MaxDirs
       \/ UNCHANGED tree
    /\ Reload(active, n)

\* START: fm_job_rename of the selected entry, with all that is below it.  The one
\* command that tests the selection.
Rename(n) ==
    LET p == active  q == path[p]  e == list[p][current[p]]
        old == Append(q, e.name)  new == Append(q, n)
        moved(r) == IF IsPrefix(old, r) THEN new \o SubSeq(r, Len(new) + 1, Len(r)) ELSE r
        back(r) == CHOOSE s \in DOMAIN tree : moved(s) = r
        renamed == [r \in {moved(s) : s \in DOMAIN tree} |->
                      IF r = q THEN (tree[q] \ {e}) \cup {Entry(n, e.dir)}
                      ELSE tree[back(r)]] IN
    /\ q # <<>> /\ current[p] # 0
    /\ \/ /\ Exists(q) /\ e \in tree[q] /\ n \notin {x.name : x \in tree[q]}
          /\ tree' = renamed
       \/ UNCHANGED tree
    /\ Reload(p, n)

\* The paths of all entries, and those of an entry and what is below it.
Paths == UNION {{Append(q, e.name) : e \in tree[q]} : q \in DOMAIN tree}
Below(q) == IF Exists(Front(q)) THEN {x \in Paths : IsPrefix(q, x)} ELSE {}
IsDir(x) == x \in DOMAIN tree

Without(K) == [q \in DOMAIN tree \ K |-> {e \in tree[q] : Append(q, e.name) \notin K}]

\* TRIANGLE: fm_job_delete of the selected entry, from the end of the list, and the
\* reload; the user may refuse, and calls may fail.  The other panel is not reloaded.
DeleteEntry(p) ==
    /\ current[p] # 0
    /\ \E K \in SUBSET Below(Append(path[p], list[p][current[p]].name)) :
          /\ \A x \in K, y \in Paths : IsPrefix(x, y) => y \in K
          /\ tree' = Without(K)
    /\ Reload(p, NoName)

Delete ==
    /\ Disturb /\ path[active] # <<>>
    /\ Dereference(active) \/ DeleteEntry(active)

Other(p) == CHOOSE r \in Panel : r # p

\* SQUARE: fm_job_copy of the selected entry, with what is below it, to where the
\* other panel is, and the reload of that panel.  The user may refuse, and calls may
\* fail; the failed copy of a file may remove what has its name there (module Job).
CopyEntry(p) ==
    LET src == Append(path[p], list[p][current[p]].name)
        Target(x) == path[Other(p)] \o SubSeq(x, Len(src), Len(x))
        From == IF Exists(path[Other(p)]) THEN Below(src) ELSE {}
        With(t, K) == [q \in DOMAIN t \cup {Target(x) : x \in K \cap DOMAIN tree} |->
                         (IF q \in DOMAIN t THEN t[q] ELSE {})
                         \cup {Entry(Last(x), IsDir(x)) :
                                   x \in {x \in K : Front(Target(x)) = q}}] IN
    /\ current[p] # 0
    /\ \E K \in SUBSET From :
       \E R \in SUBSET ({Target(x) : x \in From \ (K \cup DOMAIN tree)} \cap Paths) :
          /\ \A x \in K : x = src \/ Front(x) \in K
          /\ \A x \in K : Target(x) \in Paths => (IsDir(x) <=> IsDir(Target(x)))
          /\ \A x \in R : IsDir(x) => tree[x] = {}
          /\ Disturb \/ R = {}
          /\ tree' = With(Without(R), K)
          /\ Cardinality(DOMAIN tree') <= MaxDirs
    /\ Reload(Other(p), NoName)

Copy ==
    /\ \A p \in Panel : path[p] # <<>>
    /\ Dereference(active) \/ CopyEntry(active)

-----------------------------------------------------------------------------
(* The automount monitor and the devices *)

\* The monitor runs while the active panel is on the device list.  On a change it
\* scans both panels at NULL; their histories stay.
Probe ==
    /\ path[active] = <<>> /\ table # plugged
    /\ table' = plugged
    /\ path' = [p \in Panel |-> <<>>]
    /\ list' \in [Panel -> Listings(Found(<<>>, plugged))]
    /\ current' = [p \in Panel |-> 1]
    /\ UNCHANGED <<plugged, tree, history, active, crashed>>

Plug(d) ==
    /\ Disturb
    /\ plugged' = IF d \in plugged THEN plugged \ {d} ELSE plugged \cup {d}
    /\ UNCHANGED <<tree, table, panelVars, active, crashed>>

-----------------------------------------------------------------------------
Next ==
    /\ ~ crashed
    /\ \/ Enter \/ Exit \/ Delete \/ Copy \/ Probe
       \/ \E dn \in BOOLEAN : Scroll(dn)
       \/ \E p \in Panel : Activate(p)
       \/ \E n \in NewNames : NewDir(n)
       \/ \E n \in Renames : Rename(n)
       \/ \E d \in Device : Plug(d)

Spec == Init /\ [][Next]_vars

\* Each CIRCLE pressed is taken by the frame that reads it; nothing else is fair.
FairSpec == Spec /\ WF_vars(~ crashed /\ Exit)

-----------------------------------------------------------------------------
(* Properties *)

TypeOK ==
    /\ plugged \subseteq Device /\ table \subseteq Device
    /\ path \in [Panel -> Seq(Names)]
    /\ history \in [Panel -> Seq(Seq(Names))]
    /\ list \in [Panel -> Seq(Entries)]
    /\ current \in [Panel -> Nat]
    /\ active \in Panel /\ crashed \in BOOLEAN

\* The selection is an entry of the list, or NULL when the list is empty, also
\* when devices and directories go away under the panels.
SelectionInv ==
    \A p \in Panel : IF list[p] = <<>> THEN current[p] = 0
                     ELSE current[p] \in DOMAIN list[p]

\* While no device or directory goes away, the history of a panel is the chain of
\* directories that leads to its path.
HistoryInv ==
    \A p \in Panel : history[p] = [i \in DOMAIN path[p] |-> SubSeq(path[p], 1, i)]

\* Leaving a directory selects it in the list of its parent, so that entering
\* again goes back there; the device list shows its first entry instead.
ReturnsToOrigin ==
    [][Len(path'[active]) < Len(path[active]) /\ path'[active] # <<>>
         => /\ path'[active] = Front(path[active])
            /\ list'[active][current'[active]].name = Last(path[active])]_vars

\* What a command changes is in or below the directory of a panel that is read again,
\* so that the user sees it: the active panel, for a copy the other one.
ResultShown ==
    [][tree' # tree =>
         \E p \in Panel :
            /\ path'[p] \in DOMAIN tree' /\ ToSet(list'[p]) = tree'[path'[p]]
            /\ \A q \in DOMAIN tree \cup DOMAIN tree' :
                  \/ IsPrefix(path[p], q)
                  \/ q \in DOMAIN tree \cap DOMAIN tree' /\ tree[q] = tree'[q]]_vars

\* From wherever the panel is, whatever its history has become, a user who only
\* presses CIRCLE comes to the device list, while devices come and go.
CircleLeadsHome ==
    <>[][Exit \/ Probe \/ \E d \in Device : Plug(d)]_vars
        => []<>(path[active] = <<>> \/ crashed)

\* Each panel browses: in, out to where it came from, or home.
Left == INSTANCE Navigation WITH at <- path["lp"]
Right == INSTANCE Navigation WITH at <- path["rp"]
ImplementsNavigation == Left!Spec /\ Right!Spec

\* "up and down scroll current selection", "cross [is] used to navigate in": the
\* commands work in every directory.
NoCrash == ~ crashed
=============================================================================
