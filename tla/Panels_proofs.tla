---------------------------- MODULE Panels_proofs ----------------------------
(***************************************************************************)
(* Proofs about module Panels, for any disks and devices: the variables    *)
(* have their types, and the selection of each panel is an entry of its    *)
(* list, or NULL when the list is empty, whatever is plugged, deleted and  *)
(* copied under it; what a command changes is shown.  While no device and  *)
(* no directory goes away, the history is the way back, leaving a          *)
(* directory selects it, and each panel implements module Navigation.      *)
(***************************************************************************)
EXTENDS Panels, Extrema, SequenceTheorems, FiniteSetTheorems, TLAPS

Path == Seq(Names)

\* Every directory has entries, whose names are names.
TreeType == DOMAIN tree \subseteq Path /\ \A q \in DOMAIN tree : tree[q] \subseteq Entries

PanelsInv == TreeType /\ TypeOK /\ SelectionInv

-----------------------------------------------------------------------------
(* Lists and the selection *)

\* A directory has finitely many entries.
LEMMA FiniteEntries == IsFiniteSet(Entries)
<1> DEFINE T == Names \X BOOLEAN
           f == [x \in T |-> [name |-> x[1], dir |-> x[2]]]
<1>1. IsFiniteSet(BOOLEAN)
  <2>1. IsFiniteSet({TRUE}) /\ IsFiniteSet({FALSE})
    BY FS_Singleton
  <2>2. BOOLEAN = {TRUE} \cup {FALSE}
    OBVIOUS
  <2> QED BY <2>1, <2>2, FS_Union
<1>2. IsFiniteSet(T)
  BY <1>1, NamesAssumption, FS_Product
<1>3. f \in Surjection(T, Entries)
  <2>1. \A x \in T : f[x] \in Entries
    BY DEF Entries
  <2>2. \A e \in Entries : \E x \in T : f[x] = e
    <3> SUFFICES ASSUME NEW e \in Entries PROVE f[<<e.name, e.dir>>] = e /\ <<e.name, e.dir>> \in T
      OBVIOUS
    <3> QED BY DEF Entries
  <2> QED BY <2>1, <2>2 DEF Surjection
<1> QED BY <1>2, <1>3, FS_Surjection

\* Any list of a directory has its entries, and a place is found in it.
LEMMA ListingPlace ==
    ASSUME NEW S \in SUBSET Entries, NEW l \in Listings(S), NEW n
    PROVE  /\ l \in Seq(Entries) /\ Locate(l, n) \in Nat
           /\ IF l = <<>> THEN Locate(l, n) = 0 ELSE Locate(l, n) \in DOMAIN l
           /\ S # {} => l # <<>> /\ 1 \in DOMAIN l
<1> DEFINE c == Cardinality(S)
           at == {i \in DOMAIN l : l[i].name = n}
<1>1. c \in Nat
  BY FiniteEntries, FS_Subset, FS_CardinalityType
<1>2. l \in [1 .. c -> S] /\ ToSet(l) = S
  BY DEF Listings
<1>3. l \in Seq(Entries) /\ DOMAIN l = 1 .. c /\ (l = <<>> <=> c = 0)
  <2> HIDE DEF c
  <2>1. l \in [1 .. c -> Entries]
    BY <1>2
  <2>2. l \in Seq(Entries) /\ DOMAIN l = 1 .. c
    BY <1>1, <2>1
  <2> QED BY <1>1, <2>2
<1>4. at \in SUBSET Nat /\ at \subseteq DOMAIN l
  BY <1>3
<1>5. S # {} => l # <<>> /\ 1 \in DOMAIN l
  <2>1. S # {} => DOMAIN l # {}
    BY <1>2 DEF ToSet
  <2> QED BY <1>1, <1>3, <2>1
<1>6. CASE at = {}
  <2>1. Locate(l, n) = IF l = <<>> THEN 0 ELSE 1
    BY <1>6 DEF Locate, First
  <2> QED BY <1>1, <1>3, <1>5, <2>1
<1>7. CASE at # {}
  <2>1. \E i \in at : \A j \in at : i <= j
    BY <1>4, <1>7, Least
  <2>2. Locate(l, n) = CHOOSE i \in at : \A j \in at : i <= j
    BY <1>7 DEF Locate
  <2> HIDE DEF at
  <2>3. Locate(l, n) \in at
    BY <2>1, <2>2
  <2>4. Locate(l, n) \in Nat /\ Locate(l, n) \in DOMAIN l
    BY <1>4, <2>3
  <2>5. l # <<>>
    BY <2>4
  <2> QED BY <1>3, <1>5, <2>4, <2>5
<1> QED BY <1>6, <1>7

\* What a panel shows after one of its lists was read.
LEMMA Shown ==
    ASSUME PanelsInv, NEW p \in Panel, NEW S \in SUBSET Entries, NEW l \in Listings(S), NEW n,
           list' = [list EXCEPT ![p] = l],
           current' = [current EXCEPT ![p] = Locate(l, n)]
    PROVE  /\ list' \in [Panel -> Seq(Entries)] /\ current' \in [Panel -> Nat]
           /\ SelectionInv'
<1>1. /\ l \in Seq(Entries) /\ Locate(l, n) \in Nat
      /\ IF l = <<>> THEN Locate(l, n) = 0 ELSE Locate(l, n) \in DOMAIN l
  BY ListingPlace
<1>2. list \in [Panel -> Seq(Entries)] /\ current \in [Panel -> Nat]
  BY DEF PanelsInv, TypeOK
<1>3. list' \in [Panel -> Seq(Entries)] /\ current' \in [Panel -> Nat]
  BY <1>1, <1>2
<1>4. \A r \in Panel : /\ list'[r] = (IF r = p THEN l ELSE list[r])
                       /\ current'[r] = (IF r = p THEN Locate(l, n) ELSE current[r])
  BY <1>2
<1>5. SelectionInv'
  <2>1. \A r \in Panel : IF list[r] = <<>> THEN current[r] = 0 ELSE current[r] \in DOMAIN list[r]
    BY DEF PanelsInv, SelectionInv
  <2> QED BY <1>1, <1>4, <2>1 DEF SelectionInv
<1> QED BY <1>3, <1>5

LEMMA FoundType ==
    ASSUME PanelsInv, NEW q, NEW t \in SUBSET Device
    PROVE  Found(q, t) \subseteq Entries /\ (q = <<>> => Found(q, t) # {})
<1>1. \A d \in t \cup {Sys} : Entry(d, TRUE) \in Entries
  BY DEF Entry, Entries, Names
<1> QED BY <1>1 DEF Found, Exists, PanelsInv, TreeType

LEMMA ScanShown ==
    ASSUME PanelsInv, NEW p \in Panel, NEW q \in Path, NEW n, Scan(p, q, n)
    PROVE  /\ list' \in [Panel -> Seq(Entries)] /\ current' \in [Panel -> Nat]
           /\ path' \in [Panel -> Path] /\ SelectionInv'
<1>1. Found(q, table) \in SUBSET Entries
  BY FoundType DEF PanelsInv, TypeOK
<1>2. PICK l \in Listings(Found(q, table)) :
          /\ list' = [list EXCEPT ![p] = l]
          /\ current' = [current EXCEPT ![p] = Locate(l, n)]
  BY DEF Scan
<1>3. path' \in [Panel -> Path]
  BY DEF Scan, PanelsInv, TypeOK, Path
<1> QED BY <1>1, <1>2, <1>3, Shown

LEMMA ReloadShown ==
    ASSUME PanelsInv, NEW p \in Panel, NEW n, Reload(p, n), TreeType',
           Exists(path[p]) => path[p] \in DOMAIN tree'
    PROVE  PanelsInv'
<1> DEFINE S == IF Exists(path[p]) THEN tree'[path[p]] ELSE {}
<1>1. S \in SUBSET Entries
  BY DEF TreeType
<1>2. PICK l \in Listings(S) :
          /\ list' = [list EXCEPT ![p] = l]
          /\ current' = [current EXCEPT ![p] = Locate(l, n)]
  BY DEF Reload
<1> HIDE DEF S
<1>3. list' \in [Panel -> Seq(Entries)] /\ current' \in [Panel -> Nat] /\ SelectionInv'
  BY <1>1, <1>2, Shown
<1> QED BY <1>3 DEF Reload, PanelsInv, TypeOK

LEMMA InitPanels == Init => PanelsInv
<1> SUFFICES ASSUME Init PROVE PanelsInv
  OBVIOUS
<1>1. plugged \subseteq Device /\ tree = Tree /\ table = plugged
  BY DEF Init
<1>2. TreeType
  BY <1>1, TreeAssumption DEF TreeType, Path
<1> DEFINE S == {Entry(d, TRUE) : d \in plugged \cup {Sys}}
<1>3. S \in SUBSET Entries /\ S # {}
  <2>1. \A d \in plugged \cup {Sys} : Entry(d, TRUE) \in Entries
    BY <1>1 DEF Entry, Entries, Names
  <2> QED BY <2>1
<1>4. PICK l \in Listings(S) : list = [p \in Panel |-> l]
  BY DEF Init
<1> HIDE DEF S
<1>5. l \in Seq(Entries) /\ l # <<>> /\ 1 \in DOMAIN l
  BY <1>3, ListingPlace
<1>6. /\ path = [p \in Panel |-> <<>>] /\ history = [p \in Panel |-> <<>>]
      /\ current = [p \in Panel |-> 1] /\ active = "lp" /\ crashed = FALSE
  BY DEF Init
<1>7. TypeOK
  <2>1. <<>> \in Seq(Names) /\ <<>> \in Seq(Seq(Names))
    OBVIOUS
  <2>2. path \in [Panel -> Seq(Names)] /\ history \in [Panel -> Seq(Seq(Names))]
    BY <1>6, <2>1
  <2>3. list \in [Panel -> Seq(Entries)] /\ current \in [Panel -> Nat]
    BY <1>4, <1>5, <1>6
  <2>4. active \in Panel /\ crashed \in BOOLEAN
    BY <1>6 DEF Panel
  <2> QED BY <1>1, <2>2, <2>3, <2>4 DEF TypeOK
<1>8. SelectionInv
  BY <1>4, <1>5, <1>6 DEF SelectionInv
<1> QED BY <1>2, <1>7, <1>8 DEF PanelsInv

-----------------------------------------------------------------------------
(* The commands that leave the disks alone *)

LEMMA DereferenceKeeps ==
    ASSUME PanelsInv, NEW p, Dereference(p)
    PROVE  PanelsInv'
BY DEF PanelsInv, TreeType, TypeOK, SelectionInv, Dereference, panelVars

\* The selection of a panel, when there is one, is an entry.
LEMMA Selected ==
    ASSUME PanelsInv, NEW p \in Panel, current[p] # 0
    PROVE  /\ current[p] \in DOMAIN list[p] /\ list[p][current[p]] \in Entries
           /\ list[p][current[p]].name \in Names
<1>1. current[p] \in DOMAIN list[p]
  BY DEF PanelsInv, SelectionInv
<1>2. list[p] \in Seq(Entries)
  BY DEF PanelsInv, TypeOK
<1>3. list[p][current[p]] \in Entries
  BY <1>1, <1>2
<1> QED BY <1>1, <1>3 DEF Entries

LEMMA EnterKeeps == PanelsInv /\ Enter => PanelsInv'
<1> SUFFICES ASSUME PanelsInv, EnterDir(active) PROVE PanelsInv'
  BY DereferenceKeeps DEF Enter
<1> DEFINE q == Append(path[active], list[active][current[active]].name)
<1>1. active \in Panel /\ path[active] \in Path /\ history \in [Panel -> Seq(Path)]
  BY DEF PanelsInv, TypeOK, Path
<1>2. q \in Path
  BY <1>1, Selected DEF EnterDir, Path
<1> HIDE DEF q
<1>3. /\ Scan(active, q, NoName) /\ UNCHANGED <<plugged, tree, table, active, crashed>>
      /\ history' \in {history, [history EXCEPT ![active] = Append(@, q)]}
  BY DEF EnterDir, q
<1>4. history' \in [Panel -> Seq(Path)]
  BY <1>1, <1>2, <1>3
<1> QED BY <1>1, <1>2, <1>3, <1>4, ScanShown DEF PanelsInv, TreeType, TypeOK, Path

LEMMA ExitKeeps == PanelsInv /\ Exit => PanelsInv'
<1> SUFFICES ASSUME PanelsInv, Exit PROVE PanelsInv'
  OBVIOUS
<1> DEFINE h == history[active]
<1>1. active \in Panel /\ h \in Seq(Path) /\ history \in [Panel -> Seq(Path)]
  BY DEF PanelsInv, TypeOK, Path
<1>2. h # <<>> => Front(h) \in Seq(Path)
  BY <1>1, SubSeqProperties DEF Front
<1>3. ~ (Len(h) < 2) => h[Len(h) - 1] \in Path
  BY <1>1
<1>4. <<>> \in Path
  BY DEF Path
<1> HIDE DEF h
<1>5. /\ history' = [history EXCEPT ![active] = IF h = <<>> THEN h ELSE Front(h)]
      /\ UNCHANGED <<plugged, tree, table, active, crashed>>
      /\ \/ UNCHANGED <<path, list, current>>
         \/ Len(h) < 2 /\ Scan(active, <<>>, NoName)
         \/ /\ ~ (Len(h) < 2)
            /\ \E n : Scan(active, h[Len(h) - 1], n)
  BY DEF Exit, h
<1>6. history' \in [Panel -> Seq(Path)]
  BY <1>1, <1>2, <1>5
<1>7. CASE UNCHANGED <<path, list, current>>
  BY <1>5, <1>6, <1>7 DEF PanelsInv, TreeType, TypeOK, SelectionInv, Path
<1>8. CASE \E q \in Path : \E n : Scan(active, q, n)
  BY <1>1, <1>5, <1>6, <1>8, ScanShown DEF PanelsInv, TreeType, TypeOK, Path
<1> QED BY <1>3, <1>4, <1>5, <1>7, <1>8

LEMMA ScrollKeeps ==
    ASSUME PanelsInv, NEW dn \in BOOLEAN, Scroll(dn)
    PROVE  PanelsInv'
<1> SUFFICES ASSUME NEW i, ScrollTo(active, i) PROVE PanelsInv'
  BY DereferenceKeeps DEF Scroll
<1>1. /\ active \in Panel /\ list[active] \in Seq(Entries) /\ i \in DOMAIN list[active]
      /\ current' = [current EXCEPT ![active] = i] /\ current \in [Panel -> Nat]
      /\ UNCHANGED <<plugged, tree, table, path, history, list, active, crashed>>
  BY DEF ScrollTo, PanelsInv, TypeOK
<1>2. i \in Nat /\ list[active] # <<>>
  BY <1>1
<1> QED BY <1>1, <1>2 DEF PanelsInv, TreeType, TypeOK, SelectionInv

LEMMA ProbeKeeps == PanelsInv /\ Probe => PanelsInv'
<1> SUFFICES ASSUME PanelsInv, Probe PROVE PanelsInv'
  OBVIOUS
<1> DEFINE S == Found(<<>>, plugged)
<1>1. S \in SUBSET Entries /\ S # {}
  BY FoundType DEF PanelsInv, TypeOK
<1> HIDE DEF S
<1>2. /\ table' = plugged /\ path' = [p \in Panel |-> <<>>]
      /\ list' \in [Panel -> Listings(S)] /\ current' = [p \in Panel |-> 1]
      /\ UNCHANGED <<plugged, tree, history, active, crashed>>
  BY DEF Probe, S
<1>3. \A l \in Listings(S) : l \in Seq(Entries) /\ l # <<>> /\ 1 \in DOMAIN l
  BY <1>1, ListingPlace
<1>4. list' \in [Panel -> Seq(Entries)] /\ current' \in [Panel -> Nat] /\ SelectionInv'
  BY <1>2, <1>3 DEF SelectionInv
<1>5. path' \in [Panel -> Seq(Names)]
  BY <1>2
<1> QED BY <1>2, <1>4, <1>5 DEF PanelsInv, TreeType, TypeOK

-----------------------------------------------------------------------------
(* The commands that change the disks *)

\* The new directory and what is in it.
LEMMA NewDirKeeps ==
    ASSUME PanelsInv, NEW n \in NewNames, NewDir(n)
    PROVE  PanelsInv'
<1> DEFINE q == path[active]
           new == Append(q, n)
           made == [r \in DOMAIN tree \cup {new} |->
                      IF r = q THEN tree[q] \cup {Entry(n, TRUE)}
                      ELSE IF r = new THEN {} ELSE tree[r]]
<1>1. active \in Panel /\ q \in Path /\ n \in Names /\ new \in Path
  BY DEF PanelsInv, TypeOK, Path, Names
<1>2. /\ Reload(active, n)
      /\ UNCHANGED tree \/ (q \in DOMAIN tree /\ tree' = made)
  BY DEF NewDir, Exists
<1>3. TreeType' /\ (Exists(path[active]) => path[active] \in DOMAIN tree')
  <2>1. CASE UNCHANGED tree
    BY <2>1 DEF PanelsInv, TreeType, Exists
  <2>2. CASE q \in DOMAIN tree /\ tree' = made
    <3>1. Entry(n, TRUE) \in Entries
      BY <1>1 DEF Entry, Entries
    <3>2. DOMAIN made = DOMAIN tree \cup {new}
      OBVIOUS
    <3>3. \A r \in DOMAIN made : made[r] \subseteq Entries
      BY <2>2, <3>1 DEF PanelsInv, TreeType
    <3> HIDE DEF made
    <3> QED BY <1>1, <2>2, <3>2, <3>3 DEF PanelsInv, TreeType, Exists
  <2> QED BY <1>2, <2>1, <2>2
<1> QED BY <1>1, <1>2, <1>3, ReloadShown

\* What is removed is below the path x, and with it whatever is below that.
LEMMA WithoutType ==
    ASSUME PanelsInv, NEW K
    PROVE  /\ DOMAIN Without(K) = DOMAIN tree \ K
           /\ \A q \in DOMAIN Without(K) : Without(K)[q] \subseteq Entries
BY DEF Without, PanelsInv, TreeType

\* The path of an entry ends in its name.
LEMMA PathsType ==
    ASSUME PanelsInv, NEW x \in Paths
    PROVE  x \in Path /\ x # <<>> /\ Last(x) \in Names
<1>1. PICK q \in DOMAIN tree : x \in {Append(q, e.name) : e \in tree[q]}
  BY DEF Paths
<1>2. PICK e \in tree[q] : x = Append(q, e.name)
  BY <1>1
<1>3. q \in Seq(Names) /\ e.name \in Names
  BY DEF PanelsInv, TreeType, Entries, Path
<1>4. x \in Seq(Names) /\ Len(x) = Len(q) + 1 /\ x[Len(x)] = e.name
  BY <1>2, <1>3
<1> QED BY <1>3, <1>4 DEF Last, Path

LEMMA DeleteKeeps == PanelsInv /\ Delete => PanelsInv'
<1> SUFFICES ASSUME PanelsInv, DeleteEntry(active) PROVE PanelsInv'
  BY DereferenceKeeps DEF Delete
<1> DEFINE q == path[active]
           x == Append(q, list[active][current[active]].name)
<1>1. active \in Panel /\ q \in Path
  BY DEF PanelsInv, TypeOK, Path
<1>2. x \in Path /\ Len(x) = Len(q) + 1
  BY <1>1, Selected DEF DeleteEntry, Path
<1> HIDE DEF x
<1>3. PICK K \in SUBSET Below(x) : tree' = Without(K)
  BY DEF DeleteEntry, x
<1>4. q \notin K
  <2>1. \A y \in K : Len(x) <= Len(y)
    BY <1>3 DEF Below, IsPrefix
  <2> QED BY <1>1, <1>2, <2>1 DEF Path
<1>5. TreeType' /\ (Exists(q) => q \in DOMAIN tree')
  BY <1>3, <1>4, WithoutType DEF PanelsInv, TreeType, Exists
<1>6. Reload(active, NoName)
  BY DEF DeleteEntry
<1> QED BY <1>1, <1>5, <1>6, ReloadShown

\* Where a copy goes is below the directory it goes to.
LEMMA TargetType ==
    ASSUME NEW o \in Path, NEW src \in Path, src # <<>>, NEW x \in Path, IsPrefix(src, x)
    PROVE  /\ o \o SubSeq(x, Len(src), Len(x)) \in Path
           /\ o \o SubSeq(x, Len(src), Len(x)) # o
<1>1. Len(src) \in 1 .. Len(x) /\ Len(x) \in Nat
  BY DEF IsPrefix, Path
<1> DEFINE t == SubSeq(x, Len(src), Len(x))
<1>2. t \in Seq(Names) /\ Len(t) = Len(x) - Len(src) + 1
  <2>1. \A i \in Len(src) .. Len(x) : x[i] \in Names
    BY <1>1 DEF Path
  <2> QED BY <1>1, <2>1, SubSeqProperties
<1> HIDE DEF t
<1>3. o \o t \in Seq(Names) /\ Len(o \o t) = Len(o) + Len(t)
  BY <1>2, ConcatProperties DEF Path
<1>4. Len(o \o t) # Len(o)
  BY <1>1, <1>2, <1>3 DEF Path
<1> QED BY <1>3, <1>4 DEF t, Path

LEMMA CopyKeeps == PanelsInv /\ Copy => PanelsInv'
<1> SUFFICES ASSUME PanelsInv, CopyEntry(active) PROVE PanelsInv'
  BY DereferenceKeeps DEF Copy
<1> DEFINE o == Other(active)
           src == Append(path[active], list[active][current[active]].name)
           Target(x) == path[o] \o SubSeq(x, Len(src), Len(x))
           From == IF Exists(path[o]) THEN Below(src) ELSE {}
           With(t, K) == [q \in DOMAIN t \cup {Target(x) : x \in K \cap DOMAIN tree} |->
                            (IF q \in DOMAIN t THEN t[q] ELSE {})
                            \cup {Entry(Last(x), IsDir(x)) :
                                      x \in {x \in K : Front(Target(x)) = q}}]
<1>1. active \in Panel /\ o \in Panel
  BY DEF PanelsInv, TypeOK, Other, Panel
<1>2. src \in Path /\ src # <<>> /\ path[o] \in Path
  <2>1. path \in [Panel -> Seq(Names)]
    BY DEF PanelsInv, TypeOK
  <2>2. path[active] \in Seq(Names) /\ list[active][current[active]].name \in Names
    BY <1>1, <2>1, Selected DEF CopyEntry
  <2>3. src \in Seq(Names) /\ Len(src) = Len(path[active]) + 1
    BY <2>2
  <2>4. src # <<>>
    BY <2>2, <2>3
  <2> QED BY <1>1, <2>1, <2>3, <2>4 DEF Path
<1>3. \A x \in From : x \in Path /\ Last(x) \in Names /\ IsPrefix(src, x)
  BY PathsType DEF Below
<1>4. \A x \in From : Target(x) \in Path /\ Target(x) # path[o]
  BY <1>2, <1>3, TargetType
<1>5. PICK K \in SUBSET From, R \in SUBSET {Target(x) : x \in From} :
          tree' = With(Without(R), K)
  <2>1. \E K \in SUBSET From :
        \E R \in SUBSET ({Target(x) : x \in From \ (K \cup DOMAIN tree)} \cap Paths) :
           tree' = With(Without(R), K)
    BY Zenon DEF CopyEntry
  <2>2. \A K : {Target(x) : x \in From \ (K \cup DOMAIN tree)} \subseteq {Target(x) : x \in From}
    <3> HIDE DEF Target, From
    <3> QED OBVIOUS
  <2> HIDE DEF Target, From, With
  <2> QED BY <2>1, <2>2
<1>6. Reload(o, NoName)
  BY DEF CopyEntry
<1> HIDE DEF src, From, Target
<1>7. DOMAIN tree' = DOMAIN Without(R) \cup {Target(x) : x \in K \cap DOMAIN tree}
  BY <1>5
<1>8. DOMAIN tree' \subseteq Path
  <2>1. \A x \in K : Target(x) \in Path
    BY <1>4
  <2>2. DOMAIN Without(R) \subseteq Path
    BY WithoutType DEF PanelsInv, TreeType
  <2> HIDE DEF With
  <2> QED BY <1>7, <2>1, <2>2
<1>9. \A x \in K : Entry(Last(x), IsDir(x)) \in Entries
  BY <1>3 DEF Entry, Entries, IsDir
<1>10. \A q \in DOMAIN tree' : tree'[q] \subseteq Entries
  <2> SUFFICES ASSUME NEW q \in DOMAIN tree' PROVE tree'[q] \subseteq Entries
    OBVIOUS
  <2>1. tree'[q] = (IF q \in DOMAIN Without(R) THEN Without(R)[q] ELSE {})
                   \cup {Entry(Last(x), IsDir(x)) : x \in {x \in K : Front(Target(x)) = q}}
    BY <1>5, <1>7
  <2>2. q \in DOMAIN Without(R) => Without(R)[q] \subseteq Entries
    BY WithoutType
  <2>3. {Entry(Last(x), IsDir(x)) : x \in {x \in K : Front(Target(x)) = q}} \subseteq Entries
    <3> HIDE DEF With
    <3> QED BY <1>9
  <2> HIDE DEF With
  <2> QED BY <2>1, <2>2, <2>3
<1>11. Exists(path[o]) => path[o] \in DOMAIN tree'
  <2>1. path[o] \notin R
    BY <1>4, <1>5
  <2> QED BY <1>7, <2>1, WithoutType DEF Exists
<1> QED BY <1>1, <1>6, <1>8, <1>10, <1>11, ReloadShown DEF TreeType

\* An entry is renamed with what is below it: each directory keeps its entries.
LEMMA RenameKeeps ==
    ASSUME PanelsInv, NEW n \in Renames, Rename(n)
    PROVE  PanelsInv'
<1> DEFINE p == active
           q == path[p]
           e == list[p][current[p]]
           old == Append(q, e.name)
           new == Append(q, n)
           moved(r) == IF IsPrefix(old, r) THEN new \o SubSeq(r, Len(new) + 1, Len(r)) ELSE r
           back(r) == CHOOSE s \in DOMAIN tree : moved(s) = r
           renamed == [r \in {moved(s) : s \in DOMAIN tree} |->
                         IF r = q THEN (tree[q] \ {e}) \cup {Entry(n, e.dir)}
                         ELSE tree[back(r)]]
<1>1. p \in Panel /\ q \in Seq(Names) /\ n \in Names
  BY DEF PanelsInv, TypeOK, Names
<1>2. e \in Entries /\ e.name \in Names
  BY <1>1, Selected DEF Rename
<1>3. old \in Seq(Names) /\ new \in Seq(Names) /\ Len(old) = Len(q) + 1 /\ Len(new) = Len(q) + 1
  BY <1>1, <1>2
<1>4. Reload(p, n) /\ (UNCHANGED tree \/ (q \in DOMAIN tree /\ tree' = renamed))
  BY DEF Rename, Exists
<1>5. CASE UNCHANGED tree
  BY <1>1, <1>4, <1>5, ReloadShown DEF PanelsInv, TreeType, Exists
<1>6. CASE q \in DOMAIN tree /\ tree' = renamed
  <2>1. \A s \in DOMAIN tree : moved(s) \in Path
    <3> SUFFICES ASSUME NEW s \in Seq(Names), IsPrefix(old, s)
                 PROVE  new \o SubSeq(s, Len(new) + 1, Len(s)) \in Seq(Names)
      BY DEF PanelsInv, TreeType, Path
    <3>1. \A i \in Len(new) + 1 .. Len(s) : s[i] \in Names
      BY <1>3
    <3>2. SubSeq(s, Len(new) + 1, Len(s)) \in Seq(Names)
      BY <1>3, <3>1, SubSeqProperties
    <3> QED BY <1>3, <3>2, ConcatProperties
  <2>2. moved(q) = q
    BY <1>1, <1>3 DEF IsPrefix
  <2>3. Entry(n, e.dir) \in Entries
    BY <1>1, <1>2 DEF Entry, Entries
  <2> HIDE DEF moved
  <2>4. DOMAIN tree' = {moved(s) : s \in DOMAIN tree}
    BY <1>6
  <2>5. \A r \in DOMAIN tree' : r # q => back(r) \in DOMAIN tree /\ tree'[r] = tree[back(r)]
    BY <1>6, <2>4
  <2>6. tree'[q] = (tree[q] \ {e}) \cup {Entry(n, e.dir)}
    BY <1>6, <2>2
  <2>7. TreeType'
    <3>1. DOMAIN tree' \subseteq Path
      BY <2>1, <2>4
    <3>2. \A r \in DOMAIN tree : tree[r] \subseteq Entries
      BY DEF PanelsInv, TreeType
    <3>3. \A r \in DOMAIN tree' : r # q => tree'[r] \subseteq Entries
      BY <2>5, <3>2
    <3>4. tree'[q] \subseteq Entries
      BY <1>6, <2>3, <2>6, <3>2
    <3> QED BY <3>1, <3>3, <3>4 DEF TreeType
  <2>8. path[p] \in DOMAIN tree'
    BY <1>6, <2>2, <2>4
  <2> QED BY <1>1, <1>4, <2>7, <2>8, ReloadShown
<1> QED BY <1>4, <1>5, <1>6

-----------------------------------------------------------------------------
LEMMA NextPanels == PanelsInv /\ [Next]_vars => PanelsInv'
<1> SUFFICES ASSUME PanelsInv, [Next]_vars PROVE PanelsInv'
  OBVIOUS
<1>1. CASE UNCHANGED vars
  BY <1>1 DEF PanelsInv, TreeType, TypeOK, SelectionInv, vars, panelVars
<1>2. ASSUME NEW p \in Panel, Activate(p) PROVE PanelsInv'
  BY <1>2 DEF PanelsInv, TreeType, TypeOK, SelectionInv, Activate, panelVars
<1>3. ASSUME NEW d \in Device, Plug(d) PROVE PanelsInv'
  BY <1>3 DEF PanelsInv, TreeType, TypeOK, SelectionInv, Plug, panelVars
<1>4. CASE Next
  BY <1>2, <1>3, <1>4, EnterKeeps, ExitKeeps, DeleteKeeps, CopyKeeps, ProbeKeeps,
     ScrollKeeps, NewDirKeeps, RenameKeeps DEF Next
<1> QED BY <1>1, <1>4

LEMMA PanelsAlways == Spec => []PanelsInv
<1> QED BY InitPanels, NextPanels, PTL DEF Spec

\* The variables of the panels have their types, for any disks and devices.
THEOREM TypeCorrect == Spec => []TypeOK
<1>1. PanelsInv => TypeOK
  BY DEF PanelsInv
<1> QED BY <1>1, PanelsAlways, PTL

\* The selection is an entry of the list, or NULL when the list is empty.
THEOREM SelectionCorrect == Spec => []SelectionInv
<1>1. PanelsInv => SelectionInv
  BY DEF PanelsInv
<1> QED BY <1>1, PanelsAlways, PTL

-----------------------------------------------------------------------------
(* Browsing, while no device and no directory goes away *)

Steady == ~ Disturb /\ Renames = {}

\* The directories of the tree are in it, and all devices answer.
Complete ==
    /\ plugged = Device /\ table = Device
    /\ \A d \in Device \cup {Sys} : <<d>> \in DOMAIN tree
    /\ \A q \in DOMAIN tree : \A e \in tree[q] : e.dir => Append(q, e.name) \in DOMAIN tree

\* A directory that is listed can be read.
ListedExists ==
    \A p \in Panel : \A e \in ToSet(list[p]) : e.dir => Exists(Append(path[p], e.name))

BrowseInv == PanelsInv /\ Complete /\ ListedExists /\ HistoryInv

\* The directories that are read in a complete tree.
LEMMA FoundExists ==
    ASSUME PanelsInv, Complete, NEW q \in Path, NEW e \in Found(q, Device), e.dir
    PROVE  Exists(Append(q, e.name))
<1>1. q \in Seq(Names)
  BY DEF Path
<1>2. CASE q = <<>>
  <2>1. PICK d \in Device \cup {Sys} : e = Entry(d, TRUE)
    BY <1>2 DEF Found
  <2>2. Append(q, e.name) = <<d>>
    BY <1>2, <2>1 DEF Entry
  <2>3. Exists(<<d>>)
    BY <2>1 DEF Exists, Complete
  <2> QED BY <2>2, <2>3
<1>3. CASE q # <<>>
  <2>1. Exists(q) /\ e \in tree[q]
    BY <1>3 DEF Found
  <2>2. e.name \in Names /\ Append(q, e.name) \in DOMAIN tree
    BY <2>1 DEF Exists, Complete, PanelsInv, TreeType, Entries
  <2>3. Append(q, e.name)[1] = q[1]
    BY <1>1, <1>3, <2>2
  <2> QED BY <2>1, <2>2, <2>3 DEF Exists
<1> QED BY <1>2, <1>3

\* A tree that only grows leaves every list valid.
LEMMA GrowsListed ==
    ASSUME ListedExists, UNCHANGED <<list, path, plugged>>, DOMAIN tree \subseteq DOMAIN tree'
    PROVE  ListedExists'
BY DEF ListedExists, Exists

LEMMA ScanListed ==
    ASSUME PanelsInv, Complete, ListedExists, NEW p \in Panel, NEW q \in Path, NEW n,
           Scan(p, q, n), UNCHANGED <<tree, plugged>>
    PROVE  ListedExists'
<1>1. PICK l \in Listings(Found(q, Device)) :
          path' = [path EXCEPT ![p] = q] /\ list' = [list EXCEPT ![p] = l]
  BY DEF Scan, Complete
<1>2. ToSet(l) = Found(q, Device)
  BY DEF Listings
<1>3. \A x : Exists(x)' <=> Exists(x)
  BY DEF Exists
<1>4. path \in [Panel -> Seq(Names)] /\ list \in [Panel -> Seq(Entries)]
  BY DEF PanelsInv, TypeOK
<1>5. \A r \in Panel : /\ path'[r] = (IF r = p THEN q ELSE path[r])
                       /\ list'[r] = (IF r = p THEN l ELSE list[r])
  BY <1>1, <1>4
<1> SUFFICES ASSUME NEW r \in Panel, NEW e \in ToSet(list'[r]), e.dir
             PROVE  Exists(Append(path'[r], e.name))
  BY <1>3 DEF ListedExists
<1>6. CASE r = p
  BY <1>2, <1>5, <1>6, FoundExists
<1>7. CASE r # p
  BY <1>5, <1>7 DEF ListedExists
<1> QED BY <1>6, <1>7

LEMMA ReloadListed ==
    ASSUME PanelsInv, Complete, Complete', PanelsInv', ListedExists, NEW p \in Panel, NEW n,
           Reload(p, n), path[p] # <<>>, DOMAIN tree \subseteq DOMAIN tree'
    PROVE  ListedExists'
<1>1. PICK l \in Listings(IF Exists(path[p]) THEN tree'[path[p]] ELSE {}) :
          list' = [list EXCEPT ![p] = l]
  BY DEF Reload
<1>2. ToSet(l) = IF Exists(path[p]) THEN tree'[path[p]] ELSE {}
  BY DEF Listings
<1>3. \A x : Exists(x) => Exists(x)'
  BY DEF Exists, Reload
<1>4. path \in [Panel -> Seq(Names)] /\ list \in [Panel -> Seq(Entries)] /\ UNCHANGED path
  BY DEF PanelsInv, TypeOK, Reload
<1>5. \A r \in Panel : list'[r] = IF r = p THEN l ELSE list[r]
  BY <1>1, <1>4
<1> SUFFICES ASSUME NEW r \in Panel, NEW e \in ToSet(list'[r]), e.dir
             PROVE  Exists(Append(path[r], e.name))'
  BY <1>4 DEF ListedExists
<1>6. CASE r = p
  <2>1. Exists(path[p]) /\ e \in tree'[path[p]] /\ path[p] \in DOMAIN tree'
    BY <1>2, <1>3, <1>5, <1>6 DEF Exists
  <2>2. Append(path[p], e.name) \in DOMAIN tree' /\ e.name \in Names
    BY <2>1 DEF Complete, PanelsInv, TreeType, Entries
  <2>3. Append(path[p], e.name)[1] = path[p][1]
    BY <1>4, <2>2
  <2> QED BY <1>4, <1>6, <2>1, <2>2, <2>3 DEF Exists, Reload
<1>7. CASE r # p
  BY <1>3, <1>4, <1>5, <1>7 DEF ListedExists
<1> QED BY <1>6, <1>7

LEMMA InitBrowse ==
    ASSUME Steady, Init
    PROVE  BrowseInv
<1>1. PanelsInv
  BY InitPanels
<1>2. plugged = Device /\ tree = Tree /\ table = plugged
  BY DEF Init, Steady
<1>3. Complete
  BY <1>2, TreeAssumption DEF Complete
<1>4. path = [p \in Panel |-> <<>>] /\ history = [p \in Panel |-> <<>>]
  BY DEF Init
<1>5. ListedExists
  <2>1. PICK l \in Listings({Entry(d, TRUE) : d \in plugged \cup {Sys}}) :
            list = [p \in Panel |-> l]
    BY DEF Init
  <2>2. ToSet(l) = Found(<<>>, Device)
    BY <1>2, <2>1 DEF Listings, Found
  <2>3. <<>> \in Path
    BY DEF Path
  <2> QED BY <1>1, <1>3, <1>4, <2>1, <2>2, <2>3, FoundExists DEF ListedExists
<1>6. HistoryInv
  BY <1>4 DEF HistoryInv
<1> QED BY <1>1, <1>3, <1>5, <1>6 DEF BrowseInv

\* The directories on the way to a path.
Trail(q) == [i \in DOMAIN q |-> SubSeq(q, 1, i)]

LEMMA TrailType ==
    ASSUME NEW q \in Seq(Names)
    PROVE  /\ Trail(q) \in Seq(Seq(Names)) /\ Len(Trail(q)) = Len(q)
           /\ \A i \in 1 .. Len(q) : Trail(q)[i] = SubSeq(q, 1, i)
<1>1. Len(q) \in Nat /\ DOMAIN q = 1 .. Len(q) /\ \A i \in 1 .. Len(q) : q[i] \in Names
  OBVIOUS
<1>2. \A i \in 1 .. Len(q) : SubSeq(q, 1, i) \in Seq(Names)
  BY <1>1, SubSeqProperties
<1>3. Trail(q) \in [1 .. Len(q) -> Seq(Names)]
  BY <1>1, <1>2 DEF Trail
<1>4. Trail(q) \in Seq(Seq(Names)) /\ Len(Trail(q)) = Len(q)
  BY <1>1, <1>3
<1> QED BY <1>1, <1>4 DEF Trail

LEMMA TrailAppend ==
    ASSUME NEW q \in Seq(Names), NEW n \in Names
    PROVE  Append(Trail(q), Append(q, n)) = Trail(Append(q, n))
<1> DEFINE r == Append(q, n)  t == Append(Trail(q), r)
<1>1. /\ r \in Seq(Names) /\ Len(r) = Len(q) + 1 /\ Len(q) \in Nat
      /\ r = q \o <<n>> /\ <<n>> \in Seq(Names)
  BY AppendIsConcat
<1>2. SubSeq(r, 1, Len(r)) = r
  BY <1>1, SubSeqFull
<1>3. \A i \in 1 .. Len(q) : SubSeq(r, 1, i) = SubSeq(q, 1, i)
  <2> SUFFICES ASSUME NEW i \in 1 .. Len(q) PROVE SubSeq(r, 1, i) = SubSeq(q, 1, i)
    OBVIOUS
  <2>1. 1 \in 1 .. Len(q)
    BY <1>1
  <2> QED BY <1>1, <2>1, SubSeqOfConcat1
<1> HIDE DEF r
<1>4. /\ Trail(q) \in Seq(Seq(Names)) /\ Len(Trail(q)) = Len(q)
      /\ \A i \in 1 .. Len(q) : Trail(q)[i] = SubSeq(q, 1, i)
  BY TrailType
<1>5. /\ t \in Seq(Seq(Names)) /\ Len(t) = Len(r) /\ t[Len(q) + 1] = r
      /\ \A i \in 1 .. Len(q) : t[i] = Trail(q)[i]
  BY <1>1, <1>4, AppendProperties
<1> HIDE DEF t
<1>6. \A i \in 1 .. Len(r) : t[i] = SubSeq(r, 1, i)
  <2> SUFFICES ASSUME NEW i \in 1 .. Len(r) PROVE t[i] = SubSeq(r, 1, i)
    OBVIOUS
  <2>1. CASE i \in 1 .. Len(q)
    BY <1>3, <1>4, <1>5, <2>1
  <2>2. CASE i = Len(q) + 1
    BY <1>1, <1>2, <1>5, <2>2
  <2> QED BY <1>1, <2>1, <2>2
<1>7. /\ Trail(r) \in Seq(Seq(Names)) /\ Len(Trail(r)) = Len(r)
      /\ \A i \in 1 .. Len(r) : Trail(r)[i] = SubSeq(r, 1, i)
  BY <1>1, TrailType
<1>8. t = Trail(r)
  <2>1. \A i \in 1 .. Len(t) : t[i] = Trail(r)[i]
    BY <1>5, <1>6, <1>7
  <2> QED BY <1>5, <1>7, <2>1, SeqEqual
<1> QED BY <1>8 DEF r, t

LEMMA TrailFront ==
    ASSUME NEW q \in Seq(Names), q # <<>>
    PROVE  /\ SubSeq(q, 1, Len(q) - 1) \in Seq(Names)
           /\ Len(SubSeq(q, 1, Len(q) - 1)) = Len(q) - 1
           /\ Front(Trail(q)) = Trail(SubSeq(q, 1, Len(q) - 1))
<1> DEFINE r == SubSeq(q, 1, Len(q) - 1)  t == Front(Trail(q))
<1>1. Len(q) \in Nat \ {0} /\ \A i \in 1 .. Len(q) : q[i] \in Names
  OBVIOUS
<1>2. r \in Seq(Names) /\ Len(r) = Len(q) - 1
  <2>1. Len(q) - 1 \in Int /\ \A i \in 1 .. Len(q) - 1 : q[i] \in Names
    BY <1>1
  <2>2. r \in Seq(Names) /\ Len(r) = IF 1 <= Len(q) - 1 THEN Len(q) - 1 - 1 + 1 ELSE 0
    BY <2>1, SubSeqProperties
  <2>3. \A n \in Nat \ {0} : (IF 1 <= n - 1 THEN n - 1 - 1 + 1 ELSE 0) = n - 1
    OBVIOUS
  <2>4. (IF 1 <= Len(q) - 1 THEN Len(q) - 1 - 1 + 1 ELSE 0) = Len(q) - 1
    BY <1>1, <2>3
  <2> HIDE DEF r
  <2> QED BY <2>2, <2>4
<1>3. \A i \in 1 .. Len(r) : SubSeq(r, 1, i) = SubSeq(q, 1, i)
  <2> SUFFICES ASSUME NEW i \in 1 .. Len(r) PROVE SubSeq(r, 1, i) = SubSeq(q, 1, i)
    OBVIOUS
  <2>1. /\ 1 \in 1 .. Len(q) /\ Len(q) - 1 \in 1 .. Len(q)
        /\ 1 \in 1 .. Len(q) - 1 /\ i \in 1 .. Len(q) - 1
    BY <1>1, <1>2
  <2> QED BY <2>1, SubSeqOfSubSeq
<1> HIDE DEF r
<1>4. /\ Trail(q) \in Seq(Seq(Names)) /\ Len(Trail(q)) = Len(q)
      /\ \A i \in 1 .. Len(q) : Trail(q)[i] = SubSeq(q, 1, i)
  BY TrailType
<1>5. /\ t \in Seq(Seq(Names)) /\ Len(t) = Len(r)
      /\ \A i \in 1 .. Len(r) : t[i] = Trail(q)[i]
  <2>1. \A i \in 1 .. Len(q) - 1 : Trail(q)[i] \in Seq(Names)
    BY <1>1, <1>4
  <2> QED BY <1>1, <1>2, <1>4, <2>1, SubSeqProperties DEF Front
<1> HIDE DEF t
<1>6. \A i \in 1 .. Len(r) : t[i] = SubSeq(r, 1, i)
  <2>1. \A i \in 1 .. Len(r) : i \in 1 .. Len(q)
    BY <1>1, <1>2
  <2> QED BY <1>3, <1>4, <1>5, <2>1
<1>7. /\ Trail(r) \in Seq(Seq(Names)) /\ Len(Trail(r)) = Len(r)
      /\ \A i \in 1 .. Len(r) : Trail(r)[i] = SubSeq(r, 1, i)
  BY <1>2, TrailType
<1>8. t = Trail(r)
  <2>1. \A i \in 1 .. Len(t) : t[i] = Trail(r)[i]
    BY <1>5, <1>6, <1>7
  <2> QED BY <1>5, <1>7, <2>1, SeqEqual
<1> QED BY <1>2, <1>8 DEF r, t

\* Entering a directory that exists extends path and history by it.
LEMMA EnterBrowse ==
    ASSUME BrowseInv, EnterDir(active), PanelsInv'
    PROVE  /\ BrowseInv'
           /\ \E n \in Names : path' = [path EXCEPT ![active] = Append(@, n)]
<1> DEFINE e == list[active][current[active]]
           q == Append(path[active], e.name)
<1>1. /\ active \in Panel /\ path \in [Panel -> Seq(Names)]
      /\ history \in [Panel -> Seq(Seq(Names))] /\ path[active] \in Seq(Names)
  BY DEF BrowseInv, PanelsInv, TypeOK
<1>2. e.name \in Names /\ e.dir /\ e \in ToSet(list[active])
  BY <1>1, Selected DEF BrowseInv, EnterDir, ToSet
<1> HIDE DEF e
<1>3. q \in Seq(Names) /\ q # <<>> /\ Len(q) = Len(path[active]) + 1
  BY <1>1, <1>2, AppendProperties
<1>4. ScanOK(q)
  BY <1>1, <1>2 DEF BrowseInv, ListedExists, ScanOK
<1>5. /\ Scan(active, q, NoName) /\ history' = [history EXCEPT ![active] = Append(@, q)]
      /\ UNCHANGED <<tree, plugged, table>>
  BY <1>4 DEF EnterDir, e
<1>6. path' = [path EXCEPT ![active] = Append(@, e.name)]
  BY <1>1, <1>5 DEF Scan
<1>7. ListedExists'
  BY <1>1, <1>3, <1>5, ScanListed DEF BrowseInv, Path
<1>8. Complete'
  BY <1>5 DEF BrowseInv, Complete
<1>9. HistoryInv'
  <2>1. \A p \in Panel : history[p] = Trail(path[p])
    BY DEF BrowseInv, HistoryInv, Trail
  <2>2. Append(history[active], q) = Trail(q)
    BY <1>1, <1>2, <2>1, TrailAppend
  <2>3. \A p \in Panel : history'[p] = Trail(path'[p])
    BY <1>1, <1>5, <1>6, <2>1, <2>2
  <2> QED BY <2>3 DEF HistoryInv, Trail
<1> QED BY <1>2, <1>6, <1>7, <1>8, <1>9 DEF BrowseInv

\* Leaving it takes both back by one.
LEMMA ExitBrowse ==
    ASSUME BrowseInv, Exit, PanelsInv'
    PROVE  /\ BrowseInv'
           /\ \/ UNCHANGED path
              \/ /\ path[active] # <<>>
                 /\ path' = [path EXCEPT ![active] = SubSeq(@, 1, Len(@) - 1)]
<1> DEFINE q == path[active]  h == history[active]
           r == SubSeq(q, 1, Len(q) - 1)
<1>1. /\ active \in Panel /\ path \in [Panel -> Seq(Names)] /\ q \in Seq(Names)
      /\ history \in [Panel -> Seq(Seq(Names))] /\ h \in Seq(Seq(Names))
  BY DEF BrowseInv, PanelsInv, TypeOK
<1>2. /\ h = Trail(q) /\ Len(h) = Len(q) /\ (h = <<>> <=> q = <<>>)
      /\ \A i \in 1 .. Len(q) : h[i] = SubSeq(q, 1, i)
  <2>1. h = Trail(q)
    BY <1>1 DEF BrowseInv, HistoryInv, Trail
  <2>2. Len(h) = Len(q) /\ \A i \in 1 .. Len(q) : h[i] = SubSeq(q, 1, i)
    BY <1>1, <2>1, TrailType
  <2> QED BY <1>1, <2>1, <2>2
<1>3. UNCHANGED <<tree, plugged, table>>
  BY DEF Exit
<1>4. Complete'
  BY <1>3 DEF BrowseInv, Complete
<1>5. CASE q = <<>>
  <2>1. UNCHANGED <<path, list, current, history>>
    BY <1>1, <1>2, <1>5 DEF Exit
  <2>2. ListedExists' /\ HistoryInv'
    BY <1>3, <2>1, GrowsListed DEF BrowseInv, HistoryInv
  <2> QED BY <1>4, <2>1, <2>2 DEF BrowseInv
<1>6. CASE q # <<>>
  <2>1. r \in Seq(Names) /\ Len(r) = Len(q) - 1 /\ Len(q) \in Nat \ {0}
    BY <1>1, <1>6, TrailFront
  <2>2. Front(h) = Trail(r)
    BY <1>1, <1>2, <1>6, TrailFront
  <2>3. history' = [history EXCEPT ![active] = Front(h)]
    BY <1>2, <1>6 DEF Exit
  <2>4. \E n : Scan(active, r, n)
    <3>1. CASE Len(h) < 2
      <4>1. r = <<>>
        BY <1>2, <2>1, <3>1
      <4> QED BY <1>6, <3>1, <4>1 DEF Exit
    <3>2. CASE ~ (Len(h) < 2)
      <4>1. h[Len(h) - 1] = r
        BY <1>2, <2>1, <3>2
      <4>2. \E n : Scan(active, h[Len(h) - 1], n)
        BY <1>6, <3>2 DEF Exit
      <4> QED BY <4>1, <4>2
    <3> QED BY <3>1, <3>2
  <2>5. path' = [path EXCEPT ![active] = r]
    BY <2>4 DEF Scan
  <2>6. ListedExists'
    BY <1>1, <1>3, <2>1, <2>4, ScanListed DEF BrowseInv, Path
  <2>7. HistoryInv'
    <3> HIDE DEF r
    <3>1. \A p \in Panel : history[p] = Trail(path[p])
      BY DEF BrowseInv, HistoryInv, Trail
    <3>2. \A p \in Panel : history'[p] = Trail(path'[p])
      BY <1>1, <2>2, <2>3, <2>5, <3>1
    <3> QED BY <3>2 DEF HistoryInv, Trail
  <2> QED BY <1>4, <1>6, <2>5, <2>6, <2>7 DEF BrowseInv
<1> QED BY <1>5, <1>6

\* Directories are added, and entries to directories.  A directory that was not listed may
\* be made anew.
Grown ==
    \A q \in DOMAIN tree :
        /\ q \in DOMAIN tree'
        /\ \/ tree[q] \subseteq tree'[q]
           \/ \E r \in DOMAIN tree, n \in Names :
                 r # <<>> /\ q = Append(r, n) /\ \A e \in tree[r] : e.name # n

\* The trees that these commands make are complete.
LEMMA NewDirBrowse ==
    ASSUME BrowseInv, NEW n \in NewNames, NewDir(n), PanelsInv'
    PROVE  BrowseInv' /\ UNCHANGED path /\ Grown
<1> DEFINE q == path[active]
           new == Append(q, n)
           made == [r \in DOMAIN tree \cup {new} |->
                      IF r = q THEN tree[q] \cup {Entry(n, TRUE)}
                      ELSE IF r = new THEN {} ELSE tree[r]]
<1>1. active \in Panel /\ q # <<>>
  BY DEF NewDir, BrowseInv, PanelsInv, TypeOK
<1>2. /\ Reload(active, n) /\ UNCHANGED <<path, history, plugged, table>>
      /\ UNCHANGED tree \/ (q \in DOMAIN tree /\ tree' = made)
  BY DEF NewDir, Exists, Reload
<1>3. Complete' /\ DOMAIN tree \subseteq DOMAIN tree'
  <2>1. CASE UNCHANGED tree
    BY <1>2, <2>1 DEF BrowseInv, Complete
  <2>2. CASE q \in DOMAIN tree /\ tree' = made
    <3>1. DOMAIN tree' = DOMAIN tree \cup {new}
      BY <2>2
    <3>2. tree'[q] = tree[q] \cup {Entry(n, TRUE)}
      BY <2>2
    <3>3. \A r \in DOMAIN tree' : r # q => tree'[r] = {} \/ (r \in DOMAIN tree /\ tree'[r] = tree[r])
      BY <2>2
    <3>4. Append(q, Entry(n, TRUE).name) = new
      BY DEF Entry
    <3> HIDE DEF made, new
    <3>5. \A r \in DOMAIN tree' : \A e \in tree'[r] :
             e.dir => Append(r, e.name) \in DOMAIN tree'
      <4> SUFFICES ASSUME NEW r \in DOMAIN tree', NEW e \in tree'[r], e.dir
                   PROVE  Append(r, e.name) \in DOMAIN tree'
        OBVIOUS
      <4>1. CASE r \in DOMAIN tree /\ e \in tree[r]
        BY <3>1, <4>1 DEF BrowseInv, Complete
      <4>2. CASE r = q /\ e = Entry(n, TRUE)
        BY <3>1, <3>4, <4>2
      <4> QED BY <2>2, <3>2, <3>3, <4>1, <4>2
    <3> QED BY <1>2, <3>1, <3>5 DEF BrowseInv, Complete
  <2> QED BY <1>2, <2>1, <2>2
<1>4. ListedExists'
  BY <1>1, <1>2, <1>3, ReloadListed DEF BrowseInv
<1>5. HistoryInv'
  BY <1>2 DEF BrowseInv, HistoryInv
<1>6. Grown
  <2>1. CASE UNCHANGED tree
    BY <2>1 DEF Grown
  <2>2. CASE ~ UNCHANGED tree
    <3>1. /\ q \in DOMAIN tree /\ tree' = made /\ n \in Names
          /\ n \notin {e.name : e \in tree[q]}
      BY <2>2 DEF NewDir, Exists, Names
    <3>2. \A r \in DOMAIN tree : r \in DOMAIN tree' /\ (r = new \/ tree[r] \subseteq tree'[r])
      BY <3>1
    <3>3. \A e \in tree[q] : e.name # n
      BY <3>1
    <3> QED BY <1>1, <3>1, <3>2, <3>3 DEF Grown
  <2> QED BY <2>1, <2>2
<1> QED BY <1>2, <1>3, <1>4, <1>5, <1>6 DEF BrowseInv

\* The copy of an entry has its name, in the copy of its directory.
LEMMA TargetLast ==
    ASSUME NEW o \in Path, NEW src \in Path, src # <<>>, NEW x \in Path, IsPrefix(src, x)
    PROVE  LET t == o \o SubSeq(x, Len(src), Len(x)) IN Append(Front(t), Last(x)) = t
<1> DEFINE w == SubSeq(x, Len(src), Len(x))  t == o \o w
<1>1. Len(src) \in 1 .. Len(x) /\ Len(x) \in Nat /\ o \in Seq(Names) /\ x \in Seq(Names)
  BY DEF IsPrefix, Path
<1>2. w \in Seq(Names) /\ Len(w) = Len(x) - Len(src) + 1 /\ w[Len(w)] = Last(x)
  <2>1. \A i \in Len(src) .. Len(x) : x[i] \in Names
    BY <1>1
  <2>2. /\ w \in Seq(Names) /\ Len(w) = Len(x) - Len(src) + 1
        /\ \A i \in 1 .. Len(x) - Len(src) + 1 : w[i] = x[Len(src) + i - 1]
    BY <1>1, <2>1, SubSeqProperties
  <2>3. w[Len(x) - Len(src) + 1] = x[Len(x)]
    <3>1. /\ Len(x) - Len(src) + 1 \in 1 .. Len(x) - Len(src) + 1
          /\ Len(src) + (Len(x) - Len(src) + 1) - 1 = Len(x)
      BY <1>1
    <3> HIDE DEF w
    <3> QED BY <2>2, <3>1
  <2> QED BY <2>2, <2>3 DEF Last
<1> HIDE DEF w
<1>3. /\ t \in Seq(Names) /\ Len(t) = Len(o) + Len(w) /\ Len(t) \in Nat \ {0}
      /\ t[Len(t)] = Last(x)
  <2>1. /\ t \in Seq(Names) /\ Len(t) = Len(o) + Len(w) /\ Len(o) \in Nat
        /\ Len(w) \in Nat \ {0}
    <3>1. Len(o) \in Nat
      BY <1>1
    <3>2. Len(w) \in Nat \ {0}
      BY <1>1, <1>2
    <3>3. t \in Seq(Names) /\ Len(t) = Len(o) + Len(w)
      BY <1>1, <1>2, ConcatProperties
    <3> HIDE DEF t
    <3> QED BY <3>1, <3>2, <3>3
  <2>2. t[Len(o) + Len(w)] = w[Len(w)]
    BY <1>1, <1>2, <2>1, ConcatProperties
  <2> QED BY <1>2, <2>1, <2>2
<1> HIDE DEF t
<1>4. Front(t) \in Seq(Names) /\ Append(Front(t), t[Len(t)]) = t
  <2>1. PICK s \in Seq(Names), n \in Names : t = Append(s, n)
    BY <1>3, SequenceEmptyOrAppend
  <2>2. Len(t) = Len(s) + 1 /\ t[Len(t)] = n /\ Len(s) \in Nat
    BY <2>1
  <2>3. Front(t) = s
    <3>1. t = s \o <<n>> /\ <<n>> \in Seq(Names)
      BY <2>1, AppendIsConcat
    <3>2. SubSeq(t, 1, Len(s)) = SubSeq(s, 1, Len(s))
      <4>1. CASE Len(s) = 0
        BY <4>1, SubSeqEmpty
      <4>2. CASE Len(s) # 0
        BY <2>2, <3>1, <4>2, SubSeqOfConcat1
      <4> QED BY <4>1, <4>2
    <3> QED BY <2>2, <3>2, SubSeqFull DEF Front
  <2> QED BY <2>1, <2>2, <2>3
<1> QED BY <1>3, <1>4 DEF t, w

LEMMA CopyBrowse ==
    ASSUME Steady, BrowseInv, CopyEntry(active), \A p \in Panel : path[p] # <<>>, PanelsInv'
    PROVE  BrowseInv' /\ UNCHANGED path /\ Grown
<1> DEFINE o == Other(active)
           src == Append(path[active], list[active][current[active]].name)
           Target(x) == path[o] \o SubSeq(x, Len(src), Len(x))
           From == IF Exists(path[o]) THEN Below(src) ELSE {}
           With(t, K) == [q \in DOMAIN t \cup {Target(x) : x \in K \cap DOMAIN tree} |->
                            (IF q \in DOMAIN t THEN t[q] ELSE {})
                            \cup {Entry(Last(x), IsDir(x)) :
                                      x \in {x \in K : Front(Target(x)) = q}}]
<1>1. active \in Panel /\ o \in Panel /\ PanelsInv
  BY DEF BrowseInv, PanelsInv, TypeOK, Other, Panel
<1>2. src \in Path /\ src # <<>> /\ path[o] \in Path
  <2>1. path \in [Panel -> Seq(Names)]
    BY <1>1 DEF PanelsInv, TypeOK
  <2>2. path[active] \in Seq(Names) /\ list[active][current[active]].name \in Names
    BY <1>1, <2>1, Selected DEF CopyEntry
  <2>3. src \in Seq(Names) /\ src # <<>>
    BY <2>2, AppendProperties
  <2> QED BY <1>1, <2>1, <2>3 DEF Path
<1>3. \A x \in From : x \in Path /\ IsPrefix(src, x)
  BY <1>1, PathsType DEF Below
<1>4. \A x \in From : Append(Front(Target(x)), Last(x)) = Target(x)
  BY <1>2, <1>3, TargetLast
<1>5. PICK K \in SUBSET From : tree' = With(Without({}), K)
  <2>1. \E K \in SUBSET From :
        \E R \in SUBSET ({Target(x) : x \in From \ (K \cup DOMAIN tree)} \cap Paths) :
           (Disturb \/ R = {}) /\ tree' = With(Without(R), K)
    BY Zenon DEF CopyEntry
  <2> HIDE DEF Target, From, With
  <2> QED BY <2>1 DEF Steady
<1>6. Reload(o, NoName) /\ UNCHANGED <<path, history, plugged, table>>
  BY DEF CopyEntry, Reload
<1>7. DOMAIN Without({}) = DOMAIN tree /\ \A q \in DOMAIN tree : Without({})[q] = tree[q]
  BY DEF Without
<1> HIDE DEF src, From, Target
<1>8. DOMAIN tree' = DOMAIN tree \cup {Target(x) : x \in K \cap DOMAIN tree}
  BY <1>5, <1>7
<1>9. \A q \in DOMAIN tree' : \A e \in tree'[q] :
         \/ q \in DOMAIN tree /\ e \in tree[q]
         \/ \E x \in K : Front(Target(x)) = q /\ e = Entry(Last(x), IsDir(x))
  BY <1>5, <1>7
<1>14. Grown
  BY <1>5, <1>7, <1>8 DEF Grown
<1> HIDE DEF With
<1>10. \A q \in DOMAIN tree' : \A e \in tree'[q] :
         e.dir => Append(q, e.name) \in DOMAIN tree'
  <2> SUFFICES ASSUME NEW q \in DOMAIN tree', NEW e \in tree'[q], e.dir
               PROVE  Append(q, e.name) \in DOMAIN tree'
    OBVIOUS
  <2>1. CASE q \in DOMAIN tree /\ e \in tree[q]
    BY <1>8, <2>1 DEF BrowseInv, Complete
  <2>2. CASE \E x \in K : Front(Target(x)) = q /\ e = Entry(Last(x), IsDir(x))
    <3>1. PICK x \in K : Front(Target(x)) = q /\ e = Entry(Last(x), IsDir(x))
      BY <2>2
    <3>2. Append(q, e.name) = Target(x) /\ x \in DOMAIN tree
      BY <1>4, <3>1 DEF Entry, IsDir
    <3> QED BY <1>8, <3>2
  <2> QED BY <1>9, <2>1, <2>2
<1>11. Complete' /\ DOMAIN tree \subseteq DOMAIN tree'
  BY <1>6, <1>8, <1>10 DEF BrowseInv, Complete
<1>12. ListedExists'
  BY <1>1, <1>6, <1>11, ReloadListed DEF BrowseInv
<1>13. HistoryInv'
  BY <1>6 DEF BrowseInv, HistoryInv
<1> QED BY <1>6, <1>11, <1>12, <1>13, <1>14 DEF BrowseInv

\* One step, and what it does to the paths.
LEMMA NextBrowse ==
    ASSUME Steady, BrowseInv, [Next]_vars
    PROVE  /\ BrowseInv'
           /\ \/ UNCHANGED path
              \/ \E p \in Panel, n \in Names : path' = [path EXCEPT ![p] = Append(@, n)]
              \/ \E p \in Panel : /\ path[p] # <<>>
                                  /\ path' = [path EXCEPT ![p] = SubSeq(@, 1, Len(@) - 1)]
<1>1. PanelsInv' /\ active \in Panel
  BY NextPanels DEF BrowseInv, PanelsInv, TypeOK
<1>2. ASSUME UNCHANGED <<plugged, tree, table, path, history, list>>
      PROVE  BrowseInv' /\ UNCHANGED path
  BY <1>1, <1>2, GrowsListed DEF BrowseInv, Complete, HistoryInv
<1>3. CASE UNCHANGED vars
  BY <1>2, <1>3 DEF vars, panelVars
<1>4. ASSUME NEW p, Dereference(p) PROVE BrowseInv' /\ UNCHANGED path
  BY <1>2, <1>4 DEF Dereference, panelVars
<1>5. CASE Enter
  BY <1>1, <1>4, <1>5, EnterBrowse DEF Enter
<1>6. CASE Exit
  BY <1>1, <1>6, ExitBrowse
<1>7. CASE Copy
  BY <1>1, <1>4, <1>7, CopyBrowse DEF Copy
<1>8. ASSUME NEW dn \in BOOLEAN, Scroll(dn) PROVE BrowseInv' /\ UNCHANGED path
  BY <1>2, <1>4, <1>8 DEF Scroll, ScrollTo
<1>9. ASSUME NEW p \in Panel, Activate(p) PROVE BrowseInv' /\ UNCHANGED path
  BY <1>2, <1>9 DEF Activate, panelVars
<1>10. ASSUME NEW n \in NewNames, NewDir(n) PROVE BrowseInv' /\ UNCHANGED path
  BY <1>1, <1>10, NewDirBrowse
<1>11. ~ Delete /\ ~ Probe /\ Renames = {} /\ \A d : ~ Plug(d)
  BY DEF Steady, Delete, Probe, Plug, BrowseInv, Complete
<1> QED BY <1>1, <1>3, <1>5, <1>6, <1>7, <1>8, <1>9, <1>10, <1>11 DEF Next

LEMMA BrowseAlways ==
    ASSUME Steady
    PROVE  Spec => []BrowseInv
<1>1. Init => BrowseInv
  BY InitBrowse
<1>2. BrowseInv /\ [Next]_vars => BrowseInv'
  BY NextBrowse
<1> QED BY <1>1, <1>2, PTL DEF Spec

\* While no device or directory goes away, the history of a panel is the chain of
\* directories that leads to its path, for any disks and any depth.
THEOREM HistoryCorrect ==
    ASSUME Steady
    PROVE  Spec => []HistoryInv
<1>1. BrowseInv => HistoryInv
  BY DEF BrowseInv
<1> QED BY <1>1, BrowseAlways, PTL

\* Then each panel implements the abstract browser: in by one name, out by one.
THEOREM NavigationCorrect ==
    ASSUME Steady
    PROVE  Spec => ImplementsNavigation
<1>1. Init => path["lp"] = <<>> /\ path["rp"] = <<>>
  BY DEF Init, Panel
<1>2. ASSUME BrowseInv, [Next]_vars, NEW p \in Panel
      PROVE  \/ UNCHANGED path[p]
             \/ \E n \in Names : path[p]' = Append(path[p], n)
             \/ path[p] # <<>> /\ path[p]' = SubSeq(path[p], 1, Len(path[p]) - 1)
  <2>1. path \in [Panel -> Seq(Names)]
    BY <1>2 DEF BrowseInv, PanelsInv, TypeOK
  <2> QED BY <1>2, <2>1, NextBrowse
<1>3. BrowseInv /\ [Next]_vars => [Left!Next]_(path["lp"]) /\ [Right!Next]_(path["rp"])
  <2>1. "lp" \in Panel /\ "rp" \in Panel
    BY DEF Panel
  <2> QED BY <1>2, <2>1 DEF Left!Next, Left!In, Left!Out, Right!Next, Right!In, Right!Out
<1> QED BY <1>1, <1>3, BrowseAlways, PTL
        DEF Spec, ImplementsNavigation, Left!Spec, Left!Init, Right!Spec, Right!Init
-----------------------------------------------------------------------------
(* Back to where the panel came from *)

\* Each directory on the way down to q lists the next one.
Reached(q) ==
    /\ q[1] \in Device \cup {Sys}
    /\ \A i \in 1 .. Len(q) - 1 :
          /\ SubSeq(q, 1, i) \in DOMAIN tree
          /\ \E e \in tree[SubSeq(q, 1, i)] : e.name = q[i + 1]

\* The panels are where such ways lead, and show what one more step leads to.
OriginInv ==
    \A p \in Panel :
        /\ path[p] # <<>> => Reached(path[p])
        /\ \A e \in ToSet(list[p]) : Reached(Append(path[p], e.name))

LEMMA AppendFacts ==
    ASSUME NEW q \in Seq(Names), NEW n \in Names
    PROVE  LET r == Append(q, n) IN
           /\ r \in Seq(Names) /\ Len(r) = Len(q) + 1 /\ Len(q) \in Nat /\ r[Len(q) + 1] = n
           /\ \A i \in 1 .. Len(q) : r[i] = q[i] /\ SubSeq(r, 1, i) = SubSeq(q, 1, i)
           /\ SubSeq(r, 1, Len(q)) = q
<1> DEFINE r == Append(q, n)
<1>1. /\ r \in Seq(Names) /\ Len(r) = Len(q) + 1 /\ Len(q) \in Nat /\ r[Len(q) + 1] = n
      /\ \A i \in 1 .. Len(q) : r[i] = q[i]
      /\ r = q \o <<n>> /\ <<n>> \in Seq(Names)
  BY AppendIsConcat, AppendProperties
<1>2. \A i \in 1 .. Len(q) : SubSeq(r, 1, i) = SubSeq(q, 1, i)
  <2> SUFFICES ASSUME NEW i \in 1 .. Len(q) PROVE SubSeq(r, 1, i) = SubSeq(q, 1, i)
    OBVIOUS
  <2>1. 1 \in 1 .. Len(q)
    BY <1>1
  <2> QED BY <1>1, <2>1, SubSeqOfConcat1
<1>3. SubSeq(r, 1, Len(q)) = q
  <2>1. SubSeq(r, 1, Len(q)) = SubSeq(q, 1, Len(q))
    <3>1. CASE Len(q) = 0
      BY <3>1, SubSeqEmpty
    <3>2. CASE Len(q) # 0
      BY <3>2, <1>1, <1>2
    <3> QED BY <3>1, <3>2
  <2> QED BY <2>1, SubSeqFull
<1> QED BY <1>1, <1>2, <1>3

\* One step further down.
LEMMA ReachedAppend ==
    ASSUME NEW q \in Seq(Names), NEW n \in Names
    PROVE  Reached(Append(q, n)) <=>
              IF q = <<>> THEN n \in Device \cup {Sys}
              ELSE Reached(q) /\ q \in DOMAIN tree /\ \E e \in tree[q] : e.name = n
<1> DEFINE r == Append(q, n)
<1>1. /\ r \in Seq(Names) /\ Len(r) = Len(q) + 1 /\ Len(q) \in Nat /\ r[Len(q) + 1] = n
      /\ \A i \in 1 .. Len(q) : r[i] = q[i] /\ SubSeq(r, 1, i) = SubSeq(q, 1, i)
      /\ SubSeq(r, 1, Len(q)) = q
  BY AppendFacts
<1> HIDE DEF r
<1>2. CASE q = <<>>
  <2>1. Len(q) = 0
    BY <1>2
  <2>2. r[1] = n /\ Len(r) - 1 = 0
    BY <1>1, <2>1
  <2> QED BY <1>2, <2>2 DEF Reached, r
<1>3. CASE q # <<>>
  <2>1. Len(q) \in 1 .. Len(q) /\ 1 \in 1 .. Len(q) /\ Len(r) - 1 = Len(q)
    BY <1>1, <1>3
  <2>2. r[1] = q[1]
    BY <1>1, <2>1
  <2>3. \A i \in 1 .. Len(q) : i = Len(q) \/ i \in 1 .. Len(q) - 1
    <3>1. \A k \in Nat : \A i \in 1 .. k : i = k \/ i \in 1 .. k - 1
      OBVIOUS
    <3>2. Len(q) \in Nat
      BY <1>1
    <3> QED BY <3>1, <3>2
  <2>4. \A i \in 1 .. Len(q) - 1 : i \in 1 .. Len(q) /\ i + 1 \in 1 .. Len(q)
    BY <1>1
  <2>5. \A i \in 1 .. Len(q) - 1 : SubSeq(r, 1, i) = SubSeq(q, 1, i) /\ r[i + 1] = q[i + 1]
    BY <1>1, <2>4
  <2>6. Reached(r) <=> /\ q[1] \in Device \cup {Sys}
                       /\ \A i \in 1 .. Len(q) :
                             /\ SubSeq(r, 1, i) \in DOMAIN tree
                             /\ \E e \in tree[SubSeq(r, 1, i)] : e.name = r[i + 1]
    BY <2>1, <2>2 DEF Reached
  <2>7. Reached(q) <=> /\ q[1] \in Device \cup {Sys}
                       /\ \A i \in 1 .. Len(q) - 1 :
                             /\ SubSeq(r, 1, i) \in DOMAIN tree
                             /\ \E e \in tree[SubSeq(r, 1, i)] : e.name = r[i + 1]
    BY <2>5 DEF Reached
  <2>8. Reached(r) <=> Reached(q) /\ q \in DOMAIN tree /\ \E e \in tree[q] : e.name = n
    BY <1>1, <2>1, <2>3, <2>4, <2>6, <2>7
  <2> QED BY <1>3, <2>8 DEF r
<1> QED BY <1>2, <1>3

\* One step back.
LEMMA ReachedFront ==
    ASSUME NEW q \in Seq(Names), q # <<>>, Reached(q)
    PROVE  LET r == SubSeq(q, 1, Len(q) - 1) IN
           r # <<>> => /\ Reached(r) /\ r \in DOMAIN tree
                       /\ \E e \in tree[r] : e.name = Last(q)
<1> DEFINE r == SubSeq(q, 1, Len(q) - 1)
<1>1. PICK s \in Seq(Names), n \in Names : q = Append(s, n)
  BY SequenceEmptyOrAppend
<1>2. /\ Len(q) = Len(s) + 1 /\ Len(s) \in Nat /\ q[Len(s) + 1] = n /\ SubSeq(q, 1, Len(s)) = s
  BY <1>1, AppendFacts
<1>3. r = s
  <2>1. Len(q) - 1 = Len(s)
    BY <1>2
  <2> QED BY <1>2, <2>1
<1>4. Last(q) = n
  BY <1>2 DEF Last
<1>5. s # <<>> => Reached(s) /\ s \in DOMAIN tree /\ \E e \in tree[s] : e.name = n
  BY <1>1, ReachedAppend
<1> QED BY <1>3, <1>4, <1>5

LEMMA ReachedGrown ==
    ASSUME NEW x \in Seq(Names), Reached(x), Grown, TreeType
    PROVE  Reached(x)'
<1> SUFFICES ASSUME NEW i \in 1 .. Len(x) - 1
             PROVE  /\ SubSeq(x, 1, i) \in DOMAIN tree'
                    /\ \E e \in tree'[SubSeq(x, 1, i)] : e.name = x[i + 1]
  BY DEF Reached
<1>1. PICK y : y = SubSeq(x, 1, i)
  OBVIOUS
<1>2. y \in DOMAIN tree /\ (\E e \in tree[y] : e.name = x[i + 1]) /\ y \in DOMAIN tree'
  BY <1>1 DEF Reached, Grown
<1>3. CASE tree[y] \subseteq tree'[y]
  BY <1>1, <1>2, <1>3
<1>4. CASE ~ (tree[y] \subseteq tree'[y])
  <2>1. PICK r \in DOMAIN tree, n \in Names :
            r # <<>> /\ y = Append(r, n) /\ \A e \in tree[r] : e.name # n
    BY <1>2, <1>4 DEF Grown
  <2>2. r \in Seq(Names) /\ Len(r) \in Nat /\ Len(r) # 0
    BY <2>1 DEF TreeType, Path
  <2>3. /\ Len(y) = Len(r) + 1 /\ y[Len(r) + 1] = n /\ SubSeq(y, 1, Len(r)) = r
    BY <2>1, <2>2, AppendFacts
  <2>4. i \in Nat /\ i > 0 /\ i < Len(x) /\ Len(x) \in Nat
    BY DEF Reached
  <2>5. Len(y) = i /\ \A j \in 1 .. i : y[j] = x[j]
    <3>1. i \in 1 .. Len(x) /\ 1 \in 1 .. Len(x) + 1
      BY <2>4
    <3>2. \A j \in 1 .. i : x[j] \in Names
      BY <2>4
    <3>3. Len(y) = (IF 1 <= i THEN i - 1 + 1 ELSE 0)
          /\ \A j \in 1 .. i - 1 + 1 : y[j] = x[1 + j - 1]
      BY <1>1, <2>4, <3>2, SubSeqProperties
    <3> QED BY <2>4, <3>3
  <2>6. Len(r) = i - 1 /\ Len(r) \in 1 .. Len(x) - 1 /\ Len(r) + 1 = i
    BY <2>2, <2>3, <2>4, <2>5
  <2>7. x[i] = n
    BY <2>3, <2>4, <2>5, <2>6
  <2>8. SubSeq(x, 1, Len(r)) = r
    <3>1. SubSeq(y, 1, Len(r)) = SubSeq(x, 1, Len(r))
      <4>1. 1 \in 1 .. Len(x) /\ i \in 1 .. Len(x) /\ 1 \in 1 .. i /\ Len(r) \in 1 .. i
        BY <2>4, <2>6
      <4> QED BY <1>1, <4>1, SubSeqOfSubSeq
    <3> QED BY <2>3, <3>1
  <2>9. \E e \in tree[SubSeq(x, 1, Len(r))] : e.name = x[Len(r) + 1]
    BY <2>6 DEF Reached
  <2> QED BY <2>1, <2>6, <2>7, <2>8, <2>9
<1> QED BY <1>3, <1>4

\* ReachedAppend, of a state and of the next one.
Extends ==
    \A q \in Seq(Names), n \in Names :
        Reached(Append(q, n)) <=>
            IF q = <<>> THEN n \in Device \cup {Sys}
            ELSE Reached(q) /\ q \in DOMAIN tree /\ \E e \in tree[q] : e.name = n

LEMMA ExtendsAlways == Extends /\ Extends'
<1>1. Extends
  BY ReachedAppend DEF Extends
<1> QED BY <1>1, PTL

\* What a panel shows of a directory that was reached can be reached.
LEMMA ScanOrigin ==
    ASSUME PanelsInv, Complete, OriginInv, NEW p \in Panel, NEW q \in Path, NEW n, Scan(p, q, n),
           UNCHANGED tree, q # <<>> => Reached(q)
    PROVE  OriginInv'
<1>1. PICK l \in Listings(Found(q, Device)) :
          path' = [path EXCEPT ![p] = q] /\ list' = [list EXCEPT ![p] = l]
  BY DEF Scan, Complete
<1>2. ToSet(l) = Found(q, Device)
  BY DEF Listings
<1>3. \A x : Reached(x)' <=> Reached(x)
  BY DEF Reached
<1>4. path \in [Panel -> Seq(Names)] /\ list \in [Panel -> Seq(Entries)]
  BY DEF PanelsInv, TypeOK
<1>5. \A r \in Panel : /\ path'[r] = (IF r = p THEN q ELSE path[r])
                       /\ list'[r] = (IF r = p THEN l ELSE list[r])
  BY <1>1, <1>4
<1>6. ASSUME NEW e \in Found(q, Device) PROVE Reached(Append(q, e.name))
  <2>1. e.name \in Names /\ q \in Seq(Names)
    BY FoundType DEF Entries, Path
  <2>2. CASE q = <<>>
    <3>1. e.name \in Device \cup {Sys}
      BY <2>2 DEF Found, Entry
    <3> QED BY <2>1, <2>2, <3>1, ReachedAppend
  <2>3. CASE q # <<>>
    <3>1. q \in DOMAIN tree /\ e \in tree[q] /\ Reached(q)
      BY <2>3 DEF Found, Exists
    <3> QED BY <2>1, <2>3, <3>1, ReachedAppend
  <2> QED BY <2>2, <2>3
<1> SUFFICES ASSUME NEW r \in Panel
             PROVE  /\ path'[r] # <<>> => Reached(path'[r])
                    /\ \A e \in ToSet(list'[r]) : Reached(Append(path'[r], e.name))
  BY <1>3 DEF OriginInv
<1>7. CASE r = p
  BY <1>2, <1>5, <1>6, <1>7
<1>8. CASE r # p
  BY <1>5, <1>8 DEF OriginInv
<1> QED BY <1>7, <1>8

LEMMA ReloadOrigin ==
    ASSUME PanelsInv, PanelsInv', OriginInv, NEW p \in Panel, NEW n, Reload(p, n), path[p] # <<>>,
           Grown
    PROVE  OriginInv'
<1>1. PICK l \in Listings(IF Exists(path[p]) THEN tree'[path[p]] ELSE {}) :
          list' = [list EXCEPT ![p] = l]
  BY DEF Reload
<1>2. ToSet(l) = IF Exists(path[p]) THEN tree'[path[p]] ELSE {}
  BY DEF Listings
<1>3. path \in [Panel -> Seq(Names)] /\ list \in [Panel -> Seq(Entries)] /\ UNCHANGED path
  BY DEF PanelsInv, TypeOK, Reload
<1>4. \A r \in Panel : list'[r] = IF r = p THEN l ELSE list[r]
  BY <1>1, <1>3
<1>5. ASSUME NEW r \in Panel
      PROVE  path[r] \in Seq(Names) /\ \A e \in ToSet(list[r]) : e.name \in Names
  <2>1. path[r] \in Seq(Names) /\ list[r] \in Seq(Entries)
    BY <1>3
  <2>2. \A i \in DOMAIN list[r] : list[r][i] \in Entries
    BY <2>1
  <2> QED BY <2>1, <2>2 DEF Entries, ToSet
<1>6. \A x \in Seq(Names) : Reached(x) => Reached(x)'
  BY ReachedGrown DEF PanelsInv
<1>7. ASSUME NEW r \in Panel, path[r] # <<>> PROVE Reached(path[r])'
  <2>1. PICK q \in Seq(Names) : q = path[r] /\ path'[r] = q
    BY <1>3, <1>5
  <2>2. Reached(q)'
    BY <1>6, <1>7, <2>1 DEF OriginInv
  <2> QED BY <2>1, <2>2
<1>8. ASSUME NEW r \in Panel, NEW e \in ToSet(list[r]) PROVE Reached(Append(path[r], e.name))'
  <2>1. PICK q \in Seq(Names) : q = path[r] /\ path'[r] = q
    BY <1>3, <1>5
  <2>2. Append(q, e.name) \in Seq(Names) /\ Reached(Append(q, e.name))
    BY <1>5, <1>8, <2>1, AppendFacts DEF OriginInv
  <2>3. Reached(Append(q, e.name))'
    BY <1>6, <2>2
  <2> QED BY <2>1, <2>3
<1>9. ASSUME NEW e \in ToSet(l) PROVE Reached(Append(path[p], e.name))'
  <2>1. Exists(path[p]) /\ e \in tree'[path[p]]
    BY <1>2, <1>9
  <2>2. path[p] \in DOMAIN tree'
    BY <2>1 DEF Exists, Grown
  <2>3. e.name \in Names
    BY <2>1, <2>2 DEF PanelsInv, TreeType, Entries
  <2>4. PICK q \in Seq(Names) : q = path[p] /\ path'[p] = q
    BY <1>3, <1>5
  <2>5. Reached(q)'
    BY <1>7, <2>4
  <2>6. Reached(Append(q, e.name))'
    BY <2>1, <2>2, <2>3, <2>4, <2>5, ExtendsAlways DEF Extends
  <2> QED BY <2>4, <2>6
<1> QED BY <1>3, <1>4, <1>7, <1>8, <1>9 DEF OriginInv

LEMMA InitOrigin == Init => OriginInv
<1> SUFFICES ASSUME Init, NEW p \in Panel PROVE
          path[p] = <<>> /\ \A e \in ToSet(list[p]) : Reached(Append(<<>>, e.name))
  BY DEF OriginInv
<1>1. path[p] = <<>> /\ plugged \subseteq Device
  BY DEF Init
<1>2. PICK l \in Listings({Entry(d, TRUE) : d \in plugged \cup {Sys}}) : list = [r \in Panel |-> l]
  BY DEF Init
<1>3. \A e \in ToSet(list[p]) : e.name \in Device \cup {Sys}
  BY <1>1, <1>2 DEF Listings, Entry
<1>4. <<>> \in Seq(Names) /\ Device \cup {Sys} \subseteq Names
  BY DEF Names
<1> QED BY <1>1, <1>3, <1>4, ReachedAppend

LEMMA EnterOrigin ==
    ASSUME BrowseInv, OriginInv, EnterDir(active)
    PROVE  OriginInv' /\ Len(path'[active]) = Len(path[active]) + 1
<1> DEFINE e == list[active][current[active]]
           q == Append(path[active], e.name)
<1>1. /\ active \in Panel /\ path \in [Panel -> Seq(Names)] /\ path[active] \in Seq(Names)
      /\ PanelsInv /\ Complete
  BY DEF BrowseInv, PanelsInv, TypeOK
<1>2. e.name \in Names /\ e \in ToSet(list[active])
  BY <1>1, Selected DEF EnterDir, ToSet
<1>3. Scan(active, q, NoName) /\ UNCHANGED tree
  BY DEF EnterDir
<1>4. Reached(q)
  BY <1>1, <1>2 DEF OriginInv
<1> HIDE DEF e
<1>5. q \in Path /\ Len(q) = Len(path[active]) + 1
  BY <1>1, <1>2, AppendFacts DEF Path
<1>6. path'[active] = q
  BY <1>1, <1>3 DEF Scan
<1> HIDE DEF q
<1>7. OriginInv'
  BY <1>1, <1>3, <1>4, <1>5, ScanOrigin
<1> QED BY <1>5, <1>6, <1>7

\* A name that is listed is found.
LEMMA Located ==
    ASSUME NEW S \in SUBSET Entries, NEW l \in Listings(S), NEW e \in S
    PROVE  l[Locate(l, e.name)].name = e.name
<1> DEFINE n == e.name
           at == {i \in DOMAIN l : l[i].name = n}
<1>1. l \in Seq(Entries)
  BY ListingPlace
<1>2. at \in SUBSET Nat
  BY <1>1
<1>3. at # {}
  BY DEF Listings, ToSet
<1>4. \E i \in at : \A j \in at : i <= j
  BY <1>2, <1>3, Least
<1>5. Locate(l, n) = CHOOSE i \in at : \A j \in at : i <= j
  BY <1>3 DEF Locate
<1> HIDE DEF at
<1>6. Locate(l, n) \in at
  BY <1>4, <1>5
<1> QED BY <1>6 DEF at

\* What ReturnsToOrigin says of a step.
Returned ==
    Len(path'[active]) < Len(path[active]) /\ path'[active] # <<>>
        => /\ path'[active] = Front(path[active])
           /\ list'[active][current'[active]].name = Last(path[active])

LEMMA ExitOrigin ==
    ASSUME BrowseInv, OriginInv, Exit
    PROVE  OriginInv' /\ Returned
<1> DEFINE q == path[active]  h == history[active]
           r == SubSeq(q, 1, Len(q) - 1)
<1>1. /\ active \in Panel /\ path \in [Panel -> Seq(Names)] /\ q \in Seq(Names)
      /\ list \in [Panel -> Seq(Entries)] /\ current \in [Panel -> Nat]
      /\ history \in [Panel -> Seq(Seq(Names))] /\ h \in Seq(Seq(Names))
      /\ PanelsInv /\ Complete /\ UNCHANGED tree
  BY DEF BrowseInv, PanelsInv, TypeOK, Exit
<1>2. Len(h) = Len(q) /\ \A i \in 1 .. Len(q) : h[i] = SubSeq(q, 1, i)
  <2>1. h = Trail(q)
    BY <1>1 DEF BrowseInv, HistoryInv, Trail
  <2> QED BY <1>1, <2>1, TrailType
<1>3. CASE q = <<>>
  <2>1. UNCHANGED <<path, list>>
    BY <1>3 DEF Exit
  <2>2. OriginInv'
    BY <1>1, <2>1 DEF OriginInv, Reached
  <2>3. Len(path'[active]) = Len(path[active]) /\ Len(path[active]) \in Nat
    BY <1>1, <2>1
  <2> QED BY <2>2, <2>3 DEF Returned
<1>4. CASE q # <<>> /\ Len(h) < 2
  <2>1. Scan(active, <<>>, NoName)
    BY <1>4 DEF Exit
  <2>2. path'[active] = <<>>
    BY <1>1, <2>1 DEF Scan
  <2>3. <<>> \in Path
    BY DEF Path
  <2>4. OriginInv'
    BY <1>1, <2>1, <2>3, ScanOrigin
  <2> QED BY <2>2, <2>4 DEF Returned
<1>5. CASE q # <<>> /\ ~ (Len(h) < 2)
  <2>1. Len(q) \in Nat /\ Len(q) >= 2 /\ Len(q) \in 1 .. Len(q) /\ Len(q) - 1 \in 1 .. Len(q)
    BY <1>1, <1>2, <1>5
  <2>2. h[Len(h) - 1] = r /\ Last(h) = q
    <3>1. Last(h) = SubSeq(q, 1, Len(q))
      BY <1>2, <2>1 DEF Last
    <3>2. SubSeq(q, 1, Len(q)) = q
      BY <1>1, SubSeqFull
    <3> QED BY <1>2, <2>1, <3>1, <3>2
  <2>3. Scan(active, r, Last(q))
    <3>1. Scan(active, h[Len(h) - 1], IF Len(Last(h)) = 1 THEN NoName ELSE Last(Last(h)))
      BY <1>5 DEF Exit
    <3>2. PICK b, n : b = h[Len(h) - 1] /\ n = (IF Len(Last(h)) = 1 THEN NoName ELSE Last(Last(h)))
      OBVIOUS
    <3>3. Scan(active, b, n)
      BY <3>1, <3>2
    <3>4. b = r /\ n = Last(q)
      <4>1. \A k \in Nat : k >= 2 => k # 1
        OBVIOUS
      <4>2. Len(q) # 1
        BY ONLY <2>1, <4>1
      <4> HIDE DEF r, q, h
      <4>3. Last(h) = q /\ b = r
        BY <2>2, <3>2
      <4>4. n = IF Len(q) = 1 THEN NoName ELSE Last(q)
        BY ONLY <3>2, <4>3
      <4> QED BY ONLY <4>2, <4>3, <4>4
    <3> HIDE DEF r, q
    <3> QED BY <3>3, <3>4
  <2>4. r \in Seq(Names) /\ Len(r) = Len(q) - 1 /\ r # <<>> /\ r \in Path
    <3>1. r \in Seq(Names) /\ Len(r) = Len(q) - 1
      BY <1>1, <1>5, TrailFront
    <3> HIDE DEF r
    <3> QED BY <2>1, <3>1 DEF Path
  <2>5. Reached(r) /\ r \in DOMAIN tree /\ \E e \in tree[r] : e.name = Last(q)
    <3>1. Reached(q)
      BY <1>1, <1>5 DEF OriginInv
    <3> QED BY <1>1, <1>5, <2>4, <3>1, ReachedFront
  <2>6. path'[active] = r /\ r = Front(q)
    BY <1>1, <2>3 DEF Scan, Front
  <2> HIDE DEF r
  <2>7. OriginInv'
    BY <1>1, <2>3, <2>4, <2>5, ScanOrigin
  <2>8. Found(r, table) = tree[r] /\ tree[r] \in SUBSET Entries
    BY <1>1, <2>4, <2>5 DEF Found, Exists, Reached, Complete, PanelsInv, TreeType
  <2>9. PICK l \in Listings(tree[r]) :
            list' = [list EXCEPT ![active] = l] /\ current' = [current EXCEPT ![active] = Locate(l, Last(q))]
    BY <2>3, <2>8 DEF Scan
  <2>10. l[Locate(l, Last(q))].name = Last(q)
    BY <2>5, <2>8, Located
  <2>11. list'[active] = l /\ current'[active] = Locate(l, Last(q))
    BY <1>1, <2>9
  <2> QED BY <2>6, <2>7, <2>10, <2>11 DEF Returned
<1> QED BY <1>3, <1>4, <1>5

LEMMA NextOrigin ==
    ASSUME Steady, BrowseInv, OriginInv, [Next]_vars
    PROVE  OriginInv' /\ Returned
<1>1. PanelsInv' /\ active \in Panel /\ path \in [Panel -> Seq(Names)] /\ PanelsInv
  BY NextPanels DEF BrowseInv, PanelsInv, TypeOK
<1>2. ASSUME UNCHANGED path PROVE Returned
  <2>1. Len(path[active]) \in Nat
    BY <1>1
  <2> QED BY <1>2, <2>1 DEF Returned
<1>3. ASSUME UNCHANGED <<tree, path, list>> PROVE OriginInv'
  BY <1>3 DEF OriginInv, Reached
<1>4. CASE UNCHANGED vars
  BY <1>2, <1>3, <1>4 DEF vars, panelVars
<1>5. ASSUME NEW p, Dereference(p) PROVE OriginInv' /\ Returned
  BY <1>2, <1>3, <1>5 DEF Dereference, panelVars
<1>6. CASE EnterDir(active)
  <2>1. OriginInv' /\ Len(path'[active]) = Len(path[active]) + 1
    BY <1>6, EnterOrigin
  <2>2. Len(path[active]) \in Nat
    BY <1>1
  <2> QED BY <2>1, <2>2 DEF Returned
<1>7. CASE Exit
  BY <1>7, ExitOrigin
<1>8. CASE CopyEntry(active) /\ \A p \in Panel : path[p] # <<>>
  <2>1. Grown /\ UNCHANGED path
    BY <1>1, <1>8, CopyBrowse
  <2>2. Other(active) \in Panel
    BY <1>1 DEF Other, Panel
  <2>3. Reload(Other(active), NoName)
    BY <1>8 DEF CopyEntry
  <2> QED BY <1>1, <1>2, <1>8, <2>1, <2>2, <2>3, ReloadOrigin
<1>9. ASSUME NEW dn \in BOOLEAN, Scroll(dn) PROVE OriginInv' /\ Returned
  BY <1>2, <1>3, <1>5, <1>9 DEF Scroll, ScrollTo
<1>10. ASSUME NEW p \in Panel, Activate(p) PROVE OriginInv' /\ Returned
  BY <1>2, <1>3, <1>10 DEF Activate, panelVars
<1>11. ASSUME NEW n \in NewNames, NewDir(n) PROVE OriginInv' /\ Returned
  <2>1. Grown /\ UNCHANGED path
    BY <1>1, <1>11, NewDirBrowse
  <2>2. Reload(active, n) /\ path[active] # <<>>
    BY <1>11 DEF NewDir
  <2> QED BY <1>1, <1>2, <2>1, <2>2, ReloadOrigin
<1>12. ~ Delete /\ ~ Probe /\ Renames = {} /\ \A d : ~ Plug(d)
  BY DEF Steady, Delete, Probe, Plug, BrowseInv, Complete
<1> QED BY <1>4, <1>5, <1>6, <1>7, <1>8, <1>9, <1>10, <1>11, <1>12 DEF Next, Enter, Copy

\* Leaving a directory selects it in the list of its parent, so that entering again goes
\* back there (fm_panel_exit), for any tree and however deep.
THEOREM OriginCorrect ==
    ASSUME Steady
    PROVE  Spec => ReturnsToOrigin
<1>1. BrowseInv /\ OriginInv /\ [Next]_vars => OriginInv'
  BY NextOrigin
<1>2. BrowseInv /\ OriginInv /\ [Next]_vars => [Returned]_vars
  BY NextOrigin
<1>3. Spec => []OriginInv
  BY <1>1, InitOrigin, BrowseAlways, PTL DEF Spec
<1>4. Spec => [][Returned]_vars
  BY <1>2, <1>3, BrowseAlways, PTL DEF Spec
<1> QED BY <1>4 DEF ReturnsToOrigin, Returned

-----------------------------------------------------------------------------
(* What a command changes is shown *)

LEMMA PrefixPlaces ==
    ASSUME NEW q \in Path, NEW r \in Path
    PROVE  IsPrefix(q, r) <=> Len(q) <= Len(r) /\ \A i \in 1 .. Len(q) : q[i] = r[i]
<1>1. q \in Seq(Names) /\ r \in Seq(Names) /\ Len(q) \in Nat /\ Len(r) \in Nat
  BY DEF Path
<1>2. SubSeq(q, 1, Len(q)) = q
  BY <1>1, SubSeqFull
<1>3. CASE Len(q) = 0
  BY <1>1, <1>3, SubSeqEmpty DEF IsPrefix
<1>4. CASE ~ Len(q) <= Len(r)
  BY <1>4 DEF IsPrefix
<1>5. CASE Len(q) # 0 /\ Len(q) <= Len(r)
  <2> DEFINE w == SubSeq(r, 1, Len(q))
  <2>1. \A i \in 1 .. Len(q) : r[i] \in Names
    BY <1>1, <1>5
  <2>2. /\ w \in Seq(Names) /\ Len(w) = Len(q)
        /\ \A i \in 1 .. Len(q) : w[i] = r[i]
    <3>1. /\ w \in Seq(Names) /\ Len(w) = IF 1 <= Len(q) THEN Len(q) - 1 + 1 ELSE 0
          /\ \A i \in 1 .. Len(q) - 1 + 1 : w[i] = r[1 + i - 1]
      BY <1>1, <2>1, SubSeqProperties
    <3>2. \A i \in 1 .. Len(q) : i \in 1 .. Len(q) - 1 + 1 /\ 1 + i - 1 = i
      BY <1>1
    <3>3. Len(w) = Len(q)
      BY <1>1, <1>5, <3>1
    <3> HIDE DEF w
    <3> QED BY <3>1, <3>2, <3>3
  <2> HIDE DEF w
  <2>3. q = w <=> \A i \in 1 .. Len(q) : q[i] = w[i]
    BY <1>1, <2>2, SeqEqual
  <2> QED BY <1>2, <1>5, <2>2, <2>3 DEF IsPrefix, w
<1> QED BY <1>3, <1>4, <1>5

LEMMA PrefixTrans ==
    ASSUME NEW q \in Path, NEW r \in Path, NEW s \in Path, IsPrefix(q, r), IsPrefix(r, s)
    PROVE  IsPrefix(q, s)
<1>1. Len(q) \in Nat /\ Len(r) \in Nat /\ Len(s) \in Nat
  BY DEF Path
<1>2. Len(q) <= Len(r) /\ \A i \in 1 .. Len(q) : q[i] = r[i]
  BY PrefixPlaces
<1>3. Len(r) <= Len(s) /\ \A i \in 1 .. Len(r) : r[i] = s[i]
  BY PrefixPlaces
<1>4. Len(q) <= Len(s) /\ \A i \in 1 .. Len(q) : q[i] = s[i]
  BY <1>1, <1>2, <1>3
<1> QED BY <1>4, PrefixPlaces

LEMMA PrefixAppend ==
    ASSUME NEW q \in Path, NEW n \in Names
    PROVE  /\ IsPrefix(q, q) /\ Append(q, n) \in Path /\ IsPrefix(q, Append(q, n))
           /\ ~ IsPrefix(Append(q, n), q)
<1>1. q \in Seq(Names)
  BY DEF Path
<1>2. PICK x : x = Append(q, n)
  OBVIOUS
<1>3. x \in Path /\ Len(x) = Len(q) + 1 /\ Len(q) \in Nat /\ \A i \in 1 .. Len(q) : x[i] = q[i]
  BY <1>1, <1>2, AppendFacts DEF Path
<1>4. IsPrefix(q, q)
  BY <1>3, PrefixPlaces
<1>5. IsPrefix(q, x)
  <2>1. Len(q) <= Len(x) /\ \A i \in 1 .. Len(q) : q[i] = x[i]
    BY <1>3
  <2> QED BY <1>3, <2>1, PrefixPlaces
<1>6. ~ IsPrefix(x, q)
  <2>1. ~ Len(x) <= Len(q)
    BY <1>3
  <2> QED BY <1>3, <2>1, PrefixPlaces
<1> QED BY <1>2, <1>3, <1>4, <1>5, <1>6

LEMMA PrefixConcat ==
    ASSUME NEW q \in Path, NEW w \in Path
    PROVE  q \o w \in Path /\ IsPrefix(q, q \o w)
<1>1. q \in Seq(Names) /\ w \in Seq(Names) /\ Len(q) \in Nat /\ Len(w) \in Nat
  BY DEF Path
<1>2. q \o w \in Seq(Names) /\ Len(q \o w) = Len(q) + Len(w)
      /\ \A i \in 1 .. Len(q) : (q \o w)[i] = q[i]
  BY <1>1, ConcatProperties
<1>3. q \o w \in Path /\ Len(q) <= Len(q \o w)
  <2>1. \A j, k \in Nat : j <= j + k
    OBVIOUS
  <2> QED BY <1>1, <1>2, <2>1 DEF Path
<1> QED BY <1>2, <1>3, PrefixPlaces

\* A path strictly below another is in a directory below it.
LEMMA PrefixParent ==
    ASSUME NEW q \in Path, NEW r \in Path, NEW n \in Names,
           IsPrefix(q, Append(r, n)), q # Append(r, n)
    PROVE  IsPrefix(q, r)
<1> DEFINE x == Append(r, n)
<1>1. /\ x \in Path /\ Len(x) = Len(r) + 1 /\ Len(r) \in Nat /\ Len(q) \in Nat
      /\ \A i \in 1 .. Len(r) : x[i] = r[i]
      /\ x \in Seq(Names) /\ q \in Seq(Names)
  BY AppendFacts DEF Path
<1> HIDE DEF x
<1>2. Len(q) <= Len(x) /\ \A i \in 1 .. Len(q) : q[i] = x[i]
  BY <1>1, PrefixPlaces DEF x
<1>3. Len(q) # Len(x)
  BY <1>1, <1>2, SeqEqual DEF x
<1>4. Len(q) <= Len(r) /\ \A i \in 1 .. Len(q) : q[i] = r[i]
  BY <1>1, <1>2, <1>3
<1> QED BY <1>4, PrefixPlaces

\* The disks are a function, so that a command that fails leaves them as they were.
Solid == tree = [q \in DOMAIN tree |-> tree[q]]

\* What ResultShown says of the panel that is reloaded.
Shows(p) ==
    /\ path'[p] \in DOMAIN tree' /\ ToSet(list'[p]) = tree'[path'[p]]
    /\ \A q \in DOMAIN tree \cup DOMAIN tree' :
          \/ IsPrefix(path[p], q)
          \/ q \in DOMAIN tree \cap DOMAIN tree' /\ tree[q] = tree'[q]

LEMMA ReloadReads ==
    ASSUME PanelsInv, NEW p \in Panel, NEW n, Reload(p, n), Exists(path[p]), path[p] \in DOMAIN tree'
    PROVE  path'[p] \in DOMAIN tree' /\ ToSet(list'[p]) = tree'[path'[p]]
<1>1. list \in [Panel -> Seq(Entries)] /\ path' = path
  BY DEF PanelsInv, TypeOK, Reload
<1>2. PICK l \in Listings(tree'[path[p]]) : list' = [list EXCEPT ![p] = l]
  BY DEF Reload
<1>3. ToSet(l) = tree'[path[p]]
  BY DEF Listings
<1> QED BY <1>1, <1>2, <1>3

LEMMA NewDirShows ==
    ASSUME PanelsInv, Solid, NEW n \in NewNames, NewDir(n)
    PROVE  Solid' /\ (tree' # tree => Shows(active))
<1> DEFINE q == path[active]
           new == Append(q, n)
           made == [r \in DOMAIN tree \cup {new} |->
                      IF r = q THEN tree[q] \cup {Entry(n, TRUE)}
                      ELSE IF r = new THEN {} ELSE tree[r]]
<1>1. active \in Panel /\ q \in Path /\ n \in Names
  BY DEF PanelsInv, TypeOK, Path, Names
<1>2. /\ Reload(active, n)
      /\ UNCHANGED tree \/ (Exists(q) /\ tree' = made)
  BY DEF NewDir
<1>3. CASE UNCHANGED tree
  BY <1>3 DEF Solid
<1>4. CASE Exists(q) /\ tree' = made
  <2>1. /\ DOMAIN tree' = DOMAIN tree \cup {new}
        /\ \A r \in DOMAIN tree : r # q /\ r # new => tree'[r] = tree[r]
    BY <1>4
  <2>2. Solid'
    <3> HIDE DEF q, new
    <3> QED BY <1>4 DEF Solid
  <2>3. IsPrefix(q, q) /\ IsPrefix(q, new)
    BY <1>1, PrefixAppend
  <2>4. q \in DOMAIN tree'
    BY <1>4, <2>1 DEF Exists
  <2>5. path'[active] \in DOMAIN tree' /\ ToSet(list'[active]) = tree'[path'[active]]
    BY <1>1, <1>2, <1>4, <2>4, ReloadReads
  <2> HIDE DEF made, new
  <2>6. \A r \in DOMAIN tree \cup DOMAIN tree' :
           \/ IsPrefix(q, r)
           \/ r \in DOMAIN tree \cap DOMAIN tree' /\ tree[r] = tree'[r]
    BY <2>1, <2>3
  <2> QED BY <2>2, <2>5, <2>6 DEF Shows
<1> QED BY <1>2, <1>3, <1>4

\* Deleting nothing changes nothing.
LEMMA WithoutNone ==
    ASSUME Solid, NEW K
    PROVE  K = {} => Without(K) = tree
<1> SUFFICES Without({}) = tree
  OBVIOUS
<1>1. \A q \in DOMAIN tree : {e \in tree[q] : Append(q, e.name) \notin {}} = tree[q]
  OBVIOUS
<1>2. Without({}) = [q \in DOMAIN tree |-> tree[q]]
  BY <1>1 DEF Without
<1> QED BY <1>2 DEF Solid

\* What is removed below a directory changes nothing outside of it.
LEMMA WithoutOutside ==
    ASSUME PanelsInv, NEW q \in Path, NEW K, \A x \in K : x \in Path /\ IsPrefix(q, x) /\ x # q
    PROVE  /\ q \notin K
           /\ \A r \in DOMAIN tree :
                 IsPrefix(q, r) \/ (r \in DOMAIN Without(K) /\ tree[r] = Without(K)[r])
<1>1. q \notin K
  OBVIOUS
<1>2. ASSUME NEW r \in DOMAIN tree, ~ IsPrefix(q, r)
      PROVE  r \in DOMAIN Without(K) /\ tree[r] = Without(K)[r]
  <2>1. r \in Path /\ tree[r] \subseteq Entries
    BY DEF PanelsInv, TreeType
  <2>2. ASSUME NEW e \in tree[r] PROVE Append(r, e.name) \notin K
    <3>1. e.name \in Names
      BY <2>1 DEF Entries
    <3> QED BY <1>2, <2>1, <3>1, PrefixParent
  <2>3. r \notin K
    BY <1>2
  <2> QED BY <2>2, <2>3 DEF Without
<1> QED BY <1>1, <1>2

LEMMA DeleteShows ==
    ASSUME PanelsInv, Solid, DeleteEntry(active)
    PROVE  Solid' /\ (tree' # tree => Shows(active))
<1> DEFINE q == path[active]
           n == list[active][current[active]].name
           x == Append(q, n)
<1>1. active \in Panel /\ q \in Path /\ n \in Names
  BY Selected DEF PanelsInv, TypeOK, Path, DeleteEntry
<1>2. x \in Path /\ Len(x) = Len(q) + 1 /\ Len(q) \in Nat /\ IsPrefix(q, x) /\ Front(x) = q
  <2>1. x \in Path /\ Len(x) = Len(q) + 1 /\ Len(q) \in Nat /\ SubSeq(x, 1, Len(q)) = q
    BY <1>1, AppendFacts DEF Path
  <2>2. IsPrefix(q, x)
    BY <1>1, PrefixAppend
  <2>3. Len(x) - 1 = Len(q)
    BY <2>1
  <2> QED BY <2>1, <2>2, <2>3 DEF Front
<1> HIDE DEF x, n
<1>3. PICK K \in SUBSET Below(x) : tree' = Without(K)
  BY DEF DeleteEntry, x, n
<1>4. ASSUME NEW y \in K PROVE y \in Path /\ IsPrefix(q, y) /\ y # q
  <2>1. y \in Paths /\ IsPrefix(x, y)
    BY <1>3 DEF Below
  <2>2. y \in Path
    BY <2>1, PathsType
  <2>3. IsPrefix(q, y)
    BY <1>1, <1>2, <2>1, <2>2, PrefixTrans
  <2>4. Len(x) <= Len(y)
    BY <2>1 DEF IsPrefix
  <2> QED BY <1>2, <2>2, <2>3, <2>4
<1>5. Solid'
  BY <1>3 DEF Without, Solid
<1>6. ASSUME tree' # tree PROVE Shows(active)
  <2>1. K # {}
    BY <1>3, <1>6, WithoutNone
  <2>2. Exists(q)
    BY <1>2, <1>3, <2>1 DEF Below
  <2>3. /\ q \notin K
        /\ \A r \in DOMAIN tree : IsPrefix(q, r) \/ (r \in DOMAIN tree' /\ tree[r] = tree'[r])
    BY <1>1, <1>3, <1>4, WithoutOutside
  <2>4. DOMAIN tree' = DOMAIN tree \ K
    BY <1>3, WithoutType
  <2>5. q \in DOMAIN tree'
    BY <2>2, <2>3, <2>4 DEF Exists
  <2>6. Reload(active, NoName)
    BY DEF DeleteEntry
  <2>7. path'[active] \in DOMAIN tree' /\ ToSet(list'[active]) = tree'[path'[active]]
    BY <1>1, <2>2, <2>5, <2>6, ReloadReads
  <2> QED BY <2>3, <2>4, <2>7 DEF Shows
<1> QED BY <1>5, <1>6

LEMMA FrontPath ==
    ASSUME NEW t \in Path
    PROVE  Front(t) \in Path
<1>1. t \in Seq(Names) /\ Len(t) \in Nat
  BY DEF Path
<1>2. CASE t = <<>>
  <2>1. Len(t) - 1 \in Int /\ Len(t) - 1 < 1
    BY <1>2
  <2> QED BY <2>1, SubSeqEmpty DEF Front, Path
<1>3. CASE t # <<>>
  BY <1>1, <1>3, TrailFront DEF Front, Path
<1> QED BY <1>2, <1>3

\* The copy of an entry is below the directory it goes to, as is the directory it is in.
LEMMA TargetBelow ==
    ASSUME NEW o \in Path, NEW src \in Path, src # <<>>, NEW x \in Path, IsPrefix(src, x),
           Last(x) \in Names, NEW t, t = o \o SubSeq(x, Len(src), Len(x))
    PROVE  t \in Path /\ t # o /\ IsPrefix(o, t) /\ IsPrefix(o, Front(t))
<1>1. t \in Path /\ t # o
  BY TargetType
<1>2. Append(Front(t), Last(x)) = t
  BY TargetLast
<1>3. IsPrefix(o, t)
  <2> DEFINE w == SubSeq(x, Len(src), Len(x))
  <2>1. Len(src) \in 1 .. Len(x) /\ Len(x) \in Nat /\ x \in Seq(Names)
    BY DEF IsPrefix, Path
  <2>2. \A i \in Len(src) .. Len(x) : x[i] \in Names
    BY <2>1
  <2>3. w \in Path
    BY <2>1, <2>2, SubSeqProperties DEF Path
  <2> QED BY <2>3, PrefixConcat
<1>4. Front(t) \in Path
  BY <1>1, FrontPath
<1>5. IsPrefix(o, Front(t))
  <2>1. PICK r, n : r = Front(t) /\ n = Last(x)
    OBVIOUS
  <2>2. IsPrefix(o, Append(r, n)) /\ o # Append(r, n)
    BY <1>1, <1>2, <1>3, <2>1
  <2> QED BY <1>4, <2>1, <2>2, PrefixParent
<1> QED BY <1>1, <1>3, <1>5

LEMMA CopyShows ==
    ASSUME PanelsInv, Solid, CopyEntry(active)
    PROVE  Solid' /\ (tree' # tree => Shows(Other(active)))
<1> DEFINE o == Other(active)
           src == Append(path[active], list[active][current[active]].name)
           Target(x) == path[o] \o SubSeq(x, Len(src), Len(x))
           From == IF Exists(path[o]) THEN Below(src) ELSE {}
           With(t, K) == [q \in DOMAIN t \cup {Target(x) : x \in K \cap DOMAIN tree} |->
                            (IF q \in DOMAIN t THEN t[q] ELSE {})
                            \cup {Entry(Last(x), IsDir(x)) :
                                      x \in {x \in K : Front(Target(x)) = q}}]
<1>1. active \in Panel /\ o \in Panel
  BY DEF PanelsInv, TypeOK, Other, Panel
<1>2. src \in Path /\ src # <<>> /\ path[o] \in Path
  <2>1. path \in [Panel -> Seq(Names)]
    BY DEF PanelsInv, TypeOK
  <2>2. path[active] \in Seq(Names) /\ list[active][current[active]].name \in Names
    BY <1>1, <2>1, Selected DEF CopyEntry
  <2>3. src \in Seq(Names) /\ Len(src) = Len(path[active]) + 1
    BY <2>2
  <2>4. src # <<>>
    BY <2>2, <2>3
  <2> QED BY <1>1, <2>1, <2>3, <2>4 DEF Path
<1>3. \A x \in From : x \in Path /\ Last(x) \in Names /\ IsPrefix(src, x)
  BY PathsType DEF Below
<1>4. ASSUME NEW x \in From
      PROVE  /\ Target(x) \in Path /\ Target(x) # path[o] /\ IsPrefix(path[o], Target(x))
             /\ IsPrefix(path[o], Front(Target(x)))
  BY <1>2, <1>3, TargetBelow
<1>5. PICK K \in SUBSET From, R \in SUBSET {Target(x) : x \in From} :
          tree' = With(Without(R), K)
  <2>1. \E K \in SUBSET From :
        \E R \in SUBSET ({Target(x) : x \in From \ (K \cup DOMAIN tree)} \cap Paths) :
           tree' = With(Without(R), K)
    BY Zenon DEF CopyEntry
  <2>2. \A K : {Target(x) : x \in From \ (K \cup DOMAIN tree)} \subseteq {Target(x) : x \in From}
    <3> HIDE DEF Target, From
    <3> QED OBVIOUS
  <2> HIDE DEF Target, From, With
  <2> QED BY <2>1, <2>2
<1>6. Reload(o, NoName)
  BY DEF CopyEntry
<1>7. From # {} => Exists(path[o])
  OBVIOUS
<1> HIDE DEF src, From, Target, o
<1>8. Solid'
  <2> DEFINE D == DOMAIN Without(R) \cup {Target(x) : x \in K \cap DOMAIN tree}
             S(q) == (IF q \in DOMAIN Without(R) THEN Without(R)[q] ELSE {})
                     \cup {Entry(Last(x), IsDir(x)) : x \in {x \in K : Front(Target(x)) = q}}
  <2>1. tree' = [q \in D |-> S(q)]
    BY <1>5
  <2> HIDE DEF D, S
  <2> QED BY <2>1 DEF Solid
<1>9. DOMAIN tree' = DOMAIN Without(R) \cup {Target(x) : x \in K \cap DOMAIN tree}
  BY <1>5
<1>10. \A q \in DOMAIN tree' :
          tree'[q] = (IF q \in DOMAIN Without(R) THEN Without(R)[q] ELSE {})
                     \cup {Entry(Last(x), IsDir(x)) : x \in {x \in K : Front(Target(x)) = q}}
  BY <1>5, <1>9
<1> HIDE DEF With
<1>11. ASSUME From = {} PROVE tree' = tree
  <2>1. K = {} /\ R = {}
    BY <1>11
  <2>2. Without(R) = tree
    BY <2>1, WithoutNone
  <2>3. DOMAIN tree' = DOMAIN tree
    BY <1>9, <2>1, <2>2
  <2>4. \A q \in DOMAIN tree : tree'[q] = tree[q]
    BY <1>10, <2>1, <2>2, <2>3
  <2> QED BY <1>8, <2>3, <2>4 DEF Solid
<1>12. ASSUME From # {} PROVE Shows(o)
  <2>1. \A x \in R : x \in Path /\ IsPrefix(path[o], x) /\ x # path[o]
    BY <1>4
  <2>2. /\ path[o] \notin R
        /\ \A r \in DOMAIN tree :
              \/ IsPrefix(path[o], r)
              \/ r \in DOMAIN Without(R) /\ tree[r] = Without(R)[r]
    BY <1>2, <2>1, WithoutOutside
  <2>3. Exists(path[o])
    BY <1>7, <1>12
  <2>4. path[o] \in DOMAIN tree'
    BY <1>9, <2>2, <2>3, WithoutType DEF Exists
  <2>5. path'[o] \in DOMAIN tree' /\ ToSet(list'[o]) = tree'[path'[o]]
    BY <1>1, <1>6, <2>3, <2>4, ReloadReads
  <2>6. ASSUME NEW r \in DOMAIN tree, ~ IsPrefix(path[o], r)
        PROVE  r \in DOMAIN tree' /\ tree[r] = tree'[r]
    <3>1. r \in DOMAIN Without(R) /\ tree[r] = Without(R)[r]
      BY <2>2, <2>6
    <3>2. {x \in K : Front(Target(x)) = r} = {}
      BY <1>4, <2>6
    <3> QED BY <1>9, <1>10, <3>1, <3>2
  <2>7. ASSUME NEW r \in DOMAIN tree', r \notin DOMAIN tree
        PROVE  IsPrefix(path[o], r)
    <3>1. r \in {Target(x) : x \in K}
      BY <1>9, <2>7, WithoutType
    <3> QED BY <1>4, <3>1
  <2>8. \A r \in DOMAIN tree \cup DOMAIN tree' :
           \/ IsPrefix(path[o], r)
           \/ r \in DOMAIN tree \cap DOMAIN tree' /\ tree[r] = tree'[r]
    BY <2>6, <2>7
  <2> QED BY <2>5, <2>8 DEF Shows
<1> QED BY <1>8, <1>11, <1>12 DEF o

LEMMA RenameShows ==
    ASSUME PanelsInv, Solid, NEW n \in Renames, Rename(n)
    PROVE  Solid' /\ (tree' # tree => Shows(active))
<1> DEFINE p == active
           q == path[p]
           e == list[p][current[p]]
           old == Append(q, e.name)
           new == Append(q, n)
           moved(r) == IF IsPrefix(old, r) THEN new \o SubSeq(r, Len(new) + 1, Len(r)) ELSE r
           back(r) == CHOOSE s \in DOMAIN tree : moved(s) = r
           renamed == [r \in {moved(s) : s \in DOMAIN tree} |->
                         IF r = q THEN (tree[q] \ {e}) \cup {Entry(n, e.dir)}
                         ELSE tree[back(r)]]
<1>1. p \in Panel /\ q \in Path /\ n \in Names
  BY DEF PanelsInv, TypeOK, Names, Path
<1>2. e.name \in Names
  BY <1>1, Selected DEF Rename, Entries
<1>3. /\ old \in Path /\ IsPrefix(q, old) /\ ~ IsPrefix(old, q)
      /\ new \in Path /\ IsPrefix(q, new) /\ IsPrefix(q, q)
  BY <1>1, <1>2, PrefixAppend
<1>4. Reload(p, n) /\ (UNCHANGED tree \/ (Exists(q) /\ tree' = renamed))
  BY DEF Rename
<1>5. CASE UNCHANGED tree
  BY <1>5 DEF Solid
<1>6. CASE Exists(q) /\ tree' = renamed
  <2>1. Solid'
    <3> HIDE DEF moved, back, q, e
    <3> QED BY <1>6 DEF Solid
  <2>2. \A s \in DOMAIN tree : s \in Path
    BY DEF PanelsInv, TreeType
  <2>3. ASSUME NEW s \in DOMAIN tree, IsPrefix(old, s)
        PROVE  IsPrefix(q, s) /\ IsPrefix(q, moved(s))
    <3> DEFINE w == SubSeq(s, Len(new) + 1, Len(s))
    <3>1. s \in Seq(Names) /\ Len(s) \in Nat /\ Len(new) \in Nat /\ moved(s) = new \o w
      <4>1. moved(s) = new \o w
        BY <2>3
      <4> HIDE DEF moved, w, new
      <4> QED BY <1>3, <2>2, <4>1 DEF Path
    <3>2. \A i \in Len(new) + 1 .. Len(s) : s[i] \in Names
      BY <3>1
    <3>3. w \in Path
      BY <3>1, <3>2, SubSeqProperties DEF Path
    <3>4. new \o w \in Path /\ IsPrefix(new, new \o w)
      BY <1>3, <3>3, PrefixConcat
    <3> HIDE DEF moved, w, new, old, q
    <3>5. IsPrefix(q, new \o w)
      BY <1>1, <1>3, <3>4, PrefixTrans
    <3>6. IsPrefix(q, s)
      BY <1>1, <1>3, <2>2, <2>3, PrefixTrans
    <3> QED BY <3>1, <3>5, <3>6
  <2>4. \A s \in DOMAIN tree : ~ IsPrefix(old, s) => moved(s) = s
    OBVIOUS
  <2> HIDE DEF moved
  <2>5. DOMAIN tree' = {moved(s) : s \in DOMAIN tree}
    BY <1>6
  <2>6. \A r \in DOMAIN tree' : r # q => tree'[r] = tree[back(r)]
    BY <1>6, <2>5
  <2> HIDE DEF renamed, old, new
  <2>7. q \in DOMAIN tree'
    BY <1>3, <1>6, <2>4, <2>5 DEF Exists
  <2>8. path'[p] \in DOMAIN tree' /\ ToSet(list'[p]) = tree'[path'[p]]
    BY <1>1, <1>4, <1>6, <2>7, ReloadReads
  <2>9. ASSUME NEW r \in DOMAIN tree \cup DOMAIN tree', ~ IsPrefix(q, r)
        PROVE  r \in DOMAIN tree \cap DOMAIN tree' /\ tree[r] = tree'[r]
    <3>1. \A s \in DOMAIN tree : moved(s) = r => s = r
      BY <2>3, <2>4, <2>9
    <3>2. r \in DOMAIN tree
      BY <2>5, <2>9, <3>1
    <3>3. moved(r) = r
      BY <2>3, <2>4, <2>9, <3>2
    <3>4. back(r) = r
      BY <3>1, <3>2, <3>3
    <3>5. r # q
      BY <1>3, <2>9
    <3> HIDE DEF back
    <3> QED BY <2>5, <2>6, <3>2, <3>3, <3>4, <3>5
  <2> QED BY <2>1, <2>8, <2>9 DEF Shows
<1> QED BY <1>4, <1>5, <1>6

LEMMA InitSolid == Init => Solid
BY TreeAssumption DEF Init, Solid

LEMMA NextShows ==
    ASSUME PanelsInv, Solid, [Next]_vars
    PROVE  Solid' /\ (tree' # tree => \E p \in Panel : Shows(p))
<1>1. active \in Panel /\ Other(active) \in Panel
  BY DEF PanelsInv, TypeOK, Other, Panel
<1>2. CASE UNCHANGED tree
  BY <1>2 DEF Solid
<1>3. ASSUME NEW n \in NewNames, NewDir(n) PROVE Solid' /\ (tree' # tree => Shows(active))
  BY <1>3, NewDirShows
<1>4. ASSUME NEW n \in Renames, Rename(n) PROVE Solid' /\ (tree' # tree => Shows(active))
  BY <1>4, RenameShows
<1>5. CASE Dereference(active)
  BY <1>2, <1>5 DEF Dereference
<1>6. CASE Delete
  BY <1>1, <1>5, <1>6, DeleteShows DEF Delete
<1>7. CASE Copy
  BY <1>1, <1>5, <1>7, CopyShows DEF Copy
<1>8. CASE Enter \/ Exit \/ Probe \/ (\E dn \in BOOLEAN : Scroll(dn))
           \/ (\E p \in Panel : Activate(p)) \/ (\E d \in Device : Plug(d)) \/ UNCHANGED vars
  BY <1>2, <1>8 DEF Enter, EnterDir, Exit, Probe, Scroll, ScrollTo, Activate, Plug, Dereference, vars
<1> QED BY <1>1, <1>3, <1>4, <1>6, <1>7, <1>8 DEF Next

\* What a command changed is in or below a directory that is read again: the active panel's,
\* for a copy the other panel's, for any disks and whatever comes and goes.
THEOREM ResultCorrect == Spec => ResultShown
<1> DEFINE Shown_step == tree' # tree => \E p \in Panel : Shows(p)
<1>1. Spec => []Solid
  BY InitSolid, NextShows, PanelsAlways, PTL DEF Spec
<1>2. PanelsInv /\ Solid /\ [Next]_vars => [Shown_step]_vars
  BY NextShows
<1>3. Spec => [][Shown_step]_vars
  BY <1>1, <1>2, PanelsAlways, PTL DEF Spec
<1> QED BY <1>3 DEF ResultShown, Shows
=============================================================================
