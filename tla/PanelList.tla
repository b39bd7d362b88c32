----------------------------- MODULE PanelList -----------------------------
(***************************************************************************)
(* The file list of a panel (fm.c) as the doubly linked list it is: the    *)
(* heap cells, the pointers and the two records of the selection, the cell *)
(* p->current and the number p->current_idx the drawing scrolls by.        *)
(* A scan clears the list and adds what the directory holds, in the order  *)
(* the file system reports it; then the user scrolls and locates.          *)
(***************************************************************************)
EXTENDS Integers, Sequences, FiniteSets, FiniteSetsExt

CONSTANTS
    MaxName,    \* bound: names are 1 .. MaxName, in strcmp order
    MaxEntries, \* bound: entries of one directory
    SizeOf,     \* the size of the file of each name
    SizeRange   \* sizes are numbers modulo this; the last one is "unknown", -1

ASSUME MaxNameAssumption == MaxName \in Nat \ {0}
ASSUME MaxEntriesAssumption == MaxEntries \in Nat \ {0}
ASSUME SizeAssumption ==
    /\ SizeRange \in Nat \ {0}
    /\ SizeOf \in [1 .. MaxName -> 0 .. SizeRange - 1]

Node == 1 .. MaxEntries
NULL == 0
Ptr == Node \cup {NULL}

VARIABLES
    prev, next, name, dir,  \* the fields of each cell
    entries,                \* the head of the list
    current, current_idx,   \* the selection and its number
    files, dirs, fsize,     \* totals, shown below the list
    used,                   \* cells allocated since the last clear
    scanning                \* the directory is being read

fields == <<prev, next, name, dir>>
totals == <<files, dirs, fsize>>
vars == <<fields, entries, current, current_idx, totals, used, scanning>>

Init ==
    /\ prev = [n \in Node |-> NULL] /\ next = [n \in Node |-> NULL]
    /\ name = [n \in Node |-> 1] /\ dir = [n \in Node |-> FALSE]
    /\ entries = NULL /\ current = NULL /\ current_idx = -1
    /\ files = 0 /\ dirs = 0 /\ fsize = 0 /\ used = 0
    /\ scanning = FALSE

\* The cells reached from the head, in order.
Chain ==
    LET from[n \in Ptr] == IF n = NULL THEN <<>> ELSE <<n>> \o from[next[n]]
    IN  from[entries]

Cells == {Chain[i] : i \in DOMAIN Chain}

-----------------------------------------------------------------------------
(* fm_panel_add *)

\* Where `while (c->next && c \in On) c = c->next` stops.
Walk(c, On) ==
    LET at[n \in Node] == IF next[n] # NULL /\ n \in On THEN at[next[n]] ELSE n
    IN  at[c]

\* Mutants: the back link, or the link from the cell in front, is forgotten.
add_before_noprev(link, n) ==
    /\ prev' = [prev EXCEPT ![link] = prev[n]]
    /\ next' = IF prev[n] # NULL
               THEN [next EXCEPT ![link] = n, ![prev[n]] = link]
               ELSE [next EXCEPT ![link] = n]
    /\ entries' = IF prev[n] = NULL THEN link ELSE entries

add_before_head(link, n) ==
    /\ prev' = [prev EXCEPT ![link] = prev[n], ![n] = link]
    /\ next' = [next EXCEPT ![link] = n]
    /\ entries' = link

add_before(link, n) ==
    /\ prev' = [prev EXCEPT ![link] = prev[n], ![n] = link]
    /\ next' = IF prev[n] # NULL
               THEN [next EXCEPT ![link] = n, ![prev[n]] = link]
               ELSE [next EXCEPT ![link] = n]
    /\ entries' = IF prev[n] = NULL THEN link ELSE entries

\* Also when n has a successor, which is then lost.
add_after(link, n) ==
    /\ prev' = [prev EXCEPT ![link] = n]
    /\ next' = [next EXCEPT ![n] = link]
    /\ UNCHANGED entries

AddDir(link, fn) ==
    LET c == Walk(entries, {n \in Node : dir[n] /\ name[n] < fn}) IN
    IF next[c] = NULL /\ dir[c] /\ name[c] < fn
    THEN add_after(link, c)
    ELSE add_before(link, c)

AddFile(link, fn) ==
    LET afterDirs == Walk(entries, {n \in Node : dir[n]})
        c == IF ~ dir[afterDirs]
             THEN Walk(afterDirs, {n \in Node : name[n] < fn})
             ELSE afterDirs
    IN  IF name[c] > fn THEN add_before(link, c) ELSE add_after(link, c)

\* A directory holds a name once.  The device list may hold a name twice, all its
\* entries are directories.
Fresh(fn, d) == \A n \in Cells : name[n] = fn => d /\ dir[n]

\* The size fm_panel_add gets: a directory has none.
Size(fn, d) == IF d THEN 0 ELSE SizeOf[fn]

Counted(fn, d) ==
    /\ fsize' = (fsize + Size(fn, d)) % SizeRange
    /\ IF d THEN dirs' = dirs + 1 /\ UNCHANGED files
            ELSE files' = files + 1 /\ UNCHANGED dirs

\* Mutant: the selection stays on the cell that was the first.
fm_panel_add_keep(fn, d) ==
    LET link == used + 1 IN
    /\ scanning /\ used < MaxEntries /\ Fresh(fn, d)
    /\ used' = link
    /\ name' = [name EXCEPT ![link] = fn] /\ dir' = [dir EXCEPT ![link] = d]
    /\ Counted(fn, d)
    /\ CASE entries = NULL -> entries' = link /\ UNCHANGED <<prev, next>>
         [] entries # NULL /\ d -> AddDir(link, fn)
         [] entries # NULL /\ ~ d -> AddFile(link, fn)
    /\ current' = IF current = NULL THEN entries' ELSE current
    /\ current_idx' = 0
    /\ UNCHANGED scanning

fm_panel_add(fn, d) ==
    LET link == used + 1 IN
    /\ scanning /\ used < MaxEntries /\ Fresh(fn, d)
    /\ used' = link
    /\ name' = [name EXCEPT ![link] = fn] /\ dir' = [dir EXCEPT ![link] = d]
    /\ Counted(fn, d)
    /\ CASE entries = NULL -> entries' = link /\ UNCHANGED <<prev, next>>
         [] entries # NULL /\ d -> AddDir(link, fn)
         [] entries # NULL /\ ~ d -> AddFile(link, fn)
    /\ current' = entries'
    /\ current_idx' = 0
    /\ UNCHANGED scanning

-----------------------------------------------------------------------------
(* The other operations *)

\* Mutant: the total of the sizes is kept.
fm_panel_clear_total ==
    /\ ~ scanning
    /\ scanning' = TRUE
    /\ prev' = [n \in Node |-> NULL] /\ next' = [n \in Node |-> NULL]
    /\ name' = [n \in Node |-> 1] /\ dir' = [n \in Node |-> FALSE]
    /\ entries' = NULL /\ current' = NULL /\ current_idx' = -1
    /\ files' = 0 /\ dirs' = 0 /\ used' = 0
    /\ UNCHANGED fsize

\* fm_panel_clear frees every cell; a scan begins with it.
fm_panel_clear ==
    /\ ~ scanning
    /\ scanning' = TRUE
    /\ prev' = [n \in Node |-> NULL] /\ next' = [n \in Node |-> NULL]
    /\ name' = [n \in Node |-> 1] /\ dir' = [n \in Node |-> FALSE]
    /\ entries' = NULL /\ current' = NULL /\ current_idx' = -1
    /\ files' = 0 /\ dirs' = 0 /\ fsize' = 0 /\ used' = 0

ScanEnd ==
    /\ scanning
    /\ scanning' = FALSE
    /\ UNCHANGED <<fields, entries, current, current_idx, totals, used>>

\* fm_panel_scroll on a list that has a selection (with none it dereferences
\* NULL: module Panels).
fm_panel_scroll(dn) ==
    LET to == IF dn THEN next[current] ELSE prev[current] IN
    /\ ~ scanning /\ current # NULL
    /\ to # NULL
    /\ current' = to
    /\ current_idx' = IF dn THEN current_idx + 1 ELSE current_idx - 1
    /\ UNCHANGED <<fields, entries, totals, used, scanning>>

\* Mutant: the number counts from 1.
fm_panel_locate_from1(fn) ==
    /\ ~ scanning
    /\ \E i \in DOMAIN Chain :
          /\ name[Chain[i]] = fn
          /\ \A j \in 1 .. i - 1 : name[Chain[j]] # fn
          /\ current' = Chain[i] /\ current_idx' = i
    /\ UNCHANGED <<fields, entries, totals, used, scanning>>

\* fm_panel_locate selects the first entry of the name; with none it does nothing.
fm_panel_locate(fn) ==
    /\ ~ scanning
    /\ \E i \in DOMAIN Chain :
          /\ name[Chain[i]] = fn
          /\ \A j \in 1 .. i - 1 : name[Chain[j]] # fn
          /\ current' = Chain[i] /\ current_idx' = i - 1
    /\ UNCHANGED <<fields, entries, totals, used, scanning>>

Next ==
    \/ fm_panel_clear \/ ScanEnd
    \/ \E fn \in 1 .. MaxName, d \in BOOLEAN : fm_panel_add(fn, d)
    \/ \E dn \in BOOLEAN : fm_panel_scroll(dn)
    \/ \E fn \in 1 .. MaxName : fm_panel_locate(fn)

Spec == Init /\ [][Next]_vars

-----------------------------------------------------------------------------
(* Properties *)

TypeOK ==
    /\ prev \in [Node -> Ptr] /\ next \in [Node -> Ptr]
    /\ name \in [Node -> 1 .. MaxName] /\ dir \in [Node -> BOOLEAN]
    /\ entries \in Ptr /\ current \in Ptr
    /\ current_idx \in -1 .. MaxEntries - 1
    /\ files \in Nat /\ dirs \in Nat /\ fsize \in 0 .. SizeRange - 1
    /\ used \in 0 .. MaxEntries /\ scanning \in BOOLEAN

\* The totals are those of the entries in the list, of this directory only; a file
\* whose size is unknown takes one byte away.
TotalsExact ==
    LET Files == {n \in Cells : ~ dir[n]}
        unknown == {n \in Files : SizeOf[name[n]] = SizeRange - 1}
    IN  /\ files = Cardinality(Files) /\ dirs = Cardinality(Cells \ Files)
        /\ fsize = (MapThenSumSet(LAMBDA n : SizeOf[name[n]], Files \ unknown)
                    - Cardinality(unknown)) % SizeRange

\* The links are those of one list: the back links mirror the forward links, and
\* every cell allocated since the last clear is reached from the head once, so
\* that the next clear frees them all and scrolling up retraces scrolling down.
WellLinked ==
    /\ Cells = 1 .. used /\ Len(Chain) = used
    /\ used > 0 => prev[entries] = NULL
    /\ \A i \in 2 .. Len(Chain) : prev[Chain[i]] = Chain[i - 1]

\* The number the drawing scrolls by is the number of the selected cell, so the
\* selection is always on the screen.
IndexInv ==
    IF used = 0 THEN current = NULL /\ current_idx = -1
    ELSE current_idx + 1 \in DOMAIN Chain /\ current = Chain[current_idx + 1]

\* The pointers implement a sequence and a position in it.
Abs == INSTANCE FileList WITH
           list <- [i \in DOMAIN Chain |->
                      [name |-> name[Chain[i]], dir |-> dir[Chain[i]]]],
           cur <- current_idx + 1
ImplementsFileList == Abs!Spec
=============================================================================
