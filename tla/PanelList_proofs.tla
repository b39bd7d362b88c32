-------------------------- MODULE PanelList_proofs --------------------------
(***************************************************************************)
(* Proofs about the file list of a panel (PanelList): its pointers are     *)
(* always those of one list, with the selection and the totals that belong *)
(* to it, and it implements the sequence of FileList.                      *)
(***************************************************************************)
EXTENDS PanelList, SequenceTheorems, FiniteSetTheorems, Extrema, TLAPS

-----------------------------------------------------------------------------
(* What the links of a list are, and what the walks along them find.        *)

\* The first n cells are linked in the order c, from head e; the others are not linked.
Linked(c, n, e, nx, pv) ==
    /\ c \in Seq(Node) /\ Len(c) = n
    /\ \A i \in 1 .. n : c[i] \in 1 .. n
    /\ \A i, j \in 1 .. n : c[i] = c[j] => i = j
    /\ \A m \in 1 .. n : \E i \in 1 .. n : c[i] = m
    /\ e = IF n = 0 THEN NULL ELSE c[1]
    /\ \A i \in 1 .. n : nx[c[i]] = IF i = n THEN NULL ELSE c[i + 1]
    /\ \A i \in 1 .. n : pv[c[i]] = IF i = 1 THEN NULL ELSE c[i - 1]
    /\ \A m \in Node : m > n => nx[m] = NULL /\ pv[m] = NULL

LEMMA NodeFacts == MaxEntries \in Nat /\ MaxEntries > 0 /\ Node \subseteq Nat /\ NULL = 0
                   /\ NULL \notin Node
BY MaxEntriesAssumption DEF Node, NULL

\* Chain follows the links to their end.
LEMMA ChainIs ==
    ASSUME NEW n \in 0 .. MaxEntries, NEW e, NEW nx \in [Node -> Ptr], NEW pv, NEW c,
           Linked(c, n, e, nx, pv)
    PROVE  LET from[m \in Ptr] == IF m = NULL THEN <<>> ELSE <<m>> \o from[nx[m]]
           IN  from[e] = c
<1> DEFINE Good(f) == f = [m \in Ptr |-> IF m = NULL THEN <<>> ELSE <<m>> \o f[nx[m]]]
           from == CHOOSE f : Good(f)
           place(m) == CHOOSE i \in 1 .. n : c[i] = m
           w == [m \in Ptr |-> IF m = NULL THEN <<>>
                               ELSE IF m <= n THEN SubSeq(c, place(m), n) ELSE <<m>>]
<1>1. /\ n \in Nat /\ n <= MaxEntries /\ c \in Seq(Node) /\ Len(c) = n /\ DOMAIN c = 1 .. n
      /\ \A i \in 1 .. n : c[i] \in Node /\ c[i] \in 1 .. n /\ c[i] # NULL
      /\ Ptr = Node \cup {0} /\ Node = 1 .. MaxEntries /\ NULL = 0 /\ NULL \notin Node
  <2>1. n \in Nat /\ n <= MaxEntries /\ Ptr = Node \cup {0} /\ Node = 1 .. MaxEntries
        /\ NULL = 0 /\ NULL \notin Node
    BY NodeFacts DEF Ptr, Node
  <2>2. c \in Seq(Node) /\ Len(c) = n /\ \A i \in 1 .. n : c[i] \in 1 .. n
    BY DEF Linked
  <2>3. DOMAIN c = 1 .. n
    BY <2>2, LenProperties
  <2>4. \A i \in 1 .. n : c[i] \in Node /\ c[i] # NULL
    <3>1. 1 .. n \subseteq Node
      BY <2>1, NodeFacts
    <3> QED BY <2>1, <2>2, <3>1
  <2> QED BY <2>1, <2>2, <2>3, <2>4
<1>2. \A i \in 1 .. n : place(c[i]) = i
  BY Zenon DEF Linked
<1>3. ASSUME NEW i \in 1 .. n
      PROVE  SubSeq(c, i, n) = <<c[i]>> \o (IF i = n THEN <<>> ELSE SubSeq(c, i + 1, n))
  <2>1. SubSeq(c, i, n) = <<c[i]>> \o SubSeq(c, i + 1, n)
    BY <1>1, SubSeqRecursiveFirst
  <2>2. i = n => SubSeq(c, i + 1, n) = <<>>
    BY <1>1, SubSeqEmpty
  <2> QED BY <2>1, <2>2
<1>4. \A i \in 1 .. n : w[c[i]] = SubSeq(c, i, n)
  <2>1. ASSUME NEW i \in 1 .. n PROVE w[c[i]] = SubSeq(c, place(c[i]), n)
    <3> HIDE DEF place
    <3>1. c[i] \in Ptr /\ c[i] # NULL /\ c[i] <= n
      BY <1>1
    <3> QED BY <3>1, Zenon
  <2> HIDE DEF w, place
  <2> QED BY <2>1, <1>2
<1>5. ASSUME NEW m \in Ptr PROVE w[m] = IF m = NULL THEN <<>> ELSE <<m>> \o w[nx[m]]
  <2>1. CASE m = NULL
    BY <2>1
  <2>2. CASE m # NULL /\ m <= n
    <3>1. PICK i \in 1 .. n : c[i] = m
      BY <2>2, <1>1 DEF Linked
    <3>2. nx[m] = IF i = n THEN NULL ELSE c[i + 1]
      BY <3>1 DEF Linked
    <3>3. w[nx[m]] = IF i = n THEN <<>> ELSE SubSeq(c, i + 1, n)
      <4>1. CASE i = n
        BY <4>1, <3>2, <1>1
      <4>2. CASE i # n
        <5>1. i + 1 \in 1 .. n
          BY <4>2, <1>1
        <5> QED BY <5>1, <4>2, <3>2, <1>4
      <4> QED BY <4>1, <4>2
    <3>4. w[m] = SubSeq(c, i, n)
      BY <3>1, <1>4
    <3> HIDE DEF w
    <3> QED BY <3>1, <3>3, <3>4, <1>3, <2>2
  <2>3. CASE m # NULL /\ ~ m <= n
    <3>1. m \in Node /\ m > n
      BY <2>3, <1>1
    <3>2. nx[m] = NULL
      BY <3>1 DEF Linked
    <3>3. w[NULL] = <<>> /\ w[m] = <<m>>
      BY <2>3, <1>1
    <3>4. <<m>> = <<m>> \o <<>>
      OBVIOUS
    <3> HIDE DEF w
    <3> QED BY <2>3, <3>2, <3>3, <3>4
  <2> QED BY <2>1, <2>2, <2>3
<1>6. Good(w)
  <2>1. w = [m \in Ptr |-> w[m]]
    OBVIOUS
  <2> HIDE DEF w
  <2> QED BY <1>5, <2>1, Zenon
<1>7. ASSUME NEW f, Good(f) PROVE f[e] = c
  <2> HIDE DEF w
  <2>1. \A m \in Ptr : f[m] = IF m = NULL THEN <<>> ELSE <<m>> \o f[nx[m]]
    BY <1>7, Zenon
  <2>2. \A i \in 1 .. n : f[c[i]] = <<c[i]>> \o f[nx[c[i]]]
    BY <2>1, <1>1
  <2>3. f[NULL] = <<>>
    BY <2>1, <1>1
  <2> DEFINE B == {i \in 1 .. n : f[c[i]] # SubSeq(c, i, n)}
  <2>4. B = {}
    <3>1. SUFFICES ASSUME B # {} PROVE FALSE
      OBVIOUS
    <3>2. PICK i \in B : \A j \in B : j <= i
      BY <3>1, <1>1, Greatest
    <3>3. nx[c[i]] = IF i = n THEN NULL ELSE c[i + 1]
      BY DEF Linked
    <3>4. f[nx[c[i]]] = IF i = n THEN <<>> ELSE SubSeq(c, i + 1, n)
      <4>1. CASE i = n
        BY <4>1, <3>3, <2>3
      <4>2. CASE i # n
        <5>1. i + 1 \in 1 .. n /\ ~ (i + 1 <= i)
          BY <4>2, <1>1
        <5>2. i + 1 \notin B
          BY <5>1, <3>2, Zenon
        <5> QED BY <5>1, <5>2, <4>2, <3>3
      <4> QED BY <4>1, <4>2
    <3>5. f[c[i]] = SubSeq(c, i, n)
      BY <3>4, <2>2, <1>3
    <3> QED BY <3>5
  <2>5. CASE n = 0
    <3>1. c = <<>> /\ e = NULL
      BY <2>5, <1>1, EmptySeq DEF Linked
    <3> QED BY <3>1, <2>3
  <2>6. CASE n # 0
    <3>1. 1 \in 1 .. n
      BY <2>6, <1>1
    <3>2. f[c[1]] = SubSeq(c, 1, n)
      BY <3>1, <2>4
    <3>3. SubSeq(c, 1, n) = c
      BY <1>1, SubSeqFull
    <3>4. e = c[1]
      BY <2>6 DEF Linked
    <3> QED BY <3>2, <3>3, <3>4
  <2> QED BY <2>5, <2>6
<1>8. from[e] = c
  <2> HIDE DEF w, Good
  <2>1. Good(from)
    BY <1>6, Zenon
  <2> QED BY <2>1, <1>7
<1> QED BY <1>8

\* What the links give of a list, for the steps of the proofs.
LEMMA LinkedFacts ==
    ASSUME NEW n \in 0 .. MaxEntries, NEW e, NEW nx, NEW pv, NEW c,
           Linked(c, n, e, nx, pv)
    PROVE  /\ n \in Nat /\ n <= MaxEntries /\ c \in Seq(Node) /\ Len(c) = n
           /\ DOMAIN c = 1 .. n /\ Node = 1 .. MaxEntries
           /\ Ptr = Node \cup {0} /\ NULL = 0 /\ NULL \notin Node
           /\ \A i \in 1 .. n : c[i] \in Node /\ c[i] \in 1 .. n /\ c[i] # NULL
           /\ \A i \in 1 .. n : nx[c[i]] = IF i = n THEN NULL ELSE c[i + 1]
           /\ \A i \in 1 .. n : pv[c[i]] = IF i = 1 THEN NULL ELSE c[i - 1]
           /\ \A i \in 1 .. n : (nx[c[i]] = NULL <=> i = n) /\ (pv[c[i]] = NULL <=> i = 1)
           /\ e = IF n = 0 THEN NULL ELSE c[1]
<1>1. n \in Nat /\ n <= MaxEntries /\ Ptr = Node \cup {0} /\ Node = 1 .. MaxEntries
      /\ NULL = 0 /\ NULL \notin Node /\ 1 .. n \subseteq Node
  BY NodeFacts DEF Ptr, Node
<1>2. /\ c \in Seq(Node) /\ Len(c) = n /\ \A i \in 1 .. n : c[i] \in 1 .. n
      /\ \A i \in 1 .. n : nx[c[i]] = IF i = n THEN NULL ELSE c[i + 1]
      /\ \A i \in 1 .. n : pv[c[i]] = IF i = 1 THEN NULL ELSE c[i - 1]
      /\ e = IF n = 0 THEN NULL ELSE c[1]
  BY DEF Linked
<1>3. DOMAIN c = 1 .. n
  BY <1>2, LenProperties
<1>4. \A i \in 1 .. n : c[i] \in Node /\ c[i] # NULL
  BY <1>1, <1>2
<1>5. ASSUME NEW i \in 1 .. n
      PROVE  (nx[c[i]] = NULL <=> i = n) /\ (pv[c[i]] = NULL <=> i = 1)
  <2>1. nx[c[i]] = NULL <=> i = n
    <3>1. i # n => i + 1 \in 1 .. n
      BY <1>1
    <3>2. i # n => c[i + 1] # NULL
      BY <3>1, <1>4
    <3>3. nx[c[i]] = IF i = n THEN NULL ELSE c[i + 1]
      BY <1>2
    <3> QED BY <3>2, <3>3
  <2>2. pv[c[i]] = NULL <=> i = 1
    <3>1. i # 1 => i - 1 \in 1 .. n
      BY <1>1
    <3>2. i # 1 => c[i - 1] # NULL
      BY <3>1, <1>4
    <3>3. pv[c[i]] = IF i = 1 THEN NULL ELSE c[i - 1]
      BY <1>2
    <3> QED BY <3>2, <3>3
  <2> QED BY <2>1, <2>2
<1> QED BY <1>1, <1>2, <1>3, <1>4, <1>5

\* Walk, along the links nx.
Along(nx, m, On) ==
    LET at[n \in Node] == IF nx[n] # NULL /\ n \in On THEN at[nx[n]] ELSE n
    IN  at[m]

\* A walk stops at the first cell that is the last one or does not go on.
LEMMA WalkStops ==
    ASSUME NEW n \in 0 .. MaxEntries, NEW e, NEW nx \in [Node -> Ptr], NEW pv, NEW c,
           Linked(c, n, e, nx, pv), NEW On, NEW b \in 1 .. n
    PROVE  \E j \in b .. n :
              /\ Along(nx, c[b], On) = c[j]
              /\ j = n \/ c[j] \notin On
              /\ \A k \in b .. j - 1 : c[k] \in On
<1> DEFINE Good(f) == f = [m \in Node |-> IF nx[m] # NULL /\ m \in On THEN f[nx[m]] ELSE m]
           at == CHOOSE f : Good(f)
           Stop(j) == j = n \/ c[j] \notin On
           Least2(i, j) == j \in i .. n /\ Stop(j) /\ \A k \in i .. j - 1 : ~ Stop(k)
           stop(i) == CHOOSE j \in i .. n : Least2(i, j)
           place(m) == CHOOSE i \in 1 .. n : c[i] = m
           w == [m \in Node |-> IF m <= n THEN c[stop(place(m))] ELSE m]
<1>1. /\ n \in Nat /\ n <= MaxEntries /\ c \in Seq(Node) /\ Len(c) = n /\ DOMAIN c = 1 .. n
      /\ Ptr = Node \cup {0} /\ Node = 1 .. MaxEntries /\ NULL = 0 /\ NULL \notin Node
      /\ \A i \in 1 .. n : c[i] \in Node /\ c[i] \in 1 .. n /\ c[i] # NULL
      /\ \A i \in 1 .. n : nx[c[i]] = IF i = n THEN NULL ELSE c[i + 1]
      /\ \A i \in 1 .. n : nx[c[i]] = NULL <=> i = n
  BY LinkedFacts
<1>2. \A i \in 1 .. n : place(c[i]) = i
  BY Zenon DEF Linked
<1>3. ASSUME NEW i \in 1 .. n PROVE \E j \in i .. n : Least2(i, j)
  <2> DEFINE T == {j \in i .. n : Stop(j)}
  <2>1. T \in SUBSET Nat /\ n \in T
    BY <1>1
  <2>2. PICK j \in T : \A k \in T : j <= k
    <3> HIDE DEF T
    <3> QED BY <2>1, Least
  <2>3. j \in i .. n /\ Stop(j)
    OBVIOUS
  <2>4. ASSUME NEW k \in i .. j - 1 PROVE ~ Stop(k)
    <3>1. k \in i .. n /\ ~ (j <= k)
      BY <2>3, <1>1
    <3> QED BY <3>1, <2>2
  <2> QED BY <2>3, <2>4, Zenon
<1>4. ASSUME NEW i \in 1 .. n, NEW j, NEW k, Least2(i, j), Least2(i, k) PROVE j = k
  <2>1. j \in i .. n /\ k \in i .. n /\ Stop(j) /\ Stop(k)
    BY <1>4
  <2>2. (j < k => j \in i .. k - 1) /\ (k < j => k \in i .. j - 1)
    BY <2>1, <1>1
  <2>3. ~ (j < k) /\ ~ (k < j)
    BY <2>1, <2>2, <1>4
  <2> QED BY <2>1, <2>3, <1>1
<1>5. \A i \in 1 .. n : stop(i) \in i .. n /\ Least2(i, stop(i))
  <2> HIDE DEF Least2
  <2> QED BY <1>3, Zenon
<1>6. ASSUME NEW i \in 1 .. n
      PROVE  stop(i) = IF Stop(i) THEN i ELSE stop(i + 1)
  <2>1. CASE Stop(i)
    <3>1. Least2(i, i)
      BY <2>1, <1>1
    <3> HIDE DEF Least2, stop
    <3> QED BY <3>1, <2>1, <1>4, <1>5
  <2>2. CASE ~ Stop(i)
    <3>1. i + 1 \in 1 .. n
      BY <2>2, <1>1
    <3>2. stop(i + 1) \in i + 1 .. n /\ Least2(i + 1, stop(i + 1))
      BY <3>1, <1>5, Zenon
    <3> HIDE DEF stop
    <3> DEFINE s == stop(i + 1)
    <3>3. s \in i + 1 .. n /\ Stop(s) /\ \A k \in i + 1 .. s - 1 : ~ Stop(k)
      BY <3>2
    <3> HIDE DEF Stop, s
    <3>4. s \in i .. n /\ \A k \in i .. s - 1 : ~ Stop(k)
      <4>1. \A k \in i .. s - 1 : k = i \/ k \in i + 1 .. s - 1
        BY <3>3, <1>1
      <4> QED BY <4>1, <3>3, <2>2, <1>1
    <3>5. Least2(i, s)
      BY <3>3, <3>4
    <3> HIDE DEF Least2
    <3>6. stop(i) = s
      BY <3>5, <1>5, <1>4
    <3> QED BY <3>6, <2>2 DEF s
  <2> QED BY <2>1, <2>2
<1>7. ASSUME NEW i \in 1 .. n PROVE w[c[i]] = c[stop(i)]
  <2> HIDE DEF place, stop
  <2>1. c[i] \in Node /\ c[i] <= n
    BY <1>1
  <2>2. w[c[i]] = c[stop(place(c[i]))]
    BY <2>1, Zenon
  <2> HIDE DEF w
  <2> QED BY <2>2, <1>2
<1>8. ASSUME NEW m \in Node PROVE w[m] = IF nx[m] # NULL /\ m \in On THEN w[nx[m]] ELSE m
  <2> HIDE DEF stop
  <2>1. CASE m <= n
    <3>1. PICK i \in 1 .. n : c[i] = m
      BY <2>1, <1>1 DEF Linked
    <3>2. Stop(i) <=> ~ (nx[m] # NULL /\ m \in On)
      BY <3>1, <1>1
    <3>3. ~ Stop(i) => i + 1 \in 1 .. n /\ nx[m] = c[i + 1]
      BY <3>1, <1>1
    <3> HIDE DEF Stop, w
    <3> QED BY <3>1, <3>2, <3>3, <1>6, <1>7
  <2>2. CASE ~ (m <= n)
    <3>1. nx[m] = NULL
      BY <2>2, <1>1 DEF Linked
    <3>2. w[m] = m
      BY <2>2
    <3> HIDE DEF w
    <3> QED BY <3>1, <3>2
  <2> QED BY <2>1, <2>2
<1>9. Good(w)
  <2>1. w = [m \in Node |-> w[m]]
    OBVIOUS
  <2> HIDE DEF w
  <2> QED BY <1>8, <2>1, Zenon
<1>10. Good(at)
  <2> HIDE DEF w, Good
  <2> QED BY <1>9, Zenon
<1>11. \A i \in 1 .. n : at[c[i]] = IF Stop(i) THEN c[i] ELSE at[c[i + 1]]
  <2> HIDE DEF at
  <2>1. \A m \in Node : at[m] = IF nx[m] # NULL /\ m \in On THEN at[nx[m]] ELSE m
    BY <1>10, Zenon
  <2> QED BY <2>1, <1>1
<1> HIDE DEF at, stop, w
<1>12. \A i \in 1 .. n : at[c[i]] = c[stop(i)]
  <2> DEFINE B == {i \in 1 .. n : at[c[i]] # c[stop(i)]}
  <2>1. SUFFICES ASSUME B # {} PROVE FALSE
    OBVIOUS
  <2>2. PICK i \in B : \A j \in B : j <= i
    BY <2>1, <1>1, Greatest
  <2>3. CASE Stop(i)
    BY <2>3, <1>11, <1>6
  <2>4. CASE ~ Stop(i)
    <3>1. i + 1 \in 1 .. n /\ ~ (i + 1 <= i)
      BY <2>4, <1>1
    <3>2. i + 1 \notin B
      BY <3>1, <2>2, Zenon
    <3> HIDE DEF Stop
    <3> QED BY <3>1, <3>2, <2>4, <1>11, <1>6
  <2> QED BY <2>3, <2>4
<1>13. at[c[b]] = c[stop(b)] /\ stop(b) \in b .. n /\ Least2(b, stop(b))
  <2> HIDE DEF Least2
  <2> QED BY <1>12, <1>5
<1>14. \A k \in b .. stop(b) - 1 : c[k] \in On
  BY <1>13
<1>15. stop(b) \in b .. n /\ (stop(b) = n \/ c[stop(b)] \notin On)
  BY <1>13
<1>16. Along(nx, c[b], On) = at[c[b]]
  BY DEF Along, at
<1> QED BY <1>13, <1>14, <1>15, <1>16

-----------------------------------------------------------------------------
(* Adding a cell to a list                                                  *)

\* The sequence s with x put at place k.
Into(s, k, x) == SubSeq(s, 1, k - 1) \o <<x>> \o SubSeq(s, k, Len(s))

\* Both halves keep their order, and the old cells their relative positions.
LEMMA IntoProperties ==
    ASSUME NEW S, NEW s \in Seq(S), NEW k \in 1 .. Len(s) + 1, NEW x \in S
    PROVE  /\ Into(s, k, x) \in Seq(S)
           /\ Len(Into(s, k, x)) = Len(s) + 1
           /\ \A i \in 1 .. Len(s) + 1 :
                 Into(s, k, x)[i] = IF i < k THEN s[i] ELSE IF i = k THEN x ELSE s[i - 1]
<1> DEFINE n == Len(s)
           a == SubSeq(s, 1, k - 1)
           z == SubSeq(s, k, n)
           ax == a \o <<x>>
<1>1. n \in Nat /\ k \in 1 .. n + 1 /\ \A i \in 1 .. n : s[i] \in S
  BY LenProperties, ElementOfSeq
<1> HIDE DEF n
<1>2. /\ a \in Seq(S) /\ Len(a) = k - 1
      /\ \A i \in 1 .. k - 1 : a[i] = s[i]
  <2>1. \A i \in 1 .. k - 1 : s[i] \in S
    BY <1>1
  <2>2. /\ a \in Seq(S) /\ Len(a) = IF 1 <= k - 1 THEN k - 1 - 1 + 1 ELSE 0
        /\ \A i \in 1 .. k - 1 - 1 + 1 : a[i] = s[1 + i - 1]
    BY <2>1, <1>1, SubSeqProperties
  <2> HIDE DEF a
  <2> QED BY <2>2, <1>1
<1>3. /\ z \in Seq(S) /\ Len(z) = n - k + 1
      /\ \A i \in 1 .. n - k + 1 : z[i] = s[k + i - 1]
  <2>1. \A i \in k .. n : s[i] \in S
    BY <1>1
  <2>2. /\ z \in Seq(S) /\ Len(z) = IF k <= n THEN n - k + 1 ELSE 0
        /\ \A i \in 1 .. n - k + 1 : z[i] = s[k + i - 1]
    BY <2>1, <1>1, SubSeqProperties
  <2> HIDE DEF z
  <2> QED BY <2>2, <1>1
<1> HIDE DEF a, z
<1>4. <<x>> \in Seq(S) /\ Len(<<x>>) = 1 /\ <<x>>[1] = x
  OBVIOUS
<1>5. /\ ax \in Seq(S) /\ Len(ax) = k
      /\ \A i \in 1 .. k : ax[i] = IF i < k THEN s[i] ELSE x
  <2>1. /\ ax \in Seq(S) /\ Len(ax) = Len(a) + Len(<<x>>)
        /\ \A i \in 1 .. Len(a) + Len(<<x>>) :
              ax[i] = IF i <= Len(a) THEN a[i] ELSE <<x>>[i - Len(a)]
    BY <1>2, <1>4, ConcatProperties
  <2> HIDE DEF ax
  <2> QED BY <2>1, <1>1, <1>2, <1>4
<1> HIDE DEF ax
<1>6. /\ ax \o z \in Seq(S) /\ Len(ax \o z) = n + 1
      /\ \A i \in 1 .. n + 1 :
            (ax \o z)[i] = IF i < k THEN s[i] ELSE IF i = k THEN x ELSE s[i - 1]
  <2>1. /\ ax \o z \in Seq(S) /\ Len(ax \o z) = Len(ax) + Len(z)
        /\ \A i \in 1 .. Len(ax) + Len(z) :
              (ax \o z)[i] = IF i <= Len(ax) THEN ax[i] ELSE z[i - Len(ax)]
    BY <1>3, <1>5, ConcatProperties
  <2>2. Len(ax) + Len(z) = n + 1
    BY <1>1, <1>3, <1>5
  <2>3. ASSUME NEW i \in 1 .. n + 1
        PROVE  (ax \o z)[i] = IF i < k THEN s[i] ELSE IF i = k THEN x ELSE s[i - 1]
    <3>1. (ax \o z)[i] = IF i <= k THEN ax[i] ELSE z[i - k]
      BY <2>1, <2>2, <1>5
    <3>2. i > k => i - k \in 1 .. n - k + 1 /\ k + (i - k) - 1 = i - 1
      BY <1>1
    <3>3. i > k => z[i - k] = s[i - 1]
      BY <3>2, <1>3
    <3> QED BY <3>1, <3>3, <1>1, <1>5
  <2> QED BY <2>1, <2>2, <2>3
<1> QED BY <1>6 DEF Into, ax, a, z, n

\* A cell that the links put at place k is there.
LEMMA LinkedInto ==
    ASSUME NEW n \in 0 .. MaxEntries, n < MaxEntries, NEW e, NEW nx, NEW pv, NEW c,
           Linked(c, n, e, nx, pv), NEW k \in 1 .. n + 1, NEW e1, NEW nx1, NEW pv1,
           e1 = IF k = 1 THEN n + 1 ELSE e,
           \A m \in Node : nx1[m] =
              IF m = n + 1 THEN IF k = n + 1 THEN NULL ELSE c[k]
              ELSE IF k > 1 /\ m = c[k - 1] THEN n + 1 ELSE nx[m],
           \A m \in Node : pv1[m] =
              IF m = n + 1 THEN IF k = 1 THEN NULL ELSE c[k - 1]
              ELSE IF k < n + 1 /\ m = c[k] THEN n + 1 ELSE pv[m]
    PROVE  Linked(Into(c, k, n + 1), n + 1, e1, nx1, pv1)
<1> DEFINE d == Into(c, k, n + 1)
<1>1. n \in Nat /\ k \in Nat /\ 1 <= k /\ k <= n + 1 /\ n < MaxEntries /\ Node = 1 .. MaxEntries
  BY NodeFacts DEF Node
<1>2. PICK x \in Nat : x = n + 1
  BY <1>1
<1>3. c \in Seq(Node) /\ Len(c) = n
  BY DEF Linked
<1>4. \A i \in 1 .. n : c[i] \in 1 .. n
  BY DEF Linked
<1>5. \A i, j \in 1 .. n : c[i] = c[j] => i = j
  BY DEF Linked
<1>6. \A m \in 1 .. n : \E i \in 1 .. n : c[i] = m
  BY DEF Linked
<1>7. x \in Node /\ 1 .. n \subseteq Node /\ \A i \in 1 .. n : c[i] \in Node /\ c[i] # x
  <2>1. x \in Node /\ 1 .. n \subseteq Node /\ x \notin 1 .. n
    BY <1>1, <1>2, NodeFacts
  <2> QED BY <2>1, <1>4
<1>8. /\ d \in Seq(Node) /\ Len(d) = x
      /\ \A i \in 1 .. x : d[i] = IF i < k THEN c[i] ELSE IF i = k THEN x ELSE c[i - 1]
  <2>1. k \in 1 .. Len(c) + 1 /\ d = Into(c, k, x) /\ Len(c) + 1 = x
    BY <1>1, <1>2, <1>3
  <2> HIDE DEF d
  <2>2. /\ Into(c, k, x) \in Seq(Node)
        /\ Len(Into(c, k, x)) = Len(c) + 1
        /\ \A i \in 1 .. Len(c) + 1 :
              Into(c, k, x)[i] = IF i < k THEN c[i] ELSE IF i = k THEN x ELSE c[i - 1]
    <3>1. x \in Node
      BY <1>7
    <3>2. c \in Seq(Node) /\ k \in 1 .. Len(c) + 1
      BY <2>1, <1>3
    <3> QED BY ONLY <3>1, <3>2, IntoProperties
  <2> QED BY <2>1, <2>2
<1>9. \A i \in 1 .. x : d[i] = IF i < k THEN c[i] ELSE IF i = k THEN x ELSE c[i - 1]
  BY <1>8
<1> HIDE DEF d
\* The place i of d is the place f of c, except k.
<1>10. ASSUME NEW i \in 1 .. x, i # k
       PROVE  \E f \in 1 .. n : f = (IF i < k THEN i ELSE i - 1) /\ d[i] = c[f]
  <2>1. CASE i < k
    <3>1. i \in 1 .. n
      BY <2>1, <1>1, <1>2
    <3> QED BY <3>1, <2>1, <1>9
  <2>2. CASE i > k
    <3>1. i - 1 \in 1 .. n /\ ~ (i < k)
      BY <2>2, <1>1, <1>2
    <3> QED BY <3>1, <1>9, <1>10
  <2> QED BY <2>1, <2>2, <1>10, <1>1
<1>11. d[k] = x /\ k \in 1 .. x
  BY <1>1, <1>2, <1>9
<1>12. \A i \in 1 .. x : d[i] \in 1 .. x /\ d[i] \in Node
  <2>1. SUFFICES ASSUME NEW i \in 1 .. x PROVE d[i] \in 1 .. x /\ d[i] \in Node
    OBVIOUS
  <2>2. CASE i = k
    BY <2>2, <1>11, <1>7, <1>2, <1>1
  <2>3. CASE i # k
    <3>1. PICK f \in 1 .. n : d[i] = c[f]
      BY <2>3, <1>10
    <3>2. c[f] \in 1 .. n /\ 1 .. n \subseteq 1 .. x
      BY <1>4, <1>2, <1>1
    <3> QED BY <3>1, <3>2, <1>7
  <2> QED BY <2>2, <2>3
<1>13. \A i, j \in 1 .. x : d[i] = d[j] => i = j
  <2> SUFFICES ASSUME NEW i \in 1 .. x, NEW j \in 1 .. x, d[i] = d[j] PROVE i = j
    OBVIOUS
  <2>1. \A l \in 1 .. x : l # k => d[l] # x
    BY <1>10, <1>7
  <2>2. CASE i = k \/ j = k
    BY <2>1, <2>2, <1>11
  <2>3. CASE i # k /\ j # k
    <3>1. PICK f \in 1 .. n : f = (IF i < k THEN i ELSE i - 1) /\ d[i] = c[f]
      BY <2>3, <1>10
    <3>2. PICK g \in 1 .. n : g = (IF j < k THEN j ELSE j - 1) /\ d[j] = c[g]
      BY <2>3, <1>10
    <3>3. f = g
      <4>1. c[f] = c[g]
        BY <3>1, <3>2
      <4> QED BY <4>1, <1>5
    <3> QED BY <3>1, <3>2, <3>3, <2>3, <1>1, <1>2
  <2> QED BY <2>2, <2>3
<1>14. \A m \in 1 .. x : \E i \in 1 .. x : d[i] = m
  <2> SUFFICES ASSUME NEW m \in 1 .. x PROVE \E i \in 1 .. x : d[i] = m
    OBVIOUS
  <2>1. CASE m = x
    BY <2>1, <1>11
  <2>2. CASE m # x
    <3>1. m \in 1 .. n
      BY <2>2, <1>1, <1>2
    <3>2. PICK i \in 1 .. n : c[i] = m
      BY <3>1, <1>6
    <3>3. CASE i < k
      <4>1. i \in 1 .. x
        BY <1>1, <1>2
      <4> QED BY <4>1, <3>2, <3>3, <1>9
    <3>4. CASE i >= k
      <4>1. i + 1 \in 1 .. x /\ ~ (i + 1 < k) /\ i + 1 # k /\ i + 1 - 1 = i
        BY <3>4, <1>1, <1>2
      <4>2. d[i + 1] = c[i + 1 - 1]
        BY <4>1, <1>9
      <4> QED BY <4>1, <4>2, <3>2
    <3> QED BY <3>3, <3>4, <1>1
  <2> QED BY <2>1, <2>2
<1>15. e1 = IF x = 0 THEN NULL ELSE d[1]
  <2>1. 1 \in 1 .. x /\ x # 0
    BY <1>1, <1>2
  <2>2. CASE k = 1
    BY <2>1, <2>2, <1>2, <1>11
  <2>3. CASE k # 1
    <3>1. 1 < k /\ n # 0
      BY <2>3, <1>1
    <3>2. d[1] = c[1]
      BY <3>1, <2>1, <1>9
    <3>3. e = c[1]
      BY <3>1 DEF Linked
    <3> QED BY <3>2, <3>3, <2>1, <2>3
  <2> QED BY <2>2, <2>3
<1>16. ASSUME NEW i \in 1 .. x PROVE nx1[d[i]] = IF i = x THEN NULL ELSE d[i + 1]
  <2>0. i # x => i + 1 \in 1 .. x
    BY <1>1, <1>2
  <2>1. CASE i = k
    <3>1. nx1[d[i]] = IF k = x THEN NULL ELSE c[k]
      BY <2>1, <1>2, <1>7, <1>11
    <3>2. i # x => d[i + 1] = c[i + 1 - 1] /\ i + 1 - 1 = k
      BY <2>0, <2>1, <1>1, <1>9
    <3> QED BY <3>1, <3>2, <2>1
  <2>2. CASE i # k
    <3>1. PICK f \in 1 .. n : f = (IF i < k THEN i ELSE i - 1) /\ d[i] = c[f]
      BY <2>2, <1>10
    <3>2. nx1[d[i]] = IF k > 1 /\ c[f] = c[k - 1] THEN x ELSE nx[c[f]]
      BY <3>1, <1>2, <1>7
    <3>3. nx[c[f]] = IF f = n THEN NULL ELSE c[f + 1]
      BY DEF Linked
    <3>4. (k > 1 /\ c[f] = c[k - 1]) <=> f = k - 1
      <4>1. k > 1 => k - 1 \in 1 .. n
        BY <1>1
      <4>2. f = k - 1 => k > 1
        BY <1>1
      <4> QED BY <4>1, <4>2, <1>5
    <3>5. CASE f = k - 1
      <4>1. i + 1 = k /\ i # x
        BY <3>1, <3>5, <2>2, <1>1, <1>2
      <4> QED BY <4>1, <3>2, <3>4, <3>5, <1>11
    <3>6. CASE f # k - 1 /\ i < k
      <4>1. i # x /\ i + 1 < k /\ f + 1 = i + 1 /\ f # n
        BY <3>1, <3>6, <1>1, <1>2
      <4>2. d[i + 1] = c[f + 1]
        BY <4>1, <2>0, <1>9
      <4> QED BY <4>1, <4>2, <3>2, <3>3, <3>4, <3>6
    <3>7. CASE f # k - 1 /\ i > k
      <4>1. ~ (i + 1 < k) /\ i + 1 # k /\ (f = n <=> i = x) /\ f + 1 = i + 1 - 1
        BY <3>1, <3>7, <1>1, <1>2
      <4>2. i # x => d[i + 1] = c[f + 1]
        BY <4>1, <2>0, <1>9
      <4> QED BY <4>1, <4>2, <3>2, <3>3, <3>4, <3>7
    <3> QED BY <3>5, <3>6, <3>7, <2>2, <1>1
  <2> QED BY <2>1, <2>2
<1>17. ASSUME NEW i \in 1 .. x PROVE pv1[d[i]] = IF i = 1 THEN NULL ELSE d[i - 1]
  <2>0. i # 1 => i - 1 \in 1 .. x
    BY <1>1, <1>2
  <2>1. CASE i = k
    <3>1. pv1[d[i]] = IF k = 1 THEN NULL ELSE c[k - 1]
      BY <2>1, <1>2, <1>7, <1>11
    <3>2. i # 1 => d[i - 1] = c[i - 1]
      BY <2>0, <2>1, <1>1, <1>9
    <3> QED BY <3>1, <3>2, <2>1
  <2>2. CASE i # k
    <3>1. PICK f \in 1 .. n : f = (IF i < k THEN i ELSE i - 1) /\ d[i] = c[f]
      BY <2>2, <1>10
    <3>2. pv1[d[i]] = IF k < n + 1 /\ c[f] = c[k] THEN x ELSE pv[c[f]]
      BY <3>1, <1>2, <1>7
    <3>3. pv[c[f]] = IF f = 1 THEN NULL ELSE c[f - 1]
      BY DEF Linked
    <3>4. (k < n + 1 /\ c[f] = c[k]) <=> f = k
      <4>1. k < n + 1 => k \in 1 .. n
        BY <1>1
      <4>2. f = k => k < n + 1
        BY <1>1
      <4> QED BY <4>1, <4>2, <1>5
    <3>5. CASE f = k
      <4>1. i - 1 = k /\ i # 1
        BY <3>1, <3>5, <2>2, <1>1, <1>2
      <4> QED BY <4>1, <3>2, <3>4, <3>5, <1>11
    <3>6. CASE f # k /\ i < k
      <4>1. (i = 1 <=> f = 1) /\ i - 1 < k /\ f - 1 = i - 1
        BY <3>1, <3>6, <1>1, <1>2
      <4>2. i # 1 => d[i - 1] = c[f - 1]
        BY <4>1, <2>0, <1>9
      <4> QED BY <4>1, <4>2, <3>2, <3>3, <3>4, <3>6
    <3>7. CASE f # k /\ i > k
      <4>1. ~ (i - 1 < k) /\ i - 1 # k /\ i # 1 /\ f # 1 /\ f - 1 = i - 1 - 1
        BY <3>1, <3>7, <1>1, <1>2
      <4>2. d[i - 1] = c[f - 1]
        BY <4>1, <2>0, <1>9
      <4> QED BY <4>1, <4>2, <3>2, <3>3, <3>4, <3>7
    <3> QED BY <3>5, <3>6, <3>7, <2>2, <1>1
  <2> QED BY <2>1, <2>2
<1>18. ASSUME NEW m \in Node, m > x PROVE nx1[m] = NULL /\ pv1[m] = NULL
  <2>1. m > n /\ m # n + 1 /\ m \notin 1 .. n
    BY <1>18, <1>1, <1>2, NodeFacts
  <2>2. (k > 1 => m # c[k - 1]) /\ (k < n + 1 => m # c[k])
    <3>1. (k > 1 => k - 1 \in 1 .. n) /\ (k < n + 1 => k \in 1 .. n)
      BY <1>1
    <3> QED BY <3>1, <2>1, <1>4
  <2>3. nx[m] = NULL /\ pv[m] = NULL
    BY <2>1 DEF Linked
  <2>4. nx1[m] = nx[m] /\ pv1[m] = pv[m]
    BY <2>1, <2>2
  <2> QED BY <2>3, <2>4
<1>19. Linked(d, x, e1, nx1, pv1)
  BY <1>8, <1>12, <1>13, <1>14, <1>15, <1>16, <1>17, <1>18, Zenon DEF Linked
<1> QED BY <1>2, <1>19 DEF d
-----------------------------------------------------------------------------
(* The invariant                                                            *)

\* The pointers are those of Chain, and the selection is in it.
Linking == Linked(Chain, used, entries, next, prev)
IInv == TypeOK /\ Linking /\ IndexInv

\* What is linked in the order c is the Chain.
LEMMA ChainLinked ==
    ASSUME next \in [Node -> Ptr], used \in 0 .. MaxEntries, NEW c,
           Linked(c, used, entries, next, prev)
    PROVE  Chain = c /\ Linking
<1>1. Chain = c
  BY ChainIs, Zenon DEF Chain
<1> QED BY <1>1 DEF Linking

\* The same of the next state.
LEMMA ChainLinkedNext ==
    ASSUME next' \in [Node -> Ptr], used' \in 0 .. MaxEntries, NEW c,
           Linked(c, used', entries', next', prev')
    PROVE  Chain' = c /\ Linking'
<1>1. Chain' = c
  BY ChainIs, Zenon DEF Chain
<1> QED BY <1>1 DEF Linking

\* What the other lemmas use of a linked Chain.
LEMMA ChainFacts ==
    ASSUME TypeOK, Linking
    PROVE  /\ used \in Nat /\ used <= MaxEntries /\ Chain \in Seq(Node) /\ Len(Chain) = used
           /\ DOMAIN Chain = 1 .. used
           /\ \A i \in 1 .. used : Chain[i] \in Node /\ Chain[i] \in 1 .. used /\ Chain[i] # NULL
           /\ \A i \in 1 .. used : next[Chain[i]] = IF i = used THEN NULL ELSE Chain[i + 1]
           /\ \A i \in 1 .. used : prev[Chain[i]] = IF i = 1 THEN NULL ELSE Chain[i - 1]
           /\ \A i \in 1 .. used :
                 (next[Chain[i]] = NULL <=> i = used) /\ (prev[Chain[i]] = NULL <=> i = 1)
           /\ entries = IF used = 0 THEN NULL ELSE Chain[1]
<1>1. used \in 0 .. MaxEntries
  BY DEF TypeOK
<1>2. Linked(Chain, used, entries, next, prev)
  BY DEF Linking
<1> QED BY ONLY <1>1, <1>2, LinkedFacts

\* add_before puts the cell in front of the one that stands at k.
LEMMA BeforeLinks ==
    ASSUME TypeOK, Linking, used < MaxEntries, NEW k \in 1 .. used,
           add_before(used + 1, Chain[k])
    PROVE  /\ Linked(Into(Chain, k, used + 1), used + 1, entries', next', prev')
           /\ next' \in [Node -> Ptr] /\ prev' \in [Node -> Ptr]
<1> DEFINE n == used
           x == n + 1
           c == Chain
<1>1. n \in Nat /\ n <= MaxEntries /\ Node = 1 .. MaxEntries /\ x \in Node /\ x > n
      /\ Ptr = Node \cup {0} /\ NULL = 0 /\ NULL \notin Node
  BY ChainFacts, NodeFacts DEF Node, Ptr
<1>2. \A i \in 1 .. n : c[i] \in Node /\ c[i] \in 1 .. n
  BY ChainFacts
<1>3. prev[c[k]] = IF k = 1 THEN NULL ELSE c[k - 1]
  BY ChainFacts
<1>4. k > 1 => k - 1 \in 1 .. n /\ c[k - 1] \in Node /\ c[k - 1] # NULL /\ c[k - 1] # x
  <2>1. k > 1 => k - 1 \in 1 .. n
    BY <1>1
  <2> QED BY <2>1, <1>1, <1>2
<1>5. c[k] \in Node /\ c[k] # x
  BY <1>1, <1>2
<1>6. next[x] = NULL /\ prev[x] = NULL
  BY <1>1 DEF Linking, Linked
<1>7. (k = 1 \/ k > 1) /\ ~ (k = 1 /\ k > 1) /\ k < n + 1 /\ k # n + 1 /\ k \in 1 .. n + 1
  BY <1>1
<1> HIDE DEF n, x, c
<1>8. /\ next \in [Node -> Ptr] /\ prev \in [Node -> Ptr]
      /\ prev' = [prev EXCEPT ![x] = prev[c[k]], ![c[k]] = x]
      /\ next' = IF prev[c[k]] # NULL
                 THEN [next EXCEPT ![x] = c[k], ![prev[c[k]]] = x]
                 ELSE [next EXCEPT ![x] = c[k]]
      /\ entries' = IF prev[c[k]] = NULL THEN x ELSE entries
  BY DEF add_before, TypeOK, n, x, c
<1>9. entries' = IF k = 1 THEN x ELSE entries
  BY <1>8, <1>3, <1>4, <1>7
<1>10. \A m \in Node : next'[m] = IF m = x THEN c[k]
                               ELSE IF k > 1 /\ m = c[k - 1] THEN x ELSE next[m]
  <2>1. CASE k = 1
    <3>1. next' = [next EXCEPT ![x] = c[k]]
      BY <2>1, <1>8, <1>3
    <3> QED BY <3>1, <2>1, <1>1, <1>7, <1>8
  <2>2. CASE k > 1
    <3>1. next' = [next EXCEPT ![x] = c[k], ![c[k - 1]] = x]
      BY <2>2, <1>8, <1>3, <1>4, <1>7
    <3> QED BY <3>1, <2>2, <1>1, <1>4, <1>8
  <2> QED BY <2>1, <2>2, <1>7
<1>11. \A m \in Node : prev'[m] = IF m = x THEN IF k = 1 THEN NULL ELSE c[k - 1]
                               ELSE IF m = c[k] THEN x ELSE prev[m]
  BY <1>8, <1>3, <1>5, <1>1
<1>12. next' \in [Node -> Ptr] /\ prev' \in [Node -> Ptr]
  <2>1. x \in Ptr /\ c[k] \in Ptr /\ prev[c[k]] \in Ptr
    BY <1>1, <1>5, <1>8
  <2> QED BY <2>1, <1>8
<1>13. Linked(Into(c, k, x), x, entries', next', prev')
  <2>1. used \in 0 .. MaxEntries /\ k \in 1 .. used + 1 /\ x = used + 1 /\ k # used + 1 /\ k < used + 1
    BY <1>1, <1>7 DEF n, x
  <2>2. Linked(c, used, entries, next, prev)
    BY DEF Linking, c
  <2>3. \A m \in Node : next'[m] =
              IF m = used + 1 THEN IF k = used + 1 THEN NULL ELSE c[k]
              ELSE IF k > 1 /\ m = c[k - 1] THEN used + 1 ELSE next[m]
    BY <1>10, <2>1
  <2>4. \A m \in Node : prev'[m] =
              IF m = used + 1 THEN IF k = 1 THEN NULL ELSE c[k - 1]
              ELSE IF k < used + 1 /\ m = c[k] THEN used + 1 ELSE prev[m]
    BY <1>11, <2>1
  <2>5. entries' = IF k = 1 THEN used + 1 ELSE entries
    BY <1>9, <2>1
  <2>6. Linked(Into(c, k, used + 1), used + 1, entries', next', prev')
    BY <2>1, <2>2, <2>3, <2>4, <2>5, LinkedInto
  <2> QED BY <2>6, <2>1
<1> QED BY <1>12, <1>13 DEF c, x, n

\* add_after puts it after the last one.
LEMMA AfterLinks ==
    ASSUME TypeOK, Linking, used < MaxEntries, used > 0,
           add_after(used + 1, Chain[used])
    PROVE  /\ Linked(Into(Chain, used + 1, used + 1), used + 1, entries', next', prev')
           /\ next' \in [Node -> Ptr] /\ prev' \in [Node -> Ptr]
<1> DEFINE n == used
           x == n + 1
           c == Chain
<1>1. n \in Nat /\ n <= MaxEntries /\ Node = 1 .. MaxEntries /\ x \in Node /\ x > n
      /\ Ptr = Node \cup {0} /\ NULL = 0 /\ NULL \notin Node /\ n \in 1 .. n
      /\ x # 1 /\ x - 1 = n /\ x > 1 /\ ~ (x < x) /\ n \in 0 .. MaxEntries
  BY ChainFacts, NodeFacts DEF Node, Ptr
<1>2. c[n] \in Node /\ c[n] \in 1 .. n
  BY ChainFacts, <1>1
<1>3. c[n] # x
  BY <1>1, <1>2
<1>4. next[x] = NULL /\ prev[x] = NULL
  BY <1>1 DEF Linking, Linked
<1>5. Linked(c, n, entries, next, prev)
  BY DEF Linking
<1> HIDE DEF c
<1>6. /\ next \in [Node -> Ptr] /\ prev \in [Node -> Ptr]
      /\ prev' = [prev EXCEPT ![x] = c[n]]
      /\ next' = [next EXCEPT ![c[n]] = x]
      /\ entries' = entries
  BY DEF add_after, TypeOK, c
<1> HIDE DEF n
<1>7. \A m \in Node : next'[m] =
          IF m = x THEN IF x = x THEN NULL ELSE c[x]
          ELSE IF x > 1 /\ m = c[x - 1] THEN x ELSE next[m]
  BY <1>1, <1>2, <1>3, <1>4, <1>6
<1>8. \A m \in Node : prev'[m] =
          IF m = x THEN IF x = 1 THEN NULL ELSE c[x - 1]
          ELSE IF x < x /\ m = c[x] THEN x ELSE prev[m]
  BY <1>1, <1>2, <1>3, <1>4, <1>6
<1>9. next' \in [Node -> Ptr] /\ prev' \in [Node -> Ptr]
  <2>1. x \in Ptr /\ c[n] \in Ptr
    BY <1>1, <1>2
  <2> QED BY <2>1, <1>6
<1>10. Linked(Into(c, n + 1, n + 1), n + 1, entries', next', prev')
  <2>1. n < MaxEntries /\ n + 1 \in 1 .. n + 1
    BY <1>1 DEF n
  <2>2. entries' = IF n + 1 = 1 THEN n + 1 ELSE entries
    BY <1>1, <1>6
  <2> QED BY <1>1, <1>5, <1>7, <1>8, <2>1, <2>2, LinkedInto
<1> QED BY <1>9, <1>10 DEF c, n
\* A walk along the Chain that begins at its place b.
LEMMA ChainWalk ==
    ASSUME TypeOK, Linking, NEW On, NEW b \in 1 .. used
    PROVE  \E j \in b .. used : /\ Walk(Chain[b], On) = Chain[j]
                                /\ j = used \/ Chain[j] \notin On
                                /\ \A k \in b .. j - 1 : Chain[k] \in On
<1>1. used \in 0 .. MaxEntries /\ next \in [Node -> Ptr]
  BY DEF TypeOK
<1>2. Linked(Chain, used, entries, next, prev)
  BY DEF Linking
<1> DEFINE c == Chain
<1>3. Linked(c, used, entries, next, prev) /\ Walk(c[b], On) = Along(next, c[b], On)
  BY <1>2 DEF Walk, Along
<1> HIDE DEF c
<1>4. \E j \in b .. used : /\ Along(next, c[b], On) = c[j]
                           /\ j = used \/ c[j] \notin On
                           /\ \A k \in b .. j - 1 : c[k] \in On
  BY <1>1, <1>3, WalkStops
<1> QED BY <1>3, <1>4 DEF c

\* Where a directory goes: behind the directories of smaller names.  A file: behind the
\* directories and the files of smaller names; anywhere, if it is the first file.
DirPlace(k, fn) ==
    /\ \A i \in 1 .. k - 1 : dir[Chain[i]] /\ name[Chain[i]] < fn
    /\ k <= used => ~ (dir[Chain[k]] /\ name[Chain[k]] < fn)
FilePlace(k, fn) ==
    \/ \A i \in 1 .. used : dir[Chain[i]]
    \/ \E j \in 1 .. used :
          /\ j <= k /\ ~ dir[Chain[j]]
          /\ \A i \in 1 .. j - 1 : dir[Chain[i]]
          /\ \A i \in j .. k - 1 : name[Chain[i]] < fn
          /\ k <= used => name[Chain[k]] > fn

\* fm_panel_add of a directory links it in before the first cell that is a file or has no
\* lesser name, or last.
LEMMA DirLinks ==
    ASSUME TypeOK, Linking, used < MaxEntries, used > 0, NEW fn, AddDir(used + 1, fn)
    PROVE  \E k \in 1 .. used + 1 :
              /\ Linked(Into(Chain, k, used + 1), used + 1, entries', next', prev')
              /\ next' \in [Node -> Ptr] /\ prev' \in [Node -> Ptr]
              /\ DirPlace(k, fn)
<1> DEFINE On == {n \in Node : dir[n] /\ name[n] < fn}
           m == Walk(entries, On)
<1> HIDE DEF On, m
<1>1. used \in Nat /\ 1 \in 1 .. used /\ entries = Chain[1]
  BY ChainFacts
<1>2. \A i \in 1 .. used : Chain[i] \in On <=> (dir[Chain[i]] /\ name[Chain[i]] < fn)
  BY ChainFacts DEF On
<1>3. IF next[m] = NULL /\ dir[m] /\ name[m] < fn
      THEN add_after(used + 1, m) ELSE add_before(used + 1, m)
  BY DEF AddDir, m, On
<1>0. PICK j \in 1 .. used : /\ m = Chain[j]
                             /\ j = used \/ Chain[j] \notin On
                             /\ \A k \in 1 .. j - 1 : Chain[k] \in On
  BY <1>1, ChainWalk DEF m
<1>4. \A i \in 1 .. j - 1 : dir[Chain[i]] /\ name[Chain[i]] < fn
  <2>1. \A i \in 1 .. j - 1 : i \in 1 .. used
    BY <1>1
  <2> QED BY <2>1, <1>2, <1>0
<1>5. IF j = used /\ Chain[j] \in On
      THEN add_after(used + 1, Chain[j]) ELSE add_before(used + 1, Chain[j])
  <2>1. next[Chain[j]] = NULL <=> j = used
    BY ChainFacts
  <2> QED BY <2>1, <1>2, <1>3, <1>0
<1>6. CASE j = used /\ Chain[j] \in On
  <2>1. /\ Linked(Into(Chain, used + 1, used + 1), used + 1, entries', next', prev')
        /\ next' \in [Node -> Ptr] /\ prev' \in [Node -> Ptr]
    BY <1>5, <1>6, AfterLinks
  <2>2. DirPlace(used + 1, fn)
    <3>1. \A i \in 1 .. used + 1 - 1 : i \in 1 .. used /\ (i = j \/ i \in 1 .. j - 1)
      BY <1>1, <1>6
    <3>2. ~ (used + 1 <= used)
      BY <1>1
    <3> QED BY <3>1, <3>2, <1>2, <1>4, <1>6 DEF DirPlace
  <2>3. used + 1 \in 1 .. used + 1
    BY <1>1
  <2> QED BY <2>1, <2>2, <2>3
<1>7. CASE ~ (j = used /\ Chain[j] \in On)
  <2>1. /\ Linked(Into(Chain, j, used + 1), used + 1, entries', next', prev')
        /\ next' \in [Node -> Ptr] /\ prev' \in [Node -> Ptr]
    BY <1>5, <1>7, BeforeLinks
  <2>2. DirPlace(j, fn)
    BY <1>2, <1>0, <1>4, <1>7 DEF DirPlace
  <2>3. j \in 1 .. used + 1
    BY <1>1
  <2> QED BY <2>1, <2>2, <2>3
<1> QED BY <1>6, <1>7

\* fm_panel_add of a file links it in behind the directories.
LEMMA FileLinks ==
    ASSUME TypeOK, Linking, used < MaxEntries, used > 0, NEW fn \in 1 .. MaxName,
           Fresh(fn, FALSE), AddFile(used + 1, fn)
    PROVE  \E k \in 1 .. used + 1 :
              /\ Linked(Into(Chain, k, used + 1), used + 1, entries', next', prev')
              /\ next' \in [Node -> Ptr] /\ prev' \in [Node -> Ptr]
              /\ FilePlace(k, fn)
<1> DEFINE Dirs == {n \in Node : dir[n]}
           On == {n \in Node : name[n] < fn}
           afterDirs == Walk(entries, Dirs)
           m == IF ~ dir[afterDirs] THEN Walk(afterDirs, On) ELSE afterDirs
<1> HIDE DEF Dirs, On, m, afterDirs
<1>1. used \in Nat /\ 1 \in 1 .. used /\ entries = Chain[1]
  BY ChainFacts
<1>2. /\ \A i \in 1 .. used : Chain[i] \in On <=> name[Chain[i]] < fn
      /\ \A i \in 1 .. used : Chain[i] \in Dirs <=> dir[Chain[i]]
  BY ChainFacts DEF On, Dirs
<1>6. IF name[m] > fn THEN add_before(used + 1, m) ELSE add_after(used + 1, m)
  BY DEF AddFile, m, afterDirs, On, Dirs
<1>3. PICK j \in 1 .. used : /\ afterDirs = Chain[j]
                             /\ j = used \/ Chain[j] \notin Dirs
                             /\ \A k \in 1 .. j - 1 : Chain[k] \in Dirs
  BY <1>1, ChainWalk DEF afterDirs
<1>4. \A i \in 1 .. j - 1 : dir[Chain[i]]
  <2>1. \A i \in 1 .. j - 1 : i \in 1 .. used
    BY <1>1
  <2> QED BY <2>1, <1>2, <1>3
<1>5. \A i \in 1 .. used : name[Chain[i]] \in Nat /\ name[Chain[i]] # fn
  <2>1. \A i \in 1 .. used : Chain[i] \in Cells /\ Chain[i] \in Node
    BY ChainFacts DEF Cells
  <2> QED BY <2>1 DEF Fresh, TypeOK
<1>7. CASE ~ dir[Chain[j]]
  <2>1. PICK k \in j .. used : /\ Walk(Chain[j], On) = Chain[k]
                               /\ k = used \/ Chain[k] \notin On
                               /\ \A i \in j .. k - 1 : Chain[i] \in On
    BY ChainWalk
  <2>2. m = Chain[k]
    BY <2>1, <1>3, <1>7 DEF m
  <2>3. k \in 1 .. used
    BY <1>1
  <2>4. \A i \in j .. k - 1 : name[Chain[i]] < fn
    <3>1. \A i \in j .. k - 1 : i \in 1 .. used
      BY <1>1
    <3> QED BY <3>1, <2>1, <1>2
  <2>5. CASE name[Chain[k]] > fn
    <3>1. /\ Linked(Into(Chain, k, used + 1), used + 1, entries', next', prev')
          /\ next' \in [Node -> Ptr] /\ prev' \in [Node -> Ptr]
      BY <2>2, <2>3, <2>5, <1>6, BeforeLinks
    <3>2. FilePlace(k, fn)
      BY <2>4, <2>5, <1>4, <1>7 DEF FilePlace
    <3>3. k \in 1 .. used + 1
      BY <1>1
    <3> QED BY <3>1, <3>2, <3>3
  <2>6. CASE ~ (name[Chain[k]] > fn)
    <3>1. name[Chain[k]] < fn /\ Chain[k] \in On
      BY <2>3, <2>6, <1>2, <1>5
    <3>2. k = used
      BY <3>1, <2>1
    <3>3. add_after(used + 1, Chain[used])
      BY <3>2, <2>2, <2>6, <1>6
    <3>4. /\ Linked(Into(Chain, used + 1, used + 1), used + 1, entries', next', prev')
          /\ next' \in [Node -> Ptr] /\ prev' \in [Node -> Ptr]
      BY <3>3, AfterLinks
    <3>5. FilePlace(used + 1, fn)
      <4> DEFINE k1 == used + 1
      <4>1. \A i \in j .. k1 - 1 : i = k \/ i \in j .. k - 1
        BY <3>2, <1>1
      <4>2. \A i \in j .. k1 - 1 : name[Chain[i]] < fn
        BY <4>1, <3>1, <2>4
      <4>3. ~ (k1 <= used) /\ j <= k1
        BY <1>1
      <4> HIDE DEF k1
      <4>4. FilePlace(k1, fn)
        BY <4>2, <4>3, <1>4, <1>7 DEF FilePlace
      <4> QED BY <4>4 DEF k1
    <3>6. used + 1 \in 1 .. used + 1
      BY <1>1
    <3> QED BY <3>4, <3>5, <3>6
  <2> QED BY <2>5, <2>6
<1>8. CASE dir[Chain[j]]
  <2>1. j = used /\ m = Chain[used]
    BY <1>2, <1>3, <1>8 DEF m
  <2>2. \A i \in 1 .. used : dir[Chain[i]]
    <3>1. \A i \in 1 .. used : i = j \/ i \in 1 .. j - 1
      BY <2>1, <1>1
    <3> QED BY <3>1, <1>4, <1>8
  <2>3. used \in 1 .. used /\ used \in 1 .. used + 1 /\ used + 1 \in 1 .. used + 1
    BY <1>1
  <2>4. FilePlace(used, fn) /\ FilePlace(used + 1, fn)
    BY <2>2 DEF FilePlace
  <2>5. CASE name[m] > fn
    <3>1. /\ Linked(Into(Chain, used, used + 1), used + 1, entries', next', prev')
          /\ next' \in [Node -> Ptr] /\ prev' \in [Node -> Ptr]
      BY <2>1, <2>3, <2>5, <1>6, BeforeLinks
    <3> QED BY <3>1, <2>3, <2>4
  <2>6. CASE ~ (name[m] > fn)
    <3>1. /\ Linked(Into(Chain, used + 1, used + 1), used + 1, entries', next', prev')
          /\ next' \in [Node -> Ptr] /\ prev' \in [Node -> Ptr]
      BY <2>1, <2>6, <1>6, AfterLinks
    <3> QED BY <3>1, <2>3, <2>4
  <2> QED BY <2>5, <2>6
<1> QED BY <1>7, <1>8
\* Where fm_panel_add puts an entry.
Place(k, fn, d) == IF d THEN DirPlace(k, fn) ELSE FilePlace(k, fn)

\* fm_panel_add puts the new cell somewhere into the list and changes nothing else of it.
LEMMA AddLinks ==
    ASSUME TypeOK, Linking, NEW fn \in 1 .. MaxName, NEW d \in BOOLEAN, fm_panel_add(fn, d)
    PROVE  /\ next' \in [Node -> Ptr] /\ prev' \in [Node -> Ptr] /\ Linking'
           /\ \E k \in 1 .. used + 1 : Chain' = Into(Chain, k, used + 1) /\ Place(k, fn, d)
<1>1. /\ used' = used + 1 /\ used \in Nat /\ used < MaxEntries /\ used' \in 0 .. MaxEntries
      /\ Fresh(fn, d)
      /\ entries = NULL => entries' = used + 1 /\ prev' = prev /\ next' = next
      /\ entries # NULL /\ d => AddDir(used + 1, fn)
      /\ entries # NULL /\ ~ d => AddFile(used + 1, fn)
  <2>1. used \in Nat /\ used' = used + 1 /\ used < MaxEntries /\ Fresh(fn, d)
    BY ChainFacts DEF fm_panel_add
  <2>2. used' \in 0 .. MaxEntries
    BY <2>1, NodeFacts
  <2>3. CASE entries = NULL
    BY <2>1, <2>2, <2>3 DEF fm_panel_add
  <2>4. CASE entries # NULL /\ d = TRUE
    BY <2>1, <2>2, <2>4 DEF fm_panel_add
  <2>5. CASE entries # NULL /\ d = FALSE
    BY <2>1, <2>2, <2>5 DEF fm_panel_add
  <2> QED BY <2>3, <2>4, <2>5
<1>2. entries = NULL <=> used = 0
  <2>1. used # 0 => 1 \in 1 .. used
    BY <1>1
  <2> QED BY <2>1, ChainFacts
<1>3. PICK k \in 1 .. used + 1 :
          /\ Linked(Into(Chain, k, used + 1), used + 1, entries', next', prev')
          /\ next' \in [Node -> Ptr] /\ prev' \in [Node -> Ptr]
          /\ Place(k, fn, d)
  <2>1. CASE used = 0
    <3>1. entries' = used + 1 /\ prev' = prev /\ next' = next
      BY <2>1, <1>1, <1>2
    <3>2. next \in [Node -> Ptr] /\ prev \in [Node -> Ptr] /\ 1 \in 1 .. used + 1
      BY <2>1 DEF TypeOK
    <3>3. \A m \in Node : next[m] = NULL /\ prev[m] = NULL
      <4>1. \A m \in Node : m > used
        BY <2>1 DEF Node
      <4> QED BY <4>1 DEF Linking, Linked
    <3>4. Place(1, fn, d)
      BY <2>1 DEF Place, DirPlace, FilePlace
    <3>5. Linked(Into(Chain, 1, used + 1), used + 1, entries', next', prev')
      <4> DEFINE c == Chain
      <4>1. Linked(c, used, entries, next, prev)
        BY DEF Linking
      <4> HIDE DEF c
      <4>2. \A m \in Node : next'[m] =
              IF m = used + 1 THEN IF 1 = used + 1 THEN NULL ELSE c[1]
              ELSE IF 1 > 1 /\ m = c[1 - 1] THEN used + 1 ELSE next[m]
        BY <2>1, <3>1, <3>3
      <4>3. \A m \in Node : prev'[m] =
              IF m = used + 1 THEN IF 1 = 1 THEN NULL ELSE c[1 - 1]
              ELSE IF 1 < used + 1 /\ m = c[1] THEN used + 1 ELSE prev[m]
        BY <2>1, <3>1, <3>3
      <4>4. entries' = IF 1 = 1 THEN used + 1 ELSE entries
        BY <3>1
      <4>5. used \in 0 .. MaxEntries
        BY DEF TypeOK
      <4>6. Linked(Into(c, 1, used + 1), used + 1, entries', next', prev')
        BY <1>1, <3>2, <4>1, <4>2, <4>3, <4>4, <4>5, LinkedInto
      <4> QED BY <4>6 DEF c
    <3> QED BY <3>1, <3>2, <3>4, <3>5
  <2>2. CASE used > 0 /\ d
    <3>1. AddDir(used + 1, fn)
      <4>1. d = TRUE /\ entries # NULL
        BY <2>2, <1>2
      <4> QED BY <4>1, <1>1
    <3> QED BY <3>1, <2>2, <1>1, DirLinks DEF Place
  <2>3. CASE used > 0 /\ ~ d
    <3>1. AddFile(used + 1, fn) /\ Fresh(fn, FALSE)
      <4>1. d = FALSE /\ entries # NULL
        BY <2>3, <1>2
      <4> QED BY <4>1, <1>1
    <3> QED BY <3>1, <2>3, <1>1, FileLinks DEF Place
  <2> QED BY <2>1, <2>2, <2>3, <1>1
<1>4. Linked(Into(Chain, k, used + 1), used', entries', next', prev')
  BY <1>1, <1>3
<1>5. PICK c : c = Into(Chain, k, used + 1)
  OBVIOUS
<1>6. Chain' = c /\ Linking'
  <2>1. Linked(c, used', entries', next', prev')
    BY <1>4, <1>5
  <2> QED BY <2>1, <1>1, <1>3, ChainLinkedNext
<1> QED BY <1>3, <1>5, <1>6

\* The empty list.
LEMMA EmptyLinks ==
    ASSUME NEW nx, NEW pv, nx = [n \in Node |-> NULL], pv = [n \in Node |-> NULL]
    PROVE  Linked(<<>>, 0, NULL, nx, pv) /\ nx \in [Node -> Ptr] /\ pv \in [Node -> Ptr]
BY EmptySeq, NodeFacts DEF Linked, Ptr

LEMMA IInvInit == Init => IInv /\ Chain = <<>>
<1> SUFFICES ASSUME Init PROVE IInv /\ Chain = <<>>
  OBVIOUS
<1>1. Linked(<<>>, used, entries, next, prev) /\ next \in [Node -> Ptr] /\ prev \in [Node -> Ptr]
  BY EmptyLinks DEF Init
<1>2. Chain = <<>> /\ Linking
  BY <1>1, ChainLinked, NodeFacts DEF Init
<1>3. TypeOK
  <2>1. 1 \in 1 .. MaxName /\ -1 \in -1 .. MaxEntries - 1 /\ 0 \in 0 .. MaxEntries
        /\ 0 \in 0 .. SizeRange - 1
    BY NodeFacts, MaxNameAssumption, SizeAssumption
  <2>2. name \in [Node -> 1 .. MaxName] /\ dir \in [Node -> BOOLEAN]
    BY <2>1 DEF Init
  <2> QED BY <1>1, <2>1, <2>2 DEF Init, TypeOK, Ptr
<1>4. IndexInv
  BY DEF Init, IndexInv
<1> QED BY <1>2, <1>3, <1>4 DEF IInv

\* fm_panel_clear leaves the empty list.
LEMMA ClearStep ==
    ASSUME IInv, fm_panel_clear
    PROVE  IInv' /\ Chain' = <<>>
<1>1. Linked(<<>>, used', entries', next', prev')
      /\ next' \in [Node -> Ptr] /\ prev' \in [Node -> Ptr]
  BY EmptyLinks DEF fm_panel_clear
<1>2. Chain' = <<>> /\ Linking'
  BY <1>1, ChainLinkedNext, NodeFacts DEF fm_panel_clear
<1>3. TypeOK'
  BY <1>1, NodeFacts, MaxNameAssumption, SizeAssumption DEF fm_panel_clear, TypeOK, Ptr
<1>4. IndexInv'
  BY DEF fm_panel_clear, IndexInv
<1> QED BY <1>2, <1>3, <1>4 DEF IInv

\* fm_panel_add selects the head, number 0.
LEMMA AddStep ==
    ASSUME IInv, NEW fn \in 1 .. MaxName, NEW d \in BOOLEAN, fm_panel_add(fn, d)
    PROVE  IInv' /\ Chain'[1] = entries'
<1>1. TypeOK /\ Linking
  BY DEF IInv
<1>2. /\ next' \in [Node -> Ptr] /\ prev' \in [Node -> Ptr] /\ Linking'
  BY <1>1, AddLinks
<1>3. used \in Nat /\ used < MaxEntries /\ used' = used + 1 /\ used' \in 0 .. MaxEntries
      /\ used + 1 \in Node /\ used' > 0
  BY <1>1, ChainFacts, NodeFacts DEF fm_panel_add, Node
<1>4. entries' = Chain'[1] /\ entries' \in Node /\ 1 \in DOMAIN Chain'
  <2> DEFINE c == Chain'
  <2>1. Linked(c, used', entries', next', prev')
    BY <1>2 DEF Linking
  <2> HIDE DEF c
  <2>2. /\ entries' = IF used' = 0 THEN NULL ELSE c[1]
        /\ \A i \in 1 .. used' : c[i] \in Node
        /\ DOMAIN c = 1 .. used'
    BY <1>3, <2>1, LinkedFacts
  <2>3. 1 \in 1 .. used' /\ used' # 0
    BY <1>3
  <2> QED BY <2>2, <2>3 DEF c
<1>5. name' \in [Node -> 1 .. MaxName] /\ dir' \in [Node -> BOOLEAN]
  BY <1>1, <1>3 DEF fm_panel_add, TypeOK
<1>6. files' \in Nat /\ dirs' \in Nat /\ fsize' \in 0 .. SizeRange - 1
  <2>1. Counted(fn, d) /\ files \in Nat /\ dirs \in Nat /\ fsize \in 0 .. SizeRange - 1
    BY <1>1 DEF fm_panel_add, TypeOK
  <2>2. Size(fn, d) \in Nat /\ fsize + Size(fn, d) \in Nat /\ SizeRange \in Nat /\ SizeRange > 0
    BY <2>1, SizeAssumption DEF Size
  <2>3. \A a \in Nat : a % SizeRange \in 0 .. SizeRange - 1
    BY <2>2
  <2> QED BY <2>1, <2>2, <2>3 DEF Counted
<1>7. current' = entries' /\ current_idx' = 0 /\ scanning' \in BOOLEAN
  BY <1>1 DEF fm_panel_add, TypeOK
<1>8. TypeOK'
  <2>1. entries' \in Ptr /\ 0 \in -1 .. MaxEntries - 1
    BY <1>4, NodeFacts DEF Ptr
  <2> QED BY <2>1, <1>2, <1>3, <1>5, <1>6, <1>7 DEF TypeOK
<1>9. IndexInv'
  BY <1>3, <1>4, <1>7 DEF IndexInv
<1> QED BY <1>2, <1>4, <1>8, <1>9 DEF IInv

\* The steps that only move the selection.
LEMMA MoveStep ==
    ASSUME IInv, UNCHANGED <<fields, entries, totals, used>>, scanning' \in BOOLEAN,
           NEW i \in DOMAIN Chain, current' = Chain[i], current_idx' = i - 1
    PROVE  IInv' /\ Chain' = Chain
<1>1. TypeOK /\ Linking
  BY DEF IInv
<1>2. Chain' = Chain
  BY DEF Chain, fields
<1>3. Linking'
  BY <1>1, <1>2 DEF Linking, fields
<1>4. i \in 1 .. used /\ Chain[i] \in Ptr /\ i - 1 \in -1 .. MaxEntries - 1 /\ i - 1 + 1 = i
      /\ used # 0
  BY <1>1, ChainFacts, NodeFacts DEF Ptr
<1>5. TypeOK'
  BY <1>1, <1>4 DEF TypeOK, fields, totals
<1>6. IndexInv'
  BY <1>2, <1>4 DEF IndexInv
<1> QED BY <1>2, <1>3, <1>5, <1>6 DEF IInv

\* fm_panel_scroll follows a link: the number moves with the cell.
LEMMA ScrollStep ==
    ASSUME IInv, NEW dn \in BOOLEAN, fm_panel_scroll(dn)
    PROVE  /\ current_idx + 1 \in DOMAIN Chain
           /\ current_idx' + 1 \in DOMAIN Chain
           /\ current' = Chain[current_idx' + 1]
           /\ current_idx' \in {current_idx - 1, current_idx + 1}
<1>1. TypeOK /\ Linking /\ IndexInv /\ current # NULL
  BY DEF IInv, fm_panel_scroll
<1>2. PICK i \in DOMAIN Chain : i = current_idx + 1 /\ current = Chain[i]
  BY <1>1 DEF IndexInv
<1>3. i \in 1 .. used /\ used \in Nat /\ DOMAIN Chain = 1 .. used /\ current_idx = i - 1
  BY <1>1, <1>2, ChainFacts DEF TypeOK
<1>4. CASE dn
  <2>1. next[Chain[i]] # NULL /\ current' = next[Chain[i]] /\ current_idx' = current_idx + 1
    BY <1>2, <1>4 DEF fm_panel_scroll
  <2>2. i # used /\ current' = Chain[i + 1]
    BY <1>1, <1>3, <2>1, ChainFacts
  <2> QED BY <2>1, <2>2, <1>2, <1>3
<1>5. CASE ~ dn
  <2>1. prev[Chain[i]] # NULL /\ current' = prev[Chain[i]] /\ current_idx' = current_idx - 1
    BY <1>2, <1>5 DEF fm_panel_scroll
  <2>2. i # 1 /\ current' = Chain[i - 1]
    BY <1>1, <1>3, <2>1, ChainFacts
  <2>3. current_idx' + 1 = i - 1 /\ i - 1 \in 1 .. used
    BY <2>1, <2>2, <1>3
  <2> QED BY <2>1, <2>2, <2>3, <1>2, <1>3
<1> QED BY <1>4, <1>5
\* Locating an entry, or scrolling to one, selects a place of the Chain.
LEMMA SelectStep ==
    ASSUME IInv,
           \/ \E dn \in BOOLEAN : fm_panel_scroll(dn)
           \/ \E fn \in 1 .. MaxName : fm_panel_locate(fn)
    PROVE  IInv' /\ Chain' = Chain
<1>1. UNCHANGED <<fields, entries, totals, used>> /\ scanning' \in BOOLEAN
  BY DEF IInv, TypeOK, fm_panel_scroll, fm_panel_locate
<1>2. \E i \in DOMAIN Chain : current' = Chain[i] /\ current_idx' = i - 1
  <2>1. CASE \E dn \in BOOLEAN : fm_panel_scroll(dn)
    <3>1. current_idx' + 1 \in DOMAIN Chain /\ current' = Chain[current_idx' + 1]
          /\ current_idx' \in {current_idx - 1, current_idx + 1} /\ current_idx \in Int
      BY <2>1, ScrollStep DEF IInv, TypeOK
    <3>2. current_idx' = current_idx' + 1 - 1
      <4>1. current_idx \in Int /\ (current_idx' = current_idx - 1 \/ current_idx' = current_idx + 1)
        BY <3>1
      <4> QED BY <4>1
    <3> QED BY <3>1, <3>2
  <2>2. CASE \E fn \in 1 .. MaxName : fm_panel_locate(fn)
    BY <2>2 DEF fm_panel_locate
  <2> QED BY <2>1, <2>2
<1> QED BY <1>1, <1>2, MoveStep

LEMMA StillStep ==
    ASSUME IInv, UNCHANGED <<fields, entries, current, current_idx, totals, used>>,
           scanning' \in BOOLEAN
    PROVE  IInv' /\ Chain' = Chain
<1>1. Chain' = Chain
  BY DEF Chain, fields
<1>2. TypeOK'
  BY DEF IInv, TypeOK, fields, totals
<1>3. Linking' /\ IndexInv'
  BY <1>1 DEF IInv, Linking, IndexInv, fields
<1> QED BY <1>1, <1>2, <1>3 DEF IInv

LEMMA IInvNext == IInv /\ [Next]_vars => IInv'
<1> SUFFICES ASSUME IInv, [Next]_vars PROVE IInv'
  OBVIOUS
<1>1. CASE fm_panel_clear
  BY <1>1, ClearStep
<1>2. CASE ScanEnd
  BY <1>2, StillStep DEF ScanEnd
<1>3. CASE \E fn \in 1 .. MaxName, d \in BOOLEAN : fm_panel_add(fn, d)
  BY <1>3, AddStep
<1>4. CASE \E dn \in BOOLEAN : fm_panel_scroll(dn)
  BY <1>4, SelectStep
<1>5. CASE \E fn \in 1 .. MaxName : fm_panel_locate(fn)
  BY <1>5, SelectStep
<1>6. CASE UNCHANGED vars
  <2>1. scanning' \in BOOLEAN
    BY <1>6 DEF vars, IInv, TypeOK
  <2> QED BY <2>1, <1>6, StillStep DEF vars
<1> QED BY <1>1, <1>2, <1>3, <1>4, <1>5, <1>6 DEF Next

LEMMA ListInductive == Spec => []IInv
<1>1. Init => IInv
  BY IInvInit
<1> QED BY <1>1, IInvNext, PTL DEF Spec

\* fm_panel_add and fm_panel_clear: the pointers are always those of one list.
LEMMA WellLinkedFrom == ASSUME IInv PROVE WellLinked
<1>1. TypeOK /\ Linking
  BY DEF IInv
<1>2. Cells \subseteq 1 .. used
  BY <1>1, ChainFacts DEF Cells
<1>3. 1 .. used \subseteq Cells
  <2>1. \A m \in 1 .. used : \E i \in 1 .. used : Chain[i] = m
    BY <1>1 DEF Linking, Linked
  <2> QED BY <2>1, <1>1, ChainFacts DEF Cells
<1>4. used > 0 => prev[entries] = NULL
  <2>1. used > 0 => 1 \in 1 .. used /\ used # 0
    BY <1>1, ChainFacts
  <2> QED BY <2>1, <1>1, ChainFacts
<1>5. \A i \in 2 .. Len(Chain) : prev[Chain[i]] = Chain[i - 1]
  <2>1. \A i \in 2 .. Len(Chain) : i \in 1 .. used /\ i # 1
    BY <1>1, ChainFacts
  <2> QED BY <2>1, <1>1, ChainFacts
<1> QED BY <1>1, <1>2, <1>3, <1>4, <1>5, ChainFacts DEF WellLinked

\* Every pointer is NULL or a cell, the number of the selection is that of an entry of a full
\* list at most, and the total of the sizes stays in its range, in every reachable state.
THEOREM ListTypes == Spec => []TypeOK
<1>1. IInv => TypeOK
  BY DEF IInv
<1> QED BY <1>1, ListInductive, PTL

\* However the names arrive, fm_panel_add leaves one list: the back links mirror the forward
\* links, and every cell allocated since fm_panel_clear is reached from the head once, so that
\* the next fm_panel_clear frees them all.
THEOREM AlwaysLinked == Spec => []WellLinked
<1>1. IInv => WellLinked
  BY WellLinkedFrom
<1> QED BY <1>1, ListInductive, PTL

\* After every scan, scroll and locate, current_idx is the number of the cell p->current points
\* to: the drawing scrolls by the number and marks the cell.
THEOREM AlwaysSelected == Spec => []IndexInv
<1>1. IInv => IndexInv
  BY DEF IInv
<1> QED BY <1>1, ListInductive, PTL

-----------------------------------------------------------------------------
(* The list implements FileList                                             *)

\* An entry put where the order has its place leaves the sequence sorted.
LEMMA StaysSorted ==
    ASSUME NEW s \in Seq(Abs!Item), NEW e \in Abs!Item, NEW k \in 1 .. Len(s) + 1,
           Abs!Sorted(s),
           \A i \in 1 .. k - 1 : Abs!Before(s[i], e),
           \A i \in k .. Len(s) : Abs!Before(e, s[i])
    PROVE  Abs!Sorted(Into(s, k, e))
<1> DEFINE t == Into(s, k, e)
           n == Len(s)
<1>1. /\ t \in Seq(Abs!Item) /\ Len(t) = n + 1
      /\ \A i \in 1 .. n + 1 : t[i] = IF i < k THEN s[i] ELSE IF i = k THEN e ELSE s[i - 1]
  BY IntoProperties
<1>2. DOMAIN t = 1 .. n + 1 /\ DOMAIN s = 1 .. n /\ n \in Nat /\ k \in 1 .. n + 1
  BY <1>1, LenProperties
<1>3. \A i, j \in 1 .. n : i < j => Abs!Before(s[i], s[j])
  BY <1>2 DEF Abs!Sorted
<1> HIDE DEF t, n
<1>4. ASSUME NEW i \in 1 .. n + 1, NEW j \in 1 .. n + 1, i < j
      PROVE  Abs!Before(t[i], t[j])
  <2>1. CASE j < k
    <3>1. i \in 1 .. n /\ j \in 1 .. n /\ i < k
      BY <2>1, <1>2, <1>4
    <3>2. t[i] = s[i] /\ t[j] = s[j]
      BY <3>1, <2>1, <1>1
    <3> QED BY <3>1, <3>2, <1>3, <1>4
  <2>2. CASE j = k
    <3>1. i \in 1 .. k - 1 /\ i < k
      BY <2>2, <1>2, <1>4
    <3>2. t[i] = s[i] /\ t[j] = e
      BY <3>1, <2>2, <1>1
    <3> QED BY <3>1, <3>2
  <2>3. CASE j > k
    <3>1. j - 1 \in 1 .. n /\ ~ (j < k) /\ j # k /\ j - 1 \in k .. Len(s)
      BY <2>3, <1>2 DEF n
    <3>2. t[j] = s[j - 1]
      BY <3>1, <1>1
    <3>3. CASE i < k
      <4>1. i \in 1 .. n /\ i < j - 1
        BY <3>3, <2>3, <1>2
      <4>2. t[i] = s[i]
        BY <3>3, <1>1
      <4> QED BY <4>1, <4>2, <3>1, <3>2, <1>3
    <3>4. CASE i = k
      <4>1. t[i] = e
        BY <3>4, <1>1, <1>2
      <4> QED BY <4>1, <3>1, <3>2
    <3>5. CASE i > k
      <4>1. i - 1 \in 1 .. n /\ i - 1 < j - 1 /\ ~ (i < k) /\ i # k
        BY <3>5, <1>2, <1>4
      <4>2. t[i] = s[i - 1]
        BY <4>1, <1>1
      <4> QED BY <4>1, <4>2, <3>1, <3>2, <1>3
    <3> QED BY <3>3, <3>4, <3>5, <1>2
  <2> QED BY <2>1, <2>2, <2>3, <1>2
<1> QED BY <1>2, <1>4 DEF Abs!Sorted, t
\* The entries in order: what FileList is about.
Entry(n) == [name |-> name[n], dir |-> dir[n]]
List == [i \in DOMAIN Chain |-> Entry(Chain[i])]

\* List has the entries of Chain.
LEMMA ListFacts ==
    ASSUME TypeOK, Linking
    PROVE  /\ List \in Seq(Abs!Item) /\ Len(List) = used /\ DOMAIN List = 1 .. used
           /\ used \in Nat
           /\ \A i \in 1 .. used : /\ List[i].name = name[Chain[i]] /\ List[i].dir = dir[Chain[i]]
                                    /\ List[i] = Entry(Chain[i])
<1>1. used \in Nat /\ DOMAIN Chain = 1 .. used /\ \A i \in 1 .. used : Chain[i] \in Node
  BY ChainFacts
<1>2. \A n \in Node : Entry(n) \in Abs!Item /\ Entry(n).name = name[n] /\ Entry(n).dir = dir[n]
  BY DEF TypeOK, Entry, Abs!Item
<1>3. List = [i \in 1 .. used |-> Entry(Chain[i])]
  BY <1>1 DEF List
<1>4. List \in [1 .. used -> Abs!Item]
  BY <1>1, <1>2, <1>3
<1>5. List \in Seq(Abs!Item) /\ Len(List) = used /\ DOMAIN List = 1 .. used
  BY <1>1, <1>4
<1> QED BY <1>1, <1>2, <1>3, <1>5

\* The place of an entry is where the order wants it, if the list is sorted and, for a
\* file, has one already.
LEMMA PlaceInOrder ==
    ASSUME TypeOK, Linking, NEW fn \in 1 .. MaxName, NEW d \in BOOLEAN,
           NEW k \in 1 .. used + 1, Place(k, fn, d),
           Abs!Sorted(List), d \/ Abs!HasFile(List),
           NEW e, e = [name |-> fn, dir |-> d]
    PROVE  /\ \A i \in 1 .. k - 1 : Abs!Before(List[i], e)
           /\ \A i \in k .. used : Abs!Before(e, List[i])
<1>1. /\ used \in Nat /\ DOMAIN List = 1 .. used
      /\ \A i \in 1 .. used : List[i].name = name[Chain[i]] /\ List[i].dir = dir[Chain[i]]
  BY ListFacts
<1>2. \A i \in 1 .. used : name[Chain[i]] \in Nat /\ dir[Chain[i]] \in BOOLEAN
  BY ChainFacts DEF TypeOK
<1>3. e.name = fn /\ e.dir = d /\ fn \in Nat
  OBVIOUS
<1>4. \A i, j \in 1 .. used : i < j =>
         IF dir[Chain[i]] = dir[Chain[j]] THEN name[Chain[i]] <= name[Chain[j]] ELSE dir[Chain[i]]
  BY <1>1 DEF Abs!Sorted, Abs!Before
<1>5. /\ \A i \in 1 .. k - 1 : i \in 1 .. used /\ i < k
      /\ \A i \in k .. used : i \in 1 .. used /\ k \in 1 .. used /\ (i = k \/ k < i)
  BY <1>1
<1> SUFFICES
      /\ \A i \in 1 .. k - 1 :
            IF dir[Chain[i]] = d THEN name[Chain[i]] <= fn ELSE dir[Chain[i]]
      /\ \A i \in k .. used : IF d = dir[Chain[i]] THEN fn <= name[Chain[i]] ELSE d
  BY <1>1, <1>3, <1>5 DEF Abs!Before
<1>6. CASE d = TRUE
  <2>1. DirPlace(k, fn)
    BY <1>6 DEF Place
  <2>2. \A i \in 1 .. k - 1 : dir[Chain[i]] = TRUE /\ name[Chain[i]] <= fn
    BY <2>1, <1>2, <1>3, <1>5 DEF DirPlace
  <2>3. ASSUME NEW i \in k .. used, dir[Chain[i]] = TRUE PROVE fn <= name[Chain[i]]
    <3>1. i \in 1 .. used /\ k \in 1 .. used /\ (i = k \/ k < i) /\ k <= used
      BY <1>1, <1>5
    <3>2. dir[Chain[k]] = TRUE /\ name[Chain[k]] <= name[Chain[i]]
      BY <3>1, <2>3, <1>2, <1>4
    <3>3. ~ (name[Chain[k]] < fn)
      BY <3>1, <3>2, <2>1 DEF DirPlace
    <3> QED BY <3>1, <3>2, <3>3, <1>2, <1>3
  <2> QED BY <2>2, <2>3, <1>6
<1>7. CASE d = FALSE
  <2>1. PICK h \in 1 .. used : dir[Chain[h]] = FALSE
    BY <1>1, <1>2, <1>7 DEF Abs!HasFile
  <2>2. PICK j \in 1 .. used :
          /\ j <= k /\ ~ dir[Chain[j]]
          /\ \A i \in 1 .. j - 1 : dir[Chain[i]]
          /\ \A i \in j .. k - 1 : name[Chain[i]] < fn
          /\ k <= used => name[Chain[k]] > fn
    BY <2>1, <1>7 DEF Place, FilePlace
  <2>3. \A i \in 1 .. used : i < j => dir[Chain[i]] = TRUE
    <3>1. \A i \in 1 .. used : i < j => i \in 1 .. j - 1
      BY <1>1
    <3> QED BY <3>1, <2>2, <1>2
  <2>4. \A i \in 1 .. used : i >= j => dir[Chain[i]] = FALSE
    <3>1. \A i \in 1 .. used : i >= j => i = j \/ j < i
      BY <1>1
    <3> QED BY <3>1, <2>2, <1>2, <1>4
  <2>5. ASSUME NEW i \in 1 .. k - 1
        PROVE  IF dir[Chain[i]] = d THEN name[Chain[i]] <= fn ELSE dir[Chain[i]]
    <3>1. i \in 1 .. used /\ (i < j \/ i \in j .. k - 1)
      BY <1>1, <1>5
    <3>2. CASE i < j
      BY <3>1, <3>2, <2>3, <1>7
    <3>3. CASE i \in j .. k - 1
      <4>1. name[Chain[i]] < fn /\ i >= j
        BY <3>3, <2>2
      <4>2. name[Chain[i]] <= fn
        BY <4>1, <3>1, <1>2, <1>3
      <4>3. dir[Chain[i]] = FALSE
        BY <4>1, <3>1, <2>4
      <4> QED BY <4>2, <4>3, <1>7
    <3> QED BY <3>1, <3>2, <3>3
  <2>6. ASSUME NEW i \in k .. used
        PROVE  IF d = dir[Chain[i]] THEN fn <= name[Chain[i]] ELSE d
    <3>1. i \in 1 .. used /\ k \in 1 .. used /\ (i = k \/ k < i) /\ k <= used /\ i >= j /\ k >= j
      BY <1>1, <1>5, <2>2
    <3>2. dir[Chain[i]] = FALSE /\ dir[Chain[k]] = FALSE
      BY <3>1, <2>4
    <3>3. name[Chain[k]] <= name[Chain[i]] /\ name[Chain[k]] > fn
      BY <3>1, <3>2, <2>2, <1>2, <1>4
    <3> QED BY <3>1, <3>2, <3>3, <1>2, <1>3, <1>7
  <2> QED BY <2>5, <2>6
<1> QED BY <1>6, <1>7

\* A new entry: inserted in the sequence.
LEMMA AddInserts ==
    ASSUME IInv, NEW fn \in 1 .. MaxName, NEW d \in BOOLEAN, fm_panel_add(fn, d)
    PROVE  \E e \in Abs!Item : Abs!Insert(e)
<1> DEFINE e == [name |-> fn, dir |-> d]
           x == used + 1
<1> HIDE DEF e
<1>1. TypeOK /\ Linking /\ TypeOK' /\ Linking'
  BY AddStep DEF IInv
<1>2. e \in Abs!Item
  BY DEF Abs!Item, e
<1>3. PICK k \in 1 .. used + 1 : Chain' = Into(Chain, k, used + 1) /\ Place(k, fn, d)
  BY <1>1, AddLinks
<1>4. /\ List \in Seq(Abs!Item) /\ Len(List) = used /\ DOMAIN List = 1 .. used /\ used \in Nat
      /\ \A i \in 1 .. used : List[i] = Entry(Chain[i])
  BY <1>1, ListFacts
<1>5. x \in Node /\ x \in Nat /\ used < x /\ \A i \in 1 .. used : Chain[i] \in Node /\ Chain[i] # x
  <2>1. used < MaxEntries
    BY DEF fm_panel_add
  <2>2. x \in Node /\ x \in Nat /\ used < x /\ x \notin 1 .. used
    BY <2>1, <1>4, NodeFacts DEF Node
  <2> QED BY <2>2, <1>1, ChainFacts
<1>6. name' = [name EXCEPT ![x] = fn] /\ dir' = [dir EXCEPT ![x] = d] /\ current_idx' = 0
  BY DEF fm_panel_add
<1>7. /\ Into(Chain, k, x) \in Seq(Node) /\ DOMAIN Into(Chain, k, x) = 1 .. x
      /\ \A i \in 1 .. x : Into(Chain, k, x)[i]
            = IF i < k THEN Chain[i] ELSE IF i = k THEN x ELSE Chain[i - 1]
  <2> DEFINE c == Chain
  <2>1. c \in Seq(Node) /\ k \in 1 .. Len(c) + 1 /\ Len(c) + 1 = x
    BY <1>1, ChainFacts
  <2> HIDE DEF c
  <2>2. /\ Into(c, k, x) \in Seq(Node)
        /\ Len(Into(c, k, x)) = Len(c) + 1
        /\ \A i \in 1 .. Len(c) + 1 :
              Into(c, k, x)[i] = IF i < k THEN c[i] ELSE IF i = k THEN x ELSE c[i - 1]
    BY <2>1, <1>5, IntoProperties
  <2> QED BY <2>1, <2>2, LenProperties DEF c
<1>8. /\ Into(List, k, e) \in [1 .. x -> Abs!Item]
      /\ \A i \in 1 .. x : Into(List, k, e)[i]
            = IF i < k THEN List[i] ELSE IF i = k THEN e ELSE List[i - 1]
  <2> DEFINE c == List
  <2>1. c \in Seq(Abs!Item) /\ k \in 1 .. Len(c) + 1 /\ Len(c) + 1 = x
    BY <1>4
  <2> HIDE DEF c
  <2>2. /\ Into(c, k, e) \in Seq(Abs!Item)
        /\ Len(Into(c, k, e)) = Len(c) + 1
        /\ \A i \in 1 .. Len(c) + 1 :
              Into(c, k, e)[i] = IF i < k THEN c[i] ELSE IF i = k THEN e ELSE c[i - 1]
    <3>1. c \in Seq(Abs!Item) /\ k \in 1 .. Len(c) + 1
      BY <2>1
    <3> DEFINE T == Abs!Item
    <3>2. c \in Seq(T) /\ e \in T
      BY <3>1, <1>2
    <3> HIDE DEF T
    <3>3. /\ Into(c, k, e) \in Seq(T)
          /\ Len(Into(c, k, e)) = Len(c) + 1
          /\ \A i \in 1 .. Len(c) + 1 :
                Into(c, k, e)[i] = IF i < k THEN c[i] ELSE IF i = k THEN e ELSE c[i - 1]
      BY ONLY <3>1, <3>2, IntoProperties
    <3> QED BY <3>3 DEF T
  <2> QED BY <2>1, <2>2, LenProperties DEF c
<1> DEFINE New(i) == [name |-> name'[Chain'[i]], dir |-> dir'[Chain'[i]]]
<1>9. ASSUME NEW i \in 1 .. x PROVE New(i) = Into(List, k, e)[i]
  <2>1. name \in [Node -> 1 .. MaxName] /\ dir \in [Node -> BOOLEAN]
    BY <1>1 DEF TypeOK
  <2>2. name'[x] = fn /\ dir'[x] = d
        /\ \A m \in Node : m # x => name'[m] = name[m] /\ dir'[m] = dir[m]
    BY <2>1, <1>5, <1>6
  <2>3. CASE i = k
    <3>1. Chain'[i] = x /\ Into(List, k, e)[i] = e
      BY <2>3, <1>3, <1>7, <1>8
    <3> QED BY <3>1, <2>2 DEF e
  <2>4. CASE i < k
    <3>1. i \in 1 .. used
      BY <2>4, <1>4
    <3>2. Chain'[i] = Chain[i] /\ Into(List, k, e)[i] = List[i]
      BY <2>4, <1>3, <1>7, <1>8
    <3> QED BY <3>1, <3>2, <2>2, <1>4, <1>5 DEF Entry
  <2>5. CASE i > k
    <3>1. i - 1 \in 1 .. used /\ ~ (i < k) /\ i # k
      BY <2>5, <1>4
    <3>2. Chain'[i] = Chain[i - 1] /\ Into(List, k, e)[i] = List[i - 1]
      BY <3>1, <1>3, <1>7, <1>8
    <3> QED BY <3>1, <3>2, <2>2, <1>4, <1>5 DEF Entry
  <2> QED BY <2>3, <2>4, <2>5, <1>5
<1>10. List' = Into(List, k, e)
  <2>1. List' = [i \in 1 .. x |-> New(i)]
    BY <1>3, <1>7 DEF List, Entry
  <2>2. Into(List, k, e) = [i \in 1 .. x |-> Into(List, k, e)[i]]
    BY <1>8
  <2> HIDE DEF New, x
  <2> QED BY <2>1, <2>2, <1>9
<1>11. Abs!Sorted(List) /\ (d \/ Abs!HasFile(List)) => Abs!Sorted(List')
  <2> SUFFICES ASSUME Abs!Sorted(List), d \/ Abs!HasFile(List) PROVE Abs!Sorted(Into(List, k, e))
    BY <1>10
  <2>1. /\ \A i \in 1 .. k - 1 : Abs!Before(List[i], e)
        /\ \A i \in k .. used : Abs!Before(e, List[i])
    BY <1>1, <1>3, PlaceInOrder DEF e
  <2> QED BY <2>1, <1>2, <1>4, StaysSorted
<1>12. List' = Abs!InsertAt(List, k, e) /\ k \in 1 .. Len(List) + 1
  BY <1>4, <1>10 DEF Abs!InsertAt, Into
<1>13. Abs!Insert(e)
  <2>1. current_idx' + 1 = 1 /\ e.dir = d
    BY <1>6 DEF e
  <2> QED BY <2>1, <1>11, <1>12 DEF Abs!Insert, List, Entry
<1> QED BY <1>2, <1>13
\* Every step is a step of FileList, or none of its steps.
LEMMA ListStep ==
    ASSUME IInv, [Next]_vars
    PROVE  Abs!Next \/ (List' = List /\ current_idx' = current_idx)
<1>1. TypeOK /\ Linking /\ IndexInv
  BY DEF IInv
<1>2. CASE fm_panel_clear
  <2>1. Chain' = <<>> /\ current_idx' + 1 = 0
    BY <1>2, ClearStep DEF fm_panel_clear
  <2>2. List' = <<>>
    BY <2>1 DEF List
  <2> QED BY <2>1, <2>2 DEF Abs!Next, Abs!Clear, List, Entry
<1>3. CASE \E fn \in 1 .. MaxName, d \in BOOLEAN : fm_panel_add(fn, d)
  <2>1. \E e \in Abs!Item : Abs!Insert(e)
    BY <1>3, AddInserts
  <2> QED BY <2>1 DEF Abs!Next
<1>4. CASE \E dn \in BOOLEAN : fm_panel_scroll(dn)
  <2>1. Chain' = Chain /\ name' = name /\ dir' = dir
    BY <1>4, SelectStep DEF fm_panel_scroll, fields
  <2>2. List' = List
    BY <2>1 DEF List, Entry
  <2>3. /\ current_idx + 1 \in DOMAIN List /\ current_idx' + 1 \in DOMAIN List
        /\ current_idx' \in {current_idx - 1, current_idx + 1} /\ current_idx \in Int
    BY <1>1, <1>4, ScrollStep DEF List, TypeOK
  <2>4. (current_idx + 1)' \in {(current_idx + 1) - 1, (current_idx + 1) + 1}
    <3>1. current_idx \in Int /\ (current_idx' = current_idx - 1 \/ current_idx' = current_idx + 1)
      BY <2>3
    <3> QED BY <3>1
  <2>5. List # <<>>
    <3>1. List = <<>> => DOMAIN List = {}
      BY EmptySeq
    <3> QED BY <3>1, <2>3
  <2>6. Abs!Move
    <3> DEFINE l == [i \in DOMAIN Chain |-> [name |-> name[Chain[i]], dir |-> dir[Chain[i]]]]
    <3>1. l # <<>> /\ l' = l
      BY <2>2, <2>5 DEF List, Entry
    <3>2. current_idx' + 1 \in DOMAIN l
      BY <2>3 DEF List
    <3>3. Abs!Move =
             (/\ l # <<>>
              /\ (current_idx + 1)' \in DOMAIN l
                 /\ (current_idx + 1)' \in {(current_idx + 1) - 1, (current_idx + 1) + 1}
              /\ UNCHANGED l)
      BY DEF Abs!Move
    <3> HIDE DEF l
    <3>4. (current_idx + 1)' \in DOMAIN l
      BY <3>2
    <3>5. l # <<>> /\ UNCHANGED l
      BY <3>1
    <3> QED BY <2>4, <3>3, <3>4, <3>5
  <2> QED BY <2>6 DEF Abs!Next
<1>5. CASE \E fn \in 1 .. MaxName : fm_panel_locate(fn)
  <2>1. PICK fn \in 1 .. MaxName : fm_panel_locate(fn)
    BY <1>5
  <2>2. PICK i \in DOMAIN Chain : name[Chain[i]] = fn /\ current_idx' = i - 1
    BY <2>1 DEF fm_panel_locate
  <2>3. Chain' = Chain /\ name' = name /\ dir' = dir
    BY <1>5, <2>1, SelectStep DEF fm_panel_locate, fields
  <2>4. List' = List
    BY <2>3 DEF List, Entry
  <2>5. i \in DOMAIN List /\ List[i].name = fn /\ current_idx' + 1 = i
    BY <1>1, <2>2, ListFacts, ChainFacts
  <2>6. Abs!Locate(fn)
    BY <2>4, <2>5 DEF Abs!Locate, List, Entry
  <2> QED BY <2>6 DEF Abs!Next
<1>6. CASE ScanEnd \/ UNCHANGED vars
  <2>1. UNCHANGED <<fields, entries, current_idx>>
    BY <1>6 DEF ScanEnd, vars
  <2> QED BY <2>1 DEF List, Entry, Chain, fields
<1> QED BY <1>2, <1>3, <1>4, <1>5, <1>6 DEF Next

\* The pointers of fm.c implement the sequence of FileList: what fm_panel_add links in
\* keeps the list sorted, with the one exception of FileList!Insert, loses no entry and
\* reorders none, and scrolling moves the selection along it by one.
THEOREM RefinesFileList == Spec => ImplementsFileList
<1>1. Init => Abs!Init
  <2> SUFFICES ASSUME Init PROVE Abs!Init
    OBVIOUS
  <2>1. Chain = <<>> /\ current_idx + 1 = 0
    BY IInvInit DEF Init
  <2> QED BY <2>1 DEF Abs!Init
<1>2. IInv /\ [Next]_vars => Abs!Next \/ (List' = List /\ current_idx' = current_idx)
  BY ListStep
<1>3. IInv /\ [Next]_vars =>
         [Abs!Next]_<<[i \in DOMAIN Chain |-> [name |-> name[Chain[i]], dir |-> dir[Chain[i]]]],
                      current_idx + 1>>
  BY <1>2 DEF List, Entry
<1> QED BY <1>1, <1>3, ListInductive, PTL DEF Spec, ImplementsFileList, Abs!Spec
-----------------------------------------------------------------------------
(* Totals.  The sum of FiniteSetsExt is a recursive function that takes out *)
(* an element of its choice; that it exists, and that any element may be    *)
(* taken out, is shown first.                                               *)

Total(nm, S) == MapThenSumSet(LAMBDA n : SizeOf[nm[n]], S)

pick(s) == CHOOSE x \in s : TRUE
Sums(f, nm, S) ==
    f = [s \in SUBSET S |-> IF s = {} THEN 0 ELSE SizeOf[nm[pick(s)]] + f[s \ {pick(s)}]]

\* Up to the size k.
SumsTo(k, f, nm, S) ==
    \A s \in SUBSET S : Cardinality(s) <= k =>
        f[s] = IF s = {} THEN 0 ELSE SizeOf[nm[pick(s)]] + f[s \ {pick(s)}]

LEMMA NodeSets ==
    ASSUME NEW S \in SUBSET Node
    PROVE  /\ IsFiniteSet(S) /\ Cardinality(S) \in Nat /\ (Cardinality(S) = 0 <=> S = {})
           /\ \A x \in S : IsFiniteSet(S \ {x}) /\ Cardinality(S \ {x}) = Cardinality(S) - 1
           /\ S # {} => pick(S) \in S
<1>1. IsFiniteSet(Node)
  BY FS_Interval, NodeFacts DEF Node
<1>2. IsFiniteSet(S)
  BY <1>1, FS_Subset
<1>3. S # {} => pick(S) \in S
  BY DEF pick
<1>4. \A x \in S : IsFiniteSet(S \ {x}) /\ Cardinality(S \ {x}) = Cardinality(S) - 1
  BY <1>2, FS_RemoveElement
<1> QED BY <1>2, <1>3, <1>4, FS_EmptySet, FS_CardinalityType

\* The recursive function is defined: one for the sets up to each size.
LEMMA SumExists ==
    ASSUME NEW nm, NEW S \in SUBSET Node
    PROVE  \E f : Sums(f, nm, S)
<1> DEFINE B == {k \in Nat : ~ \E f : SumsTo(k, f, nm, S)}
<1>1. B = {}
  <2>1. SUFFICES ASSUME B # {} PROVE FALSE
    OBVIOUS
  <2>2. PICK k \in B : \A l \in B : k <= l
    BY <2>1, Least
  <2>3. CASE k = 0
    <3> DEFINE f == [s \in SUBSET S |-> 0]
    <3>1. \A s \in SUBSET S : Cardinality(s) <= 0 => s = {}
      BY NodeSets
    <3>2. SumsTo(0, f, nm, S)
      BY <3>1 DEF SumsTo
    <3> QED BY <2>3, <3>2
  <2>4. CASE k # 0
    <3>1. k - 1 \in Nat /\ ~ (k <= k - 1)
      BY <2>4
    <3>2. PICK f : SumsTo(k - 1, f, nm, S)
      BY <3>1, <2>2
    <3> DEFINE val(s) == IF s = {} THEN 0 ELSE SizeOf[nm[pick(s)]] + f[s \ {pick(s)}]
               g == [s \in SUBSET S |-> IF Cardinality(s) < k THEN f[s] ELSE val(s)]
    <3>3. ASSUME NEW s \in SUBSET S, Cardinality(s) <= k
          PROVE  g[s] = IF s = {} THEN 0 ELSE SizeOf[nm[pick(s)]] + g[s \ {pick(s)}]
      <4>1. g[s] = val(s)
        <5>1. CASE Cardinality(s) < k
          <6>1. Cardinality(s) \in Nat /\ Cardinality(s) <= k - 1
            BY <5>1, NodeSets
          <6>2. f[s] = val(s)
            BY <6>1, <3>2 DEF SumsTo
          <6> QED BY <6>2, <5>1
        <5>2. CASE ~ (Cardinality(s) < k)
          BY <5>2
        <5> QED BY <5>1, <5>2
      <4>2. s # {} => g[s \ {pick(s)}] = f[s \ {pick(s)}]
        <5>1. SUFFICES ASSUME s # {} PROVE g[s \ {pick(s)}] = f[s \ {pick(s)}]
          OBVIOUS
        <5>2. pick(s) \in s /\ Cardinality(s) \in Nat
              /\ Cardinality(s \ {pick(s)}) = Cardinality(s) - 1
          BY <5>1, NodeSets
        <5>3. s \ {pick(s)} \in SUBSET S /\ Cardinality(s \ {pick(s)}) < k
          BY <5>2, <3>3
        <5> QED BY <5>3
      <4> HIDE DEF g
      <4> QED BY <4>1, <4>2
    <3>4. SumsTo(k, g, nm, S)
      BY <3>3, Zenon DEF SumsTo
    <3> QED BY <3>4
  <2> QED BY <2>3, <2>4
<1>2. Cardinality(S) \in Nat /\ \A s \in SUBSET S : Cardinality(s) <= Cardinality(S)
  BY NodeSets, FS_Subset
<1>3. PICK f : SumsTo(Cardinality(S), f, nm, S)
  BY <1>1, <1>2
<1> DEFINE g == [s \in SUBSET S |-> f[s]]
<1>4. ASSUME NEW s \in SUBSET S
      PROVE  g[s] = IF s = {} THEN 0 ELSE SizeOf[nm[pick(s)]] + g[s \ {pick(s)}]
  <2>1. f[s] = IF s = {} THEN 0 ELSE SizeOf[nm[pick(s)]] + f[s \ {pick(s)}]
    BY <1>2, <1>3 DEF SumsTo
  <2>2. s \ {pick(s)} \in SUBSET S
    OBVIOUS
  <2> QED BY <2>1, <2>2
<1>5. Sums(g, nm, S)
  <2>1. g = [s \in SUBSET S |-> g[s]]
    OBVIOUS
  <2> HIDE DEF g
  <2> QED BY <2>1, <1>4, Zenon DEF Sums
<1> QED BY <1>5

\* A sum agrees with a sum over less, and with one of other sizes where these are the same.
LEMMA SumAgrees ==
    ASSUME NEW nm, NEW nm2, NEW S \in SUBSET Node, NEW T \in SUBSET S,
           \A x \in T : nm[x] = nm2[x],
           NEW f, NEW g, Sums(f, nm, S), Sums(g, nm2, T)
    PROVE  \A s \in SUBSET T : f[s] = g[s]
<1> DEFINE Bad == {s \in SUBSET T : f[s] # g[s]}
           B == {Cardinality(s) : s \in Bad}
<1>1. SUFFICES ASSUME Bad # {} PROVE FALSE
  OBVIOUS
<1>2. B \in SUBSET Nat /\ B # {}
  BY <1>1, NodeSets
<1>3. PICK k \in B : \A l \in B : k <= l
  BY <1>2, Least
<1>4. PICK s \in Bad : k = Cardinality(s)
  OBVIOUS
<1>5. s \in SUBSET T /\ s \in SUBSET S /\ s \in SUBSET Node
  OBVIOUS
<1>6. /\ f[s] = IF s = {} THEN 0 ELSE SizeOf[nm[pick(s)]] + f[s \ {pick(s)}]
      /\ g[s] = IF s = {} THEN 0 ELSE SizeOf[nm2[pick(s)]] + g[s \ {pick(s)}]
  <2>1. f = [z \in SUBSET S |-> IF z = {} THEN 0 ELSE SizeOf[nm[pick(z)]] + f[z \ {pick(z)}]]
    BY Zenon DEF Sums
  <2>2. g = [z \in SUBSET T |-> IF z = {} THEN 0 ELSE SizeOf[nm2[pick(z)]] + g[z \ {pick(z)}]]
    BY Zenon DEF Sums
  <2> QED BY <2>1, <2>2, <1>5, Zenon
<1>7. s # {}
  BY <1>4, <1>6
<1>8. pick(s) \in s /\ Cardinality(s) \in Nat /\ Cardinality(s \ {pick(s)}) = Cardinality(s) - 1
  BY <1>5, <1>7, NodeSets
<1>9. s \ {pick(s)} \notin Bad
  <2>1. SUFFICES ASSUME s \ {pick(s)} \in Bad PROVE FALSE
    OBVIOUS
  <2>2. Cardinality(s \ {pick(s)}) \in B
    BY <2>1
  <2> QED BY <2>2, <1>3, <1>4, <1>8
<1>10. f[s \ {pick(s)}] = g[s \ {pick(s)}]
  BY <1>5, <1>9
<1> QED BY <1>4, <1>5, <1>6, <1>8, <1>10

\* The total is the value of that function, whichever is taken.
LEMMA TotalIsSum ==
    ASSUME NEW nm, NEW S \in SUBSET Node, NEW f, Sums(f, nm, S)
    PROVE  Total(nm, S) = f[S]
<1> DEFINE g == CHOOSE h : Sums(h, nm, S)
<1>1. Total(nm, S) = g[S]
  BY DEF Total, Sums, MapThenSumSet, MapThenFoldSet, pick
<1>2. Sums(g, nm, S)
  BY Zenon
<1> HIDE DEF g
<1> QED BY <1>1, <1>2, SumAgrees

\* The total depends on the names of the set only.
LEMMA TotalSame ==
    ASSUME NEW nm, NEW nm2, NEW S \in SUBSET Node, \A x \in S : nm[x] = nm2[x]
    PROVE  Total(nm, S) = Total(nm2, S)
<1>1. PICK f : Sums(f, nm, S)
  BY SumExists
<1>2. PICK g : Sums(g, nm2, S)
  BY SumExists
<1>3. f[S] = g[S]
  BY <1>1, <1>2, SumAgrees
<1> QED BY <1>1, <1>2, <1>3, TotalIsSum

LEMMA TotalPick ==
    ASSUME NEW nm, NEW S \in SUBSET Node, S # {}
    PROVE  Total(nm, S) = SizeOf[nm[pick(S)]] + Total(nm, S \ {pick(S)})
<1> DEFINE T == S \ {pick(S)}
<1>1. PICK f : Sums(f, nm, S)
  BY SumExists
<1>2. PICK g : Sums(g, nm, T)
  BY SumExists
<1>3. f[T] = g[T]
  BY <1>1, <1>2, SumAgrees
<1>4. f[S] = SizeOf[nm[pick(S)]] + f[T]
  <2>1. f = [z \in SUBSET S |-> IF z = {} THEN 0 ELSE SizeOf[nm[pick(z)]] + f[z \ {pick(z)}]]
    BY <1>1, Zenon DEF Sums
  <2> QED BY <2>1
<1> QED BY <1>1, <1>2, <1>3, <1>4, TotalIsSum

LEMMA TotalEmpty ==
    ASSUME NEW nm
    PROVE  Total(nm, {}) = 0
<1>1. PICK f : Sums(f, nm, {})
  BY SumExists
<1>2. f[{}] = 0
  BY <1>1 DEF Sums
<1> QED BY <1>1, <1>2, TotalIsSum

\* Any element may be taken out.
LEMMA TotalAny ==
    ASSUME NEW nm \in [Node -> 1 .. MaxName], NEW S \in SUBSET Node
    PROVE  /\ Total(nm, S) \in Nat
           /\ \A y \in S : Total(nm, S) = SizeOf[nm[y]] + Total(nm, S \ {y})
<1> DEFINE w(x) == SizeOf[nm[x]]
           tot(s) == Total(nm, s)
           Good(s) == /\ tot(s) \in Nat
                      /\ \A y \in s : tot(s) = w(y) + tot(s \ {y})
           Bad == {s \in SUBSET Node : ~ Good(s)}
           B == {Cardinality(s) : s \in Bad}
<1>1. \A x \in Node : w(x) \in Nat
  BY SizeAssumption
<1>2. tot({}) = 0 /\ \A s \in SUBSET Node : s # {} => tot(s) = w(pick(s)) + tot(s \ {pick(s)})
  BY TotalEmpty, TotalPick
<1> HIDE DEF w, tot
<1>3. ASSUME Bad # {} PROVE FALSE
  <2>1. B \in SUBSET Nat /\ B # {}
    BY <1>3, NodeSets
  <2>2. \E k \in B : \A l \in B : k <= l
    BY <2>1, Least
  <2>3. PICK s \in Bad : \A r \in Bad : Cardinality(s) <= Cardinality(r)
    BY <2>2
  <2>4. ASSUME NEW r \in SUBSET Node, Cardinality(r) < Cardinality(s) PROVE Good(r)
    <3>1. Cardinality(r) \in Nat /\ Cardinality(s) \in Nat
      BY NodeSets
    <3>2. r \notin Bad
      BY <3>1, <2>3, <2>4
    <3> QED BY <3>2, Zenon
  <2>5. s \in SUBSET Node /\ ~ Good(s)
    OBVIOUS
  <2> HIDE DEF Bad
  <2>6. CASE s = {}
    BY <2>5, <2>6, <1>2
  <2>7. CASE s # {}
    <3> DEFINE x == pick(s)
    <3>1. x \in s /\ x \in Node /\ s \ {x} \in SUBSET Node /\ Cardinality(s) \in Nat
          /\ Cardinality(s \ {x}) < Cardinality(s)
      BY <2>5, <2>7, NodeSets
    <3>2. tot(s) = w(x) + tot(s \ {x}) /\ Good(s \ {x})
      BY <2>4, <2>5, <2>7, <3>1, <1>2
    <3> HIDE DEF x
    <3>3. tot(s) \in Nat
      BY <3>1, <3>2, <1>1
    <3>4. ASSUME NEW y \in s PROVE tot(s) = w(y) + tot(s \ {y})
      <4>1. CASE y = x
        BY <4>1, <3>2
      <4>2. CASE y # x
        <5> DEFINE r == (s \ {x}) \ {y}
        <5>1. y \in s \ {x} /\ x \in s \ {y} /\ s \ {y} \in SUBSET Node /\ y \in Node
              /\ (s \ {y}) \ {x} = r /\ r \in SUBSET Node
          BY <4>2, <3>1, <2>5
        <5>2. Cardinality(s \ {y}) < Cardinality(s)
          BY <2>5, <3>1, NodeSets
        <5>3. Good(s \ {y})
          BY <5>1, <5>2, <2>4
        <5>4. Cardinality(r) < Cardinality(s)
          <6>1. Cardinality(r) = Cardinality(s \ {x}) - 1 /\ Cardinality(s \ {x}) \in Nat
            BY <3>1, <5>1, NodeSets
          <6> QED BY <6>1, <3>1
        <5>5. Good(r)
          BY <5>1, <5>4, <2>4
        <5> HIDE DEF r
        <5>6. tot(s \ {x}) = w(y) + tot(r) /\ tot(s \ {y}) = w(x) + tot(r)
          BY <5>1, <5>3, <3>2 DEF r
        <5>7. tot(r) \in Nat /\ w(x) \in Nat /\ w(y) \in Nat
          BY <5>1, <5>5, <3>1, <1>1
        <5> QED BY <5>6, <5>7, <3>2
      <4> QED BY <4>1, <4>2
    <3> QED BY <3>3, <3>4, <2>5
  <2> QED BY <2>6, <2>7
<1>4. Good(S)
  BY <1>3, Zenon
<1> QED BY <1>4 DEF w, tot
\* Sizes are added modulo SizeRange, as the sum in fm_panel_add wraps.
LEMMA DivMod ==
    ASSUME NEW a \in Int, NEW R \in Nat \ {0}
    PROVE  (a % R) \in 0 .. R - 1 /\ a \div R \in Int /\ a = R * (a \div R) + (a % R)
OBVIOUS

LEMMA MulSmall ==
    ASSUME NEW k \in Int, NEW R \in Nat \ {0}, -R < R * k, R * k < R
    PROVE  k = 0
<1>1. CASE k >= 1
  <2>1. R * k >= R * 1
    BY <1>1
  <2> QED BY <2>1
<1>2. CASE k <= -1
  <2>1. R * k <= R * (-1)
    BY <1>2
  <2> QED BY <2>1
<1> QED BY <1>1, <1>2

\* Reducing before an addition changes nothing.
LEMMA ModAdd ==
    ASSUME NEW a \in Int, NEW b \in Int, NEW R \in Nat \ {0}
    PROVE  ((a % R) + b) % R = (a + b) % R
<1>1. PICK q \in Int, r \in 0 .. R - 1 : a = R * q + r /\ r = (a % R)
  BY DivMod
<1>2. PICK q1 \in Int, r1 \in 0 .. R - 1 : a + b = R * q1 + r1 /\ r1 = ((a + b) % R)
  <2>1. a + b \in Int
    OBVIOUS
  <2> QED BY <2>1, DivMod
<1>3. PICK q2 \in Int, r2 \in 0 .. R - 1 : r + b = R * q2 + r2 /\ r2 = ((r + b) % R)
  <2>1. r + b \in Int
    OBVIOUS
  <2> QED BY <2>1, DivMod
<1>4. R * (q1 - q - q2) = r2 - r1
  <2>1. R * (q1 - q - q2) = R * q1 - R * q - R * q2
    OBVIOUS
  <2>2. PICK x \in Int, x1 \in Int, x2 \in Int : x = R * q /\ x1 = R * q1 /\ x2 = R * q2
    OBVIOUS
  <2>3. a = x + r /\ a + b = x1 + r1 /\ r + b = x2 + r2
    BY <2>2, <1>1, <1>2, <1>3
  <2>4. x1 - x - x2 = r2 - r1
    BY <2>3
  <2> QED BY <2>1, <2>2, <2>4
<1>5. q1 - q - q2 = 0
  <2>1. q1 - q - q2 \in Int /\ -R < r2 - r1 /\ r2 - r1 < R
    OBVIOUS
  <2> QED BY <2>1, <1>4, MulSmall
<1>6. r2 = r1
  <2>1. R * 0 = 0
    OBVIOUS
  <2>2. r2 - r1 = 0
    BY <2>1, <1>4, <1>5
  <2> QED BY <2>2
<1> QED BY <1>1, <1>2, <1>3, <1>6

LEMMA ModPeriod ==
    ASSUME NEW a \in Int, NEW R \in Nat \ {0}
    PROVE  (a + R) % R = a % R
<1>1. PICK q \in Int, r \in 0 .. R - 1 : a = R * q + r /\ r = (a % R)
  BY DivMod
<1>2. PICK q1 \in Int, r1 \in 0 .. R - 1 : a + R = R * q1 + r1 /\ r1 = ((a + R) % R)
  <2>1. a + R \in Int
    OBVIOUS
  <2> QED BY <2>1, DivMod
<1>3. R * (q1 - q - 1) = r - r1
  <2>1. R * (q1 - q - 1) = R * q1 - R * q - R
    OBVIOUS
  <2>2. PICK x \in Int, x1 \in Int : x = R * q /\ x1 = R * q1
    OBVIOUS
  <2>3. x1 - x - R = r - r1
    BY <2>2, <1>1, <1>2
  <2> QED BY <2>1, <2>2, <2>3
<1>4. q1 - q - 1 = 0
  <2>1. q1 - q - 1 \in Int /\ -R < r - r1 /\ r - r1 < R
    OBVIOUS
  <2> QED BY <2>1, <1>3, MulSmall
<1>5. r = r1
  <2>1. R * 0 = 0
    OBVIOUS
  <2>2. r - r1 = 0
    BY <2>1, <1>3, <1>4
  <2> QED BY <2>2
<1> QED BY <1>1, <1>2, <1>5

Unsized(nm, fls) == {n \in fls : SizeOf[nm[n]] = SizeRange - 1}
FilesOf(dr, cells) == {n \in cells : ~ dr[n]}
SizeMod(nm, fls) == (Total(nm, fls \ Unsized(nm, fls)) - Cardinality(Unsized(nm, fls))) % SizeRange

\* TotalsExact in the terms of this section.
LEMMA TotalsForm ==
    /\ TotalsExact <=> /\ files = Cardinality(FilesOf(dir, Cells))
                       /\ dirs = Cardinality(Cells \ FilesOf(dir, Cells))
                       /\ fsize = SizeMod(name, FilesOf(dir, Cells))
    /\ TotalsExact' <=> /\ files' = Cardinality(FilesOf(dir', Cells'))
                        /\ dirs' = Cardinality(Cells' \ FilesOf(dir', Cells'))
                        /\ fsize' = SizeMod(name', FilesOf(dir', Cells'))
<1>1. TotalsExact <=> /\ files = Cardinality(FilesOf(dir, Cells))
                      /\ dirs = Cardinality(Cells \ FilesOf(dir, Cells))
                      /\ fsize = SizeMod(name, FilesOf(dir, Cells))
  BY DEF TotalsExact, FilesOf, SizeMod, Unsized, Total, MapThenSumSet, MapThenFoldSet
<1>2. TotalsExact' <=> /\ files' = Cardinality(FilesOf(dir', Cells'))
                       /\ dirs' = Cardinality(Cells' \ FilesOf(dir', Cells'))
                       /\ fsize' = SizeMod(name', FilesOf(dir', Cells'))
  BY DEF TotalsExact, FilesOf, SizeMod, Unsized, Total, MapThenSumSet, MapThenFoldSet
<1> QED BY <1>1, <1>2

\* One more file: its size is added, or one is taken away if it is unknown.
LEMMA SizeOneMore ==
    ASSUME NEW nm \in [Node -> 1 .. MaxName], NEW nm2 \in [Node -> 1 .. MaxName],
           NEW F \in SUBSET Node, NEW x \in Node, x \notin F,
           NEW fn \in 1 .. MaxName, nm2[x] = fn, \A n \in F : nm2[n] = nm[n]
    PROVE  SizeMod(nm2, F \cup {x}) = (SizeMod(nm, F) + SizeOf[fn]) % SizeRange
<1> DEFINE G == F \cup {x}
           U == Unsized(nm, F)
           K == F \ U
           U2 == Unsized(nm2, G)
           K2 == G \ U2
<1>1. /\ nm2 \in [Node -> 1 .. MaxName] /\ nm2[x] = fn /\ \A n \in F : nm2[n] = nm[n]
      /\ G \in SUBSET Node
  OBVIOUS
<1>2. U \in SUBSET F /\ U2 \in SUBSET G /\ U \in SUBSET Node /\ K \in SUBSET Node
      /\ x \notin U /\ x \notin K /\ \A n \in F : n \in U2 <=> n \in U
  BY <1>1 DEF Unsized
<1>3. x \in U2 <=> SizeOf[fn] = SizeRange - 1
  BY <1>1 DEF Unsized
<1>4. SizeMod(nm, F) = (Total(nm, K) - Cardinality(U)) % SizeRange
      /\ SizeMod(nm2, G) = (Total(nm2, K2) - Cardinality(U2)) % SizeRange
  BY DEF SizeMod
<1>5. Total(nm, K) \in Nat /\ Cardinality(U) \in Nat /\ Total(nm2, K) = Total(nm, K)
  <2>1. Total(nm, K) \in Nat
    BY <1>2, TotalAny
  <2>2. \A n \in K : nm[n] = nm2[n]
    BY <1>1
  <2>3. Total(nm2, K) = Total(nm, K)
    BY <1>2, <2>2, TotalSame
  <2> QED BY <2>1, <2>3, <1>2, NodeSets
<1>6. SizeRange \in Nat \ {0} /\ SizeOf[fn] \in 0 .. SizeRange - 1
  BY SizeAssumption
<1> HIDE DEF U, K, U2, K2
<1>7. CASE SizeOf[fn] = SizeRange - 1
  <2>1. U2 = U \cup {x} /\ K2 = K
    BY <1>2, <1>3, <1>7 DEF K2, K
  <2>2. Cardinality(U2) = Cardinality(U) + 1
    BY <2>1, <1>2, NodeSets, FS_AddElement
  <2> DEFINE a == Total(nm, K) - Cardinality(U)
  <2>3. a \in Int /\ Total(nm2, K2) - Cardinality(U2) = a - 1
    BY <2>1, <2>2, <1>5
  <2> HIDE DEF a
  <2>4. ((a % SizeRange) + (SizeRange - 1)) % SizeRange = (a + (SizeRange - 1)) % SizeRange
    <3>1. SizeRange - 1 \in Int
      BY <1>6
    <3> QED BY <3>1, <2>3, <1>6, ModAdd
  <2>5. a + (SizeRange - 1) = (a - 1) + SizeRange /\ a - 1 \in Int
    BY <2>3, <1>6
  <2>6. ((a - 1) + SizeRange) % SizeRange = (a - 1) % SizeRange
    BY <2>5, <1>6, ModPeriod
  <2> QED BY <2>3, <2>4, <2>5, <2>6, <1>4, <1>7 DEF a
<1>8. CASE SizeOf[fn] # SizeRange - 1
  <2>1. U2 = U /\ K2 = K \cup {x}
    BY <1>2, <1>3, <1>8 DEF K2, K
  <2>2. K2 \in SUBSET Node /\ x \in K2 /\ K2 \ {x} = K
    BY <2>1, <1>2
  <2>3. Total(nm2, K2) = SizeOf[fn] + Total(nm, K)
    <3>1. \A y \in K2 : Total(nm2, K2) = SizeOf[nm2[y]] + Total(nm2, K2 \ {y})
      BY <2>2, <1>1, TotalAny
    <3> QED BY <3>1, <2>2, <1>1, <1>5
  <2> DEFINE a == Total(nm, K) - Cardinality(U)
  <2>4. a \in Int /\ Total(nm2, K2) - Cardinality(U2) = a + SizeOf[fn] /\ SizeOf[fn] \in Int
    BY <2>1, <2>3, <1>5, <1>6
  <2> HIDE DEF a
  <2>5. ((a % SizeRange) + SizeOf[fn]) % SizeRange = (a + SizeOf[fn]) % SizeRange
    BY <2>4, <1>6, ModAdd
  <2> QED BY <2>4, <2>5, <1>4 DEF a
<1> QED BY <1>7, <1>8

LEMMA WellLinkedNext == IInv' => WellLinked'
<1>1. IInv => WellLinked
  BY WellLinkedFrom
<1> QED BY <1>1, PTL

\* fm_panel_add counts the entry it links in.
LEMMA TotalsOneMore ==
    ASSUME IInv, TotalsExact, NEW fn \in 1 .. MaxName, NEW d \in BOOLEAN, fm_panel_add(fn, d)
    PROVE  TotalsExact'
<1> DEFINE x == used + 1
           F == FilesOf(dir, Cells)
           F2 == FilesOf(dir', Cells')
<1>1. IInv' /\ TypeOK
  BY AddStep DEF IInv
<1>2. Cells = 1 .. used /\ Cells' = 1 .. used'
  BY <1>1, WellLinkedFrom, WellLinkedNext DEF WellLinked
<1>3. used' = x /\ x \in Node /\ name' = [name EXCEPT ![x] = fn] /\ dir' = [dir EXCEPT ![x] = d]
      /\ used \in Nat
  <2>1. used' = x /\ used < MaxEntries
        /\ name' = [name EXCEPT ![x] = fn] /\ dir' = [dir EXCEPT ![x] = d]
    BY DEF fm_panel_add
  <2>2. used \in Nat /\ MaxEntries \in Nat
    BY <1>1, NodeFacts DEF TypeOK
  <2> QED BY <2>1, <2>2 DEF Node
<1>4. Cells' = Cells \cup {x} /\ x \notin Cells /\ Cells \in SUBSET Node
  <2>1. used \in Nat /\ used <= MaxEntries /\ MaxEntries \in Nat /\ used' = used + 1
    BY <1>1, <1>3, NodeFacts DEF TypeOK
  <2> QED BY <2>1, <1>2 DEF Node
<1> HIDE DEF x
<1>5. F \in SUBSET Node /\ Cells \ F \in SUBSET Node /\ x \notin F /\ F \in SUBSET Cells
  BY <1>4 DEF FilesOf
<1>6. dir'[x] = d /\ \A n \in Cells : dir'[n] = dir[n]
  BY <1>1, <1>3, <1>4 DEF TypeOK
<1>7. files = Cardinality(F) /\ dirs = Cardinality(Cells \ F) /\ fsize = SizeMod(name, F)
  BY TotalsForm
<1>8. fsize' = (fsize + Size(fn, d)) % SizeRange
      /\ (d => dirs' = dirs + 1 /\ files' = files) /\ (~ d => files' = files + 1 /\ dirs' = dirs)
  BY DEF fm_panel_add, Counted
<1>9. SizeRange \in Nat \ {0} /\ fsize \in 0 .. SizeRange - 1 /\ name \in [Node -> 1 .. MaxName]
  BY <1>1, SizeAssumption DEF TypeOK
<1>10. CASE d
  <2>1. F2 = F
    BY <1>4, <1>5, <1>6, <1>10 DEF FilesOf
  <2>2. Cells' \ F2 = (Cells \ F) \cup {x}
    BY <2>1, <1>4, <1>5
  <2>3. SizeMod(name', F2) = SizeMod(name, F)
    <3>1. \A n \in F : name'[n] = name[n]
      BY <1>3, <1>4, <1>5, <1>9
    <3> DEFINE U == Unsized(name, F)
    <3>2. Unsized(name', F) = U
      BY <3>1 DEF Unsized
    <3>3. F \ U \in SUBSET Node /\ \A n \in F \ U : name[n] = name'[n]
      BY <3>1, <1>5
    <3>4. Total(name, F \ U) = Total(name', F \ U)
      BY <3>3, TotalSame
    <3> QED BY <2>1, <3>2, <3>4 DEF SizeMod
  <2>4. fsize' = fsize
    <3>1. Size(fn, d) = 0 /\ fsize' = (fsize + 0) % SizeRange
      BY <1>8, <1>10 DEF Size
    <3> QED BY <3>1, <1>9
  <2>5. Cardinality((Cells \ F) \cup {x}) = Cardinality(Cells \ F) + 1
    BY <1>4, <1>5, NodeSets, FS_AddElement
  <2> HIDE DEF F, F2
  <2>6. files' = Cardinality(F2) /\ dirs' = Cardinality(Cells' \ F2) /\ fsize' = SizeMod(name', F2)
    BY <2>1, <2>2, <2>3, <2>4, <2>5, <1>7, <1>8, <1>10
  <2> QED BY <2>6, TotalsForm DEF F2
<1>11. CASE ~ d
  <2>1. F2 = F \cup {x}
    BY <1>4, <1>5, <1>6, <1>11 DEF FilesOf
  <2>2. Cells' \ F2 = Cells \ F
    BY <2>1, <1>4, <1>5
  <2>3. SizeMod(name', F \cup {x}) = (SizeMod(name, F) + SizeOf[fn]) % SizeRange
    <3>1. /\ name \in [Node -> 1 .. MaxName] /\ name' \in [Node -> 1 .. MaxName]
          /\ name'[x] = fn /\ \A n \in F : name'[n] = name[n]
          /\ F \in SUBSET Node /\ x \in Node /\ x \notin F
      BY <1>3, <1>4, <1>5, <1>9
    <3> HIDE DEF F
    <3> QED BY <3>1, SizeOneMore
  <2>4. fsize' = (fsize + SizeOf[fn]) % SizeRange
    BY <1>8, <1>11 DEF Size
  <2>5. Cardinality(F \cup {x}) = Cardinality(F) + 1
    BY <1>5, NodeSets, FS_AddElement
  <2> HIDE DEF F, F2
  <2>6. files' = Cardinality(F2) /\ dirs' = Cardinality(Cells' \ F2) /\ fsize' = SizeMod(name', F2)
    BY <2>1, <2>2, <2>3, <2>4, <2>5, <1>7, <1>8, <1>11
  <2> QED BY <2>6, TotalsForm DEF F2
<1> QED BY <1>10, <1>11

LEMMA TotalsNone ==
    ASSUME Cells = {}, files = 0, dirs = 0, fsize = 0
    PROVE  TotalsExact
<1>1. FilesOf(dir, Cells) = {} /\ Unsized(name, {}) = {} /\ {} \ {} = {}
  BY DEF FilesOf, Unsized
<1>2. Cardinality({}) = 0 /\ Total(name, {}) = 0
  BY TotalEmpty, FS_EmptySet
<1>3. SizeMod(name, {}) = 0
  <2>1. SizeMod(name, {}) = (0 - 0) % SizeRange
    BY <1>1, <1>2 DEF SizeMod
  <2> QED BY <2>1, SizeAssumption
<1> QED BY <1>1, <1>2, <1>3, TotalsForm

LEMMA TotalsNoneNext ==
    ASSUME Cells' = {}, files' = 0, dirs' = 0, fsize' = 0
    PROVE  TotalsExact'
<1>1. FilesOf(dir', Cells') = {} /\ Unsized(name', {}) = {} /\ {} \ {} = {}
  BY DEF FilesOf, Unsized
<1>2. Cardinality({}) = 0 /\ Total(name', {}) = 0
  BY TotalEmpty, FS_EmptySet
<1>3. SizeMod(name', {}) = 0
  <2>1. SizeMod(name', {}) = (0 - 0) % SizeRange
    BY <1>1, <1>2 DEF SizeMod
  <2> QED BY <2>1, SizeAssumption
<1> QED BY <1>1, <1>2, <1>3, TotalsForm

LEMMA TotalsStep ==
    ASSUME IInv, TotalsExact, [Next]_vars
    PROVE  TotalsExact'
<1>1. CASE fm_panel_clear
  <2>1. IInv' /\ used' = 0 /\ files' = 0 /\ dirs' = 0 /\ fsize' = 0
    BY <1>1, ClearStep DEF fm_panel_clear
  <2>2. Cells' = 1 .. used'
    BY <2>1, WellLinkedNext DEF WellLinked
  <2>3. Cells' = {}
    BY <2>1, <2>2
  <2> QED BY <2>1, <2>3, TotalsNoneNext
<1>2. CASE \E fn \in 1 .. MaxName, d \in BOOLEAN : fm_panel_add(fn, d)
  BY <1>2, TotalsOneMore
<1>3. CASE ScanEnd \/ (\E dn \in BOOLEAN : fm_panel_scroll(dn))
           \/ (\E fn \in 1 .. MaxName : fm_panel_locate(fn)) \/ UNCHANGED vars
  <2>1. UNCHANGED <<fields, entries, totals>>
    BY <1>3 DEF ScanEnd, fm_panel_scroll, fm_panel_locate, vars
  <2>2. Chain' = Chain
    BY <2>1 DEF Chain, fields
  <2>3. Cells' = Cells /\ name' = name /\ dir' = dir
        /\ files' = files /\ dirs' = dirs /\ fsize' = fsize
    BY <2>1, <2>2 DEF Cells, totals, fields
  <2> QED BY <2>3, TotalsForm
<1> QED BY <1>1, <1>2, <1>3 DEF Next

\* The totals fm_panel_add counts and shows below the list are those of the entries of
\* this directory, whatever the order they come in; each file of unknown size (-1) takes
\* one byte away.
THEOREM AlwaysExact == Spec => []TotalsExact
<1>1. Init => TotalsExact
  <2>1. Init => Chain = <<>>
    BY IInvInit
  <2>2. Chain = <<>> => Cells = {}
    BY EmptySeq DEF Cells
  <2>3. Init => files = 0 /\ dirs = 0 /\ fsize = 0
    BY DEF Init
  <2> QED BY <2>1, <2>2, <2>3, TotalsNone
<1>2. IInv /\ TotalsExact /\ [Next]_vars => TotalsExact'
  BY TotalsStep
<1> QED BY <1>1, <1>2, ListInductive, PTL DEF Spec
=============================================================================
