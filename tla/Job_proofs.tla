----------------------------- MODULE Job_proofs -----------------------------
(***************************************************************************)
(* Proofs about the copy and the delete job (Job): the list that the scan  *)
(* makes, and what has become of its entries while the job works on it.    *)
(***************************************************************************)
EXTENDS Job, SequenceTheorems, TLAPS

-----------------------------------------------------------------------------
(* Paths *)

Path == Seq(STRING) \ {<<>>}

LEMMA PathFacts ==
    ASSUME NEW p \in Path
    PROVE  p \in Seq(STRING) /\ Len(p) \in Nat /\ Len(p) > 0 /\ DOMAIN p = 1 .. Len(p)
           /\ \A i \in 1 .. Len(p) : p[i] \in STRING
BY EmptySeq, LenProperties, ElementOfSeq DEF Path

\* The first n names of a path.
LEMMA FirstNames ==
    ASSUME NEW p \in Path, NEW n \in 1 .. Len(p)
    PROVE  /\ SubSeq(p, 1, n) \in Path /\ Len(SubSeq(p, 1, n)) = n
           /\ \A i \in 1 .. n : SubSeq(p, 1, n)[i] = p[i]
<1>1. n \in Int /\ 1 <= n /\ \A i \in 1 .. n : p[i] \in STRING
  BY PathFacts
<1>2. /\ SubSeq(p, 1, n) \in Seq(STRING) /\ Len(SubSeq(p, 1, n)) = n
      /\ \A i \in 1 .. n : SubSeq(p, 1, n)[i] = p[i]
  <2>1. /\ SubSeq(p, 1, n) \in Seq(STRING)
        /\ Len(SubSeq(p, 1, n)) = IF 1 <= n THEN n - 1 + 1 ELSE 0
        /\ \A i \in 1 .. n - 1 + 1 : SubSeq(p, 1, n)[i] = p[1 + i - 1]
    BY <1>1, SubSeqProperties
  <2>2. n - 1 + 1 = n /\ \A i \in 1 .. n : 1 + i - 1 = i
    BY <1>1
  <2> QED BY <1>1, <2>1, <2>2
<1>3. SubSeq(p, 1, n) # <<>>
  BY <1>1, <1>2, EmptySeq
<1> QED BY <1>2, <1>3 DEF Path

LEMMA PrefixIs ==
    ASSUME NEW s \in Path, NEW t \in Path
    PROVE  IsPrefix(s, t) <=> Len(s) <= Len(t) /\ \A i \in 1 .. Len(s) : s[i] = t[i]
<1>1. Len(s) \in Nat /\ Len(s) > 0 /\ Len(s) \in 1 .. Len(s)
  BY PathFacts
<1>2. CASE ~ (Len(s) <= Len(t))
  BY <1>2 DEF IsPrefix
<1>3. CASE Len(s) <= Len(t)
  <2>1. Len(s) \in 1 .. Len(t)
    BY <1>1, <1>3, PathFacts
  <2> DEFINE a == SubSeq(s, 1, Len(s))
             b == SubSeq(t, 1, Len(s))
  <2>2. a \in Seq(STRING) /\ Len(a) = Len(s) /\ \A i \in 1 .. Len(s) : a[i] = s[i]
    BY <1>1, FirstNames, PathFacts
  <2>3. b \in Seq(STRING) /\ Len(b) = Len(s) /\ \A i \in 1 .. Len(s) : b[i] = t[i]
    BY <2>1, FirstNames, PathFacts
  <2>4. IsPrefix(s, t) <=> a = b
    BY <1>3 DEF IsPrefix
  <2> HIDE DEF a, b
  <2>5. a = b <=> \A i \in 1 .. Len(s) : a[i] = b[i]
    BY <2>2, <2>3, SeqEqual
  <2> QED BY <1>3, <2>2, <2>3, <2>4, <2>5
<1> QED BY <1>2, <1>3

\* To be below an entry is a partial order, and what is above one path is a chain.
LEMMA PrefixOrder ==
    /\ \A p \in Path : IsPrefix(p, p)
    /\ \A p, q \in Path : IsPrefix(p, q) => Len(p) <= Len(q)
    /\ \A p, q \in Path : IsPrefix(p, q) /\ Len(q) <= Len(p) => p = q
    /\ \A p, q, r \in Path : IsPrefix(p, q) /\ IsPrefix(q, r) => IsPrefix(p, r)
    /\ \A p, q, r \in Path : IsPrefix(p, r) /\ IsPrefix(q, r) => IsPrefix(p, q) \/ IsPrefix(q, p)
<1>1. \A p \in Path : IsPrefix(p, p)
  BY PrefixIs, PathFacts
<1>2. \A p, q \in Path : IsPrefix(p, q) => Len(p) <= Len(q)
  BY PrefixIs
<1>3. ASSUME NEW p \in Path, NEW q \in Path, IsPrefix(p, q), Len(q) <= Len(p) PROVE p = q
  <2>1. Len(p) = Len(q) /\ \A i \in 1 .. Len(p) : p[i] = q[i]
    BY <1>3, PrefixIs, PathFacts
  <2> QED BY <2>1, PathFacts, SeqEqual
<1>4. ASSUME NEW p \in Path, NEW q \in Path, NEW r \in Path, IsPrefix(p, q), IsPrefix(q, r)
      PROVE  IsPrefix(p, r)
  <2>1. /\ Len(p) <= Len(q) /\ \A i \in 1 .. Len(p) : p[i] = q[i]
        /\ Len(q) <= Len(r) /\ \A i \in 1 .. Len(q) : q[i] = r[i]
    BY <1>4, PrefixIs
  <2>2. Len(p) \in Nat /\ Len(q) \in Nat /\ Len(r) \in Nat
    BY PathFacts
  <2>3. Len(p) <= Len(r) /\ \A i \in 1 .. Len(p) : p[i] = r[i]
    BY <2>1, <2>2
  <2> QED BY <2>3, PrefixIs
<1>5. ASSUME NEW p \in Path, NEW q \in Path, NEW r \in Path, IsPrefix(p, r), IsPrefix(q, r)
      PROVE  IsPrefix(p, q) \/ IsPrefix(q, p)
  <2>1. /\ \A i \in 1 .. Len(p) : p[i] = r[i]
        /\ \A i \in 1 .. Len(q) : q[i] = r[i]
    BY <1>5, PrefixIs
  <2>2. Len(p) \in Nat /\ Len(q) \in Nat
    BY PathFacts
  <2>3. CASE Len(p) <= Len(q)
    <3>1. \A i \in 1 .. Len(p) : p[i] = q[i]
      BY <2>1, <2>2, <2>3
    <3> QED BY <2>3, <3>1, PrefixIs
  <2>4. CASE ~ (Len(p) <= Len(q))
    <3>1. Len(q) <= Len(p) /\ \A i \in 1 .. Len(q) : q[i] = p[i]
      BY <2>1, <2>2, <2>4
    <3> QED BY <3>1, PrefixIs
  <2> QED BY <2>3, <2>4
<1> QED BY <1>1, <1>2, <1>3, <1>4, <1>5

\* The entry of p on the way down to q.
LEMMA WayDown ==
    ASSUME NEW p \in Path, NEW q \in Path, IsPrefix(p, q), p # q
    PROVE  LET c == SubSeq(q, 1, Len(p) + 1) IN
           /\ c \in Path /\ Len(c) = Len(p) + 1 /\ IsPrefix(p, c) /\ IsPrefix(c, q)
           /\ Len(p) + 1 \in 1 .. Len(q)
<1>1. Len(p) \in Nat /\ Len(q) \in Nat /\ Len(p) < Len(q)
  BY PathFacts, PrefixOrder
<1>2. Len(p) + 1 \in 1 .. Len(q)
  BY <1>1
<1> DEFINE c == SubSeq(q, 1, Len(p) + 1)
<1>3. c \in Path /\ Len(c) = Len(p) + 1 /\ \A i \in 1 .. Len(p) + 1 : c[i] = q[i]
  BY <1>2, FirstNames
<1> HIDE DEF c
<1>4. IsPrefix(c, q)
  BY <1>1, <1>2, <1>3, PrefixIs
<1>5. IsPrefix(p, c)
  <2>1. \A i \in 1 .. Len(p) : p[i] = q[i]
    BY PrefixIs
  <2>2. \A i \in 1 .. Len(p) : p[i] = c[i]
    BY <1>1, <1>3, <2>1
  <2> QED BY <1>1, <1>3, <2>2, PrefixIs
<1> QED BY <1>2, <1>3, <1>4, <1>5 DEF c

LEMMA FrontFacts ==
    ASSUME NEW p \in Path, Len(p) > 1
    PROVE  /\ Front(p) \in Path /\ Len(Front(p)) = Len(p) - 1
           /\ \A i \in 1 .. Len(p) - 1 : Front(p)[i] = p[i]
           /\ IsPrefix(Front(p), p) /\ Len(p) - 1 \in 1 .. Len(p)
           /\ \A q \in Path : IsPrefix(q, p) /\ q # p => IsPrefix(q, Front(p))
<1>1. Len(p) \in Nat /\ Len(p) - 1 \in 1 .. Len(p)
  BY PathFacts
<1>2. /\ Front(p) \in Path /\ Len(Front(p)) = Len(p) - 1
      /\ \A i \in 1 .. Len(p) - 1 : Front(p)[i] = p[i]
  BY <1>1, FirstNames DEF Front
<1>3. IsPrefix(Front(p), p)
  BY <1>1, <1>2, PrefixIs
<1>4. ASSUME NEW q \in Path, IsPrefix(q, p), q # p PROVE IsPrefix(q, Front(p))
  <2>1. Len(q) \in Nat /\ Len(q) < Len(p) /\ \A i \in 1 .. Len(q) : q[i] = p[i]
    BY <1>4, PathFacts, PrefixOrder, PrefixIs
  <2>2. Len(q) <= Len(Front(p)) /\ \A i \in 1 .. Len(q) : q[i] = Front(p)[i]
    BY <1>1, <1>2, <2>1
  <2> QED BY <1>2, <2>2, PrefixIs
<1> QED BY <1>1, <1>2, <1>3, <1>4
-----------------------------------------------------------------------------
(* The path in the destination *)

To(d, s, p) == d \o SubSeq(p, Len(s), Len(p))

LEMMA RestOfPath ==
    ASSUME NEW p \in Path, NEW m \in 1 .. Len(p)
    PROVE  LET r == SubSeq(p, m, Len(p)) IN
           /\ r \in Seq(STRING) /\ Len(r) = Len(p) - m + 1
           /\ \A i \in 1 .. Len(p) - m + 1 : r[i] = p[m + i - 1]
<1>1. m \in Int /\ Len(p) \in Int /\ m <= Len(p) /\ \A i \in m .. Len(p) : p[i] \in STRING
  BY PathFacts
<1> QED BY <1>1, SubSeqProperties

LEMMA ToIs ==
    ASSUME NEW d \in Path, NEW s \in Path, NEW p \in Path, IsPrefix(s, p)
    PROVE  LET t == To(d, s, p) IN
           /\ t \in Path /\ Len(t) = Len(d) + (Len(p) - Len(s) + 1)
           /\ \A i \in 1 .. Len(d) : t[i] = d[i]
           /\ \A i \in 1 .. Len(p) - Len(s) + 1 : t[Len(d) + i] = p[Len(s) + i - 1]
<1>1. Len(s) \in 1 .. Len(p) /\ Len(d) \in Nat /\ Len(p) \in Nat /\ Len(d) > 0
  BY PathFacts, PrefixOrder
<1> DEFINE r == SubSeq(p, Len(s), Len(p))
           t == To(d, s, p)
<1>2. /\ r \in Seq(STRING) /\ Len(r) = Len(p) - Len(s) + 1
      /\ \A i \in 1 .. Len(p) - Len(s) + 1 : r[i] = p[Len(s) + i - 1]
  BY <1>1, RestOfPath
<1>3. t = d \o r /\ d \in Seq(STRING)
  BY PathFacts DEF To
<1> HIDE DEF r, t
<1>4. /\ t \in Seq(STRING) /\ Len(t) = Len(d) + Len(r)
      /\ \A i \in 1 .. Len(d) + Len(r) :
            t[i] = IF i <= Len(d) THEN d[i] ELSE r[i - Len(d)]
  BY <1>2, <1>3, ConcatProperties
<1>5. t \in Path
  <2>1. Len(t) > 0
    BY <1>1, <1>2, <1>4
  <2> QED BY <2>1, <1>4, EmptySeq DEF Path
<1>6. \A i \in 1 .. Len(d) : t[i] = d[i]
  <2>1. \A i \in 1 .. Len(d) : i \in 1 .. Len(d) + Len(r) /\ i <= Len(d)
    BY <1>1, <1>2
  <2> QED BY <2>1, <1>4
<1>7. ASSUME NEW i \in 1 .. Len(p) - Len(s) + 1 PROVE t[Len(d) + i] = p[Len(s) + i - 1]
  <2>1. Len(d) + i \in 1 .. Len(d) + Len(r) /\ ~ (Len(d) + i <= Len(d))
        /\ (Len(d) + i) - Len(d) = i
    BY <1>1, <1>2
  <2>2. t[Len(d) + i] = r[i]
    BY <2>1, <1>4
  <2> QED BY <2>2, <1>2
<1>8. Len(t) = Len(d) + (Len(p) - Len(s) + 1)
  BY <1>2, <1>4
<1> QED BY <1>5, <1>6, <1>7, <1>8 DEF t

\* Different entries go to different paths.
LEMMA ToInjective ==
    ASSUME NEW d \in Path, NEW s \in Path, NEW p \in Path, NEW q \in Path,
           IsPrefix(s, p), IsPrefix(s, q), To(d, s, p) = To(d, s, q)
    PROVE  p = q
<1>1. Len(s) \in Nat /\ Len(s) > 0 /\ Len(s) <= Len(p) /\ Len(d) \in Nat /\ Len(p) \in Nat
      /\ Len(q) \in Nat
  BY PathFacts, PrefixOrder
<1>2. Len(p) = Len(q)
  <2>1. Len(To(d, s, p)) = Len(d) + (Len(p) - Len(s) + 1)
    BY ToIs
  <2>2. Len(To(d, s, q)) = Len(d) + (Len(q) - Len(s) + 1)
    BY ToIs
  <2> QED BY <1>1, <2>1, <2>2
<1>3. ASSUME NEW i \in 1 .. Len(p) PROVE p[i] = q[i]
  <2>1. CASE i <= Len(s)
    <3>1. i \in 1 .. Len(s)
      BY <1>1, <2>1
    <3> QED BY <3>1, PrefixIs
  <2>2. CASE ~ (i <= Len(s))
    <3>1. PICK j \in 1 .. Len(p) - Len(s) + 1 : Len(s) + j - 1 = i
      <4>1. i - Len(s) + 1 \in 1 .. Len(p) - Len(s) + 1 /\ Len(s) + (i - Len(s) + 1) - 1 = i
        BY <1>1, <2>2
      <4> QED BY <4>1
    <3>2. To(d, s, p)[Len(d) + j] = p[Len(s) + j - 1]
      BY ToIs
    <3>3. To(d, s, q)[Len(d) + j] = q[Len(s) + j - 1]
      <4>1. j \in 1 .. Len(q) - Len(s) + 1
        BY <1>2
      <4>2. \A k \in 1 .. Len(q) - Len(s) + 1 : To(d, s, q)[Len(d) + k] = q[Len(s) + k - 1]
        BY ONLY d \in Path, s \in Path, q \in Path, IsPrefix(s, q), ToIs
      <4> QED BY <4>1, <4>2
    <3> QED BY <3>1, <3>2, <3>3
  <2> QED BY <2>1, <2>2
<1> QED BY <1>2, <1>3, PathFacts, SeqEqual

\* The copy of an entry is in the copy of its directory, the copy of src in d.
LEMMA ToFront ==
    ASSUME NEW d \in Path, NEW s \in Path, NEW p \in Path, IsPrefix(s, p), Len(s) > 1
    PROVE  /\ p = s => Front(To(d, s, p)) = d
           /\ p # s => /\ Front(p) \in Path /\ IsPrefix(s, Front(p))
                       /\ Front(To(d, s, p)) = To(d, s, Front(p))
<1> DEFINE t == To(d, s, p)
<1>1. Len(s) \in Nat /\ Len(s) <= Len(p) /\ Len(d) \in Nat /\ Len(p) \in Nat /\ Len(d) > 0
  BY PathFacts, PrefixOrder
<1>2. /\ t \in Path /\ Len(t) = Len(d) + (Len(p) - Len(s) + 1)
      /\ \A i \in 1 .. Len(d) : t[i] = d[i]
      /\ \A i \in 1 .. Len(p) - Len(s) + 1 : t[Len(d) + i] = p[Len(s) + i - 1]
  BY ToIs
<1> HIDE DEF t
<1>3. Len(t) > 1
  BY <1>1, <1>2
<1>4. /\ Front(t) \in Path /\ Len(Front(t)) = Len(d) + (Len(p) - Len(s))
      /\ \A i \in 1 .. Len(d) + (Len(p) - Len(s)) : Front(t)[i] = t[i]
  <2>1. /\ Front(t) \in Path /\ Len(Front(t)) = Len(t) - 1
        /\ \A i \in 1 .. Len(t) - 1 : Front(t)[i] = t[i]
    BY <1>2, <1>3, FrontFacts
  <2>2. Len(t) - 1 = Len(d) + (Len(p) - Len(s))
    BY <1>1, <1>2
  <2> QED BY <2>1, <2>2
<1>5. CASE p = s
  <2>1. Len(Front(t)) = Len(d)
    BY <1>1, <1>4, <1>5
  <2>2. \A i \in 1 .. Len(d) : Front(t)[i] = d[i]
    BY <1>1, <1>2, <1>4, <1>5
  <2>3. Front(t) = d
    BY <2>1, <2>2, <1>4, PathFacts, SeqEqual
  <2> QED BY <2>3, <1>5 DEF t
<1>6. CASE p # s
  <2>1. Len(p) > Len(s)
    BY <1>1, <1>6, PrefixOrder
  <2>2. /\ Front(p) \in Path /\ Len(Front(p)) = Len(p) - 1 /\ IsPrefix(s, Front(p))
        /\ \A i \in 1 .. Len(p) - 1 : Front(p)[i] = p[i]
    BY <1>1, <1>6, <2>1, FrontFacts
  <2> DEFINE u == To(d, s, Front(p))
  <2>3. /\ u \in Path /\ Len(u) = Len(d) + (Len(Front(p)) - Len(s) + 1)
        /\ \A i \in 1 .. Len(d) : u[i] = d[i]
        /\ \A i \in 1 .. Len(Front(p)) - Len(s) + 1 : u[Len(d) + i] = Front(p)[Len(s) + i - 1]
    BY <2>2, ToIs
  <2> HIDE DEF u
  <2>4. Len(u) = Len(Front(t)) /\ Len(Front(p)) - Len(s) + 1 = Len(p) - Len(s)
    BY <1>1, <1>4, <2>2, <2>3
  <2>5. ASSUME NEW i \in 1 .. Len(Front(t)) PROVE Front(t)[i] = u[i]
    <3>1. i \in 1 .. Len(d) + (Len(p) - Len(s)) /\ Front(t)[i] = t[i]
      BY <1>4
    <3>2. CASE i <= Len(d)
      BY <1>1, <1>2, <2>3, <3>1, <3>2
    <3>3. CASE ~ (i <= Len(d))
      <4>1. PICK j \in 1 .. Len(p) - Len(s) : Len(d) + j = i
        <5>1. i - Len(d) \in 1 .. Len(p) - Len(s) /\ Len(d) + (i - Len(d)) = i
          BY <1>1, <3>1, <3>3
        <5> QED BY <5>1
      <4>2. j \in 1 .. Len(p) - Len(s) + 1 /\ Len(s) + j - 1 \in 1 .. Len(p) - 1
        BY <1>1
      <4>3. t[i] = p[Len(s) + j - 1]
        BY <4>1, <4>2, <1>2
      <4>4. u[i] = Front(p)[Len(s) + j - 1]
        BY <4>1, <2>3, <2>4
      <4> QED BY <3>1, <4>2, <4>3, <4>4, <2>2
    <3> QED BY <3>2, <3>3
  <2>6. Front(t) = u
    BY <1>4, <2>3, <2>4, <2>5, PathFacts, SeqEqual
  <2> QED BY <2>2, <2>6, <1>6 DEF t, u
<1> QED BY <1>5, <1>6

LEMMA ToBelow ==
    ASSUME NEW d \in Path, NEW s \in Path, NEW p \in Path, IsPrefix(s, p)
    PROVE  Append(d, Last(s)) \in Path /\ IsPrefix(Append(d, Last(s)), To(d, s, p))
           /\ Len(Append(d, Last(s))) = Len(d) + 1
<1> DEFINE t == To(d, s, p)
           r == Append(d, Last(s))
<1>1. Len(s) \in 1 .. Len(s) /\ Len(s) <= Len(p) /\ Len(d) \in Nat /\ Len(p) \in Nat
      /\ Len(d) > 0 /\ Len(s) \in Nat
  BY PathFacts, PrefixOrder
<1>2. Last(s) = s[Len(s)] /\ s[Len(s)] \in STRING /\ s[Len(s)] = p[Len(s)] /\ d \in Seq(STRING)
  BY <1>1, PathFacts, PrefixIs DEF Last
<1>3. /\ r \in Seq(STRING) /\ Len(r) = Len(d) + 1
      /\ \A i \in 1 .. Len(d) : r[i] = d[i]
      /\ r[Len(d) + 1] = Last(s)
  BY <1>2, AppendProperties
<1>4. r \in Path
  BY <1>1, <1>3, EmptySeq DEF Path
<1>5. /\ t \in Path /\ Len(t) = Len(d) + (Len(p) - Len(s) + 1)
      /\ \A i \in 1 .. Len(d) : t[i] = d[i]
      /\ t[Len(d) + 1] = p[Len(s)]
  <2>1. 1 \in 1 .. Len(p) - Len(s) + 1 /\ Len(s) + 1 - 1 = Len(s)
    BY <1>1
  <2> QED BY <2>1, ToIs
<1> HIDE DEF r, t
<1>6. Len(r) <= Len(t) /\ \A i \in 1 .. Len(r) : r[i] = t[i]
  BY <1>1, <1>2, <1>3, <1>5
<1>7. IsPrefix(r, t)
  BY <1>4, <1>5, <1>6, PrefixIs
<1> QED BY <1>3, <1>4, <1>7 DEF r, t
-----------------------------------------------------------------------------
(* "same file?" *)

Word == STRING \cup {NoName}

LEMMA TextIs ==
    ASSUME NEW p \in Path
    PROVE  /\ Text(p) \in Seq(Word) /\ Len(Text(p)) = Len(p) + 1
           /\ \A i \in 2 .. Len(p) : Text(p)[i + 1] = p[i]
<1>1. p \in Seq(STRING) /\ p # <<>> /\ Len(p) \in Nat /\ Len(p) > 0
  BY PathFacts, EmptySeq
<1>2. /\ Head(p) \in STRING /\ Tail(p) \in Seq(STRING) /\ Len(Tail(p)) = Len(p) - 1
      /\ \A i \in 1 .. Len(Tail(p)) : Tail(p)[i] = p[i + 1]
  BY <1>1, HeadTailProperties
<1> DEFINE h == <<Head(p), NoName>>
           t == Tail(p)
<1>3. h \in Seq(Word) /\ Len(h) = 2 /\ t \in Seq(Word)
  <2>1. Head(p) \in Word /\ NoName \in Word
    BY <1>2 DEF Word
  <2>2. t \in Seq(Word)
    BY <1>2, SeqMonotonic DEF Word
  <2> QED BY <2>1, <2>2
<1> HIDE DEF h, t
<1>4. Text(p) = h \o t
  BY DEF Text, h, t
<1>5. /\ h \o t \in Seq(Word) /\ Len(h \o t) = Len(h) + Len(t)
      /\ \A i \in 1 .. Len(h) + Len(t) : (h \o t)[i] = IF i <= Len(h) THEN h[i] ELSE t[i - Len(h)]
  BY <1>3, ConcatProperties
<1>6. Len(Text(p)) = Len(p) + 1
  BY <1>1, <1>2, <1>3, <1>4, <1>5 DEF t
<1>7. ASSUME NEW i \in 2 .. Len(p) PROVE Text(p)[i + 1] = p[i]
  <2>1. i + 1 \in 1 .. Len(h) + Len(t) /\ ~ (i + 1 <= Len(h)) /\ i + 1 - Len(h) = i - 1
        /\ i - 1 \in 1 .. Len(t) /\ i - 1 + 1 = i
    BY <1>1, <1>2, <1>3 DEF t
  <2>2. Text(p)[i + 1] = t[i - 1]
    BY <2>1, <1>4, <1>5
  <2>3. t[i - 1] = p[i - 1 + 1]
    BY <2>1, <1>2 DEF t
  <2> QED BY <2>1, <2>2, <2>3
<1> QED BY <1>4, <1>5, <1>6, <1>7

\* The text of dp has two slashes together, that of a name has not.
LEMMA NeverSame ==
    ASSUME NEW p \in Path, NoName \notin Range(p), src \in Path, dst \in Path, IsPrefix(src, p)
    PROVE  ~ SameFile(p)
<1> DEFINE x == Text(dst)
           y == <<NoName>>
           r == SubSeq(p, Len(src), Len(p))
           xy == x \o y
<1>1. SUFFICES ASSUME Text(p) = xy \o r PROVE FALSE
  BY DEF SameFile, TargetText
<1>2. x \in Seq(Word) /\ Len(x) = Len(dst) + 1 /\ Len(dst) \in Nat /\ Len(dst) > 0
  BY TextIs, PathFacts
<1>3. y \in Seq(Word) /\ Len(y) = 1 /\ y[1] = NoName
  BY DEF Word
<1>4. r \in Seq(Word) /\ Len(r) \in Nat
  <2>1. Len(src) \in 1 .. Len(p)
    BY PathFacts, PrefixOrder
  <2>2. r \in Seq(STRING)
    BY <2>1, RestOfPath
  <2> QED BY <2>2, SeqMonotonic DEF Word
<1> HIDE DEF x, y, r, xy
<1>5. /\ xy \in Seq(Word) /\ Len(xy) = Len(x) + Len(y)
      /\ \A i \in 1 .. Len(x) + Len(y) : xy[i] = IF i <= Len(x) THEN x[i] ELSE y[i - Len(x)]
  BY <1>2, <1>3, ConcatProperties DEF xy
<1>6. xy[Len(dst) + 2] = NoName /\ Len(xy) = Len(dst) + 2
  <2>1. Len(dst) + 2 \in 1 .. Len(x) + Len(y) /\ ~ (Len(dst) + 2 <= Len(x))
        /\ Len(dst) + 2 - Len(x) = 1
    BY <1>2, <1>3
  <2> QED BY <2>1, <1>2, <1>3, <1>5
<1>7. /\ Len(xy \o r) = Len(xy) + Len(r)
      /\ \A i \in 1 .. Len(xy) + Len(r) :
            (xy \o r)[i] = IF i <= Len(xy) THEN xy[i] ELSE r[i - Len(xy)]
  BY <1>4, <1>5, ConcatProperties
<1>8. Text(p)[Len(dst) + 2] = NoName /\ Len(Text(p)) >= Len(dst) + 2
  <2>1. Len(dst) + 2 \in 1 .. Len(xy) + Len(r) /\ Len(dst) + 2 <= Len(xy)
    BY <1>2, <1>4, <1>6
  <2> QED BY <2>1, <1>1, <1>4, <1>6, <1>7
<1>9. Len(dst) + 1 \in 2 .. Len(p)
  <2>1. Len(p) + 1 >= Len(dst) + 2
    BY <1>8, TextIs
  <2> QED BY <2>1, <1>2, PathFacts
<1>10. p[Len(dst) + 1] = NoName
  <2>1. Text(p)[(Len(dst) + 1) + 1] = p[Len(dst) + 1]
    BY <1>9, TextIs
  <2>2. (Len(dst) + 1) + 1 = Len(dst) + 2
    BY <1>2
  <2> QED BY <2>1, <2>2, <1>8
<1>11. Len(dst) + 1 \in DOMAIN p
  BY <1>9, <1>2, PathFacts
<1> QED BY <1>10, <1>11 DEF Range
-----------------------------------------------------------------------------
(* The inductive invariant *)

Tree == Below(src, before)
Root == IF op = "delete" THEN src ELSE Append(dst, Last(src))

\* What the job was started with.
ArgsInv ==
    /\ before \in Disks /\ op \in {"copy", "delete"}
    /\ src \in DOMAIN before /\ Len(src) > 1
    /\ dst \in DOMAIN before /\ before[dst] = Dir

\* The list: each entry once, behind the directories around it, and as what it is.
ListInv ==
    /\ entries \in Seq([path : Tree, dir : BOOLEAN])
    /\ \A i \in DOMAIN entries :
          entries[i].path \in failed \/ entries[i].dir = before[entries[i].path].dir
    /\ \A i, j \in DOMAIN entries : IsPrefix(entries[i].path, entries[j].path) => i <= j
    /\ failed \subseteq Tree
    /\ ktr \in Nat /\ ktr > 0

Known == {entries[i].path : i \in DOMAIN entries}
Lost(p) == \E f \in failed : IsPrefix(f, p)

\* While directories are read, what is below an entry of the stack is not listed yet; what
\* is below none is, unless a call failed.
Stack(td, known, lost) ==
    /\ td \in Seq(SUBSET Tree)
    /\ \A i, j \in DOMAIN td : \A p \in td[i], q \in td[j] : IsPrefix(p, q) => p = q /\ i = j
    /\ \A i \in DOMAIN td : \A p \in td[i], k \in known : ~ IsPrefix(p, k)
    /\ \A p \in Tree :
          \/ p \in known
          \/ \E f \in lost : IsPrefix(f, p)
          \/ \E i \in DOMAIN td : \E t \in td[i] : IsPrefix(t, p)

\* Below src is left what is still to be deleted, and what a failure is in or around.
DeleteInv ==
    /\ DOMAIN disk \subseteq DOMAIN before /\ \A p \in DOMAIN disk : disk[p] = before[p]
    /\ \A p \in Below(src, disk) :
          \/ \E i \in DOMAIN entries : i <= Len(entries) + 1 - ktr /\ entries[i].path = p
          \/ \E f \in failed : IsPrefix(p, f) \/ IsPrefix(f, p)

Same(p) ==
    /\ p \in DOMAIN disk <=> p \in DOMAIN before
    /\ p \in DOMAIN before => disk[p] = before[p]
Done(p) ==
    \/ Lost(p)
    \/ CrossFat /\ ~ before[p].dir
    \/ Target(p) \in DOMAIN disk /\ disk[Target(p)] = before[p]

\* The entries that were worked on, the one of an endless copy included.
Worked == IF phase = "endless" THEN ktr ELSE ktr - 1

\* Outside of the copy nothing has changed, and the copy holds the copies of the entries
\* that were worked on.
CopyInv ==
    /\ \A p \in DOMAIN disk \cup DOMAIN before : IsPrefix(Root, p) \/ Same(p)
    /\ Clear =>
          /\ \A p \in Below(Root, disk) :
                \E i \in DOMAIN entries : i <= Worked /\ p = Target(entries[i].path)
          /\ \A i \in DOMAIN entries : i <= Worked => Done(entries[i].path)

IInv ==
    /\ ArgsInv /\ ListInv
    /\ phase \in {"scan", "ask"} => disk = before /\ ktr = 1
    /\ phase = "scan" => Stack(todo, Known, failed)
    /\ phase \notin {"scan", "lost"} => \A p \in Tree : p \in Known \/ Lost(p)
    /\ phase \in {"run", "done"} /\ op = "delete" => DeleteInv
    /\ phase \in {"run", "endless", "done"} /\ op = "copy" => CopyInv
    /\ phase = "done" => ktr > Len(entries)
    /\ phase = "endless" => /\ op = "copy" /\ ktr <= Len(entries)
                            /\ entries[ktr].path \in failed
-----------------------------------------------------------------------------
(* The disks at the start *)

LEMMA Types == Dir.dir = TRUE /\ \A x : File(x).dir = FALSE
BY DEF Dir, File

LEMMA BeforeFacts ==
    ASSUME before \in Disks
    PROVE  /\ \A p \in DOMAIN before :
                 /\ p \in Path /\ NoName \notin Range(p)
                 /\ before[p] = Dir \/ before[p].dir = FALSE
                 /\ before[p].dir \in BOOLEAN /\ (before[p].dir => before[p] = Dir)
           /\ \A q \in DOMAIN before : \A p \in Path :
                 IsPrefix(p, q) /\ p # q => p \in DOMAIN before /\ before[p] = Dir
<1>1. ASSUME NEW p \in DOMAIN before
      PROVE  /\ p \in Path /\ NoName \notin Range(p)
             /\ before[p] = Dir \/ before[p] = File(before[p].data)
             /\ \A n \in 1 .. Len(p) - 1 :
                   SubSeq(p, 1, n) \in DOMAIN before /\ before[SubSeq(p, 1, n)] = Dir
  BY DisksAssumption DEF Path
<1>2. ASSUME NEW q \in DOMAIN before, NEW p \in Path, IsPrefix(p, q), p # q
      PROVE  p \in DOMAIN before /\ before[p] = Dir
  <2>1. q \in Path
    BY <1>1
  <2>2. Len(p) \in 1 .. Len(q) - 1 /\ Len(p) \in 1 .. Len(q) /\ \A i \in 1 .. Len(p) : p[i] = q[i]
    BY <2>1, <1>2, PathFacts, PrefixOrder, PrefixIs
  <2>3. p = SubSeq(q, 1, Len(p))
    <3>1. SubSeq(q, 1, Len(p)) \in Path /\ Len(SubSeq(q, 1, Len(p))) = Len(p)
          /\ \A i \in 1 .. Len(p) : SubSeq(q, 1, Len(p))[i] = q[i]
      BY <2>1, <2>2, FirstNames
    <3> QED BY <3>1, <2>2, PathFacts, SeqEqual
  <2> QED BY <2>2, <2>3, <1>1
<1>3. ASSUME NEW p \in DOMAIN before
      PROVE  /\ before[p] = Dir \/ before[p].dir = FALSE
             /\ before[p].dir \in BOOLEAN /\ (before[p].dir => before[p] = Dir)
  <2>1. before[p] = Dir \/ before[p] = File(before[p].data)
    BY <1>1
  <2>2. CASE before[p] = Dir
    BY <2>2, Types
  <2>3. CASE before[p] = File(before[p].data)
    <3>1. before[p].dir = FALSE
      BY <2>3, Types
    <3> QED BY <3>1
  <2> QED BY <2>1, <2>2, <2>3
<1> QED BY <1>1, <1>2, <1>3

LEMMA TreeFacts ==
    ASSUME ArgsInv
    PROVE  /\ src \in Path /\ dst \in Path /\ src \in Tree
           /\ \A p \in Tree : p \in Path /\ p \in DOMAIN before /\ IsPrefix(src, p)
           /\ \A p \in Tree, q \in DOMAIN before : IsPrefix(p, q) => q \in Tree
<1>1. src \in Path /\ dst \in Path /\ src \in DOMAIN before
  BY BeforeFacts DEF ArgsInv
<1>2. \A p : p \in Tree <=> p \in DOMAIN before /\ IsPrefix(src, p)
  BY DEF Tree, Below
<1>3. \A p \in DOMAIN before : p \in Path
  BY BeforeFacts DEF ArgsInv
<1> QED BY <1>1, <1>2, <1>3, PrefixOrder

-----------------------------------------------------------------------------
(* The stack of the scan *)

\* An entry is taken off.
LEMMA Popped ==
    ASSUME NEW td \in Seq(SUBSET Tree), td # <<>>, NEW p \in Head(td)
    PROVE  LET r == <<Head(td) \ {p}>> \o Tail(td) IN
           /\ r \in Seq(SUBSET Tree) /\ Len(r) = Len(td) /\ 1 \in DOMAIN td /\ r # <<>>
           /\ p \in td[1] /\ r[1] = td[1] \ {p} /\ DOMAIN r = DOMAIN td
           /\ \A i \in DOMAIN td : i # 1 => r[i] = td[i]
<1> DEFINE h == <<Head(td) \ {p}>>
           t == Tail(td)
<1>1. /\ Len(td) \in Nat /\ Len(td) > 0 /\ DOMAIN td = 1 .. Len(td) /\ Head(td) = td[1]
      /\ Head(td) \in SUBSET Tree
  BY EmptySeq, LenProperties, ElementOfSeq
<1>2. /\ t \in Seq(SUBSET Tree) /\ Len(t) = Len(td) - 1
      /\ \A i \in 1 .. Len(t) : t[i] = td[i + 1]
  BY HeadTailProperties
<1>3. h \in Seq(SUBSET Tree) /\ Len(h) = 1 /\ h[1] = td[1] \ {p}
  BY <1>1
<1> HIDE DEF h, t
<1>4. /\ h \o t \in Seq(SUBSET Tree) /\ Len(h \o t) = Len(h) + Len(t)
      /\ \A i \in 1 .. Len(h) + Len(t) : (h \o t)[i] = IF i <= Len(h) THEN h[i] ELSE t[i - Len(h)]
  <2>1. t \in Seq(SUBSET Tree) /\ h \in Seq(SUBSET Tree)
    BY <1>2, <1>3
  <2> QED BY ONLY <2>1, ConcatProperties
<1> DEFINE r == h \o t
<1>5. r \in Seq(SUBSET Tree) /\ Len(r) = Len(td)
  BY <1>1, <1>2, <1>3, <1>4
<1>6. r[1] = td[1] \ {p}
  BY <1>1, <1>2, <1>3, <1>4
<1>7. ASSUME NEW i \in DOMAIN td, i # 1 PROVE r[i] = td[i]
  <2>1. i \in 1 .. Len(h) + Len(t) /\ ~ (i <= Len(h)) /\ i - Len(h) = i - 1 /\ i - 1 \in 1 .. Len(t)
        /\ i - 1 + 1 = i
    BY <1>1, <1>2, <1>3, <1>7
  <2> QED BY <2>1, <1>2, <1>4
<1> HIDE DEF r
<1>8. DOMAIN r = DOMAIN td /\ 1 \in DOMAIN td /\ r # <<>>
  BY <1>1, <1>5, LenProperties, EmptySeq
<1> QED BY <1>1, <1>5, <1>6, <1>7, <1>8 DEF r, h, t

\* A directory is begun.
LEMMA Pushed ==
    ASSUME NEW td \in Seq(SUBSET Tree), NEW C \in SUBSET Tree
    PROVE  LET r == <<C>> \o td IN
           /\ r \in Seq(SUBSET Tree) /\ r[1] = C /\ 1 \in DOMAIN r
           /\ \A i \in DOMAIN r : i = 1 \/ (i - 1 \in DOMAIN td /\ r[i] = td[i - 1])
           /\ \A i \in DOMAIN td : i + 1 \in DOMAIN r /\ r[i + 1] = td[i]
<1> DEFINE h == <<C>>
           r == h \o td
<1>1. h \in Seq(SUBSET Tree) /\ Len(h) = 1 /\ h[1] = C
  OBVIOUS
<1>2. Len(td) \in Nat /\ DOMAIN td = 1 .. Len(td)
  BY LenProperties
<1> HIDE DEF h
<1>3. /\ r \in Seq(SUBSET Tree) /\ Len(r) = Len(h) + Len(td)
      /\ \A i \in 1 .. Len(h) + Len(td) : r[i] = IF i <= Len(h) THEN h[i] ELSE td[i - Len(h)]
  BY <1>1, ConcatProperties
<1>4. DOMAIN r = 1 .. Len(td) + 1
  BY <1>1, <1>2, <1>3, LenProperties
<1> HIDE DEF r
<1>5. r[1] = C
  BY <1>1, <1>2, <1>3
<1>6. ASSUME NEW i \in DOMAIN td PROVE i + 1 \in DOMAIN r /\ r[i + 1] = td[i]
  <2>1. i + 1 \in 1 .. Len(h) + Len(td) /\ ~ (i + 1 <= Len(h)) /\ i + 1 - Len(h) = i
    BY <1>1, <1>2
  <2> QED BY <2>1, <1>1, <1>2, <1>3, <1>4
<1>7. ASSUME NEW i \in DOMAIN r, i # 1 PROVE i - 1 \in DOMAIN td /\ r[i] = td[i - 1]
  <2>1. i - 1 \in DOMAIN td /\ i - 1 + 1 = i
    BY <1>2, <1>4, <1>7
  <2> QED BY <2>1, <1>6
<1> QED BY <1>2, <1>3, <1>4, <1>5, <1>6, <1>7 DEF h, r

\* Nothing more is read of an entry that is off the stack: what is below it is listed or lost.
LEMMA StackPop ==
    ASSUME ArgsInv, NEW td, NEW kn, NEW fl, Stack(td, kn, fl), td # <<>>, NEW p \in Head(td),
           NEW kn2, kn2 = kn \/ kn2 = kn \cup {p}, NEW fl2, fl \subseteq fl2,
           \A q \in Tree : IsPrefix(p, q) => q \in kn2 \/ \E f \in fl2 : IsPrefix(f, q)
    PROVE  Stack(<<Head(td) \ {p}>> \o Tail(td), kn2, fl2)
<1> DEFINE r == <<Head(td) \ {p}>> \o Tail(td)
<1>1. td \in Seq(SUBSET Tree)
  BY DEF Stack
<1>2. /\ r \in Seq(SUBSET Tree) /\ 1 \in DOMAIN td /\ p \in td[1]
      /\ r[1] = td[1] \ {p} /\ DOMAIN r = DOMAIN td
      /\ \A i \in DOMAIN td : i # 1 => r[i] = td[i]
  BY <1>1, Popped
<1> HIDE DEF r
<1>3. \A i \in DOMAIN td : \A t : t \in r[i] <=> t \in td[i] /\ ~ (i = 1 /\ t = p)
  BY <1>2
<1>4. \A i, j \in DOMAIN r : \A t \in r[i], q \in r[j] : IsPrefix(t, q) => t = q /\ i = j
  BY <1>2, <1>3 DEF Stack
<1>5. \A i \in DOMAIN r : \A t \in r[i], k \in kn2 : ~ IsPrefix(t, k)
  <2>1. \A i \in DOMAIN td : \A t \in td[i], k \in kn : ~ IsPrefix(t, k)
    BY DEF Stack
  <2>2. \A i \in DOMAIN td : \A t \in td[i] : IsPrefix(t, p) => t = p /\ i = 1
    BY <1>2 DEF Stack
  <2> QED BY <2>1, <2>2, <1>2, <1>3
<1>6. ASSUME NEW q \in Tree
      PROVE  \/ q \in kn2 \/ \E f \in fl2 : IsPrefix(f, q)
             \/ \E i \in DOMAIN r : \E t \in r[i] : IsPrefix(t, q)
  <2>1. CASE q \in kn \/ \E f \in fl : IsPrefix(f, q)
    BY <2>1
  <2>2. CASE \E i \in DOMAIN td : \E t \in td[i] : IsPrefix(t, q)
    BY <2>2, <1>2, <1>3
  <2> QED BY <2>1, <2>2 DEF Stack
<1> QED BY <1>2, <1>4, <1>5, <1>6 DEF Stack, r

\* A directory is listed and begun.
LEMMA StackPush ==
    ASSUME ArgsInv, NEW td, NEW kn \in SUBSET Tree, NEW fl, Stack(td, kn, fl), td # <<>>,
           NEW p \in Head(td), NEW kn2, NEW fl2, fl \subseteq fl2,
           kn2 = kn \cup {p} \/ (kn2 = kn /\ p \in fl2), NEW C \in SUBSET Tree, \A c \in C : IsPrefix(p, c) /\ Len(c) = Len(p) + 1,
           \A q \in Tree : IsPrefix(p, q) => q = p \/ \E c \in C : IsPrefix(c, q)
    PROVE  Stack(<<C>> \o (<<Head(td) \ {p}>> \o Tail(td)), kn2, fl2)
<1> DEFINE m == <<Head(td) \ {p}>> \o Tail(td)
           r == <<C>> \o m
<1>1. td \in Seq(SUBSET Tree)
  BY DEF Stack
<1>2. /\ m \in Seq(SUBSET Tree) /\ 1 \in DOMAIN td /\ p \in td[1]
      /\ m[1] = td[1] \ {p} /\ DOMAIN m = DOMAIN td
      /\ \A i \in DOMAIN td : i # 1 => m[i] = td[i]
  BY <1>1, Popped
<1> HIDE DEF m
<1>3. /\ r \in Seq(SUBSET Tree) /\ r[1] = C /\ 1 \in DOMAIN r
      /\ \A i \in DOMAIN r : i = 1 \/ (i - 1 \in DOMAIN m /\ r[i] = m[i - 1])
      /\ \A i \in DOMAIN m : i + 1 \in DOMAIN r /\ r[i + 1] = m[i]
  BY <1>2, Pushed
<1> HIDE DEF r
<1>4. \A i \in DOMAIN td : \A t : t \in m[i] <=> t \in td[i] /\ ~ (i = 1 /\ t = p)
  BY <1>2
<1>5. /\ p \in Path /\ p \in Tree /\ C \subseteq Path
      /\ \A i \in DOMAIN td : \A t \in td[i] : t \in Path
      /\ \A i, j \in DOMAIN td : \A t \in td[i], q \in td[j] : IsPrefix(t, q) => t = q /\ i = j
      /\ \A i \in DOMAIN td : \A t \in td[i], k \in kn : ~ IsPrefix(t, k)
  <2>1. td[1] \in SUBSET Tree /\ \A i \in DOMAIN td : td[i] \in SUBSET Tree
    BY <1>1, <1>2
  <2> QED BY <2>1, <1>2, TreeFacts DEF Stack
<1>6. \A i \in DOMAIN m : \A t \in m[i] : ~ IsPrefix(t, p) /\ ~ IsPrefix(p, t)
  BY <1>2, <1>4, <1>5
<1>7. \A i \in DOMAIN m : \A t \in m[i], c \in C : ~ IsPrefix(t, c) /\ ~ IsPrefix(c, t)
  <2>1. SUFFICES ASSUME NEW i \in DOMAIN m, NEW t \in m[i], NEW c \in C
                 PROVE  ~ IsPrefix(t, c) /\ ~ IsPrefix(c, t)
    OBVIOUS
  <2>2. t \in Path /\ c \in Path /\ p \in Path /\ IsPrefix(p, c)
        /\ ~ IsPrefix(t, p) /\ ~ IsPrefix(p, t)
    BY <1>2, <1>4, <1>5, <1>6
  <2> QED BY <2>2, PrefixOrder
<1>8. \A c, d \in C : IsPrefix(c, d) => c = d
  <2>1. SUFFICES ASSUME NEW c \in C, NEW d \in C, IsPrefix(c, d) PROVE c = d
    OBVIOUS
  <2>2. c \in Path /\ d \in Path /\ Len(d) <= Len(c)
    BY <1>5, PathFacts
  <2> QED BY <2>1, <2>2, PrefixOrder
<1>9. ASSUME NEW i \in DOMAIN r, NEW j \in DOMAIN r, NEW t \in r[i], NEW q \in r[j], IsPrefix(t, q)
      PROVE  t = q /\ i = j
  <2>1. CASE i = 1 /\ j = 1
    BY <2>1, <1>3, <1>8, <1>9
  <2>2. CASE i = 1 /\ j # 1
    BY <2>2, <1>3, <1>7, <1>9
  <2>3. CASE i # 1 /\ j = 1
    BY <2>3, <1>3, <1>7, <1>9
  <2>4. CASE i # 1 /\ j # 1
    <3>1. i - 1 \in DOMAIN td /\ j - 1 \in DOMAIN td /\ t \in td[i - 1] /\ q \in td[j - 1]
      BY <2>4, <1>2, <1>3, <1>4
    <3>2. t = q /\ i - 1 = j - 1
      BY <3>1, <1>5, <1>9
    <3>3. i \in Int /\ j \in Int
      BY <1>3, LenProperties
    <3> QED BY <3>2, <3>3
  <2> QED BY <2>1, <2>2, <2>3, <2>4
<1>10. ASSUME NEW i \in DOMAIN r, NEW t \in r[i], NEW k \in kn2 PROVE ~ IsPrefix(t, k)
  <2>1. CASE i = 1
    <3>1. t \in C /\ t \in Path /\ IsPrefix(p, t) /\ Len(t) = Len(p) + 1 /\ p \in Path
      BY <2>1, <1>3, <1>5
    <3>2. ~ IsPrefix(t, p)
      BY <3>1, PathFacts, PrefixOrder
    <3>3. k \in kn => ~ IsPrefix(t, k)
      <4>1. SUFFICES ASSUME k \in kn, IsPrefix(t, k) PROVE FALSE
        OBVIOUS
      <4>2. IsPrefix(p, k) /\ k \in Path
        BY <4>1, <3>1, PrefixOrder, TreeFacts
      <4> QED BY <4>1, <4>2, <1>2, <1>5
    <3> QED BY <3>2, <3>3
  <2>2. CASE i # 1
    <3>1. i - 1 \in DOMAIN td /\ i - 1 \in DOMAIN m /\ t \in m[i - 1] /\ t \in td[i - 1]
      BY <2>2, <1>2, <1>3, <1>4
    <3> QED BY <3>1, <1>5, <1>6
  <2> QED BY <2>1, <2>2
<1>11. ASSUME NEW q \in Tree
       PROVE  \/ q \in kn2 \/ \E f \in fl2 : IsPrefix(f, q)
              \/ \E i \in DOMAIN r : \E t \in r[i] : IsPrefix(t, q)
  <2>1. CASE q \in kn \/ \E f \in fl : IsPrefix(f, q)
    BY <2>1
  <2>2. CASE \E i \in DOMAIN td : \E t \in td[i] : IsPrefix(t, q)
    <3>1. PICK i \in DOMAIN td : \E t \in td[i] : IsPrefix(t, q)
      BY <2>2
    <3>2. PICK t \in td[i] : IsPrefix(t, q)
      BY <3>1
    <3>3. CASE t = p
      <4>1. q = p \/ \E c \in C : IsPrefix(c, q)
        BY <3>2, <3>3
      <4>2. CASE q = p
        BY <4>2, <3>2, <3>3
      <4>3. CASE \E c \in C : IsPrefix(c, q)
        BY <4>3, <1>3
      <4> QED BY <4>1, <4>2, <4>3
    <3>4. CASE t # p
      <4>1. t \in m[i] /\ i \in DOMAIN m
        BY <3>4, <1>2, <1>4
      <4> QED BY <4>1, <3>2, <1>3
    <3> QED BY <3>3, <3>4
  <2> QED BY <2>1, <2>2 DEF Stack
<1> QED BY <1>3, <1>9, <1>10, <1>11 DEF Stack, r, m

\* A directory is left.
LEMMA StackUp ==
    ASSUME NEW td, NEW kn, NEW fl, Stack(td, kn, fl), td # <<>>, ArgsInv
    PROVE  Stack(Tail(td), kn, fl \cup Head(td)) /\ Head(td) \subseteq Tree
<1>1. td \in Seq(SUBSET Tree)
  BY DEF Stack
<1> DEFINE r == Tail(td)
<1>2. /\ r \in Seq(SUBSET Tree) /\ Len(r) = Len(td) - 1 /\ Head(td) = td[1]
      /\ \A i \in 1 .. Len(r) : r[i] = td[i + 1]
      /\ Head(td) \in SUBSET Tree
  BY <1>1, HeadTailProperties
<1>3. Len(td) \in Nat /\ Len(td) > 0 /\ DOMAIN td = 1 .. Len(td) /\ DOMAIN r = 1 .. Len(r)
  BY <1>1, <1>2, EmptySeq, LenProperties
<1> HIDE DEF r
<1>4. \A i \in DOMAIN r : i + 1 \in DOMAIN td /\ r[i] = td[i + 1] /\ i \in Int
  BY <1>2, <1>3
<1>5. \A i \in DOMAIN td : i = 1 \/ (i - 1 \in DOMAIN r /\ r[i - 1] = td[i])
  <2>1. SUFFICES ASSUME NEW i \in DOMAIN td, i # 1 PROVE i - 1 \in DOMAIN r /\ r[i - 1] = td[i]
    OBVIOUS
  <2>2. i - 1 \in DOMAIN r /\ i - 1 + 1 = i
    BY <2>1, <1>2, <1>3
  <2> QED BY <2>2, <1>4
<1>6. \A i, j \in DOMAIN r : \A t \in r[i], q \in r[j] : IsPrefix(t, q) => t = q /\ i = j
  <2>1. SUFFICES ASSUME NEW i \in DOMAIN r, NEW j \in DOMAIN r, NEW t \in r[i], NEW q \in r[j],
                        IsPrefix(t, q)
                 PROVE  t = q /\ i = j
    OBVIOUS
  <2>2. t = q /\ i + 1 = j + 1
    BY <2>1, <1>4 DEF Stack
  <2> QED BY <2>2, <1>4
<1>7. \A i \in DOMAIN r : \A t \in r[i], k \in kn : ~ IsPrefix(t, k)
  BY <1>4 DEF Stack
<1>8. ASSUME NEW q \in Tree
      PROVE  \/ q \in kn \/ \E f \in fl \cup Head(td) : IsPrefix(f, q)
             \/ \E i \in DOMAIN r : \E t \in r[i] : IsPrefix(t, q)
  <2>1. CASE q \in kn \/ \E f \in fl : IsPrefix(f, q)
    BY <2>1
  <2>2. CASE \E i \in DOMAIN td : \E t \in td[i] : IsPrefix(t, q)
    BY <2>2, <1>2, <1>5
  <2> QED BY <2>1, <2>2 DEF Stack
<1> QED BY <1>2, <1>6, <1>7, <1>8 DEF Stack, r
-----------------------------------------------------------------------------
(* The scan keeps the invariant *)

LEMMA ListFacts ==
    ASSUME ListInv
    PROVE  /\ Len(entries) \in Nat /\ DOMAIN entries = 1 .. Len(entries)
           /\ \A i \in DOMAIN entries : entries[i].path \in Tree /\ entries[i].dir \in BOOLEAN
           /\ Known \in SUBSET Tree
           /\ \A p \in Known : \E i \in DOMAIN entries : entries[i].path = p
           /\ \A i \in DOMAIN entries : entries[i].path \in Known
<1>1. entries \in Seq([path : Tree, dir : BOOLEAN])
  BY DEF ListInv
<1>2. Len(entries) \in Nat /\ DOMAIN entries = 1 .. Len(entries)
  BY <1>1, LenProperties
<1>3. \A i \in DOMAIN entries : entries[i] \in [path : Tree, dir : BOOLEAN]
  BY <1>1, <1>2, ElementOfSeq
<1>4. \A i \in DOMAIN entries : entries[i].path \in Tree /\ entries[i].dir \in BOOLEAN
  BY <1>3
<1> QED BY <1>2, <1>4 DEF Known

\* One more entry, nothing below which is listed.
LEMMA ListMore ==
    ASSUME ListInv, NEW p \in Tree, NEW d \in BOOLEAN, Listed(p, d), failed \subseteq failed',
           failed' \subseteq Tree, p \in failed' \/ d = before[p].dir,
           \A k \in Known : ~ IsPrefix(p, k), ArgsInv, UNCHANGED <<args, ktr>>
    PROVE  ListInv' /\ Known' = Known \cup {p}
<1> DEFINE Rec == [path : Tree, dir : BOOLEAN]
           e == [path |-> p, dir |-> d]
           n == Len(entries)
<1>1. entries \in Seq(Rec) /\ e \in Rec /\ entries' = Append(entries, e)
  BY DEF ListInv, Listed
<1>2. n \in Nat /\ DOMAIN entries = 1 .. n
  BY ListFacts
<1>3. e.path = p /\ e.dir = d
  OBVIOUS
<1> HIDE DEF e, Rec
<1>4. /\ entries' \in Seq(Rec) /\ Len(entries') = n + 1
      /\ \A i \in 1 .. n : entries'[i] = entries[i]
      /\ entries'[n + 1] = e
  BY <1>1, AppendProperties
<1>5. DOMAIN entries' = 1 .. n + 1
  BY <1>4, LenProperties
<1>6. Tree' = Tree /\ before' = before
  BY DEF Tree, Below, args
<1>7. \A i \in DOMAIN entries' : i = n + 1 \/ (i \in DOMAIN entries /\ entries'[i] = entries[i])
  BY <1>2, <1>4, <1>5
<1>8. \A i \in DOMAIN entries :
         i \in DOMAIN entries' /\ entries'[i] = entries[i] /\ i <= n + 1 /\ i \in Int
  BY <1>2, <1>4, <1>5
<1>9. n + 1 \in DOMAIN entries' /\ entries'[n + 1].path = p /\ entries'[n + 1].dir = d
  BY <1>2, <1>3, <1>4, <1>5
<1> HIDE DEF n
<1>10. Known' = Known \cup {p}
  BY <1>7, <1>8, <1>9 DEF Known
<1>11. \A i \in DOMAIN entries' :
          entries'[i].path \in failed' \/ entries'[i].dir = before[entries'[i].path].dir
  BY <1>7, <1>9 DEF ListInv
<1>12. ASSUME NEW i \in DOMAIN entries', NEW j \in DOMAIN entries',
              IsPrefix(entries'[i].path, entries'[j].path)
       PROVE  i <= j
  <2>1. CASE i \in DOMAIN entries /\ j \in DOMAIN entries
    BY <2>1, <1>8, <1>12 DEF ListInv
  <2>2. CASE i = n + 1 /\ j \in DOMAIN entries
    BY <2>2, <1>8, <1>9, <1>12, ListFacts
  <2>3. CASE j = n + 1
    BY <2>3, <1>2, <1>5 DEF n
  <2> QED BY <2>1, <2>2, <2>3, <1>7
<1> QED BY <1>4, <1>6, <1>10, <1>11, <1>12 DEF ListInv, Rec

\* None more.
LEMMA ListSame ==
    ASSUME ListInv, failed \subseteq failed', failed' \subseteq Tree,
           UNCHANGED <<args, ktr, entries>>
    PROVE  ListInv' /\ Known' = Known
<1>1. Tree' = Tree /\ before' = before /\ entries' = entries /\ ktr' = ktr
  BY DEF Tree, Below, args
<1>2. Known' = Known
  BY <1>1 DEF Known
<1> QED BY <1>1, <1>2 DEF ListInv

LEMMA ScanKept ==
    ASSUME IInv, Scanning, ListInv', Stack(todo', Known', failed')
    PROVE  IInv'
<1>1. Tree' = Tree /\ UNCHANGED <<disk, args, phase, ktr>> /\ phase = "scan"
  BY DEF Tree, Below, args, Scanning
<1>2. Stack(todo, Known, failed)'
  BY <1>1 DEF Stack
<1>3. ArgsInv'
  BY <1>1 DEF ArgsInv, IInv, args
<1> QED BY <1>1, <1>2, <1>3 DEF IInv, args

\* Entries of the stack are entries of the disk.
LEMMA OnStack ==
    ASSUME IInv, Scanning, NEW p \in Head(todo)
    PROVE  /\ p \in Tree /\ p \in Path /\ disk = before /\ todo # <<>> /\ phase = "scan"
           /\ ArgsInv /\ ListInv /\ Stack(todo, Known, failed)
           /\ \A k \in Known : ~ IsPrefix(p, k)
           /\ IsDir(p) => before[p] = Dir /\ before[p].dir
           /\ IsFile(p) => before[p].dir = FALSE /\ \A q \in Tree : IsPrefix(p, q) => q = p
<1>1. /\ phase = "scan" /\ todo # <<>> /\ disk = before
      /\ ArgsInv /\ ListInv /\ Stack(todo, Known, failed)
  BY DEF IInv, Scanning
<1>2. todo \in Seq(SUBSET Tree)
  BY <1>1 DEF Stack
<1>3. 1 \in DOMAIN todo /\ p \in todo[1] /\ todo[1] \in SUBSET Tree
  <2>1. 1 \in 1 .. Len(todo) /\ Head(todo) = todo[1] /\ DOMAIN todo = 1 .. Len(todo)
    BY <1>1, <1>2, EmptySeq, LenProperties
  <2> QED BY <2>1, <1>2, ElementOfSeq
<1>4. p \in Tree /\ p \in Path /\ \A k \in Known : ~ IsPrefix(p, k)
  BY <1>1, <1>3, TreeFacts DEF Stack
<1>5. IsDir(p) => before[p] = Dir /\ before[p].dir
  BY <1>1, BeforeFacts DEF IsDir, ArgsInv
<1>6. ASSUME IsFile(p)
      PROVE  before[p].dir = FALSE /\ \A q \in Tree : IsPrefix(p, q) => q = p
  <2>1. before[p].dir = FALSE /\ before[p] # Dir
    BY <1>1, <1>6, BeforeFacts, Types DEF IsFile, ArgsInv
  <2>2. \A q \in Tree : IsPrefix(p, q) => q = p
    BY <2>1, <1>1, <1>4, BeforeFacts, TreeFacts DEF ArgsInv
  <2> QED BY <2>1, <2>2
<1> QED BY <1>1, <1>4, <1>5, <1>6

LEMMA ScanFileStep ==
    ASSUME IInv, NEW p, ScanFile(p)
    PROVE  IInv'
<1>1. Scanning /\ p \in Head(todo) /\ IsFile(p) /\ todo' = Read(p)
  BY DEF ScanFile
<1>2. /\ p \in Tree /\ p \in Path /\ ArgsInv /\ ListInv /\ Stack(todo, Known, failed)
      /\ todo # <<>> /\ before[p].dir = FALSE /\ \A q \in Tree : IsPrefix(p, q) => q = p
      /\ \A k \in Known : ~ IsPrefix(p, k)
  BY <1>1, OnStack
<1>3. UNCHANGED <<args, ktr>> /\ failed \subseteq Tree
  BY <1>1, <1>2 DEF Scanning, ListInv
<1>4. CASE Listed(p, FALSE) /\ UNCHANGED failed
  <2>1. ListInv' /\ Known' = Known \cup {p}
    BY <1>2, <1>3, <1>4, ListMore
  <2>2. \A q \in Tree : IsPrefix(p, q) => q \in Known'
    BY <1>2, <2>1
  <2>3. Stack(Read(p), Known', failed')
    BY <1>1, <1>2, <1>4, <2>1, <2>2, StackPop DEF Read
  <2> QED BY <1>1, <2>1, <2>3, ScanKept
<1>5. CASE failed' = failed \cup {p} /\ UNCHANGED entries
  <2>1. ListInv' /\ Known' = Known
    BY <1>2, <1>3, <1>5, ListSame
  <2>2. \A q \in Tree : IsPrefix(p, q) => \E f \in failed' : IsPrefix(f, q)
    BY <1>5
  <2>3. Stack(Read(p), Known', failed')
    BY <1>1, <1>2, <1>5, <2>1, <2>2, StackPop DEF Read
  <2> QED BY <1>1, <2>1, <2>3, ScanKept
<1> QED BY <1>4, <1>5 DEF ScanFile, Unlisted

LEMMA ScanDirStep ==
    ASSUME IInv, NEW p, ScanDir(p)
    PROVE  IInv'
<1>1. Scanning /\ p \in Head(todo) /\ IsDir(p) /\ todo' = <<Children(p)>> \o Read(p)
      /\ ((Listed(p, TRUE) /\ UNCHANGED failed) \/ Unlisted(p))
  BY DEF ScanDir
<1>2. /\ p \in Tree /\ p \in Path /\ ArgsInv /\ ListInv /\ Stack(todo, Known, failed)
      /\ todo # <<>> /\ disk = before /\ before[p].dir = TRUE
      /\ \A k \in Known : ~ IsPrefix(p, k)
  <2>1. before[p].dir /\ before[p] = Dir
    BY <1>1, OnStack
  <2>2. before[p].dir = TRUE
    BY <2>1, Types
  <2> QED BY <2>2, <1>1, OnStack
<1>3. UNCHANGED <<args, ktr>> /\ failed \subseteq failed' /\ failed' \subseteq Tree
  BY <1>1, <1>2 DEF Scanning, ListInv, Unlisted
<1>4. ListInv' /\ (Known' = Known \cup {p} \/ (Known' = Known /\ p \in failed'))
  <2>1. CASE Listed(p, TRUE) /\ UNCHANGED failed
    BY <2>1, <1>2, <1>3, ListMore
  <2>2. CASE Unlisted(p)
    <3>1. p \in failed' /\ UNCHANGED entries
      BY <2>2 DEF Unlisted
    <3> QED BY <3>1, <1>2, <1>3, ListSame
  <2> QED BY <2>1, <2>2, <1>1
<1> DEFINE C == Children(p)
<1>5. \A c : c \in C <=> c \in DOMAIN before /\ Len(c) = Len(p) + 1 /\ IsPrefix(p, c)
  BY <1>2 DEF Children
<1> HIDE DEF C
<1>6. C \in SUBSET Tree
  BY <1>2, <1>5, TreeFacts
<1>7. ASSUME NEW q \in Tree, IsPrefix(p, q), q # p PROVE \E c \in C : IsPrefix(c, q)
  <2> DEFINE c == SubSeq(q, 1, Len(p) + 1)
  <2>1. q \in Path /\ q \in DOMAIN before
    BY <1>2, TreeFacts
  <2>2. c \in Path /\ Len(c) = Len(p) + 1 /\ IsPrefix(p, c) /\ IsPrefix(c, q)
    BY <2>1, <1>2, <1>7, WayDown
  <2> HIDE DEF c
  <2>3. c \in DOMAIN before
    BY <2>1, <2>2, <1>2, BeforeFacts DEF ArgsInv
  <2> QED BY <2>2, <2>3, <1>5
<1>8. Stack(<<C>> \o Read(p), Known', failed')
  <2>1. Known \in SUBSET Tree
    BY <1>2, ListFacts
  <2>2. \A c \in C : IsPrefix(p, c) /\ Len(c) = Len(p) + 1
    BY <1>5
  <2>3. \A q \in Tree : IsPrefix(p, q) => q = p \/ \E c \in C : IsPrefix(c, q)
    BY <1>7
  <2>4. Stack(<<C>> \o (<<Head(todo) \ {p}>> \o Tail(todo)), Known', failed')
    BY <1>1, <1>2, <1>3, <1>4, <1>6, <2>1, <2>2, <2>3, StackPush
  <2> QED BY <2>4 DEF Read
<1> QED BY <1>1, <1>4, <1>8, ScanKept DEF C

LEMMA ScanDirFailStep ==
    ASSUME IInv, NEW p, ScanDirFail(p)
    PROVE  IInv'
<1>1. Scanning /\ p \in Head(todo) /\ todo' = Read(p) /\ failed' = failed \cup {p}
      /\ (Listed(p, Kind(p) # "SYS") \/ UNCHANGED entries)
  BY DEF ScanDirFail
<1>2. /\ p \in Tree /\ ArgsInv /\ ListInv /\ Stack(todo, Known, failed) /\ todo # <<>>
      /\ \A k \in Known : ~ IsPrefix(p, k)
  BY <1>1, OnStack
<1>3. UNCHANGED <<args, ktr>> /\ failed \subseteq failed' /\ failed' \subseteq Tree /\ p \in failed'
  BY <1>1, <1>2 DEF Scanning, ListInv
<1>4. ListInv' /\ (Known' = Known \/ Known' = Known \cup {p})
  <2>1. CASE UNCHANGED entries
    BY <2>1, <1>2, <1>3, ListSame
  <2>2. CASE Listed(p, Kind(p) # "SYS")
    <3>1. PICK d \in BOOLEAN : d = (Kind(p) # "SYS")
      OBVIOUS
    <3>2. Listed(p, d)
      BY <2>2, <3>1
    <3> QED BY <3>2, <1>2, <1>3, ListMore
  <2> QED BY <2>1, <2>2, <1>1
<1>5. \A q \in Tree : IsPrefix(p, q) => \E f \in failed' : IsPrefix(f, q)
  BY <1>3
<1>6. Stack(Read(p), Known', failed')
  BY <1>1, <1>2, <1>3, <1>4, <1>5, StackPop DEF Read
<1> QED BY <1>1, <1>4, <1>6, ScanKept

LEMMA ScanCutStep ==
    ASSUME IInv, NEW p, ScanCut(p)
    PROVE  IInv'
<1>1. Scanning /\ p \in Head(todo) /\ todo' = Read(p) /\ failed' = failed \cup {p}
      /\ UNCHANGED entries
  BY DEF ScanCut, Unlisted
<1>2. p \in Tree /\ ArgsInv /\ ListInv /\ Stack(todo, Known, failed) /\ todo # <<>>
  BY <1>1, OnStack
<1>3. UNCHANGED <<args, ktr, entries>> /\ failed \subseteq failed' /\ failed' \subseteq Tree
      /\ p \in failed'
  BY <1>1, <1>2 DEF Scanning, ListInv
<1>4. ListInv' /\ Known' = Known
  BY <1>2, <1>3, ListSame
<1>5. \A q \in Tree : IsPrefix(p, q) => \E f \in failed' : IsPrefix(f, q)
  BY <1>3
<1>6. Stack(Read(p), Known', failed')
  BY <1>1, <1>2, <1>3, <1>4, <1>5, StackPop DEF Read
<1> QED BY <1>1, <1>4, <1>6, ScanKept

LEMMA ScanUpStep ==
    ASSUME IInv, ScanUp
    PROVE  IInv'
<1>1. Scanning /\ todo' = Tail(todo) /\ failed' = failed \cup Head(todo) /\ UNCHANGED entries
  BY DEF ScanUp
<1>2. ArgsInv /\ ListInv /\ Stack(todo, Known, failed) /\ todo # <<>> /\ failed \subseteq Tree
  BY <1>1 DEF IInv, Scanning, ListInv
<1>3. Stack(todo', Known, failed') /\ Head(todo) \subseteq Tree
  BY <1>1, <1>2, StackUp
<1>4. ListInv' /\ Known' = Known
  <2>1. UNCHANGED <<args, ktr, entries>> /\ failed \subseteq failed' /\ failed' \subseteq Tree
    BY <1>1, <1>2, <1>3 DEF Scanning
  <2> QED BY <2>1, <1>2, ListSame
<1> QED BY <1>1, <1>3, <1>4, ScanKept
-----------------------------------------------------------------------------
(* The start, and the steps around the work *)

LEMMA InitInv == Init => IInv
<1> SUFFICES ASSUME Init PROVE IInv
  OBVIOUS
<1>1. /\ before \in Disks /\ disk = before /\ op \in {"copy", "delete"}
      /\ src \in DOMAIN before /\ Len(src) > 1
      /\ phase = "scan" /\ todo = <<{src}>> /\ entries = <<>> /\ ktr = 1 /\ failed = {}
  BY DEF Init
<1>2. src \in Path
  BY <1>1, BeforeFacts
<1>3. dst \in DOMAIN before /\ before[dst] = Dir
  <2>1. CASE op = "copy"
    BY <2>1, <1>1, BeforeFacts DEF Init
  <2>2. CASE op # "copy"
    <3>1. dst = Front(src)
      BY <2>2 DEF Init
    <3>2. dst \in Path /\ IsPrefix(dst, src) /\ Len(dst) = Len(src) - 1 /\ Len(src) \in Nat
      BY <3>1, <1>1, <1>2, FrontFacts, PathFacts
    <3>3. dst # src
      BY <3>2
    <3> QED BY <3>2, <3>3, <1>1, BeforeFacts
  <2> QED BY <2>1, <2>2
<1>4. ArgsInv
  BY <1>1, <1>3 DEF ArgsInv
<1>5. src \in Tree /\ src \in Path /\ \A p \in Tree : IsPrefix(src, p)
  BY <1>4, TreeFacts
<1>6. entries \in Seq([path : Tree, dir : BOOLEAN]) /\ DOMAIN entries = {} /\ Known = {}
  BY <1>1 DEF Known
<1>7. ListInv
  BY <1>1, <1>6 DEF ListInv
<1>8. todo \in Seq(SUBSET Tree) /\ DOMAIN todo = {1} /\ todo[1] = {src}
  BY <1>1, <1>5
<1>9. Stack(todo, Known, failed)
  BY <1>5, <1>6, <1>8 DEF Stack
<1> QED BY <1>1, <1>4, <1>7, <1>9 DEF IInv

\* A step that leaves the disk and the list alone.
LEMMA AskStep ==
    ASSUME IInv, ScanEnd \/ Ask \/ Finish \/ \E p : ScanLost(p)
    PROVE  IInv'
<1>1. /\ UNCHANGED <<disk, args, todo, entries, ktr, failed>>
      /\ disk' = disk /\ entries' = entries /\ ktr' = ktr /\ failed' = failed
      /\ op' = op /\ src' = src /\ dst' = dst /\ before' = before
  BY DEF ScanEnd, Ask, Finish, ScanLost, args
<1>2. Tree' = Tree /\ Known' = Known /\ (\A p : Lost(p)' <=> Lost(p)) /\ ArgsInv' /\ ListInv'
  BY <1>1 DEF Tree, Below, Known, Lost, ArgsInv, ListInv, IInv
<1>3. ArgsInv /\ ListInv
  BY DEF IInv
<1>4. CASE ScanEnd
  <2>1. phase = "scan" /\ phase' = "ask" /\ todo = <<>>
    BY <1>4 DEF ScanEnd
  <2>2. Stack(todo, Known, failed) /\ DOMAIN todo = {} /\ disk = before /\ ktr = 1
    BY <2>1 DEF IInv
  <2>3. \A p \in Tree : p \in Known \/ Lost(p)
    BY <2>2 DEF Stack, Lost
  <2> QED BY <1>1, <1>2, <2>1, <2>2, <2>3 DEF IInv
<1>5. CASE Ask
  <2>1. phase = "ask" /\ phase' \in {"run", "refused"}
    BY <1>5 DEF Ask
  <2>2. disk = before /\ ktr = 1 /\ \A p \in Tree : p \in Known \/ Lost(p)
    BY <2>1 DEF IInv
  <2>3. DeleteInv'
    <3>1. ASSUME NEW p \in Below(src, disk)
          PROVE  \/ \E i \in DOMAIN entries : i <= Len(entries) + 1 - ktr /\ entries[i].path = p
                 \/ \E f \in failed : IsPrefix(p, f) \/ IsPrefix(f, p)
      <4>1. p \in Known \/ Lost(p)
        BY <2>2 DEF Tree
      <4>2. \A i \in DOMAIN entries : i <= Len(entries) + 1 - ktr
        BY <2>2, <1>3, ListFacts
      <4> QED BY <4>1, <4>2 DEF Known, Lost
    <3> QED BY <1>1, <2>2, <3>1 DEF DeleteInv, Below
  <2>4. op = "copy" => CopyInv'
    <3> SUFFICES ASSUME op = "copy" PROVE CopyInv'
      OBVIOUS
    <3>1. Root = Append(dst, Last(src)) /\ Root' = Root
      BY <1>1 DEF Root
    <3>2. Clear' => Below(Root, disk) = {}
      BY <1>1, <2>2, <3>1 DEF Clear, Below
    <3>3. \A i \in DOMAIN entries : ~ (i <= Worked')
      BY <1>1, <1>3, <2>1, <2>2, ListFacts DEF Worked
    <3>4. \A p : Same(p)'
      BY <1>1, <2>2 DEF Same
    <3> QED BY <1>1, <3>1, <3>2, <3>3, <3>4 DEF CopyInv, Below
  <2> QED BY <1>1, <1>2, <2>1, <2>2, <2>3, <2>4 DEF IInv
<1>6. CASE Finish
  <2>1. phase = "run" /\ phase' = "done" /\ ktr > Len(entries)
    BY <1>6 DEF Finish
  <2>2. /\ \A p \in Tree : p \in Known \/ Lost(p)
        /\ op = "delete" => DeleteInv
        /\ op = "copy" => CopyInv
    BY <2>1 DEF IInv
  <2>3. op = "delete" => DeleteInv'
    BY <1>1, <2>2 DEF DeleteInv, Below
  <2>4. op = "copy" => CopyInv'
    <3>1. Root' = Root /\ Below(Root, disk)' = Below(Root, disk) /\ (Clear' <=> Clear)
      BY <1>1 DEF Root, Below, Clear
    <3>2. \A p : (Same(p)' <=> Same(p)) /\ (Done(p)' <=> Done(p)) /\ Target(p)' = Target(p)
      BY <1>1 DEF Same, Done, Lost, Target, CrossFat, Kind
    <3>3. Worked' = Worked
      BY <1>1, <2>1 DEF Worked
    <3> QED BY <1>1, <2>2, <3>1, <3>2, <3>3 DEF CopyInv
  <2> QED BY <1>1, <1>2, <2>1, <2>2, <2>3, <2>4 DEF IInv
<1>7. CASE \E p : ScanLost(p)
  <2>1. phase = "scan" /\ phase' = "lost"
    BY <1>7 DEF ScanLost
  <2> QED BY <1>1, <1>2, <2>1 DEF IInv
<1> QED BY <1>4, <1>5, <1>6, <1>7

\* A step of the work on one entry: what is left to show is what it makes of the disk.
EndlessAt(n) ==
    /\ op = "copy" /\ n = ktr /\ n <= Len(entries) /\ entries[n].path \in failed'
    /\ phase' = "endless" /\ UNCHANGED ktr

LEMMA WorkStep ==
    ASSUME IInv, phase \in {"run", "endless"}, Advance \/ EndlessAt(ktr),
           UNCHANGED <<args, todo, entries>>, failed \subseteq failed', failed' \subseteq Tree,
           op = "delete" => DeleteInv', op = "copy" => CopyInv'
    PROVE  IInv'
<1>1. /\ entries' = entries /\ op' = op /\ src' = src /\ dst' = dst /\ before' = before
      /\ ktr' \in {ktr, ktr + 1} /\ phase' \in {"run", "cancelled", "endless"}
      /\ phase' = "endless" => /\ op' = "copy" /\ ktr' <= Len(entries')
                                /\ entries'[ktr'].path \in failed'
  BY DEF Advance, EndlessAt, args
<1>2. Tree' = Tree /\ Known' = Known /\ (\A p : Lost(p) => Lost(p)') /\ ArgsInv'
  BY <1>1 DEF Tree, Below, Known, Lost, ArgsInv, IInv
<1>3. ListInv'
  BY <1>1, <1>2 DEF ListInv, IInv
<1>4. \A p \in Tree : p \in Known \/ Lost(p)
  BY DEF IInv
<1> QED BY <1>1, <1>2, <1>3, <1>4 DEF IInv
-----------------------------------------------------------------------------
(* The delete job *)

\* Nothing but q is changed.
OnlyAt(q) ==
    \A x : x # q => /\ x \in DOMAIN disk' <=> x \in DOMAIN disk
                    /\ x \in DOMAIN disk => disk'[x] = disk[x]

\* Nothing is changed that is not the entry deleted or the copy made.
Outside ==
    \A x : ~ IsPrefix(Root, x) => /\ x \in DOMAIN disk' <=> x \in DOMAIN disk
                                  /\ x \in DOMAIN disk => disk'[x] = disk[x]

LEMMA DeleteEntryStep ==
    ASSUME IInv, DeleteEntry
    PROVE  IInv' /\ Outside
<1> DEFINE n == Len(entries)
           k == n + 1 - ktr
           e == entries[k]
           p == e.path
<1>1. /\ phase = "run" /\ op = "delete" /\ ktr <= n /\ Advance
      /\ UNCHANGED <<args, todo, entries>> /\ Entry = e
  BY DEF DeleteEntry, Running, Entry
<1>2. ArgsInv /\ ListInv /\ DeleteInv
  BY <1>1 DEF IInv
<1>3. n \in Nat /\ ktr \in Nat /\ ktr > 0 /\ DOMAIN entries = 1 .. n /\ k \in DOMAIN entries /\ k \in Int
  BY <1>1, <1>2, ListFacts DEF ListInv
<1>4. /\ p \in Tree /\ e.dir \in BOOLEAN /\ p \in Path /\ p \in DOMAIN before
      /\ p \in failed \/ e.dir = before[p].dir
      /\ before[p].dir \in BOOLEAN /\ (before[p].dir => before[p] = Dir)
  <2>1. p \in Tree /\ e.dir \in BOOLEAN /\ (p \in failed \/ e.dir = before[p].dir)
    BY <1>2, <1>3, ListFacts DEF ListInv
  <2> QED BY <2>1, <1>2, TreeFacts, BeforeFacts DEF ArgsInv
<1>5. /\ entries' = entries /\ ktr' = ktr + 1 /\ src' = src /\ before' = before
      /\ \A i \in DOMAIN entries : i <= k => i = k \/ i <= Len(entries) + 1 - (ktr + 1)
  BY <1>1, <1>3 DEF args, Advance
<1>6. \A i \in DOMAIN entries : i <= Len(entries) + 1 - ktr <=> i <= k
  OBVIOUS
<1>12. IsPrefix(Root, p)
  <2>1. Root = src
    BY <1>1 DEF Root
  <2> QED BY <2>1, <1>2, <1>4, TreeFacts
<1>13. OnlyAt(p) => Outside
  BY <1>12 DEF OnlyAt, Outside
<1> HIDE DEF n, k, e, p
<1>7. ASSUME NEW q \in Below(src, disk)
      PROVE  \/ \E i \in DOMAIN entries : i <= k /\ entries[i].path = q
             \/ \E f \in failed : IsPrefix(q, f) \/ IsPrefix(f, q)
  BY <1>2, <1>6 DEF DeleteInv
<1>8. CASE failed' = failed \cup {p} /\ UNCHANGED disk
  <2>1. IsPrefix(p, p)
    BY <1>4, PrefixOrder
  <2>2. ASSUME NEW q \in Below(src, disk)
        PROVE  \/ \E i \in DOMAIN entries : i <= Len(entries) + 1 - (ktr + 1) /\ entries[i].path = q
               \/ \E f \in failed' : IsPrefix(q, f) \/ IsPrefix(f, q)
    BY <1>5, <1>7, <1>8, <2>1 DEF p, e
  <2>3. DeleteInv'
    BY <1>2, <1>5, <1>8, <2>2 DEF DeleteInv, Below
  <2>4. failed \subseteq failed' /\ failed' \subseteq Tree
    BY <1>2, <1>4, <1>8 DEF ListInv
  <2> QED BY <1>1, <1>8, <1>13, <2>3, <2>4, WorkStep DEF OnlyAt
<1>9. CASE failed' = failed /\ Removable(e) /\ disk' = Del(p)
  <2>1. DOMAIN disk' = DOMAIN disk \ {p} /\ \A q \in DOMAIN disk' : disk'[q] = disk[q]
    BY <1>9 DEF Del, Restrict
  <2>2. ASSUME NEW q \in Below(src, disk')
        PROVE  \/ \E i \in DOMAIN entries : i <= Len(entries) + 1 - (ktr + 1) /\ entries[i].path = q
               \/ \E f \in failed' : IsPrefix(q, f) \/ IsPrefix(f, q)
    <3>1. q \in Below(src, disk) /\ q # p
      BY <2>1 DEF Below
    <3> QED BY <3>1, <1>5, <1>7, <1>9 DEF p, e
  <2>3. DeleteInv'
    BY <1>2, <1>5, <2>1, <2>2 DEF DeleteInv, Below
  <2>4. failed \subseteq failed' /\ failed' \subseteq Tree
    BY <1>2, <1>9 DEF ListInv
  <2> QED BY <1>1, <1>13, <2>1, <2>3, <2>4, WorkStep DEF OnlyAt
<1>10. CASE failed' = failed /\ ~ Removable(e) /\ disk' = disk
  <2>1. p \in DOMAIN disk => \E f \in failed : IsPrefix(p, f) \/ IsPrefix(f, p)
    <3> SUFFICES ASSUME p \in DOMAIN disk, p \notin failed
                 PROVE  \E f \in failed : IsPrefix(p, f) \/ IsPrefix(f, p)
      BY <1>4, PrefixOrder
    <3>1. disk[p] = before[p] /\ e.dir = before[p].dir
      BY <1>2, <1>4 DEF DeleteInv
    <3>2. IsDir(p) /\ ~ Empty(p)
      <4>1. CASE before[p].dir = TRUE
        <5>1. IsDir(p) /\ e.dir
          BY <4>1, <3>1 DEF IsDir
        <5>2. ~ Empty(p)
          BY <5>1, <1>10 DEF Removable, p
        <5> QED BY <5>1, <5>2
      <4>2. CASE before[p].dir = FALSE
        <5>1. IsFile(p) /\ ~ e.dir
          BY <4>2, <3>1 DEF IsFile
        <5> QED BY <5>1, <1>10 DEF Removable, p
      <4> QED BY <4>1, <4>2, <1>4
    <3>3. PICK c \in DOMAIN disk : Len(c) = Len(p) + 1 /\ IsPrefix(p, c)
      BY <3>2 DEF Empty, Children
    <3>4. c \in DOMAIN before /\ c \in Tree /\ c \in Path /\ c \in Below(src, disk) /\ c # p
      <4>1. c \in DOMAIN before
        BY <1>2 DEF DeleteInv
      <4>2. c \in Tree /\ c \in Path
        BY <4>1, <3>3, <1>2, <1>4, TreeFacts
      <4> QED BY <4>1, <4>2, <3>3, <1>4, PathFacts DEF Tree, Below
    <3>5. ~ \E i \in DOMAIN entries : i <= k /\ entries[i].path = c
      <4>1. SUFFICES ASSUME NEW i \in DOMAIN entries, i <= k, entries[i].path = c PROVE FALSE
        OBVIOUS
      <4>2. k <= i
        BY <4>1, <3>3, <1>2, <1>3 DEF ListInv, p, e
      <4>3. i = k
        BY <4>1, <4>2, <1>3
      <4> QED BY <4>1, <4>3, <3>4 DEF p, e
    <3>6. PICK f \in failed : IsPrefix(c, f) \/ IsPrefix(f, c)
      BY <3>4, <3>5, <1>7
    <3>7. f \in Path
      BY <1>2, TreeFacts DEF ListInv
    <3>8. IsPrefix(p, f) \/ IsPrefix(f, p)
      BY <3>3, <3>4, <3>6, <3>7, <1>4, PrefixOrder
    <3> QED BY <3>8
  <2>2. ASSUME NEW q \in Below(src, disk)
        PROVE  \/ \E i \in DOMAIN entries : i <= Len(entries) + 1 - (ktr + 1) /\ entries[i].path = q
               \/ \E f \in failed' : IsPrefix(q, f) \/ IsPrefix(f, q)
    <3>1. q \in DOMAIN disk
      BY DEF Below
    <3> QED BY <3>1, <2>1, <1>5, <1>7, <1>10 DEF p, e
  <2>3. DeleteInv'
    BY <1>2, <1>5, <1>10, <2>2 DEF DeleteInv, Below
  <2>4. failed \subseteq failed' /\ failed' \subseteq Tree
    BY <1>2, <1>10 DEF ListInv
  <2> QED BY <1>1, <1>10, <1>13, <2>3, <2>4, WorkStep DEF OnlyAt
<1>11. \/ failed' = failed /\ disk' = (IF Removable(e) THEN Del(p) ELSE disk)
       \/ failed' = failed \cup {p} /\ disk' = disk
  BY <1>1 DEF DeleteEntry, p
<1> QED BY <1>8, <1>9, <1>10, <1>11
-----------------------------------------------------------------------------
(* The copy job *)

LEMMA OnlyAtFacts ==
    ASSUME NEW q
    PROVE  /\ \A x : disk' = Put(q, x) => OnlyAt(q) /\ q \in DOMAIN disk' /\ disk'[q] = x
           /\ disk' = Del(q) => OnlyAt(q)
           /\ disk' = disk => OnlyAt(q)
           /\ disk' = Unlink(q) => OnlyAt(q)
<1>1. ASSUME NEW x, disk' = Put(q, x) PROVE OnlyAt(q) /\ q \in DOMAIN disk' /\ disk'[q] = x
  BY <1>1 DEF Put, OnlyAt
<1>2. disk' = Del(q) => OnlyAt(q)
  BY DEF Del, Restrict, OnlyAt
<1>3. disk' = disk => OnlyAt(q)
  BY DEF OnlyAt
<1>4. disk' = Unlink(q) => disk' = Del(q) \/ disk' = disk
  BY DEF Unlink
<1> QED BY <1>1, <1>2, <1>3, <1>4

\* The entry worked on.
Copying == op = "copy" /\ phase \in {"run", "endless"} /\ ktr <= Len(entries)

LEMMA CopyEntry ==
    ASSUME IInv, Copying
    PROVE  LET p == entries[ktr].path IN
           /\ ArgsInv /\ ListInv /\ CopyInv /\ ktr \in DOMAIN entries /\ ktr \in Nat
           /\ Entry = entries[ktr] /\ Root = Append(dst, Last(src))
           /\ p \in Tree /\ p \in Path /\ IsPrefix(src, p) /\ p \in DOMAIN before
           /\ src \in Path /\ dst \in Path
           /\ p \in failed \/ entries[ktr].dir = before[p].dir
           /\ \A i \in DOMAIN entries : i \in Nat /\ entries[i].path \in Tree
           /\ \A i \in DOMAIN entries : i < ktr => Target(entries[i].path) # Target(p)
<1>1. ArgsInv /\ ListInv /\ CopyInv /\ op = "copy"
  BY DEF IInv, Copying
<1>2. ktr \in DOMAIN entries /\ ktr \in Nat
  BY <1>1, ListFacts DEF Copying, ListInv
<1>3. Entry = entries[ktr] /\ Root = Append(dst, Last(src))
  BY <1>1 DEF Entry, Root
<1> DEFINE p == entries[ktr].path
<1>4. /\ p \in Tree /\ p \in Path /\ IsPrefix(src, p) /\ p \in DOMAIN before
      /\ src \in Path /\ dst \in Path
      /\ p \in failed \/ entries[ktr].dir = before[p].dir
      /\ \A i \in DOMAIN entries : entries[i].path \in Tree
  <2>1. p \in Tree /\ \A i \in DOMAIN entries : entries[i].path \in Tree
    BY <1>1, <1>2, ListFacts
  <2>2. p \in failed \/ entries[ktr].dir = before[p].dir
    BY <1>1, <1>2 DEF ListInv
  <2> QED BY <2>1, <2>2, <1>1, TreeFacts
<1>5. \A i \in DOMAIN entries : i \in Nat
  BY <1>1, ListFacts
<1>6. ASSUME NEW i \in DOMAIN entries, i < ktr PROVE Target(entries[i].path) # Target(p)
  <2>1. entries[i].path \in Path /\ IsPrefix(src, entries[i].path)
    BY <1>1, <1>4, TreeFacts
  <2>2. SUFFICES ASSUME Target(entries[i].path) = Target(p) PROVE FALSE
    OBVIOUS
  <2>3. entries[i].path = p
    <3>1. To(dst, src, entries[i].path) = To(dst, src, p)
      BY <2>2 DEF To, Target
    <3> QED BY <3>1, <2>1, <1>4, ToInjective
  <2>4. IsPrefix(entries[ktr].path, entries[i].path)
    BY <2>1, <2>3, PrefixOrder
  <2>5. ktr <= i
    BY <2>4, <1>1, <1>2 DEF ListInv
  <2> QED BY <2>5, <1>2, <1>5, <1>6
<1> QED BY <1>1, <1>2, <1>3, <1>4, <1>5, <1>6

\* The copy of an entry is the next to be made in the copy of src, and it is not there yet;
\* its directory is, unless a call failed.
LEMMA CopyPlace ==
    ASSUME IInv, Running("copy")
    PROVE  LET p == entries[ktr].path
               q == Target(p)
           IN  /\ IsPrefix(Root, q)
               /\ Clear => /\ q \notin DOMAIN disk
                           /\ Lost(p) \/ IsDir(Front(q))
                           /\ p \in DOMAIN disk /\ disk[p] = before[p]
<1> DEFINE p == entries[ktr].path
           q == Target(p)
<1>1. /\ ArgsInv /\ ListInv /\ CopyInv /\ ktr \in DOMAIN entries /\ ktr \in Nat
      /\ Root = Append(dst, Last(src))
      /\ p \in Tree /\ p \in Path /\ IsPrefix(src, p) /\ p \in DOMAIN before
      /\ src \in Path /\ dst \in Path
      /\ \A i \in DOMAIN entries : i \in Nat /\ entries[i].path \in Tree
      /\ \A i \in DOMAIN entries : i <= Worked => Target(entries[i].path) # q
      /\ \A i \in DOMAIN entries : i <= Worked <=> i < ktr
  <2>1. Copying /\ phase = "run"
    BY DEF Running, Copying
  <2>2. \A i \in DOMAIN entries : i <= Worked <=> i < ktr
    BY <2>1, CopyEntry DEF Worked
  <2> QED BY <2>1, <2>2, CopyEntry
<1>2. q = To(dst, src, p)
  BY DEF To, Target
<1> HIDE DEF p, q
<1>3. IsPrefix(Root, q) /\ Root \in Path /\ Len(Root) = Len(dst) + 1
  BY <1>1, <1>2, ToBelow
<1> SUFFICES ASSUME Clear
             PROVE  q \notin DOMAIN disk /\ (Lost(p) \/ IsDir(Front(q)))
                    /\ p \in DOMAIN disk /\ disk[p] = before[p]
  BY <1>3 DEF p, q
<1>4. q \notin DOMAIN disk
  BY <1>1, <1>3 DEF CopyInv, Below
<1>5. \A x \in DOMAIN before : ~ IsPrefix(Root, x)
  BY <1>1 DEF Clear, Below
<1>6. \A x \in DOMAIN before : x \in DOMAIN disk /\ disk[x] = before[x]
  BY <1>1, <1>5 DEF CopyInv, Same
<1>7. Lost(p) \/ IsDir(Front(q))
  <2>1. Len(src) > 1
    BY <1>1 DEF ArgsInv
  <2>2. CASE p = src
    <3>1. Front(q) = dst
      BY <2>1, <2>2, <1>1, <1>2, ToFront
    <3>2. dst \in DOMAIN before /\ before[dst] = Dir
      BY <1>1 DEF ArgsInv
    <3> QED BY <3>1, <3>2, <1>6, Types DEF IsDir
  <2>3. CASE p # src
    <3> DEFINE f == Front(p)
    <3>1. f \in Path /\ IsPrefix(src, f) /\ Front(q) = To(dst, src, f)
      BY <2>1, <2>3, <1>1, <1>2, ToFront
    <3>2. IsPrefix(f, p) /\ f # p
      <4>1. Len(p) \in Nat /\ Len(src) \in Nat /\ Len(src) <= Len(p)
        BY <1>1, PathFacts, PrefixOrder
      <4>2. Len(p) > 1
        BY <4>1, <2>1
      <4>3. IsPrefix(f, p) /\ Len(f) = Len(p) - 1
        BY <4>2, <1>1, FrontFacts
      <4> QED BY <4>1, <4>3
    <3> HIDE DEF f
    <3>3. f \in Tree /\ before[f] = Dir
      <4>1. f \in DOMAIN before /\ before[f] = Dir
        BY <3>1, <3>2, <1>1, BeforeFacts DEF ArgsInv
      <4> QED BY <4>1, <3>1 DEF Tree, Below
    <3>4. f \in Known \/ Lost(f)
      BY <3>3 DEF IInv, Running
    <3>5. Lost(f) => Lost(p)
      <4>1. SUFFICES ASSUME NEW x \in failed, IsPrefix(x, f) PROVE IsPrefix(x, p)
        BY DEF Lost
      <4>2. x \in Path
        BY <1>1, TreeFacts DEF ListInv
      <4> QED BY <4>1, <4>2, <3>1, <3>2, <1>1, PrefixOrder
    <3>6. ASSUME f \in Known PROVE Lost(p) \/ IsDir(Front(q))
      <4>1. PICK j \in DOMAIN entries : entries[j].path = f
        BY <3>6 DEF Known
      <4>2. j <= ktr /\ j # ktr
        BY <4>1, <3>2, <1>1 DEF ListInv, p
      <4>3. j < ktr
        BY <4>2, <1>1
      <4>4. Done(f)
        BY <4>1, <4>3, <1>1 DEF CopyInv
      <4>5. Lost(f) \/ (Target(f) \in DOMAIN disk /\ disk[Target(f)] = Dir)
        BY <4>4, <3>3, Types DEF Done
      <4>6. Target(f) = Front(q)
        BY <3>1 DEF To, Target
      <4> QED BY <4>5, <4>6, <3>5, Types DEF IsDir
    <3> QED BY <3>4, <3>5, <3>6
  <2> QED BY <2>2, <2>3
<1> QED BY <1>1, <1>4, <1>6, <1>7

\* A step that changes nothing but the copy of the entry, and makes this one.
LEMMA CopyStep ==
    ASSUME IInv, Copying, Advance \/ EndlessAt(ktr), UNCHANGED <<args, todo, entries>>,
           failed \subseteq failed', failed' \subseteq Tree,
           NEW p, p = entries[ktr].path, OnlyAt(Target(p)),
           Clear => \/ Lost(p)'
                    \/ CrossFat /\ ~ before[p].dir
                    \/ Target(p) \in DOMAIN disk' /\ disk'[Target(p)] = before[p]
    PROVE  IInv' /\ Outside
<1>0. p = entries[ktr].path
  OBVIOUS
<1> DEFINE q == Target(p)
<1>1. /\ ListInv /\ CopyInv /\ ktr \in DOMAIN entries /\ ktr \in Nat
      /\ \A i \in DOMAIN entries : i \in Nat /\ entries[i].path \in Tree
      /\ \A i \in DOMAIN entries : i < ktr => Target(entries[i].path) # q
  BY <1>0, CopyEntry
<1>2. IsPrefix(Root, q)
  <2>1. /\ src \in Path /\ dst \in Path /\ p \in Path /\ IsPrefix(src, p)
        /\ Root = Append(dst, Last(src)) /\ q = To(dst, src, p)
    BY <1>0, CopyEntry DEF q, To, Target
  <2> QED BY <2>1, ToBelow
<1>3. OnlyAt(q)
  BY <1>0
<1>4. Clear => \/ Lost(p)'
               \/ CrossFat /\ ~ before[p].dir
               \/ q \in DOMAIN disk' /\ disk'[q] = before[p]
  BY <1>0
<1>5. /\ entries' = entries /\ Worked' = ktr /\ op' = op /\ src' = src /\ dst' = dst
      /\ before' = before
  <2>1. Worked' = ktr
    <3>1. CASE Advance
      BY <3>1, <1>1 DEF Advance, Worked
    <3>2. CASE EndlessAt(ktr)
      BY <3>2 DEF EndlessAt, Worked
    <3> QED BY <3>1, <3>2
  <2> QED BY <2>1 DEF args
<1>6. /\ Root' = Root /\ (Clear' <=> Clear) /\ (CrossFat' <=> CrossFat)
      /\ \A x : Target(x)' = Target(x) /\ (Lost(x) => Lost(x)')
  BY <1>5 DEF Root, Clear, Below, CrossFat, Target, Kind, Lost
<1> HIDE DEF q
<1>7. ASSUME NEW x \in DOMAIN disk' \cup DOMAIN before, ~ IsPrefix(Root, x) PROVE Same(x)'
  <2>1. x # q
    BY <1>2, <1>7
  <2>2. Same(x)
    BY <2>1, <1>1, <1>3, <1>7 DEF CopyInv, OnlyAt
  <2> QED BY <2>1, <2>2, <1>3, <1>5 DEF Same, OnlyAt
<1>8. ASSUME Clear, NEW x \in Below(Root, disk')
      PROVE  \E i \in DOMAIN entries : i <= ktr /\ x = Target(entries[i].path)
  <2>1. CASE x = q
    BY <2>1, <1>0, <1>1 DEF q
  <2>2. CASE x # q
    <3>1. x \in Below(Root, disk)
      BY <2>2, <1>3 DEF Below, OnlyAt
    <3>2. PICK i \in DOMAIN entries : i <= Worked /\ x = Target(entries[i].path)
      BY <3>1, <1>1, <1>8 DEF CopyInv
    <3>3. i <= ktr
      BY <3>2, <1>1 DEF Worked
    <3> QED BY <3>2, <3>3
  <2> QED BY <2>1, <2>2
<1>9. ASSUME Clear, NEW i \in DOMAIN entries, i <= ktr PROVE Done(entries[i].path)'
  <2>0. PICK x : x = entries[i].path
    OBVIOUS
  <2>1. /\ (Lost(x)' => Done(x)')
        /\ (CrossFat /\ ~ before[x].dir => Done(x)')
        /\ (Target(x) \in DOMAIN disk' /\ disk'[Target(x)] = before[x] => Done(x)')
        /\ Done(x)' <=> Done(entries[i].path)'
    BY <2>0, <1>5, <1>6 DEF Done
  <2>2. CASE i = ktr
    <3>1. x = p /\ Target(x) = q
      BY <2>0, <2>2, <1>0 DEF q
    <3>2. Lost(x)' <=> Lost(p)'
      BY <3>1, <1>5 DEF Lost
    <3> QED BY <3>1, <3>2, <2>1, <1>4, <1>9
  <2>3. CASE i # ktr
    <3>1. i < ktr /\ i <= Worked
      BY <2>3, <1>1, <1>9 DEF Worked
    <3>2. Done(x) /\ Target(x) # q
      BY <2>0, <3>1, <1>1, <1>9 DEF CopyInv
    <3>3. \/ Lost(x)
          \/ CrossFat /\ ~ before[x].dir
          \/ Target(x) \in DOMAIN disk /\ disk[Target(x)] = before[x]
      BY <3>2 DEF Done
    <3>4. Target(x) \in DOMAIN disk /\ disk[Target(x)] = before[x]
             => Target(x) \in DOMAIN disk' /\ disk'[Target(x)] = before[x]
      BY <3>2, <1>3 DEF OnlyAt
    <3> QED BY <3>3, <3>4, <2>1, <1>6
  <2> QED BY <2>2, <2>3
<1>10. CopyInv'
  <2>1. \A x \in Below(Root, disk)' : Clear => \E i \in DOMAIN entries : i <= ktr /\ x = Target(entries[i].path)
    BY <1>6, <1>8 DEF Below
  <2> QED BY <2>1, <1>5, <1>6, <1>7, <1>9 DEF CopyInv
<1>11. IInv'
  <2>1. phase \in {"run", "endless"} /\ op = "copy"
    BY DEF Copying
  <2> QED BY <2>1, <1>10, WorkStep
<1> QED BY <1>2, <1>3, <1>11 DEF OnlyAt, Outside

LEMMA CopyDirStep ==
    ASSUME IInv, CopyDir
    PROVE  IInv' /\ Outside
<1>1. PICK p, q : p = entries[ktr].path /\ q = Target(p)
  OBVIOUS
<1>2. /\ ArgsInv /\ ListInv /\ Entry.path = p /\ Entry.dir = entries[ktr].dir
      /\ p \in Tree /\ p \in Path /\ IsPrefix(src, p) /\ p \in DOMAIN before
      /\ src \in Path /\ dst \in Path
      /\ p \in failed \/ entries[ktr].dir = before[p].dir
  BY <1>1, CopyEntry DEF CopyDir, Running, Copying
<1>3. Clear => q \notin DOMAIN disk /\ (Lost(p) \/ IsDir(Front(q)))
  BY <1>1, CopyPlace DEF CopyDir
<1>4. PICK ok : ok = (~ SameFile(p) /\ q \notin DOMAIN disk /\ IsDir(Front(q)))
  OBVIOUS
<1>5. /\ Running("copy") /\ Entry.dir /\ Advance /\ UNCHANGED <<args, todo, entries>>
      /\ \/ disk' = (IF ok THEN Put(q, Dir) ELSE disk) /\ UNCHANGED failed
         \/ failed' = failed \cup {p} /\ UNCHANGED disk
  BY <1>1, <1>2, <1>4 DEF CopyDir
<1>6. failed \subseteq failed' /\ failed' \subseteq Tree
  BY <1>2, <1>5 DEF ListInv
<1>7. OnlyAt(Target(p))
  BY <1>1, <1>5, OnlyAtFacts
<1>8. ~ SameFile(p)
  <2>1. NoName \notin Range(p)
    BY <1>2, BeforeFacts DEF ArgsInv
  <2> QED BY <2>1, <1>2, NeverSame
<1>9. Clear => Lost(p)' \/ (q \in DOMAIN disk' /\ disk'[q] = before[p])
  <2> SUFFICES ASSUME Clear, ~ \E f \in failed' : IsPrefix(f, p)
               PROVE  q \in DOMAIN disk' /\ disk'[q] = before[p]
    BY DEF Lost
  <2>1. p \notin failed' /\ ~ Lost(p)
    BY <1>2, <1>6, PrefixOrder DEF Lost
  <2>2. disk' = Put(q, Dir)
    BY <2>1, <1>3, <1>4, <1>5, <1>8
  <2>3. before[p] = Dir
    <3>1. entries[ktr].dir /\ entries[ktr].dir = before[p].dir
      BY <2>1, <1>2, <1>5, <1>6
    <3> QED BY <3>1, <1>2, BeforeFacts DEF ArgsInv
  <2> QED BY <2>2, <2>3, OnlyAtFacts
<1> QED BY <1>1, <1>5, <1>6, <1>7, <1>9, CopyStep DEF Running, Copying

LEMMA CopyFileStep ==
    ASSUME IInv, CopyFile
    PROVE  IInv' /\ Outside
<1>1. PICK p, q : p = entries[ktr].path /\ q = Target(p)
  OBVIOUS
<1>2. /\ ArgsInv /\ ListInv /\ Entry.path = p /\ Entry.dir = entries[ktr].dir
      /\ p \in Tree /\ p \in Path /\ IsPrefix(src, p) /\ p \in DOMAIN before
      /\ src \in Path /\ dst \in Path /\ Running("copy")
      /\ p \in failed \/ entries[ktr].dir = before[p].dir
  BY <1>1, CopyEntry DEF CopyFile, Running, Copying
<1>3. Clear => /\ q \notin DOMAIN disk /\ (Lost(p) \/ IsDir(Front(q)))
               /\ p \in DOMAIN disk /\ disk[p] = before[p]
  BY <1>1, <1>2, CopyPlace
<1>4. /\ ~ Entry.dir /\ Advance /\ UNCHANGED <<args, todo, entries>>
      /\ disk' \in Copied(p, q) /\ failed' = failed
  BY <1>1, <1>2 DEF CopyFile
<1>5. failed \subseteq failed' /\ failed' \subseteq Tree
  BY <1>2, <1>4 DEF ListInv
<1>6. OnlyAt(Target(p))
  <2>1. disk' = disk \/ disk' = Unlink(q) \/ disk' = Put(q, disk[p]) \/ disk' = Put(q, Damaged)
    BY <1>4 DEF Copied
  <2> QED BY <2>1, <1>1, OnlyAtFacts
<1>7. ~ SameFile(p)
  <2>1. NoName \notin Range(p)
    BY <1>2, BeforeFacts DEF ArgsInv
  <2> QED BY <2>1, <1>2, NeverSame
<1>8. Clear => \/ Lost(p)'
               \/ CrossFat /\ ~ before[p].dir
               \/ q \in DOMAIN disk' /\ disk'[q] = before[p]
  <2> SUFFICES ASSUME Clear, ~ \E f \in failed' : IsPrefix(f, p), ~ (CrossFat /\ ~ before[p].dir)
               PROVE  q \in DOMAIN disk' /\ disk'[q] = before[p]
    BY DEF Lost
  <2>1. p \notin failed /\ ~ Lost(p)
    BY <1>2, <1>4, PrefixOrder DEF Lost
  <2>2. ~ before[p].dir
    BY <2>1, <1>2, <1>4
  <2>3. IsFile(p) /\ disk[p] = before[p] /\ p # q
    BY <2>2, <1>3 DEF IsFile
  <2>4. Opens(q)
    BY <2>1, <2>2, <1>3 DEF Opens, IsDir
  <2>5. disk' = Put(q, disk[p])
    BY <2>3, <2>4, <1>4, <1>7 DEF Copied
  <2> QED BY <2>3, <2>5, OnlyAtFacts
<1> QED BY <1>1, <1>2, <1>4, <1>5, <1>6, <1>8, CopyStep DEF Running, Copying

LEMMA CopyFileFailStep ==
    ASSUME IInv, CopyFileFail
    PROVE  IInv' /\ Outside
<1>1. PICK p, q : p = entries[ktr].path /\ q = Target(p)
  OBVIOUS
<1>2. ListInv /\ Entry.path = p /\ p \in Tree /\ p \in Path /\ Running("copy")
  BY <1>1, CopyEntry DEF CopyFileFail, CopyFailed, Running, Copying
<1>3. /\ Advance /\ UNCHANGED <<args, todo, entries>> /\ failed' = failed \cup {p}
      /\ disk' = disk \/ disk' = Unlink(q) \/ disk' = Put(q, Damaged)
  BY <1>1, <1>2 DEF CopyFileFail, CopyFailed
<1>4. failed \subseteq failed' /\ failed' \subseteq Tree
  BY <1>2, <1>3 DEF ListInv
<1>5. OnlyAt(Target(p))
  BY <1>1, <1>3, OnlyAtFacts
<1>6. Lost(p)'
  BY <1>2, <1>3, PrefixOrder DEF Lost
<1> QED BY <1>1, <1>2, <1>3, <1>4, <1>5, <1>6, CopyStep DEF Running, Copying

LEMMA CopyEndlessStep ==
    ASSUME IInv, CopyEndless
    PROVE  IInv' /\ Outside
<1>1. PICK p, q : p = entries[ktr].path /\ q = Target(p)
  OBVIOUS
<1>2. ListInv /\ Entry.path = p /\ p \in Tree /\ p \in Path /\ Copying
  BY <1>1, CopyEntry DEF CopyEndless, Running, Copying
<1>3. /\ UNCHANGED <<args, todo, entries, ktr>> /\ failed' = failed \cup {p}
      /\ disk' = Put(q, Damaged) /\ phase' = "endless"
  BY <1>1, <1>2 DEF CopyEndless
<1>4. failed \subseteq failed' /\ failed' \subseteq Tree
  BY <1>2, <1>3 DEF ListInv
<1>5. OnlyAt(Target(p))
  BY <1>1, <1>3, OnlyAtFacts
<1>6. Lost(p)'
  BY <1>2, <1>3, PrefixOrder DEF Lost
<1>7. EndlessAt(ktr)
  BY <1>1, <1>2, <1>3 DEF EndlessAt, Copying
<1> QED BY <1>1, <1>2, <1>3, <1>4, <1>5, <1>6, <1>7, CopyStep

LEMMA EndlessStopStep ==
    ASSUME IInv, EndlessStop
    PROVE  IInv' /\ Outside
<1>1. PICK p, q : p = entries[ktr].path /\ q = Target(p)
  OBVIOUS
<1>2. Copying /\ p \in failed
  BY <1>1 DEF EndlessStop, IInv, Copying
<1>3. ListInv /\ Entry.path = p /\ p \in Tree /\ p \in Path
  BY <1>1, <1>2, CopyEntry
<1>4. /\ Advance /\ UNCHANGED <<args, todo, entries>> /\ failed' = failed
      /\ disk' = disk \/ disk' = Put(q, disk[p])
  BY <1>1, <1>3 DEF EndlessStop
<1>5. failed \subseteq failed' /\ failed' \subseteq Tree
  BY <1>3, <1>4 DEF ListInv
<1>6. OnlyAt(Target(p))
  BY <1>1, <1>4, OnlyAtFacts
<1>7. Lost(p)'
  BY <1>2, <1>3, <1>4, PrefixOrder DEF Lost
<1> QED BY <1>1, <1>2, <1>4, <1>5, <1>6, <1>7, CopyStep
-----------------------------------------------------------------------------
(* Every step, and the theorems *)

LEMMA IInvNext ==
    ASSUME IInv, [Next]_vars
    PROVE  IInv' /\ Outside
<1>1. CASE Next
  <2>1. CASE \E p \in DOMAIN disk : ScanFile(p) \/ ScanDir(p) \/ ScanDirFail(p) \/ ScanCut(p)
    <3>1. IInv'
      BY <2>1, ScanFileStep, ScanDirStep, ScanDirFailStep, ScanCutStep
    <3>2. disk' = disk
      BY <2>1 DEF ScanFile, ScanDir, ScanDirFail, ScanCut, Scanning
    <3> QED BY <3>1, <3>2 DEF Outside
  <2>2. CASE ScanUp
    BY <2>2, ScanUpStep DEF ScanUp, Scanning, Outside
  <2>3. CASE ScanEnd \/ Ask \/ Finish \/ \E p : ScanLost(p)
    BY <2>3, AskStep DEF ScanEnd, Ask, Finish, ScanLost, Outside
  <2>4. CASE DeleteEntry \/ CopyDir \/ CopyFile \/ CopyFileFail
    BY <2>4, DeleteEntryStep, CopyDirStep, CopyFileStep, CopyFileFailStep
  <2>5. CASE CopyEndless \/ EndlessStop
    BY <2>5, CopyEndlessStep, EndlessStopStep
  <2> QED BY <1>1, <2>1, <2>2, <2>3, <2>4, <2>5 DEF Next, Step
<1>2. CASE UNCHANGED vars
  <2>1. /\ disk' = disk /\ entries' = entries /\ ktr' = ktr /\ failed' = failed /\ todo' = todo
        /\ phase' = phase /\ op' = op /\ src' = src /\ dst' = dst /\ before' = before
    BY <1>2 DEF vars, args
  <2>2. Tree' = Tree /\ Known' = Known /\ (\A p : Lost(p)' <=> Lost(p)) /\ Root' = Root /\ (Clear' <=> Clear)
    BY <2>1 DEF Tree, Below, Known, Lost, Root, Clear
  <2>3. \A p : (Same(p)' <=> Same(p)) /\ (Done(p)' <=> Done(p)) /\ Target(p)' = Target(p)
    BY <2>1 DEF Same, Done, Lost, Target, CrossFat, Kind
  <2>4. ArgsInv' /\ ListInv' /\ (DeleteInv => DeleteInv') /\ (CopyInv => CopyInv')
    <3>1. ArgsInv' /\ ListInv'
      BY <2>1, <2>2 DEF IInv, ArgsInv, ListInv
    <3>2. DeleteInv => DeleteInv'
      BY <2>1 DEF DeleteInv, Below
    <3>3. CopyInv => CopyInv'
      BY <2>1, <2>2, <2>3 DEF CopyInv, Below, Worked
    <3> QED BY <3>1, <3>2, <3>3
  <2>5. Stack(todo, Known, failed) => Stack(todo, Known, failed)'
    BY <2>1, <2>2 DEF Stack
  <2> QED BY <2>1, <2>2, <2>4, <2>5 DEF IInv, Outside
<1> QED BY <1>1, <1>2

LEMMA SpecInv == Spec => []IInv
<1>1. IInv /\ [Next]_vars => IInv'
  BY IInvNext
<1> QED BY <1>1, InitInv, PTL DEF Spec

\* fm.c: a delete job that comes to its end has removed the whole entry, except what is
\* around a failed call or below one, whatever the disks hold and whichever calls fail.
THEOREM DeletesCorrect == Spec => []DeletesTheRest
<1>1. IInv => DeletesTheRest
  <2> SUFFICES ASSUME IInv, op = "delete", phase = "done", NEW p \in Below(src, disk)
               PROVE  \E f \in failed : IsPrefix(p, f) \/ IsPrefix(f, p)
    BY DEF DeletesTheRest
  <2>1. DeleteInv /\ ListInv /\ ktr > Len(entries)
    BY DEF IInv
  <2>2. \A i \in DOMAIN entries : ~ (i <= Len(entries) + 1 - ktr)
    BY <2>1, ListFacts DEF ListInv
  <2> QED BY <2>1, <2>2 DEF DeleteInv
<1> QED BY <1>1, SpecInv, PTL

\* fm.c: a copy job that comes to its end has copied the whole entry, except what is below
\* a failed call and files between FAT drives, also into a directory below the entry.
THEOREM CopiesCorrect == Spec => []CopiesTheRest
<1>1. IInv => CopiesTheRest
  <2> SUFFICES ASSUME IInv, op = "copy", phase = "done", Clear, NEW p \in Below(src, before),
                      ~ Lost(p)
               PROVE  \/ CrossFat /\ ~ before[p].dir
                      \/ Target(p) \in DOMAIN disk /\ disk[Target(p)] = before[p]
    BY DEF CopiesTheRest, Lost
  <2>1. CopyInv /\ ListInv /\ ktr > Len(entries) /\ p \in Known
    BY DEF IInv, Tree
  <2>2. PICK i \in DOMAIN entries : entries[i].path = p
    BY <2>1 DEF Known
  <2>3. i <= Worked
    BY <2>1, ListFacts DEF ListInv, Worked
  <2>4. Done(p)
    BY <2>1, <2>2, <2>3 DEF CopyInv
  <2> QED BY <2>4 DEF Done
<1> QED BY <1>1, SpecInv, PTL

\* fm.c: no step of a job, failed ones included, changes anything on any disk but the entry
\* that is deleted, or the place the entry is copied to.
THEOREM ConfinedCorrect == Spec => Confined
<1> DEFINE root == IF op = "delete" THEN src ELSE Append(dst, Last(src))
           Kept == \A p \in DOMAIN disk \cup DOMAIN disk' :
                      IsPrefix(root, p) \/ (p \in DOMAIN disk \cap DOMAIN disk' /\ disk[p] = disk'[p])
<1>1. IInv /\ [Next]_vars => [Kept]_vars
  <2>1. IInv /\ [Next]_vars => Kept
    BY IInvNext DEF Outside, Root
  <2> QED BY <2>1
<1>2. Spec => [][Kept]_vars
  BY <1>1, SpecInv, PTL DEF Spec
<1> QED BY <1>2 DEF Confined
=============================================================================
