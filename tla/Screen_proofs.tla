--------------------------- MODULE Screen_proofs ---------------------------
(***************************************************************************)
(* Proofs about what a frame shows (Screen), from those about the list it  *)
(* is drawn from (PanelList_proofs).                                       *)
(***************************************************************************)
EXTENDS Screen, PanelList_proofs

-----------------------------------------------------------------------------
(* The list *)

\* Status lines and frames change nothing of the list.
THEOREM ScreenKeepsList == ScreenSpec => Spec
<1>1. ScreenInit => Init
  BY DEF ScreenInit
<1>2. ScreenNext => [Next]_vars
  BY DEF ScreenNext, fm_status_set, Frame
<1>3. UNCHANGED <<vars, screenVars>> => UNCHANGED vars
  OBVIOUS
<1>4. [ScreenNext]_<<vars, screenVars>> => [Next]_vars
  BY <1>2, <1>3
<1> QED BY <1>1, <1>4, PTL DEF ScreenSpec, Spec

\* So what is proved of a panel's list holds in every frame that is drawn from it.
THEOREM ScreenList ==
    ScreenSpec => /\ []TypeOK /\ []WellLinked /\ []IndexInv /\ []TotalsExact
                  /\ ImplementsFileList
BY ScreenKeepsList, ListTypes, AlwaysLinked, AlwaysSelected, AlwaysExact, RefinesFileList, PTL

\* fm_panel_draw fills its window: the rows are the entries behind those it skips.
LEMMA RowsLength ==
    ASSUME IInv
    PROVE  /\ Len(Rows) = IF used < wh THEN used ELSE wh
           /\ \A k \in 1 .. Len(Rows) : Rows[k] = Chain[Skipped + k] /\ Skipped + k \in 1 .. used
           /\ DOMAIN Rows = 1 .. Len(Rows)
           /\ used > 0 => current_idx + 1 - Skipped \in 1 .. Len(Rows)
           /\ Skipped \in Nat
<1> DEFINE n == IF Skipped + wh < used THEN Skipped + wh ELSE used
<1>1. wh \in Nat /\ wh > 0
  BY PanelAssumption DEF wh
<1>2. used \in Nat /\ current_idx \in Int /\ Chain \in Seq(Node) /\ Len(Chain) = used
      /\ DOMAIN Chain = 1 .. used
  BY ChainFacts DEF IInv, TypeOK
<1>3. IF used = 0 THEN current_idx = -1 ELSE current_idx + 1 \in 1 .. used
  BY <1>2 DEF IInv, IndexInv
<1>4. Skipped \in Nat /\ n \in Int
  BY <1>1, <1>2 DEF Skipped
<1>5. Skipped = IF current_idx - wh + 1 > 0 THEN current_idx - wh + 1 ELSE 0
  BY DEF Skipped
<1>6. Rows = SubSeq(Chain, Skipped + 1, n)
  BY DEF Rows
<1> HIDE DEF n
<1>7. n <= used
  BY <1>1, <1>2, <1>4 DEF n
<1>8. \A i \in Skipped + 1 .. n : Chain[i] \in Node
  <2>1. \A i \in Skipped + 1 .. n : i \in 1 .. used
    BY <1>2, <1>4, <1>7
  <2> QED BY <2>1, <1>2
<1>9. /\ Rows \in Seq(Node)
      /\ Len(Rows) = IF Skipped + 1 <= n THEN n - (Skipped + 1) + 1 ELSE 0
      /\ \A i \in 1 .. n - (Skipped + 1) + 1 : Rows[i] = Chain[(Skipped + 1) + i - 1]
  <2>1. Skipped + 1 \in Int
    BY <1>4
  <2> QED BY <2>1, <1>4, <1>6, <1>8, SubSeqProperties
<1>10. n - Skipped = IF used < wh THEN used ELSE wh
  BY <1>1, <1>2, <1>3, <1>4, <1>5 DEF n
<1>11. Len(Rows) = n - Skipped
  BY <1>1, <1>2, <1>4, <1>9, <1>10
<1>12. \A k \in 1 .. Len(Rows) : Rows[k] = Chain[Skipped + k] /\ Skipped + k \in 1 .. used
  <2>1. SUFFICES ASSUME NEW k \in 1 .. Len(Rows)
                 PROVE  Rows[k] = Chain[Skipped + k] /\ Skipped + k \in 1 .. used
    OBVIOUS
  <2>2. k \in 1 .. n - (Skipped + 1) + 1 /\ (Skipped + 1) + k - 1 = Skipped + k
    BY <1>4, <1>11
  <2>3. Skipped + k \in 1 .. used
    BY <1>2, <1>4, <1>7, <2>2
  <2> QED BY <2>2, <2>3, <1>9
<1>13. used > 0 => current_idx + 1 - Skipped \in 1 .. Len(Rows)
  <2>1. SUFFICES ASSUME used > 0 PROVE current_idx + 1 - Skipped \in 1 .. n - Skipped
    BY <1>11
  <2>2. current_idx + 1 \in 1 .. used
    BY <1>3, <2>1
  <2> QED BY <2>2, <1>1, <1>2, <1>4, <1>5 DEF n
<1> QED BY <1>4, <1>9, <1>10, <1>11, <1>12, <1>13, LenProperties

\* The selection is always drawn: fm_panel_draw skips by current_idx as many entries as
\* leave the cell p->current in the window, and fills the window if it can.
THEOREM AlwaysShown == ScreenSpec => []SelectionShown
<1>1. ASSUME IInv PROVE SelectionShown
  <2>1. Len(Rows) = IF used < wh THEN used ELSE wh
    BY <1>1, RowsLength
  <2>2. ASSUME used > 0 PROVE \E k \in DOMAIN Rows : Rows[k] = current
    <3>1. current_idx + 1 - Skipped \in 1 .. Len(Rows) /\ DOMAIN Rows = 1 .. Len(Rows)
          /\ Skipped \in Nat
      BY <1>1, <2>2, RowsLength
    <3>2. Skipped + (current_idx + 1 - Skipped) = current_idx + 1
      BY <3>1, <1>1 DEF IInv, TypeOK
    <3>3. Rows[current_idx + 1 - Skipped] = Chain[current_idx + 1]
      BY <3>1, <3>2, <1>1, RowsLength
    <3>4. current = Chain[current_idx + 1]
      BY <1>1, <2>2 DEF IInv, IndexInv, TypeOK
    <3> QED BY <3>1, <3>3, <3>4
  <2> QED BY <2>1, <2>2 DEF SelectionShown
<1> QED BY <1>1, ScreenKeepsList, ListInductive, PTL

-----------------------------------------------------------------------------
(* The settings of the fonts *)

\* Settings that have the fonts, the depth and the second texture of R.
Settings(R, c, col, x, y, ac, an) ==
    [fonts |-> R.fonts, current_font |-> c, color |-> col, sx |-> x, sy |-> y,
     autocenter |-> ac, autonewline |-> an,
     z |-> R.z, screen_w |-> R.screen_w, second |-> R.second]

Off == FALSE

\* The number of the program's font, or of the first one if there are fewer.
OwnFont(R) == IF 2 \in 0 .. Len(R.fonts) - 1 THEN 2 ELSE 0

\* What the functions of libfont.c set, and what they leave.
LEMMA Setters ==
    ASSUME NEW R, NEW c, NEW col, NEW x, NEW y, NEW ac, NEW an
    PROVE  LET f == Settings(R, c, col, x, y, ac, an) IN
           /\ SetCurrentFont(f, 2) = Settings(R, OwnFont(R), col, x, y, ac, an)
           /\ SetFontSize(f, 8, 8) = Settings(R, c, col, 8, 8, ac, an)
           /\ \A new : Plain(f, new) = Settings(R, c, new, x, y, Off, 0)
<1> DEFINE f == Settings(R, c, col, x, y, ac, an)
<1>1. SetCurrentFont(f, 2) = Settings(R, OwnFont(R), col, x, y, ac, an)
  <2>1. f.fonts = R.fonts
    BY DEF Settings
  <2>2. SetCurrentFont(f, 2) = [f EXCEPT !.current_font = OwnFont(R)]
    BY <2>1 DEF SetCurrentFont, OwnFont
  <2> QED BY <2>2 DEF Settings
<1>2. SetFontSize(f, 8, 8) = Settings(R, c, col, 8, 8, ac, an)
  <2>1. SetFontSize(f, 8, 8) = [f EXCEPT !.sx = 8, !.sy = 8]
    BY DEF SetFontSize
  <2> QED BY <2>1 DEF Settings
<1>3. ASSUME NEW new PROVE Plain(f, new) = Settings(R, c, new, x, y, Off, 0)
  <2>1. PICK g : g = [f EXCEPT !.color = new]
    OBVIOUS
  <2>2. Plain(f, new) = [g EXCEPT !.autocenter = FALSE, !.autonewline = 0]
    BY <2>1 DEF Plain, SetFontAutoCenter, SetFontColor
  <2>3. g = Settings(R, c, new, x, y, ac, an)
    BY <2>1 DEF Settings
  <2> QED BY <2>2, <2>3 DEF Settings, Off
<1> QED BY <1>1, <1>2, <1>3

LEMMA CentreOff ==
    ASSUME NEW R, NEW c, NEW col, NEW x, NEW y, NEW ac, NEW an
    PROVE  SetFontAutoCenter(Settings(R, c, col, x, y, ac, an), FALSE)
             = Settings(R, c, col, x, y, Off, 0)
<1> DEFINE f == Settings(R, c, col, x, y, ac, an)
<1>1. SetFontAutoCenter(f, FALSE) = [f EXCEPT !.autocenter = FALSE, !.autonewline = 0]
  BY DEF SetFontAutoCenter
<1> QED BY <1>1 DEF Settings, Off

\* Adding a font sets some of the settings only.
LEMMA AddFont ==
    ASSUME NEW f, IsSettings(f), NEW a, NEW b, NEW w, NEW h
    PROVE  IsSettings(AddFontFromBitmapArray(f, a, b, w, h))
<1>1. CASE Len(f.fonts) >= 8
  BY <1>1 DEF AddFontFromBitmapArray
<1>2. CASE ~ (Len(f.fonts) >= 8)
  <2>1. PICK G : G = Append(f.fonts, [first |-> a, last |-> b])
    OBVIOUS
  <2>2. AddFontFromBitmapArray(f, a, b, w, h)
        = [f EXCEPT !.fonts = G, !.autocenter = FALSE, !.color = "white", !.sx = w, !.sy = h,
                    !.z = 0]
    <3>1. AddFontFromBitmapArray(f, a, b, w, h)
          = [f EXCEPT !.fonts = Append(f.fonts, [first |-> a, last |-> b]),
                      !.autocenter = FALSE, !.color = "white", !.sx = w, !.sy = h, !.z = 0]
      BY <1>2 DEF AddFontFromBitmapArray
    <3> QED BY <2>1, <3>1
  <2> QED BY <2>2 DEF IsSettings
<1> QED BY <1>1, <1>2

LEMMA LoadedSettings == IsSettings(LoadTexture)
<1>1. IsSettings(ResetFont)
  BY DEF ResetFont, IsSettings
<1> QED BY <1>1, AddFont DEF LoadTexture

\* The settings of each text of a frame, in some colour.
Own(R, c) == Settings(R, OwnFont(R), c, 8, 8, Off, 0)

\* Eight pixels wide, neither centred nor broken.
Narrow(f) == ~ f.autocenter /\ f.autonewline = 0 /\ f.sx = 8

LEMMA OwnFacts ==
    ASSUME NEW R, NEW c
    PROVE  /\ IsSettings(Own(R, c)) /\ Narrow(Own(R, c))
           /\ \A d : Plain(Own(R, c), d) = Own(R, d)
           /\ SetFontAutoCenter(SetFontSize(SetCurrentFont(Own(R, c), 2), 8, 8), FALSE) = Own(R, c)
           /\ \A d : SetFontColor(Own(R, c), d) = Own(R, d)
<1>1. PICK n : n = OwnFont(R)
  OBVIOUS
<1>2. \A d : Own(R, d) = Settings(R, n, d, 8, 8, Off, 0)
  BY <1>1 DEF Own
<1>3. IsSettings(Own(R, c)) /\ Narrow(Own(R, c))
  BY <1>1, <1>2 DEF IsSettings, Narrow, Settings, Off
<1>4. \A d : Plain(Own(R, c), d) = Own(R, d)
  BY <1>2, Setters
<1>5. SetFontSize(SetCurrentFont(Own(R, c), 2), 8, 8) = Own(R, c)
  <2>1. SetCurrentFont(Own(R, c), 2) = Own(R, c)
    BY <1>1, <1>2, Setters
  <2> QED BY <1>2, <2>1, Setters
<1>6. SetFontAutoCenter(Own(R, c), FALSE) = Own(R, c)
  <2>1. SetFontAutoCenter(Settings(R, n, c, 8, 8, Off, 0), FALSE)
        = Settings(R, n, c, 8, 8, Off, 0)
    BY CentreOff
  <2> QED BY <1>2, <2>1
<1>7. ASSUME NEW d PROVE SetFontColor(Own(R, c), d) = Own(R, d)
  BY <1>2 DEF SetFontColor, Settings
<1> QED BY <1>3, <1>4, <1>5, <1>6, <1>7

\* fm_panel_draw begins with all that other modules may have set and it may set.
LEMMA PanelFonts ==
    ASSUME NEW f, IsSettings(f)
    PROVE  /\ TitleFont(f) = Own(f, "blue") /\ ListFont(f) = Own(f, "black")
           /\ AfterPanel(f) = Own(f, "blue")
<1>1. TitleFont(f) = Own(f, "blue")
  <2>1. PICK c, col, x, y, ac, an : f = Settings(f, c, col, x, y, ac, an)
    BY DEF IsSettings, Settings
  <2>2. SetCurrentFont(f, 2) = Settings(f, OwnFont(f), col, x, y, ac, an)
    BY <2>1, Setters
  <2>3. SetFontSize(Settings(f, OwnFont(f), col, x, y, ac, an), 8, 8)
        = Settings(f, OwnFont(f), col, 8, 8, ac, an)
    BY Setters
  <2>4. Plain(Settings(f, OwnFont(f), col, 8, 8, ac, an), "blue")
        = Settings(f, OwnFont(f), "blue", 8, 8, Off, 0)
    BY Setters
  <2> QED BY <2>2, <2>3, <2>4 DEF TitleFont, Own
<1>2. \A c, d : Plain(Own(f, c), d) = Own(f, d)
  BY OwnFacts
<1>3. ListFont(f) = Own(f, "black")
  BY <1>1, <1>2 DEF ListFont
<1>4. AfterPanel(f) = Own(f, "blue")
  BY <1>2, <1>3 DEF AfterPanel
<1> QED BY <1>1, <1>3, <1>4

\* A panel leaves what it does not set.
LEMMA PanelKeeps ==
    ASSUME NEW f, IsSettings(f)
    PROVE  /\ \A c : Own(AfterPanel(f), c) = Own(f, c)
           /\ IsSettings(AfterPanel(f)) /\ AfterPanel(AfterPanel(f)) = Own(f, "blue")
<1>1. PICK g : g = AfterPanel(f)
  OBVIOUS
<1>2. g = Own(f, "blue")
  BY <1>1, PanelFonts
<1>3. IsSettings(g)
  BY <1>2, OwnFacts
<1>4. g.fonts = f.fonts /\ g.z = f.z /\ g.screen_w = f.screen_w /\ g.second = f.second
  BY <1>2 DEF Own, Settings
<1>5. \A c : Own(g, c) = Own(f, c)
  BY <1>4 DEF Own, OwnFont, Settings
<1>6. AfterPanel(g) = Own(g, "blue")
  BY <1>3, PanelFonts
<1> QED BY <1>1, <1>3, <1>5, <1>6

\* The colour of status line i, the last one that was set; c, if there is none.
Coloured(i) == {j \in 0 .. i : c_msg[j] # "unset"}
LastColoured(i) == CHOOSE j \in Coloured(i) : \A m \in Coloured(i) : m <= j
LineColor(c, i) == IF Coloured(i) = {} THEN c ELSE c_msg[LastColoured(i)]

\* The lines in front of a status line set its colour at most.
LEMMA StatusFonts ==
    ASSUME NEW R, NEW c, NEW i \in -1 .. STATUS_H - 1
    PROVE  StatusFont(Own(R, c))[i] = Own(R, LineColor(c, i))
<1> DEFINE D == -1 .. STATUS_H - 1
           plain == SetFontAutoCenter(SetFontSize(SetCurrentFont(Own(R, c), 2), 8, 8), FALSE)
           Good(g) == g = [k \in D |-> IF k = -1 THEN plain
                              ELSE IF c_msg[k] = "unset" THEN g[k - 1]
                              ELSE SetFontColor(g[k - 1], c_msg[k])]
           line == CHOOSE g : Good(g)
           col(k) == LineColor(c, k)
           w == [k \in D |-> Own(R, col(k))]
<1>1. plain = Own(R, c) /\ STATUS_H \in Nat
  BY OwnFacts, PanelAssumption
<1>2. StatusFont(Own(R, c)) = line
  BY Zenon DEF StatusFont
<1> HIDE DEF plain
<1>3. col(-1) = c
  <2>1. Coloured(-1) = {}
    BY DEF Coloured
  <2> QED BY <2>1 DEF LineColor
<1>4. ASSUME NEW k \in 0 .. STATUS_H - 1
      PROVE  col(k) = IF c_msg[k] = "unset" THEN col(k - 1) ELSE c_msg[k]
  <2>1. CASE c_msg[k] = "unset"
    <3>1. Coloured(k) = Coloured(k - 1)
      BY <2>1, <1>1 DEF Coloured
    <3> QED BY <2>1, <3>1 DEF LineColor, LastColoured
  <2>2. CASE c_msg[k] # "unset"
    <3>1. k \in Coloured(k) /\ Coloured(k) \in SUBSET Nat /\ \A m \in Coloured(k) : m <= k
      BY <2>2, <1>1 DEF Coloured
    <3>2. LastColoured(k) \in Coloured(k) /\ \A m \in Coloured(k) : m <= LastColoured(k)
      BY <3>1 DEF LastColoured
    <3>3. LastColoured(k) = k
      BY <3>1, <3>2
    <3> QED BY <2>2, <3>1, <3>3 DEF LineColor
  <2> QED BY <2>1, <2>2
<1> HIDE DEF col
<1>5. ASSUME NEW k \in D
      PROVE  w[k] = IF k = -1 THEN plain
                    ELSE IF c_msg[k] = "unset" THEN w[k - 1] ELSE SetFontColor(w[k - 1], c_msg[k])
  <2>1. CASE k = -1
    BY <2>1, <1>1, <1>3
  <2>2. CASE k # -1
    <3>1. k \in 0 .. STATUS_H - 1 /\ k - 1 \in D
      BY <2>2, <1>1
    <3>2. w[k] = Own(R, col(k)) /\ w[k - 1] = Own(R, col(k - 1))
      BY <3>1
    <3>3. col(k) = IF c_msg[k] = "unset" THEN col(k - 1) ELSE c_msg[k]
      BY <3>1, <1>4
    <3>4. SetFontColor(Own(R, col(k - 1)), c_msg[k]) = Own(R, c_msg[k])
      <4>1. PICK e : e = col(k - 1)
        OBVIOUS
      <4>2. \A d : SetFontColor(Own(R, e), d) = Own(R, d)
        BY OwnFacts
      <4> QED BY <4>1, <4>2
    <3> HIDE DEF w
    <3>5. CASE c_msg[k] = "unset"
      BY ONLY <2>2, <3>2, <3>3, <3>5
    <3>6. CASE c_msg[k] # "unset"
      BY ONLY <2>2, <3>2, <3>3, <3>4, <3>6
    <3> QED BY <3>5, <3>6
  <2> QED BY <2>1, <2>2
<1>6. Good(w)
  <2>1. w = [k \in D |-> w[k]]
    OBVIOUS
  <2> HIDE DEF w
  <2> QED BY <1>5, <2>1, Zenon
<1> HIDE DEF w
<1>7. Good(line)
  <2> HIDE DEF Good
  <2> QED BY <1>6, Zenon
<1> HIDE DEF line
<1>8. \A k \in D : line[k] = IF k = -1 THEN plain
                      ELSE IF c_msg[k] = "unset" THEN line[k - 1]
                      ELSE SetFontColor(line[k - 1], c_msg[k])
  BY <1>7, Zenon
<1> DEFINE B == {k \in 0 .. STATUS_H : line[k - 1] # w[k - 1]}
<1>9. B = {}
  <2> SUFFICES ASSUME B # {} PROVE FALSE
    OBVIOUS
  <2>1. PICK k \in B : \A j \in B : k <= j
    <3>1. B \in SUBSET Nat
      OBVIOUS
    <3> HIDE DEF B
    <3> QED BY <3>1, Least
  <2>2. k # 0
    <3>1. -1 \in D /\ line[-1] = w[-1]
      BY <1>1, <1>5, <1>8
    <3> QED BY <3>1
  <2>3. k \in 1 .. STATUS_H /\ k - 1 \in 0 .. STATUS_H /\ ~ (k <= k - 1) /\ k - 1 \in D /\ k - 1 # -1
    BY <2>2, <1>1
  <2>4. k - 1 \notin B
    BY <2>1, <2>3
  <2>5. line[k - 1 - 1] = w[k - 1 - 1]
    BY <2>3, <2>4
  <2>6. line[k - 1] = w[k - 1]
    BY <1>5, <1>8, <2>3, <2>5
  <2> QED BY <2>6
<1>10. i + 1 \in 0 .. STATUS_H /\ i + 1 - 1 = i /\ i \in D
  BY <1>1
<1>11. line[i] = w[i]
  BY <1>9, <1>10
<1> QED BY <1>2, <1>10, <1>11 DEF w, col

\* The limits of the screen matter for centred texts only.
LEMMA SameText ==
    ASSUME NEW R, NEW S, R.fonts = S.fonts, R.z = S.z, R.second = S.second,
           NEW c, NEW x, NEW y, NEW s
    PROVE  DrawString(Own(R, c), x, y, s) = DrawString(Own(S, c), x, y, s)
<1> DEFINE f == Own(R, c)
           g == Own(S, c)
           Good(e, h) == h = [i \in 0 .. Len(s) |->
                                IF i = 0 THEN << <<x, y>> >>
                                ELSE Append(h[i - 1], Behind(e, s, i, h[i - 1][i]))]
           pens(e) == CHOOSE h : Good(e, h)
           Chars(e, pen) == {[at |-> StartOf(e, s, i, pen[i]), char |-> s[i], color |-> e.color,
                              size |-> <<e.sx, e.sy>>, z |-> e.z, second |-> e.second] :
                                i \in {i \in DOMAIN s : s[i] # NewLine /\ HasPicture(e, s[i])}}
<1>1. /\ f.fonts = g.fonts /\ f.current_font = g.current_font /\ f.color = g.color
      /\ f.sx = g.sx /\ f.sy = g.sy /\ f.z = g.z /\ f.second = g.second
      /\ ~ f.autocenter /\ ~ g.autocenter /\ f.autonewline = 0 /\ g.autonewline = 0
  BY DEF Own, Settings, OwnFont, Off
<1>2. \A e : e \in {f, g} => ~ e.autocenter
  BY <1>1
<1> HIDE DEF f, g
<1>3. \A a : HasPicture(f, a) = HasPicture(g, a)
  BY <1>1 DEF HasPicture
<1>4. \A i, p : StartOf(f, s, i, p) = p /\ StartOf(g, s, i, p) = p
  BY <1>1 DEF StartOf
<1>5. \A i, p : Behind(f, s, i, p) = Behind(g, s, i, p)
  BY <1>1, <1>3, <1>4 DEF Behind, Advance
<1>6. pens(f) = pens(g)
  <2>1. ASSUME NEW h PROVE Good(f, h) <=> Good(g, h)
    <3>1. \A i \in 0 .. Len(s) :
             (IF i = 0 THEN << <<x, y>> >> ELSE Append(h[i - 1], Behind(f, s, i, h[i - 1][i])))
             = (IF i = 0 THEN << <<x, y>> >> ELSE Append(h[i - 1], Behind(g, s, i, h[i - 1][i])))
      BY <1>5, Zenon
    <3>2. [i \in 0 .. Len(s) |-> IF i = 0 THEN << <<x, y>> >>
                                  ELSE Append(h[i - 1], Behind(f, s, i, h[i - 1][i]))]
          = [i \in 0 .. Len(s) |-> IF i = 0 THEN << <<x, y>> >>
                                    ELSE Append(h[i - 1], Behind(g, s, i, h[i - 1][i]))]
      BY <3>1, Zenon
    <3> QED BY <3>2, Zenon
  <2> HIDE DEF Good
  <2> QED BY <2>1, Zenon
<1>7. \A pen : Chars(f, pen) = Chars(g, pen)
  BY <1>1, <1>3, <1>4
<1>8. ASSUME NEW e \in {f, g}
      PROVE  DrawString(e, x, y, s) = IF y < 0 THEN {} ELSE Chars(e, pens(e)[Len(s)])
  <2> DEFINE left == IF e.autocenter THEN (e.screen_w - WidthFromStr(e, s)) \div 2 ELSE x
             qens == CHOOSE h : h = [i \in 0 .. Len(s) |->
                        IF i = 0 THEN << <<left, y>> >>
                        ELSE Append(h[i - 1], Behind(e, s, i, h[i - 1][i]))]
  <2>1. DrawString(e, x, y, s) = IF y < 0 THEN {} ELSE Chars(e, qens[Len(s)])
    BY Zenon DEF DrawString
  <2>2. left = x
    BY <1>2
  <2>3. qens = pens(e)
    BY <2>2, Zenon
  <2> HIDE DEF qens, pens, Chars
  <2> QED BY <2>1, <2>3
<1> HIDE DEF Chars, pens
<1> QED BY <1>6, <1>7, <1>8 DEF f, g

\* The font is always a record of settings, the status lines are messages.
FontInv ==
    IsSettings(font) /\ s_msg \in [0 .. STATUS_H - 1 -> Messages \cup {<<>>}]

LEMMA FontAlways == ScreenSpec => []FontInv
<1>1. ScreenInit => FontInv
  BY LeftAssumption DEF ScreenInit, FontInv
<1>2. FontInv /\ [ScreenNext]_<<vars, screenVars>> => FontInv'
  <2> SUFFICES ASSUME FontInv, [ScreenNext]_<<vars, screenVars>> PROVE FontInv'
    OBVIOUS
  <2>1. CASE UNCHANGED <<font, s_msg>>
    <3>1. font' = font /\ s_msg' = s_msg
      BY <2>1
    <3> QED BY <3>1 DEF FontInv
  <2>2. ASSUME NEW i \in 0 .. STATUS_H - 1, NEW m \in Messages, fm_status_set(m, i, "green")
        PROVE  FontInv'
    BY <2>2 DEF fm_status_set, FontInv
  <2>3. CASE Frame
    <3>1. /\ AfterPanel(font) = Own(font, "blue")
          /\ AfterPanel(AfterPanel(font)) = Own(font, "blue")
      BY PanelFonts, PanelKeeps DEF FontInv
    <3>2. STATUS_H - 1 \in -1 .. STATUS_H - 1
      BY PanelAssumption
    <3>3. PICK d : StatusFont(Own(font, "blue"))[STATUS_H - 1] = Own(font, d)
      BY <3>2, StatusFonts
    <3>4. AfterFrame(font) = Own(font, "red")
      <4>1. AfterFrame(font) = Plain(Own(font, d), "red")
        BY <3>1, <3>3 DEF AfterFrame, VersionFont
      <4>2. \A b, c : Plain(Own(font, b), c) = Own(font, c)
        BY OwnFacts
      <4> QED BY <4>1, <4>2
    <3>5. font' = Own(font, "red") /\ s_msg' = s_msg
      BY <2>3, <3>4 DEF Frame
    <3>6. IsSettings(font')
      BY <3>5, OwnFacts
    <3> QED BY <3>5, <3>6 DEF FontInv
  <2>4. CASE Next /\ UNCHANGED screenVars
    BY <2>1, <2>4 DEF screenVars
  <2>5. CASE UNCHANGED <<vars, screenVars>>
    BY <2>1, <2>5 DEF screenVars
  <2> QED BY <2>2, <2>3, <2>4, <2>5 DEF ScreenNext
<1> QED BY <1>1, <1>2, PTL DEF ScreenSpec

\* Every frame looks as the first frame of the program on its own, but for the fonts, the
\* depth and the second texture: fm_panel_draw, fm_status_draw and the version set each other
\* setting that libfont.c draws by, before they draw.
THEOREM AlwaysSame == ScreenSpec => []FrameSame
<1>1. ASSUME IsSettings(font) PROVE FrameSame
  <2> DEFINE own == [LoadTexture EXCEPT !.fonts = font.fonts, !.z = font.z, !.second = font.second]
  <2>1. IsSettings(own) /\ own.fonts = font.fonts /\ own.z = font.z /\ own.second = font.second
    <3>1. PICK l : l = LoadTexture /\ IsSettings(l)
      BY LoadedSettings
    <3>2. own = [l EXCEPT !.fonts = font.fonts, !.z = font.z, !.second = font.second]
      BY <3>1
    <3> HIDE DEF own
    <3> QED BY <3>1, <3>2 DEF IsSettings
  <2> HIDE DEF own
  <2>2. \A c, x, y, s : DrawString(Own(font, c), x, y, s) = DrawString(Own(own, c), x, y, s)
    BY <2>1, SameText
  <2>3. ASSUME NEW f, IsSettings(f)
        PROVE  /\ TitleFont(f) = Own(f, "blue") /\ ListFont(f) = Own(f, "black")
               /\ AfterPanel(f) = Own(f, "blue") /\ \A c : Own(AfterPanel(f), c) = Own(f, c)
               /\ IsSettings(AfterPanel(f))
    BY <2>3, PanelFonts, PanelKeeps
  <2> DEFINE Title(f, x) == DrawString(Own(f, "blue"), x, 0,
                                Cut(IF Path = <<>> THEN Printed(6) ELSE Path, PANEL_W - 2))
             Row(f, x, k) == DrawString(Own(f, "black"), IF Marked(Rows[k]) THEN x ELSE x + 8,
                                        RowY(k), RowText(Rows[k]))
             RowSize(f, x, k) == DrawString(Own(f, "black"), x + 8 + (PANEL_W - 7) * 8, RowY(k),
                                            SizeText(Size(name[Rows[k]], FALSE)))
             Totals(f, x) == DrawString(Own(f, "blue"), x, RowY(wh + 1), TotalsText)
             Files == {k \in DOMAIN Rows : ~ dir[Rows[k]]}
             Panel(f, x) == Title(f, x) \cup (UNION {Row(f, x, k) : k \in DOMAIN Rows})
                            \cup (UNION {RowSize(f, x, k) : k \in Files})
                            \cup (IF Path = <<>> THEN {} ELSE Totals(f, x))
             Line_(f, i) == DrawString(Own(f, LineColor("blue", i)), 0, (PANEL_H + i) * 8, s_msg[i])
             Lines(f) == [i \in 0 .. STATUS_H - 1 |-> Line_(f, i)]
             Version(f) == DrawString(Own(f, "red"), SCREEN_W - 48, (PANEL_H + STATUS_H - 1) * 8,
                                      Printed(6))
  <2>4. ASSUME NEW f, NEW R, TitleFont(f) = Own(R, "blue"), ListFont(f) = Own(R, "black"),
               AfterPanel(f) = Own(R, "blue"), NEW x
        PROVE  fm_panel_draw(f, x) = Panel(R, x)
    BY <2>4, Zenon DEF fm_panel_draw
  <2>5. ASSUME NEW f, IsSettings(f)
        PROVE  Drawn(f) = [left |-> Panel(f, 0), right |-> Panel(f, Panel_px),
                           status |-> Lines(f), version |-> Version(f)]
    <3> HIDE DEF Panel, Lines, Version
    <3>1. fm_panel_draw(f, 0) = Panel(f, 0)
      BY <2>3, <2>4, <2>5
    <3>2. fm_panel_draw(AfterPanel(f), Panel_px) = Panel(f, Panel_px)
      <4>1. PICK g : g = AfterPanel(f)
        OBVIOUS
      <4>2. IsSettings(g) /\ \A c : Own(g, c) = Own(f, c)
        BY <2>3, <2>5, <4>1
      <4>3. /\ TitleFont(g) = Own(f, "blue") /\ ListFont(g) = Own(f, "black")
            /\ AfterPanel(g) = Own(f, "blue")
        BY <2>3, <4>2
      <4> QED BY <2>4, <4>1, <4>3
    <3>3. AfterPanel(AfterPanel(f)) = Own(f, "blue")
      BY <2>3, <2>5
    <3>4. \A i \in -1 .. STATUS_H - 1 :
             StatusFont(Own(f, "blue"))[i] = Own(f, LineColor("blue", i))
      BY StatusFonts
    <3>5. fm_status_draw(Own(f, "blue")) = Lines(f)
      <4>1. \A i \in 0 .. STATUS_H - 1 : i \in -1 .. STATUS_H - 1
        BY PanelAssumption
      <4>2. \A i \in 0 .. STATUS_H - 1 :
               DrawString(StatusFont(Own(f, "blue"))[i], 0, (PANEL_H + i) * 8, s_msg[i])
                 = Line_(f, i)
        BY <3>4, <4>1
      <4> QED BY <4>2, Zenon DEF fm_status_draw, Lines
    <3>6. VersionFont(StatusFont(Own(f, "blue"))[STATUS_H - 1]) = Own(f, "red")
      <4>1. STATUS_H - 1 \in -1 .. STATUS_H - 1
        BY PanelAssumption
      <4>2. PICK e : StatusFont(Own(f, "blue"))[STATUS_H - 1] = Own(f, e)
        BY <3>4, <4>1
      <4>3. VersionFont(StatusFont(Own(f, "blue"))[STATUS_H - 1]) = Plain(Own(f, e), "red")
        BY <4>2 DEF VersionFont
      <4>4. \A b, c : Plain(Own(f, b), c) = Own(f, c)
        BY OwnFacts
      <4> QED BY <4>3, <4>4
    <3> QED BY <3>1, <3>2, <3>3, <3>5, <3>6 DEF Drawn, Version
  <2>6. ASSUME NEW x PROVE Panel(font, x) = Panel(own, x)
    <3>1. Title(font, x) = Title(own, x) /\ Totals(font, x) = Totals(own, x)
      BY <2>2
    <3>2. \A k : Row(font, x, k) = Row(own, x, k) /\ RowSize(font, x, k) = RowSize(own, x, k)
      BY <2>2
    <3> HIDE DEF Title, Row, RowSize, Totals, Files
    <3>3. /\ {Row(font, x, k) : k \in DOMAIN Rows} = {Row(own, x, k) : k \in DOMAIN Rows}
          /\ {RowSize(font, x, k) : k \in Files} = {RowSize(own, x, k) : k \in Files}
      BY <3>2, Zenon
    <3> QED BY <3>1, <3>3, Zenon
  <2>7. Lines(font) = Lines(own) /\ Version(font) = Version(own)
    <3>1. \A i : Line_(font, i) = Line_(own, i)
      BY <2>2
    <3> HIDE DEF Line_
    <3>2. Lines(font) = Lines(own)
      BY <3>1, Zenon
    <3> QED BY <2>2, <3>2
  <2> HIDE DEF Panel, Lines, Version
  <2>8. Drawn(font) = Drawn(own)
    BY <1>1, <2>1, <2>5, <2>6, <2>7
  <2> QED BY <2>8 DEF FrameSame, own
<1>2. FontInv => IsSettings(font)
  BY DEF FontInv
<1> QED BY <1>1, <1>2, FontAlways, PTL

-----------------------------------------------------------------------------
(* Texts *)

\* The width of the first i - 1 characters, from x on.
PenAt(f, s, x, i) == x + 8 * Cardinality({j \in 1 .. i - 1 : HasPicture(f, s[j])})

LEMMA PenAtFacts ==
    ASSUME NEW f, f.sx = 8, NEW s, NEW x \in Int, NEW i \in Nat \ {0}
    PROVE  /\ PenAt(f, s, x, i) \in Int
           /\ x <= PenAt(f, s, x, i) /\ PenAt(f, s, x, i) <= x + 8 * (i - 1)
           /\ PenAt(f, s, x, 1) = x
           /\ PenAt(f, s, x, i + 1) = PenAt(f, s, x, i) + Advance(f, s[i])
<1> DEFINE S(k) == {j \in 1 .. k - 1 : HasPicture(f, s[j])}
<1>1. \A k \in Nat \ {0} : /\ IsFiniteSet(S(k)) /\ Cardinality(S(k)) \in Nat
                           /\ Cardinality(S(k)) <= k - 1
  <2> SUFFICES ASSUME NEW k \in Nat \ {0}
               PROVE  IsFiniteSet(S(k)) /\ Cardinality(S(k)) \in Nat /\ Cardinality(S(k)) <= k - 1
    OBVIOUS
  <2>1. IsFiniteSet(1 .. k - 1) /\ Cardinality(1 .. k - 1) = k - 1
    <3>1. 1 \in Int /\ k - 1 \in Int
      OBVIOUS
    <3>2. IsFiniteSet(1 .. k - 1)
          /\ Cardinality(1 .. k - 1) = IF 1 > k - 1 THEN 0 ELSE k - 1 - 1 + 1
      BY <3>1, FS_Interval
    <3> QED BY <3>2
  <2>2. S(k) \subseteq 1 .. k - 1
    OBVIOUS
  <2> HIDE DEF S
  <2> QED BY <2>1, <2>2, FS_Subset, FS_CardinalityType
<1>2. Cardinality(S(1)) = 0
  <2>1. S(1) = {}
    OBVIOUS
  <2> QED BY <2>1, FS_EmptySet
<1>3. Cardinality(S(i + 1)) = Cardinality(S(i)) + IF HasPicture(f, s[i]) THEN 1 ELSE 0
  <2>1. CASE HasPicture(f, s[i])
    <3>1. S(i + 1) = S(i) \cup {i} /\ i \notin S(i)
      BY <2>1
    <3> HIDE DEF S
    <3> QED BY <1>1, <2>1, <3>1, FS_AddElement
  <2>2. CASE ~ HasPicture(f, s[i])
    <3>1. S(i + 1) = S(i)
      BY <2>2
    <3> HIDE DEF S
    <3> QED BY <1>1, <2>2, <3>1
  <2> QED BY <2>1, <2>2
<1>4. \A k : PenAt(f, s, x, k) = x + 8 * Cardinality(S(k))
  BY DEF PenAt
<1> HIDE DEF S
<1>5. 8 * Cardinality(S(i + 1)) = 8 * Cardinality(S(i)) + Advance(f, s[i])
  <2>1. CASE HasPicture(f, s[i])
    BY <1>1, <1>3, <2>1 DEF Advance
  <2>2. CASE ~ HasPicture(f, s[i])
    BY <1>1, <1>3, <2>2 DEF Advance
  <2> QED BY <2>1, <2>2
<1>6. Advance(f, s[i]) \in Int
  BY DEF Advance
<1> QED BY <1>1, <1>2, <1>4, <1>5, <1>6

\* A text that is neither centred nor broken takes one line, of at most eight pixels for
\* each of its characters.
LEMMA PlainText ==
    ASSUME NEW f, ~ f.autocenter, f.autonewline = 0, f.sx = 8, NEW x \in Int, NEW y \in Nat,
           NEW T, NEW s \in Seq(T), \A i \in 1 .. Len(s) : s[i] # NewLine,
           NEW c \in DrawString(f, x, y, s)
    PROVE  /\ c.at[1] \in Int /\ c.at[2] = y
           /\ x <= c.at[1] /\ c.at[1] + 8 <= x + 8 * Len(s)
<1> DEFINE n == Len(s)
           P(i) == PenAt(f, s, x, i)
           Good(g) == g = [i \in 0 .. n |-> IF i = 0 THEN << <<x, y>> >>
                             ELSE Append(g[i - 1], Behind(f, s, i, g[i - 1][i]))]
           pens == CHOOSE g : Good(g)
           C == [i \in 0 .. n |-> [k \in 1 .. i + 1 |-> <<P(k), y>>]]
<1>1. n \in Nat
  OBVIOUS
<1>2. \A i \in 1 .. n : P(i) \in Int /\ x <= P(i) /\ P(i) <= x + 8 * (i - 1)
                        /\ P(i + 1) = P(i) + Advance(f, s[i])
                        /\ P(1) = x /\ P(i + 1) \in Int
  <2> SUFFICES ASSUME NEW i \in 1 .. n
               PROVE  P(i) \in Int /\ x <= P(i) /\ P(i) <= x + 8 * (i - 1)
                      /\ P(i + 1) = P(i) + Advance(f, s[i])
                      /\ P(1) = x /\ P(i + 1) \in Int
    OBVIOUS
  <2>1. i \in Nat \ {0} /\ i + 1 \in Nat \ {0}
    BY <1>1
  <2>2. \A k \in Nat \ {0} :
           /\ P(k) \in Int /\ x <= P(k) /\ P(k) <= x + 8 * (k - 1) /\ P(1) = x
           /\ P(k + 1) = P(k) + Advance(f, s[k])
    <3> SUFFICES ASSUME NEW k \in Nat \ {0}
                 PROVE  /\ P(k) \in Int /\ x <= P(k) /\ P(k) <= x + 8 * (k - 1) /\ P(1) = x
                        /\ P(k + 1) = P(k) + Advance(f, s[k])
      OBVIOUS
    <3>1. P(k) \in Int
      BY PenAtFacts
    <3>2. x <= P(k) /\ P(k) <= x + 8 * (k - 1)
      BY PenAtFacts
    <3>3. P(1) = x
      BY PenAtFacts
    <3>4. P(k + 1) = P(k) + Advance(f, s[k])
      BY PenAtFacts
    <3> QED BY <3>1, <3>2, <3>3, <3>4
  <2> HIDE DEF P
  <2> QED BY <2>1, <2>2
<1>3. P(1) = x /\ \A k \in Nat \ {0} : P(k) \in Int
  BY PenAtFacts
<1> HIDE DEF P
<1>4. \A i \in 1 .. n : \A a :
           Behind(f, s, i, <<a, y>>) = <<a + Advance(f, s[i]), y>>
  BY DEF Behind, StartOf, Advance
<1>5. C[0] = << <<x, y>> >>
  <2>1. 0 \in 0 .. n /\ C[0] = [k \in 1 .. 1 |-> <<P(k), y>>]
    BY <1>1
  <2>2. C[0] = [k \in 1 .. 1 |-> <<x, y>>]
    BY <1>3, <2>1
  <2>3. [k \in 1 .. 1 |-> <<x, y>>] = << <<x, y>> >>
    OBVIOUS
  <2> QED BY <2>2, <2>3
<1>6. ASSUME NEW i \in 1 .. n
      PROVE  /\ C[i - 1][i] = <<P(i), y>>
             /\ C[i] = Append(C[i - 1], <<P(i + 1), y>>)
  <2> DEFINE U == Int \X Nat
             a == [k \in 1 .. i |-> <<P(k), y>>]
             b == [k \in 1 .. i + 1 |-> <<P(k), y>>]
             v == <<P(i + 1), y>>
  <2>1. i - 1 \in 0 .. n /\ i \in 0 .. n /\ i - 1 + 1 = i /\ i \in 1 .. i /\ i \in Nat /\ i + 1 \in Nat
    BY <1>1
  <2>2. C[i - 1] = a /\ C[i] = b
    BY <2>1
  <2> HIDE DEF C
  <2>3. \A k \in 1 .. i + 1 : <<P(k), y>> \in U
    BY <1>3, <2>1
  <2>4. a \in Seq(U) /\ Len(a) = i /\ \A k \in 1 .. i : a[k] = <<P(k), y>>
    <3>1. a \in [1 .. i -> U]
      BY <2>1, <2>3
    <3> QED BY <2>1, <3>1
  <2>5. b \in Seq(U) /\ Len(b) = i + 1 /\ \A k \in 1 .. i + 1 : b[k] = <<P(k), y>>
    <3>1. b \in [1 .. i + 1 -> U]
      BY <2>3
    <3> QED BY <2>1, <3>1
  <2>6. v \in U
    BY <2>1, <2>3
  <2> HIDE DEF a, b, v, U
  <2>7. /\ Append(a, v) \in Seq(U) /\ Len(Append(a, v)) = i + 1
        /\ Append(a, v)[i + 1] = v /\ \A k \in 1 .. i : Append(a, v)[k] = a[k]
    BY <2>4, <2>6, AppendProperties
  <2>8. \A k \in 1 .. i + 1 : Append(a, v)[k] = b[k]
    <3> SUFFICES ASSUME NEW k \in 1 .. i + 1 PROVE Append(a, v)[k] = b[k]
      OBVIOUS
    <3>1. CASE k = i + 1
      BY <3>1, <2>1, <2>5, <2>7 DEF v
    <3>2. CASE k # i + 1
      <4>1. k \in 1 .. i
        BY <3>2, <2>1
      <4> QED BY <4>1, <2>4, <2>5, <2>7
    <3> QED BY <3>1, <3>2
  <2>9. Append(a, v) = b
    BY <2>5, <2>7, <2>8, SeqEqual
  <2> QED BY <2>1, <2>2, <2>4, <2>9 DEF v
<1>7. ASSUME NEW i \in 0 .. n
      PROVE  C[i] = IF i = 0 THEN << <<x, y>> >>
                    ELSE Append(C[i - 1], Behind(f, s, i, C[i - 1][i]))
  <2>1. CASE i = 0
    BY <2>1, <1>5
  <2>2. CASE i # 0
    <3>1. i \in 1 .. n
      BY <2>2, <1>1
    <3> HIDE DEF C
    <3>2. Behind(f, s, i, C[i - 1][i]) = <<P(i + 1), y>>
      <4>1. Behind(f, s, i, <<P(i), y>>) = <<P(i) + Advance(f, s[i]), y>>
        BY <3>1, <1>4
      <4>2. C[i - 1][i] = <<P(i), y>>
        BY <3>1, <1>6
      <4>3. P(i + 1) = P(i) + Advance(f, s[i])
        BY <3>1, <1>2
      <4> QED BY ONLY <4>1, <4>2, <4>3
    <3> QED BY <2>2, <3>1, <3>2, <1>6
  <2> QED BY <2>1, <2>2
<1>8. Good(C)
  <2>1. C = [i \in 0 .. n |-> C[i]]
    OBVIOUS
  <2> HIDE DEF C
  <2> QED BY <1>7, <2>1, Zenon
<1> HIDE DEF C
<1>9. Good(pens)
  <2> HIDE DEF Good
  <2> QED BY <1>8, Zenon
<1>10. pens[n] = C[n]
  <2> DEFINE B == {i \in 0 .. n : pens[i] # C[i]}
  <2> HIDE DEF pens
  <2>1. \A i \in 0 .. n : pens[i] = IF i = 0 THEN << <<x, y>> >>
                            ELSE Append(pens[i - 1], Behind(f, s, i, pens[i - 1][i]))
    BY <1>9, Zenon
  <2>2. B = {}
    <3> SUFFICES ASSUME B # {} PROVE FALSE
      OBVIOUS
    <3>1. B \in SUBSET Nat
      BY <1>1
    <3>2. PICK i \in B : \A j \in B : i <= j
      BY <3>1, Least
    <3>3. i # 0
      BY <3>2, <2>1, <1>5, <1>1
    <3>4. i - 1 \in 0 .. n /\ ~ (i <= i - 1)
      BY <3>3, <1>1
    <3>5. pens[i - 1] = C[i - 1]
      BY <3>2, <3>4
    <3> QED BY <3>3, <3>5, <2>1, <1>7
  <2> QED BY <2>2, <1>1
<1>11. PICK i \in 1 .. n : c.at = StartOf(f, s, i, pens[n][i])
  <2>1. ~ (y < 0)
    OBVIOUS
  <2> DEFINE left == IF f.autocenter THEN (f.screen_w - WidthFromStr(f, s)) \div 2 ELSE x
             Chars(pen) == {[at |-> StartOf(f, s, i, pen[i]), char |-> s[i],
                             color |-> f.color, size |-> <<f.sx, f.sy>>,
                             z |-> f.z, second |-> f.second] :
                                i \in {i \in DOMAIN s : s[i] # NewLine /\ HasPicture(f, s[i])}}
             qens == CHOOSE g : g = [i \in 0 .. Len(s) |->
                        IF i = 0 THEN << <<left, y>> >>
                        ELSE Append(g[i - 1], Behind(f, s, i, g[i - 1][i]))]
  <2>2. DrawString(f, x, y, s) = Chars(qens[Len(s)])
    BY <2>1, Zenon DEF DrawString
  <2>3. left = x
    OBVIOUS
  <2>4. qens = pens
    BY <2>3, Zenon
  <2> HIDE DEF qens, pens
  <2>5. c \in Chars(pens[n])
    BY <2>2, <2>4
  <2>6. DOMAIN s = 1 .. n
    BY LenProperties
  <2> QED BY <2>5, <2>6
<1> HIDE DEF pens
<1>12. StartOf(f, s, i, pens[n][i]) = <<P(i), y>>
  <2>1. C[n][i] = <<P(i), y>>
    BY <1>1 DEF C
  <2> QED BY <1>10, <2>1 DEF StartOf
<1>13. c.at[1] = P(i) /\ c.at[2] = y
  BY <1>11, <1>12
<1>14. PICK p \in Int : p = c.at[1] /\ x <= p /\ p <= x + 8 * (i - 1)
  BY <1>2, <1>13
<1>15. i \in Nat /\ i - 1 <= n - 1
  BY <1>1
<1>16. p + 8 <= x + 8 * n
  BY ONLY <1>1, <1>14, <1>15, p \in Int, x \in Int
<1> QED BY <1>13, <1>14, <1>16

\* A text without line breaks.
Line(s) == s \in Seq(Nat) /\ \A i \in 1 .. Len(s) : s[i] # NewLine

InBox(cells, x, y, w, h) ==
    \A c \in cells : /\ x <= c.at[1] /\ c.at[1] + 8 <= x + w
                     /\ y <= c.at[2] /\ c.at[2] + 8 <= y + h

LEMMA LineInBox ==
    ASSUME NEW f, ~ f.autocenter, f.autonewline = 0, f.sx = 8, NEW s, Line(s),
           NEW a \in Int, NEW b \in Nat, NEW x \in Int, NEW y \in Int, NEW w \in Int, NEW h \in Int,
           x <= a, a + 8 * Len(s) <= x + w, y <= b, b + 8 <= y + h
    PROVE  InBox(DrawString(f, a, b, s), x, y, w, h)
<1> SUFFICES ASSUME NEW c \in DrawString(f, a, b, s)
             PROVE  /\ x <= c.at[1] /\ c.at[1] + 8 <= x + w
                    /\ y <= c.at[2] /\ c.at[2] + 8 <= y + h
  BY DEF InBox
<1>1. /\ c.at[1] \in Int /\ c.at[2] = b
      /\ a <= c.at[1] /\ c.at[1] + 8 <= a + 8 * Len(s)
  BY PlainText DEF Line
<1>2. Len(s) \in Nat
  BY DEF Line
<1> QED BY <1>1, <1>2

LEMMA CutLine ==
    ASSUME NEW s, Line(s), NEW size \in Nat \ {0}
    PROVE  Line(Cut(s, size)) /\ Len(Cut(s, size)) <= size - 1 /\ Len(Cut(s, size)) <= Len(s)
<1> DEFINE k == IF Len(s) < size THEN Len(s) ELSE size - 1
           t == SubSeq(s, 1, k)
<1>1. s \in Seq(Nat) /\ Len(s) \in Nat
  BY DEF Line
<1>2. k \in Nat /\ k <= Len(s) /\ k <= size - 1
  BY <1>1
<1>3. Cut(s, size) = t
  BY DEF Cut
<1> HIDE DEF k
<1>4. \A i \in 1 .. k : s[i] \in Nat /\ s[i] # NewLine
  BY <1>1, <1>2 DEF Line
<1>5. /\ t \in Seq(Nat) /\ Len(t) = IF 1 <= k THEN k - 1 + 1 ELSE 0
      /\ \A i \in 1 .. k - 1 + 1 : t[i] = s[1 + i - 1]
  BY <1>2, <1>4, SubSeqProperties
<1>6. Len(t) = k
  BY <1>2, <1>5
<1>7. \A i \in 1 .. k : t[i] = s[i]
  <2>1. \A i \in 1 .. k : i \in 1 .. k - 1 + 1 /\ 1 + i - 1 = i
    BY <1>2
  <2> QED BY <1>5, <2>1
<1> HIDE DEF t
<1> QED BY <1>2, <1>3, <1>4, <1>5, <1>6, <1>7 DEF Line

LEMMA PrintedLine ==
    ASSUME NEW n \in Nat
    PROVE  Line(Printed(n)) /\ Len(Printed(n)) = n
<1>1. Printed(n) \in [1 .. n -> Nat] /\ \A i \in 1 .. n : Printed(n)[i] = 48
  BY DEF Printed, Digit
<1>2. Printed(n) \in Seq(Nat) /\ Len(Printed(n)) = n
  BY <1>1
<1> QED BY <1>1, <1>2 DEF Line, NewLine

LEMMA MarkLine ==
    ASSUME NEW s, Line(s), NEW c \in Nat, c # NewLine
    PROVE  Line(<<c>> \o s) /\ Len(<<c>> \o s) = 1 + Len(s)
<1>1. s \in Seq(Nat) /\ <<c>> \in Seq(Nat) /\ Len(<<c>>) = 1 /\ <<c>>[1] = c /\ Len(s) \in Nat
  BY DEF Line
<1> DEFINE t == <<c>> \o s
<1>2. /\ t \in Seq(Nat) /\ Len(t) = Len(<<c>>) + Len(s)
      /\ \A i \in 1 .. Len(<<c>>) : t[i] = <<c>>[i]
      /\ \A i \in Len(<<c>>) + 1 .. Len(<<c>>) + Len(s) : t[i] = s[i - Len(<<c>>)]
  BY <1>1, ConcatProperties
<1> HIDE DEF t
<1>3. Len(t) = 1 + Len(s) /\ t[1] = c /\ \A i \in 2 .. 1 + Len(s) : t[i] = s[i - 1]
  BY <1>1, <1>2
<1>4. \A i \in 1 .. Len(t) : t[i] # NewLine
  <2> SUFFICES ASSUME NEW i \in 1 .. Len(t) PROVE t[i] # NewLine
    OBVIOUS
  <2>1. CASE i = 1
    BY <1>3, <2>1
  <2>2. CASE i # 1
    <3>1. i \in 2 .. 1 + Len(s) /\ i - 1 \in 1 .. Len(s)
      BY <1>1, <1>3, <2>2
    <3> QED BY <1>3, <3>1 DEF Line
  <2> QED BY <2>1, <2>2
<1> QED BY <1>2, <1>3, <1>4 DEF t, Line

LEMMA DigitsType == \A n : Digits(n) \in Nat \ {0}
<1> SUFFICES ASSUME NEW n PROVE Digits(n) \in Nat \ {0}
  OBVIOUS
<1>1. IsFiniteSet(1 .. 9)
  <2>1. 1 \in Int /\ 9 \in Int
    OBVIOUS
  <2> QED BY ONLY <2>1, FS_Interval
<1>2. {d \in 1 .. 9 : 10 ^ d <= n} \subseteq 1 .. 9
  OBVIOUS
<1>3. Cardinality({d \in 1 .. 9 : 10 ^ d <= n}) \in Nat
  BY <1>1, <1>2, FS_Subset, FS_CardinalityType
<1> QED BY <1>3 DEF Digits

\* A row whose texts have no line break and a size of four digits at most.
TameRow(k) ==
    /\ Line(NameText[name[Rows[k]]])
    /\ dir[Rows[k]] \/ Digits(InUnit(SizeOf[name[Rows[k]]])) <= 4

LEMMA OwnText ==
    ASSUME NEW R, NEW c, NEW s, Line(s), NEW a \in Int, NEW b \in Nat, NEW x \in Int, NEW y \in Int,
           NEW w \in Int, NEW h \in Int, x <= a, a + 8 * Len(s) <= x + w, y <= b, b + 8 <= y + h
    PROVE  InBox(DrawString(Own(R, c), a, b, s), x, y, w, h)
<1>1. PICK f : f = Own(R, c)
  OBVIOUS
<1>2. ~ f.autocenter /\ f.autonewline = 0 /\ f.sx = 8
  BY <1>1, OwnFacts DEF Narrow
<1> QED BY <1>1, <1>2, LineInBox

\* On the panel that begins at x.
InPanel(cells, x) == InBox(cells, x, 0, Panel_px, PANEL_H * 8)

LEMMA OwnInPanel ==
    ASSUME NEW R, NEW c, NEW s, Line(s), NEW a \in Int, NEW b \in Nat, NEW x \in Int,
           x <= a, a + 8 * Len(s) <= x + Panel_px, b + 8 <= PANEL_H * 8
    PROVE  InPanel(DrawString(Own(R, c), a, b, s), x)
<1>1. PICK h \in Nat, w \in Nat, y \in Int : h = PANEL_H * 8 /\ w = Panel_px /\ y = 0
  BY PanelAssumption DEF Panel_px
<1>2. x <= a /\ a + 8 * Len(s) <= x + w /\ y <= b /\ b + 8 <= y + h
  BY <1>1
<1>3. a \in Int /\ b \in Nat /\ x \in Int /\ y \in Int /\ w \in Int /\ h \in Int
  BY <1>1
<1>4. InBox(DrawString(Own(R, c), a, b, s), x, y, w, h)
  BY <1>2, <1>3, OwnText, Zenon
<1> QED BY <1>1, <1>4 DEF InPanel

LEMMA RowsNamed ==
    ASSUME IInv
    PROVE  \A k \in DOMAIN Rows : /\ k \in Nat /\ k >= 1 /\ k <= wh /\ Rows[k] \in Node
                                  /\ name[Rows[k]] \in 1 .. MaxName
                                  /\ dir[Rows[k]] \in BOOLEAN
<1>1. wh \in Nat
  BY PanelAssumption DEF wh
<1>2. /\ Len(Rows) = IF used < wh THEN used ELSE wh
      /\ DOMAIN Rows = 1 .. Len(Rows)
      /\ \A k \in 1 .. Len(Rows) : Rows[k] = Chain[Skipped + k] /\ Skipped + k \in 1 .. used
  BY RowsLength
<1>3. used \in Nat /\ \A i \in 1 .. used : Chain[i] \in Node
  BY ChainFacts DEF IInv
<1>4. name \in [Node -> 1 .. MaxName] /\ dir \in [Node -> BOOLEAN]
  BY DEF IInv, TypeOK
<1>5. \A k \in 1 .. Len(Rows) : k \in Nat /\ k >= 1 /\ k <= wh
  BY <1>1, <1>2, <1>3
<1>6. \A k \in DOMAIN Rows : Rows[k] \in Node
  BY <1>2, <1>3
<1> QED BY <1>2, <1>4, <1>5, <1>6

LEMMA PanelText ==
    ASSUME IInv, Line(Path), \A k \in DOMAIN Rows : TameRow(k),
           NEW f, IsSettings(f), NEW x \in Nat
    PROVE  InPanel(fm_panel_draw(f, x), x)
<1>1. PANEL_W \in Nat /\ PANEL_W > 7 /\ PANEL_H \in Nat /\ PANEL_H > 2 /\ Panel_px = PANEL_W * 8
      /\ wh = PANEL_H - 2
  BY PanelAssumption DEF Panel_px, wh
<1>2. /\ TitleFont(f) = Own(f, "blue") /\ ListFont(f) = Own(f, "black")
      /\ AfterPanel(f) = Own(f, "blue")
  BY PanelFonts
<1>3. \A k \in DOMAIN Rows : /\ k \in Nat /\ k >= 1 /\ k <= wh /\ Rows[k] \in Node
                             /\ name[Rows[k]] \in 1 .. MaxName /\ dir[Rows[k]] \in BOOLEAN
  BY RowsNamed
<1>4. \A k \in Nat : k >= 1 /\ k <= wh + 1 =>
         RowY(k) \in Nat /\ RowY(k) + 8 <= PANEL_H * 8
  BY <1>1 DEF RowY
<1>5. InPanel(DrawString(TitleFont(f), x, 0,
                         Cut(IF Path = <<>> THEN Printed(6) ELSE Path, PANEL_W - 2)), x)
  <2>1. PICK t : t = IF Path = <<>> THEN Printed(6) ELSE Path
    OBVIOUS
  <2>2. Line(t)
    BY <2>1, PrintedLine
  <2>3. PICK u : u = Cut(t, PANEL_W - 2)
    OBVIOUS
  <2>4. Line(u) /\ Len(u) <= PANEL_W - 3 /\ Len(u) \in Nat
    <3>1. PANEL_W - 2 \in Nat \ {0} /\ PANEL_W - 2 - 1 = PANEL_W - 3
      BY <1>1
    <3>2. Line(u) /\ Len(u) <= PANEL_W - 2 - 1
      BY <2>2, <2>3, <3>1, CutLine
    <3> QED BY <3>1, <3>2 DEF Line
  <2>5. x <= x /\ x + 8 * Len(u) <= x + Panel_px /\ 0 + 8 <= PANEL_H * 8 /\ x \in Int /\ 0 \in Nat
    BY <1>1, <2>4
  <2> QED BY <1>2, <2>1, <2>3, <2>4, <2>5, OwnInPanel
<1>6. ASSUME NEW k \in DOMAIN Rows
      PROVE  InPanel(DrawString(ListFont(f), IF Marked(Rows[k]) THEN x ELSE x + 8,
                                RowY(k), RowText(Rows[k])), x)
  <2>1. PICK g : g = fm_fname_get(Rows[k], PANEL_W - 2)
    OBVIOUS
  <2>2. Line(g) /\ Len(g) <= PANEL_W - 3 /\ Len(g) \in Nat
    <3>1. PANEL_W - 2 \in Nat \ {0} /\ PANEL_W - 2 - 1 = PANEL_W - 3
      BY <1>1
    <3>2. PICK n : n = NameText[name[Rows[k]]]
      OBVIOUS
    <3>3. Line(n)
      BY <3>2 DEF TameRow
    <3>4. Line(<<47>> \o n)
      BY <3>3, MarkLine DEF NewLine
    <3>5. PICK t : t = IF dir[Rows[k]] THEN <<47>> \o n ELSE n
      OBVIOUS
    <3>6. Line(t)
      BY <3>3, <3>4, <3>5
    <3>7. g = Cut(t, PANEL_W - 2)
      BY <2>1, <3>2, <3>5 DEF fm_fname_get
    <3>8. Line(g) /\ Len(g) <= PANEL_W - 2 - 1
      BY <3>1, <3>6, <3>7, CutLine
    <3> QED BY <3>1, <3>8 DEF Line
  <2>3. RowY(k) \in Nat /\ RowY(k) + 8 <= PANEL_H * 8
    <3>1. k \in Nat /\ k >= 1 /\ k <= wh + 1
      BY <1>1, <1>3
    <3> QED BY <1>1, <1>4, <3>1
  <2>4. CASE Marked(Rows[k])
    <3>1. PICK t : t = <<Mark>> \o g
      OBVIOUS
    <3>2. Line(t) /\ Len(t) = 1 + Len(g)
      BY <2>2, <3>1, MarkLine DEF Mark, NewLine
    <3>3. x <= x /\ x + 8 * Len(t) <= x + Panel_px
      BY <1>1, <2>2, <3>2
    <3>4. RowText(Rows[k]) = t
      BY <2>1, <2>4, <3>1 DEF RowText
    <3> QED BY <1>2, <2>3, <2>4, <3>2, <3>3, <3>4, OwnInPanel
  <2>5. CASE ~ Marked(Rows[k])
    <3>1. x + 8 \in Int /\ x <= x + 8 /\ x + 8 + 8 * Len(g) <= x + Panel_px
      BY <1>1, <2>2
    <3>2. RowText(Rows[k]) = g
      BY <2>1, <2>5 DEF RowText
    <3> QED BY <1>2, <2>2, <2>3, <2>5, <3>1, <3>2, OwnInPanel
  <2> QED BY <2>4, <2>5
<1>7. ASSUME NEW k \in DOMAIN Rows, ~ dir[Rows[k]]
      PROVE  InPanel(DrawString(ListFont(f), x + 8 + (PANEL_W - 7) * 8, RowY(k),
                                SizeText(Size(name[Rows[k]], FALSE))), x)
  <2>1. PICK sz : sz = SizeOf[name[Rows[k]]]
    OBVIOUS
  <2>2. Size(name[Rows[k]], FALSE) = sz
    BY <2>1 DEF Size
  <2>3. PICK d \in Nat \ {0} : d = Digits(InUnit(sz))
    BY DigitsType
  <2>4. d <= 4
    BY <1>7, <2>1, <2>3 DEF TameRow
  <2>5. PICK m \in Nat : m = (IF d < 4 THEN 4 ELSE d)
    OBVIOUS
  <2>6. m = 4
    BY <2>4, <2>5
  <2>7. PICK t : t = Cut(Printed(2 + m), PANEL_W - 1)
    OBVIOUS
  <2>8. SizeText(sz) = t
    BY <2>3, <2>5, <2>7 DEF SizeText
  <2>9. Line(t) /\ Len(t) <= 6 /\ Len(t) \in Nat
    <3>1. PANEL_W - 1 \in Nat \ {0} /\ 2 + m = 6
      BY <1>1, <2>6
    <3>2. Line(Printed(6)) /\ Len(Printed(6)) = 6
      BY PrintedLine
    <3>3. Line(t) /\ Len(t) <= 6
      BY <2>7, <3>1, <3>2, CutLine
    <3> QED BY <3>3 DEF Line
  <2>10. PICK a \in Int : a = x + 8 + (PANEL_W - 7) * 8
    BY <1>1
  <2>11. x <= a /\ a + 8 * Len(t) <= x + Panel_px
    BY <1>1, <2>9, <2>10
  <2>12. RowY(k) \in Nat /\ RowY(k) + 8 <= PANEL_H * 8
    <3>1. k \in Nat /\ k >= 1 /\ k <= wh + 1
      BY <1>1, <1>3
    <3> QED BY <1>1, <1>4, <3>1
  <2>13. InPanel(DrawString(Own(f, "black"), a, RowY(k), t), x)
    <3>1. x \in Int
      OBVIOUS
    <3> QED BY <3>1, <2>9, <2>10, <2>11, <2>12, OwnInPanel, Zenon
  <2> QED BY <1>2, <2>2, <2>8, <2>10, <2>13
<1>8. InPanel(DrawString(AfterPanel(f), x, RowY(wh + 1), TotalsText), x)
  <2>1. files \in Nat /\ dirs \in Nat
    BY DEF IInv, TypeOK
  <2>2. PICK d \in Nat, e \in Nat, g \in Nat :
           d = Digits(dirs) /\ e = Digits(files) /\ g = Digits(InUnit(fsize))
    BY DigitsType
  <2>3. PICK m \in Nat : m = d + e + 16 + g + 3
    OBVIOUS
  <2>4. TotalsText = Cut(Printed(m), PANEL_W - 2)
    BY <2>2, <2>3 DEF TotalsText
  <2>5. PICK t : t = Cut(Printed(m), PANEL_W - 2)
    OBVIOUS
  <2>6. Line(t) /\ Len(t) <= PANEL_W - 3 /\ Len(t) \in Nat
    <3>1. PANEL_W - 2 \in Nat \ {0} /\ PANEL_W - 2 - 1 = PANEL_W - 3
      BY <1>1
    <3>2. Line(Printed(m))
      BY PrintedLine
    <3>3. Line(t) /\ Len(t) <= PANEL_W - 2 - 1
      BY <2>5, <3>1, <3>2, CutLine
    <3> QED BY <3>1, <3>3 DEF Line
  <2>7. x <= x /\ x + 8 * Len(t) <= x + Panel_px
    BY <1>1, <2>6
  <2>8. RowY(wh + 1) \in Nat /\ RowY(wh + 1) + 8 <= PANEL_H * 8
    <3>1. wh + 1 \in Nat /\ wh + 1 >= 1 /\ wh + 1 <= wh + 1
      BY <1>1
    <3> QED BY <1>4, <3>1
  <2> QED BY <1>2, <2>4, <2>5, <2>6, <2>7, <2>8, OwnInPanel
<1> SUFFICES ASSUME NEW c \in fm_panel_draw(f, x) PROVE InPanel({c}, x)
  BY DEF InPanel, InBox
<1>9. \A S : c \in S /\ InPanel(S, x) => InPanel({c}, x)
  BY DEF InPanel, InBox
<1>10. \/ c \in DrawString(TitleFont(f), x, 0,
                           Cut(IF Path = <<>> THEN Printed(6) ELSE Path, PANEL_W - 2))
       \/ \E k \in DOMAIN Rows :
             c \in DrawString(ListFont(f), IF Marked(Rows[k]) THEN x ELSE x + 8,
                              RowY(k), RowText(Rows[k]))
       \/ \E k \in DOMAIN Rows :
             /\ ~ dir[Rows[k]]
             /\ c \in DrawString(ListFont(f), x + 8 + (PANEL_W - 7) * 8, RowY(k),
                                 SizeText(Size(name[Rows[k]], FALSE)))
       \/ c \in DrawString(AfterPanel(f), x, RowY(wh + 1), TotalsText)
  <2> DEFINE A == DrawString(TitleFont(f), x, 0,
                             Cut(IF Path = <<>> THEN Printed(6) ELSE Path, PANEL_W - 2))
             R(k) == DrawString(ListFont(f), IF Marked(Rows[k]) THEN x ELSE x + 8,
                                RowY(k), RowText(Rows[k]))
             Z(k) == DrawString(ListFont(f), x + 8 + (PANEL_W - 7) * 8, RowY(k),
                                SizeText(Size(name[Rows[k]], FALSE)))
             T == DrawString(AfterPanel(f), x, RowY(wh + 1), TotalsText)
             K == {k \in DOMAIN Rows : ~ dir[Rows[k]]}
             U == UNION {R(k) : k \in DOMAIN Rows}
             V == UNION {Z(k) : k \in K}
             W == IF Path = <<>> THEN {} ELSE T
  <2>1. c \in A \cup U \cup V \cup W
    BY DEF fm_panel_draw
  <2> HIDE DEF A, R, Z, T, K
  <2>2. c \in U => \E k \in DOMAIN Rows : c \in R(k)
    OBVIOUS
  <2>3. c \in V => \E k \in K : c \in Z(k)
    OBVIOUS
  <2>4. c \in W => c \in T
    OBVIOUS
  <2> HIDE DEF U, V, W
  <2>5. c \in A \/ c \in U \/ c \in V \/ c \in W
    BY ONLY <2>1
  <2>6. \/ c \in A
        \/ \E k \in DOMAIN Rows : c \in R(k)
        \/ \E k \in K : c \in Z(k)
        \/ c \in T
    BY <2>2, <2>3, <2>4, <2>5
  <2> QED BY <2>6, Zenon DEF A, R, Z, T, K
<1> QED BY <1>5, <1>6, <1>7, <1>8, <1>9, <1>10, Zenon

\* A message without a line break stays in its line.
LEMMA StatusText ==
    ASSUME NEW R, NEW c, NEW i \in 0 .. STATUS_H - 1, Line(s_msg[i])
    PROVE  LET cells == fm_status_draw(Own(R, c))[i] IN
           /\ InBox(cells, 0, (PANEL_H + i) * 8, 8 * Len(s_msg[i]), 8)
           /\ 8 * Len(s_msg[i]) <= SCREEN_W =>
                 InBox(cells, 0, PANEL_H * 8, SCREEN_W, STATUS_H * 8)
<1>1. PANEL_H \in Nat /\ STATUS_H \in Nat /\ SCREEN_W \in Nat
  BY PanelAssumption
<1>2. i \in -1 .. STATUS_H - 1
  BY <1>1
<1>3. PICK d : StatusFont(Own(R, c))[i] = Own(R, d)
  BY <1>2, StatusFonts
<1>4. PICK t : t = s_msg[i]
  OBVIOUS
<1>5. PICK b \in Nat : b = (PANEL_H + i) * 8
  BY <1>1
<1>6. fm_status_draw(Own(R, c))[i] = DrawString(Own(R, d), 0, b, t)
  BY <1>3, <1>4, <1>5 DEF fm_status_draw
<1>7. PICK a \in Nat, l \in Nat, w \in Nat : a = 0 /\ l = Len(t) /\ w = 8 * l
  BY <1>4 DEF Line
<1>8. PICK e \in Nat : e = 8
  OBVIOUS
<1>9. InBox(DrawString(Own(R, d), a, b, t), a, b, w, e)
  <2>1. a <= a /\ a + 8 * Len(t) <= a + w /\ b <= b /\ b + 8 <= b + e
    BY <1>7, <1>8
  <2>2. a \in Int /\ b \in Int /\ w \in Int /\ e \in Int
    OBVIOUS
  <2> QED BY <1>4, <2>1, <2>2, OwnText, Zenon
<1>10. ASSUME 8 * Len(t) <= SCREEN_W
       PROVE  InBox(DrawString(Own(R, d), a, b, t), a, PANEL_H * 8, SCREEN_W, STATUS_H * 8)
  <2>1. PICK y \in Nat, h \in Nat : y = PANEL_H * 8 /\ h = STATUS_H * 8
    BY <1>1
  <2>2. y <= b /\ b + 8 <= y + h
    BY <1>1, <1>5, <2>1
  <2>3. a <= a /\ a + 8 * Len(t) <= a + SCREEN_W
    BY <1>1, <1>7, <1>10
  <2>4. a \in Int /\ y \in Int /\ SCREEN_W \in Int /\ h \in Int
    BY <1>1
  <2>5. InBox(DrawString(Own(R, d), a, b, t), a, y, SCREEN_W, h)
    BY <1>4, <2>2, <2>3, <2>4, OwnText, Zenon
  <2> QED BY <2>1, <2>5
<1> QED BY <1>4, <1>5, <1>6, <1>7, <1>8, <1>9, <1>10

\* In every frame, for panels, lists and fonts of any size, fm_panel_draw cuts the texts so
\* that they stay in their panel, and each message stays in its line, as far as it is on the
\* screen: but for line breaks, sizes of more than four digits and messages that are longer
\* than the screen is wide.
THEOREM AlwaysInside == ScreenSpec => []TextInPanel
<1>1. ASSUME IInv, FontInv, ~ scanning PROVE TextInPanel
  <2> DEFINE OneLine(s) == \A i \in DOMAIN s : s[i] # NewLine
             Tame(k) == /\ OneLine(NameText[name[Rows[k]]])
                        /\ dir[Rows[k]] \/ Digits(InUnit(SizeOf[name[Rows[k]]])) <= 4
             d == Drawn(font)
  <2>1. PICK g : g = AfterPanel(font)
    OBVIOUS
  <2>2. IsSettings(font) /\ IsSettings(g) /\ AfterPanel(g) = Own(font, "blue")
    BY <1>1, <2>1, PanelKeeps DEF FontInv
  <2>3. d.left = fm_panel_draw(font, 0) /\ d.right = fm_panel_draw(g, Panel_px)
        /\ d.status = fm_status_draw(Own(font, "blue"))
    BY <2>1, <2>2 DEF Drawn
  <2> HIDE DEF d
  <2>4. \A s \in Seq(Nat) : OneLine(s) => Line(s)
    BY DEF Line
  <2>5. ASSUME OneLine(Path), \A k \in DOMAIN Rows : Tame(k)
        PROVE  InPanel(d.left, 0) /\ InPanel(d.right, Panel_px)
    <3>1. Line(Path)
      BY <2>4, <2>5, TextAssumption
    <3>2. \A k \in DOMAIN Rows : name[Rows[k]] \in 1 .. MaxName
      BY <1>1, RowsNamed
    <3>3. \A k \in DOMAIN Rows : TameRow(k)
      BY <2>4, <2>5, <3>2, TextAssumption DEF TameRow
    <3>4. Panel_px \in Nat /\ 0 \in Nat
      BY PanelAssumption DEF Panel_px
    <3> QED BY <1>1, <2>2, <2>3, <3>1, <3>3, <3>4, PanelText
  <2>6. ASSUME NEW i \in 0 .. STATUS_H - 1, OneLine(s_msg[i])
        PROVE  /\ InBox(d.status[i], 0, (PANEL_H + i) * 8, 8 * Len(s_msg[i]), 8)
               /\ 8 * Len(s_msg[i]) <= SCREEN_W =>
                     InBox(d.status[i], 0, PANEL_H * 8, SCREEN_W, STATUS_H * 8)
    <3>1. s_msg[i] \in Seq(Nat)
      <4>1. s_msg[i] \in Messages \/ s_msg[i] = <<>>
        BY <1>1 DEF FontInv
      <4>2. \A m \in Messages : m \in Seq(Nat)
        BY TextAssumption
      <4>3. <<>> \in Seq(Nat)
        OBVIOUS
      <4> QED BY <4>1, <4>2, <4>3
    <3>2. Line(s_msg[i])
      BY <2>4, <2>6, <3>1
    <3> QED BY <2>3, <3>2, StatusText
  <2> QED BY <2>5, <2>6 DEF TextInPanel, InPanel, InBox, d
<1>2. scanning => TextInPanel
  BY DEF TextInPanel
<1> QED BY <1>1, <1>2, ScreenKeepsList, ListInductive, FontAlways, PTL
=============================================================================
