-------------------------------- MODULE Font --------------------------------
(***************************************************************************)
(* The bitmap fonts of libfont.c: the settings, and what DrawString puts   *)
(* on the screen with them.  The settings are a record f, each function    *)
(* returns the next one.  A text is the sequence of its characters; the    *)
(* pictures of the characters are left out, and so are the fonts that are  *)
(* not bitmaps (AddFontFromTTF and font 8, which nothing here uses).  The  *)
(* colour stands for the one behind the text too: they are set together.   *)
(***************************************************************************)
EXTENDS Integers, Sequences, FiniteSets

CONSTANT SCREEN_W       \* the width of the screen, in pixels

NewLine == 10
Space == 32

-----------------------------------------------------------------------------
(* Settings *)

\* z is the depth texts are drawn at, `second` how a second texture is laid over them:
\* enable_doubletextures, mod_x and mod_y.
ResetFont ==
    [fonts |-> <<>>, current_font |-> 0, color |-> "white", sx |-> 8, sy |-> 8,
     autocenter |-> FALSE, autonewline |-> 0, z |-> 0, screen_w |-> SCREEN_W,
     second |-> [method |-> 0, module |-> <<32, 32>>]]

AddFontFromBitmapArray(f, first_char, last_char, w, h) ==
    IF Len(f.fonts) >= 8 THEN f
    ELSE [f EXCEPT !.fonts = Append(@, [first |-> first_char, last |-> last_char]),
                   !.autocenter = FALSE, !.color = "white", !.sx = w, !.sy = h, !.z = 0]

SetCurrentFont(f, n) ==
    [f EXCEPT !.current_font = IF n \in 0 .. Len(f.fonts) - 1 THEN n
                               ELSE IF n = -1 THEN 8 ELSE 0]

SetFontSize(f, sx, sy) ==
    [f EXCEPT !.sx = IF sx < 8 THEN 8 ELSE sx, !.sy = IF sy < 8 THEN 8 ELSE sy]

SetFontColor(f, color) == [f EXCEPT !.color = color]

\* Mutant: the other mode stays on.
SetFontAutoCenter_only(f, on) == [f EXCEPT !.autocenter = on]

\* Each mode ends the other one.
SetFontAutoCenter(f, on) == [f EXCEPT !.autocenter = on, !.autonewline = 0]
SetFontAutoNewLine(f, width) == [f EXCEPT !.autonewline = width, !.autocenter = FALSE]

\* The program calls none of these: what other modules set stays.
SetFontTextureMethod(f, method) == [f EXCEPT !.second.method = method]
SetDoubleTextureModule(f, x, y) == [f EXCEPT !.second.module = <<x, y>>]
SetFontZ(f, z) == [f EXCEPT !.z = z]
SetFontScreenLimits(f, width) == [f EXCEPT !.screen_w = width]

\* The fonts of the program: two of 16 by 32 pixels, and the one it uses.
LoadTexture ==
    AddFontFromBitmapArray(
        AddFontFromBitmapArray(
            AddFontFromBitmapArray(ResetFont, 32, 255, 16, 32), 32, 255, 16, 32),
        0, 254, 8, 8)

-----------------------------------------------------------------------------
(* Texts *)

\* Without any font nothing is drawn.
HasPicture(f, c) ==
    f.fonts # <<>> /\ LET font == f.fonts[f.current_font + 1] IN c \in font.first .. font.last

\* A character the font does not have takes no room.
Advance(f, c) == IF HasPicture(f, c) THEN f.sx ELSE 0
WidthFromStr(f, s) == f.sx * Cardinality({i \in DOMAIN s : HasPicture(f, s[i])})

\* A word that would end behind the limit begins a new line, unless it is the last one.
i_must_break_line(f, s, i, x) ==
    \E j \in i .. Len(s) :
        /\ s[j] <= Space /\ \A k \in i .. j - 1 : s[k] > Space
        /\ x + WidthFromStr(f, SubSeq(s, i, j - 1)) >= f.autonewline

\* Where the pen is for the next character, from p in front of the character s[i].
StartOf(f, s, i, p) ==
    IF f.autonewline # 0 /\ s[i] # NewLine /\ i_must_break_line(f, s, i, p[1])
    THEN <<0, p[2] + f.sy>> ELSE p
Behind(f, s, i, p) ==
    IF s[i] = NewLine THEN <<0, p[2] + f.sy>>
    ELSE <<StartOf(f, s, i, p)[1] + Advance(f, s[i]), StartOf(f, s, i, p)[2]>>

\* The characters on the screen.
DrawString(f, x, y, s) ==
    LET left == IF f.autocenter THEN (f.screen_w - WidthFromStr(f, s)) \div 2 ELSE x
        pens[i \in 0 .. Len(s)] ==      \* the pen in front of s[1] .. s[i + 1]
            IF i = 0 THEN << <<left, y>> >>
            ELSE LET before == pens[i - 1]
                 IN  Append(before, Behind(f, s, i, before[i]))
        pen == pens[Len(s)]
        Char(i) == [at |-> StartOf(f, s, i, pen[i]), char |-> s[i],
                    color |-> f.color, size |-> <<f.sx, f.sy>>, z |-> f.z, second |-> f.second]
    IN  IF y < 0 THEN {}
        ELSE {Char(i) : i \in {i \in DOMAIN s : s[i] # NewLine /\ HasPicture(f, s[i])}}
=============================================================================
