------------------------------- MODULE Screen -------------------------------
(***************************************************************************)
(* What a frame shows: fmapp_render() draws the two panels (fm_panel_draw) *)
(* and the status lines with the fonts of libfont.c (Font).  The list is   *)
(* that of one panel (PanelList), on the left or on the right; the other   *)
(* panel is drawn before or after it and leaves the font settings that     *)
(* this one leaves.                                                        *)
(*                                                                         *)
(* Built as a library (LIBBUILD), the program runs among other modules:    *)
(* LoadTexture is theirs, and the first frame finds the fonts they loaded  *)
(* and the settings they left.                                             *)
(*                                                                         *)
(* Rectangles are left out; the mark "*" too: no entry is ever `selected`. *)
(***************************************************************************)
EXTENDS PanelList, Font

CONSTANTS
    PANEL_W, PANEL_H, STATUS_H, \* in characters of 8 by 8 pixels
    KBSZ, MBSZ, GBSZ,   \* the units of sizes
    Path,               \* p->path as a text; <<>> for NULL
    NameText,           \* the text of each name
    Messages,           \* the texts of status lines
    LeftSettings        \* the font settings that other modules may leave

ASSUME PanelAssumption ==
    /\ {SCREEN_W, PANEL_W, PANEL_H, STATUS_H} \subseteq Nat
    /\ PANEL_W > 7 /\ PANEL_H > 2 /\ STATUS_H > 0
\* Other modules load any fonts of bitmaps and set all that can be set.
IsSettings(f) ==
    f = [fonts |-> f.fonts, current_font |-> f.current_font, color |-> f.color,
         sx |-> f.sx, sy |-> f.sy, autocenter |-> f.autocenter, autonewline |-> f.autonewline,
         z |-> f.z, screen_w |-> f.screen_w, second |-> f.second]

ASSUME LeftAssumption == \A f \in LeftSettings : IsSettings(f)
ASSUME TextAssumption ==
    /\ Path \in Seq(Nat) /\ \A n \in 1 .. MaxName : NameText[n] \in Seq(Nat)
    /\ \A m \in Messages : m \in Seq(Nat)
ASSUME UnitsAssumption == KBSZ > 0 /\ MBSZ > KBSZ /\ GBSZ > MBSZ

VARIABLES
    font,           \* font_datas
    s_msg, c_msg    \* the status lines, <<>> for NULL, and their colours

screenVars == <<font, s_msg, c_msg>>

ScreenInit ==
    /\ Init
    /\ font \in LeftSettings
    /\ s_msg = [i \in 0 .. STATUS_H - 1 |-> <<>>]
    /\ c_msg = [i \in 0 .. STATUS_H - 1 |-> "unset"]

-----------------------------------------------------------------------------
(* Texts.  The literals of the code, 51, 52 and 46, are for a panel of 53. *)

Panel_px == PANEL_W * 8

Digit == 48
Printed(n) == [i \in 1 .. n |-> Digit]      \* some text of n characters

\* snprintf: a text that is cut to a buffer.
Cut(s, size) == SubSeq(s, 1, IF Len(s) < size THEN Len(s) ELSE size - 1)

Digits(n) == 1 + Cardinality({d \in 1 .. 9 : 10 ^ d <= n})

\* Mutant: the name is not cut.
fm_fname_get_uncut(n, cw) ==
    IF dir[n] THEN <<47>> \o NameText[name[n]] ELSE NameText[name[n]]

\* A directory has a slash in front.
fm_fname_get(n, cw) ==
    Cut(IF dir[n] THEN <<47>> \o NameText[name[n]] ELSE NameText[name[n]], cw)

\* A size in its unit, and the unit.
InUnit(sz) ==
    IF sz > GBSZ THEN sz \div GBSZ ELSE IF sz > MBSZ THEN sz \div MBSZ ELSE sz \div KBSZ
SizeText(sz) ==
    LET d == Digits(InUnit(sz)) IN Cut(Printed(2 + IF d < 4 THEN 4 ELSE d), PANEL_W - 1)

\* "%d dirs, %d files - ", the total, its unit
TotalsText ==
    Cut(Printed(Digits(dirs) + Digits(files) + 16 + Digits(InUnit(fsize)) + 3), PANEL_W - 2)

-----------------------------------------------------------------------------
(* fm_panel_draw *)

wh == PANEL_H - 2       \* rows of the list, without the title and the totals

\* Mutant: the row of the selection is not counted.
Skipped_less == IF current_idx - wh > 0 THEN current_idx - wh ELSE 0

\* The entries in front of the window: none as long as the selection is in it.
Skipped == IF current_idx - wh + 1 > 0 THEN current_idx - wh + 1 ELSE 0

\* The cell drawn in each row.
Rows == SubSeq(Chain, Skipped + 1, IF Skipped + wh < used THEN Skipped + wh ELSE used)

Mark == 62
Marked(n) == current = n
RowText(n) ==
    IF Marked(n) THEN <<Mark>> \o fm_fname_get(n, PANEL_W - 2)
                 ELSE fm_fname_get(n, PANEL_W - 2)
RowY(k) == 8 + (k - 1) * 8

Plain(f, color) == SetFontAutoCenter(SetFontColor(f, color), FALSE)

\* The settings for the title, for the list and, when all is drawn, for the totals.
TitleFont(f) == Plain(SetFontSize(SetCurrentFont(f, 2), 8, 8), "blue")
ListFont(f) == Plain(TitleFont(f), "black")
AfterPanel(f) == Plain(ListFont(f), "blue")

fm_panel_draw(f, x) ==
    DrawString(TitleFont(f), x, 0, Cut(IF Path = <<>> THEN Printed(6) ELSE Path, PANEL_W - 2))
    \cup (UNION {DrawString(ListFont(f), IF Marked(Rows[k]) THEN x ELSE x + 8,
                            RowY(k), RowText(Rows[k])) : k \in DOMAIN Rows})
    \cup (UNION {DrawString(ListFont(f), x + 8 + (PANEL_W - 7) * 8, RowY(k),
                            SizeText(Size(name[Rows[k]], FALSE))) :
                    k \in {k \in DOMAIN Rows : ~ dir[Rows[k]]}})
    \cup (IF Path = <<>> THEN {}
          ELSE DrawString(AfterPanel(f), x, RowY(wh + 1), TotalsText))

-----------------------------------------------------------------------------
(* Status lines and frames *)

fm_status_set(sm, idx, col) ==
    /\ idx \in 0 .. STATUS_H - 1
    /\ s_msg' = [s_msg EXCEPT ![idx] = sm] /\ c_msg' = [c_msg EXCEPT ![idx] = col]
    /\ UNCHANGED <<vars, font>>

\* The settings for line i: a line without a colour has that of the one before.
StatusFont(f) ==
    LET plain == SetFontAutoCenter(SetFontSize(SetCurrentFont(f, 2), 8, 8), FALSE)
        line[i \in -1 .. STATUS_H - 1] ==
            IF i = -1 THEN plain
            ELSE IF c_msg[i] = "unset" THEN line[i - 1]
            ELSE SetFontColor(line[i - 1], c_msg[i])
    IN  line

\* Each line with its message as it is: none is cut.
fm_status_draw(f) ==
    [i \in 0 .. STATUS_H - 1 |->
        DrawString(StatusFont(f)[i], 0, (PANEL_H + i) * 8, s_msg[i])]

\* The number of the version, at the end of the last line.
VersionFont(f) == Plain(f, "red")

\* fmapp_render: the texts of this panel when it is on the left and when it is on the
\* right, those below the panels, and the settings that are left.
Drawn(f) ==
    LET below == AfterPanel(AfterPanel(f)) IN
    [ left |-> fm_panel_draw(f, 0),
      right |-> fm_panel_draw(AfterPanel(f), Panel_px),
      status |-> fm_status_draw(below),
      version |-> DrawString(VersionFont(StatusFont(below)[STATUS_H - 1]), SCREEN_W - 48,
                             (PANEL_H + STATUS_H - 1) * 8, Printed(6)) ]
AfterFrame(f) == VersionFont(StatusFont(AfterPanel(AfterPanel(f)))[STATUS_H - 1])

\* A frame is drawn between two commands, not while a directory is scanned.
Frame ==
    /\ ~ scanning
    /\ font' = AfterFrame(font)
    /\ UNCHANGED <<vars, s_msg, c_msg>>

ScreenNext ==
    \/ Next /\ UNCHANGED screenVars
    \/ \E i \in 0 .. STATUS_H - 1, m \in Messages : fm_status_set(m, i, "green")
    \/ Frame

ScreenSpec == ScreenInit /\ [][ScreenNext]_<<vars, screenVars>>

-----------------------------------------------------------------------------
(* Properties *)

\* The selection is always on the screen, marked, in the only row that is, and no row
\* stays empty while entries are hidden.
SelectionShown ==
    ~ scanning =>
        /\ used > 0 => \E k \in DOMAIN Rows : Rows[k] = current
        /\ Len(Rows) = IF used < wh THEN used ELSE wh

\* No frame depends on the settings it finds, the first one neither: it looks as it does
\* when the program runs on its own.  Except for what the program never sets and takes as
\* it is: the fonts, the depth and the second texture that other modules left.
FrameSame ==
    LET own == [LoadTexture EXCEPT !.fonts = font.fonts, !.z = font.z, !.second = font.second]
    IN  ~ scanning => Drawn(font) = Drawn(own)

\* Each text of a panel stays in it, from the title to the totals, and each message in its
\* line, in each frame and whatever the fonts.  Except what the code draws elsewhere: a text
\* with a line break, in a name, a path or a message; a size of more than four digits in its
\* unit, an unknown one first of all, which runs out of the panel on the right; and the end
\* of a message that is longer than the screen is wide, as those with a path may be.
TextInPanel ==
    LET OneLine(s) == \A i \in DOMAIN s : s[i] # NewLine
        Tame(k) == /\ OneLine(NameText[name[Rows[k]]])
                   /\ dir[Rows[k]] \/ Digits(InUnit(SizeOf[name[Rows[k]]])) <= 4
        Inside(cells, x, y, w, h) ==
            \A c \in cells : /\ x <= c.at[1] /\ c.at[1] + 8 <= x + w
                             /\ y <= c.at[2] /\ c.at[2] + 8 <= y + h
        d == Drawn(font)
    IN  ~ scanning =>
            /\ OneLine(Path) /\ (\A k \in DOMAIN Rows : Tame(k)) =>
                  /\ Inside(d.left, 0, 0, Panel_px, PANEL_H * 8)
                  /\ Inside(d.right, Panel_px, 0, Panel_px, PANEL_H * 8)
            /\ \A i \in 0 .. STATUS_H - 1 : OneLine(s_msg[i]) =>
                  /\ Inside(d.status[i], 0, (PANEL_H + i) * 8, 8 * Len(s_msg[i]), 8)
                  /\ 8 * Len(s_msg[i]) <= SCREEN_W =>
                        Inside(d.status[i], 0, PANEL_H * 8, SCREEN_W, STATUS_H * 8)
=============================================================================
