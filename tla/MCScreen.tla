------------------------------ MODULE MCScreen ------------------------------
(* A screen of two panels of 10 by 4 characters and one status line.          *)
EXTENDS Screen

Text(n) == [i \in 1 .. n |-> 97]

\* A short name, one with words, two long ones; sizes in each unit, and an unknown one.
MCNameText == << Text(1), Text(2) \o <<Space>> \o Text(2), Text(14), Text(7) >>
MCSizeOf == << 4, 1024, 99 * 64, 2 ^ 20 - 1 >>
MCPath == Text(12)
\* A message with a path: longer than the screen is wide.
MCMessages == {Text(3) \o <<Space>> \o Text(17)}

\* Another module has loaded a font of its own, draws in the depth with a second texture,
\* and breaks the lines of its texts.
MCLeft ==
    { SetFontAutoNewLine(SetDoubleTextureModule(SetFontTextureMethod(SetFontScreenLimits(
          SetFontZ(AddFontFromBitmapArray(ResetFont, 48, 122, 24, 24), 5), 800), 3), 16, 8), 40) }
=============================================================================
