-------------------------------- MODULE MCApp --------------------------------
(* The texts of the keyboard: one at the limits of the encodings that just    *)
(* fits the caller's array, and bytes that the stack may hold.                *)
EXTENDS App

\* One to three bytes a character, up to the surrogates and behind them.
MCTyped == {<<127, 128, 2047, 2048, 55295, 57344>>}

\* The array holds a text, or a byte that cannot come first, characters of the basic
\* plane, one outside of it and one that is cut: it comes back one byte too long.
MCStackTexts ==
    {EncodedText(t) : t \in MCTyped}
    \cup {<<128>> \o [i \in 1 .. 11 |-> 97] \o <<240, 159, 152, 128, 226, 130>>}
=============================================================================
