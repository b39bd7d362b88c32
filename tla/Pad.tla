--------------------------------- MODULE Pad ---------------------------------
(***************************************************************************)
(* The pad (pad.c) and how fmapp_update() reads it: ps3pad_read compares   *)
(* what the first pad reports with what it reported when it was last read; *)
(* NPad, PPad and APad of util.c ask for one button; a chain of tests      *)
(* takes one button a frame.  The rumble motors are left out.              *)
(***************************************************************************)
EXTENDS Integers, Sequences, FiniteSets, SequencesExt

CONSTANTS
    Buttons,    \* the buttons the user uses
    PPAD_SKIP,  \* the calls of APad that are skipped while a button is held
    MaxHeld     \* bound: buttons held at a time

\* The tests of fmapp_update(), in their order.
Chain == <<"CIRCLE", "L1", "R1", "UP", "DOWN", "RIGHT", "LEFT", "START", "SELECT",
           "CROSS", "TRIANGLE", "SQUARE">>

ASSUME ButtonsAssumption == Buttons \subseteq ToSet(Chain)
ASSUME SkipAssumption == PPAD_SKIP \in Nat

VARIABLES
    butt,       \* environment: what the first pad reports, nothing without a pad
    new_pad, old_pad,
    pps,        \* of APad, for all buttons
    served      \* history: the buttons whose present press was a command

padVars == <<butt, new_pad, old_pad, pps, served>>

PadInit ==
    /\ butt = {} /\ new_pad = {} /\ old_pad = {}
    /\ pps = PPAD_SKIP /\ served = {}

\* Mutant: every button held is reported as new.
ps3pad_read_level ==
    /\ new_pad' = butt /\ old_pad' = butt
    /\ UNCHANGED <<butt, pps, served>>

ps3pad_read ==
    /\ new_pad' = butt \ old_pad /\ old_pad' = butt
    /\ UNCHANGED <<butt, pps, served>>

NPad(b) == b \in new_pad
PPad(b) == b \in old_pad

\* What APad answers, and its counter after that.
APad(b, k) ==
    CASE NPad(b) -> [yes |-> TRUE, pps |-> PPAD_SKIP]
      [] PPad(b) /\ ~ NPad(b) -> [yes |-> k = 0, pps |-> IF k = 0 THEN PPAD_SKIP ELSE k - 1]
      [] OTHER -> [yes |-> FALSE, pps |-> k]

\* The tests: those of UP and DOWN share the counter.  The first one that holds ends
\* the chain.
Up == APad("UP", pps)
Down == APad("DOWN", Up.pps)
Yes(b) == CASE b = "UP" -> Up.yes [] b = "DOWN" -> Down.yes [] OTHER -> NPad(b)

Command ==
    LET hits == {i \in DOMAIN Chain : Yes(Chain[i])} IN
    IF hits = {} THEN "none" ELSE Chain[Min(hits)]

\* The counter after the tests that were made.
Counter == CASE Command \in {"CIRCLE", "L1", "R1"} -> pps
             [] Command = "UP" -> Up.pps
             [] OTHER -> Down.pps

\* The frame's command is found; new_pad is not looked at again before it is read.
TakeCommand ==
    /\ pps' = Counter
    /\ served' = served \cup ({Command} \ {"none"})
    /\ new_pad' = {}
    /\ UNCHANGED <<butt, old_pad>>

\* The buttons held change, by the user or because a pad comes or goes.
Hold(S) ==
    /\ butt' = S
    /\ served' = served \cap S \cap butt
    /\ UNCHANGED <<new_pad, old_pad, pps>>

\* A key is pressed, and released before if it was held.
Strike(b) ==
    /\ butt' = {b}
    /\ served' = {}
    /\ UNCHANGED <<new_pad, old_pad, pps>>

Hands == \E S \in SUBSET Buttons : Cardinality(S) <= MaxHeld /\ Hold(S)

\* The button b gives a command although it was not pressed in this frame.
Repeated(b) == Command = b /\ ~ NPad(b)
=============================================================================
