------------------------------- MODULE Dialog -------------------------------
(***************************************************************************)
(* The dialogs of util.c: the question of YesNoDialog, which wait_dialog   *)
(* waits for, and the two progress bars of a job.  The system shows them   *)
(* and calls my_dialog or progress_callback, when the program calls        *)
(* sysUtilCheckCallback, with the button that the user pressed.            *)
(*                                                                         *)
(* A dialog that the program aborts before a button was pressed may still  *)
(* report BTN_NONE.  msgDialogOpen2 may fail, and nothing is shown then:   *)
(* its result is not asked for.  The messages on the bars are left out.    *)
(***************************************************************************)
EXTENDS Integers, Sequences, SequencesExt

VARIABLES
    dialog_action,      \* 0: none yet, 1: yes, 2: no
    progress_action,    \* 0: none yet, 1: yes, 2: cancelled, -1: none
    prev_prc,           \* prev_prc0 and prev_prc1
    dialog,             \* system: "none", "question" or "bars", what is shown
    button,             \* user: what was pressed in it, or "none"
    bars,               \* system: what the two bars show
    msgs                \* system: the calls of the callbacks to come

dialogVars == <<dialog_action, progress_action, prev_prc, dialog, button, bars, msgs>>

DialogInit ==
    /\ dialog_action = 0 /\ progress_action = 0
    /\ prev_prc = [i \in 0 .. 1 |-> 0]
    /\ dialog = "none" /\ button = "none"
    /\ bars = [i \in 0 .. 1 |-> 0] /\ msgs = <<>>

-----------------------------------------------------------------------------
(* The callbacks *)

\* Mutant: a dialog that is left with CIRCLE is not answered.
my_dialog_noescape(b, action) ==
    CASE b = "YES" -> 1 [] b = "NO" -> 2 [] OTHER -> action

my_dialog(b, action) ==
    CASE b = "YES" -> 1 [] b \in {"NO", "ESCAPE", "NONE"} -> 2 [] OTHER -> action

progress_callback(b, action) ==
    CASE b = "YES" -> 1 [] b \in {"NO", "ESCAPE"} -> 2 [] b = "NONE" -> -1
      [] OTHER -> action

\* The last button that the dialog d reports in the calls that are due: each call of a
\* callback overwrites the flag.
LastButton(d) ==
    LET i == SelectLastInSeq(msgs, LAMBDA m : m.of = d)
    IN  IF i = 0 THEN "no call" ELSE msgs[i].button

\* One flag after all the calls of its callback.
DialogAction(action) == my_dialog(LastButton("question"), action)
ProgressAction(action) == progress_callback(LastButton("bars"), action)

\* sysUtilCheckCallback, from the values the flags have then; do_flip.
Callbacks(d, p) ==
    /\ dialog_action' = DialogAction(d) /\ progress_action' = ProgressAction(p)
    /\ msgs' = <<>>
DialogCallbacks ==
    Callbacks(dialog_action, progress_action) /\ UNCHANGED <<prev_prc, dialog, button, bars>>

-----------------------------------------------------------------------------
(* Opening, updating and closing *)

\* Mutant: the answer to the last question is kept.
YesNoDialog_stale ==
    /\ dialog' \in {"question", "none"} /\ button' = "none"
    /\ UNCHANGED <<dialog_action, progress_action, prev_prc, bars, msgs>>

YesNoDialog ==
    /\ dialog_action' = 0
    /\ dialog' \in {"question", "none"} /\ button' = "none"
    /\ UNCHANGED <<progress_action, prev_prc, bars, msgs>>

\* Mutant: the bars of the last job are remembered.
DoubleProgressBarDialog_stale ==
    /\ dialog' \in {"bars", "none"} /\ button' = "none"
    /\ bars' = [i \in 0 .. 1 |-> 0]
    /\ Callbacks(dialog_action, 0)
    /\ UNCHANGED prev_prc

\* Mutant: the cancelling of the last job is remembered.
DoubleProgressBarDialog_kept ==
    /\ dialog' \in {"bars", "none"} /\ button' = "none"
    /\ prev_prc' = [i \in 0 .. 1 |-> 0] /\ bars' = [i \in 0 .. 1 |-> 0]
    /\ Callbacks(dialog_action, progress_action)

DoubleProgressBarDialog ==
    /\ dialog' \in {"bars", "none"} /\ button' = "none"
    /\ prev_prc' = [i \in 0 .. 1 |-> 0] /\ bars' = [i \in 0 .. 1 |-> 0]
    /\ Callbacks(dialog_action, 0)

\* Mutant: the percentage is added, not what it has grown by.
ProgressBarUpdate_whole(i, cprc) ==
    /\ bars' = [bars EXCEPT ![i] = @ + cprc]
    /\ prev_prc' = [prev_prc EXCEPT ![i] = cprc]
    /\ Callbacks(dialog_action, progress_action)
    /\ UNCHANGED <<dialog, button>>

\* ProgressBarUpdate and ProgressBar2Update: msgDialogProgressBarInc adds to the bar,
\* a percentage that went back resets it; then do_flip.
ProgressBarUpdate(i, cprc) ==
    LET set(f, x) == [f EXCEPT ![i] = x] IN
    /\ \/ /\ cprc > prev_prc[i]
          /\ bars' = set(bars, bars[i] + cprc - prev_prc[i])
          /\ prev_prc' = set(prev_prc, cprc)
       \/ cprc < prev_prc[i] /\ bars' = set(bars, 0) /\ prev_prc' = set(prev_prc, 0)
       \/ cprc = prev_prc[i] /\ UNCHANGED <<bars, prev_prc>>
    /\ Callbacks(dialog_action, progress_action)
    /\ UNCHANGED <<dialog, button>>

\* msgDialogAbort
Abort ==
    /\ dialog' = "none"
    /\ \/ UNCHANGED msgs
       \/ /\ dialog # "none" /\ button = "none"
          /\ msgs' = Append(msgs, [of |-> dialog, button |-> "NONE"])
    /\ button' = "none" /\ bars' = [i \in 0 .. 1 |-> 0]
    /\ UNCHANGED <<dialog_action, progress_action, prev_prc>>

-----------------------------------------------------------------------------
(* The user: one button closes a dialog; the bars can only be cancelled *)

Press(b) ==
    /\ dialog # "none" /\ button = "none"
    /\ b \in (IF dialog = "bars" THEN {"ESCAPE"} ELSE {"YES", "NO", "ESCAPE", "NONE"})
    /\ button' = b
    /\ msgs' = Append(msgs, [of |-> dialog, button |-> b])
    /\ UNCHANGED <<dialog_action, progress_action, prev_prc, dialog, bars>>
=============================================================================
