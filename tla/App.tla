-------------------------------- MODULE App --------------------------------
(***************************************************************************)
(* The main loop of fmapp.c with the pad that drives it (Pad) and what it  *)
(* waits for: a question (Dialog), a job that shows its progress (Dialog;  *)
(* what the job does to the disks is module Job), or the keyboard (Osk).   *)
(* The program has one thread; the user and the system act between any two *)
(* of its steps, and their events reach it when it calls                   *)
(* sysUtilCheckCallback: in ps3pad_read at the head of each frame and in   *)
(* the keyboard's loop, and in do_flip while it waits.                     *)
(***************************************************************************)
EXTENDS Dialog, Osk, Pad

CONSTANTS
    Entries,    \* the entries of a job
    Chunks      \* the chunks of a file, the percentage when it is complete

ASSUME EntriesAssumption == Entries \in Nat \ {0}
ASSUME ChunksAssumption == Chunks \in Nat \ {0}

VARIABLES
    pc,     \* "frame", "command", "wait", "osk", "quit"; of a job "open", "entry",
            \* "work", "chunk", "check", "flip", "next", "close", or "lost" in its scan
    asked,  \* the question: "quit", "copy" or "delete"
    ktr, chunk,     \* the entry worked on, the chunks of it that are done
    late    \* history: what the job did after it was told that it is cancelled

jobVars == <<asked, ktr, chunk, late>>
vars == <<pc, jobVars, dialogVars, oskVars, padVars>>

Init ==
    /\ DialogInit /\ OskInit /\ PadInit
    /\ pc = "frame" /\ asked = "quit" /\ ktr = 1 /\ chunk = 0 /\ late = 0

Goto(from, to) == pc = from /\ pc' = to

-----------------------------------------------------------------------------
(* fmapp_update *)

Frame ==
    /\ Goto("frame", "command")
    /\ ps3pad_read /\ DialogCallbacks /\ OskCallbacks
    /\ UNCHANGED jobVars

\* No button, or a command that does not wait: module Panels has what it does.
NoWait ==
    /\ Goto("command", "frame")
    /\ TakeCommand
    /\ UNCHANGED <<jobVars, dialogVars, oskVars>>

Question == [CIRCLE |-> "quit", SQUARE |-> "copy", TRIANGLE |-> "delete"]

\* CIRCLE on the device list, SQUARE and TRIANGLE in a directory
Ask ==
    /\ Goto("command", "wait")
    /\ TakeCommand /\ Command \in DOMAIN Question
    /\ YesNoDialog
    /\ asked' = Question[Command]
    /\ UNCHANGED <<ktr, chunk, late, oskVars>>

\* The scan before the question may never end: ScanLost of module Job.
AskLost ==
    /\ Goto("command", "lost")
    /\ TakeCommand /\ Command \in {"SQUARE", "TRIANGLE"}
    /\ UNCHANGED <<jobVars, dialogVars, oskVars>>

\* START and SELECT
AskText ==
    /\ Goto("command", "osk")
    /\ TakeCommand /\ Command \in {"START", "SELECT"}
    /\ Get_OSK_String
    /\ UNCHANGED <<jobVars, dialogVars>>

\* The keyboard's loop reads the pad.
Typing ==
    /\ pc = "osk"
    /\ \/ SetupFail /\ UNCHANGED <<dialogVars, padVars>>
       \/ Load /\ UNCHANGED <<dialogVars, padVars>>
       \/ OskFrame /\ DialogCallbacks /\ ps3pad_read
       \/ OskReturn /\ UNCHANGED <<dialogVars, padVars>>
    /\ UNCHANGED <<pc, jobVars>>

\* The result is used, and the caller's array goes.
TextReturned ==
    /\ Goto("osk", "frame") /\ oskpc = "out"
    /\ str' = <<>> /\ result' = "none" /\ choice' = "unset"
    /\ UNCHANGED <<jobVars, dialogVars, padVars, oskpc, osk_event, osk_unloaded,
                   osk_action, res, held, kb, field, kbEvents>>

\* wait_dialog: the loop
Wait ==
    /\ pc = "wait" /\ dialog_action = 0
    /\ DialogCallbacks /\ OskCallbacks
    /\ UNCHANGED <<pc, jobVars, padVars>>

\* wait_dialog returns, and with it YesNoDialog.
Answered ==
    /\ pc = "wait" /\ dialog_action # 0
    /\ Abort
    /\ pc' = IF dialog_action # 1 THEN "frame"
             ELSE IF asked = "quit" THEN "quit" ELSE "open"
    /\ UNCHANGED <<jobVars, oskVars, padVars>>

-----------------------------------------------------------------------------
(* A job: fm_job_copy or fm_job_delete, and fm_file_copy *)

OpenBars ==
    /\ Goto("open", "entry")
    /\ DoubleProgressBarDialog /\ OskCallbacks
    /\ ktr' = 1 /\ chunk' = 0 /\ late' = 0
    /\ UNCHANGED <<asked, padVars>>

BeginEntry ==
    /\ ktr <= Entries /\ Goto("entry", "work")
    /\ ProgressBarUpdate(0, ktr) /\ OskCallbacks
    /\ UNCHANGED <<jobVars, padVars>>

\* The same file, or one that is given up before the second bar is touched.
NoWork ==
    /\ asked = "copy" /\ Goto("work", "flip")
    /\ UNCHANGED <<jobVars, dialogVars, oskVars, padVars>>

\* The second bar starts again for each entry.
BeginWork ==
    /\ Goto("work", "chunk")
    /\ ProgressBarUpdate(1, 0) /\ OskCallbacks
    /\ chunk' = 0
    /\ UNCHANGED <<asked, ktr, late, padVars>>

Counted == late' = IF progress_action = 2 THEN late + 1 ELSE late

\* A chunk of a file is copied: the cancelling is asked for.
DoChunk ==
    /\ asked = "copy" /\ Goto("chunk", "check")
    /\ Counted /\ chunk' = chunk + 1
    /\ ProgressBarUpdate(1, chunk + 1) /\ OskCallbacks
    /\ UNCHANGED <<asked, ktr, padVars>>

\* Between NTFS drives errors are counted as bytes, CopyEndless of module Job: the
\* percentage is any one.
ErrorChunk ==
    /\ asked = "copy" /\ Goto("chunk", "check")
    /\ Counted /\ \E cprc \in 0 .. Chunks : ProgressBarUpdate(1, cprc)
    /\ OskCallbacks
    /\ UNCHANGED <<asked, ktr, chunk, padVars>>

\* A file that did not open, that is empty, or where a call failed.
EndFile ==
    /\ asked = "copy" /\ Goto("chunk", "flip")
    /\ UNCHANGED <<jobVars, dialogVars, oskVars, padVars>>

CheckChunk ==
    /\ pc = "check"
    /\ pc' = IF progress_action = 2 THEN "close"
             ELSE IF chunk < Chunks THEN "chunk" ELSE "flip"
    /\ UNCHANGED <<jobVars, dialogVars, oskVars, padVars>>

\* A directory is made, or an entry is removed.
DoWhole ==
    /\ chunk = 0 /\ Goto("chunk", IF asked = "copy" THEN "flip" ELSE "next")
    /\ Counted /\ chunk' = Chunks
    /\ ProgressBarUpdate(1, Chunks) /\ OskCallbacks
    /\ UNCHANGED <<asked, ktr, padVars>>

\* The do_flip of fm_job_copy.
Flip ==
    /\ Goto("flip", "next")
    /\ DialogCallbacks /\ OskCallbacks
    /\ UNCHANGED <<jobVars, padVars>>

EndEntry ==
    /\ Goto("next", IF progress_action = 2 THEN "close" ELSE "entry")
    /\ ktr' = ktr + 1
    /\ UNCHANGED <<asked, chunk, late, dialogVars, oskVars, padVars>>

EndJob ==
    /\ ktr > Entries /\ Goto("entry", "close")
    /\ UNCHANGED <<jobVars, dialogVars, oskVars, padVars>>

\* What was local to the job goes with it.
CloseBars ==
    /\ Goto("close", "frame")
    /\ Abort
    /\ ktr' = 1 /\ chunk' = 0 /\ late' = 0
    /\ asked' = "quit"
    /\ UNCHANGED <<oskVars, padVars>>

-----------------------------------------------------------------------------
Program ==
    \/ Frame \/ NoWait \/ Ask \/ AskLost \/ AskText \/ Typing \/ TextReturned \/ Wait \/ Answered
    \/ OpenBars \/ BeginEntry \/ NoWork \/ BeginWork \/ DoChunk \/ ErrorChunk \/ EndFile
    \/ CheckChunk \/ DoWhole \/ Flip \/ EndEntry \/ EndJob \/ CloseBars

\* The user answers with a button of the pad, or the dialog goes away by itself.  What
\* is held changes when it will be read next.
Key == [YES |-> "CROSS", NO |-> "CROSS", ESCAPE |-> "CIRCLE"]

User ==
    /\ \E b \in {"YES", "NO", "ESCAPE", "NONE"} :
          /\ Press(b)
          /\ IF b \in DOMAIN Key THEN Strike(Key[b]) ELSE UNCHANGED padVars
    /\ UNCHANGED <<pc, jobVars, oskVars>>

Next ==
    \/ Program
    \/ User
    \/ (pc = "frame" \/ oskpc = "loop") /\ Hands /\ UNCHANGED <<pc, jobVars, dialogVars, oskVars>>
    \/ Keyboard /\ UNCHANGED <<pc, jobVars, dialogVars, padVars>>

Spec == Init /\ [][Next]_vars

\* The program runs; a question is answered some time, and the keyboard is used and
\* reports what it is asked to do.  Nobody has to cancel a job.
FairSpec ==
    /\ Spec
    /\ WF_vars(Program)
    /\ WF_vars(dialog = "question" /\ User)
    /\ WF_vars(Keyboard /\ UNCHANGED <<pc, jobVars, dialogVars, padVars>>)

-----------------------------------------------------------------------------
(* Properties *)

TypeOK ==
    /\ pc \in {"frame", "command", "wait", "osk", "quit", "lost", "open", "entry", "work",
               "chunk", "check", "flip", "next", "close"}
    /\ oskpc \in {"out", "setup", "loop", "end", "overrun"}
    /\ dialog_action \in 0 .. 2 /\ progress_action \in -1 .. 2
    /\ bars[0] \in 0 .. Entries /\ bars[1] \in 0 .. Chunks
    /\ ktr \in 1 .. Entries + 1 /\ chunk \in 0 .. Chunks
    /\ held \subseteq {"container", "callback"}

\* A question is left with an answer to this very question: the program quits, or
\* a job begins, when the user said yes, and only then (wait_dialog, YesNoDialog).
Consent ==
    [][pc = "wait" /\ pc' # "wait" =>
         button # "none" /\ (pc' \in {"open", "quit"} <=> button = "YES")]_vars

\* One press of a button is one command at most (new_pad: "only can see one time"),
\* whatever dialogs and keyboards come in between and whatever was held when they
\* came; only UP and DOWN, held, are repeated.
OncePerPress ==
    [][pc = "command" /\ pc' # "command" =>
         LET b == Command IN
         b \in served => b \in {"UP", "DOWN"} /\ Repeated(b)]_vars

\* A cancelled job does at most one more chunk or entry after the callback told it,
\* and a job stops early only if the user cancelled it, not an earlier one.
CancelHonoured ==
    /\ late <= 1
    /\ pc = "close" /\ ktr <= Entries => button = "ESCAPE"

\* What the bars show is what the program believes they show, so that the steps it
\* adds lead to the percentage it has computed.
BarsExact == dialog = "bars" => bars = prev_prc

\* The keyboard returns a text exactly if the user entered one in this call,
\* however its events are grouped, and fails if the user cancelled it or if it was
\* never shown: no event of an earlier call ends it.
OskOutcome ==
    oskpc \in {"end", "out"} =>
        /\ result = "SUCCESS" => choice \in {"text", "same"}
        /\ result = "FAILED" => choice \in {"unset", "cancel"}

\* The text a call returns is the one in the keyboard when the user entered it, in
\* UTF-8, whatever the array held at first; a text that was shown comes back as it was.
\* Except surrogate pairs, which the conversions get wrong, and a text that with the 0
\* that ends it has more than the CBSIZE bytes of the caller's array: it runs over them.
OskText ==
    [][oskpc = "loop" /\ oskpc' # "loop" /\ result' = "SUCCESS" =>
         /\ Basic(field) /\ Len(EncodedText(field)) < CBSIZE =>
               oskpc' = "end" /\ str' = EncodedText(field)
         /\ \A t \in Typed :
               /\ Basic(t) /\ choice = "same"
               /\ str = EncodedText(t) /\ Len(str) < CBSIZE
               => oskpc' = "end" /\ str' = str]_vars

\* Out of the keyboard, its memory and its callback are given back and no event is
\* left over, whatever failed.
OskReleased == oskpc = "out" => held = {} /\ osk_event = "none"

\* Nothing is shown that could be answered, the scan of a job goes round and round, or
\* the text entered was too long.
Stuck == (pc = "wait" /\ dialog = "none") \/ pc = "lost" \/ oskpc = "overrun"

\* A copy between NTFS drives that nobody cancels reads and writes only errors.
Endless == <>[](asked = "copy" /\ pc \in {"chunk", "check"}) /\ []<><<ErrorChunk>>_vars

\* Whatever the program waits for, it comes back to the main loop, or quits; except
\* that it waits for ever for a question that the system failed to show (wait_dialog),
\* for a scan or a copy that does not end, and after a text that overran its array.
Returns == ((pc # "frame") ~> (pc \in {"frame", "quit"} \/ Stuck)) \/ Endless
=============================================================================
