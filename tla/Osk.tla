-------------------------------- MODULE Osk --------------------------------
(***************************************************************************)
(* The on-screen keyboard: Get_OSK_String of osk_input.c.  The system's    *)
(* keyboard runs beside the program and reports what happens through       *)
(* my_eventHandle, which sysUtilCheckCallback calls; the loop of           *)
(* Get_OSK_String takes one event a frame from osk_event, which holds one. *)
(*                                                                         *)
(* The texts are those of module Utf.  fmapp_update() passes an array that *)
(* it never wrote: its text is any one.  The text that is entered is       *)
(* written into this array whatever its length; one that does not fit runs *)
(* over what is behind it on the stack, and the model ends there.          *)
(* OSK_exit does nothing here: nothing calls exit() in Get_OSK_String.     *)
(***************************************************************************)
EXTENDS Sequences, SequencesExt, Utf

CONSTANTS
    StackTexts,     \* what an array that was not written may hold, as a text
    Typed,          \* the texts the user types, in UTF-16
    CBSIZE          \* the bytes of the caller's array; 256 in the code

ASSUME TextsAssumption == Typed \subseteq Seq(Unit) /\ StackTexts \subseteq Seq(Byte)
ASSUME CBSIZEAssumption == CBSIZE \in Nat \ {0}

VARIABLES
    oskpc,          \* "out", "setup", "loop", "end": where Get_OSK_String is;
                    \* "overrun" when it has written beyond the caller's array
    osk_event,      \* the event to be handled, or "none"
    osk_unloaded, osk_action,
    res,            \* OutputReturnedParam.res
    result,         \* what the last call returned, or will return
    held,           \* what is to be given back: the memory container, the callback
    kb,             \* system: "off", "open", "closed" by the user, "unloading"
    str,            \* the text of the caller's array
    field,          \* system: the text in the keyboard
    choice,         \* user: "unset" (no keyboard yet), "none" (yet), "text" (a new
                    \* one), "same" (the text that was shown), "cancel"
    kbEvents        \* system: the events not reported yet

oskVars == <<oskpc, osk_event, osk_unloaded, osk_action, res, result, held, kb,
             str, field, choice, kbEvents>>

OskInit ==
    /\ oskpc = "out" /\ osk_event = "none" /\ osk_unloaded = FALSE
    /\ osk_action = "SUCCESS" /\ res = "NO_TEXT" /\ result = "none" /\ held = {}
    /\ str = <<>> /\ field = <<>> /\ kb = "off" /\ choice = "unset" /\ kbEvents = <<>>

-----------------------------------------------------------------------------
(* The callback *)

\* The flags after sysUtilCheckCallback: each event but UNLOADED overwrites osk_event.
\* Without the callback the events are lost.
my_eventHandle ==
    LET i == SelectLastInSeq(kbEvents, LAMBDA e : e # "UNLOADED") IN
    [ event |-> IF i = 0 THEN osk_event ELSE kbEvents[i],
      unloaded |-> osk_unloaded \/ "UNLOADED" \in ToSet(kbEvents) ]
Reported ==
    IF "callback" \in held THEN my_eventHandle
    ELSE [event |-> osk_event, unloaded |-> osk_unloaded]

\* sysUtilCheckCallback outside of the keyboard's loop.
OskCallbacks ==
    /\ osk_event' = Reported.event /\ osk_unloaded' = Reported.unloaded
    /\ kbEvents' = <<>>
    /\ UNCHANGED <<oskpc, osk_action, res, result, held, kb, str, field, choice>>

-----------------------------------------------------------------------------
(* Get_OSK_String *)

\* The memory container is made, or the call fails at once.
Get_OSK_String ==
    /\ oskpc = "out"
    /\ choice' = "unset" /\ str' \in StackTexts
    /\ \/ oskpc' = "setup" /\ held' = held \cup {"container"} /\ result' = "none"
       \/ result' = "FAILED" /\ UNCHANGED <<oskpc, held>>
    /\ UNCHANGED <<osk_event, osk_unloaded, osk_action, res, kb, field, kbEvents>>

\* Mutant: a failed call returns at once.
SetupFail_return ==
    /\ oskpc = "setup"
    /\ result' = "FAILED" /\ oskpc' = "out"
    /\ held' \in {held, held \cup {"callback"}}
    /\ UNCHANGED <<osk_event, osk_unloaded, osk_action, res, kb, str, field, choice,
                   kbEvents>>

\* One of the allocations and settings fails, or oskLoadAsync, the one after the
\* callback was registered.
SetupFail ==
    /\ oskpc = "setup"
    /\ result' = "FAILED" /\ oskpc' = "end"
    /\ held' \in {held, held \cup {"callback"}}
    /\ UNCHANGED <<osk_event, osk_unloaded, osk_action, res, kb, str, field, choice,
                   kbEvents>>

\* osk_event is not reset.
Load ==
    /\ oskpc = "setup" /\ oskpc' = "loop"
    /\ held' = held \cup {"callback"}
    /\ osk_action' = "SUCCESS" /\ osk_unloaded' = FALSE /\ res' = "NO_TEXT"
    /\ kb' = "open" /\ choice' = "none" /\ field' = UTF8_to_UTF16(str)
    /\ UNCHANGED <<osk_event, result, str, kbEvents>>

\* oskUnloadAsync: the result is written and the keyboard goes; again, it fails.
Unload ==
    IF kb \in {"open", "closed"}
    THEN /\ kb' = "unloading"
         /\ res' = CASE choice \in {"text", "same"} -> "OK" [] choice = "cancel" -> "CANCELED"
                     [] OTHER -> "NO_TEXT"
    ELSE UNCHANGED <<kb, res>>

\* Mutant: the result of the keyboard is not asked for.
Outcome_action(action, r) == IF action = "SUCCESS" THEN "SUCCESS" ELSE "FAILED"

Outcome(action, r) == IF r = "OK" /\ action = "SUCCESS" THEN "SUCCESS" ELSE "FAILED"

\* After the loop: the text is written and the 0 that ends it, as long as they may be.
Return(text) ==
    \/ result' # "SUCCESS" /\ oskpc' = "end" /\ UNCHANGED str
    \/ result' = "SUCCESS" /\ Len(text) < CBSIZE /\ oskpc' = "end" /\ str' = text
    \/ result' = "SUCCESS" /\ Len(text) >= CBSIZE /\ oskpc' = "overrun" /\ UNCHANGED str

\* One turn of the loop: ps3pad_read calls the callback, the event is handled, and
\* osk_unloaded is tested.  oskAbort may report that the keyboard has finished.
OskFrame ==
    /\ oskpc = "loop"
    /\ osk_event' = "none" /\ osk_unloaded' = Reported.unloaded
    /\ CASE Reported.event = "INPUT_ENTERED" ->
              res' = "OK" /\ kbEvents' = <<>> /\ UNCHANGED <<osk_action, kb>>
         [] Reported.event = "INPUT_CANCELED" ->
              Unload /\ osk_action' = "FAILED" /\ kbEvents' \in {<<>>, <<"FINISHED">>}
         [] Reported.event = "FINISHED" ->
              Unload /\ kbEvents' = <<>> /\ UNCHANGED osk_action
         [] OTHER ->
              kbEvents' = <<>> /\ UNCHANGED <<osk_action, res, kb>>
    /\ IF osk_unloaded' THEN result' = Outcome(osk_action', res') /\ Return(UTF16_to_UTF8(field))
                        ELSE UNCHANGED <<oskpc, result, str>>
    /\ UNCHANGED <<held, field, choice>>

\* From the label end on.
OskReturn ==
    /\ oskpc = "end" /\ oskpc' = "out"
    /\ held' = {} /\ field' = <<>>
    /\ UNCHANGED <<osk_event, osk_unloaded, osk_action, res, result, kb, str, choice,
                   kbEvents>>

-----------------------------------------------------------------------------
(* The user and the system's keyboard *)

Report(events) ==
    /\ kbEvents' = kbEvents \o events
    /\ UNCHANGED <<oskpc, osk_event, osk_unloaded, osk_action, res, result, held, str>>

\* A new text, or the one that was shown.  The end of the input may be announced before
\* the keyboard has finished.
KbEnter ==
    /\ kb = "open" /\ kb' = "closed"
    /\ \/ choice' = "text" /\ field' \in Typed
       \/ choice' = "same" /\ UNCHANGED field
    /\ Report(<<"FINISHED">>) \/ Report(<<"INPUT_ENTERED", "FINISHED">>)

KbCancel ==
    /\ kb = "open" /\ kb' = "closed"
    /\ choice' = "cancel" /\ UNCHANGED field
    /\ Report(<<"INPUT_CANCELED">>) \/ Report(<<"INPUT_CANCELED", "FINISHED">>)

KbUnloaded == kb = "unloading" /\ kb' = "off" /\ Report(<<"UNLOADED">>)
              /\ UNCHANGED <<field, choice>>

Keyboard == KbEnter \/ KbCancel \/ KbUnloaded
=============================================================================
