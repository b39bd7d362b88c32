----------------------------- MODULE App_proofs -----------------------------
(***************************************************************************)
(* Proofs of the safety properties of module App, for any number of        *)
(* entries and chunks, any buttons and any texts: the answers and cancels  *)
(* of dialogs, the progress bars, the keyboard and the presses of buttons. *)
(***************************************************************************)
EXTENDS App, Extrema, SequenceTheorems, TLAPS

-----------------------------------------------------------------------------
(* What is called back *)

Answer == {"YES", "NO", "ESCAPE", "NONE"}
Message == [of : {"question", "bars"}, button : Answer]
Event == {"INPUT_ENTERED", "INPUT_CANCELED", "FINISHED", "UNLOADED"}

\* What SelectLastInSeq finds in the messages and in the events.
LEMMA LastMessage ==
    ASSUME msgs \in Seq(Message),
           NEW d
    PROVE  \/ LastButton(d) = "no call" /\ \A i \in DOMAIN msgs : msgs[i].of # d
           \/ \E i \in DOMAIN msgs : msgs[i].of = d /\ LastButton(d) = msgs[i].button
<1> DEFINE I == {i \in 1 .. Len(msgs) : msgs[i].of = d}
<1>1. Len(msgs) \in Nat /\ DOMAIN msgs = 1 .. Len(msgs)
  OBVIOUS
<1>2. LastButton(d) = LET i == IF I # {} THEN Max(I) ELSE 0
                      IN  IF i = 0 THEN "no call" ELSE msgs[i].button
  BY DEF LastButton, SelectLastInSeq
<1>3. CASE I = {}
  BY <1>1, <1>2, <1>3
<1>4. CASE I # {}
  <2>1. Max(I) \in I
    BY <1>1, <1>4, MaxIn
  <2>2. \A i \in I : i \in DOMAIN msgs /\ i # 0 /\ msgs[i].of = d
    BY <1>1
  <2> HIDE DEF I
  <2>3. LastButton(d) = msgs[Max(I)].button
    BY <1>2, <1>4, <2>1, <2>2
  <2> QED BY <2>1, <2>2, <2>3
<1> QED BY <1>3, <1>4

LEMMA LastEvent ==
    ASSUME kbEvents \in Seq(Event)
    PROVE  /\ \/ Reported.event = osk_event
              \/ \E i \in DOMAIN kbEvents :
                    Reported.event = kbEvents[i] /\ kbEvents[i] # "UNLOADED"
           /\ "callback" \notin held => Reported.event = osk_event
           /\ Reported.unloaded =>
                 osk_unloaded \/ \E i \in DOMAIN kbEvents : kbEvents[i] = "UNLOADED"
<1> DEFINE I == {i \in 1 .. Len(kbEvents) : kbEvents[i] # "UNLOADED"}
           last == IF I # {} THEN Max(I) ELSE 0
<1>1. Len(kbEvents) \in Nat /\ DOMAIN kbEvents = 1 .. Len(kbEvents)
  OBVIOUS
<1>2. my_eventHandle = [ event |-> IF last = 0 THEN osk_event ELSE kbEvents[last],
                         unloaded |-> osk_unloaded \/ "UNLOADED" \in ToSet(kbEvents) ]
  BY DEF my_eventHandle, SelectLastInSeq
<1>3. last = 0 \/ last \in I
  BY <1>1, MaxIn
<1>4. "UNLOADED" \in ToSet(kbEvents) => \E i \in DOMAIN kbEvents : kbEvents[i] = "UNLOADED"
  BY DEF ToSet
<1> HIDE DEF last
<1> QED BY <1>1, <1>2, <1>3, <1>4 DEF Reported
-----------------------------------------------------------------------------
(* The keyboard *)

Entered == choice \in {"text", "same"}

\* Where the keyboard is: it is gone, and has reported all its events, outside of the
\* loop; osk_event is empty between two steps.
OskPlace ==
    /\ pc # "osk" => oskpc = "out"
    /\ osk_event = "none" /\ kbEvents \in Seq(Event)
    /\ oskpc = "out" => held = {}
    /\ oskpc # "loop" => kbEvents = <<>> /\ kb = "off"

\* In the loop: the events are those of this call, the result is written when the
\* keyboard was unloaded, and the call was not cancelled but by the user.
OskLoop ==
    oskpc = "loop" =>
        /\ ~ osk_unloaded
        /\ \A i \in DOMAIN kbEvents :
              /\ kbEvents[i] = "INPUT_ENTERED" => kb = "closed" /\ Entered
              /\ kbEvents[i] = "INPUT_CANCELED" => kb = "closed" /\ choice = "cancel"
              /\ kbEvents[i] = "FINISHED" => Entered \/ choice = "cancel"
              /\ kbEvents[i] = "UNLOADED" => kb = "off"
        /\ kb \in {"open", "closed", "unloading", "off"}
        /\ IF kb = "open" THEN choice = "none" ELSE Entered \/ choice = "cancel"
        /\ osk_action \in {"SUCCESS", "FAILED"}
        /\ osk_action = "FAILED" => choice = "cancel"
        /\ kb \in {"unloading", "off"} => res = IF Entered THEN "OK" ELSE "CANCELED"

OskInv ==
    /\ OskPlace /\ OskLoop
    /\ oskpc = "setup" => choice = "unset"
    /\ OskOutcome

LEMMA InitOsk == Init => OskInv
BY DEF Init, OskInit, OskInv, OskPlace, OskLoop, OskOutcome

\* sysUtilCheckCallback outside of the keyboard's loop.
LEMMA CallbacksOsk ==
    ASSUME OskInv, OskCallbacks, pc # "osk", pc' # "osk"
    PROVE  OskInv'
<1>1. Reported.event = osk_event /\ kbEvents' = <<>>
  BY LastEvent DEF OskInv, OskPlace, OskCallbacks
<1> QED BY <1>1 DEF OskInv, OskPlace, OskLoop, OskOutcome, OskCallbacks, Entered

LEMMA StartOsk ==
    ASSUME OskInv, AskText \/ (Typing /\ (SetupFail \/ Load \/ OskReturn)) \/ TextReturned
    PROVE  OskInv'
<1> USE DEF OskInv, OskPlace, OskLoop, OskOutcome, Entered
<1>1. CASE AskText
  BY <1>1 DEF AskText, Get_OSK_String, Goto
<1>2. CASE Typing /\ SetupFail
  BY <1>2 DEF Typing, SetupFail
<1>3. CASE Typing /\ Load
  BY <1>3 DEF Typing, Load
<1>4. CASE Typing /\ OskReturn
  BY <1>4 DEF Typing, OskReturn
<1>5. CASE TextReturned
  BY <1>5 DEF TextReturned, Goto
<1> QED BY <1>1, <1>2, <1>3, <1>4, <1>5

\* One turn of the loop, by the event it handles.
LEMMA FrameOsk ==
    ASSUME OskInv, OskFrame, pc = "osk", pc' = "osk"
    PROVE  OskInv'
<1>1. /\ oskpc = "loop" /\ ~ osk_unloaded /\ osk_event = "none"
      /\ osk_event' = "none" /\ UNCHANGED <<held, choice>>
      /\ kbEvents \in Seq(Event)
  BY DEF OskInv, OskPlace, OskLoop, OskFrame
<1>2. \/ Reported.event = "none"
      \/ \E i \in DOMAIN kbEvents :
            Reported.event = kbEvents[i] /\ kbEvents[i] # "UNLOADED"
  BY <1>1, LastEvent
<1>3. osk_unloaded' => kb = "off"
  BY <1>1, LastEvent DEF OskInv, OskLoop, OskFrame
<1>4. \/ /\ Reported.event = "INPUT_ENTERED" /\ kb = "closed" /\ Entered
         /\ res' = "OK" /\ kbEvents' = <<>> /\ UNCHANGED <<osk_action, kb>>
      \/ /\ Reported.event = "INPUT_CANCELED" /\ kb = "closed" /\ choice = "cancel"
         /\ Unload /\ osk_action' = "FAILED" /\ kbEvents' \in {<<>>, <<"FINISHED">>}
      \/ /\ Reported.event = "FINISHED" /\ (Entered \/ choice = "cancel")
         /\ Unload /\ kbEvents' = <<>> /\ UNCHANGED osk_action
      \/ kbEvents' = <<>> /\ UNCHANGED <<osk_action, res, kb>>
  BY <1>1, <1>2 DEF OskInv, OskLoop, OskFrame, Event
<1>5. /\ osk_action' \in {"SUCCESS", "FAILED"} /\ (osk_action' = "FAILED" => choice = "cancel")
      /\ kb' \in {"open", "closed", "unloading", "off"} /\ (kb' = "off" <=> kb = "off")
      /\ IF kb' = "open" THEN choice = "none" ELSE Entered \/ choice = "cancel"
      /\ kb' \in {"unloading", "off"} => res' = IF Entered THEN "OK" ELSE "CANCELED"
  <2> USE <1>1 DEF OskInv, OskLoop, Entered
  <2>1. CASE Reported.event = "INPUT_ENTERED" /\ kb = "closed" /\ UNCHANGED <<osk_action, kb>>
    BY <2>1
  <2>2. CASE kb = "closed" /\ choice = "cancel" /\ Unload /\ osk_action' = "FAILED"
    BY <2>2 DEF Unload
  <2>3. CASE (Entered \/ choice = "cancel") /\ Unload /\ UNCHANGED osk_action
    BY <2>3 DEF Unload
  <2>4. CASE UNCHANGED <<osk_action, res, kb>>
    BY <2>4
  <2> QED BY <1>4, <2>1, <2>2, <2>3, <2>4
<1>6. /\ kbEvents' = <<>> \/ (kbEvents' = <<"FINISHED">> /\ choice = "cancel" /\ kb = "closed")
      /\ kbEvents' \in Seq(Event)
  <2>1. kbEvents' = <<>> \/ (kbEvents' = <<"FINISHED">> /\ choice = "cancel" /\ kb = "closed")
    BY <1>4
  <2>2. <<>> \in Seq(Event) /\ <<"FINISHED">> \in Seq(Event)
    BY DEF Event
  <2> QED BY <2>1, <2>2
<1>7. CASE osk_unloaded'
  <2>1. oskpc' \in {"end", "overrun"} /\ result' = Outcome(osk_action', res') /\ kb = "off"
    BY <1>3, <1>7 DEF OskFrame, Return
  <2>2. kb' = "off" /\ kbEvents' = <<>>
    BY <1>5, <1>6, <2>1
  <2>3. res' = (IF Entered THEN "OK" ELSE "CANCELED") /\ (Entered \/ choice = "cancel")
    BY <1>5, <2>2
  <2>4. result' = IF Entered THEN "SUCCESS" ELSE "FAILED"
    BY <1>5, <2>1, <2>3 DEF Outcome, Entered
  <2> QED
    BY <1>1, <2>1, <2>2, <2>3, <2>4
    DEF OskInv, OskPlace, OskLoop, OskOutcome, Entered
<1>8. CASE ~ osk_unloaded'
  <2>1. oskpc' = "loop"
    BY <1>1, <1>8 DEF OskFrame
  <2> QED
    BY <1>1, <1>5, <1>6, <1>8, <2>1
    DEF OskInv, OskPlace, OskLoop, OskOutcome, Entered
<1> QED BY <1>7, <1>8

\* Before the user has done something, there is no event.
LEMMA OpenQuiet ==
    ASSUME OskInv, oskpc = "loop", kb = "open"
    PROVE  kbEvents = <<>>
<1>1. kbEvents \in Seq(Event) /\ choice = "none"
  BY DEF OskInv, OskPlace, OskLoop
<1>2. \A i \in DOMAIN kbEvents : kbEvents[i] \in Event /\ FALSE
  BY <1>1 DEF OskInv, OskLoop, Event, Entered
<1> QED BY <1>1, <1>2

\* The user and the keyboard act in the loop only.
LEMMA KeyboardOsk ==
    ASSUME OskInv, Keyboard, UNCHANGED pc
    PROVE  OskInv'
<1>1. /\ oskpc = "loop" /\ kbEvents \in Seq(Event) /\ osk_event = "none" /\ pc = "osk"
      /\ UNCHANGED <<oskpc, osk_event, osk_unloaded, osk_action, res, result, held>>
  BY DEF OskInv, OskPlace, Keyboard, KbEnter, KbCancel, KbUnloaded, Report
<1>2. SUFFICES kbEvents' \in Seq(Event) /\ OskLoop'
  BY <1>1 DEF OskInv, OskPlace, OskOutcome
<1>3. CASE KbEnter
  <2>1. kb = "open" /\ kb' = "closed" /\ choice' \in {"text", "same"} /\ kbEvents = <<>>
    BY <1>1, <1>3, OpenQuiet DEF KbEnter
  <2>2. kbEvents' = <<"FINISHED">> \/ kbEvents' = <<"INPUT_ENTERED", "FINISHED">>
    BY <1>3, <2>1 DEF KbEnter, Report
  <2>3. /\ <<"FINISHED">> \in Seq(Event) /\ <<"INPUT_ENTERED", "FINISHED">> \in Seq(Event)
    BY DEF Event
  <2>4. \A i \in DOMAIN kbEvents' : kbEvents'[i] \in {"INPUT_ENTERED", "FINISHED"}
    BY <2>2
  <2> QED BY <1>1, <2>1, <2>2, <2>3, <2>4 DEF OskInv, OskLoop, Entered
<1>4. CASE KbCancel
  <2>1. kb' = "closed" /\ choice' = "cancel" /\ kbEvents = <<>>
    BY <1>1, <1>4, OpenQuiet DEF KbCancel
  <2>2. kbEvents' = <<"INPUT_CANCELED">> \/ kbEvents' = <<"INPUT_CANCELED", "FINISHED">>
    BY <1>4, <2>1 DEF KbCancel, Report
  <2>3. /\ <<"INPUT_CANCELED">> \in Seq(Event) /\ <<"INPUT_CANCELED", "FINISHED">> \in Seq(Event)
    BY DEF Event
  <2>4. \A i \in DOMAIN kbEvents' : kbEvents'[i] \in {"INPUT_CANCELED", "FINISHED"}
    BY <2>2
  <2> QED BY <1>1, <2>1, <2>2, <2>3, <2>4 DEF OskInv, OskLoop, Entered
<1>5. CASE KbUnloaded
  <2>1. /\ kb = "unloading" /\ kb' = "off" /\ UNCHANGED choice
        /\ kbEvents' = kbEvents \o <<"UNLOADED">>
    BY <1>5 DEF KbUnloaded, Report
  <2>2. kbEvents' \in Seq(Event)
    BY <1>1, <2>1 DEF Event
  <2>3. \A i \in DOMAIN kbEvents' :
           kbEvents'[i] = "UNLOADED" \/ (i \in DOMAIN kbEvents /\ kbEvents'[i] = kbEvents[i])
    BY <1>1, <2>1
  <2> QED BY <1>1, <2>1, <2>2, <2>3 DEF OskInv, OskLoop, Entered
<1> QED BY <1>3, <1>4, <1>5 DEF Keyboard

\* The steps that leave the keyboard alone.
LEMMA QuietOsk ==
    ASSUME OskInv, UNCHANGED oskVars, (pc = "osk" => pc' = "osk" \/ oskpc = "out")
    PROVE  OskInv'
BY DEF OskInv, OskPlace, OskLoop, OskOutcome, Entered, oskVars

\* How a step concerns the keyboard.
LEMMA OskSteps ==
    ASSUME Next
    PROVE  \/ OskCallbacks /\ pc # "osk" /\ pc' # "osk"
           \/ AskText \/ (Typing /\ (SetupFail \/ Load \/ OskReturn)) \/ TextReturned
           \/ OskFrame /\ pc = "osk" /\ pc' = "osk"
           \/ Keyboard /\ UNCHANGED pc
           \/ UNCHANGED oskVars /\ (pc = "osk" => pc' = "osk")
<1>1. CASE Program
  BY <1>1 DEF Program, Goto, Frame, NoWait, Ask, Typing, Wait, Answered, OpenBars,
     BeginEntry, BeginWork, DoChunk, CheckChunk, DoWhole, Flip, EndEntry, EndJob, CloseBars,
     AskLost, NoWork, ErrorChunk, EndFile
<1>2. CASE User
  BY <1>2 DEF User
<1>3. CASE Next /\ ~ Program /\ ~ User
  BY <1>3 DEF Next
<1> QED BY <1>1, <1>2, <1>3

LEMMA NextOsk == OskInv /\ [Next]_vars => OskInv'
<1> SUFFICES ASSUME OskInv, [Next]_vars PROVE OskInv'
  OBVIOUS
<1>1. CASE UNCHANGED vars
  BY <1>1, QuietOsk DEF vars
<1>2. CASE Next
  BY <1>2, OskSteps, CallbacksOsk, StartOsk, FrameOsk, KeyboardOsk, QuietOsk
<1> QED BY <1>1, <1>2

LEMMA OskAlways == Spec => []OskInv
<1> QED BY InitOsk, NextOsk, PTL DEF Spec

\* Get_OSK_String returns a text exactly if the user entered one in this call, however
\* its events are grouped in osk_event.
THEOREM OskOutcomeCorrect == Spec => []OskOutcome
<1>1. OskInv => OskOutcome
  BY DEF OskInv
<1> QED BY <1>1, OskAlways, PTL

\* Every way out of Get_OSK_String gives the memory and the callback back.
THEOREM OskReleasedCorrect == Spec => []OskReleased
<1>1. OskInv => OskReleased
  BY DEF OskInv, OskPlace, OskReleased
<1> QED BY <1>1, OskAlways, PTL
-----------------------------------------------------------------------------
(* The conversions of texts *)

\* The bytes of a unit, by their number.
LEMMA EncodedIs ==
    ASSUME NEW u \in Unit
    PROVE  Encoded(u) = IF u < 128 THEN <<u>>
                        ELSE IF u < 2048 THEN <<192 + (u \div 64), 128 + (u % 64)>>
                        ELSE <<224 + (u \div 4096), 128 + ((u \div 64) % 64), 128 + (u % 64)>>
<1>1. 64 ^ 0 = 1 /\ 64 ^ 1 = 64 /\ 64 ^ 2 = 4096 /\ u \in Int
  BY DEF Unit
<1> DEFINE E(n, first) == [i \in 1 .. n + 1 |-> IF i = 1 THEN first + (u \div 64 ^ n)
                                               ELSE 128 + ((u \div 64 ^ (n + 1 - i)) % 64)]
<1>2. CASE u < 128
  <2>1. Encoded(u) = E(0, 0)
    BY <1>2 DEF Encoded
  <2>2. E(0, 0) = [i \in 1 .. 1 |-> u]
    BY <1>1
  <2>3. [i \in 1 .. 1 |-> u] = <<u>>
    OBVIOUS
  <2> QED BY <1>2, <2>1, <2>2, <2>3
<1>3. CASE ~ (u < 128) /\ u < 2048
  <2>1. Encoded(u) = E(1, 192)
    BY <1>3 DEF Encoded
  <2>2. E(1, 192) = [i \in 1 .. 2 |-> IF i = 1 THEN 192 + (u \div 64) ELSE 128 + (u % 64)]
    <3>1. \A i \in 1 .. 2 : i # 1 => 1 + 1 - i = 0
      OBVIOUS
    <3>2. u \div 1 = u
      BY <1>1
    <3> QED BY <1>1, <3>1, <3>2
  <2> DEFINE a == 192 + (u \div 64)
             b == 128 + (u % 64)
  <2>3. [i \in 1 .. 2 |-> IF i = 1 THEN a ELSE b] = <<a, b>>
    <3> HIDE DEF a, b
    <3> QED OBVIOUS
  <2> QED BY <1>3, <2>1, <2>2, <2>3
<1>4. CASE ~ (u < 2048)
  <2>1. Encoded(u) = E(2, 224)
    BY <1>1, <1>4 DEF Encoded
  <2> DEFINE a == 224 + (u \div 4096)
             b == 128 + ((u \div 64) % 64)
             c == 128 + (u % 64)
  <2>2. E(2, 224) = [i \in 1 .. 3 |-> IF i = 1 THEN a ELSE IF i = 2 THEN b ELSE c]
    <3>1. \A i \in 1 .. 3 : \/ i = 1
                            \/ i = 2 /\ 2 + 1 - i = 1
                            \/ i = 3 /\ 2 + 1 - i = 0
      OBVIOUS
    <3>2. u \div 1 = u /\ 2 + 1 = 3
      BY <1>1
    <3> QED BY <1>1, <3>1, <3>2
  <2>3. [i \in 1 .. 3 |-> IF i = 1 THEN a ELSE IF i = 2 THEN b ELSE c] = <<a, b, c>>
    <3> HIDE DEF a, b, c
    <3> QED OBVIOUS
  <2> QED BY <1>1, <1>4, <2>1, <2>2, <2>3
<1> QED BY <1>2, <1>3, <1>4

\* The tuples of up to three bytes are texts.
LEMMA Tuples ==
    ASSUME NEW S, NEW a \in S, NEW b \in S, NEW c \in S
    PROVE  <<a>> \in Seq(S) /\ <<a, b>> \in Seq(S) /\ <<a, b, c>> \in Seq(S)
OBVIOUS

\* A unit that is no half of a pair is converted to its encoding.
LEMMA BytesAreEncoded ==
    ASSUME NEW u \in Unit
    PROVE  Bytes(u) = Encoded(u) /\ Encoded(u) \in Seq(Byte)
<1>1. 2 ^ 6 = 64 /\ 2 ^ 12 = 4096 /\ u \in Int
  BY DEF Unit
<1>2. CASE u < 128
  <2>1. Bytes(u) = <<u>> /\ Encoded(u) = <<u>>
    BY <1>1, <1>2, EncodedIs DEF Bytes
  <2>2. u \in Nat /\ 1 <= u /\ u <= 255
    BY <1>2 DEF Unit
  <2>3. u \in Byte
    BY <2>2 DEF Byte
  <2> QED BY <2>1, <2>3, Tuples
<1>3. CASE ~ (u < 128) /\ u < 2048
  <2> DEFINE a == 192 + (u \div 64)
             b == 128 + (u % 64)
  <2>1. Bytes(u) = <<a, b>>
    BY <1>1, <1>3 DEF Bytes, Tail6, Low, Shift
  <2>2. Encoded(u) = <<a, b>>
    BY <1>3, EncodedIs
  <2>3. a \in Byte
    BY <1>1, <1>3 DEF Byte
  <2>4. b \in Byte
    BY <1>1 DEF Byte
  <2> HIDE DEF a, b
  <2> QED BY <2>1, <2>2, <2>3, <2>4, Tuples
<1>4. CASE ~ (u < 2048)
  <2> DEFINE a == 224 + (u \div 4096)
             b == 128 + ((u \div 64) % 64)
             c == 128 + (u % 64)
  <2>1. Bytes(u) = <<a, b, c>>
    BY <1>1, <1>4 DEF Bytes, Tail6, Low, Shift
  <2>2. Encoded(u) = <<a, b, c>>
    BY <1>1, <1>4, EncodedIs
  <2>3. a \in Byte
    BY <1>1, <1>4 DEF Byte, Unit
  <2>4. b \in Byte
    BY <1>1 DEF Byte
  <2>5. c \in Byte
    BY <1>1 DEF Byte
  <2> HIDE DEF a, b, c
  <2> QED BY <2>1, <2>2, <2>3, <2>4, <2>5, Tuples
<1> QED BY <1>2, <1>3, <1>4

\* A sequence that is put together from pieces, each with the place of the next one: what
\* a loop leaves from a place on is well defined.
Rest(g, n, piece, next, stop, i) ==
    IF i > n \/ i \in stop THEN <<>> ELSE piece[i] \o g[next[i]]

Rests(g, n, piece, next, stop) ==
    \A i \in 1 .. n + 1 : g[i] = Rest(g, n, piece, next, stop, i)
Onward(n, next) ==
    next \in [1 .. n -> Nat] /\ \A i \in 1 .. n : i < next[i] /\ next[i] <= n + 1

\* There is such a function, and its values are texts.
LEMMA RestExists ==
    ASSUME NEW U, NEW n \in Nat, NEW piece \in [1 .. n -> Seq(U)], NEW stop, NEW next, Onward(n, next)
    PROVE  \E g : g \in [1 .. n + 1 -> Seq(U)] /\ Rests(g, n, piece, next, stop)
<1> USE DEF Onward
<1> DEFINE F == [1 .. n + 1 -> Seq(U)]
           Solves(g, m) == \A i \in 1 .. n + 1 : i > n - m => g[i] = Rest(g, n, piece, next, stop, i)
           B == {m \in 0 .. n : ~ \E g \in F : Solves(g, m)}
<1>1. B = {}
  <2> SUFFICES ASSUME B # {} PROVE FALSE
    OBVIOUS
  <2>1. PICK m \in B : \A k \in B : m <= k
    <3>1. B \in SUBSET Nat
      OBVIOUS
    <3> HIDE DEF B
    <3> QED BY <3>1, Least
  <2>2. m # 0
    <3>1. [i \in 1 .. n + 1 |-> <<>>] \in F
      OBVIOUS
    <3>2. Solves([i \in 1 .. n + 1 |-> <<>>], 0)
      BY DEF Rest
    <3>3. 0 \notin B
      BY <3>1, <3>2, Zenon
    <3> QED BY <3>3
  <2>3. m - 1 \in 0 .. n /\ m - 1 < m
    BY <2>2
  <2>4. m - 1 \notin B
    <3>1. m \in Nat
      BY <2>1
    <3> HIDE DEF B
    <3> QED BY <2>1, <2>3, <3>1
  <2>5. PICK g \in F : Solves(g, m - 1)
    BY <2>3, <2>4, Zenon
  <2>6. PICK j \in 1 .. n : j = n - m + 1
    BY <2>2
  <2>7. Rest(g, n, piece, next, stop, j) \in Seq(U)
    <3>1. next[j] \in 1 .. n + 1
      OBVIOUS
    <3>2. g[next[j]] \in Seq(U) /\ piece[j] \in Seq(U)
      BY <3>1
    <3> QED BY <3>2, ConcatProperties DEF Rest
  <2> DEFINE h == [g EXCEPT ![j] = Rest(g, n, piece, next, stop, j)]
  <2>8. h \in F
    BY <2>7
  <2>9. \A i \in 1 .. n + 1 : i # j => h[i] = g[i]
    OBVIOUS
  <2>10. h[j] = Rest(g, n, piece, next, stop, j)
    OBVIOUS
  <2> HIDE DEF h
  <2>11. ASSUME NEW i \in 1 .. n + 1, i > n - m
         PROVE  h[i] = Rest(h, n, piece, next, stop, i)
    <3>1. Rest(g, n, piece, next, stop, i) = Rest(h, n, piece, next, stop, i)
      <4>1. CASE i > n
        BY <4>1 DEF Rest
      <4>2. CASE i <= n
        <5>1. i \in 1 .. n /\ next[i] \in 1 .. n + 1 /\ next[i] # j
          BY <4>2, <2>6, <2>11
        <5>2. h[next[i]] = g[next[i]]
          BY <5>1, <2>9
        <5> QED BY <5>2 DEF Rest
      <4> QED BY <4>1, <4>2
    <3>2. CASE i = j
      BY <3>1, <3>2, <2>10
    <3>3. CASE i # j
      <4>1. i > n - (m - 1)
        BY <3>3, <2>6, <2>11
      <4> QED BY <3>1, <3>3, <4>1, <2>5, <2>9
    <3> QED BY <3>2, <3>3
  <2>12. Solves(h, m)
    BY <2>11
  <2> QED BY <2>1, <2>8, <2>12, Zenon
<1>2. n \notin B /\ n \in 0 .. n
  <2> HIDE DEF B
  <2> QED BY <1>1
<1>3. PICK g \in F : Solves(g, n)
  BY <1>2, Zenon
<1>4. \A i \in 1 .. n + 1 : i > n - n
  OBVIOUS
<1>5. Rests(g, n, piece, next, stop)
  BY <1>3, <1>4 DEF Rests
<1> QED BY <1>5

\* Every such function has texts as values.
LEMMA RestType ==
    ASSUME NEW U, NEW n \in Nat, NEW piece \in [1 .. n -> Seq(U)], NEW stop,
           NEW next, Onward(n, next), NEW g, Rests(g, n, piece, next, stop)
    PROVE  \A i \in 1 .. n + 1 : g[i] \in Seq(U)
<1> USE DEF Onward, Rests
<1> DEFINE B == {i \in 1 .. n + 1 : g[i] \notin Seq(U)}
<1> SUFFICES ASSUME B # {} PROVE FALSE
  OBVIOUS
<1>1. PICK i \in B : \A j \in B : j <= i
  <2>1. B \in SUBSET (1 .. n + 1) /\ n + 1 \in Nat
    OBVIOUS
  <2> HIDE DEF B
  <2> QED BY <2>1, Greatest
<1>2. ~ (i > n \/ i \in stop)
  <2>1. g[i] = Rest(g, n, piece, next, stop, i) /\ g[i] \notin Seq(U)
    BY <1>1
  <2>2. <<>> \in Seq(U)
    OBVIOUS
  <2> QED BY <2>1, <2>2, Zenon DEF Rest
<1>3. i \in 1 .. n /\ next[i] \in 1 .. n + 1 /\ ~ (next[i] <= i)
  BY <1>2
<1>4. g[next[i]] \in Seq(U) /\ piece[i] \in Seq(U)
  BY <1>1, <1>3
<1>5. g[i] = piece[i] \o g[next[i]]
  BY <1>1, <1>2 DEF Rest
<1> QED BY <1>1, <1>4, <1>5, ConcatProperties

\* What stands in front of a place, in the same way.
Fronts(g, n, piece) ==
    \A i \in 0 .. n : g[i] = IF i = 0 THEN <<>> ELSE g[i - 1] \o piece[i]

\* There is such a function, and its values are texts.
LEMMA FrontExists ==
    ASSUME NEW U, NEW n \in Nat, NEW piece \in [1 .. n -> Seq(U)]
    PROVE  \E g : g \in [0 .. n -> Seq(U)] /\ Fronts(g, n, piece)
<1> DEFINE F == [0 .. n -> Seq(U)]
           V(g, i) == IF i = 0 THEN <<>> ELSE g[i - 1] \o piece[i]
           Solves(g, m) == \A i \in 0 .. n : i <= m => g[i] = V(g, i)
           B == {m \in 0 .. n : ~ \E g \in F : Solves(g, m)}
<1>1. B = {}
  <2> SUFFICES ASSUME B # {} PROVE FALSE
    OBVIOUS
  <2>1. PICK m \in B : \A k \in B : m <= k
    <3>1. B \in SUBSET Nat
      OBVIOUS
    <3> HIDE DEF B
    <3> QED BY <3>1, Least
  <2>2. m # 0
    <3>1. [i \in 0 .. n |-> <<>>] \in F
      OBVIOUS
    <3>2. Solves([i \in 0 .. n |-> <<>>], 0)
      <4>1. \A i \in 0 .. n : i <= 0 => i = 0
        OBVIOUS
      <4>2. 0 \in 0 .. n
        OBVIOUS
      <4> QED BY <4>1, <4>2
    <3>3. 0 \notin B
      BY <3>1, <3>2, Zenon
    <3> QED BY <3>3
  <2>3. m - 1 \in 0 .. n /\ m - 1 < m /\ m \in 1 .. n
    BY <2>2
  <2>4. m - 1 \notin B
    <3>1. m \in Nat
      BY <2>1
    <3> HIDE DEF B
    <3> QED BY <2>1, <2>3, <3>1
  <2>5. PICK g \in F : Solves(g, m - 1)
    BY <2>3, <2>4, Zenon
  <2>6. V(g, m) \in Seq(U)
    <3>1. g[m - 1] \in Seq(U) /\ piece[m] \in Seq(U)
      BY <2>3
    <3> QED BY <2>2, <3>1, ConcatProperties
  <2> DEFINE h == [g EXCEPT ![m] = V(g, m)]
  <2>7. h \in F
    BY <2>6
  <2>8. \A i \in 0 .. n : i # m => h[i] = g[i]
    OBVIOUS
  <2>9. h[m] = V(g, m)
    BY <2>3
  <2> HIDE DEF h
  <2>10. ASSUME NEW i \in 0 .. n, i <= m
         PROVE  h[i] = V(h, i)
    <3>1. V(g, i) = V(h, i)
      <4>1. CASE i = 0
        BY <4>1
      <4>2. CASE i # 0
        <5>1. i - 1 \in 0 .. n /\ i - 1 # m
          BY <4>2, <2>10
        <5>2. h[i - 1] = g[i - 1]
          BY <5>1, <2>8
        <5> QED BY <5>2
      <4> QED BY <4>1, <4>2
    <3>2. CASE i = m
      BY <3>1, <3>2, <2>9
    <3>3. CASE i # m
      <4>1. i <= m - 1
        BY <3>3, <2>10
      <4> QED BY <3>1, <3>3, <4>1, <2>5, <2>8
    <3> QED BY <3>2, <3>3
  <2>11. Solves(h, m)
    BY <2>10
  <2> QED BY <2>1, <2>7, <2>11, Zenon
<1>2. n \notin B /\ n \in 0 .. n
  <2> HIDE DEF B
  <2> QED BY <1>1
<1>3. PICK g \in F : Solves(g, n)
  BY <1>2, Zenon
<1>4. \A i \in 0 .. n : i <= n
  OBVIOUS
<1>5. Fronts(g, n, piece)
  BY <1>3, <1>4 DEF Fronts
<1> QED BY <1>5

Cat(a, b) == a \o b

\* What is put together does not depend on the order.
LEMMA Assoc ==
    ASSUME NEW U
    PROVE  \A a, b, c \in Seq(U) : Cat(Cat(a, b), c) = Cat(a, Cat(b, c))
BY ConcatAssociative DEF Cat

\* The pieces in front of each place and those from each place on.
Parts(U, n, piece, front, back) ==
    /\ n \in Nat /\ piece \in [1 .. n -> Seq(U)]
    /\ front \in [0 .. n -> Seq(U)] /\ Fronts(front, n, piece)
    /\ back \in [0 .. n -> Seq(U)] /\ back[n] = <<>>
    /\ \A i \in 1 .. n : back[i - 1] = piece[i] \o back[i]

\* What stands in front of the last place is what is left from the first one.
LEMMA FrontIsRest ==
    ASSUME NEW U, NEW n, NEW piece, NEW front, NEW back, Parts(U, n, piece, front, back)
    PROVE  front[n] = back[0]
<1>p. /\ n \in Nat /\ piece \in [1 .. n -> Seq(U)]
      /\ front \in [0 .. n -> Seq(U)] /\ Fronts(front, n, piece)
      /\ back \in [0 .. n -> Seq(U)]
  BY DEF Parts
<1>0. /\ front[0] = <<>> /\ back[n] = <<>>
      /\ \A i \in 1 .. n : front[i] = front[i - 1] \o piece[i] /\ back[i - 1] = piece[i] \o back[i]
  <2>1. back[n] = <<>> /\ \A i \in 1 .. n : back[i - 1] = piece[i] \o back[i]
    BY DEF Parts
  <2>2. 0 \in 0 .. n /\ \A i \in 1 .. n : i \in 0 .. n /\ i # 0
    BY <1>p
  <2>3. \A i \in 0 .. n : front[i] = IF i = 0 THEN <<>> ELSE front[i - 1] \o piece[i]
    BY <1>p, Zenon DEF Fronts
  <2>4. front[0] = <<>> /\ \A i \in 1 .. n : front[i] = front[i - 1] \o piece[i]
    BY <2>2, <2>3, Zenon
  <2> QED BY <2>1, <2>4
<1> USE <1>p
<1> DEFINE B == {i \in 0 .. n : front[i] \o back[i] # back[0]}
<1>1. B = {}
  <2> SUFFICES ASSUME B # {} PROVE FALSE
    OBVIOUS
  <2>1. PICK i \in B : \A j \in B : i <= j
    <3>1. B \in SUBSET Nat
      OBVIOUS
    <3> HIDE DEF B
    <3> QED BY <3>1, Least
  <2>2. i # 0
    <3>1. back[0] \in Seq(U)
      OBVIOUS
    <3> QED BY <1>0, <2>1, <3>1, ConcatEmptySeq
  <2>3. i \in 1 .. n /\ i - 1 \in 0 .. n /\ ~ (i <= i - 1)
    BY <2>2
  <2>4. front[i - 1] \o back[i - 1] = back[0]
    BY <2>1, <2>3
  <2>5. PICK f \in Seq(U), p \in Seq(U), b \in Seq(U) : f = front[i - 1] /\ p = piece[i] /\ b = back[i]
    BY <2>3
  <2>6. front[i] = f \o p /\ back[i - 1] = p \o b
    BY <1>0, <2>3, <2>5
  <2>7. front[i] \o back[i] = back[0]
    <3>1. Cat(Cat(f, p), b) = Cat(f, Cat(p, b))
      BY Assoc
    <3>2. f \o (p \o b) = back[0]
      BY ONLY <2>4, <2>5, <2>6
    <3>3. (f \o p) \o b = f \o (p \o b)
      BY <3>1 DEF Cat
    <3> QED BY ONLY <2>5, <2>6, <3>2, <3>3
  <2> QED BY <2>1, <2>7
<1>2. front[n] \o back[n] = back[0]
  <2>1. n \in 0 .. n
    OBVIOUS
  <2> QED BY <1>1, <2>1
<1>3. front[n] \in Seq(U)
  OBVIOUS
<1> QED BY <1>0, <1>2, <1>3, ConcatEmptySeq

\* A text's encoding is put together from those of its units.
Pieces(s) == [i \in 1 .. Len(s) |-> Encoded(s[i])]

\* The pieces of a text are texts of bytes.
LEMMA PieceFacts ==
    ASSUME NEW s \in Seq(Unit)
    PROVE  /\ Len(s) \in Nat /\ Pieces(s) \in [1 .. Len(s) -> Seq(Byte)]
           /\ \A i \in 1 .. Len(s) : Pieces(s)[i] = Encoded(s[i]) /\ s[i] \in Unit
<1>1. \A i \in 1 .. Len(s) : s[i] \in Unit
  OBVIOUS
<1> QED BY <1>1, BytesAreEncoded DEF Pieces

\* EncodedText is the last of the fronts of the units' encodings.
LEMMA EncodedFronts ==
    ASSUME NEW s \in Seq(Unit)
    PROVE  \E g : /\ g \in [0 .. Len(s) -> Seq(Byte)] /\ Fronts(g, Len(s), Pieces(s))
                  /\ EncodedText(s) = g[Len(s)]
<1> DEFINE n == Len(s)
           Good(h) == h = [i \in 0 .. n |-> IF i = 0 THEN <<>> ELSE h[i - 1] \o Encoded(s[i])]
           up == CHOOSE h : Good(h)
<1>1. n \in Nat /\ Pieces(s) \in [1 .. n -> Seq(Byte)]
  BY PieceFacts
<1>2. EncodedText(s) = up[n]
  BY Zenon DEF EncodedText
<1>3. \A i \in 1 .. n : Pieces(s)[i] = Encoded(s[i])
  BY PieceFacts
<1> HIDE DEF n
<1>4. PICK g : g \in [0 .. n -> Seq(Byte)] /\ Fronts(g, n, Pieces(s))
  BY <1>1, FrontExists, Zenon
<1>5. ASSUME NEW h
      PROVE  Fronts(h, n, Pieces(s))
             <=> \A i \in 0 .. n : h[i] = IF i = 0 THEN <<>> ELSE h[i - 1] \o Encoded(s[i])
  <2>1. \A i \in 0 .. n : i # 0 => i \in 1 .. n
    BY <1>1
  <2>2. \A i \in 0 .. n : (IF i = 0 THEN <<>> ELSE h[i - 1] \o Pieces(s)[i])
                           = IF i = 0 THEN <<>> ELSE h[i - 1] \o Encoded(s[i])
    BY <2>1, <1>3
  <2> QED BY <2>2, Zenon DEF Fronts
<1>6. Good(g)
  <2>1. g = [i \in 0 .. n |-> g[i]]
    BY <1>4
  <2> QED BY <1>4, <1>5, <2>1, Zenon
<1>7. Good(up)
  <2> HIDE DEF Good
  <2> QED BY <1>6, Zenon
<1> HIDE DEF up
<1>8. up[n] = g[n]
  <2> DEFINE B == {i \in 0 .. n : up[i] # g[i]}
  <2>1. \A i \in 0 .. n : up[i] = IF i = 0 THEN <<>> ELSE up[i - 1] \o Encoded(s[i])
    BY <1>7, Zenon
  <2>2. \A i \in 0 .. n : g[i] = IF i = 0 THEN <<>> ELSE g[i - 1] \o Encoded(s[i])
    BY <1>4, <1>5, Zenon
  <2>3. B = {}
    <3> SUFFICES ASSUME B # {} PROVE FALSE
      OBVIOUS
    <3>1. PICK i \in B : \A j \in B : i <= j
      <4>1. B \in SUBSET Nat
        BY <1>1
      <4> HIDE DEF B
      <4> QED BY <4>1, Least
    <3>2. i # 0 /\ i \in 0 .. n
      BY <3>1, <1>1, <2>1, <2>2
    <3>3. i - 1 \in 0 .. n /\ ~ (i <= i - 1)
      BY <3>2, <1>1
    <3>4. up[i - 1] = g[i - 1]
      BY <3>1, <3>3
    <3>5. up[i] = g[i]
      BY <3>2, <3>4, <2>1, <2>2
    <3> QED BY <3>1, <3>5
  <2>4. n \in 0 .. n
    BY <1>1
  <2> QED BY <2>3, <2>4
<1> QED BY <1>2, <1>4, <1>8 DEF n

\* A text without halves of pairs is converted to its encoding.
LEMMA ToBytes ==
    ASSUME NEW s \in Seq(Unit), Basic(s)
    PROVE  UTF16_to_UTF8(s) = EncodedText(s)
<1> DEFINE n == Len(s)
           piece == Pieces(s)
           next == [i \in 1 .. n |-> i + 1]
           V(h, i) == IF i > n THEN <<>>
                      ELSE IF i < n /\ IsHigh(s[i]) /\ IsLow(s[i + 1])
                           THEN PairBytes(s[i], s[i + 1]) \o h[i + 2]
                           ELSE Bytes(s[i]) \o h[i + 1]
           Good(h) == h = [i \in 1 .. n + 1 |-> V(h, i)]
           at == CHOOSE h : Good(h)
<1>1. n \in Nat /\ \A i \in 1 .. n : s[i] \in Unit /\ ~ IsHigh(s[i])
  BY DEF Basic
<1>2. piece \in [1 .. n -> Seq(Byte)] /\ \A i \in 1 .. n : piece[i] = Bytes(s[i])
  <2>1. \A i \in 1 .. n : Bytes(s[i]) = Encoded(s[i])
    BY <1>1, BytesAreEncoded
  <2> QED BY <2>1, PieceFacts
<1>3. Onward(n, next) /\ \A i \in 1 .. n : next[i] = i + 1
  BY <1>1 DEF Onward
<1>4. UTF16_to_UTF8(s) = at[1]
  BY Zenon DEF UTF16_to_UTF8
<1>5. PICK front : /\ front \in [0 .. n -> Seq(Byte)] /\ Fronts(front, n, piece)
                   /\ EncodedText(s) = front[n]
  BY EncodedFronts
<1> HIDE DEF n, piece, next
<1>6. PICK g : g \in [1 .. n + 1 -> Seq(Byte)] /\ Rests(g, n, piece, next, {})
  BY <1>1, <1>2, <1>3, RestExists, Zenon
<1>7. ASSUME NEW h, NEW i \in 1 .. n + 1
      PROVE  Rest(h, n, piece, next, {}, i) = V(h, i)
  <2>1. CASE i > n
    BY <2>1 DEF Rest
  <2>2. CASE ~ (i > n)
    <3>1. i \in 1 .. n
      BY <1>1, <2>2
    <3>2. Rest(h, n, piece, next, {}, i) = Bytes(s[i]) \o h[i + 1]
      BY <1>2, <1>3, <2>2, <3>1 DEF Rest
    <3>3. ~ IsHigh(s[i])
      BY <1>1, <3>1
    <3> QED BY <2>2, <3>2, <3>3, Zenon
  <2> QED BY <2>1, <2>2
<1> HIDE DEF V
<1>8. Good(g)
  <2>1. g = [i \in 1 .. n + 1 |-> g[i]]
    BY <1>6
  <2>2. \A i \in 1 .. n + 1 : g[i] = V(g, i)
    BY <1>6, <1>7, Zenon DEF Rests
  <2> QED BY <2>1, <2>2, Zenon
<1>9. Good(at)
  <2> HIDE DEF Good
  <2> QED BY <1>8, Zenon
<1> HIDE DEF at
<1>10. Rests(at, n, piece, next, {})
  <2>1. \A i \in 1 .. n + 1 : at[i] = V(at, i)
    BY <1>9, Zenon
  <2> QED BY <2>1, <1>7, Zenon DEF Rests
<1>11. \A i \in 1 .. n + 1 : at[i] \in Seq(Byte)
  BY <1>1, <1>2, <1>3, <1>10, RestType, Zenon
<1> DEFINE back == [i \in 0 .. n |-> at[i + 1]]
<1>12. back \in [0 .. n -> Seq(Byte)] /\ back[0] = at[1]
  <2>1. \A i \in 0 .. n : i + 1 \in 1 .. n + 1
    BY <1>1
  <2>2. 0 \in 0 .. n
    BY <1>1
  <2> QED BY <1>11, <2>1, <2>2
<1>13. Parts(Byte, n, piece, front, back)
  <2>1. back[n] = <<>>
    <3>1. n + 1 > n /\ n + 1 \in 1 .. n + 1 /\ n \in 0 .. n
      BY <1>1
    <3>2. at[n + 1] = <<>>
      BY <1>10, <3>1 DEF Rest, Rests
    <3> QED BY <3>1, <3>2
  <2>2. ASSUME NEW i \in 1 .. n PROVE back[i - 1] = piece[i] \o back[i]
    <3>1. i \in 0 .. n /\ i - 1 \in 0 .. n /\ i \in 1 .. n + 1 /\ ~ (i > n) /\ i - 1 + 1 = i
      BY <1>1
    <3>2. at[i] = piece[i] \o at[i + 1]
      BY <1>3, <1>10, <3>1 DEF Rest, Rests
    <3> QED BY <3>1, <3>2
  <2> QED BY <1>1, <1>2, <1>5, <1>12, <2>1, <2>2 DEF Parts
<1> HIDE DEF back
<1>14. front[n] = back[0]
  BY <1>13, FrontIsRest
<1> QED BY <1>4, <1>5, <1>12, <1>14

\* A byte of a text is a number, and not the 0 that ends it.
LEMMA ByteNat == \A b \in Byte : b \in Nat /\ b <= 255 /\ b > 0
BY DEF Byte

\* The first byte of a sequence says how many follow, three at most.
LEMMA LeadIs ==
    ASSUME NEW b \in Byte
    PROVE  /\ Lead(b).more \in -1 .. 3 /\ Lead(b).bits \in Nat
           /\ b < 128 => Lead(b) = [more |-> 0, bits |-> b]
           /\ b \in 192 .. 223 => Lead(b) = [more |-> 1, bits |-> b % 32]
           /\ b \in 224 .. 239 => Lead(b) = [more |-> 2, bits |-> b % 16]
<1>1. 2 ^ 2 = 4 /\ 2 ^ 4 = 16 /\ 2 ^ 5 = 32 /\ b \in Nat /\ b <= 255
  BY DEF Byte
<1>2. CASE b < 128
  BY <1>1, <1>2 DEF Lead
<1>3. CASE b \in 240 .. 247
  BY <1>1, <1>3 DEF Lead, Low
<1>4. CASE b \in 224 .. 239 \cup 248 .. 255
  BY <1>1, <1>4 DEF Lead, Low
<1>5. CASE b \in 192 .. 223
  BY <1>1, <1>5 DEF Lead, Low
<1>6. CASE b \in 128 .. 191
  BY <1>1, <1>6 DEF Lead
<1> QED BY <1>1, <1>2, <1>3, <1>4, <1>5, <1>6

\* Tails counts the bytes that follow.
LEMMA TailsIs ==
    ASSUME NEW s \in Seq(Byte), NEW i \in 1 .. Len(s), NEW more \in 0 .. 3
    PROVE  LET n == Tails(s, i, more)
           IN  /\ n \in 0 .. more /\ i + n <= Len(s)
               /\ \A k \in 1 .. n : IsTail(s[i + k])
               /\ n = more \/ i + n = Len(s) \/ ~ IsTail(s[i + n + 1])
<1> DEFINE P(n) == /\ i + n <= Len(s) /\ \A k \in 1 .. n : IsTail(s[i + k])
                   /\ n = more \/ i + n = Len(s) \/ ~ IsTail(s[i + n + 1])
           L == {n \in 0 .. more : n = more \/ i + n = Len(s) \/ ~ IsTail(s[i + n + 1])}
<1>1. Len(s) \in Nat /\ i \in Nat /\ i <= Len(s)
  OBVIOUS
<1>2. L # {} /\ L \in SUBSET Nat
  <2>1. more \in L
    OBVIOUS
  <2>2. \A n \in L : n \in Nat
    OBVIOUS
  <2> QED BY <2>1, <2>2
<1>3. PICK n \in L : \A m \in L : n <= m
  <2> HIDE DEF L
  <2> QED BY <1>2, Least
<1>4. n \in 0 .. more /\ n \in Nat
  OBVIOUS
<1>5. i + n <= Len(s)
  <2> SUFFICES ASSUME ~ (i + n <= Len(s)) PROVE FALSE
    OBVIOUS
  <2>1. PICK r \in 0 .. more : i + r = Len(s) /\ ~ (n <= r)
    <3>1. Len(s) - i \in 0 .. more /\ i + (Len(s) - i) = Len(s) /\ ~ (n <= Len(s) - i)
      BY <1>1, <1>4
    <3> QED BY <3>1
  <2>2. r \in L
    BY <2>1
  <2> QED BY <1>3, <2>1, <2>2
<1>6. \A k \in 1 .. n : IsTail(s[i + k])
  <2> SUFFICES ASSUME NEW k \in 1 .. n PROVE IsTail(s[i + k])
    OBVIOUS
  <2>1. PICK j \in 0 .. more : j = k - 1 /\ ~ (n <= j) /\ i + j + 1 = i + k
    <3>1. k - 1 \in 0 .. more /\ ~ (n <= k - 1) /\ i + (k - 1) + 1 = i + k
      BY <1>1, <1>4
    <3> QED BY <3>1
  <2>2. j \notin L
    BY <1>3, <2>1
  <2>3. IsTail(s[i + j + 1])
    BY <2>2
  <2> QED BY <2>1, <2>3
<1>7. P(n)
  BY <1>3, <1>5, <1>6
<1>8. Tails(s, i, more) = CHOOSE m \in 0 .. more : P(m)
  BY Zenon DEF Tails
<1> HIDE DEF P
<1>9. Tails(s, i, more) \in 0 .. more /\ P(Tails(s, i, more))
  BY <1>4, <1>7, <1>8
<1> QED BY <1>9 DEF P

\* Code puts the bits together.
LEMMA CodeIs ==
    ASSUME NEW s \in Seq(Byte), NEW i \in 1 .. Len(s), NEW n \in 0 .. 3, i + n <= Len(s)
    PROVE  /\ Code(s, i, n) \in Nat
           /\ n = 0 => Code(s, i, n) = Lead(s[i]).bits
           /\ n = 1 => Code(s, i, n) = 64 * Lead(s[i]).bits + (s[i + 1] % 64)
           /\ n = 2 => Code(s, i, n) = 64 * (64 * Lead(s[i]).bits + (s[i + 1] % 64)) + (s[i + 2] % 64)
<1> DEFINE b == Lead(s[i]).bits
           Good(h) == h = [k \in 0 .. n |-> IF k = 0 THEN Lead(s[i]).bits
                                           ELSE 64 * h[k - 1] + Low(s[i + k], 6)]
           c(k) == Low(s[i + k], 6)
           v1 == 64 * b + c(1)
           v2 == 64 * v1 + c(2)
           v3 == 64 * v2 + c(3)
           g == [k \in 0 .. n |-> IF k = 0 THEN b ELSE IF k = 1 THEN v1 ELSE IF k = 2 THEN v2 ELSE v3]
           up == CHOOSE h : Good(h)
<1>1. b \in Nat
  <2>1. s[i] \in Byte
    OBVIOUS
  <2> QED BY <2>1, LeadIs
<1>2. \A k \in 1 .. n : c(k) \in Nat /\ c(k) = s[i + k] % 64
  <2> SUFFICES ASSUME NEW k \in 1 .. n PROVE c(k) \in Nat /\ c(k) = s[i + k] % 64
    OBVIOUS
  <2>1. i + k \in 1 .. Len(s)
    OBVIOUS
  <2>2. s[i + k] \in Byte
    BY <2>1
  <2>3. PICK x \in Nat : x = s[i + k]
    BY <2>2, ByteNat
  <2>4. Low(x, 6) \in Nat /\ Low(x, 6) = x % 64
    <3>1. 2 ^ 6 = 64
      OBVIOUS
    <3> QED BY <3>1 DEF Low
  <2> QED BY <2>3, <2>4
<1>3. Code(s, i, n) = up[n]
  BY Zenon DEF Code
<1>4. Good(g)
  <2>1. ASSUME NEW k \in 0 .. n
        PROVE  g[k] = IF k = 0 THEN Lead(s[i]).bits ELSE 64 * g[k - 1] + Low(s[i + k], 6)
    <3>1. k = 0 \/ k = 1 \/ k = 2 \/ k = 3
      OBVIOUS
    <3>2. CASE k = 0
      BY <3>2
    <3>3. CASE k = 1
      BY <3>3
    <3>4. CASE k = 2
      BY <3>4
    <3>5. CASE k = 3
      BY <3>5
    <3> QED BY <3>1, <3>2, <3>3, <3>4, <3>5
  <2>2. g = [k \in 0 .. n |-> g[k]]
    OBVIOUS
  <2> HIDE DEF g
  <2> QED BY <2>1, <2>2, Zenon
<1>5. Good(up)
  <2> HIDE DEF Good
  <2> QED BY <1>4, Zenon
<1> HIDE DEF up, g
<1>6. \A k \in 0 .. n : up[k] = IF k = 0 THEN b ELSE 64 * up[k - 1] + c(k)
  BY <1>5, Zenon
<1> HIDE DEF b, c
<1>7. up[0] = b
  BY <1>6
<1>8. n > 0 => up[1] = 64 * b + c(1)
  BY <1>6, <1>7
<1>9. n > 1 => up[2] = 64 * (64 * b + c(1)) + c(2)
  <2> SUFFICES ASSUME n > 1 PROVE up[2] = 64 * (64 * b + c(1)) + c(2)
    OBVIOUS
  <2>1. 2 \in 0 .. n /\ 2 - 1 = 1 /\ 2 # 0
    OBVIOUS
  <2> QED BY <1>6, <1>8, <2>1
<1>10. n > 2 => up[3] = 64 * (64 * (64 * b + c(1)) + c(2)) + c(3)
  <2> SUFFICES ASSUME n > 2 PROVE up[3] = 64 * (64 * (64 * b + c(1)) + c(2)) + c(3)
    OBVIOUS
  <2>1. 3 \in 0 .. n /\ 3 - 1 = 2 /\ 3 # 0
    OBVIOUS
  <2> QED BY <1>6, <1>9, <2>1
<1>11. n = 0 \/ n = 1 \/ n = 2 \/ n = 3
  OBVIOUS
<1>12. CASE n = 0
  BY <1>1, <1>3, <1>7, <1>12 DEF b
<1>13. CASE n = 1
  <2>1. c(1) \in Nat /\ c(1) = s[i + 1] % 64
    BY <1>2, <1>13
  <2> QED BY <1>1, <1>3, <1>8, <1>13, <2>1 DEF b
<1>14. CASE n = 2
  <2>1. c(1) \in Nat /\ c(1) = s[i + 1] % 64 /\ c(2) \in Nat /\ c(2) = s[i + 2] % 64
    BY <1>2, <1>14
  <2>2. PICK x \in Nat, y \in Nat, z \in Nat : x = b /\ y = c(1) /\ z = c(2)
    BY <1>1, <2>1
  <2>3. Code(s, i, n) = 64 * (64 * x + y) + z
    BY <1>3, <1>9, <1>14, <2>2
  <2>4. 64 * (64 * x + y) + z \in Nat
    OBVIOUS
  <2>5. Code(s, i, n) = 64 * (64 * b + (s[i + 1] % 64)) + (s[i + 2] % 64)
    BY <2>1, <2>2, <2>3
  <2> QED BY <1>14, <2>3, <2>4, <2>5 DEF b
<1>15. CASE n = 3
  <2>1. c(1) \in Nat /\ c(2) \in Nat /\ c(3) \in Nat
    BY <1>2, <1>15
  <2> QED BY <1>1, <1>3, <1>10, <1>15, <2>1
<1> QED BY <1>11, <1>12, <1>13, <1>14, <1>15

\* The bytes after s[i] that belong to it, and what it stands for.
More(s, i) == Lead(s[i]).more
Count(s, i) == Tails(s, i, More(s, i))
Ends(s, i) ==
    /\ More(s, i) >= 0
    /\ \/ Count(s, i) < More(s, i) /\ i + Count(s, i) = Len(s)
       \/ Code(s, i, Count(s, i)) = 0
Piece(s) ==
    [i \in 1 .. Len(s) |-> IF More(s, i) < 0 \/ Ends(s, i) THEN <<>>
                           ELSE Units(Code(s, i, Count(s, i)))]
After(s) == [i \in 1 .. Len(s) |-> IF More(s, i) < 0 THEN i + 1 ELSE i + Count(s, i) + 1]
Stop(s) == {i \in 1 .. Len(s) : Ends(s, i)}

\* The same of a unit.
LEMMA UnitIs == \A c \in Int : c \in Unit <=> 0 < c /\ c < 65536
BY DEF Unit

\* A number other than 0 gives units other than 0.
LEMMA UnitsType ==
    ASSUME NEW c \in Nat, c # 0
    PROVE  Units(c) \in Seq(Unit)
<1>1. CASE c < 65536
  <2>1. c \in Unit
    BY <1>1, UnitIs
  <2> QED BY <1>1, <2>1 DEF Units
<1>2. CASE ~ (c < 65536)
  <2> DEFINE a == 55296 + Low(Shift(c, 10), 10)
             b == 56320 + Low(c, 10)
  <2>1. 2 ^ 10 = 1024
    OBVIOUS
  <2>2. a \in Unit
    <3>1. a \in Int /\ 0 < a /\ a < 65536
      BY <2>1 DEF Low, Shift
    <3> QED BY <3>1, UnitIs
  <2>3. b \in Unit
    <3>1. b \in Int /\ 0 < b /\ b < 65536
      BY <2>1 DEF Low
    <3> QED BY <3>1, UnitIs
  <2>4. Units(c) = <<a, b>>
    BY <1>2 DEF Units
  <2> HIDE DEF a, b
  <2> QED BY <2>2, <2>3, <2>4, Tuples
<1> QED BY <1>1, <1>2

\* The bytes counted are in the text, and what they give is a number.
LEMMA CountIs ==
    ASSUME NEW s \in Seq(Byte), NEW i \in 1 .. Len(s), More(s, i) >= 0
    PROVE  /\ Count(s, i) \in Nat /\ i + Count(s, i) <= Len(s)
           /\ Code(s, i, Count(s, i)) \in Nat
<1>1. s[i] \in Byte
  OBVIOUS
<1>2. PICK m \in 0 .. 3 : m = More(s, i)
  BY <1>1, LeadIs DEF More
<1>3. PICK n : n = Tails(s, i, m)
  OBVIOUS
<1>4. n \in 0 .. m /\ i + n <= Len(s)
  BY <1>3, TailsIs
<1>5. n \in 0 .. 3
  BY <1>4
<1>6. Code(s, i, n) \in Nat
  BY <1>4, <1>5, CodeIs
<1> QED BY <1>2, <1>3, <1>5, <1>4, <1>6 DEF Count

\* UTF8_to_UTF16 goes from piece to piece.
LEMMA DecodedRests ==
    ASSUME NEW s \in Seq(Byte)
    PROVE  \E g : /\ UTF8_to_UTF16(s) = g[1]
                  /\ g \in [1 .. Len(s) + 1 -> Seq(Unit)]
                  /\ Rests(g, Len(s), Piece(s), After(s), Stop(s))
<1> DEFINE V(h, i) ==
             IF i > Len(s) THEN <<>>
             ELSE CASE Lead(s[i]).more < 0 -> h[i + 1]
                    [] Lead(s[i]).more >= 0
                       /\ ((Tails(s, i, Lead(s[i]).more) < Lead(s[i]).more
                            /\ i + Tails(s, i, Lead(s[i]).more) = Len(s))
                           \/ Code(s, i, Tails(s, i, Lead(s[i]).more)) = 0) -> <<>>
                    [] OTHER -> Units(Code(s, i, Tails(s, i, Lead(s[i]).more)))
                                \o h[i + Tails(s, i, Lead(s[i]).more) + 1]
           Good(h) == h = [i \in 1 .. Len(s) + 1 |-> V(h, i)]
           at == CHOOSE h : Good(h)
<1>1. Len(s) \in Nat /\ \A i \in 1 .. Len(s) : More(s, i) \in Int
  <2>1. \A i \in 1 .. Len(s) : s[i] \in Byte
    OBVIOUS
  <2>2. ASSUME NEW b \in Byte PROVE Lead(b).more \in Int
    <3>1. Lead(b).more \in -1 .. 3
      BY LeadIs
    <3> QED BY <3>1
  <2> QED BY <2>1, <2>2 DEF More
<1>2. Piece(s) \in [1 .. Len(s) -> Seq(Unit)]
  <2> SUFFICES ASSUME NEW i \in 1 .. Len(s), ~ (More(s, i) < 0), ~ Ends(s, i)
               PROVE  Units(Code(s, i, Count(s, i))) \in Seq(Unit)
    BY DEF Piece
  <2>1. More(s, i) >= 0
    BY <1>1
  <2>2. Code(s, i, Count(s, i)) \in Nat
    BY <2>1, CountIs
  <2>3. Code(s, i, Count(s, i)) # 0
    BY <2>1 DEF Ends
  <2> QED BY <2>2, <2>3, UnitsType
<1>3. Onward(Len(s), After(s))
  <2> SUFFICES ASSUME NEW i \in 1 .. Len(s)
               PROVE  After(s)[i] \in Nat /\ i < After(s)[i] /\ After(s)[i] <= Len(s) + 1
    BY DEF Onward, After
  <2>1. CASE More(s, i) < 0
    BY <2>1, <1>1 DEF After
  <2>2. CASE ~ (More(s, i) < 0)
    <3>1. Count(s, i) \in Nat /\ i + Count(s, i) <= Len(s)
      BY <1>1, <2>2, CountIs
    <3> QED BY <2>2, <3>1 DEF After
  <2> QED BY <2>1, <2>2
<1>4. UTF8_to_UTF16(s) = at[1]
  BY Zenon DEF UTF8_to_UTF16
<1>5. PICK g : g \in [1 .. Len(s) + 1 -> Seq(Unit)] /\ Rests(g, Len(s), Piece(s), After(s), Stop(s))
  BY <1>1, <1>2, <1>3, RestExists, Zenon
<1>6. ASSUME NEW i \in 1 .. Len(s)
      PROVE  \A h : V(h, i) = IF More(s, i) < 0 THEN h[i + 1]
                              ELSE IF Ends(s, i) THEN <<>>
                              ELSE Units(Code(s, i, Count(s, i))) \o h[i + Count(s, i) + 1]
  <2>1. More(s, i) \in Int /\ ~ (i > Len(s))
    BY <1>1
  <2>2. More(s, i) < 0 => ~ (More(s, i) >= 0)
    BY <2>1
  <2>3. More(s, i) < 0 \/ More(s, i) >= 0
    BY <2>1
  <2> QED BY <2>1, <2>2, <2>3 DEF More, Count, Ends
<1>7. \A h : \A i \in 1 .. Len(s) + 1 : i > Len(s) => V(h, i) = <<>>
  OBVIOUS
<1> HIDE DEF V
<1>8. ASSUME NEW i \in 1 .. Len(s) + 1 PROVE g[i] = V(g, i)
  <2>1. g[i] = Rest(g, Len(s), Piece(s), After(s), Stop(s), i)
    BY <1>5 DEF Rests
  <2>2. CASE i > Len(s)
    BY <1>7, <2>1, <2>2 DEF Rest
  <2>3. CASE ~ (i > Len(s))
    <3>1. i \in 1 .. Len(s) /\ i + 1 \in 1 .. Len(s) + 1
      BY <1>1, <2>3
    <3>2. CASE More(s, i) < 0
      <4>1. ~ (More(s, i) >= 0)
        BY <1>1, <3>1, <3>2
      <4>2. i \notin Stop(s)
        BY <4>1 DEF Stop, Ends
      <4>3. g[i] = <<>> \o g[i + 1]
        BY <2>1, <2>3, <3>1, <3>2, <4>2 DEF Rest, Piece, After
      <4>4. g[i + 1] \in Seq(Unit)
        BY <1>5, <3>1
      <4>5. g[i] = g[i + 1]
        BY <4>3, <4>4, ConcatEmptySeq
      <4> QED BY <1>6, <3>1, <3>2, <4>5
    <3>3. CASE ~ (More(s, i) < 0) /\ Ends(s, i)
      <4>1. i \in Stop(s)
        BY <3>1, <3>3 DEF Stop
      <4>2. g[i] = <<>>
        BY <2>1, <4>1 DEF Rest
      <4> QED BY <1>6, <3>1, <3>3, <4>2
    <3>4. CASE ~ (More(s, i) < 0) /\ ~ Ends(s, i)
      <4>1. i \notin Stop(s)
        BY <3>4 DEF Stop
      <4>2. g[i] = Units(Code(s, i, Count(s, i))) \o g[i + Count(s, i) + 1]
        BY <2>1, <2>3, <3>1, <3>4, <4>1 DEF Rest, Piece, After
      <4> QED BY <1>6, <3>1, <3>4, <4>2
    <3> QED BY <3>2, <3>3, <3>4
  <2> QED BY <2>2, <2>3
<1>9. Good(g)
  <2>1. g = [i \in 1 .. Len(s) + 1 |-> g[i]]
    BY <1>5
  <2> QED BY <1>8, <2>1, Zenon
<1>10. Good(at)
  <2> HIDE DEF Good
  <2> QED BY <1>9, Zenon
<1> HIDE DEF at
<1>11. at[1] = g[1]
  <2> DEFINE B == {i \in 1 .. Len(s) + 1 : at[i] # g[i]}
  <2>1. \A i \in 1 .. Len(s) + 1 : at[i] = V(at, i)
    BY <1>10, Zenon
  <2>2. B = {}
    <3> SUFFICES ASSUME B # {} PROVE FALSE
      OBVIOUS
    <3>1. PICK i \in B : \A j \in B : j <= i
      <4>1. B \in SUBSET (1 .. Len(s) + 1) /\ Len(s) + 1 \in Nat
        BY <1>1
      <4> HIDE DEF B
      <4> QED BY <4>1, Greatest
    <3>2. i \in 1 .. Len(s) + 1 /\ at[i] # g[i]
      OBVIOUS
    <3>3. at[i] = V(at, i) /\ g[i] = V(g, i)
      BY <2>1, <1>8, <3>2
    <3>4. i \in 1 .. Len(s)
      BY <1>1, <1>7, <3>2, <3>3
    <3>5. \A j \in 1 .. Len(s) + 1 : i < j => at[j] = g[j]
      <4> SUFFICES ASSUME NEW j \in 1 .. Len(s) + 1, i < j PROVE at[j] = g[j]
        OBVIOUS
      <4>1. ~ (j <= i)
        BY <1>1, <3>2
      <4> QED BY <3>1, <4>1
    <3>6. V(at, i) = V(g, i)
      <4>1. CASE More(s, i) < 0
        <5>1. at[i + 1] = g[i + 1]
          BY <1>1, <3>4, <3>5
        <5> QED BY <1>6, <3>4, <4>1, <5>1
      <4>2. CASE ~ (More(s, i) < 0)
        <5>1. PICK j \in 1 .. Len(s) + 1 : j = i + Count(s, i) + 1 /\ i < j
          <6>1. Count(s, i) \in Nat /\ i + Count(s, i) <= Len(s)
            BY <1>1, <3>4, <4>2, CountIs
          <6> QED BY <1>1, <3>4, <6>1
        <5>2. at[j] = g[j]
          BY <3>5, <5>1
        <5> QED BY <1>6, <3>4, <4>2, <5>1, <5>2
      <4> QED BY <4>1, <4>2
    <3> QED BY <3>2, <3>3, <3>6
  <2>3. 1 \in 1 .. Len(s) + 1
    BY <1>1
  <2> QED BY <2>2, <2>3
<1> QED BY <1>4, <1>5, <1>11

\* The encoding of a unit is read as that unit.
LEMMA OneUnit ==
    ASSUME NEW s \in Seq(Byte), NEW u \in Unit, NEW p \in Nat, p > 0,
           p + Len(Encoded(u)) <= Len(s) + 1,
           \A k \in 1 .. Len(Encoded(u)) : s[p + k - 1] = Encoded(u)[k]
    PROVE  /\ More(s, p) = Len(Encoded(u)) - 1 /\ Count(s, p) = More(s, p)
           /\ Code(s, p, Count(s, p)) = u
<1>1. Len(s) \in Nat /\ \A i \in 1 .. Len(s) : s[i] \in Byte
  OBVIOUS
<1>2. u \in Nat /\ 0 < u /\ u < 65536
  <2>1. u \in Int
    BY DEF Unit
  <2> QED BY <2>1, UnitIs
<1>3. CASE u < 128
  <2>1. Encoded(u) = <<u>>
    BY <1>3, EncodedIs
  <2>2. Len(Encoded(u)) = 1 /\ s[p] = u
    BY <2>1
  <2>3. p \in 1 .. Len(s)
    BY <1>1, <2>2
  <2>4. Lead(s[p]) = [more |-> 0, bits |-> u]
    BY <1>1, <1>3, <2>2, <2>3, LeadIs
  <2>5. More(s, p) = 0 /\ Lead(s[p]).bits = u
    BY <2>4 DEF More
  <2>6. Count(s, p) = 0
    BY <2>3, <2>5, TailsIs DEF Count
  <2>7. Code(s, p, 0) = u
    BY <1>1, <2>3, <2>5, CodeIs
  <2> QED BY <2>2, <2>5, <2>6, <2>7
<1>4. CASE ~ (u < 128) /\ u < 2048
  <2> DEFINE a == 192 + (u \div 64)
             b == 128 + (u % 64)
  <2>1. Encoded(u) = <<a, b>>
    BY <1>4, EncodedIs
  <2>2. /\ a \in 192 .. 223 /\ b \in 128 .. 191
        /\ 64 * (a % 32) + (b % 64) = u
    BY <1>2, <1>4
  <2> HIDE DEF a, b
  <2>3. Len(Encoded(u)) = 2 /\ s[p] = a /\ s[p + 1] = b
    <3>1. Len(Encoded(u)) = 2 /\ Encoded(u)[1] = a /\ Encoded(u)[2] = b
      BY <2>1
    <3>2. p + 1 - 1 = p /\ p + 2 - 1 = p + 1 /\ 1 \in 1 .. 2 /\ 2 \in 1 .. 2
      OBVIOUS
    <3> QED BY <3>1, <3>2
  <2>4. p \in 1 .. Len(s) /\ p + 1 \in 1 .. Len(s)
    BY <1>1, <2>3
  <2>5. Lead(s[p]) = [more |-> 1, bits |-> a % 32]
    BY <1>1, <2>2, <2>3, <2>4, LeadIs
  <2>6. More(s, p) = 1 /\ Lead(s[p]).bits = a % 32
    BY <2>5 DEF More
  <2>7. IsTail(s[p + 1])
    BY <2>2, <2>3 DEF IsTail
  <2>8. PICK n : n = Tails(s, p, 1)
    OBVIOUS
  <2>9. n \in 0 .. 1 /\ (n = 1 \/ p + n = Len(s) \/ ~ IsTail(s[p + n + 1]))
    BY <2>4, <2>8, TailsIs
  <2>10. n = 1
    <3>1. n # 0
      BY <1>1, <2>4, <2>7, <2>9
    <3> QED BY <2>9, <3>1
  <2>11. Code(s, p, 1) = 64 * (a % 32) + (b % 64)
    BY <1>1, <2>3, <2>4, <2>6, CodeIs
  <2> QED BY <2>2, <2>3, <2>6, <2>8, <2>10, <2>11 DEF Count
<1>5. CASE ~ (u < 2048)
  <2> DEFINE a == 224 + (u \div 4096)
             b == 128 + ((u \div 64) % 64)
             c == 128 + (u % 64)
  <2>1. Encoded(u) = <<a, b, c>>
    BY <1>2, <1>5, EncodedIs
  <2>2. a \in 224 .. 239 /\ b \in 128 .. 191 /\ c \in 128 .. 191
    BY <1>2, <1>5
  <2>3. 64 * (64 * (a % 16) + (b % 64)) + (c % 64) = u
    <3>1. a % 16 = u \div 4096
      BY <1>2, <1>5
    <3>2. b % 64 = (u \div 64) % 64
      BY <1>2
    <3>3. c % 64 = u % 64
      BY <1>2
    <3>4. 64 * (64 * (u \div 4096) + ((u \div 64) % 64)) + (u % 64) = u
      BY <1>2
    <3> QED BY <3>1, <3>2, <3>3, <3>4
  <2> HIDE DEF a, b, c
  <2>4. Len(Encoded(u)) = 3 /\ s[p] = a /\ s[p + 1] = b /\ s[p + 2] = c
    <3>1. Len(Encoded(u)) = 3 /\ Encoded(u)[1] = a /\ Encoded(u)[2] = b /\ Encoded(u)[3] = c
      BY <2>1
    <3>2. /\ p + 1 - 1 = p /\ p + 2 - 1 = p + 1 /\ p + 3 - 1 = p + 2
          /\ 1 \in 1 .. 3 /\ 2 \in 1 .. 3 /\ 3 \in 1 .. 3
      OBVIOUS
    <3> QED BY <3>1, <3>2
  <2>5. p \in 1 .. Len(s) /\ p + 1 \in 1 .. Len(s) /\ p + 2 \in 1 .. Len(s)
    BY <1>1, <2>4
  <2>6. Lead(s[p]) = [more |-> 2, bits |-> a % 16]
    BY <1>1, <2>2, <2>4, <2>5, LeadIs
  <2>7. More(s, p) = 2 /\ Lead(s[p]).bits = a % 16
    BY <2>6 DEF More
  <2>8. IsTail(s[p + 1]) /\ IsTail(s[p + 2])
    BY <2>2, <2>4 DEF IsTail
  <2>9. PICK n : n = Tails(s, p, 2)
    OBVIOUS
  <2>10. n \in 0 .. 2 /\ (n = 2 \/ p + n = Len(s) \/ ~ IsTail(s[p + n + 1]))
    BY <2>5, <2>9, TailsIs
  <2>11. n = 2
    <3>1. n # 0
      BY <1>1, <2>5, <2>8, <2>10
    <3>2. n # 1
      <4>1. p + 1 # Len(s) /\ p + 1 + 1 = p + 2
        BY <1>1, <2>5
      <4> QED BY <2>8, <2>10, <4>1
    <3> QED BY <2>10, <3>1, <3>2
  <2>12. Code(s, p, 2) = 64 * (64 * (a % 16) + (b % 64)) + (c % 64)
    <3>1. 2 \in 0 .. 3 /\ p + 2 <= Len(s)
      BY <1>1, <2>5
    <3>2. Code(s, p, 2) = 64 * (64 * Lead(s[p]).bits + (s[p + 1] % 64)) + (s[p + 2] % 64)
      BY <2>5, <3>1, CodeIs
    <3> QED BY <2>4, <2>7, <3>2, Zenon
  <2> QED BY <2>3, <2>4, <2>7, <2>9, <2>11, <2>12 DEF Count
<1> QED BY <1>3, <1>4, <1>5

\* Where the encoding of each unit stands in that of the text.
Encodes(t, up, e) ==
    up \in [0 .. Len(t) -> Seq(Byte)] /\ Fronts(up, Len(t), Pieces(t)) /\ e = up[Len(t)]

Placed(t, up, e) ==
    \A i \in 1 .. Len(t) :
        /\ Len(up[i - 1]) \in Nat /\ Len(up[i]) = Len(up[i - 1]) + Len(Encoded(t[i]))
        /\ Len(up[i]) <= Len(e)
        /\ \A k \in 1 .. Len(Encoded(t[i])) : e[Len(up[i - 1]) + k] = Encoded(t[i])[k]

LEMMA EncodedPlaces ==
    ASSUME NEW t \in Seq(Unit), NEW up, NEW e, Encodes(t, up, e)
    PROVE  Placed(t, up, e)
<1> DEFINE n == Len(t)
           Fits(i) == Len(up[i]) <= Len(e) /\ \A k \in 1 .. Len(up[i]) : e[k] = up[i][k]
           B == {i \in 0 .. n : ~ Fits(i)}
           D == {n - i : i \in B}
<1>0. up \in [0 .. Len(t) -> Seq(Byte)] /\ Fronts(up, Len(t), Pieces(t)) /\ e = up[Len(t)]
  BY DEF Encodes
<1> USE <1>0
<1>1. n \in Nat /\ \A i \in 0 .. n : up[i] \in Seq(Byte) /\ Len(up[i]) \in Nat
  OBVIOUS
<1>2. ASSUME NEW i \in 1 .. n
      PROVE  /\ up[i] = up[i - 1] \o Encoded(t[i]) /\ Encoded(t[i]) \in Seq(Byte)
             /\ up[i - 1] \in Seq(Byte) /\ i - 1 \in 0 .. n /\ i \in 0 .. n
  <2>1. i \in 0 .. n /\ i # 0 /\ i - 1 \in 0 .. n
    BY <1>1
  <2>2. up[i] = up[i - 1] \o Pieces(t)[i]
    BY <2>1, Zenon DEF Fronts
  <2>3. Pieces(t)[i] = Encoded(t[i]) /\ t[i] \in Unit
    BY PieceFacts
  <2> QED BY <1>1, <2>1, <2>2, <2>3, BytesAreEncoded
<1>3. ASSUME NEW i \in 1 .. n
      PROVE  /\ Len(up[i]) = Len(up[i - 1]) + Len(Encoded(t[i]))
             /\ \A k \in 1 .. Len(up[i - 1]) : up[i][k] = up[i - 1][k]
             /\ \A k \in 1 .. Len(Encoded(t[i])) : up[i][Len(up[i - 1]) + k] = Encoded(t[i])[k]
  <2>1. PICK a \in Seq(Byte), b \in Seq(Byte) : a = up[i - 1] /\ b = Encoded(t[i])
    BY <1>2
  <2>2. up[i] = a \o b
    BY <1>2, <2>1
  <2>3. Len(a) \in Nat /\ Len(b) \in Nat
    OBVIOUS
  <2>4. /\ Len(a \o b) = Len(a) + Len(b)
        /\ \A k \in 1 .. Len(a) + Len(b) : (a \o b)[k] = IF k <= Len(a) THEN a[k] ELSE b[k - Len(a)]
    BY ConcatProperties
  <2>5. \A k \in 1 .. Len(a) : k \in 1 .. Len(a) + Len(b) /\ k <= Len(a)
    BY <2>3
  <2>6. \A k \in 1 .. Len(b) :
           /\ Len(a) + k \in 1 .. Len(a) + Len(b) /\ ~ (Len(a) + k <= Len(a))
           /\ Len(a) + k - Len(a) = k
    BY <2>3
  <2>7. \A k \in 1 .. Len(a) : (a \o b)[k] = a[k]
    BY <2>4, <2>5
  <2>8. \A k \in 1 .. Len(b) : (a \o b)[Len(a) + k] = b[k]
    BY <2>4, <2>6
  <2> QED BY <2>1, <2>2, <2>4, <2>7, <2>8
<1> HIDE DEF n
<1>4. B = {}
  <2> SUFFICES ASSUME B # {} PROVE FALSE
    OBVIOUS
  <2>1. PICK d \in D : \A c \in D : d <= c
    <3>1. D \in SUBSET Nat /\ D # {}
      <4>1. \A i \in B : n - i \in Nat
        BY <1>1
      <4> QED BY <4>1
    <3> HIDE DEF D
    <3> QED BY <3>1, Least
  <2>2. PICK i \in B : d = n - i
    OBVIOUS
  <2>3. i # n
    <3>1. Fits(n)
      BY <1>1 DEF n
    <3> QED BY <3>1
  <2>4. PICK j \in 1 .. n : j = i + 1 /\ j - 1 = i /\ ~ (n - i <= n - j)
    BY <1>1, <2>3
  <2>5. n - j \notin D
    BY <2>1, <2>2, <2>4
  <2>6. Fits(j)
    <3>1. j \in 0 .. n
      BY <1>1
    <3> QED BY <2>5, <3>1
  <2>7. Fits(j - 1)
    <3>1. PICK a \in Nat, b \in Nat : a = Len(up[j - 1]) /\ b = Len(up[j])
      BY <1>1, <1>2
    <3>2. a <= b
      <4>1. PICK w \in Seq(Byte) : w = Encoded(t[j])
        BY <1>2
      <4>2. Len(w) \in Nat
        OBVIOUS
      <4>3. Len(up[j]) = Len(up[j - 1]) + Len(Encoded(t[j]))
        BY <1>3
      <4>4. b = a + Len(w)
        BY <3>1, <4>1, <4>3
      <4> QED BY <4>2, <4>4
    <3>3. b <= Len(e) /\ \A k \in 1 .. b : e[k] = up[j][k]
      BY <2>6, <3>1
    <3>4. a <= Len(e)
      <4>1. Len(e) \in Nat
        BY <1>1 DEF n
      <4> QED BY <3>2, <3>3, <4>1
    <3>5. \A k \in 1 .. a : k \in 1 .. b
      BY <3>2
    <3>6. \A k \in 1 .. a : e[k] = up[j - 1][k]
      BY <1>3, <3>1, <3>3, <3>5
    <3> QED BY <3>1, <3>4, <3>6
  <2> QED BY <2>4, <2>7
<1>5. ASSUME NEW i \in 1 .. n
      PROVE  /\ Len(up[i]) <= Len(e)
             /\ \A k \in 1 .. Len(Encoded(t[i])) : e[Len(up[i - 1]) + k] = Encoded(t[i])[k]
  <2>1. Fits(i)
    <3>1. i \in 0 .. n
      BY <1>2
    <3> QED BY <1>4, <3>1
  <2>2. PICK a \in Nat, b \in Nat : a = Len(up[i - 1]) /\ b = Len(Encoded(t[i]))
    <3>1. PICK v \in Seq(Byte), w \in Seq(Byte) : v = up[i - 1] /\ w = Encoded(t[i])
      BY <1>2
    <3>2. Len(v) \in Nat /\ Len(w) \in Nat
      OBVIOUS
    <3> QED BY <3>1, <3>2
  <2>3. \A k \in 1 .. b : a + k \in 1 .. a + b
    OBVIOUS
  <2>4. \A k \in 1 .. b : e[a + k] = up[i][a + k]
    BY <1>3, <2>1, <2>2, <2>3
  <2> QED BY <1>3, <2>1, <2>2, <2>4
<1> QED BY <1>1, <1>2, <1>3, <1>5 DEF n, Placed

\* The bounds of a unit, and its encoding is not empty.
LEMMA UnitFacts ==
    ASSUME NEW u \in Unit
    PROVE  u \in Int /\ 0 < u /\ u < 65536 /\ Len(Encoded(u)) > 0
<1>1. u \in Int
  BY DEF Unit
<1>2. CASE u < 128
  <2>1. Encoded(u) = <<u>>
    BY <1>2, EncodedIs
  <2> QED BY <1>1, <2>1, UnitIs
<1>3. CASE ~ (u < 128) /\ u < 2048
  <2>1. PICK a, b : Encoded(u) = <<a, b>>
    BY <1>3, EncodedIs
  <2> QED BY <1>1, <2>1, UnitIs
<1>4. CASE ~ (u < 2048)
  <2>1. PICK a, b, c : Encoded(u) = <<a, b, c>>
    BY <1>1, <1>4, EncodedIs
  <2> QED BY <1>1, <2>1, UnitIs
<1> QED BY <1>2, <1>3, <1>4

\* An encoded text is converted to the text.
LEMMA FromBytes ==
    ASSUME NEW t \in Seq(Unit)
    PROVE  /\ EncodedText(t) \in Seq(Byte)
           /\ UTF8_to_UTF16(EncodedText(t)) = t
<1> DEFINE n == Len(t)
           e == EncodedText(t)
<1>1. n \in Nat /\ \A i \in 1 .. n : t[i] \in Unit
  OBVIOUS
<1>2. PICK up : /\ up \in [0 .. n -> Seq(Byte)] /\ Fronts(up, n, Pieces(t)) /\ e = up[n]
  BY EncodedFronts
<1>3. e \in Seq(Byte)
  <2>1. n \in 0 .. n
    BY <1>1
  <2> QED BY <1>2, <2>1
<1>4. \A i \in 1 .. n :
          /\ Len(up[i - 1]) \in Nat /\ Len(up[i]) = Len(up[i - 1]) + Len(Encoded(t[i]))
          /\ Len(up[i]) <= Len(e)
          /\ \A k \in 1 .. Len(Encoded(t[i])) : e[Len(up[i - 1]) + k] = Encoded(t[i])[k]
  <2>1. Encodes(t, up, e)
    BY <1>2 DEF Encodes
  <2> HIDE DEF e
  <2>2. Placed(t, up, e)
    BY <2>1, EncodedPlaces, Zenon
  <2> QED BY <2>2 DEF Placed
<1> HIDE DEF e
<1>5. PICK g : /\ UTF8_to_UTF16(e) = g[1]
               /\ g \in [1 .. Len(e) + 1 -> Seq(Unit)]
               /\ Rests(g, Len(e), Piece(e), After(e), Stop(e))
  BY <1>3, DecodedRests
<1> DEFINE pos(i) == Len(up[i]) + 1
           back == [i \in 0 .. n |-> g[pos(i)]]
           front == [i \in 0 .. n |-> SubSeq(t, 1, i)]
           one == [i \in 1 .. n |-> <<t[i]>>]
<1>6. ASSUME NEW i \in 0 .. n
      PROVE  Len(up[i]) \in Nat /\ Len(up[i]) <= Len(e)
  <2>1. PICK w \in Seq(Byte) : w = up[i]
    BY <1>2
  <2>2. Len(w) \in Nat
    OBVIOUS
  <2>3. CASE i = n
    <3>1. Len(e) \in Nat
      BY <1>3
    <3> QED BY <1>2, <2>3, <3>1
  <2>4. CASE i # n
    <3>1. i + 1 \in 1 .. n /\ i + 1 - 1 = i
      BY <1>1, <2>4
    <3>2. PICK j \in 1 .. n : j - 1 = i
      BY <3>1
    <3>3. PICK v \in Seq(Byte) : v = Encoded(t[j])
      BY <1>1, BytesAreEncoded
    <3>4. Len(v) \in Nat /\ Len(e) \in Nat
      BY <1>3
    <3>5. Len(up[j]) = Len(w) + Len(v) /\ Len(up[j]) <= Len(e)
      BY <1>4, <2>1, <3>2, <3>3
    <3>6. Len(w) <= Len(e)
      BY <2>2, <3>4, <3>5
    <3> QED BY <2>1, <2>2, <3>6
  <2> QED BY <2>3, <2>4
<1>7. ASSUME NEW i \in 1 .. n
      PROVE  g[pos(i - 1)] = <<t[i]>> \o g[pos(i)]
  <2> HIDE DEF back, front, one, n
  <2>1. PICK v \in Seq(Byte) : v = Encoded(t[i])
    BY <1>1, BytesAreEncoded
  <2>2. PICK p \in Nat : p = pos(i - 1) /\ p > 0
    BY <1>4
  <2>3. Len(v) \in Nat /\ Len(e) \in Nat
    BY <1>3
  <2>4. PICK q \in Nat : q = pos(i) /\ q = p + Len(v) /\ q <= Len(e) + 1
    <3>1. Len(up[i - 1]) = p - 1 /\ Len(up[i]) = Len(up[i - 1]) + Len(v) /\ Len(up[i]) <= Len(e)
      <4>1. Len(up[i - 1]) \in Nat
        BY <1>4
      <4>2. Len(up[i - 1]) = p - 1
        BY <2>2, <4>1
      <4>3. Len(up[i]) = Len(up[i - 1]) + Len(v) /\ Len(up[i]) <= Len(e)
        BY <1>4, <2>1
      <4> QED BY <4>2, <4>3
    <3> QED BY <2>3, <3>1
  <2>5. \A k \in 1 .. Len(v) : e[p + k - 1] = v[k]
    <3>1. \A k \in 1 .. Len(v) : Len(up[i - 1]) + k = p + k - 1
      BY <1>4, <2>2
    <3> QED BY <1>4, <2>1, <3>1
  <2>6. t[i] \in Unit
    BY <1>1
  <2>7. /\ More(e, p) = Len(v) - 1 /\ Count(e, p) = More(e, p)
        /\ Code(e, p, Count(e, p)) = t[i]
    <3>1. p + Len(Encoded(t[i])) <= Len(e) + 1
      BY <2>1, <2>4
    <3>2. \A k \in 1 .. Len(Encoded(t[i])) : e[p + k - 1] = Encoded(t[i])[k]
      BY <2>1, <2>5
    <3> QED BY <1>3, <2>1, <2>2, <2>6, <3>1, <3>2, OneUnit
  <2>8. t[i] \in Int /\ 0 < t[i] /\ t[i] < 65536
    BY <2>6, UnitFacts
  <2>9. Len(v) > 0
    BY <2>1, <2>6, UnitFacts
  <2>10. p \in 1 .. Len(e) /\ p \in 1 .. Len(e) + 1 /\ ~ (p > Len(e))
    BY <2>2, <2>3, <2>4, <2>9
  <2>11. ~ (More(e, p) < 0) /\ ~ (Count(e, p) < More(e, p)) /\ p + Count(e, p) + 1 = q
    BY <2>3, <2>4, <2>7, <2>9
  <2>12. ~ Ends(e, p)
    BY <2>7, <2>8, <2>11 DEF Ends
  <2>13. p \notin Stop(e)
    BY <2>12 DEF Stop
  <2>14. Piece(e)[p] = <<t[i]>>
    <3>1. Units(t[i]) = <<t[i]>>
      BY <2>8 DEF Units
    <3> QED BY <2>7, <2>10, <2>11, <2>12, <3>1 DEF Piece
  <2>15. After(e)[p] = q
    BY <2>10, <2>11 DEF After
  <2>16. g[p] = Rest(g, Len(e), Piece(e), After(e), Stop(e), p)
    BY <1>5, <2>10 DEF Rests
  <2>17. g[p] = <<t[i]>> \o g[q]
    BY <2>10, <2>13, <2>14, <2>15, <2>16, Zenon DEF Rest
  <2> QED BY <2>2, <2>4, <2>17
<1>8. back \in [0 .. n -> Seq(Unit)]
  <2>1. \A i \in 0 .. n : pos(i) \in 1 .. Len(e) + 1
    BY <1>3, <1>6
  <2> HIDE DEF pos
  <2> QED BY <1>5, <2>1
<1>9. one \in [1 .. n -> Seq(Unit)]
  <2>1. \A i \in 1 .. n : <<t[i]>> \in Seq(Unit)
    BY <1>1
  <2> QED BY <2>1
<1>10. front \in [0 .. n -> Seq(Unit)] /\ Fronts(front, n, one)
  <2>1. ASSUME NEW i \in 0 .. n
        PROVE  /\ SubSeq(t, 1, i) \in Seq(Unit)
               /\ i = 0 => SubSeq(t, 1, i) = <<>>
               /\ i # 0 => SubSeq(t, 1, i) = SubSeq(t, 1, i - 1) \o <<t[i]>>
    <3>1. SubSeq(t, 1, i) \in Seq(Unit)
      BY <1>1
    <3>2. i = 0 => SubSeq(t, 1, i) = <<>>
      OBVIOUS
    <3>3. ASSUME i # 0 PROVE SubSeq(t, 1, i) = SubSeq(t, 1, i - 1) \o <<t[i]>>
      <4>1. PICK j \in 0 .. n : j = i - 1 /\ i = j + 1 /\ i \in 1 .. n
        BY <1>1, <3>3
      <4>2. PICK a, b : a = SubSeq(t, 1, j) /\ b = SubSeq(t, 1, i)
        OBVIOUS
      <4>3. /\ a \in Seq(Unit) /\ Len(a) = j /\ \A k \in 1 .. j : a[k] = t[k]
            /\ b \in Seq(Unit) /\ Len(b) = i /\ \A k \in 1 .. i : b[k] = t[k]
        BY <1>1, <4>1, <4>2
      <4> DEFINE c == Append(a, t[i])
      <4>4. /\ c \in Seq(Unit) /\ Len(c) = i /\ c[i] = t[i] /\ \A k \in 1 .. j : c[k] = a[k]
        BY <1>1, <4>1, <4>3
      <4>5. \A k \in 1 .. i : c[k] = b[k]
        <5>1. \A k \in 1 .. i : k = i \/ k \in 1 .. j
          BY <4>1
        <5> HIDE DEF c
        <5> QED BY <4>3, <4>4, <5>1, <4>1
      <4>6. c = b
        <5> HIDE DEF c
        <5> QED BY <4>3, <4>4, <4>5
      <4>7. c = a \o <<t[i]>>
        BY <1>1, <4>1, <4>3
      <4> QED BY <4>1, <4>2, <4>6, <4>7
    <3> QED BY <3>1, <3>2, <3>3
  <2>2. front \in [0 .. n -> Seq(Unit)]
    BY <2>1
  <2>3. ASSUME NEW i \in 0 .. n
        PROVE  front[i] = IF i = 0 THEN <<>> ELSE front[i - 1] \o one[i]
    <3>1. CASE i = 0
      BY <2>1, <3>1
    <3>2. CASE i # 0
      <4>1. i - 1 \in 0 .. n /\ i \in 1 .. n
        BY <1>1, <3>2
      <4>2. front[i] = SubSeq(t, 1, i) /\ front[i - 1] = SubSeq(t, 1, i - 1) /\ one[i] = <<t[i]>>
        BY <4>1
      <4> QED BY <2>1, <3>2, <4>2
    <3> QED BY <3>1, <3>2
  <2> HIDE DEF front, one
  <2> QED BY <2>2, <2>3 DEF Fronts
<1>11. Parts(Unit, n, one, front, back)
  <2>1. back[n] = <<>>
    <3>1. n \in 0 .. n /\ Len(e) \in Nat /\ Len(e) + 1 > Len(e) /\ Len(e) + 1 \in 1 .. Len(e) + 1
      BY <1>1, <1>3
    <3>2. back[n] = g[Len(e) + 1]
      BY <1>2, <3>1
    <3>3. g[Len(e) + 1] = <<>>
      BY <1>5, <3>1 DEF Rest, Rests
    <3> QED BY <3>2, <3>3
  <2>2. ASSUME NEW i \in 1 .. n PROVE back[i - 1] = one[i] \o back[i]
    <3>1. i - 1 \in 0 .. n /\ i \in 0 .. n
      BY <1>1
    <3>2. back[i - 1] = g[pos(i - 1)] /\ back[i] = g[pos(i)] /\ one[i] = <<t[i]>>
      <4> HIDE DEF pos
      <4> QED BY <3>1
    <3> QED BY <1>7, <3>2
  <2> HIDE DEF front, back, one
  <2> QED BY <1>1, <1>8, <1>9, <1>10, <2>1, <2>2 DEF Parts
<1>12. front[n] = back[0]
  <2> HIDE DEF front, back, one
  <2> QED BY <1>11, FrontIsRest
<1>13. front[n] = t
  <2>1. n \in 0 .. n
    BY <1>1
  <2>2. SubSeq(t, 1, n) = t
    OBVIOUS
  <2> QED BY <2>1, <2>2
<1>14. back[0] = g[1]
  <2>1. 0 \in 0 .. n
    BY <1>1
  <2>2. up[0] = <<>>
    BY <1>2, <2>1 DEF Fronts
  <2>3. pos(0) = 1
    BY <2>2
  <2> QED BY <2>1, <2>3
<1> QED BY <1>3, <1>5, <1>12, <1>13, <1>14 DEF e
-----------------------------------------------------------------------------
(* The texts of the keyboard *)

\* The array and the keyboard hold texts; until the user types another one, that in the
\* keyboard is what the array's was converted to.
OskTexts ==
    /\ oskpc \in {"setup", "loop"} => str \in Seq(Byte)
    /\ oskpc = "loop" => IF choice = "text" THEN field \in Typed
                                            ELSE field = UTF8_to_UTF16(str)

LEMMA TextsAre ==
    /\ \A t \in Typed : t \in Seq(Unit)
    /\ \A s \in StackTexts : s \in Seq(Byte)
BY TextsAssumption

LEMMA NextTexts ==
    ASSUME OskInv, OskTexts, [Next]_vars
    PROVE  OskTexts'
<1> USE DEF OskTexts
<1>1. CASE UNCHANGED vars \/ UNCHANGED oskVars
  BY <1>1 DEF vars, oskVars
<1>2. CASE OskCallbacks
  BY <1>2 DEF OskCallbacks
<1>3. CASE AskText
  BY <1>3, TextsAre DEF AskText, Get_OSK_String
<1>4. CASE Typing /\ SetupFail
  BY <1>4 DEF Typing, SetupFail
<1>5. CASE Typing /\ Load
  BY <1>5 DEF Typing, Load
<1>6. CASE Typing /\ OskReturn
  BY <1>6 DEF Typing, OskReturn
<1>7. CASE TextReturned
  BY <1>7 DEF TextReturned
<1>8. CASE OskFrame
  <2>1. /\ oskpc = "loop" /\ UNCHANGED <<field, choice>>
        /\ oskpc' \in {"loop", "end", "overrun"}
    BY <1>8 DEF OskFrame, Return
  <2>2. ASSUME oskpc' = "loop" PROVE UNCHANGED str
    BY <1>8, <2>2 DEF OskFrame, Return
  <2> QED BY <2>1, <2>2
<1>9. CASE Keyboard
  <2>1. oskpc = "loop" /\ UNCHANGED <<oskpc, str>>
    BY <1>9 DEF OskInv, OskPlace, Keyboard, KbEnter, KbCancel, KbUnloaded, Report
  <2>2. kb = "open" => choice = "none"
    BY <2>1 DEF OskInv, OskLoop
  <2>3. CASE KbEnter
    BY <2>1, <2>2, <2>3 DEF KbEnter
  <2>4. CASE KbCancel
    BY <2>1, <2>2, <2>4 DEF KbCancel
  <2>5. CASE KbUnloaded
    BY <2>1, <2>5 DEF KbUnloaded
  <2> QED BY <1>9, <2>3, <2>4, <2>5 DEF Keyboard
<1> QED
  BY <1>1, <1>2, <1>3, <1>4, <1>5, <1>6, <1>7, <1>8, <1>9, OskSteps

LEMMA TextStep ==
    ASSUME OskInv, OskTexts, [Next]_vars, oskpc = "loop", oskpc' # "loop", result' = "SUCCESS"
    PROVE  /\ Basic(field) /\ Len(EncodedText(field)) < CBSIZE =>
                 oskpc' = "end" /\ str' = EncodedText(field)
           /\ \A t \in Typed :
                 /\ Basic(t) /\ choice = "same"
                 /\ str = EncodedText(t) /\ Len(str) < CBSIZE
                 => oskpc' = "end" /\ str' = str
<1>1. OskFrame
  <2>1. ~ (UNCHANGED vars) /\ ~ (UNCHANGED oskVars)
    BY DEF vars, oskVars
  <2>2. ~ OskCallbacks /\ ~ AskText /\ ~ (Typing /\ (SetupFail \/ Load \/ OskReturn))
        /\ ~ TextReturned
    BY DEF OskCallbacks, AskText, Get_OSK_String, SetupFail, Load, OskReturn, TextReturned
  <2>3. ~ Keyboard
    BY DEF Keyboard, KbEnter, KbCancel, KbUnloaded, Report
  <2> QED BY <2>1, <2>2, <2>3, OskSteps
<1>2. Return(UTF16_to_UTF8(field))
  BY <1>1 DEF OskFrame
<1>3. str \in Seq(Byte) /\ (IF choice = "text" THEN field \in Typed ELSE field = UTF8_to_UTF16(str))
  BY DEF OskTexts
<1>4. field \in Seq(Unit)
  <2>1. CASE choice = "text"
    BY <1>3, <2>1, TextsAre
  <2>2. CASE choice # "text"
    <3>1. PICK g : /\ UTF8_to_UTF16(str) = g[1]
                   /\ g \in [1 .. Len(str) + 1 -> Seq(Unit)]
      BY <1>3, DecodedRests
    <3>2. 1 \in 1 .. Len(str) + 1
      BY <1>3
    <3> QED BY <1>3, <2>2, <3>1, <3>2
  <2> QED BY <2>1, <2>2
<1>5. ASSUME Basic(field), Len(EncodedText(field)) < CBSIZE
      PROVE  oskpc' = "end" /\ str' = EncodedText(field)
  <2>1. /\ UTF16_to_UTF8(field) = EncodedText(field)
        /\ ~ (Len(EncodedText(field)) >= CBSIZE)
    BY <1>4, <1>5, ToBytes, CBSIZEAssumption
  <2> QED BY <1>2, <2>1 DEF Return
<1>6. ASSUME NEW t \in Typed, Basic(t), choice = "same", str = EncodedText(t),
             Len(str) < CBSIZE
      PROVE  oskpc' = "end" /\ str' = str
  <2>1. t \in Seq(Unit)
    BY TextsAre
  <2>2. field = t
    BY <1>3, <1>6, <2>1, FromBytes
  <2> QED BY <1>5, <1>6, <2>2
<1> QED BY <1>5, <1>6

\* What the user entered comes back in UTF-8 where the array has room for it, whatever it
\* held at first, and what was shown and left comes back as it was: the conversions of
\* util.c give the encoding of any text without surrogate pairs, and undo it.
THEOREM OskTextCorrect == Spec => OskText
<1>1. Init => OskTexts
  BY DEF Init, OskInit, OskTexts
<1>2. OskInv /\ OskTexts /\ [Next]_vars => OskTexts'
  BY NextTexts
<1>3. OskInv /\ OskTexts /\ [Next]_vars
      => [oskpc = "loop" /\ oskpc' # "loop" /\ result' = "SUCCESS" =>
            /\ Basic(field) /\ Len(EncodedText(field)) < CBSIZE =>
                  oskpc' = "end" /\ str' = EncodedText(field)
            /\ \A t \in Typed :
                  /\ Basic(t) /\ choice = "same"
                  /\ str = EncodedText(t) /\ Len(str) < CBSIZE
                  => oskpc' = "end" /\ str' = str]_vars
  BY TextStep
<1> QED BY <1>1, <1>2, <1>3, OskAlways, PTL DEF Spec, OskText
-----------------------------------------------------------------------------
(* The dialogs *)

Places == {"frame", "command", "wait", "osk", "quit", "lost", "open", "entry", "work",
           "chunk", "check", "flip", "next", "close"}
InJob == pc \in {"entry", "work", "chunk", "check", "flip", "next", "close"}
NoCall(d) == \A i \in DOMAIN msgs : msgs[i].of # d

\* What may be shown where the program is, if it could be, and the counters of a job.
DialogPlace ==
    /\ pc \in Places
    /\ dialog \in {"none", IF pc = "wait" THEN "question" ELSE IF InJob THEN "bars" ELSE "none"}
    /\ button \in Answer \cup {"none"} /\ (dialog = "none" => button = "none")
    /\ msgs \in Seq(Message)
    /\ dialog_action \in 0 .. 2 /\ progress_action \in -1 .. 2
    /\ ktr \in 1 .. Entries + 1 /\ chunk \in 0 .. Chunks
    /\ pc \in {"work", "chunk", "check", "flip", "next"} => ktr <= Entries
    /\ pc = "chunk" => chunk < Chunks

\* The bars show what the program has added up.
BarInv ==
    /\ bars \in [0 .. 1 -> Nat] /\ prev_prc \in [0 .. 1 -> Nat]
    /\ prev_prc[0] <= Entries /\ prev_prc[1] <= Chunks
    /\ IF InJob THEN bars = prev_prc ELSE bars = [i \in 0 .. 1 |-> 0]

\* A question has the answer that was given to it, or none: the calls to come are those
\* of this question's button.
AnswerInv ==
    IF pc = "wait"
    THEN /\ \A i \in DOMAIN msgs : msgs[i].of = "question" =>
                msgs[i].button = button /\ dialog_action = 0
         /\ dialog_action # 0 =>
                button # "none" /\ (dialog_action = 1 <=> button = "YES")
    ELSE NoCall("question")

\* A job is cancelled by its own button: no call is left of an earlier job when it
\* begins, and the flag keeps its value.  The work after it is counted once.
CancelInv ==
    /\ ~ InJob /\ pc # "frame" => NoCall("bars")
    /\ ~ InJob => late = 0
    /\ InJob =>
          /\ button \in {"none", "ESCAPE"}
          /\ \A i \in DOMAIN msgs : msgs[i].of = "bars" =>
                msgs[i].button = "ESCAPE" /\ button = "ESCAPE"
          /\ progress_action \in {0, 2} /\ (progress_action = 2 => button = "ESCAPE")
          /\ \/ late = 0
             \/ /\ late = 1 /\ progress_action = 2
                /\ pc \in {"check", "flip", "next", "close"}
          /\ pc = "close" /\ ktr <= Entries => progress_action = 2

DialogInv == DialogPlace /\ BarInv /\ AnswerInv /\ CancelInv

LEMMA InitDialog == Init => DialogInv
<1> SUFFICES ASSUME Init PROVE DialogInv
  OBVIOUS
<1>1. /\ pc = "frame" /\ dialog = "none" /\ button = "none" /\ msgs = <<>>
      /\ dialog_action = 0 /\ progress_action = 0 /\ ktr = 1 /\ chunk = 0 /\ late = 0
      /\ prev_prc = [i \in 0 .. 1 |-> 0] /\ bars = [i \in 0 .. 1 |-> 0]
  BY DEF Init, DialogInit
<1>2. 1 \in 1 .. Entries + 1 /\ 0 \in 0 .. Chunks
  BY EntriesAssumption, ChunksAssumption
<1>3. DialogPlace
  BY <1>1, <1>2 DEF DialogPlace, InJob, Places
<1>4. BarInv
  BY <1>1, EntriesAssumption, ChunksAssumption DEF BarInv, InJob
<1>5. AnswerInv /\ CancelInv
  BY <1>1 DEF AnswerInv, CancelInv, NoCall, InJob
<1> QED BY <1>3, <1>4, <1>5 DEF DialogInv

\* The flags after the calls of the callbacks.
LEMMA QuestionFlag ==
    ASSUME msgs \in Seq(Message), NEW d, NEW p, Callbacks(d, p)
    PROVE  \/ dialog_action' = d /\ NoCall("question")
           \/ \E i \in DOMAIN msgs :
                 /\ msgs[i].of = "question" /\ dialog_action' \in {1, 2}
                 /\ dialog_action' = 1 <=> msgs[i].button = "YES"
<1>1. \A i \in DOMAIN msgs : msgs[i] \in Message
  OBVIOUS
<1>2. \A i \in DOMAIN msgs : msgs[i].button \in Answer
  BY <1>1 DEF Message
<1>3. dialog_action' = my_dialog(LastButton("question"), d)
  BY DEF Callbacks, DialogAction
<1>4. CASE LastButton("question") = "no call" /\ NoCall("question")
  BY <1>3, <1>4 DEF my_dialog
<1>5. CASE \E i \in DOMAIN msgs :
              msgs[i].of = "question" /\ LastButton("question") = msgs[i].button
  <2>1. PICK i \in DOMAIN msgs :
              msgs[i].of = "question" /\ LastButton("question") = msgs[i].button
    BY <1>5
  <2>2. msgs[i].button \in Answer
    BY <1>2
  <2>3. dialog_action' \in {1, 2} /\ (dialog_action' = 1 <=> msgs[i].button = "YES")
    BY <1>3, <2>1, <2>2 DEF my_dialog, Answer
  <2> QED BY <2>1, <2>3
<1> QED BY <1>4, <1>5, LastMessage DEF NoCall

LEMMA BarsFlag ==
    ASSUME msgs \in Seq(Message), NEW d, NEW p, Callbacks(d, p)
    PROVE  \/ progress_action' = p /\ NoCall("bars")
           \/ \E i \in DOMAIN msgs :
                 /\ msgs[i].of = "bars" /\ progress_action' \in -1 .. 2
                 /\ msgs[i].button = "ESCAPE" => progress_action' = 2
<1>1. \A i \in DOMAIN msgs : msgs[i] \in Message
  OBVIOUS
<1>2. \A i \in DOMAIN msgs : msgs[i].button \in Answer
  BY <1>1 DEF Message
<1>3. progress_action' = progress_callback(LastButton("bars"), p)
  BY DEF Callbacks, ProgressAction
<1>4. CASE LastButton("bars") = "no call" /\ NoCall("bars")
  BY <1>3, <1>4 DEF progress_callback
<1>5. CASE \E i \in DOMAIN msgs :
              msgs[i].of = "bars" /\ LastButton("bars") = msgs[i].button
  <2>1. PICK i \in DOMAIN msgs :
              msgs[i].of = "bars" /\ LastButton("bars") = msgs[i].button
    BY <1>5
  <2>2. msgs[i].button \in Answer
    BY <1>2
  <2>3. /\ progress_action' \in {1, 2, -1}
        /\ msgs[i].button = "ESCAPE" => progress_action' = 2
    BY <1>3, <2>1, <2>2 DEF progress_callback, Answer
  <2> QED BY <2>1, <2>3
<1> QED BY <1>4, <1>5, LastMessage DEF NoCall

\* After them: no call is left, a question has its answer, and a job is told that it is
\* cancelled only if it was.
LEMMA CallbacksDialog ==
    ASSUME DialogInv, NEW p \in -1 .. 2, Callbacks(dialog_action, p),
           UNCHANGED button, NoCall("bars") \/ p = progress_action
    PROVE  /\ msgs' \in Seq(Message) /\ DOMAIN msgs' = {}
           /\ dialog_action' \in 0 .. 2 /\ progress_action' \in -1 .. 2
           /\ pc = "wait" /\ dialog_action' # 0 =>
                 button # "none" /\ (dialog_action' = 1 <=> button = "YES")
           /\ InJob =>
                 /\ progress_action' = p \/ progress_action' = 2
                 /\ progress_action' = 2 => p = 2 \/ button = "ESCAPE"
<1>1. msgs \in Seq(Message) /\ dialog_action \in 0 .. 2 /\ msgs' = <<>>
  BY DEF DialogInv, DialogPlace, Callbacks
<1>2. msgs' \in Seq(Message) /\ DOMAIN msgs' = {}
  BY <1>1
<1>3. dialog_action' \in 0 .. 2
  BY <1>1, QuestionFlag
<1>4. progress_action' \in -1 .. 2
  BY <1>1, BarsFlag
<1>5. ASSUME pc = "wait", dialog_action' # 0
      PROVE  button # "none" /\ (dialog_action' = 1 <=> button = "YES")
  <2>1. CASE dialog_action' = dialog_action
    BY <1>5, <2>1 DEF DialogInv, AnswerInv
  <2>2. CASE \E i \in DOMAIN msgs :
                /\ msgs[i].of = "question" /\ dialog_action' \in {1, 2}
                /\ dialog_action' = 1 <=> msgs[i].button = "YES"
    <3>1. PICK i \in DOMAIN msgs :
                /\ msgs[i].of = "question" /\ dialog_action' \in {1, 2}
                /\ dialog_action' = 1 <=> msgs[i].button = "YES"
      BY <2>2
    <3>2. msgs[i].button = button
      BY <1>5, <3>1 DEF DialogInv, AnswerInv
    <3>3. msgs[i] \in Message
      BY <1>1
    <3>4. button # "none"
      BY <3>2, <3>3 DEF Message, Answer
    <3> QED BY <3>1, <3>2, <3>4
  <2> QED BY <1>1, <2>1, <2>2, QuestionFlag
<1>6. ASSUME InJob
      PROVE  /\ progress_action' = p \/ progress_action' = 2
             /\ progress_action' = 2 => p = 2 \/ button = "ESCAPE"
  <2>1. CASE progress_action' = p
    BY <2>1
  <2>2. CASE \E i \in DOMAIN msgs :
                msgs[i].of = "bars" /\ (msgs[i].button = "ESCAPE" => progress_action' = 2)
    BY <1>6, <2>2 DEF DialogInv, CancelInv
  <2> QED BY <1>1, <2>1, <2>2, BarsFlag
<1> QED BY <1>2, <1>3, <1>4, <1>5, <1>6

\* Only the callbacks are called: a frame begins, or the program waits.
LEMMA CalledDialog ==
    ASSUME DialogInv, DialogCallbacks, UNCHANGED <<ktr, chunk, late>>,
           \/ Goto("frame", "command") \/ Goto("flip", "next")
           \/ UNCHANGED pc /\ (pc = "osk" \/ (pc = "wait" /\ dialog_action = 0))
    PROVE  DialogInv'
<1>1. /\ progress_action \in -1 .. 2 /\ UNCHANGED <<button, dialog, bars, prev_prc>>
      /\ Callbacks(dialog_action, progress_action)
  BY DEF DialogInv, DialogPlace, DialogCallbacks
<1>2. /\ msgs' \in Seq(Message) /\ DOMAIN msgs' = {}
      /\ dialog_action' \in 0 .. 2 /\ progress_action' \in -1 .. 2
      /\ pc = "wait" /\ dialog_action' # 0 =>
            button # "none" /\ (dialog_action' = 1 <=> button = "YES")
      /\ InJob =>
            /\ progress_action' = progress_action \/ progress_action' = 2
            /\ progress_action' = 2 => progress_action = 2 \/ button = "ESCAPE"
  BY <1>1, CallbacksDialog
<1>3. InJob' <=> InJob
  BY DEF Goto, InJob
<1>4. DialogPlace'
  BY <1>1, <1>2, <1>3 DEF DialogInv, DialogPlace, Places, Goto
<1>5. BarInv'
  BY <1>1, <1>3 DEF DialogInv, BarInv
<1>6. AnswerInv'
  BY <1>1, <1>2 DEF AnswerInv, NoCall, Goto
<1>7. CancelInv'
  BY <1>1, <1>2, <1>3 DEF DialogInv, CancelInv, NoCall, Goto, InJob
<1> QED BY <1>4, <1>5, <1>6, <1>7 DEF DialogInv

\* A percentage is shown: the steps added make the bar show it.
LEMMA Shown ==
    ASSUME BarInv, InJob, InJob', NEW i \in 0 .. 1, NEW c \in Nat, ProgressBarUpdate(i, c),
           c <= IF i = 0 THEN Entries ELSE Chunks
    PROVE  BarInv'
<1> USE EntriesAssumption, ChunksAssumption
<1>1. bars = prev_prc /\ prev_prc \in [0 .. 1 -> Nat]
  BY DEF BarInv
<1>2. \/ bars' = [bars EXCEPT ![i] = c] /\ prev_prc' = [prev_prc EXCEPT ![i] = c]
      \/ bars' = [bars EXCEPT ![i] = 0] /\ prev_prc' = [prev_prc EXCEPT ![i] = 0]
      \/ UNCHANGED <<bars, prev_prc>>
  <2>1. CASE c > prev_prc[i]
    <3>1. bars' = [bars EXCEPT ![i] = bars[i] + c - prev_prc[i]]
      BY <1>1, <2>1 DEF ProgressBarUpdate
    <3>2. prev_prc' = [prev_prc EXCEPT ![i] = c]
      BY <1>1, <2>1 DEF ProgressBarUpdate
    <3>3. bars[i] + c - prev_prc[i] = c
      BY <1>1
    <3> QED BY <3>1, <3>2, <3>3
  <2>2. CASE ~ (c > prev_prc[i])
    BY <1>1, <2>2 DEF ProgressBarUpdate
  <2> QED BY <2>1, <2>2
<1>3. bars' = prev_prc' /\ bars' \in [0 .. 1 -> Nat]
  BY <1>1, <1>2
<1>4. prev_prc'[0] <= Entries /\ prev_prc'[1] <= Chunks
  BY <1>1, <1>2 DEF BarInv
<1> QED BY <1>3, <1>4 DEF BarInv

\* What the work of a job preserves; a percentage is shown in each of these steps.
LEMMA WorkDialog ==
    ASSUME DialogInv, BeginEntry \/ BeginWork \/ DoChunk \/ ErrorChunk \/ DoWhole
    PROVE  DialogInv'
<1> USE EntriesAssumption, ChunksAssumption
<1>1. /\ InJob /\ InJob' /\ UNCHANGED <<button, dialog, ktr>>
      /\ Callbacks(dialog_action, progress_action)
  BY DEF BeginEntry, BeginWork, DoChunk, ErrorChunk, DoWhole, Goto, InJob, jobVars,
     ProgressBarUpdate
<1>2. /\ ktr \in 1 .. Entries + 1 /\ chunk \in 0 .. Chunks /\ ktr <= Entries
      /\ progress_action \in -1 .. 2 /\ pc \in {"entry", "work", "chunk"}
      /\ late = 0 /\ (pc = "chunk" => chunk < Chunks)
  BY DEF DialogInv, DialogPlace, CancelInv, BeginEntry, BeginWork, DoChunk, ErrorChunk, DoWhole,
     Goto, InJob
<1>3. /\ msgs' \in Seq(Message) /\ DOMAIN msgs' = {}
      /\ dialog_action' \in 0 .. 2 /\ progress_action' \in -1 .. 2
      /\ progress_action' = progress_action \/ progress_action' = 2
      /\ progress_action' = 2 => progress_action = 2 \/ button = "ESCAPE"
  BY <1>1, <1>2, CallbacksDialog
<1>4. /\ pc' \in {"work", "chunk", "check", "flip", "next"}
      /\ chunk' \in 0 .. Chunks /\ (pc' = "chunk" => chunk' < Chunks)
      /\ late' = 0 \/ (late' = 1 /\ progress_action = 2 /\ pc' \in {"check", "flip", "next"})
  <2>1. CASE BeginEntry
    BY <1>2, <2>1 DEF BeginEntry, Goto, jobVars
  <2>2. CASE BeginWork
    BY <1>2, <2>2 DEF BeginWork, Goto
  <2>3. CASE DoChunk
    BY <1>2, <2>3 DEF DoChunk, Goto, Counted
  <2>4. CASE DoWhole
    BY <1>2, <2>4 DEF DoWhole, Goto, Counted
  <2>5. CASE ErrorChunk
    BY <1>2, <2>5 DEF ErrorChunk, Goto, Counted
  <2> QED BY <2>1, <2>2, <2>3, <2>4, <2>5
<1>5. DialogPlace'
  <2>1. pc' \in Places /\ pc' # "wait" /\ pc # "wait"
    BY <1>2, <1>4 DEF Places
  <2> QED BY <1>1, <1>2, <1>3, <1>4, <2>1 DEF DialogInv, DialogPlace
<1>6. BarInv'
  <2>1. CASE BeginEntry
    BY <1>1, <1>2, <2>1, Shown DEF BeginEntry, DialogInv
  <2>2. CASE BeginWork
    BY <1>1, <1>2, <2>2, Shown DEF BeginWork, DialogInv
  <2>3. CASE DoChunk
    <3>1. ProgressBarUpdate(1, chunk + 1) /\ chunk + 1 \in Nat /\ chunk + 1 <= Chunks
      BY <1>2, <2>3 DEF DoChunk, Goto
    <3> QED BY <1>1, <3>1, Shown DEF DialogInv
  <2>4. CASE DoWhole
    BY <1>1, <1>2, <2>4, Shown DEF DoWhole, DialogInv
  <2>5. CASE ErrorChunk
    <3>1. PICK cprc \in 0 .. Chunks : ProgressBarUpdate(1, cprc)
      BY <2>5 DEF ErrorChunk
    <3>2. cprc \in Nat /\ cprc <= Chunks
      BY <3>1
    <3> QED BY <1>1, <3>1, <3>2, Shown DEF DialogInv
  <2> QED BY <2>1, <2>2, <2>3, <2>4, <2>5
<1>7. AnswerInv'
  BY <1>3, <1>4 DEF AnswerInv, NoCall
<1>8. CancelInv'
  <2>1. /\ button \in {"none", "ESCAPE"} /\ progress_action \in {0, 2}
        /\ progress_action = 2 => button = "ESCAPE"
    BY <1>1 DEF DialogInv, CancelInv
  <2>2. progress_action' \in {0, 2} /\ (progress_action = 2 => progress_action' = 2)
    BY <1>3, <2>1
  <2> QED BY <1>1, <1>3, <1>4, <2>1, <2>2 DEF CancelInv
<1> QED BY <1>5, <1>6, <1>7, <1>8 DEF DialogInv

\* The steps that neither look at the dialogs nor change them.
LEMMA QuietDialog ==
    ASSUME DialogInv,
           \/ UNCHANGED <<pc, jobVars, dialogVars>>
           \/ NoWait \/ AskLost \/ AskText \/ TextReturned
           \/ NoWork \/ EndFile \/ CheckChunk \/ EndEntry \/ EndJob
    PROVE  DialogInv'
<1> USE EntriesAssumption, ChunksAssumption
<1>1. UNCHANGED dialogVars
  BY DEF NoWait, AskLost, AskText, TextReturned, NoWork, EndFile, CheckChunk, EndEntry, EndJob
<1>2. /\ UNCHANGED <<dialog_action, progress_action, prev_prc, dialog, button, bars, msgs>>
      /\ NoCall("question") => NoCall("question")'
      /\ NoCall("bars") => NoCall("bars")'
  BY <1>1 DEF dialogVars, NoCall
<1>3. CASE UNCHANGED <<pc, jobVars, dialogVars>>
  BY <1>2, <1>3
  DEF DialogInv, DialogPlace, BarInv, AnswerInv, CancelInv, NoCall, InJob, jobVars
<1>4. CASE NoWait \/ AskLost \/ AskText \/ TextReturned
  <2>1. /\ pc \in {"command", "osk"} /\ pc' \in {"frame", "lost", "osk"}
        /\ UNCHANGED <<ktr, chunk, late>>
    BY <1>4 DEF NoWait, AskLost, AskText, TextReturned, Goto, jobVars
  <2>2. ~ InJob /\ ~ InJob' /\ pc' \in Places
    BY <2>1 DEF InJob, Places
  <2> QED
    BY <1>2, <2>1, <2>2 DEF DialogInv, DialogPlace, BarInv, AnswerInv, CancelInv, NoCall
<1>5. CASE NoWork \/ EndFile \/ CheckChunk \/ EndEntry \/ EndJob
  <2>1. InJob /\ InJob' /\ pc' \in Places /\ UNCHANGED <<chunk, late>>
    BY <1>5 DEF NoWork, EndFile, CheckChunk, EndEntry, EndJob, Goto, jobVars, InJob, Places
  <2>2. /\ ktr' \in 1 .. Entries + 1 /\ ktr \in 1 .. Entries + 1 /\ chunk \in 0 .. Chunks
        /\ pc' \in {"work", "chunk", "check", "flip", "next"} => ktr' <= Entries
        /\ pc' = "chunk" => chunk' < Chunks
    BY <1>5 DEF NoWork, EndFile, CheckChunk, EndEntry, EndJob, Goto, jobVars, DialogInv, DialogPlace
  <2>3. /\ \/ late = 0
           \/ late = 1 /\ progress_action = 2 /\ pc' \in {"check", "flip", "next", "close"}
        /\ pc' = "close" /\ ktr' <= Entries => progress_action = 2
    BY <1>5, <2>1, <2>2 DEF NoWork, EndFile, CheckChunk, EndEntry, EndJob, Goto, jobVars, DialogInv, CancelInv
  <2>4. DialogPlace'
    BY <1>2, <2>1, <2>2 DEF DialogInv, DialogPlace, InJob
  <2>5. BarInv' /\ AnswerInv'
    BY <1>2, <2>1 DEF DialogInv, BarInv, AnswerInv, NoCall, InJob
  <2>6. CancelInv'
    BY <1>2, <2>1, <2>3 DEF DialogInv, CancelInv
  <2> QED BY <2>4, <2>5, <2>6 DEF DialogInv
<1> QED BY <1>3, <1>4, <1>5

\* A dialog is opened: no call is left of an earlier one.
LEMMA OpenDialog ==
    ASSUME DialogInv, Ask \/ OpenBars
    PROVE  DialogInv'
<1> USE EntriesAssumption, ChunksAssumption
<1>1. CASE Ask
  <2>1. /\ pc = "command" /\ pc' = "wait" /\ dialog' \in {"question", "none"} /\ button' = "none"
        /\ dialog_action' = 0
        /\ UNCHANGED <<progress_action, prev_prc, bars, msgs, ktr, chunk, late>>
    BY <1>1 DEF Ask, Goto, YesNoDialog
  <2>2. NoCall("question") /\ NoCall("bars") /\ ~ InJob /\ ~ InJob'
    BY <2>1 DEF DialogInv, AnswerInv, CancelInv, InJob
  <2>3. DialogPlace' /\ BarInv'
    BY <2>1, <2>2 DEF DialogInv, DialogPlace, BarInv, Places
  <2>4. AnswerInv' /\ CancelInv'
    BY <2>1, <2>2 DEF DialogInv, AnswerInv, CancelInv, NoCall
  <2> QED BY <2>3, <2>4 DEF DialogInv
<1>2. CASE OpenBars
  <2>1. /\ pc = "open" /\ pc' = "entry" /\ dialog' \in {"bars", "none"} /\ button' = "none"
        /\ prev_prc' = [i \in 0 .. 1 |-> 0] /\ bars' = [i \in 0 .. 1 |-> 0]
        /\ ktr' = 1 /\ chunk' = 0 /\ late' = 0 /\ Callbacks(dialog_action, 0)
    BY <1>2 DEF OpenBars, Goto, DoubleProgressBarDialog
  <2>2. /\ NoCall("bars") /\ NoCall("question") /\ ~ InJob /\ InJob' /\ msgs \in Seq(Message)
        /\ dialog_action \in 0 .. 2
    BY <2>1 DEF DialogInv, DialogPlace, AnswerInv, CancelInv, InJob
  <2>3. progress_action' = 0
    BY <2>1, <2>2, BarsFlag DEF NoCall
  <2>4. dialog_action' \in 0 .. 2
    BY <2>1, <2>2, QuestionFlag
  <2>5. msgs' \in Seq(Message) /\ DOMAIN msgs' = {}
    BY <2>1 DEF Callbacks
  <2>6. DialogPlace' /\ BarInv'
    BY <2>1, <2>2, <2>3, <2>4, <2>5 DEF DialogPlace, BarInv, Places, Answer
  <2>7. AnswerInv' /\ CancelInv'
    BY <2>1, <2>2, <2>3, <2>5 DEF AnswerInv, CancelInv, NoCall
  <2> QED BY <2>6, <2>7 DEF DialogInv
<1> QED BY <1>1, <1>2

\* A dialog is closed.  The question has been answered, so it reports nothing more; a
\* job may leave a call behind, which finds no job.
LEMMA CloseDialog ==
    ASSUME DialogInv, Answered \/ CloseBars
    PROVE  DialogInv'
<1> USE EntriesAssumption, ChunksAssumption
<1>1. /\ dialog' = "none" /\ button' = "none" /\ bars' = [i \in 0 .. 1 |-> 0]
      /\ UNCHANGED <<dialog_action, progress_action, prev_prc>>
      /\ \/ UNCHANGED msgs
         \/ /\ dialog # "none" /\ button = "none"
            /\ msgs' = Append(msgs, [of |-> dialog, button |-> "NONE"])
      /\ msgs \in Seq(Message)
  BY DEF Answered, CloseBars, Abort, DialogInv, DialogPlace
<1>2. CASE Answered
  <2>1. /\ pc = "wait" /\ pc' \in {"frame", "open", "quit"} /\ dialog_action # 0
        /\ UNCHANGED <<ktr, chunk, late>>
    BY <1>2 DEF Answered, jobVars
  <2>2. UNCHANGED msgs /\ NoCall("question") /\ NoCall("bars") /\ ~ InJob /\ ~ InJob' /\ late = 0
    BY <1>1, <2>1 DEF DialogInv, AnswerInv, CancelInv, NoCall, InJob
  <2>3. DialogPlace' /\ BarInv'
    BY <1>1, <2>1, <2>2 DEF DialogInv, DialogPlace, BarInv, Places
  <2>4. AnswerInv' /\ CancelInv'
    BY <2>1, <2>2 DEF AnswerInv, CancelInv, NoCall
  <2> QED BY <2>3, <2>4 DEF DialogInv
<1>3. CASE CloseBars
  <2>1. pc = "close" /\ pc' = "frame" /\ ktr' = 1 /\ chunk' = 0 /\ late' = 0
    BY <1>3 DEF CloseBars, Goto
  <2>2. InJob /\ ~ InJob' /\ NoCall("question") /\ dialog \in {"none", "bars"}
    BY <2>1 DEF DialogInv, DialogPlace, AnswerInv, InJob
  <2>3. msgs' \in Seq(Message) /\ NoCall("question")'
    <3>1. CASE UNCHANGED msgs
      BY <1>1, <2>2, <3>1 DEF NoCall
    <3>2. CASE dialog # "none" /\ msgs' = Append(msgs, [of |-> dialog, button |-> "NONE"])
      <4>1. [of |-> dialog, button |-> "NONE"] \in Message
        BY <2>2, <3>2 DEF Message, Answer
      <4>2. msgs' \in Seq(Message)
        BY <1>1, <3>2, <4>1
      <4>3. \A i \in DOMAIN msgs' :
               \/ i \in DOMAIN msgs /\ msgs'[i] = msgs[i]
               \/ msgs'[i] = [of |-> dialog, button |-> "NONE"]
        BY <1>1, <3>2
      <4> QED BY <2>2, <3>2, <4>2, <4>3 DEF NoCall
    <3> QED BY <1>1, <3>1, <3>2
  <2>4. DialogPlace' /\ BarInv'
    BY <1>1, <2>1, <2>2, <2>3 DEF DialogInv, DialogPlace, BarInv, Places
  <2>5. AnswerInv' /\ CancelInv'
    BY <2>1, <2>2, <2>3 DEF AnswerInv, CancelInv
  <2> QED BY <2>4, <2>5 DEF DialogInv
<1> QED BY <1>2, <1>3

\* The user presses a button: it is the first one, so no other is reported with it.
LEMMA PressDialog ==
    ASSUME DialogInv, User
    PROVE  DialogInv'
<1>1. PICK b \in Answer : Press(b)
  BY DEF User, Answer
<1>2. /\ button = "none" /\ button' = b /\ dialog # "none"
      /\ msgs' = Append(msgs, [of |-> dialog, button |-> b])
      /\ UNCHANGED <<dialog_action, progress_action, prev_prc, dialog, bars>>
      /\ UNCHANGED <<pc, ktr, chunk, late>> /\ (dialog = "bars" => b = "ESCAPE")
  BY <1>1 DEF Press, User, jobVars
<1>3. /\ msgs \in Seq(Message) /\ (InJob' <=> InJob)
      /\ (dialog = "question" /\ pc = "wait") \/ (dialog = "bars" /\ InJob)
  <2>1. msgs \in Seq(Message) /\ UNCHANGED pc
    BY <1>2 DEF DialogInv, DialogPlace
  <2>2. dialog = IF pc = "wait" THEN "question" ELSE IF InJob THEN "bars" ELSE "none"
    BY <1>2 DEF DialogInv, DialogPlace
  <2>3. InJob' <=> InJob
    BY <2>1 DEF InJob
  <2> QED BY <1>2, <2>1, <2>2, <2>3
<1>4. [of |-> dialog, button |-> b] \in Message
  BY <1>3 DEF Message
<1>5. msgs' \in Seq(Message)
  BY <1>2, <1>3, <1>4
<1>6. \A i \in DOMAIN msgs' :
         \/ i \in DOMAIN msgs /\ msgs'[i] = msgs[i]
         \/ msgs'[i].of = dialog /\ msgs'[i].button = b
  BY <1>2, <1>3
<1>7. \A i \in DOMAIN msgs : msgs[i] \in Message
  BY <1>3
<1>8. DialogPlace' /\ BarInv'
  <2>1. DialogPlace'
    BY <1>1, <1>2, <1>3, <1>5 DEF DialogInv, DialogPlace
  <2>2. BarInv'
    BY <1>2, <1>3 DEF DialogInv, BarInv
  <2> QED BY <2>1, <2>2
<1>9. CASE dialog = "question" /\ pc = "wait"
  <2>1. \A i \in DOMAIN msgs : msgs[i].of # "question"
    BY <1>2, <1>7, <1>9 DEF DialogInv, AnswerInv, Message, Answer
  <2>2. dialog_action = 0 /\ NoCall("bars") /\ late = 0 /\ ~ InJob
    BY <1>2, <1>9 DEF DialogInv, AnswerInv, CancelInv, InJob
  <2>3. AnswerInv' /\ CancelInv'
    BY <1>2, <1>3, <1>6, <1>9, <2>1, <2>2 DEF AnswerInv, CancelInv, NoCall
  <2> QED BY <1>8, <2>3 DEF DialogInv
<1>10. CASE dialog = "bars" /\ InJob
  <2>1. NoCall("question") /\ pc # "wait" /\ b = "ESCAPE"
    BY <1>2, <1>10 DEF DialogInv, AnswerInv, InJob
  <2>2. AnswerInv'
    BY <1>2, <1>6, <1>10, <2>1 DEF AnswerInv, NoCall
  <2>3. CancelInv'
    BY <1>2, <1>3, <1>6, <1>10, <2>1 DEF DialogInv, CancelInv
  <2> QED BY <1>8, <2>2, <2>3 DEF DialogInv
<1> QED BY <1>3, <1>9, <1>10

LEMMA NextDialog == DialogInv /\ [Next]_vars => DialogInv'
<1> SUFFICES ASSUME DialogInv, [Next]_vars PROVE DialogInv'
  OBVIOUS
<1>1. CASE UNCHANGED vars
  BY <1>1, QuietDialog DEF vars
<1>2. CASE Frame \/ Flip \/ Wait
  BY <1>2, CalledDialog DEF Frame, Flip, Wait, jobVars
<1>3. CASE Typing
  BY <1>3, CalledDialog, QuietDialog DEF Typing, jobVars
<1>4. CASE Program /\ ~ (Frame \/ Flip \/ Wait \/ Typing)
  BY <1>4, QuietDialog, OpenDialog, CloseDialog, WorkDialog DEF Program
<1>5. CASE User
  BY <1>5, PressDialog
<1>6. CASE Next /\ ~ Program /\ ~ User
  BY <1>6, QuietDialog DEF Next
<1> QED BY <1>1, <1>2, <1>3, <1>4, <1>5, <1>6

LEMMA DialogAlways == Spec => []DialogInv
<1> QED BY InitDialog, NextDialog, PTL DEF Spec

\* The bars of a job show what the program believes they show.
THEOREM BarsExactCorrect == Spec => []BarsExact
<1>1. DialogInv => BarsExact
  BY DEF DialogInv, DialogPlace, BarInv, BarsExact
<1> QED BY <1>1, DialogAlways, PTL

\* A job stops early only by its own cancelling, and after one more piece of work.
THEOREM CancelHonouredCorrect == Spec => []CancelHonoured
<1>1. DialogInv => CancelHonoured
  BY DEF DialogInv, CancelInv, CancelHonoured, InJob
<1> QED BY <1>1, DialogAlways, PTL

\* A question is left with an answer to this very question.
THEOREM ConsentCorrect == Spec => Consent
<1> DEFINE Asked == pc = "wait" /\ pc' # "wait" =>
                      button # "none" /\ (pc' \in {"open", "quit"} <=> button = "YES")
<1>1. DialogInv /\ [Next]_vars => [Asked]_vars
  <2> SUFFICES ASSUME DialogInv, Next, pc = "wait", pc' # "wait"
               PROVE  button # "none" /\ (pc' \in {"open", "quit"} <=> button = "YES")
    OBVIOUS
  <2>1. Answered
    BY DEF Next, Program, User, Frame, NoWait, Ask, AskText, Typing, TextReturned, Wait,
       OpenBars, BeginEntry, BeginWork, DoChunk, CheckChunk, DoWhole, Flip, EndEntry,
       EndJob, CloseBars, AskLost, NoWork, ErrorChunk, EndFile, Goto
  <2>2. /\ dialog_action # 0
        /\ pc' = IF dialog_action # 1 THEN "frame" ELSE IF asked = "quit" THEN "quit" ELSE "open"
    BY <2>1 DEF Answered
  <2> QED BY <2>2 DEF DialogInv, AnswerInv
<1> QED BY <1>1, DialogAlways, PTL DEF Spec, Consent

\* What the keyboard holds, where it is.
OskTypes ==
    /\ oskpc \in {"out", "setup", "loop", "end", "overrun"}
    /\ held \subseteq {"container", "callback"}

LEMMA NextOskTypes == OskTypes /\ [Next]_vars => OskTypes'
<1> SUFFICES ASSUME OskTypes, [Next]_vars PROVE OskTypes'
  OBVIOUS
<1> USE DEF OskTypes
<1>1. CASE UNCHANGED oskVars
  BY <1>1 DEF oskVars
<1>2. CASE OskCallbacks
  BY <1>2 DEF OskCallbacks
<1>3. CASE AskText
  BY <1>3 DEF AskText, Get_OSK_String
<1>4. CASE SetupFail \/ Load \/ OskFrame \/ OskReturn
  <2>1. CASE SetupFail
    BY <2>1 DEF SetupFail
  <2>2. CASE Load
    BY <2>2 DEF Load
  <2>3. CASE OskFrame
    BY <2>3 DEF OskFrame, Return
  <2>4. CASE OskReturn
    BY <2>4 DEF OskReturn
  <2> QED BY <1>4, <2>1, <2>2, <2>3, <2>4
<1>5. CASE TextReturned
  BY <1>5 DEF TextReturned
<1>6. CASE Keyboard
  BY <1>6 DEF Keyboard, KbEnter, KbCancel, KbUnloaded, Report
<1> HIDE DEF OskTypes
<1>7. CASE Next
  BY <1>1, <1>2, <1>3, <1>4, <1>5, <1>6, <1>7, OskSteps
<1> QED BY <1>1, <1>7 DEF vars

\* The program's place, its flags and counters and the bars have their types.
THEOREM TypeCorrect == Spec => []TypeOK
<1>1. Init => OskTypes
  BY DEF Init, OskInit, OskTypes
<1>2. OskTypes /\ DialogInv => TypeOK
  <2> SUFFICES ASSUME OskTypes, DialogInv PROVE TypeOK
    OBVIOUS
  <2>1. bars[0] \in 0 .. Entries /\ bars[1] \in 0 .. Chunks
    BY EntriesAssumption, ChunksAssumption DEF DialogInv, BarInv
  <2> QED BY <2>1 DEF OskTypes, DialogInv, DialogPlace, Places, TypeOK
<1> QED BY <1>1, <1>2, NextOskTypes, DialogAlways, PTL DEF Spec
-----------------------------------------------------------------------------
(* The buttons *)

\* What is new is held; a served press is still held and was seen, so it is not new.
\* The hands do not move between the reading of the pad and the command.
PadInv ==
    /\ new_pad \subseteq old_pad
    /\ served \subseteq butt \cap old_pad
    /\ new_pad \cap served = {} /\ "none" \notin served
    /\ pc = "command" => butt = old_pad

\* The command is one that a test of the chain has found.
LEMMA CommandYes ==
    ASSUME Command # "none"
    PROVE  Yes(Command)
<1> DEFINE Hits == {i \in DOMAIN Chain : Yes(Chain[i])}
<1>1. Command = IF Hits = {} THEN "none" ELSE Chain[Min(Hits)]
  BY DEF Command
<1>2. Hits \in SUBSET Nat
  <2>1. DOMAIN Chain = 1 .. 12
    BY DEF Chain
  <2> QED BY <2>1
<1>3. Min(Hits) \in Hits
  BY <1>1, <1>2, MinIn
<1>4. Yes(Chain[Min(Hits)])
  BY <1>3
<1> QED BY <1>1, <1>4

\* Only UP and DOWN may be found without being new, and only while they are held.
LEMMA YesHeld ==
    ASSUME NEW b, Yes(b)
    PROVE  b \in new_pad \/ (b \in {"UP", "DOWN"} /\ b \in old_pad)
<1>1. CASE b = "UP"
  <2>1. Up.yes
    BY <1>1 DEF Yes
  <2>2. "UP" \in new_pad \/ "UP" \in old_pad
    BY <2>1 DEF Up, APad, NPad, PPad
  <2> QED BY <1>1, <2>2
<1>2. CASE b = "DOWN"
  <2>1. Down.yes
    BY <1>2 DEF Yes
  <2>2. "DOWN" \in new_pad \/ "DOWN" \in old_pad
    BY <2>1 DEF Down, APad, NPad, PPad
  <2> QED BY <1>2, <2>2
<1>3. CASE b \notin {"UP", "DOWN"}
  BY <1>3 DEF Yes, NPad
<1> QED BY <1>1, <1>2, <1>3

\* How a step concerns the pad.
LEMMA PadSteps ==
    ASSUME Next
    PROVE  \/ ps3pad_read /\ (pc' = "command" => pc = "frame")
           \/ TakeCommand /\ pc = "command" /\ pc' # "command"
           \/ User /\ UNCHANGED pc
           \/ Hands /\ UNCHANGED pc /\ (pc = "frame" \/ oskpc = "loop")
           \/ UNCHANGED padVars /\ (pc' = "command" => pc = "command")
<1>1. CASE Program
  BY <1>1 DEF Program, Goto, Frame, NoWait, Ask, AskText, Typing, TextReturned, Wait,
     Answered, OpenBars, BeginEntry, BeginWork, DoChunk, CheckChunk, DoWhole, Flip,
     EndEntry, EndJob, CloseBars, AskLost, NoWork, ErrorChunk, EndFile
<1>2. CASE User
  BY <1>2 DEF User
<1>3. CASE Next /\ ~ Program /\ ~ User
  BY <1>3 DEF Next
<1> QED BY <1>1, <1>2, <1>3

LEMMA NextPad == PadInv /\ OskInv /\ DialogInv /\ [Next]_vars => PadInv'
<1> SUFFICES ASSUME PadInv, OskInv, DialogInv, [Next]_vars PROVE PadInv'
  OBVIOUS
<1>1. CASE ps3pad_read
  BY <1>1 DEF PadInv, ps3pad_read
<1>2. CASE TakeCommand /\ pc = "command" /\ pc' # "command"
  <2>1. Command = "none" \/ Command \in old_pad
    BY CommandYes, YesHeld DEF PadInv
  <2> QED BY <1>2, <2>1 DEF PadInv, TakeCommand
<1>3. CASE User /\ UNCHANGED pc
  <2>1. dialog # "none"
    BY <1>3 DEF User, Press
  <2>2. pc # "command"
    BY <2>1 DEF DialogInv, DialogPlace, InJob
  <2>3. UNCHANGED padVars \/ \E b : Strike(b)
    BY <1>3 DEF User
  <2> QED BY <1>3, <2>2, <2>3 DEF PadInv, Strike, padVars
<1>4. CASE Hands /\ UNCHANGED pc /\ (pc = "frame" \/ oskpc = "loop")
  <2>1. pc # "command"
    BY <1>4 DEF OskInv, OskPlace
  <2>2. PICK S : Hold(S)
    BY <1>4 DEF Hands
  <2> QED BY <1>4, <2>1, <2>2 DEF PadInv, Hold
<1>5. CASE UNCHANGED padVars /\ (pc' = "command" => pc = "command")
  BY <1>5 DEF PadInv, padVars
<1>6. CASE UNCHANGED vars
  BY <1>6 DEF PadInv, padVars, vars
<1> QED BY <1>1, <1>2, <1>3, <1>4, <1>5, <1>6, PadSteps

\* One press of a button is one command, but for UP and DOWN, which repeat while held.
THEOREM OncePerPressCorrect == Spec => OncePerPress
<1> DEFINE Once == pc = "command" /\ pc' # "command" =>
                     LET b == Command IN
                     b \in served => b \in {"UP", "DOWN"} /\ Repeated(b)
<1>1. Init => PadInv
  BY DEF Init, PadInit, PadInv
<1>2. PadInv => Once
  <2> SUFFICES ASSUME PadInv, Command \in served
               PROVE  Command \in {"UP", "DOWN"} /\ Repeated(Command)
    OBVIOUS
  <2>1. Command # "none" /\ Command \notin new_pad
    BY DEF PadInv
  <2>2. Command \in {"UP", "DOWN"}
    BY <2>1, CommandYes, YesHeld
  <2> QED BY <2>1, <2>2 DEF Repeated, NPad
<1> HIDE DEF Once
<1>3. Spec => []PadInv
  BY <1>1, NextPad, OskAlways, DialogAlways, PTL DEF Spec
<1>4. Spec => [][Once]_vars
  BY <1>2, <1>3, PTL
<1> QED BY <1>4 DEF Once, OncePerPress
=============================================================================
