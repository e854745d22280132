------------------------------- MODULE Lights -------------------------------
(***************************************************************************)
(* liblights/lights.c: five lights on two backlight chips, the button      *)
(* light and one RGB LED that three of them share.                         *)
(*                                                                         *)
(* Threads of the framework call set_light at any time; everything a call  *)
(* reads or writes is done under one static mutex (AbstractMutex), so the  *)
(* model has the call that holds it, and whose turn is next is free.  One  *)
(* action is one write to a sysfs file, which may fail.  The process may   *)
(* die and start again: its static variables are reset, the hardware       *)
(* keeps its state.                                                        *)
(***************************************************************************)
EXTENDS Integers, Sequences

CONSTANT Requests   \* what callers ask for: pairs of a light and a color

\* A color is <<red, green, blue>>.  Its alpha byte is left out: it decides
\* nothing but whether a color counts as unchanged (SetLed).
Black     == <<0, 0, 0>>
Byte      == 0 .. 255
AllColors == Byte \X Byte \X Byte
Colors    == {q[2] : q \in Requests} \cup {Black}

LedLights == {"attention", "notifications", "battery"}
Dimmed    == {"backlight", "buttons"}

ASSUME RequestsAssumption ==
    \A q \in Requests : q[1] \in LedLights \cup Dimmed /\ q[2] \in AllColors

VARIABLES
    turn,     \* the light whose call holds g_lock, or "none"
    todo,     \* the writes that call still has to make
    g,        \* g_attention, g_notification and g_battery: their colors
    speaker,  \* the color in g_speaker_light
    old,      \* the old_brightness of the backlight and of the buttons
    hw,       \* what was last written to every file
    shown,    \* what the LED shows since the last write to its update file
    bad       \* programs whose last execution failed or was cut off (history)

vars == <<turn, todo, g, speaker, old, hw, shown, bad>>

Files == {"red", "green", "blue", "lcd0", "lcd1", "button"}

\* The first process; the LED may have been left on before it.
Init ==
    /\ turn = "none"
    /\ todo = <<>>
    /\ g = [l \in LedLights |-> Black]
    /\ speaker = Black
    /\ old = [l \in Dimmed |-> -1]
    /\ shown \in Colors
    /\ hw = [f \in Files |-> IF f = "red" THEN shown[1] ELSE IF f = "green" THEN shown[2]
                             ELSE IF f = "blue" THEN shown[3] ELSE 0]
    /\ bad = {f \in {"led"} : shown # Black}

-----------------------------------------------------------------------------
(* Pure functions. *)

\* is_lit.
Lit(c) == c # Black

\* rgb_to_brightness(_2): the weights add up to 256, so scale is the range.
Weighted(c, scale) == (scale * (77 * c[1] + 150 * c[2] + 29 * c[3])) \div 256

\* update_speaker_light_locked: the light that gets the LED.
Winner(s) ==
    IF Lit(s["attention"]) THEN s["attention"]
    ELSE IF Lit(s["notifications"]) THEN s["notifications"] ELSE s["battery"]

\* The writes that give the LED the color c.
Rgb(c) == << <<"red", c[1]>>, <<"green", c[2]>>, <<"blue", c[3]>>, <<"update", 1>> >>

\* A plausible bug: the LED is not turned off first.
LedAtOnce(c) == Rgb(c)

\* set_speaker_light_locked: "turn off before on to reset timer".
LedProgram(c) == IF Lit(c) THEN Rgb(Black) \o Rgb(c) ELSE Rgb(c)

\* Plausible bugs: the chips get rounded-down halves; they get the sum.
HalfEach(l, b) ==
    IF l = "backlight" THEN << <<"lcd0", b \div 2>>, <<"lcd1", b \div 2>> >>
    ELSE << <<"button", b>> >>

WholeEach(l, b) ==
    IF l = "backlight" THEN << <<"lcd0", b>>, <<"lcd1", b>> >> ELSE << <<"button", b>> >>

\* The writes of set_light_backlight and set_light_buttons.
DimProgram(l, b) ==
    IF l = "backlight" THEN << <<"lcd0", b \div 2>>, <<"lcd1", (b + 1) \div 2>> >>
    ELSE << <<"button", b>> >>

Brightness(l, c) == Weighted(c, IF l = "backlight" THEN 2 ELSE 1)

-----------------------------------------------------------------------------
\* A plausible bug: the last call gets the LED, so turning the attention light
\* off hides a notification that is still on.
SetLedToLast(l, c) ==
    /\ turn = "none"
    /\ turn' = l
    /\ g' = [g EXCEPT ![l] = c]
    /\ speaker' = c
    /\ todo' = IF c = speaker THEN <<>> ELSE LedProgram(c)
    /\ bad' = IF c = speaker THEN bad ELSE bad \ {"led"}
    /\ UNCHANGED <<old, hw, shown>>

\* A call for a light of the LED: pthread_mutex_lock, then what it remembers
\* and decides.  A color that g_speaker_light has already is not written; it
\* is if its alpha byte differs, which the code compares too.
SetLed(l, c) ==
    /\ turn = "none"
    /\ turn' = l
    /\ g' = [g EXCEPT ![l] = c]
    /\ speaker' = Winner(g')
    /\ \/ speaker' = speaker /\ todo' = <<>> /\ UNCHANGED bad
       \/ todo' = LedProgram(speaker') /\ bad' = bad \ {"led"}
    /\ UNCHANGED <<old, hw, shown>>

\* A call for the backlight or the buttons; old_brightness is set whether or
\* not the writes succeed.
SetDimmed(l, c) ==
    LET b == Brightness(l, c)
    IN  /\ turn = "none"
        /\ turn' = l
        /\ old' = [old EXCEPT ![l] = b]
        /\ todo' = IF old[l] = b THEN <<>> ELSE DimProgram(l, b)
        /\ bad' = IF old[l] = b THEN bad ELSE bad \ {l}
        /\ UNCHANGED <<g, speaker, hw, shown>>

\* write_int.
Write ==
    /\ todo # <<>>
    /\ LET f == Head(todo)[1] IN
        /\ hw' = IF f = "update" THEN hw ELSE [hw EXCEPT ![f] = Head(todo)[2]]
        /\ shown' = IF f = "update" THEN <<hw["red"], hw["green"], hw["blue"]>> ELSE shown
    /\ todo' = Tail(todo)
    /\ UNCHANGED <<turn, g, speaker, old, bad>>

\* write_int fails: the LED's other files are written all the same, the second
\* backlight chip is not.
WriteFails ==
    /\ todo # <<>>
    /\ todo' = IF turn \in LedLights THEN Tail(todo) ELSE <<>>
    /\ bad' = bad \cup {IF turn \in LedLights THEN "led" ELSE turn}
    /\ UNCHANGED <<turn, g, speaker, old, hw, shown>>

\* pthread_mutex_unlock, when the writes are done.
Unlock ==
    /\ turn # "none" /\ todo = <<>>
    /\ turn' = "none"
    /\ UNCHANGED <<todo, g, speaker, old, hw, shown, bad>>

\* The process dies and starts again.
Restart ==
    /\ turn' = "none"
    /\ todo' = <<>>
    /\ g' = [l \in LedLights |-> Black]
    /\ speaker' = Black
    /\ old' = [l \in Dimmed |-> -1]
    /\ bad' = {"led"}
    /\ UNCHANGED <<hw, shown>>

Next ==
    \/ \E q \in Requests :
        \/ q[1] \in LedLights /\ SetLed(q[1], q[2])
        \/ q[1] \in Dimmed /\ SetDimmed(q[1], q[2])
    \/ Write \/ WriteFails \/ Unlock \/ Restart

Spec == Init /\ [][Next]_vars

-----------------------------------------------------------------------------
(* Properties. *)

\* Every variable has its type: what is written to a brightness file is one
\* byte, also where a sum of weighted colors is halved.
TypeOK ==
    /\ turn \in LedLights \cup Dimmed \cup {"none"}
    /\ g \in [LedLights -> Colors] /\ speaker \in Colors
    /\ old \in [Dimmed -> -1 .. 510]
    /\ hw \in [Files -> Byte]
    /\ bad \subseteq {"led"} \cup Dimmed

\* When no call has the lock, the LED shows the color of the light with the
\* highest priority that is lit, whatever was set in which order;
\* only a write that failed, or a new process, makes that wrong.
LedShowsWinner ==
    turn = "none" /\ "led" \notin bad =>
        \/ Lit(g["attention"]) /\ shown = g["attention"]
        \/ ~Lit(g["attention"]) /\ Lit(g["notifications"]) /\ shown = g["notifications"]
        \/ ~Lit(g["attention"]) /\ ~Lit(g["notifications"]) /\ shown = g["battery"]

\* "turn off before on to reset timer": the LED goes from one color to another
\* through black, and never shows a mixture of two.
OffBeforeOn ==
    [][shown' # shown /\ "led" \notin bad =>
        shown' \in {Black, speaker} /\ (Lit(shown) => ~Lit(shown'))]_vars

\* The two backlight chips differ by at most one step and add up to the
\* brightness that was asked for last, although unchanged values are skipped.
PanelsAgree ==
    turn = "none" /\ "backlight" \notin bad /\ old["backlight"] >= 0 =>
        /\ hw["lcd0"] + hw["lcd1"] = old["backlight"]
        /\ hw["lcd1"] - hw["lcd0"] \in {0, 1}
=============================================================================
