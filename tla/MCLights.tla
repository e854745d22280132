------------------------------ MODULE MCLights ------------------------------
(***************************************************************************)
(* Lights for TLC: the lights of the LED are set to black and to a color,  *)
(* not the same for the first two; the backlight to an odd brightness and  *)
(* to the highest one.                                                     *)
(***************************************************************************)
EXTENDS Lights

Red   == <<255, 0, 0>>
Cyan  == <<0, 255, 255>>
White == <<255, 255, 255>>

SomeRequests ==
    {<<"attention", c>> : c \in {Black, Red}}
        \cup {<<"notifications", c>> : c \in {Black, Cyan}}
        \cup {<<"battery", c>> : c \in {Black, Red}}
        \cup {<<"backlight", c>> : c \in {Red, White}}
        \cup {<<"buttons", Cyan>>}
=============================================================================
