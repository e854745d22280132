---------------------------- MODULE LightsProofs ----------------------------
(***************************************************************************)
(* Proofs about Lights, for every set of lights and colors asked for.      *)
(***************************************************************************)
EXTENDS Lights, SequenceTheorems, TLAPS

(***************************************************************************)
(* What the properties need besides themselves.                            *)
(***************************************************************************)

\* The files that the call for a light writes.
FilesOf(l) ==
    IF l \in LedLights THEN {"red", "green", "blue", "update"}
    ELSE IF l = "backlight" THEN {"lcd0", "lcd1"} ELSE {"button"}

\* The writes a call still has to make are bytes for its own files.
TodoFits ==
    /\ turn = "none" => todo = <<>>
    /\ turn # "none" => todo \in Seq(FilesOf(turn) \X Byte)

\* g_speaker_light is the light that gets the LED.
SpeakerIsWinner == speaker = Winner(g)

\* The LED shows g_speaker_light, except while a call is giving it a new color.
\* Full is the longest program; LedAt says how far a call has come in it when n
\* writes are left.
Full(c) ==
    << <<"red", 0>>, <<"green", 0>>, <<"blue", 0>>, <<"update", 1>>,
       <<"red", c[1]>>, <<"green", c[2]>>, <<"blue", c[3]>>, <<"update", 1>> >>

LedAt(n) ==
    /\ n = 0 => shown = speaker
    /\ n \in 1 .. 4 /\ Lit(speaker) => shown = Black
    /\ n \in 1 .. 3 => hw["red"] = speaker[1]
    /\ n \in 1 .. 2 => hw["green"] = speaker[2]
    /\ n = 1 => hw["blue"] = speaker[3]
    /\ n \in 5 .. 7 => hw["red"] = 0
    /\ n \in 5 .. 6 => hw["green"] = 0
    /\ n = 5 => hw["blue"] = 0

LedProgress ==
    "led" \notin bad =>
        /\ turn \notin LedLights => shown = speaker
        /\ turn \in LedLights =>
            /\ Len(todo) \in 0 .. 8
            /\ \A i \in 1 .. Len(todo) : todo[i] = Full(speaker)[8 - Len(todo) + i]
            /\ LedAt(Len(todo))

\* The chips have got their halves of old_brightness, except while a call is
\* writing them, the first chip first.
PanelsProgress ==
    "backlight" \notin bad /\ old["backlight"] >= 0 =>
        /\ turn # "backlight" =>
            /\ hw["lcd0"] = old["backlight"] \div 2
            /\ hw["lcd1"] = (old["backlight"] + 1) \div 2
        /\ turn = "backlight" =>
            /\ Len(todo) \in 0 .. 2
            /\ Len(todo) = 2 => todo[1] = <<"lcd0", old["backlight"] \div 2>>
            /\ Len(todo) < 2 => hw["lcd0"] = old["backlight"] \div 2
            /\ Len(todo) >= 1 =>
                todo[Len(todo)] = <<"lcd1", (old["backlight"] + 1) \div 2>>
            /\ Len(todo) = 0 => hw["lcd1"] = (old["backlight"] + 1) \div 2

\* The inductive invariant.
IInv == TypeOK /\ TodoFits /\ SpeakerIsWinner /\ LedProgress /\ PanelsProgress

USE DEF LedLights, Dimmed, Files, FilesOf

-----------------------------------------------------------------------------
(* Colors, brightness and the programs. *)

LEMMA SmallBytes == 0 \in Byte /\ 1 \in Byte
BY DEF Byte

LEMMA ColorsAreBytes ==
    ASSUME NEW c \in Colors
    PROVE  /\ c \in AllColors
           /\ c[1] \in Byte /\ c[2] \in Byte /\ c[3] \in Byte
           /\ c = <<c[1], c[2], c[3]>>
BY RequestsAssumption, SmallBytes DEF Colors, AllColors, Black

LEMMA InRange ==
    ASSUME NEW k \in Int, NEW n \in Int, NEW m \in Int, k <= n, n <= m
    PROVE  n \in k .. m
OBVIOUS

LEMMA WeightsAddUp ==
    ASSUME NEW r \in Byte, NEW v \in Byte, NEW b \in Byte
    PROVE  77 * r + 150 * v + 29 * b \in Nat /\ 77 * r + 150 * v + 29 * b <= 256 * 255
BY DEF Byte

LEMMA ScaledSum ==
    ASSUME NEW w \in Nat, w <= 256 * 255
    PROVE  /\ (2 * w) \div 256 \in Nat /\ (2 * w) \div 256 <= 510
           /\ (1 * w) \div 256 \in Nat /\ (1 * w) \div 256 <= 255
OBVIOUS

\* The weights of rgb_to_brightness make at most the scale of a byte.
LEMMA BrightnessInRange ==
    ASSUME NEW l \in Dimmed, NEW c \in AllColors
    PROVE  /\ Brightness(l, c) \in Nat /\ Brightness(l, c) <= 510
           /\ l = "buttons" => Brightness(l, c) \in Byte
<1> DEFINE sum == 77 * c[1] + 150 * c[2] + 29 * c[3]
<1>1. sum \in Nat /\ sum <= 256 * 255
    <2>1. c[1] \in Byte /\ c[2] \in Byte /\ c[3] \in Byte  BY DEF AllColors
    <2> QED BY <2>1, WeightsAddUp
<1>2. Brightness(l, c) = ((IF l = "backlight" THEN 2 ELSE 1) * sum) \div 256
      BY Zenon DEF Brightness, Weighted
<1> HIDE DEF sum
<1> QED BY <1>1, <1>2, ScaledSum, InRange DEF Byte

LEMMA LedProgramShape ==
    ASSUME NEW c \in Colors
    PROVE  /\ LedProgram(c) \in Seq({"red", "green", "blue", "update"} \X Byte)
           /\ Len(LedProgram(c)) = IF Lit(c) THEN 8 ELSE 4
           /\ \A i \in 1 .. Len(LedProgram(c)) :
                LedProgram(c)[i] = Full(c)[8 - Len(LedProgram(c)) + i]
<1>1. c[1] \in Byte /\ c[2] \in Byte /\ c[3] \in Byte  BY ColorsAreBytes
<1>2. CASE Lit(c)
    <2>1. \A b \in {Black, c} :
            Rgb(b) \in Seq({"red", "green", "blue", "update"} \X Byte) /\ Len(Rgb(b)) = 4
          BY <1>1, SmallBytes DEF Rgb, Black
    <2> DEFINE p == LedProgram(c)
    <2>2. /\ p \in Seq({"red", "green", "blue", "update"} \X Byte) /\ Len(p) = 4 + 4
          /\ \A i \in 1 .. 4 + 4 : p[i] = IF i <= 4 THEN Rgb(Black)[i] ELSE Rgb(c)[i - 4]
        <3>1. p = Rgb(Black) \o Rgb(c)  BY <1>2 DEF LedProgram
        <3> DEFINE W == {"red", "green", "blue", "update"} \X Byte
        <3>2. Rgb(Black) \in Seq(W) /\ Rgb(c) \in Seq(W)  BY <2>1
        <3>3. Len(Rgb(Black)) = 4 /\ Len(Rgb(c)) = 4  BY <2>1
        <3> HIDE DEF p, W
        <3>4. /\ p \in Seq(W) /\ Len(p) = Len(Rgb(Black)) + Len(Rgb(c))
              /\ \A i \in 1 .. Len(Rgb(Black)) + Len(Rgb(c)) :
                    p[i] = IF i <= Len(Rgb(Black)) THEN Rgb(Black)[i]
                           ELSE Rgb(c)[i - Len(Rgb(Black))]
              BY <3>1, <3>2, ConcatProperties
        <3> QED BY <3>3, <3>4 DEF W
    <2>3. \A i \in 1 .. 8 : p[i] = Full(c)[i]
        <3>1. \A i \in 1 .. 4 : Rgb(Black)[i] = Full(c)[i]  BY DEF Rgb, Black, Full
        <3>2. \A i \in 5 .. 8 : Rgb(c)[i - 4] = Full(c)[i]  BY DEF Rgb, Full
        <3> QED BY <2>2, <3>1, <3>2
    <2> QED BY <1>2, <2>2, <2>3
<1>3. CASE ~Lit(c)
    <2>1. LedProgram(c) = << <<"red", 0>>, <<"green", 0>>, <<"blue", 0>>, <<"update", 1>> >>
          BY <1>3 DEF LedProgram, Rgb, Lit, Black
    <2>2. c[1] = 0 /\ c[2] = 0 /\ c[3] = 0  BY <1>3 DEF Lit, Black
    <2> QED BY <1>3, <2>1, <2>2, SmallBytes DEF Full
<1> QED BY <1>2, <1>3

LEMMA DimProgramShape ==
    ASSUME NEW l \in Dimmed, NEW c \in AllColors
    PROVE  DimProgram(l, Brightness(l, c)) \in Seq(FilesOf(l) \X Byte)
<1>1. CASE l = "backlight"
    <2>1. ASSUME NEW b \in Nat, b <= 510 PROVE b \div 2 \in Byte /\ (b + 1) \div 2 \in Byte
        <3>1. /\ b \div 2 \in Nat /\ b \div 2 <= 255
              /\ (b + 1) \div 2 \in Nat /\ (b + 1) \div 2 <= 255
              BY <2>1
        <3> QED BY <3>1, InRange DEF Byte
    <2>2. /\ Brightness(l, c) \div 2 \in Byte
          /\ (Brightness(l, c) + 1) \div 2 \in Byte
          BY <2>1, BrightnessInRange
    <2> QED BY <1>1, <2>2 DEF DimProgram
<1>2. CASE l = "buttons"
    BY <1>2, BrightnessInRange DEF DimProgram
<1> QED BY <1>1, <1>2

LEMMA WinnerIsColor ==
    ASSUME NEW s \in [LedLights -> Colors]
    PROVE  Winner(s) \in Colors
BY DEF Winner

-----------------------------------------------------------------------------
(* The steps. *)

LEMMA InitEstablishes == Init => IInv
<1> SUFFICES ASSUME Init PROVE IInv
    OBVIOUS
<1>1. TypeOK
    <2>1. hw \in [Files -> Byte]  BY SmallBytes, ColorsAreBytes DEF Init
    <2> QED BY <2>1 DEF Init, TypeOK, Colors
<1>2. TodoFits /\ SpeakerIsWinner  BY DEF Init, TodoFits, SpeakerIsWinner, Winner
<1>3. LedProgress /\ PanelsProgress  BY DEF Init, LedProgress, PanelsProgress
<1> QED BY <1>1, <1>2, <1>3 DEF IInv

LEMMA SetLedPreserves ==
    ASSUME IInv, NEW l \in LedLights, NEW c \in Colors, SetLed(l, c)
    PROVE  IInv'
<1>1. /\ turn = "none" /\ turn' = l
      /\ g' = [g EXCEPT ![l] = c] /\ speaker' = Winner(g')
      /\ UNCHANGED <<old, hw, shown>>
      BY DEF SetLed
<1>2. g' \in [LedLights -> Colors]  BY <1>1 DEF IInv, TypeOK
<1>3. speaker' \in Colors  BY <1>1, <1>2, WinnerIsColor
<1>4. SpeakerIsWinner'  BY <1>1 DEF SpeakerIsWinner
<1>5. CASE speaker' = speaker /\ todo' = <<>> /\ UNCHANGED bad
    <2>1. todo' = <<>> /\ Len(todo') = 0 /\ bad' = bad  BY <1>5
    <2>2. TypeOK'  BY <1>1, <1>2, <1>3, <2>1 DEF IInv, TypeOK
    <2>3. TodoFits'  BY <1>1, <2>1 DEF TodoFits
    <2>4. LedProgress'
        <3>1. "led" \notin bad => LedAt(0)'  BY <1>1, <1>5 DEF IInv, LedProgress, LedAt
        <3> QED BY <1>1, <2>1, <3>1 DEF LedProgress
    <2>5. PanelsProgress'  BY <1>1, <2>1 DEF IInv, PanelsProgress
    <2> QED BY <1>4, <2>2, <2>3, <2>4, <2>5 DEF IInv
<1>6. CASE todo' = LedProgram(speaker') /\ bad' = bad \ {"led"}
    <2>1. todo' = LedProgram(speaker') /\ bad' = bad \ {"led"}  BY <1>6
    <2>2. /\ todo' \in Seq({"red", "green", "blue", "update"} \X Byte)
          /\ Len(todo') = IF Lit(speaker') THEN 8 ELSE 4
          /\ \A i \in 1 .. Len(todo') : todo'[i] = Full(speaker')[8 - Len(todo') + i]
          BY <1>3, <2>1, LedProgramShape
    <2>3. TypeOK'  BY <1>1, <1>2, <1>3, <2>1 DEF IInv, TypeOK
    <2>4. TodoFits'  BY <1>1, <2>2 DEF TodoFits
    \* A color starts at the top of Full, black in the middle of it.
    <2>5. LedProgress'
        <3>1. LedAt(8)'  BY DEF LedAt
        <3>2. ~Lit(speaker') => LedAt(4)'  BY DEF LedAt
        <3>3. LedAt(Len(todo))'  BY <2>2, <3>1, <3>2
        <3>4. Len(todo') \in 0 .. 8  BY <2>2
        <3> QED BY <1>1, <2>2, <3>3, <3>4 DEF LedProgress
    <2>6. PanelsProgress'  BY <1>1, <2>1 DEF IInv, PanelsProgress
    <2> QED BY <1>4, <2>3, <2>4, <2>5, <2>6 DEF IInv
<1> QED BY <1>5, <1>6 DEF SetLed

LEMMA SetDimmedPreserves ==
    ASSUME IInv, NEW l \in Dimmed, NEW c \in AllColors, SetDimmed(l, c)
    PROVE  IInv'
<1> DEFINE b == Brightness(l, c)
<1> USE DEF IInv, SetDimmed
<1>1. b \in Nat /\ b \in -1 .. 510
    <2>1. b \in Nat /\ b <= 510  BY BrightnessInRange
    <2> HIDE DEF b
    <2> QED BY <2>1, InRange
<1>2. DimProgram(l, b) \in Seq(FilesOf(l) \X Byte)  BY DimProgramShape
<1>3. /\ turn = "none" /\ turn' = l /\ old' = [old EXCEPT ![l] = b]
      /\ todo' = IF old[l] = b THEN <<>> ELSE DimProgram(l, b)
      /\ bad' = IF old[l] = b THEN bad ELSE bad \ {l}
      /\ UNCHANGED <<g, speaker, hw, shown>>
      OBVIOUS
<1> HIDE DEF b, SetDimmed
<1>4. TypeOK'  BY <1>1, <1>3 DEF TypeOK
<1>5. TodoFits'  BY <1>2, <1>3 DEF TodoFits
<1>6. SpeakerIsWinner'  BY <1>3 DEF SpeakerIsWinner
<1>7. LedProgress'  BY <1>3 DEF LedProgress
<1>8. PanelsProgress'
    <2>1. CASE l = "buttons"  BY <1>3, <2>1 DEF PanelsProgress, TypeOK
    \* A brightness that is skipped has been written before.
    <2>2. CASE l = "backlight" /\ old[l] = b
          BY <1>1, <1>3, <2>2 DEF PanelsProgress, TypeOK
    <2>3. CASE l = "backlight" /\ old[l] # b
        <3>1. todo' = << <<"lcd0", b \div 2>>, <<"lcd1", (b + 1) \div 2>> >> /\ old'["backlight"] = b
              BY <1>3, <2>3 DEF DimProgram, TypeOK
        <3>2. Len(todo') = 2  BY <3>1
        <3>3. todo'[1] = <<"lcd0", b \div 2>> /\ todo'[2] = <<"lcd1", (b + 1) \div 2>>  BY <3>1
        <3> QED BY <1>3, <2>3, <3>1, <3>2, <3>3 DEF PanelsProgress
    <2> QED BY <2>1, <2>2, <2>3
<1> QED BY <1>4, <1>5, <1>6, <1>7, <1>8

\* What the next write of a call is.
LEMMA NextWrite ==
    ASSUME IInv, todo # <<>>
    PROVE  /\ turn \in LedLights \cup Dimmed
           /\ todo[1] \in FilesOf(turn) \X Byte /\ Head(todo) = todo[1]
           /\ Tail(todo) \in Seq(FilesOf(turn) \X Byte)
           /\ Len(todo) \in Nat \ {0} /\ Len(Tail(todo)) = Len(todo) - 1
           /\ \A i \in 1 .. Len(todo) - 1 : Tail(todo)[i] = todo[i + 1]
<1>1. turn # "none" /\ turn \in LedLights \cup Dimmed  BY DEF IInv, TypeOK, TodoFits
<1> DEFINE S == FilesOf(turn) \X Byte
<1>2. todo \in Seq(S)  BY <1>1 DEF IInv, TodoFits
<1> HIDE DEF S
<1>3. /\ Head(todo) \in S /\ Tail(todo) \in Seq(S) /\ Len(Tail(todo)) = Len(todo) - 1
      /\ \A i \in 1 .. Len(Tail(todo)) : Tail(todo)[i] = todo[i + 1]
      BY <1>2, HeadTailProperties
<1>4. Head(todo) = todo[1]  BY <1>2
<1>5. Len(todo) \in Nat \ {0}  BY <1>2, EmptySeq
<1> QED BY <1>1, <1>3, <1>4, <1>5 DEF S

LEMMA WritePreserves ==
    ASSUME IInv, Write
    PROVE  IInv'
<1> DEFINE f == todo[1][1]
           v == todo[1][2]
<1>1. /\ todo # <<>> /\ todo' = Tail(todo)
      /\ hw' = IF f = "update" THEN hw ELSE [hw EXCEPT ![f] = v]
      /\ shown' = IF f = "update" THEN <<hw["red"], hw["green"], hw["blue"]>> ELSE shown
      /\ UNCHANGED <<turn, g, speaker, old, bad>>
      BY NextWrite DEF Write
<1>2. f \in FilesOf(turn) /\ v \in Byte /\ turn \in LedLights \cup Dimmed
      BY <1>1, NextWrite
<1> USE DEF IInv
<1>3. TypeOK'  BY <1>1, <1>2 DEF TypeOK
<1>4. TodoFits'  BY <1>1, NextWrite DEF TodoFits
<1>5. SpeakerIsWinner'  BY <1>1 DEF SpeakerIsWinner
<1>6. CASE turn \in LedLights
    <2>1. PanelsProgress'  BY <1>1, <1>2, <1>6 DEF PanelsProgress, TypeOK
    <2>2. LedProgress'
        <3> SUFFICES ASSUME "led" \notin bad PROVE LedProgress'
            BY <1>1 DEF LedProgress
        <3>1. PICK n \in 1 .. 8 : n = Len(todo)
              BY <1>1, <1>6, NextWrite DEF LedProgress
        <3>2. /\ Len(todo') = n - 1
              /\ \A i \in 1 .. n : todo[i] = Full(speaker)[8 - n + i]
              /\ \A i \in 1 .. n - 1 : todo'[i] = todo[i + 1]
              BY <1>1, <1>6, <3>1, NextWrite DEF LedProgress
        <3>3. \A i \in 1 .. n - 1 : todo'[i] = Full(speaker)[8 - (n - 1) + i]
              BY <3>2
        <3>4. LedAt(n)  BY <1>6, <3>1 DEF LedProgress
        <3>5. todo[1] = Full(speaker)[9 - n]  BY <3>2
        <3>6. speaker = <<speaker[1], speaker[2], speaker[3]>> /\ hw \in [Files -> Byte]
              BY ColorsAreBytes DEF TypeOK
        <3>7. LedAt(n - 1)'
            <4> USE DEF LedAt, Full
            <4>1. CASE n \in {6, 7, 8}  BY <1>1, <3>4, <3>5, <3>6, <4>1
            \* The first update: the LED goes off.
            <4>2. CASE n = 5  BY <1>1, <3>4, <3>5, <3>6, <4>2 DEF Black
            <4>3. CASE n \in {2, 3, 4}  BY <1>1, <3>4, <3>5, <3>6, <4>3
            \* The second one: it shows the color of all three files.
            <4>4. CASE n = 1  BY <1>1, <3>4, <3>5, <3>6, <4>4
            <4> QED BY <4>1, <4>2, <4>3, <4>4
        <3>8. turn' = turn /\ speaker' = speaker  BY <1>1
        <3>9. Len(todo') \in 0 .. 8  BY <3>2
        <3>10. \A i \in 1 .. Len(todo') : todo'[i] = Full(speaker)[8 - Len(todo') + i]
              BY <3>2, <3>3
        <3>11. LedAt(Len(todo))'  BY <3>2, <3>7 DEF LedAt
        <3>12. turn' \in LedLights  BY <1>6, <3>8
        <3>13. (\A i \in 1 .. Len(todo) : todo[i] = Full(speaker)[8 - Len(todo) + i])'
              BY <3>8, <3>10 DEF Full
        <3> QED BY <3>11, <3>12, <3>13, <3>9 DEF LedProgress
    <2> QED BY <1>3, <1>4, <1>5, <2>1, <2>2
<1>7. CASE turn \in Dimmed
    <2>1. LedProgress'  BY <1>1, <1>2, <1>7 DEF LedProgress, TypeOK
    <2>2. PanelsProgress'
        <3>1. CASE turn = "buttons"  BY <1>1, <1>2, <3>1 DEF PanelsProgress, TypeOK
        <3>2. CASE turn = "backlight"
            <4> SUFFICES ASSUME "backlight" \notin bad, old["backlight"] >= 0 PROVE PanelsProgress'
                BY <1>1 DEF PanelsProgress
            <4>1. Len(todo) \in {1, 2} /\ Len(todo') = Len(todo) - 1
                  BY <1>1, <3>2, NextWrite DEF PanelsProgress
            <4>2. turn' = "backlight" /\ old'["backlight"] = old["backlight"]  BY <1>1, <3>2
            <4>3. CASE Len(todo) = 2
                <5>1. todo[1] = <<"lcd0", old["backlight"] \div 2>> /\ todo'[1] = todo[2]
                      BY <1>1, <3>2, <4>3, NextWrite DEF PanelsProgress
                <5>2. hw'["lcd0"] = old["backlight"] \div 2  BY <1>1, <5>1 DEF TypeOK
                <5>3. todo[2] = <<"lcd1", (old["backlight"] + 1) \div 2>>
                      BY <3>2, <4>3 DEF PanelsProgress
                <5>4. Len(todo') = 1 /\ todo'[Len(todo')] = todo[2]  BY <4>1, <4>3, <5>1
                <5> QED BY <4>2, <5>2, <5>3, <5>4 DEF PanelsProgress
            <4>4. CASE Len(todo) = 1
                <5>1. todo[1] = <<"lcd1", (old["backlight"] + 1) \div 2>>
                      BY <3>2, <4>4 DEF PanelsProgress
                <5>2. hw["lcd0"] = old["backlight"] \div 2  BY <3>2, <4>4 DEF PanelsProgress
                <5>3. /\ hw'["lcd0"] = old["backlight"] \div 2
                      /\ hw'["lcd1"] = (old["backlight"] + 1) \div 2
                      BY <1>1, <5>1, <5>2 DEF TypeOK
                <5>4. Len(todo') = 0  BY <4>1, <4>4
                <5> QED BY <4>2, <5>3, <5>4 DEF PanelsProgress
            <4> QED BY <4>1, <4>3, <4>4
        <3> QED BY <1>7, <3>1, <3>2
    <2> QED BY <1>3, <1>4, <1>5, <2>1, <2>2
<1> QED BY <1>2, <1>6, <1>7

LEMMA OtherStepsPreserve ==
    ASSUME IInv, WriteFails \/ Unlock \/ Restart
    PROVE  IInv'
<1> USE DEF IInv
<1>1. CASE WriteFails
    <2>1. turn \in LedLights \cup Dimmed /\ Tail(todo) \in Seq(FilesOf(turn) \X Byte)
          BY <1>1, NextWrite DEF WriteFails
    <2>2. TypeOK'  BY <1>1, <2>1 DEF WriteFails, TypeOK
    <2>3. TodoFits'  BY <1>1, <2>1 DEF WriteFails, TodoFits
    <2>4. SpeakerIsWinner'  BY <1>1 DEF WriteFails, SpeakerIsWinner
    <2>5. LedProgress'  BY <1>1, <2>1 DEF WriteFails, LedProgress
    <2>6. PanelsProgress'  BY <1>1, <2>1 DEF WriteFails, PanelsProgress
    <2> QED BY <2>2, <2>3, <2>4, <2>5, <2>6
<1>2. CASE Unlock
    <2>1. TypeOK' /\ TodoFits' /\ SpeakerIsWinner'
          BY <1>2 DEF Unlock, TypeOK, TodoFits, SpeakerIsWinner
    <2>2. LedProgress'  BY <1>2 DEF Unlock, LedProgress, LedAt
    <2>3. PanelsProgress'  BY <1>2 DEF Unlock, PanelsProgress
    <2> QED BY <2>1, <2>2, <2>3
<1>3. CASE Restart
    <2>1. TypeOK'  BY <1>3 DEF Restart, TypeOK, Colors
    <2>2. TodoFits' /\ SpeakerIsWinner'  BY <1>3 DEF Restart, TodoFits, SpeakerIsWinner, Winner
    <2>3. LedProgress' /\ PanelsProgress'  BY <1>3 DEF Restart, LedProgress, PanelsProgress
    <2> QED BY <2>1, <2>2, <2>3
<1> QED BY <1>1, <1>2, <1>3

LEMMA NextPreserves == IInv /\ [Next]_vars => IInv'
<1> SUFFICES ASSUME IInv, [Next]_vars PROVE IInv'
    OBVIOUS
<1>1. CASE UNCHANGED vars
    BY <1>1 DEF vars, IInv, TypeOK, TodoFits, SpeakerIsWinner, LedProgress, LedAt, PanelsProgress
<1>2. ASSUME NEW q \in Requests,
             \/ q[1] \in LedLights /\ SetLed(q[1], q[2])
             \/ q[1] \in Dimmed /\ SetDimmed(q[1], q[2])
      PROVE  IInv'
    <2>1. q[2] \in Colors /\ q[2] \in AllColors  BY RequestsAssumption DEF Colors
    <2> QED BY <1>2, <2>1, SetLedPreserves, SetDimmedPreserves
<1> QED BY <1>1, <1>2, WritePreserves, OtherStepsPreserve DEF Next

-----------------------------------------------------------------------------
\* The inductive invariant holds of every reachable state.
THEOREM Invariance == Spec => []IInv
BY InitEstablishes, NextPreserves, PTL DEF Spec
\* Every variable keeps its type: the LED and the backlight chips get bytes,
\* for every color, although the weighted sums go up to 510.
THEOREM TypeCorrect == Spec => []TypeOK
<1>1. IInv => TypeOK  BY DEF IInv
<1> QED BY <1>1, Invariance, PTL

\* update_speaker_light_locked gives the LED to the light with the highest
\* priority that is lit, in whatever order the three lights are set.
THEOREM LedRight == Spec => []LedShowsWinner
<1>1. IInv => LedShowsWinner
      BY DEF IInv, LedProgress, SpeakerIsWinner, Winner, LedShowsWinner
<1> QED BY <1>1, Invariance, PTL

\* set_light_backlight leaves the two chips with halves of one brightness, also
\* where it skips a brightness that it has written before.
THEOREM PanelsRight == Spec => []PanelsAgree
<1>1. IInv => PanelsAgree
    <2> SUFFICES ASSUME IInv, turn = "none", "backlight" \notin bad, old["backlight"] >= 0
                 PROVE  /\ hw["lcd0"] + hw["lcd1"] = old["backlight"]
                        /\ hw["lcd1"] - hw["lcd0"] \in {0, 1}
        BY DEF PanelsAgree
    <2>1. /\ hw["lcd0"] = old["backlight"] \div 2
          /\ hw["lcd1"] = (old["backlight"] + 1) \div 2
          BY DEF IInv, PanelsProgress
    <2>2. old["backlight"] \in Nat  BY DEF IInv, TypeOK
    <2>3. ASSUME NEW b \in Nat
          PROVE  b \div 2 + (b + 1) \div 2 = b /\ (b + 1) \div 2 - b \div 2 \in {0, 1}
          OBVIOUS
    <2> QED BY <2>1, <2>2, <2>3
<1> QED BY <1>1, Invariance, PTL

\* set_speaker_light_locked's "turn off before on to reset timer": the LED goes
\* from one color to another through black, and shows no mixture of two.
THEOREM LedGoesOff == Spec => OffBeforeOn
<1> DEFINE ThroughBlack ==
        shown' # shown /\ "led" \notin bad =>
            shown' \in {Black, speaker} /\ (Lit(shown) => ~Lit(shown'))
<1>1. IInv /\ [Next]_vars => [ThroughBlack]_vars
    <2> SUFFICES ASSUME IInv, Next, shown' # shown, "led" \notin bad
                 PROVE  shown' \in {Black, speaker} /\ (Lit(shown) => ~Lit(shown'))
        OBVIOUS
    <2>1. Write  BY DEF Next, SetLed, SetDimmed, WriteFails, Unlock, Restart
    <2>2. /\ todo # <<>> /\ todo[1][1] = "update"
          /\ shown' = <<hw["red"], hw["green"], hw["blue"]>>
          BY <2>1, NextWrite DEF Write
    <2>3. turn \in LedLights  BY <2>2, NextWrite
    <2>4. PICK n \in 1 .. 8 : n = Len(todo)
          BY <2>2, <2>3, NextWrite DEF IInv, LedProgress
    <2>5. todo[1] = Full(speaker)[9 - n] /\ LedAt(n)
          BY <2>3, <2>4 DEF IInv, LedProgress
    <2>6. n \in {1, 5}  BY <2>2, <2>5 DEF Full
    <2>7. CASE n = 5
          BY <2>2, <2>5, <2>7 DEF LedAt, Black, Lit
    <2>8. CASE n = 1
        <3>1. shown' = speaker
              BY <2>2, <2>5, <2>8, ColorsAreBytes DEF LedAt, IInv, TypeOK
        <3> QED BY <2>5, <2>8, <3>1 DEF LedAt, Lit
    <2> QED BY <2>6, <2>7, <2>8
<1> QED BY <1>1, Invariance, PTL DEF Spec, OffBeforeOn
=============================================================================
