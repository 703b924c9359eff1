------------------------------ MODULE RandomColor ------------------------------
(***************************************************************************)
(* The colours a page draws its events in: static/randomcolor called with  *)
(* a colour's name, a luminosity and a count, without a seed: a hue, then  *)
(* a saturation that suits it, then a brightness that suits both.          *)
(*                                                                         *)
(* A number is an integer count of parts, Unit parts to one, so that every *)
(* division below is exact; Math.random() is one of Draws, in shares of    *)
(* Grain.                                                                  *)
(***************************************************************************)
EXTENDS Integers, Sequences

CONSTANTS Grain, Draws

VARIABLE color \* what is being drawn: its use; its hue, then its saturation too, then its digits

ASSUME DrawsAssumption == Grain \in Nat \ {0} /\ Draws \subseteq 0 .. Grain - 1

Unit == 120

\* A name with its hues and, as saturation grows, the least brightness that looks good.
DefineColor(name, hues, bounds) == [name |-> name, hueRange |-> hues, lowerBounds |-> bounds]

ColorDictionary == <<
    DefineColor("red", <<-26, 18>>,
        <<<<20, 100>>, <<30, 92>>, <<40, 89>>, <<50, 85>>, <<60, 78>>, <<70, 70>>, <<80, 60>>,
          <<90, 55>>, <<100, 50>>>>),
    DefineColor("orange", <<19, 46>>,
        <<<<20, 100>>, <<30, 93>>, <<40, 88>>, <<50, 86>>, <<60, 85>>, <<70, 70>>, <<100, 70>>>>),
    DefineColor("yellow", <<47, 62>>,
        <<<<25, 100>>, <<40, 94>>, <<50, 89>>, <<60, 86>>, <<70, 84>>, <<80, 82>>, <<90, 80>>,
          <<100, 75>>>>),
    DefineColor("green", <<63, 178>>,
        <<<<30, 100>>, <<40, 90>>, <<50, 85>>, <<60, 81>>, <<70, 74>>, <<80, 64>>, <<90, 50>>,
          <<100, 40>>>>),
    DefineColor("blue", <<179, 257>>,
        <<<<20, 100>>, <<30, 86>>, <<40, 80>>, <<50, 74>>, <<60, 60>>, <<70, 52>>, <<80, 44>>,
          <<90, 39>>, <<100, 35>>>>),
    DefineColor("purple", <<258, 282>>,
        <<<<20, 100>>, <<30, 87>>, <<40, 79>>, <<50, 70>>, <<60, 65>>, <<70, 59>>, <<80, 52>>,
          <<90, 45>>, <<100, 42>>>>),
    DefineColor("pink", <<283, 334>>,
        <<<<20, 100>>, <<30, 90>>, <<40, 86>>, <<60, 84>>, <<80, 80>>, <<90, 75>>, <<100, 73>>>>) >>

HueRange(name) ==
    (CHOOSE c \in {ColorDictionary[i] : i \in DOMAIN ColorDictionary} : c.name = name).hueRange

\* The first colour that has the hue; the hues of red begin below 0.
ColorInfo(hue) ==
    LET h == IF hue >= 334 /\ hue <= 360 THEN hue - 360 ELSE hue
        has == {i \in DOMAIN ColorDictionary :
                    ColorDictionary[i].hueRange[1] <= h /\ h <= ColorDictionary[i].hueRange[2]}
    IN  ColorDictionary[CHOOSE i \in has : \A j \in has : i <= j]

SaturationRange(hue) ==
    LET bounds == ColorInfo(hue).lowerBounds
    IN  <<bounds[1][1], bounds[Len(bounds)][1]>>

Within(lo, hi, draw) == (lo * Grain + draw * (hi + Unit - lo)) \div (Grain * Unit)

PickHue(name, draw) ==
    LET range == HueRange(name)
        hue == Within(range[1] * Unit, range[2] * Unit, draw)
    IN  IF hue < 0 THEN 360 + hue ELSE hue

PickSaturation(hue, luminosity, draw) ==
    LET range == SaturationRange(hue)
        least == IF luminosity = "dark" THEN range[2] - 10 ELSE range[1]
        most  == IF luminosity = "light" THEN 55 ELSE range[2]
    IN  Within(least * Unit, most * Unit, draw)

\* In parts: on the line between the two bounds the saturation is between.
MinimumBrightness(hue, sat) ==
    LET bounds == ColorInfo(hue).lowerBounds
        has == {i \in 1 .. Len(bounds) - 1 : bounds[i][1] <= sat /\ sat <= bounds[i + 1][1]}
        i == CHOOSE i \in has : \A j \in has : i <= j
        m == (Unit * (bounds[i + 1][2] - bounds[i][2])) \div (bounds[i + 1][1] - bounds[i][1])
    IN  IF has = {} THEN 0 ELSE bounds[i][2] * Unit + m * (sat - bounds[i][1])

\* Faulty variant: a dark colour is as bright as any.
BrightnessOfAny(hue, sat, luminosity, draw) ==
    Within(MinimumBrightness(hue, sat), 100 * Unit, draw)

PickBrightness(hue, sat, luminosity, draw) ==
    LET min == MinimumBrightness(hue, sat)
    IN  CASE luminosity = "dark"  -> Within(min, min + 20 * Unit, draw)
          [] luminosity = "light" -> Within((100 * Unit + min) \div 2, 100 * Unit, draw)

\* Red, green and blue: h * 6 is sector and part / 60.
HSVtoRGB(hue, sat, val) ==
    LET h == IF hue = 0 THEN 1 ELSE IF hue = 360 THEN 359 ELSE hue
        part == h % 60
        Channel(share) == (255 * val * share) \div 600000
        v == Channel(6000)
        p == Channel(60 * (100 - sat))
        q == Channel(6000 - part * sat)
        t == Channel(6000 - (60 - part) * sat)
    IN  CASE h \div 60 = 0 -> <<v, t, p>>
          [] h \div 60 = 1 -> <<q, v, p>>
          [] h \div 60 = 2 -> <<p, v, t>>
          [] h \div 60 = 3 -> <<p, q, v>>
          [] h \div 60 = 4 -> <<t, p, v>>
          [] h \div 60 = 5 -> <<v, p, q>>

\* toString(16) of a number below 4096, in two digits at least.
ComponentToHex(c) ==
    IF c < 256 THEN <<c \div 16, c % 16>> ELSE <<c \div 256, (c \div 16) % 16, c % 16>>

HSVtoHex(hue, sat, val) ==
    LET rgb == HSVtoRGB(hue, sat, val)
    IN  ComponentToHex(rgb[1]) \o ComponentToHex(rgb[2]) \o ComponentToHex(rgb[3])

-----------------------------------------------------------------------------
(***************************************************************************)
(* The calls of getEventsLastXRange.  Of the colours of an array each is   *)
(* drawn by itself: this is one of them, whichever.                        *)
(***************************************************************************)
Call == [line |-> [hue |-> "green", luminosity |-> "light"],
         band |-> [hue |-> "yellow", luminosity |-> "light"],
         text |-> [hue |-> "green", luminosity |-> "dark"]]

Undrawn == {[use |-> u, known |-> <<>>] : u \in DOMAIN Call}

ColorInit == color \in Undrawn

DrawHue ==
    /\ Len(color.known) = 0
    /\ \E d \in Draws : color' = [color EXCEPT !.known = <<PickHue(Call[color.use].hue, d)>>]

DrawSaturation ==
    /\ Len(color.known) = 1
    /\ \E d \in Draws :
          LET sat == PickSaturation(color.known[1], Call[color.use].luminosity, d)
          IN  color' = [color EXCEPT !.known = Append(@, sat)]

DrawBrightness ==
    /\ Len(color.known) = 2
    /\ \E d \in Draws :
          LET hue == color.known[1]
              sat == color.known[2]
              val == PickBrightness(hue, sat, Call[color.use].luminosity, d)
          IN  color' = [color EXCEPT !.known = HSVtoHex(hue, sat, val)]

IsDrawn == Len(color.known) > 2

NextColor == IsDrawn /\ color' \in Undrawn

ColorNext == DrawHue \/ DrawSaturation \/ DrawBrightness \/ NextColor

\* A colour is six hexadecimal digits (HSVtoHex, componentToHex), and suits what it is for:
\* lines are light and rather green, bands light and rather yellow, and the text of a band is
\* green and so dark that it can be read on any band (getEventsLastXRange, randomColor).
ColorsSuitTheirUse ==
    IsDrawn =>
        LET Channel(i) == 16 * color.known[2 * i - 1] + color.known[2 * i]
            r == Channel(1)
            g == Channel(2)
            b == Channel(3)
        IN  /\ color.known \in [1 .. 6 -> 0 .. 15]
            /\ color.use = "line" => g >= r /\ g >= b /\ g > 217
            /\ color.use = "band" => r > b /\ g > b /\ (r > 217 \/ g > 217)
            /\ color.use = "text" => g > r /\ g > b /\ g < 180
=============================================================================
