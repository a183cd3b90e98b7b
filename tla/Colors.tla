--------------------------------- MODULE Colors ----------------------------------
(***************************************************************************)
(* src/Common/src/util/ColorUtil.js: colour codes in their five formats,   *)
(* conversions between RGB, HSV and HSL, and the colour a picker keeps     *)
(* while its fields are edited one by one, well or badly.  Fractions are   *)
(* exact here; the code's are floating-point numbers that it rounds.       *)
(***************************************************************************)
EXTENDS Integers, Sequences

CONSTANTS
  HexInputs,   \* the codes typed into the hex field, NotHex for one that is none
  Levels,      \* the values typed into a field for red, green or blue
  HsvInputs,   \* what the fields and sliders for hue, saturation and value give
  Deltas,      \* by how much a key moves saturation and value
  Alphas,
  MaxEdits     \* bound: the edits

VARIABLES
  color,       \* what getNewColor() has returned
  edits

colorVars == <<color, edits>>

Channels == {"red", "green", "blue"}
Rgb(r, g, b) == [red |-> r, green |-> g, blue |-> b]
Code(form, rgb, alpha) == [form |-> form, rgb |-> rgb, alpha |-> alpha]
NotHex == Code("none", Rgb(0, 0, 0), 0)    \* a code that cannot be read
NoHex == Code("empty", Rgb(0, 0, 0), 0)    \* ''
Blank == -1    \* an empty field: '', which counts as 0 in every calculation
Number(x) == IF x = Blank THEN 0 ELSE x

--------------------------------------------------------------------------------
(* Fractions <<n, d>> with d > 0                                           *)

gcd[m \in Nat, n \in Nat] == IF n = 0 THEN m ELSE gcd[n, m % n]
Abs(x) == IF x < 0 THEN -x ELSE x
Frac(n, d) == LET g == gcd[Abs(n), d] IN <<n \div g, d \div g>>
Whole(n) == <<n, 1>>
Plus(x, y) == Frac(x[1] * y[2] + y[1] * x[2], x[2] * y[2])
Minus(x, y) == Plus(x, <<-y[1], y[2]>>)
Times(x, y) ==
  LET p == Frac(x[1], y[2])
      q == Frac(y[1], x[2])
  IN <<p[1] * q[1], p[2] * q[2]>>
Floor(x) == x[1] \div x[2]
Round(x) == (2 * x[1] + x[2]) \div (2 * x[2])
Largest(S) == CHOOSE m \in S : \A x \in S : x <= m
Least(S) == CHOOSE m \in S : \A x \in S : m <= x
ChannelsOf(rgb) == {Number(rgb[c]) : c \in Channels}

--------------------------------------------------------------------------------
(* Codes                                                                   *)

\* The digits of #RGB are doubled.
HexToRgbElements(code) ==
  IF code.form = "short" THEN [c \in Channels |-> 17 * code.rgb[c]] ELSE code.rgb

HexToRgb(code) == Code("rgb", HexToRgbElements(code), 0)
RgbToHex(code) == Code("hex", code.rgb, 0)
RgbaToHex(code) == RgbToHex(Code("rgb", code.rgb, 0))
HexToRgba(code, opacity) == Code("rgba", HexToRgbElements(code), opacity)

ApplyOpacity(code, opacity) ==
  HexToRgba(CASE code.form = "rgba" -> RgbaToHex(code)
              [] code.form = "rgb" -> RgbToHex(code)
              [] OTHER -> code, opacity)

IsEqual(code, other) ==
  CASE (code.form = "rgb") = (other.form = "rgb") -> code = other
    [] code.form # "rgb" -> HexToRgb(code) = other
    [] OTHER -> code = HexToRgb(other)

\* #RRGGBBFF is taken for #RRGGBB.
DoHexMatch(hex, other) ==
  LET parsed(h) == IF h.form = "hexa" /\ h.alpha = 255 THEN Code("hex", h.rgb, 0) ELSE h
  IN parsed(hex) = parsed(other)

AlphaPercentageToHex(percentage) == Round(Frac(255 * percentage, 100))
AlphaHexToPercentage(hex) == Round(Frac(100 * hex, 255))

\* #RGB and #RRGGBBAA as #RRGGBB
ToSixDigitHex(code) ==
  IF code.form \in {"short", "hexa"} THEN Code("hex", HexToRgbElements(code), 0) ELSE code

IsValidHex(code) == ToSixDigitHex(code).form = "hex"

--------------------------------------------------------------------------------
(* Colour spaces                                                           *)

\* Hue, saturation and luminance, rounded; the hue may be negative.
GetSaturation(least, largest) ==
  CASE least = largest -> Whole(0)
    [] 100 * (least + largest) < 50 * 510 -> Frac(largest - least, largest + least)
    [] OTHER -> Frac(largest - least, 510 - largest - least)

GetHue(least, largest, rgb) ==
  CASE largest = least -> Whole(0)
    [] largest = rgb.red -> Frac(rgb.green - rgb.blue, largest - least)
    [] largest = rgb.green -> Plus(Whole(2), Frac(rgb.blue - rgb.red, largest - least))
    [] OTHER -> Plus(Whole(4), Frac(rgb.red - rgb.green, largest - least))

RgbToHsl(rgb) ==
  LET least == Least(ChannelsOf(rgb))
      largest == Largest(ChannelsOf(rgb))
  IN [hue |-> Round(Times(Whole(60), GetHue(least, largest, rgb))),
      saturation |-> Round(Times(Whole(100), GetSaturation(least, largest))),
      luminance |-> Round(Frac(100 * (least + largest), 510))]

\* The luminance of a colour that can be told from one of luminance l
ComplementaryLuminance(l) == IF l < 20 THEN l + 8 ELSE IF l < 60 THEN l + 5 ELSE l - 5

GetHsvFromRgb(color_rgb) ==
  LET rgb == [c \in Channels |-> Number(color_rgb[c])]
      least == Least(ChannelsOf(rgb))
      largest == Largest(ChannelsOf(rgb))
      turned == IF rgb.red = largest /\ rgb.green < rgb.blue THEN Whole(6) ELSE Whole(0)
  IN [hue |-> IF largest = least THEN Whole(0)
              ELSE Times(Whole(60), Plus(turned, GetHue(least, largest, rgb))),
      saturation |-> IF largest = 0 THEN Whole(0) ELSE Frac(100 * (largest - least), largest),
      value |-> Frac(100 * largest, 255)]

GetRgbFromHsv(hsv) ==
  LET sector == Floor(Times(hsv.hue, <<1, 60>>))
      f == Minus(Times(hsv.hue, <<1, 60>>), Whole(sector))
      s == Times(hsv.saturation, <<1, 100>>)
      level(x) == Round(Times(Whole(255),
                              Times(Times(hsv.value, <<1, 100>>), Minus(Whole(1), x))))
      v == level(Whole(0))
      p == level(s)
      q == level(Times(f, s))
      t == level(Times(Minus(Whole(1), f), s))
  IN CASE sector % 6 = 0 -> Rgb(v, t, p)
       [] sector % 6 = 1 -> Rgb(q, v, p)
       [] sector % 6 = 2 -> Rgb(p, v, t)
       [] sector % 6 = 3 -> Rgb(p, q, v)
       [] sector % 6 = 4 -> Rgb(t, p, v)
       [] OTHER -> Rgb(v, p, q)

--------------------------------------------------------------------------------
(* getNewColor(): one action per kind of options                           *)

NoErrors == {}
BlankRgb == Rgb(Blank, Blank, Blank)
BlankHsv == [hue |-> Whole(0), saturation |-> Whole(0), value |-> Whole(0)]

HasError(value) == value # Blank /\ value \notin 0 .. 255
GetRgbErrors(rgb) == {c \in Channels : HasError(rgb[c])}

FirstColor ==
  [hex |-> NoHex, rgb |-> Rgb(0, 0, 0), hsv |-> BlankHsv, alpha |-> Blank, errors |-> NoErrors]

Init ==
  /\ color = FirstColor
  /\ edits = 0

Edit(new) == /\ edits < MaxEdits
             /\ edits' = edits + 1
             /\ color' = new

\* An empty code gives the colour getNewColor() begins with.
EditHex(code) ==
  Edit(IF code = NoHex THEN FirstColor ELSE IF IsValidHex(code)
       THEN LET rgb == ToSixDigitHex(code).rgb
            IN [hex |-> code, hsv |-> GetHsvFromRgb(rgb), rgb |-> rgb, alpha |-> color.alpha,
                errors |-> NoErrors]
       ELSE [color EXCEPT !.hex = code, !.errors = @ \cup {"hex"}, !.hsv = BlankHsv,
                          !.rgb = BlankRgb])

GetHexFromRgb(rgb) == Code("hex", [c \in Channels |-> Number(rgb[c]) % 256], 0)

\* A mutant: hue, saturation and value are those of the colour before.
EditChannelStale(c, level) ==
  LET rgb == [color.rgb EXCEPT ![c] = level]
      errors == GetRgbErrors(rgb)
  IN Edit(IF errors # {}
          THEN [color EXCEPT !.rgb = rgb, !.errors = (@ \ Channels) \cup errors]
          ELSE [hex |-> GetHexFromRgb(rgb), hsv |-> GetHsvFromRgb(color.rgb), rgb |-> rgb,
                alpha |-> color.alpha, errors |-> NoErrors])

EditChannel(c, level) ==
  LET rgb == [color.rgb EXCEPT ![c] = level]
      errors == GetRgbErrors(rgb)
  IN Edit(IF errors # {}
          THEN [color EXCEPT !.rgb = rgb, !.errors = (@ \ Channels) \cup errors]
          ELSE [hex |-> GetHexFromRgb(rgb), hsv |-> GetHsvFromRgb(rgb), rgb |-> rgb,
                alpha |-> color.alpha, errors |-> NoErrors])

EditAlpha(alpha) == Edit([color EXCEPT !.alpha = alpha])

WithHsv(hsv) ==
  [hex |-> GetHexFromRgb(GetRgbFromHsv(hsv)), hsv |-> hsv, rgb |-> GetRgbFromHsv(hsv),
   alpha |-> color.alpha, errors |-> NoErrors]

EditHsv(hsv) == Edit(WithHsv(hsv))

\* getDeltaColor()
Limited(x) == IF x[1] < 0 THEN Whole(0) ELSE IF x[1] > 100 * x[2] THEN Whole(100) ELSE x
MoveBy(saturation, value) ==
  Edit(WithHsv([color.hsv EXCEPT !.saturation = Limited(Plus(@, Whole(saturation))),
                                 !.value = Limited(Plus(@, Whole(value)))]))

Next ==
  \/ \E code \in HexInputs : EditHex(code)
  \/ \E c \in Channels, level \in Levels : EditChannel(c, level)
  \/ \E alpha \in Alphas : EditAlpha(alpha)
  \/ \E hsv \in HsvInputs : EditHsv(hsv)
  \/ \E saturation, value \in Deltas : MoveBy(saturation, value)

Spec == Init /\ [][Next]_colorVars

--------------------------------------------------------------------------------
(* Properties                                                              *)

\* After any sequence of edits hex, rgb and hsv are of one colour unless an error is
\* shown, and a field that cannot be read is shown as an error.
FieldsAgree ==
  /\ color.errors = NoErrors =>
       LET rgb == [c \in Channels |-> Number(color.rgb[c])]
       IN ToSixDigitHex(color.hex).rgb = rgb /\ GetRgbFromHsv(color.hsv) = rgb
  /\ color.hex = NotHex => "hex" \in color.errors
  /\ \A c \in Channels : HasError(color.rgb[c]) => c \in color.errors

\* The two ways to a hue agree but for whole turns, and the luminance of HSL is
\* what value and saturation of HSV make it: v (1 - s / 2).
SpacesAgree ==
  GetRgbErrors(color.rgb) = {} =>
    LET rgb == [c \in Channels |-> Number(color.rgb[c])]
        hsl == RgbToHsl(rgb)
        hsv == GetHsvFromRgb(rgb)
    IN /\ GetRgbFromHsv(hsv) = rgb
       /\ hsl.hue % 360 = Round(hsv.hue) % 360 /\ Floor(hsv.hue) \in 0 .. 359
       /\ hsl.luminance = Round(Times(hsv.value, Minus(Whole(1), Times(hsv.saturation, <<1, 200>>))))
       /\ hsl.saturation \in 0 .. 100
       /\ ComplementaryLuminance(hsl.luminance) \in (0 .. 100) \ {hsl.luminance}

\* Codes of one colour are equal whatever their format, opacity is applied to the
\* colour a code has, and a percentage survives its way through two hex digits.
CodesAgree ==
  LET rgb == [c \in Channels |-> Number(color.rgb[c])]
      codes == {Code("hex", rgb, 0), Code("rgb", rgb, 0), Code("rgba", rgb, 30)}
               \cup (HexInputs \ {NotHex, NoHex})
  IN /\ \A code \in codes :
          code.form # "hexa" =>
            ApplyOpacity(code, 50) = Code("rgba", HexToRgbElements(code), 50)
     /\ \A code, other \in {c \in codes : c.form \in {"hex", "rgb"}} :
          IsEqual(code, other) <=> code.rgb = other.rgb
     /\ \A hex, other \in {c \in codes : c.form \in {"hex", "hexa"}} :
          DoHexMatch(hex, other) <=>
            /\ hex.rgb = other.rgb
            /\ \/ hex.form = other.form /\ hex.alpha = other.alpha
               \/ \A h \in {hex, other} : h.form = "hexa" => h.alpha = 255
     /\ \A percentage \in Alphas :
          AlphaHexToPercentage(AlphaPercentageToHex(percentage)) = percentage
================================================================================
