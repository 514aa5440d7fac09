------------------------------ MODULE SqlType ------------------------------
(***************************************************************************)
(* services/sql_type.rs: from the JSON of an argument to the value that is    *)
(* bound, and from a column of the answer to JSON.                           *)
(*                                                                           *)
(* A JSON value is [json, of].  Texts are sequences of characters, and a      *)
(* number is the text that serde_json prints for it.  Two kinds of strings    *)
(* have a form of their own: "naive" is a date and time, as its minute, and   *)
(* "rfc3339" one with an offset, as <<local minute, offset in minutes>>.      *)
(* What is bound, or is in a column, is [sql, value]: the base type, and <<>> *)
(* for NULL or <<x>>.                                                        *)
(*                                                                           *)
(* Bound: numbers are those of TLC; i128 and its overflow are left out.       *)
(***************************************************************************)
EXTENDS Integers, Sequences

CONSTANT Canonical   \* of the types that a library reads: what it prints for a text it takes

Digits == <<"0", "1", "2", "3", "4", "5", "6", "7", "8", "9">>
Digit == {Digits[i] : i \in 1 .. 10}
Signs == {"-", "+"}

Null == [json |-> "null", of |-> <<>>]
Refused == [sql |-> "refused", value |-> <<>>]

-----------------------------------------------------------------------------
(* Texts and integers.                                                      *)

Repeat(c, n) == [i \in 1 .. n |-> c]

DigitValue(c) == CHOOSE n \in 0 .. 9 : Digits[n + 1] = c

Natural(s) ==
  LET upTo[i \in 0 .. Len(s)] == IF i = 0 THEN 0 ELSE 10 * upTo[i - 1] + DigitValue(s[i])
  IN  upTo[Len(s)]

\* The digits of n, and none in front that is zero.
Shown(n) ==
  LET upTo[m \in 0 .. n] ==
        IF m < 10 THEN <<Digits[m + 1]>> ELSE Append(upTo[m \div 10], Digits[(m % 10) + 1])
  IN  upTo[n]

TenTo(n) ==
  LET upTo[i \in 0 .. n] == IF i = 0 THEN 1 ELSE 10 * upTo[i - 1]
  IN  upTo[n]

Signed(s) == s # <<>> /\ Head(s) \in Signs
Unsigned(s) == IF Signed(s) THEN Tail(s) ELSE s
Sign(s) == IF Signed(s) /\ Head(s) = "-" THEN -1 ELSE 1

\* What str::parse takes for an integer.
IsInteger(s) == Unsigned(s) # <<>> /\ \A i \in 1 .. Len(Unsigned(s)) : Unsigned(s)[i] \in Digit
IntegerOf(s) == Sign(s) * Natural(Unsigned(s))

Dots(s) == {i \in 1 .. Len(s) : s[i] = "."}
FirstDot(s) == CHOOSE i \in Dots(s) : \A j \in Dots(s) : i <= j
IntPart(s) == IF Dots(s) = {} THEN s ELSE SubSeq(s, 1, FirstDot(s) - 1)
FracPart(s) == IF Dots(s) = {} THEN <<>> ELSE SubSeq(s, FirstDot(s) + 1, Len(s))

\* What serde_json prints for a number begins with a digit, behind a "-" at most.
JsonNumber(text) == Unsigned(text) # <<>> /\ Head(Unsigned(text)) \in Digit

-----------------------------------------------------------------------------
(* Decimals: [value, scale] stands for value / 10 ^ scale.                   *)

\* precision_scale: money has no size, and so the scale 0.
Scale(type) == IF Len(type.size) = 2 THEN type.size[2] ELSE 0

\* Fault: digits beyond the scale are cut off.
ParseNumericCut(text, scale) ==
  LET digits == IntPart(Unsigned(text)) \o SubSeq(FracPart(Unsigned(text)) \o Repeat("0", scale), 1, scale)
  IN  IF ~IsInteger(digits) THEN {} ELSE {[value |-> Sign(text) * IntegerOf(digits), scale |-> scale]}

\* parse_numeric, on a text without spaces: one number or none.  A second sign is left to the
\* parser of integers, and no digit at all is zero.
ParseNumeric(text, scale) ==
  LET unsigned == Unsigned(text)
      frac == FracPart(unsigned)
      digits == IntPart(unsigned) \o frac \o Repeat("0", scale - Len(frac))
      unscaled == IF digits = <<>> THEN 0 ELSE IntegerOf(digits)
  IN  IF Len(frac) > scale \/ ~(digits = <<>> \/ IsInteger(digits)) THEN {}
      ELSE {[value |-> Sign(text) * unscaled, scale |-> scale]}

\* Fault: both parts show the sign, as Numeric's own Display does.
FormatNumericTwice(n) ==
  LET magnitude == IF n.value < 0 THEN -n.value ELSE n.value
      sign == IF n.value < 0 THEN <<"-">> ELSE <<>>
  IN  sign \o Shown(magnitude \div TenTo(n.scale))
        \o (IF n.scale = 0 THEN <<>> ELSE <<".">> \o sign \o Shown(magnitude % TenTo(n.scale)))

FormatNumeric(n) ==
  LET shown == Shown(IF n.value < 0 THEN -n.value ELSE n.value)
      padded == Repeat("0", n.scale + 1 - Len(shown)) \o shown
      split == Len(padded) - n.scale
      point == IF n.scale = 0 THEN <<>> ELSE <<".">>
      body == SubSeq(padded, 1, split) \o point \o SubSeq(padded, split + 1, Len(padded))
  IN  IF n.value < 0 THEN <<"-">> \o body ELSE body

-----------------------------------------------------------------------------
(* Arguments.                                                               *)

IntegerTypes == {"tinyint", "smallint", "int", "bigint"}
DecimalTypes == {"decimal", "numeric", "money", "smallmoney"}
DateTimeTypes == {"datetime", "datetime2", "smalldatetime"}
FloatTypes == {"real", "float"}

\* What a library prints, it takes, and prints the same again.
ASSUME CanonicalAssumption ==
  \A base \in DOMAIN Canonical :
    /\ base \notin {"bit", "datetimeoffset"} \cup IntegerTypes \cup DecimalTypes \cup DateTimeTypes
    /\ \A text \in DOMAIN Canonical[base] :
         LET printed == Canonical[base][text]
         IN  printed \in DOMAIN Canonical[base] /\ Canonical[base][printed] = printed

\* No number of the model is outside int or bigint.
InRange(base, n) ==
  /\ base = "tinyint" => n \in 0 .. 255
  /\ base = "smallint" => n \in -32768 .. 32767

BoolText(b) == IF b THEN <<"t", "r", "u", "e">> ELSE <<"f", "a", "l", "s", "e">>

\* json_to_param but for NULL: what v may be bound as, one value or none.
Readings(v, type) ==
  LET base == type.base IN
  CASE base = "bit" -> IF v.json = "bool" THEN {v.of} ELSE {}
    [] base \in IntegerTypes ->
         IF v.json = "number" /\ IsInteger(v.of) /\ InRange(base, IntegerOf(v.of))
         THEN {IntegerOf(v.of)} ELSE {}
    [] base \in DecimalTypes ->
         IF v.json \in {"number", "string"} THEN ParseNumeric(v.of, Scale(type)) ELSE {}
    [] base \in DateTimeTypes ->
         CASE v.json = "naive" -> {v.of}
           [] v.json = "rfc3339" -> {v.of[1] - v.of[2]}
           [] OTHER -> {}
    [] base = "datetimeoffset" ->
         IF v.json = "rfc3339" THEN {<<v.of[1] - v.of[2], v.of[2]>>} ELSE {}
    [] base \in DOMAIN Canonical ->
         IF v.json = (IF base \in FloatTypes THEN "number" ELSE "string")
            /\ v.of \in DOMAIN Canonical[base]
         THEN {Canonical[base][v.of]} ELSE {}
    [] OTHER -> {IF v.json = "bool" THEN BoolText(v.of) ELSE v.of}

JsonToParam(v, type) ==
  IF v.json = "null" THEN [sql |-> type.base, value |-> <<>>]
  ELSE IF Readings(v, type) = {} THEN Refused
  ELSE [sql |-> type.base, value |-> <<CHOOSE x \in Readings(v, type) : TRUE>>]

-----------------------------------------------------------------------------
(* Columns.                                                                 *)

\* A datetimeoffset has its time in UTC.
WithTimezone(x) == <<x[1] + x[2], x[2]>>

\* column_data_to_json and temporal_to_json.
ColumnDataToJson(c) ==
  LET x == c.value[1] IN
  IF c.value = <<>> THEN Null ELSE
  CASE c.sql = "bit" -> [json |-> "bool", of |-> x]
    [] c.sql \in IntegerTypes ->
         [json |-> "number", of |-> IF x < 0 THEN <<"-">> \o Shown(-x) ELSE Shown(x)]
    [] c.sql \in FloatTypes -> [json |-> "number", of |-> x]
    [] c.sql \in DecimalTypes -> [json |-> "string", of |-> FormatNumeric(x)]
    [] c.sql \in DateTimeTypes -> [json |-> "naive", of |-> x]
    [] c.sql = "datetimeoffset" -> [json |-> "rfc3339", of |-> WithTimezone(x)]
    [] OTHER -> [json |-> "string", of |-> x]

-----------------------------------------------------------------------------
(* What a decimal text means.                                               *)

\* Digits with at most one point, and a digit before it, behind at most one sign.
IsNumber(text) ==
  LET u == Unsigned(text)
  IN  /\ \A i, j \in Dots(u) : i = j
      /\ IntPart(u) # <<>>
      /\ \A i \in 1 .. Len(u) : u[i] \in Digit \cup {"."}

\* The value, times 10 ^ places.
Written(text, places) ==
  LET u == Unsigned(text)
      frac == FracPart(u)
  IN  Sign(text) * (Natural(IntPart(u)) * TenTo(places) + Natural(frac) * TenTo(places - Len(frac)))
=============================================================================
