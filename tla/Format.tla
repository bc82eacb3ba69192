------------------------------- MODULE Format ---------------------------------
(***************************************************************************)
(* rt_vsnprintf and rt_kprintf (src/kservice.c).  A step is a round of the *)
(* loop over fmt: a character, or a whole conversion.  Characters are      *)
(* strings of length one; buf holds the cells written, from the first one  *)
(* on, and str counts what was put, whether there was room or not.         *)
(***************************************************************************)
EXTENDS Integers, Sequences

CONSTANTS Word,      (* 2^32: a number is a residue of it                  *)
          Half,      (* 2^16, for the qualifier 'h'                        *)
          Formats,   (* formats, with their arguments and what they ask for *)
          ConsoleBuf (* RT_CONSOLEBUF_SIZE                                 *)

FormatAssumption ==
  Word \in Nat /\ Half \in Nat /\ Half <= Word /\ ConsoleBuf \in Nat \ {0, 1}

Nul == "NUL"
Decimal == <<"0", "1", "2", "3", "4", "5", "6", "7", "8", "9">>
IsDigit(c) == \E k \in 1..10 : Decimal[k] = c
DigitValue(c) == CHOOSE k \in 0..9 : Decimal[k + 1] = c

VARIABLES fmt, args, va, at, str, buf, sent,
          asked        (* history: what the format was made from           *)

vars == <<fmt, args, va, at, str, buf, sent, asked>>

\* rt_kprintf gives rt_vsnprintf all of rt_log_buf but one character.
size == ConsoleBuf - 1
end == size - 1

Init ==
  /\ \E f \in Formats : fmt = f[1] /\ args = f[2] /\ asked = f[3]
  /\ at = 1 /\ va = 1 /\ str = 0 /\ buf = <<>> /\ sent = <<>>

Char(i) == IF i > Len(fmt) THEN Nul ELSE fmt[i]

MaxOf(a, b) == IF a > b THEN a ELSE b
First(n, s) == SubSeq(s, 1, IF n < Len(s) THEN n ELSE Len(s))
Repeat(c, n) == [k \in 1..MaxOf(n, 0) |-> c]

\* What is put goes into the buffer as long as str <= end.
Put(text) ==
  /\ str' = str + Len(text)
  /\ buf' = buf \o First(end + 1 - str, text)

Signed(n, m) == IF n % m >= m \div 2 THEN (n % m) - m ELSE n % m

-----------------------------------------------------------------------------
(* The parts of a conversion, from the place behind its '%' on. *)

\* The first place from i on whose character is not in S.
Behind(i, S) ==
  CHOOSE k \in i..Len(fmt) + 1 :
    Char(k) \notin S /\ \A j \in i..k - 1 : Char(j) \in S

skip_atoi(i) ==
  LET e == Behind(i, {Decimal[k] : k \in 1..10})
      value[k \in i..e] ==
        IF k = i THEN 0 ELSE 10 * value[k - 1] + DigitValue(Char(k - 1))
  IN  value[e]

\* A number written in fmt at i, or the next argument for '*', or what holds
\* without one: with the place behind it and the number of arguments used.
Amount(i, used, without) ==
  CASE IsDigit(Char(i)) ->
         [n |-> skip_atoi(i), to |-> Behind(i, {Decimal[k] : k \in 1..10}),
          used |-> used]
    [] Char(i) = "*" -> [n |-> args[va + used], to |-> i + 1, used |-> used + 1]
    [] OTHER -> [n |-> without, to |-> i, used |-> used]

\* What stands behind the '%': flags up to f, a width w, a precision p, and a
\* qualifier if q is 1.
Qualified(f, w, p, q, negative) ==
  [flags |-> {Char(k) : k \in at + 1..f - 1} \cup (IF negative THEN {"-"} ELSE {}),
   width |-> IF negative THEN - w.n ELSE w.n,
   precision |-> IF Char(w.to) = "." THEN MaxOf(p.n, 0) ELSE -1,
   qualifier |-> IF q = 1 THEN Char(p.to) ELSE Nul,
   letter |-> Char(p.to + q), to |-> p.to + q, used |-> p.used]
WithPrecision(f, w, p) ==
  Qualified(f, w, p, IF Char(p.to) \in {"h", "l"} THEN 1 ELSE 0, Char(f) = "*" /\ w.n < 0)
WithWidth(f, w) ==
  WithPrecision(f, w, IF Char(w.to) = "." THEN Amount(w.to + 1, w.used, -1) ELSE [w EXCEPT !.n = -1])
WithFlags(f) == WithWidth(f, Amount(f, 0, -1))
Conversion == WithFlags(Behind(at + 1, {"-", "+", " ", "#", "0"}))

-----------------------------------------------------------------------------
(* Numbers. *)

\* The digit tables have one '0' too many, so that the digit ten is a '0'.
small_digits == Decimal \o <<"0", "a", "b", "c", "d", "e", "f">>
large_digits == Decimal \o <<"0", "A", "B", "C", "D", "E", "F">>

\* Any base but ten counts as sixteen.
divisor(base) == IF base = 10 THEN 10 ELSE 16

\* The digits of a residue of Word; none for zero.
DigitsOf(n, digits, d) ==
  LET len == CHOOSE k \in 0..Word : n < d ^ k /\ (k = 0 \/ n >= d ^ (k - 1))
  IN  [k \in 1..len |-> digits[((n \div d ^ (len - k)) % d) + 1]]

\* What the sign takes from the width.  In front of it go the blanks, and
\* a sign that finds no room in the buffer takes nothing.
SignTakes(sgn, fits) == IF sgn # <<>> /\ fits THEN 1 ELSE 0

SignOf(num, flags) ==
  CASE "SIGN" \in flags /\ num < 0 -> <<"-">>
    [] "SIGN" \in flags /\ num >= 0 /\ "+" \in flags -> <<"+">>
    [] "SIGN" \in flags /\ num >= 0 /\ "+" \notin flags /\ " " \in flags -> <<" ">>
    [] OTHER -> <<>>

print_number(num, base, s, precision, flags) ==
  LET sgn == SignOf(num, flags)
      number == IF num = 0 THEN <<"0">>
                ELSE DigitsOf(
                       (IF "SIGN" \in flags /\ num < 0 THEN - num ELSE num) % Word,
                       IF "LARGE" \in flags THEN large_digits ELSE small_digits,
                       divisor(base))
      prec == MaxOf(Len(number), precision)
      digits == Repeat("0", prec - Len(number)) \o number
      left == "-" \in flags
      blanks == ~left /\ "0" \notin flags
      pad == s - prec - SignTakes(sgn, blanks \/ str <= end)
  IN  CASE blanks -> Repeat(" ", pad) \o sgn \o digits
        [] ~blanks /\ ~left -> sgn \o Repeat("0", pad) \o digits
        [] OTHER -> sgn \o digits \o Repeat(" ", pad)

\* The value that is printed: of 'h' the lower half only.  It is a residue
\* of Word, and long in print_number, so that %u and %x print what is
\* negative there without its sign.
NumberOf(c, arg) ==
  LET n == IF c.qualifier = "h"
           THEN IF c.letter \in {"d", "i"} THEN Signed(arg, Half) ELSE arg % Half
           ELSE arg
  IN  IF c.letter \in {"d", "i"} THEN Signed(n, Word) ELSE n % Word

-----------------------------------------------------------------------------
(* The rounds of the loop. *)

Goes(to, used) ==
  /\ at' = to
  /\ va' = va + used
  /\ UNCHANGED <<fmt, args, sent, asked>>

Plain == Char(at) \notin {"%", Nul} /\ Put(<<Char(at)>>) /\ Goes(at + 1, 0)

Arg(c) == args[va + c.used]

Character(c) ==
  /\ c.letter = "c"
  /\ Put(IF "-" \in c.flags THEN <<Arg(c)>> \o Repeat(" ", c.width - 1)
         ELSE Repeat(" ", c.width - 1) \o <<Arg(c)>>)
  /\ Goes(c.to + 1, c.used + 1)

\* A null pointer prints as NULL, and a precision of zero cuts nothing.
Text(c) == IF Arg(c) = <<Nul>> THEN <<"N", "U", "L", "L">> ELSE Arg(c)
Cut(c) == IF c.precision > 0 THEN First(c.precision, Text(c)) ELSE Text(c)

String(c) ==
  /\ c.letter = "s"
  /\ LET pad == Repeat(" ", c.width - Len(Cut(c)))
     IN  Put(IF "-" \in c.flags THEN Cut(c) \o pad ELSE pad \o Cut(c))
  /\ Goes(c.to + 1, c.used + 1)

\* A pointer is as wide as its digits, and filled up with '0'.
Pointer(c) ==
  /\ c.letter = "p"
  /\ Put(print_number(Arg(c), 16, IF c.width = -1 THEN 8 ELSE c.width, c.precision,
                      c.flags \cup IF c.width = -1 THEN {"0"} ELSE {}))
  /\ Goes(c.to + 1, c.used + 1)

Percent(c) == c.letter = "%" /\ Put(<<"%">>) /\ Goes(c.to + 1, 0)

Number(c) ==
  /\ c.letter \in {"o", "x", "X", "d", "i", "u"}
  /\ Put(print_number(NumberOf(c, Arg(c)),
           CASE c.letter = "o" -> 8 [] c.letter \in {"x", "X"} -> 16 [] OTHER -> 10,
           c.width, c.precision,
           c.flags \cup (IF c.letter = "X" THEN {"LARGE"} ELSE {})
                   \cup (IF c.letter \in {"d", "i"} THEN {"SIGN"} ELSE {})))
  /\ Goes(c.to + 1, c.used + 1)

\* Any other character is put as it stands, with the '%'; it is not counted
\* when there is no room for it.
Unknown(c) ==
  /\ c.letter \notin {"c", "s", "p", "%", "o", "x", "X", "d", "i", "u"}
  /\ Put(IF c.letter = Nul \/ str + 1 > end THEN <<"%">> ELSE <<"%", c.letter>>)
  /\ Goes(IF c.letter = Nul THEN c.to ELSE c.to + 1, c.used)

\* The '\0' goes behind the text, or over the last place.
Terminated(b) == Append(IF str <= end THEN b ELSE First(end, b), Nul)

\* rt_kprintf writes the text to the console: as many characters as were
\* put, and at most ConsoleBuf - 1.
Finish ==
  /\ Char(at) = Nul /\ sent = <<>>
  /\ buf' = Terminated(buf)
  /\ LET length == IF str > ConsoleBuf - 1 THEN ConsoleBuf - 1 ELSE str
     IN  sent' = <<First(length, Terminated(buf))>>
  /\ UNCHANGED <<fmt, args, va, at, str, asked>>

Convert ==
  /\ Char(at) = "%"
  /\ \E c \in {Conversion} :
       Character(c) \/ String(c) \/ Pointer(c) \/ Percent(c) \/ Number(c) \/ Unknown(c)

Next == Plain \/ Convert \/ Finish

Spec == Init /\ [][Next]_vars

-----------------------------------------------------------------------------
(* Properties. *)

\* Nothing is written behind the buffer, and a finished text ends in it.
TypeOK ==
  /\ at \in 1..Len(fmt) + 1
  /\ Len(buf) <= size
  /\ sent # <<>> => buf[Len(buf)] = Nul

-----------------------------------------------------------------------------
(* What C says of the conversions, with the code's two exceptions: a         *)
(* precision does not switch off the flag '0' and zero is printed even with  *)
(* the precision 0; and a string is not cut by it.                           *)

Natural(n) ==
  LET s[k \in 1..4] == Decimal[((n \div 10 ^ (4 - k)) % 10) + 1]
      first == CHOOSE k \in 1..4 : (k = 4 \/ s[k] # "0") /\ \A j \in 1..k - 1 : s[j] = "0"
  IN  [k \in 1..5 - first |-> s[first + k - 1]]

Value(d) ==
  LET m == IF d.qualifier = "h" THEN Half ELSE Word
  IN  IF d.letter = "d" THEN CHOOSE v \in -(m \div 2)..(m \div 2) - 1 : (v - d.arg[2]) % m = 0
      ELSE CHOOSE v \in 0..m - 1 : (v - d.arg[2]) % m = 0

\* Filled up to the width at the side the flags say.
Filled(d, text) ==
  LET fill == Repeat(" ", d.width - Len(text))
  IN  IF "-" \in d.flags THEN text \o fill ELSE fill \o text

Meant(d) ==
  CASE d.letter \in {"d", "u"} ->
         LET v == Value(d)
             sgn == CASE v < 0 -> <<"-">>
                      [] v >= 0 /\ d.letter = "d" /\ "+" \in d.flags -> <<"+">>
                      [] v >= 0 /\ d.letter = "d" /\ "+" \notin d.flags /\ " " \in d.flags -> <<" ">>
                      [] OTHER -> <<>>
             n == Natural(IF v < 0 THEN - v ELSE v)
             digits == Repeat("0", d.precision - Len(n)) \o n
         IN  IF "0" \in d.flags /\ "-" \notin d.flags
             THEN sgn \o Repeat("0", d.width - Len(sgn) - Len(digits)) \o digits
             ELSE Filled(d, sgn \o digits)
    [] d.letter = "s" ->
         LET whole == IF d.arg[2] = <<Nul>> THEN <<"N", "U", "L", "L">> ELSE d.arg[2]
         IN  Filled(d, IF d.precision > 0 THEN First(d.precision, whole) ELSE whole)
    [] d.letter = "c" -> Filled(d, <<d.arg[2]>>)
    [] d.letter = "%" -> <<"%">>
    [] d.letter = Nul -> <<"%">>
    [] OTHER -> <<"%", "z">>

\* The console gets what the format means.  A text that does not fit is cut,
\* and then its last character is the '\0' at the end of the buffer.
PrintsAsMeant ==
  sent # <<>> /\ asked.letter \notin {"x", "X", "o", "p"} =>
    LET text == <<"m">> \o Meant(asked)
    IN  sent[1] = IF Len(text) <= end THEN text ELSE First(end, text) \o <<Nul>>
=============================================================================
