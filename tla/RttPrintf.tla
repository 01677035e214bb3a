------------------------------ MODULE RttPrintf ------------------------------
(* SEGGER_RTT_printf.c: a conversion is formatted into a small buffer, and    *)
(* SEGGER_RTT_Write takes the buffer whenever it is full and once at the end. *)
(* A format string is a series of conversions and literal text; one of them   *)
(* stands for all, since _StoreChar keeps no state between them but Cnt.      *)
(* Formatting touches nothing shared, so a call is cut at its writes.         *)
EXTENDS RttTerminal

CONSTANTS
  WordMod,                \* an unsigned int
  PrintfBufferSize,       \* SEGGER_RTT_PRINTF_BUFFER_SIZE
  PointerDigits,          \* the digits of %p, a word in hexadecimal
  Values,                 \* arguments of %d, %u, %x and %p
  Widths, Precisions,     \* field widths and precisions; 0 is none
  Lengths                 \* of %s and of literal text

ASSUME PrintfAssumption ==
  /\ WordMod \in Nat \ {0}
  /\ PrintfBufferSize \in Nat \ {0}
  /\ PointerDigits \in Nat
  /\ Values \subseteq Int
  /\ \A v \in Values : -WordMod < 2 * v /\ 2 * v < WordMod
  /\ Widths \subseteq Nat /\ Precisions \subseteq Nat /\ Lengths \subseteq Nat

VARIABLES
  conversion,             \* the call's arguments
  rest,                   \* the formatted text not yet handed to the RTT
  stored,                 \* the text the RTT has taken of this call
  ReturnValue,
  ppc                     \* "idle", "format" or "return"

callVars == <<conversion, rest, stored, ReturnValue>>
printfVars == <<callVars, ppc>>
allVars == <<terminalVars, printfVars>>

------------------------------------------------------------------------------
(* _PrintUnsigned, as what it stores.                                         *)
AsUnsigned(v) == IF v < 0 THEN v + WordMod ELSE v
Abs(v) == IF v < 0 THEN -v ELSE v
Larger(m, n) == IF m > n THEN m ELSE n
Fill(c, n) == [k \in 1..Larger(n, 0) |-> c]

_aV2C(digit) ==
  <<"0", "1", "2", "3", "4", "5", "6", "7", "8", "9",
    "A", "B", "C", "D", "E", "F">>[digit + 1]

Bases == {10, 16}

(* The first loop: how many digits v has.                                     *)
DigitsOf(v, Base) ==
  LET digits[n \in Nat] == IF n < Base THEN 1 ELSE 1 + digits[n \div Base]
  IN digits[v]

(* The second loop: the word Digit when it has gone around k times ...        *)
DigitAfter(k, Base) ==
  LET Digit[n \in Nat] == IF n = 0 THEN 1 ELSE (Digit[n - 1] * Base) % WordMod
  IN Digit[k]

(* ... and when it ends: with the weight of the first digit to print.         *)
FirstDigit(v, Base, NumDigits) ==
  LET Ends(k) == NumDigits <= k + 1 /\ v \div DigitAfter(k, Base) < Base
      rounds == CHOOSE k \in 0..Larger(v, NumDigits) :
                  Ends(k) /\ \A i \in 0..(k - 1) : ~Ends(i)
  IN DigitAfter(rounds, Base)

(* The third loop: the digits of v from there on.                             *)
DigitsFrom(v, Base, Digit) ==
  LET digits[d \in Nat \ {0}] ==
        [n \in Nat |-> <<_aV2C(n \div d)>>
                         \o (IF d \div Base = 0 THEN <<>>
                             ELSE digits[d \div Base][n % d])]
  IN digits[Digit][v]

_PrintUnsigned(v, Base, NumDigits, FieldWidth, flags) ==
  LET Width == Larger(DigitsOf(v, Base), NumDigits)
      pad == IF "0" \in flags /\ NumDigits = 0 THEN "0" ELSE " "
  IN (IF "-" \in flags THEN <<>> ELSE Fill(pad, FieldWidth - Width))
       \o DigitsFrom(v, Base, FirstDigit(v, Base, NumDigits))
       \o (IF "-" \in flags THEN Fill(" ", FieldWidth - Width) ELSE <<>>)

(* _PrintInt: what it pads itself is taken off the field width it passes on.  *)
_PrintInt(v, Base, NumDigits, FieldWidth, flags) ==
  LET Width == Larger(DigitsOf(Abs(v), Base), NumDigits)
      sign == IF v < 0 THEN <<"-">> ELSE IF "+" \in flags THEN <<"+">> ELSE <<>>
      Field == Larger(FieldWidth - Len(sign), 0)
      padded == "-" \notin flags /\ Field > Width
      spaces == padded /\ ("0" \notin flags \/ NumDigits # 0)
      zeros == padded /\ ~spaces
  IN (IF spaces THEN Fill(" ", Field - Width) ELSE <<>>)
       \o sign
       \o (IF zeros THEN Fill("0", Field - Width) ELSE <<>>)
       \o _PrintUnsigned(Abs(v), Base, NumDigits,
                         IF padded THEN Width ELSE Field, flags)

(* The switch of SEGGER_RTT_vprintf over the conversion specifiers.           *)
Formatted(c) ==
  CASE c.spec = "d" -> _PrintInt(c.v, 10, c.precision, c.width, c.flags)
    [] c.spec = "u" ->
         _PrintUnsigned(AsUnsigned(c.v), 10, c.precision, c.width, c.flags)
    [] c.spec = "x" ->
         _PrintUnsigned(AsUnsigned(c.v), 16, c.precision, c.width, c.flags)
    [] c.spec = "p" ->
         _PrintUnsigned(AsUnsigned(c.v), 16, PointerDigits, PointerDigits, {})
    [] c.spec = "s" -> Fill("c", c.width)

------------------------------------------------------------------------------
(* Base to the n, the least number of n + 1 digits.                           *)
Power(Base, n) ==
  LET power[k \in Nat] == IF k = 0 THEN 1 ELSE Base * power[k - 1] IN power[n]

(* The conversions; %c, %% and literal text go the way of %s.  A precision    *)
(* of more digits than a word can have is left out: Digit overflows in        *)
(* _PrintUnsigned, and zero is a divisor.                                     *)
FitsWord(c) ==
  c.precision = 0
    \/ Power(IF c.spec = "x" THEN 16 ELSE 10, c.precision - 1) < WordMod

(* %p prints no more digits than a word has.                                  *)
ASSUME PointerAssumption ==
  PointerDigits = 0 \/ Power(16, PointerDigits - 1) < WordMod

Conversions ==
  {c \in [spec : {"d", "u", "x"}, v : Values, flags : SUBSET {"-", "0", "+"},
          width : Widths, precision : Precisions] : FitsWord(c)}
    \union [spec : {"p"}, v : Values]
    \union [spec : {"s"}, width : Lengths]

PrintfInit ==
  /\ TerminalInit
  /\ conversion = [spec |-> "s", width |-> 0]
  /\ rest = <<>> /\ stored = <<>>
  /\ ReturnValue = 0
  /\ ppc = "idle"

(* SEGGER_RTT_vprintf begins.                                                 *)
SEGGER_RTT_vprintf(c) ==
  /\ ppc = "idle" /\ todo = <<>>
  /\ conversion' = c
  /\ rest' = Formatted(c)
  /\ stored' = <<>>
  /\ ReturnValue' = 0
  /\ ppc' = "format"
  /\ UNCHANGED terminalVars

(* SEGGER_RTT_Write of n bytes, and what it returns.                          *)
Written(n) ==
  IF Blocking THEN n
  ELSE IF Flags = "NO_BLOCK_TRIM" THEN Shorter(n, Avail)
  ELSE IF n <= Avail THEN n ELSE 0

SEGGER_RTT_Write(n) ==
  /\ todo = <<>>
  /\ IF Written(n) = 0 THEN UNCHANGED terminalVars ELSE WriteText(n)
  /\ stored' = stored \o SubSeq(rest, 1, Written(n))

(* Mutant: after a refused write the buffer is filled anew.                   *)
MutantGoOn ==
  LET n == PrintfBufferSize IN
  /\ ppc = "format"
  /\ Len(rest) >= n
  /\ SEGGER_RTT_Write(n)
  /\ rest' = SubSeq(rest, n + 1, Len(rest))
  /\ ReturnValue' = ReturnValue + n
  /\ UNCHANGED <<conversion, ppc>>

(* _StoreChar with the character that fills the buffer.  If the RTT does not  *)
(* take all of it, every loop of the formatting ends.                         *)
_StoreChar ==
  LET n == PrintfBufferSize IN
  /\ ppc = "format"
  /\ Len(rest) >= n
  /\ SEGGER_RTT_Write(n)
  /\ IF Written(n) = n
     THEN /\ rest' = SubSeq(rest, n + 1, Len(rest))
          /\ ReturnValue' = ReturnValue + n
          /\ UNCHANGED ppc
     ELSE ReturnValue' = -1 /\ ppc' = "return" /\ UNCHANGED rest
  /\ UNCHANGED conversion

(* The end of SEGGER_RTT_vprintf: the last characters are written, whether    *)
(* the RTT takes them or not, and counted a second time.                      *)
WriteRemaining ==
  LET Cnt == Len(rest) IN
  /\ ppc = "format"
  /\ Cnt < PrintfBufferSize
  /\ todo = <<>>
  /\ IF Cnt # 0 THEN SEGGER_RTT_Write(Cnt) ELSE UNCHANGED <<terminalVars, stored>>
  /\ ReturnValue' = ReturnValue + Cnt + Cnt
  /\ ppc' = "return"
  /\ UNCHANGED <<conversion, rest>>

Return ==
  /\ ppc = "return" /\ todo = <<>>
  /\ ppc' = "idle"
  /\ conversion' = [spec |-> "s", width |-> 0]
  /\ rest' = <<>> /\ stored' = <<>>
  /\ ReturnValue' = 0
  /\ UNCHANGED terminalVars

Printf ==
  \/ \E c \in Conversions : SEGGER_RTT_vprintf(c)
  \/ _StoreChar \/ WriteRemaining \/ Return

PrintfNext ==
  \/ ppc = "idle" /\ TerminalCall /\ UNCHANGED printfVars
  \/ (WriteByte \/ HostReads) /\ UNCHANGED printfVars
  \/ Printf

PrintfSpec == PrintfInit /\ [][PrintfNext]_allVars

------------------------------------------------------------------------------
(* What the notes of SEGGER_RTT_printf say of a conversion: the digits of the *)
(* number, at least as many as the precision, with a sign if asked for, in a  *)
(* field filled on the left with spaces or zeros, or on the right.            *)
Numeral(v, Base, least) ==
  LET length == CHOOSE n \in 1..Larger(WordMod, least) :
        /\ n >= least /\ v < Power(Base, n)
        /\ n = 1 \/ n = least \/ v >= Power(Base, n - 1)
  IN [k \in 1..length |-> _aV2C((v \div Power(Base, length - k)) % Base)]

InField(sign, digits, width, flags, precision) ==
  LET fill == width - Len(sign) - Len(digits) IN
  IF "-" \in flags THEN sign \o digits \o Fill(" ", fill)
  ELSE IF "0" \in flags /\ precision = 0 THEN sign \o Fill("0", fill) \o digits
  ELSE Fill(" ", fill) \o sign \o digits

Documented(c) ==
  CASE c.spec = "d" ->
         InField(IF c.v < 0 THEN <<"-">>
                 ELSE IF "+" \in c.flags THEN <<"+">> ELSE <<>>,
                 Numeral(Abs(c.v), 10, c.precision), c.width, c.flags, c.precision)
    [] c.spec \in {"u", "x"} ->
         InField(<<>>, Numeral(AsUnsigned(c.v), IF c.spec = "u" THEN 10 ELSE 16,
                               c.precision), c.width, c.flags, c.precision)
    [] c.spec = "p" -> Numeral(AsUnsigned(c.v), 16, PointerDigits)
    [] c.spec = "s" -> Fill("c", c.width)

(* What the ring has taken of a call is at every moment the beginning of what *)
(* the notes say, and what is still to come is the rest of it, unless a write *)
(* was refused (_PrintUnsigned, _PrintInt, _StoreChar).                       *)
StoredIsPrefix ==
  ppc # "idle" =>
    LET text == Documented(conversion) IN
    /\ stored = SubSeq(text, 1, Len(stored))
    /\ ppc = "format" => stored \o rest = text

(* ">= 0: Number of bytes which have been stored in the Up-buffer", as        *)
(* SEGGER_RTT_printf says of its result.                                      *)
ResultCounts ==
  ppc = "return" /\ ReturnValue >= 0 => ReturnValue = Len(stored)

==============================================================================
