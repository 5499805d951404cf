----------------------------- MODULE PrintFormat -----------------------------
(***************************************************************************)
(* PRT_Printf: vsnprintf_s (bsp/vsnprintf_s.c) lays the text out in a       *)
(* buffer of TryPrintf, which then polls the UART for room and sends it     *)
(* character by character (bsp/print.c).                                    *)
(*                                                                          *)
(* A step of the formatter is one round of its loop: an ordinary character  *)
(* or a whole conversion, chosen together with its argument.  A character   *)
(* is a string of length one or a name (LF, CR, NUL).  The widths of the C  *)
(* types are constants, and `value' is what va_arg finds in the register.   *)
(***************************************************************************)
EXTENDS Integers, Sequences

CONSTANTS
  OS_MAX_SHOW_LEN,                \* size of the buffer
  ShortBits, IntBits, LongBits,   \* widths of short, int and long
  TmpLen,                         \* size of tmp, where print_number puts the digits
  Values, Widths, Precisions,     \* arguments, field widths and precisions to try
  Texts,                          \* strings printed with %s
  MaxItems,                       \* rounds of the loop; a number only in the first
  UART_BUSY_TIMEOUT

ASSUME PrintAssumption ==
  /\ OS_MAX_SHOW_LEN \in Nat \ {0} /\ TmpLen \in Nat \ {0} /\ MaxItems \in Nat
  /\ ShortBits \in Nat \ {0} /\ IntBits \in Nat /\ LongBits \in Nat
  /\ ShortBits <= IntBits /\ IntBits <= LongBits
  /\ Values \subseteq 0 .. 2 ^ LongBits - 1
  /\ Widths \subseteq Nat \cup {-1} /\ Precisions \subseteq Nat \cup {-1}
  /\ \A s \in Texts : s \in Seq(STRING) /\ \A i \in DOMAIN s : s[i] # "NUL"
  /\ UART_BUSY_TIMEOUT \in Nat \ {0}

Flags == {"ZEROPAD", "PLUS", "SPACE", "LEFT"}   \* SPECIAL is compiled out
Bases == [d |-> 10, u |-> 10, x |-> 16, o |-> 8, b |-> 2, p |-> 16]
Guard == 2                     \* cells behind the buffer
Cells == 0 .. OS_MAX_SHOW_LEN + Guard - 1

VARIABLES
  pc,        \* "format", "send" (between two characters), "LF" (after one), "done";
             \* "overrun" once tmp is written beyond: C says nothing of what follows
  buf, str,  \* the buffer with what lies behind it; the place to write next
  items,     \* rounds made
  field,     \* the number laid out last: its conversion and its text
  wanted,    \* all the text produced, without the limit of the buffer
  next,      \* what TryPrintf sends next
  timeout, screen,
  lost,      \* characters given up
  full       \* UARTFR: no room in the transmit FIFO

vars == <<pc, buf, str, items, field, wanted, next, timeout, screen, lost, full>>

NoField == [conv |-> "none", flags |-> {}, width |-> -1, precision |-> -1,
            qualifier |-> "none", value |-> 0, text |-> << >>]

Max2(a, b) == IF a >= b THEN a ELSE b
Repeat(c, n) == [i \in 1 .. Max2(n, 0) |-> c]

(***************************************************************************)
(* print_number.                                                            *)
(***************************************************************************)
DigitChars == <<"0", "1", "2", "3", "4", "5", "6", "7", "8", "9",
                "a", "b", "c", "d", "e", "f">>

\* divide, until nothing is left: at least one digit.
Digits(num, base) ==
  LET digits[n \in Nat] == IF n < base THEN <<DigitChars[n + 1]>>
                           ELSE Append(digits[n \div base], DigitChars[(n % base) + 1])
  IN  digits[num]

Bits(qualifier) == CASE qualifier = "h" -> ShortBits
                     [] qualifier = "l" -> LongBits
                     [] OTHER -> IntBits

\* Fault: the sign is looked for in an int whatever the qualifier.
FaultSignOfInt(num, qualifier) == num % 2 ^ IntBits >= 2 ^ (IntBits - 1)

\* (short)num < 0, (long)num < 0, (int)num < 0.
IsNegative(num, qualifier) == num % 2 ^ Bits(qualifier) >= 2 ^ (Bits(qualifier) - 1)

Sign(negative, flags) ==
  IF negative THEN <<"-">>
  ELSE IF "PLUS" \in flags THEN <<"+">>
  ELSE IF "SPACE" \in flags THEN <<" ">>
  ELSE << >>

\* The digits of the number or, if it has a sign, of what is left without it.
NumberDigits(num, base, signed, qualifier) ==
  Digits(IF signed /\ IsNegative(num, qualifier) THEN (-num) % 2 ^ Bits(qualifier) ELSE num,
         base)

\* The code stores the digits without this test.
TmpHolds(digits) == Len(digits) <= TmpLen

\* signed is the flag SIGN.  With precision 0 the digits are counted, and not printed.
print_number(num, base, signed, qualifier, width, precision, flags) ==
  LET negative == signed /\ IsNegative(num, qualifier)
      sign == IF signed THEN Sign(negative, flags) ELSE << >>
      digits == NumberDigits(num, base, signed, qualifier)
      zeros == Repeat("0", precision - Len(digits))
      size == width - Max2(precision, Len(digits)) - Len(sign)
      number == zeros \o (IF precision = 0 THEN << >> ELSE digits)
  IN  IF "LEFT" \in flags THEN sign \o number \o Repeat(" ", size)
      ELSE IF "ZEROPAD" \in flags THEN sign \o Repeat("0", size) \o number
      ELSE Repeat(" ", size) \o sign \o number

(***************************************************************************)
(* vsnprintf_s.                                                             *)
(***************************************************************************)
\* Fault: the end of the buffer is not looked at.
FaultPutBeyond(text) ==
  [i \in Cells |-> IF i \in str .. str + Len(text) - 1 THEN text[i - str + 1] ELSE buf[i]]

\* Past the end of the buffer the text is counted and not stored.
Put(text) ==
  [i \in Cells |-> IF i \in str .. str + Len(text) - 1 /\ i < OS_MAX_SHOW_LEN
                   THEN text[i - str + 1] ELSE buf[i]]

ProduceAs(f, text) ==
  /\ pc = "format" /\ items < MaxItems
  /\ buf' = Put(text)
  /\ str' = str + Len(text)
  /\ wanted' = wanted \o text
  /\ items' = items + 1
  /\ field' = f
  /\ UNCHANGED <<pc, next, timeout, screen, lost, full>>

Produce(text) == ProduceAs(NoField, text)

Ordinary == \E c \in {"x", "LF"} : Produce(<<c>>)

PercentSign == Produce(<<"%">>)

\* An unknown conversion is copied; at the end of the format only the sign is.
Unknown == \E rest \in {<<"q">>, << >>} : Produce(<<"%">> \o rest)

Justify(text, width, flags) ==
  IF "LEFT" \in flags THEN text \o Repeat(" ", width - Len(text))
  ELSE Repeat(" ", width - Len(text)) \o text

\* Whatever byte is given is stored, also the one that ends a text.
Character == \E c \in {"c", "NUL"}, width \in Widths, flags \in SUBSET {"LEFT"} :
               Produce(Justify(<<c>>, width, flags))

\* A field width cuts a longer string short, as a precision does.
StringLength(s, width, precision) ==
  LET len == IF width >= 0 /\ width < Len(s) THEN width ELSE Len(s)
  IN  IF precision > 0 /\ len > precision THEN precision ELSE len

\* A null pointer prints as this.
NullText == <<"(", "N", "U", "L", "L", ")">>

String == \E s \in Texts \cup {NullText}, width \in Widths, precision \in Precisions,
             flags \in SUBSET {"LEFT"} :
            Produce(Justify(SubSeq(s, 1, StringLength(s, width, precision)), width, flags))

\* More digits than tmp has room for.
Overrun(f) ==
  /\ pc = "format" /\ items < MaxItems
  /\ pc' = "overrun" /\ field' = f
  /\ UNCHANGED <<buf, str, items, wanted, next, timeout, screen, lost, full>>

NumberField(f, num, width, flags) ==
  LET base == Bases[f.conv]
      signed == f.conv = "d"
      text == print_number(num, base, signed, f.qualifier, width, f.precision, flags)
  IN  IF TmpHolds(NumberDigits(num, base, signed, f.qualifier))
      THEN ProduceAs([f EXCEPT !.text = text], text)
      ELSE Overrun(f)

\* Without a width a pointer is padded with zeros to two digits a byte.
PointerWidth == LongBits \div 4

Pointer ==
  /\ pc = "format" /\ items = 0
  /\ \E value \in Values, width \in Widths, precision \in Precisions, flags \in SUBSET Flags :
    LET f == [NoField EXCEPT !.conv = "p", !.value = value, !.precision = precision,
                             !.width = IF width = -1 THEN PointerWidth ELSE width,
                             !.flags = IF width = -1 THEN flags \cup {"ZEROPAD"} ELSE flags]
    IN  NumberField(f, value, f.width, f.flags)

\* What va_arg and the casts make of the argument: unsigned long, (short) carried
\* over to long, (unsigned short), (unsigned int).
Fetched(conv, qualifier, value) ==
  LET low == value % 2 ^ Bits(qualifier)
  IN  IF qualifier = "h" /\ conv = "d" /\ IsNegative(value, "h")
      THEN low + 2 ^ LongBits - 2 ^ ShortBits
      ELSE low

Number ==
  /\ pc = "format" /\ items = 0
  /\ \E conv \in {"d", "u", "x", "o", "b"}, qualifier \in {"none", "h", "l"}, value \in Values,
     width \in Widths, precision \in Precisions, flags \in SUBSET Flags :
    LET f == [NoField EXCEPT !.conv = conv, !.qualifier = qualifier, !.value = value,
                             !.width = width, !.precision = precision, !.flags = flags]
    IN  NumberField(f, Fetched(conv, qualifier, value), width, flags)

\* The end of the format: the text is terminated, in the last cell if it is too long,
\* and vsnprintf_s returns.
Terminate ==
  /\ pc = "format"
  /\ buf' = [buf EXCEPT ![IF str < OS_MAX_SHOW_LEN THEN str ELSE OS_MAX_SHOW_LEN - 1] = "NUL"]
  /\ pc' = "send"
  /\ str' = 0 /\ items' = 0 /\ field' = NoField /\ wanted' = << >>
  /\ UNCHANGED <<next, timeout, screen, lost, full>>

(***************************************************************************)
(* TryPrintf, TryPutc, uart_poll_send.                                      *)
(***************************************************************************)
Text == LET end == CHOOSE i \in Cells : buf[i] = "NUL" /\ \A j \in 0 .. i - 1 : buf[j] # "NUL"
        IN  [i \in 1 .. end |-> buf[i - 1]]

Sending == pc = "LF" \/ (pc = "send" /\ buf[next] # "NUL")
Char == IF pc = "LF" THEN "CR" ELSE buf[next]

\* Fault: no carriage return follows a line feed.
FaultNoReturn == next' = next + 1 /\ pc' = "send"

\* TryPutc: a line feed is followed by a carriage return.
CharDone == IF Char = "LF" THEN pc' = "LF" /\ next' = next
            ELSE pc' = "send" /\ next' = next + 1

GiveUp == timeout + 1 >= UART_BUSY_TIMEOUT

SendChar ==
  /\ Sending /\ ~ full
  /\ screen' = Append(screen, Char)
  /\ timeout' = 0
  /\ CharDone
  /\ UNCHANGED <<buf, str, items, field, wanted, lost, full>>

\* Fault: the polls are not counted.
FaultPollForEver == Sending /\ full /\ UNCHANGED vars

\* After so many polls the character is lost.
PollBusy ==
  /\ Sending /\ full
  /\ IF GiveUp THEN timeout' = 0 /\ lost' = lost + 1 /\ CharDone
     ELSE timeout' = timeout + 1 /\ UNCHANGED <<pc, next, lost>>
  /\ UNCHANGED <<buf, str, items, field, wanted, screen, full>>

\* The transmitter fills up and drains at its own pace, or not at all.
Transmitter ==
  /\ Sending
  /\ full' = ~ full
  /\ UNCHANGED <<pc, buf, str, items, field, wanted, next, timeout, screen, lost>>

Sent ==
  /\ pc = "send" /\ buf[next] = "NUL"
  /\ pc' = "done"
  /\ UNCHANGED <<buf, str, items, field, wanted, next, timeout, screen, lost, full>>

-----------------------------------------------------------------------------
Init ==
  /\ pc = "format"
  /\ buf = [i \in Cells |-> IF i < OS_MAX_SHOW_LEN THEN "NUL" ELSE "guard"]
  /\ str = 0 /\ items = 0 /\ field = NoField /\ wanted = << >>
  /\ next = 0 /\ timeout = 0 /\ screen = << >> /\ lost = 0 /\ full = FALSE

Format == Ordinary \/ PercentSign \/ Unknown \/ Character \/ String \/ Pointer \/ Number
TryPrintf == Terminate \/ SendChar \/ PollBusy \/ Sent
Next == Format \/ TryPrintf \/ Transmitter

\* A format has an end, and the code goes on from there.
Spec == Init /\ [][Next]_vars /\ WF_vars(TryPrintf)

-----------------------------------------------------------------------------
\* vsnprintf_s.c:341-609: the buffer ends up with as much of the text as fits and a
\* terminator, and nothing behind it is written.  What is sent of it ends early only at a
\* terminator that a %c put in.  (Of a number with more digits than tmp holds, nothing is
\* said.)
TextIsPrefix ==
  [][pc = "format" /\ pc' = "send" =>
       LET cut == SubSeq(wanted, 1, IF Len(wanted) < OS_MAX_SHOW_LEN THEN Len(wanted)
                                    ELSE OS_MAX_SHOW_LEN - 1)
           end == Len(Text')
       IN  /\ \A i \in DOMAIN cut : buf'[i - 1] = cut[i]
           /\ buf'[Len(cut)] = "NUL"
           /\ \A i \in Cells : i >= OS_MAX_SHOW_LEN => buf'[i] = "guard"
           /\ end \in 0 .. Len(cut) /\ Text' = SubSeq(cut, 1, end)
           /\ end # Len(cut) => cut[end + 1] = "NUL"
           /\ \A i \in 1 .. end : cut[i] # "NUL"]_vars

\* Reading a printed number back: its sign and its digits, without the blanks.
ReadBack(text, base) ==
  LET marks == SelectSeq(text, LAMBDA c : c \notin {" ", "+", "-"})
      worth(c) == (CHOOSE i \in DOMAIN DigitChars : DigitChars[i] = c) - 1
      value[i \in 0 .. Len(marks)] ==
        IF i = 0 THEN 0 ELSE value[i - 1] * base + worth(marks[i])
  IN  IF \E i \in DOMAIN text : text[i] = "-" THEN - value[Len(marks)]
      ELSE value[Len(marks)]

\* The number C means by the conversion: as wide as its qualifier says, signed for %d.
Meant(f) ==
  LET w == IF f.conv = "p" THEN LongBits ELSE Bits(f.qualifier)
      low == f.value % 2 ^ w
  IN  IF f.conv = "d" /\ low >= 2 ^ (w - 1) THEN low - 2 ^ w ELSE low

\* vsnprintf_s.c:87 and 163-173: %lb of a number of more bits than tmp has bytes.
BeyondTmp(f) == f.conv = "b" /\ f.qualifier = "l" /\ f.value >= 2 ^ TmpLen

\* print_number and vsnprintf_s.c:568-595: a number reads back as what C means by
\* its conversion, in a field exactly as wide as asked for, or as the number needs;
\* tmp has room for the digits of all but those the code cannot print.  (With
\* precision 0 it prints no digits.)
FieldReadsBack ==
  /\ pc = "overrun" <=> BeyondTmp(field)
  /\ pc # "overrun" /\ field.conv # "none" /\ field.precision # 0 =>
       LET base == Bases[field.conv]
           meant == Meant(field)
           magnitude == IF meant < 0 THEN - meant ELSE meant
           digits == CHOOSE n \in 1 .. LongBits :
                       base ^ n > magnitude /\ \A m \in 1 .. n - 1 : base ^ m <= magnitude
           signs == IF \/ meant < 0
                       \/ field.conv = "d" /\ field.flags \cap {"PLUS", "SPACE"} # {}
                    THEN 1 ELSE 0
       IN  /\ ReadBack(field.text, base) = meant
           /\ Len(field.text) =
                Max2(field.width, signs + Max2(field.precision, digits))

\* What the UART is to get for a text: a carriage return after each line feed.
Expanded(text) ==
  LET out[i \in 0 .. Len(text)] ==
        IF i = 0 THEN << >>
        ELSE out[i - 1] \o IF text[i] = "LF" THEN <<"LF", "CR">> ELSE <<text[i]>>
  IN  out[Len(text)]

\* Each character of s is found in t behind the one before it.
IsSubsequence(s, t) ==
  LET found[i \in 0 .. Len(t)] ==   \* how many, in the first i of t
        IF i = 0 THEN 0
        ELSE LET n == found[i - 1]
             IN  IF n < Len(s) /\ s[n + 1] = t[i] THEN n + 1 ELSE n
  IN  found[Len(t)] = Len(s)

\* TryPrintf, TryPutc: the UART gets the text in order, each line feed with its
\* carriage return; a character may be missing where the transmitter stayed full
\* too long, and no other.
ScreenIsText ==
  pc = "done" =>
    LET due == Expanded(Text)
    IN  IsSubsequence(screen, due) /\ Len(due) - Len(screen) = lost

\* uart_poll_send: PRT_Printf comes back even if the transmitter stays full for ever,
\* unless tmp was too small.
PrintEnds == <>(pc \in {"done", "overrun"})
=============================================================================
