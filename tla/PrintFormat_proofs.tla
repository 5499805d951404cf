------------------------- MODULE PrintFormat_proofs -------------------------
(***************************************************************************)
(* For every size of the buffer and of tmp, width of the C types, argument, *)
(* width, precision and string: the text is cut right, and the UART gets    *)
(* what the buffer holds.  Nothing is proved of the time after an overrun   *)
(* of tmp.                                                                  *)
(***************************************************************************)
EXTENDS PrintFormat, SequenceTheorems, FiniteSetTheorems, WellFoundedInduction, TLAPS

\* What a text is made of: strings, of which the provers know those named here.
Marks == {"x", "LF", "%", "q", "c", " ", "+", "-"}
Chars == (STRING \cup {DigitChars[i] : i \in 1 .. 16} \cup {NullText[i] : i \in 1 .. 6}
                 \cup Marks) \ {"NUL"}
\* What %c may put among them.
AnyChars == Chars \cup {"NUL"}

-----------------------------------------------------------------------------
(***************************************************************************)
(* Numbers and sequences.                                                   *)
(***************************************************************************)
\* Every non-empty set of natural numbers has a least element.
LEMMA Least ==
  ASSUME NEW T, T \subseteq Nat, T # {}
  PROVE  \E x \in T : \A y \in T : x <= y
<1>1. PICK x \in T : \A y \in T : ~ (<<y, x>> \in OpToRel(<, Nat))
  BY NatLessThanWellFounded, WFMin
<1>2. ASSUME NEW y \in T PROVE x <= y
  <2>1. x \in Nat /\ y \in Nat
    OBVIOUS
  <2>2. ~ (y < x)
    BY <1>1, <2>1 DEF OpToRel
  <2> QED
    BY <2>1, <2>2
<1> QED
  BY <1>2

\* A power of two counts the subsets of a set.
LEMMA Powers ==
  ASSUME NEW k \in Nat, NEW n \in Nat, k <= n
  PROVE  2 ^ k \in Nat \ {0} /\ 2 ^ n \in Nat \ {0} /\ 2 ^ k <= 2 ^ n
<1>1. /\ IsFiniteSet(1 .. k) /\ Cardinality(1 .. k) = k
      /\ IsFiniteSet(1 .. n) /\ Cardinality(1 .. n) = n
  BY FS_Interval
<1>2. /\ IsFiniteSet(SUBSET (1 .. k)) /\ Cardinality(SUBSET (1 .. k)) = 2 ^ k
      /\ IsFiniteSet(SUBSET (1 .. n)) /\ Cardinality(SUBSET (1 .. n)) = 2 ^ n
  BY <1>1, FS_SUBSET
<1>3. /\ Cardinality(SUBSET (1 .. k)) \in Nat \ {0}
      /\ Cardinality(SUBSET (1 .. n)) \in Nat \ {0}
  <2>1. SUBSET (1 .. k) # {} /\ SUBSET (1 .. n) # {}
    OBVIOUS
  <2> QED
    BY <1>2, <2>1, FS_EmptySet, FS_CardinalityType
<1>4. SUBSET (1 .. k) \in SUBSET (SUBSET (1 .. n))
  OBVIOUS
<1>5. Cardinality(SUBSET (1 .. k)) <= Cardinality(SUBSET (1 .. n))
  BY <1>2, <1>4, FS_Subset
<1> QED
  BY <1>2, <1>3, <1>5

LEMMA SeqOf ==
  ASSUME NEW S, NEW n \in Nat, NEW f \in [1 .. n -> S]
  PROVE  f \in Seq(S) /\ Len(f) = n
OBVIOUS

LEMMA RepeatText ==
  ASSUME NEW S, NEW c \in S, NEW n \in Int
  PROVE  Repeat(c, n) \in Seq(S)
<1>1. PICK m \in Nat : m = Max2(n, 0)
  BY DEF Max2
<1>2. Repeat(c, n) = [i \in 1 .. m |-> c]
  BY <1>1 DEF Repeat
<1>3. [i \in 1 .. m |-> c] \in [1 .. m -> S]
  OBVIOUS
<1> QED
  BY <1>2, <1>3, SeqOf

LEMMA Joined ==
  ASSUME NEW S, NEW s \in Seq(S), NEW t \in Seq(S)
  PROVE  s \o t \in Seq(S) /\ Len(s \o t) = Len(s) + Len(t)
BY ConcatProperties

LEMMA OneChar ==
  ASSUME NEW c \in Chars
  PROVE  <<c>> \in Seq(Chars) /\ Len(<<c>>) = 1
OBVIOUS

-----------------------------------------------------------------------------
(***************************************************************************)
(* The digits.  The recursion of Digits has a solution, put together from   *)
(* solutions up to n, and every solution gives characters.                  *)
(***************************************************************************)
LEMMA DigitCharsAre == \A i \in 1 .. 16 : DigitChars[i] \in Chars
<1> SUFFICES ASSUME NEW i \in 1 .. 16 PROVE DigitChars[i] \in Chars
  OBVIOUS
<1>1. /\ DigitChars[1] # "NUL" /\ DigitChars[2] # "NUL"
      /\ DigitChars[3] # "NUL" /\ DigitChars[4] # "NUL"
  BY DEF DigitChars
<1>2. /\ DigitChars[5] # "NUL" /\ DigitChars[6] # "NUL"
      /\ DigitChars[7] # "NUL" /\ DigitChars[8] # "NUL"
  BY DEF DigitChars
<1>3. /\ DigitChars[9] # "NUL" /\ DigitChars[10] # "NUL"
      /\ DigitChars[11] # "NUL" /\ DigitChars[12] # "NUL"
  BY DEF DigitChars
<1>4. /\ DigitChars[13] # "NUL" /\ DigitChars[14] # "NUL"
      /\ DigitChars[15] # "NUL" /\ DigitChars[16] # "NUL"
  BY DEF DigitChars
<1>5. i \in {1, 2, 3, 4, 5, 6, 7, 8, 9, 10, 11, 12, 13, 14, 15, 16}
  OBVIOUS
<1>6. DigitChars[i] # "NUL"
  BY <1>1, <1>2, <1>3, <1>4, <1>5
<1> QED
  BY <1>6 DEF Chars

Step(base, f, n) == IF n < base THEN <<DigitChars[n + 1]>>
                    ELSE Append(f[n \div base], DigitChars[(n % base) + 1])
UpTo(base, f, n) == /\ f \in [0 .. n -> Seq(Chars)]
                    /\ \A i \in 0 .. n : f[i] = Step(base, f, i)

LEMMA Divided ==
  ASSUME NEW base \in {2, 8, 10, 16}, NEW n \in Nat
  PROVE  /\ n < base => n + 1 \in 1 .. 16
         /\ (n % base) + 1 \in 1 .. 16
         /\ n >= base => n \div base \in 0 .. n - 1
<1>1. CASE base = 2
  BY <1>1
<1>2. CASE base = 8
  BY <1>2
<1>3. CASE base = 10
  BY <1>3
<1>4. CASE base = 16
  BY <1>4
<1> QED
  BY <1>1, <1>2, <1>3, <1>4

LEMMA StepText ==
  ASSUME NEW base \in {2, 8, 10, 16}, NEW n \in Nat, NEW f,
         n >= base => f[n \div base] \in Seq(Chars)
  PROVE  Step(base, f, n) \in Seq(Chars)
<1>1. CASE n < base
  BY <1>1, Divided, DigitCharsAre, OneChar DEF Step
<1>2. CASE ~ (n < base)
  <2>1. PICK d \in Chars : d = DigitChars[(n % base) + 1]
    BY Divided, DigitCharsAre
  <2>2. n >= base
    BY <1>2
  <2> QED
    BY <1>2, <2>1, <2>2, AppendProperties DEF Step
<1> QED
  BY <1>1, <1>2

\* f and g are equal below n.
Agree(f, g, n) == \A i \in 0 .. n - 1 : f[i] = g[i]

LEMMA SameStep ==
  ASSUME NEW base \in {2, 8, 10, 16}, NEW n \in Nat, NEW f, NEW g, Agree(f, g, n)
  PROVE  Step(base, f, n) = Step(base, g, n)
BY Divided DEF Step, Agree

LEMMA UpToExists ==
  ASSUME NEW base \in {2, 8, 10, 16}, NEW n \in Nat
  PROVE  \E f : UpTo(base, f, n)
<1> DEFINE T == {m \in Nat : ~ \E f : UpTo(base, f, m)}
<1>1. SUFFICES ASSUME T # {} PROVE FALSE
  OBVIOUS
<1>2. PICK m \in T : \A k \in T : m <= k
  BY <1>1, Least
<1>3. m \in Nat /\ ~ \E f : UpTo(base, f, m)
  OBVIOUS
<1>4. PICK f : m = 0 \/ UpTo(base, f, m - 1)
  <2>1. m # 0 => m - 1 \in Nat /\ ~ (m <= m - 1)
    OBVIOUS
  <2> QED
    BY <1>2, <2>1
<1> HIDE DEF T
<1>5. PICK s \in Seq(Chars) : s = Step(base, f, m)
  <2>1. ASSUME m >= base PROVE f[m \div base] \in Seq(Chars)
    <3>1. m # 0 /\ m \div base \in 0 .. m - 1
      BY <1>3, <2>1, Divided
    <3> QED
      BY <1>4, <3>1 DEF UpTo
  <2> QED
    BY <1>3, <2>1, StepText
<1>6. PICK g : g = [i \in 0 .. m |-> IF i = m THEN s ELSE f[i]]
  OBVIOUS
<1>7. /\ g \in [0 .. m -> Seq(Chars)] /\ g[m] = s
      /\ \A i \in 0 .. m - 1 : g[i] = f[i]
  <2>1. \A i \in 0 .. m - 1 : f[i] \in Seq(Chars)
    BY <1>3, <1>4 DEF UpTo
  <2> QED
    BY <1>3, <1>6, <2>1
<1>8. ASSUME NEW i \in 0 .. m PROVE g[i] = Step(base, g, i)
  <2>1. i \in Nat /\ \A j \in 0 .. i - 1 : g[j] = f[j]
    BY <1>3, <1>7
  <2>2. Step(base, g, i) = Step(base, f, i)
    <3>1. Agree(g, f, i)
      BY <2>1 DEF Agree
    <3> QED
      BY <2>1, <3>1, SameStep
  <2>3. CASE i = m
    BY <1>5, <1>7, <2>2, <2>3
  <2>4. CASE i # m
    <3>1. m # 0 /\ i \in 0 .. m - 1
      BY <1>3, <2>4
    <3>2. f[i] = Step(base, f, i)
      BY <1>4, <3>1 DEF UpTo
    <3> QED
      BY <1>7, <2>2, <3>1, <3>2
  <2> QED
    BY <2>3, <2>4
<1> QED
  BY <1>3, <1>7, <1>8 DEF UpTo

LEMMA UpToUnique ==
  ASSUME NEW base \in {2, 8, 10, 16}, NEW n \in Nat, NEW m \in Nat, NEW f, NEW g,
         UpTo(base, f, n), UpTo(base, g, m), NEW i \in Nat, i <= n, i <= m
  PROVE  f[i] = g[i]
<1> DEFINE T == {j \in 0 .. i : f[j] # g[j]}
<1>1. SUFFICES ASSUME T # {} PROVE FALSE
  OBVIOUS
<1>2. PICK j \in T : \A k \in T : j <= k
  <2>1. T \subseteq Nat
    OBVIOUS
  <2> HIDE DEF T
  <2> QED
    BY <1>1, <2>1, Least
<1>3. j \in 0 .. i /\ f[j] # g[j]
  OBVIOUS
<1>4. Agree(f, g, j)
  BY <1>2, <1>3 DEF Agree
<1>5. Step(base, f, j) = Step(base, g, j)
  BY <1>3, <1>4, SameStep
<1> QED
  BY <1>3, <1>5 DEF UpTo

LEMMA DigitsAreChars ==
  ASSUME NEW base \in {2, 8, 10, 16}, NEW num \in Nat
  PROVE  Digits(num, base) \in Seq(Chars)
<1> DEFINE U(n) == CHOOSE f : UpTo(base, f, n)
<1>0. \A n \in Nat : UpTo(base, U(n), n)
  BY UpToExists
<1> HIDE DEF U
<1>1. PICK V : \A n \in Nat : UpTo(base, V[n], n)
  <2>1. \A n \in Nat : [k \in Nat |-> U(k)][n] = U(n)
    OBVIOUS
  <2> QED
    BY <1>0, <2>1
<1>2. PICK F : F = [n \in Nat |-> V[n][n]]
  OBVIOUS
<1>3. ASSUME NEW n \in Nat PROVE F[n] = Step(base, F, n)
  <2>1. ASSUME NEW i \in 0 .. n - 1 PROVE V[n][i] = F[i]
    <3>1. i \in Nat /\ i <= n /\ i <= i
      OBVIOUS
    <3>2. V[n][i] = V[i][i]
      BY <1>1, <3>1, UpToUnique
    <3> QED
      BY <1>2, <3>1, <3>2
  <2>2. PICK h, g : h = V[n] /\ g = F
    OBVIOUS
  <2>3. Step(base, h, n) = Step(base, g, n)
    <3>1. Agree(h, g, n)
      BY <2>1, <2>2 DEF Agree
    <3> QED
      BY <3>1, SameStep
  <2>4. h[n] = Step(base, h, n)
    BY <1>1, <2>2 DEF UpTo
  <2> QED
    BY <1>2, <2>2, <2>3, <2>4
<1>4. F = [n \in Nat |-> Step(base, F, n)]
  BY <1>2, <1>3
<1>5. \E f : f = [n \in Nat |-> IF n < base THEN <<DigitChars[n + 1]>>
                   ELSE Append(f[n \div base], DigitChars[(n % base) + 1])]
  BY <1>4 DEF Step
<1>6. PICK f : /\ f = [n \in Nat |-> Step(base, f, n)]
               /\ Digits(num, base) = f[num]
  BY <1>5 DEF Digits, Step
<1> DEFINE T == {n \in Nat : f[n] \notin Seq(Chars)}
<1>7. SUFFICES ASSUME T # {} PROVE FALSE
  BY <1>6
<1>8. PICK n \in T : \A k \in T : n <= k
  BY <1>7, Least
<1>9. n \in Nat /\ f[n] \notin Seq(Chars)
  OBVIOUS
<1>10. n >= base => f[n \div base] \in Seq(Chars)
  BY <1>8, <1>9, Divided
<1>11. Step(base, f, n) \in Seq(Chars)
  BY <1>9, <1>10, StepText
<1> QED
  BY <1>6, <1>9, <1>11

-----------------------------------------------------------------------------
(***************************************************************************)
(* The texts.  Whatever a round lays out is made of characters.             *)
(***************************************************************************)
LEMMA MarksAreChars == \A c \in Marks \cup {"0"} : c \in Chars
<1>1. "0" = DigitChars[1]
  BY DEF DigitChars
<1>2. "0" \in Chars
  BY <1>1, DigitCharsAre
<1>3. \A c \in Marks : c # "NUL"
  BY DEF Marks
<1> QED
  BY <1>2, <1>3 DEF Chars

LEMMA StringsAreTexts ==
  ASSUME NEW s \in Texts \cup {NullText}
  PROVE  s \in Seq(Chars)
<1>1. CASE s \in Texts
  <2>1. s \in Seq(STRING) /\ \A i \in DOMAIN s : s[i] # "NUL"
    BY <1>1, PrintAssumption
  <2>2. Len(s) \in Nat /\ DOMAIN s = 1 .. Len(s) /\ s = [i \in 1 .. Len(s) |-> s[i]]
        /\ \A i \in 1 .. Len(s) : s[i] \in STRING
    BY <2>1
  <2>3. \A i \in 1 .. Len(s) : s[i] \in Chars
    BY <2>1, <2>2 DEF Chars
  <2>4. s \in [1 .. Len(s) -> Chars]
    BY <2>2, <2>3
  <2> QED
    BY <2>2, <2>4, SeqOf
<1>2. CASE s = NullText
  <2>1. DOMAIN s = 1 .. 6 /\ s = [i \in 1 .. 6 |-> s[i]]
    BY <1>2 DEF NullText
  <2>2. \A i \in 1 .. 6 : s[i] # "NUL"
    BY <1>2 DEF NullText
  <2>3. \A i \in 1 .. 6 : s[i] \in Chars
    BY <1>2, <2>2 DEF Chars
  <2>4. s \in [1 .. 6 -> Chars]
    BY <2>1, <2>3
  <2> QED
    BY <2>4, SeqOf
<1> QED
  BY <1>1, <1>2

LEMMA TextsAreAny == ASSUME NEW t \in Seq(Chars) PROVE t \in Seq(AnyChars)
<1>1. Chars \subseteq AnyChars
  BY DEF AnyChars
<1> QED
  BY <1>1, SeqMonotonic

LEMMA JustifyText ==
  ASSUME NEW t \in Seq(AnyChars), NEW width \in Int, NEW flags
  PROVE  Justify(t, width, flags) \in Seq(AnyChars)
<1>1. " " \in AnyChars
  BY MarksAreChars DEF Marks, AnyChars
<1>2. width - Len(t) \in Int
  BY LenProperties
<1>3. PICK r \in Seq(AnyChars) : r = Repeat(" ", width - Len(t))
  BY <1>1, <1>2, RepeatText
<1>4. t \o r \in Seq(AnyChars) /\ r \o t \in Seq(AnyChars)
  BY <1>3, Joined
<1>5. Justify(t, width, flags) \in {t \o r, r \o t}
  BY <1>3 DEF Justify
<1> QED
  BY <1>4, <1>5

LEMMA SignText ==
  ASSUME NEW negative, NEW flags
  PROVE  Sign(negative, flags) \in Seq(Chars)
<1>1. <<"-">> \in Seq(Chars) /\ <<"+">> \in Seq(Chars) /\ <<" ">> \in Seq(Chars)
      /\ << >> \in Seq(Chars)
  <2>1. "-" \in Chars /\ "+" \in Chars /\ " " \in Chars
    BY MarksAreChars DEF Marks
  <2> QED
    BY <2>1, OneChar, EmptySeq
<1> QED
  BY <1>1 DEF Sign

LEMMA NumberText ==
  ASSUME NEW num \in Nat, NEW base \in {2, 8, 10, 16}, NEW signed, NEW qualifier,
         NEW width \in Int, NEW precision \in Int, NEW flags
  PROVE  print_number(num, base, signed, qualifier, width, precision, flags) \in Seq(Chars)
<1> DEFINE negative == signed /\ IsNegative(num, qualifier)
           sign == IF signed THEN Sign(negative, flags) ELSE << >>
           magnitude == IF negative THEN (-num) % 2 ^ Bits(qualifier) ELSE num
           digits == Digits(magnitude, base)
           zeros == Repeat("0", precision - Len(digits))
           size == width - Max2(precision, Len(digits)) - Len(sign)
           number == zeros \o (IF precision = 0 THEN << >> ELSE digits)
<1>1. << >> \in Seq(Chars) /\ " " \in Chars /\ "0" \in Chars
  <2>1. " " \in Chars /\ "0" \in Chars
    BY MarksAreChars DEF Marks
  <2> QED
    BY <2>1, EmptySeq
<1>2. sign \in Seq(Chars)
  BY <1>1, SignText
<1>3. digits \in Seq(Chars)
  <2>1. 2 ^ Bits(qualifier) \in Nat \ {0}
    <3>1. ShortBits \in Nat /\ IntBits \in Nat /\ LongBits \in Nat
      BY PrintAssumption
    <3>2. \A k \in Nat : 2 ^ k \in Nat \ {0}
      BY Powers
    <3>3. Bits(qualifier) \in Nat
      BY <3>1 DEF Bits
    <3> QED
      BY <3>2, <3>3
  <2>2. magnitude \in Nat
    <3>1. PICK m \in Nat \ {0} : m = 2 ^ Bits(qualifier)
      BY <2>1
    <3>2. (-num) % m \in Nat
      OBVIOUS
    <3> QED
      BY <3>1, <3>2
  <2> QED
    BY <2>2, DigitsAreChars
<1> HIDE DEF negative, sign, magnitude, digits
<1>4. zeros \in Seq(Chars) /\ size \in Int
  <2>1. PICK l \in Nat, k \in Nat : l = Len(digits) /\ k = Len(sign)
    BY <1>2, <1>3, LenProperties
  <2>2. Repeat("0", precision - l) \in Seq(Chars)
    <3>1. PICK n \in Int : n = precision - l
      OBVIOUS
    <3>2. Repeat("0", n) \in Seq(Chars)
      BY <1>1, RepeatText
    <3> QED
      BY <3>1, <3>2
  <2>3. width - Max2(precision, l) - k \in Int
    BY DEF Max2
  <2> QED
    BY <2>1, <2>2, <2>3
<1>5. number \in Seq(Chars)
  BY <1>1, <1>3, <1>4, Joined
<1> HIDE DEF zeros, size, number
<1>6. Repeat(" ", size) \in Seq(Chars) /\ Repeat("0", size) \in Seq(Chars)
  BY <1>1, <1>4, RepeatText
<1>7. /\ sign \o number \o Repeat(" ", size) \in Seq(Chars)
      /\ sign \o Repeat("0", size) \o number \in Seq(Chars)
      /\ Repeat(" ", size) \o sign \o number \in Seq(Chars)
  BY <1>2, <1>5, <1>6, Joined
<1> QED
  BY <1>7 DEF print_number, NumberDigits, negative, sign, magnitude, digits, zeros, size, number

LEMMA FetchedNat ==
  ASSUME NEW conv, NEW qualifier, NEW value \in Values
  PROVE  Fetched(conv, qualifier, value) \in Nat /\ value \in Nat
<1>1. ShortBits \in Nat /\ IntBits \in Nat /\ LongBits \in Nat /\ ShortBits <= LongBits
  BY PrintAssumption
<1>2. 2 ^ ShortBits \in Nat \ {0} /\ 2 ^ LongBits \in Nat \ {0} /\ 2 ^ ShortBits <= 2 ^ LongBits
  BY <1>1, Powers
<1>3. Bits(qualifier) \in Nat
  BY <1>1 DEF Bits
<1>4. 2 ^ Bits(qualifier) \in Nat \ {0}
  <2>1. \A k \in Nat : 2 ^ k \in Nat \ {0}
    BY Powers
  <2> QED
    BY <1>3, <2>1
<1>5. value \in Nat
  <2>1. value \in 0 .. 2 ^ LongBits - 1
    BY PrintAssumption
  <2> QED
    BY <1>2, <2>1
<1>6. PICK low \in Nat : low = value % 2 ^ Bits(qualifier)
  <2>1. PICK m \in Nat \ {0} : m = 2 ^ Bits(qualifier)
    BY <1>4
  <2>2. value % m \in Nat
    BY <1>5
  <2> QED
    BY <2>1, <2>2
<1>7. low + 2 ^ LongBits - 2 ^ ShortBits \in Nat
  BY <1>2
<1> QED
  BY <1>5, <1>6, <1>7 DEF Fetched

\* Every round produces characters, or overruns tmp.
LEMMA Produced ==
  ASSUME Format
  PROVE  \/ \E f, text : text \in Seq(AnyChars) /\ ProduceAs(f, text)
         \/ \E f : Overrun(f)
<1>1. CASE Ordinary
  <2>1. <<"x">> \in Seq(Chars) /\ <<"LF">> \in Seq(Chars)
    <3>1. "x" \in Chars /\ "LF" \in Chars
      BY MarksAreChars DEF Marks
    <3> QED
      BY <3>1, OneChar
  <2> QED
    BY <1>1, <2>1, TextsAreAny DEF Ordinary, Produce
<1>2. CASE PercentSign \/ Unknown
  <2>1. <<"%">> \in Seq(Chars) /\ <<"q">> \in Seq(Chars) /\ << >> \in Seq(Chars)
    <3>1. "%" \in Chars /\ "q" \in Chars
      BY MarksAreChars DEF Marks
    <3> QED
      BY <3>1, OneChar, EmptySeq
  <2>2. \A rest \in {<<"q">>, << >>} : <<"%">> \o rest \in Seq(Chars)
    BY <2>1, Joined
  <2> QED
    BY <1>2, <2>1, <2>2, TextsAreAny DEF PercentSign, Unknown, Produce
<1>3. CASE Character
  <2>1. PICK c \in {"c", "NUL"}, width \in Widths, flags \in SUBSET {"LEFT"} :
          Produce(Justify(<<c>>, width, flags))
    BY <1>3 DEF Character
  <2>2. <<c>> \in Seq(AnyChars)
    <3>1. c \in AnyChars
      BY MarksAreChars DEF Marks, AnyChars
    <3> QED
      BY <3>1
  <2>3. width \in Int
    BY PrintAssumption
  <2>4. Justify(<<c>>, width, flags) \in Seq(AnyChars)
    BY <2>2, <2>3, JustifyText
  <2> QED
    BY <2>1, <2>4 DEF Produce
<1>4. CASE String
  <2>1. PICK s \in Texts \cup {NullText}, width \in Widths, precision \in Precisions :
          \E flags : Produce(Justify(SubSeq(s, 1, StringLength(s, width, precision)),
                                     width, flags))
    BY <1>4 DEF String
  <2>2. width \in Int /\ precision \in Int /\ s \in Seq(Chars)
    BY PrintAssumption, StringsAreTexts
  <2>3. StringLength(s, width, precision) \in 0 .. Len(s)
    BY <2>2, LenProperties DEF StringLength
  <2>4. PICK t : t = SubSeq(s, 1, StringLength(s, width, precision))
    OBVIOUS
  <2>5. t \in Seq(Chars)
    <3>1. PICK n \in Int : n = StringLength(s, width, precision)
      BY <2>2, <2>3, LenProperties
    <3>2. \A i \in 1 .. n : s[i] \in Chars
      BY <2>2, <2>3, <3>1, ElementOfSeq
    <3> QED
      BY <2>4, <3>1, <3>2, SubSeqProperties
  <2>6. PICK flags : Produce(Justify(t, width, flags))
    BY <2>1, <2>4
  <2>7. Justify(t, width, flags) \in Seq(AnyChars)
    BY <2>2, <2>5, TextsAreAny, JustifyText
  <2> QED
    BY <2>6, <2>7 DEF Produce
<1>5. ASSUME NEW f, NEW num \in Nat, NEW width \in Int, NEW flags,
             NumberField(f, num, width, flags), f.precision \in Int,
             Bases[f.conv] \in {2, 8, 10, 16}
      PROVE  \/ \E g, text : text \in Seq(AnyChars) /\ ProduceAs(g, text)
             \/ Overrun(f)
  <2>1. PICK text : /\ text = print_number(num, Bases[f.conv], f.conv = "d", f.qualifier, width,
                                           f.precision, flags)
                    /\ ProduceAs([f EXCEPT !.text = text], text) \/ Overrun(f)
    BY <1>5 DEF NumberField
  <2>2. PICK base \in {2, 8, 10, 16}, precision \in Int :
          base = Bases[f.conv] /\ precision = f.precision
    BY <1>5
  <2>3. PICK signed, qualifier : signed = (f.conv = "d") /\ qualifier = f.qualifier
    OBVIOUS
  <2>4. print_number(num, base, signed, qualifier, width, precision, flags) \in Seq(Chars)
    BY NumberText
  <2>5. text \in Seq(AnyChars)
    BY <2>1, <2>2, <2>3, <2>4, TextsAreAny
  <2> QED
    BY <2>1, <2>5
<1>6. CASE Pointer
  <2>1. PICK value \in Values, w \in Widths, precision \in Precisions, fl \in SUBSET Flags :
          LET f == [NoField EXCEPT !.conv = "p", !.value = value, !.precision = precision,
                      !.width = IF w = -1 THEN PointerWidth ELSE w,
                      !.flags = IF w = -1 THEN fl \cup {"ZEROPAD"} ELSE fl]
          IN  NumberField(f, value, f.width, f.flags)
    BY <1>6 DEF Pointer
  <2>2. PICK width \in Int, flags \in SUBSET Flags :
          /\ width = (IF w = -1 THEN PointerWidth ELSE w)
          /\ flags = (IF w = -1 THEN fl \cup {"ZEROPAD"} ELSE fl)
    <3>1. PointerWidth \in Int /\ w \in Int
      BY PrintAssumption DEF PointerWidth
    <3>2. fl \cup {"ZEROPAD"} \in SUBSET Flags
      BY DEF Flags
    <3> QED
      BY <3>1, <3>2
  <2>3. PICK f : f = [NoField EXCEPT !.conv = "p", !.value = value, !.precision = precision,
                        !.width = width, !.flags = flags]
    OBVIOUS
  <2>4. /\ f.conv = "p" /\ f.precision = precision /\ f.width = width /\ f.flags = flags
        /\ NumberField(f, value, f.width, f.flags)
    BY <2>1, <2>2, <2>3 DEF NoField
  <2>5. Bases[f.conv] = 16 /\ precision \in Int /\ value \in Nat
    BY <2>4, PrintAssumption, FetchedNat DEF Bases
  <2> QED
    BY <1>5, <2>4, <2>5
<1>7. CASE Number
  <2>1. PICK conv \in {"d", "u", "x", "o", "b"}, qualifier \in {"none", "h", "l"},
             value \in Values, width \in Widths, precision \in Precisions,
             flags \in SUBSET Flags :
          LET f == [NoField EXCEPT !.conv = conv, !.qualifier = qualifier, !.value = value,
                      !.width = width, !.precision = precision, !.flags = flags]
          IN  NumberField(f, Fetched(conv, qualifier, value), width, flags)
    BY <1>7 DEF Number
  <2>2. PICK f : f = [NoField EXCEPT !.conv = conv, !.qualifier = qualifier, !.value = value,
                        !.width = width, !.precision = precision, !.flags = flags]
    OBVIOUS
  <2>3. /\ f.conv = conv /\ f.precision = precision
        /\ NumberField(f, Fetched(conv, qualifier, value), width, flags)
    BY <2>1, <2>2 DEF NoField
  <2>4. /\ Bases[f.conv] \in {2, 8, 10, 16} /\ precision \in Int /\ width \in Int
        /\ Fetched(conv, qualifier, value) \in Nat
    BY <2>3, PrintAssumption, FetchedNat DEF Bases
  <2> QED
    BY <1>5, <2>3, <2>4
<1> QED
  BY <1>1, <1>2, <1>3, <1>4, <1>6, <1>7 DEF Format

-----------------------------------------------------------------------------
(***************************************************************************)
(* The buffer.                                                              *)
(***************************************************************************)
\* What the buffer and the cells behind it hold once w is laid out.
Laid(w) == [i \in Cells |-> IF i >= OS_MAX_SHOW_LEN THEN "guard"
                            ELSE IF i < Len(w) THEN w[i + 1] ELSE "NUL"]

\* The buffer holds as much of the text as it has room for.
Filled == pc = "format" =>
  /\ wanted \in Seq(AnyChars) /\ str = Len(wanted) /\ buf = Laid(wanted)
  /\ next = 0 /\ screen = << >> /\ lost = 0

LEMMA FilledInit == Init => Filled
<1> SUFFICES ASSUME Init PROVE Filled
  OBVIOUS
<1>1. wanted = << >> /\ wanted \in Seq(AnyChars) /\ Len(wanted) = 0 /\ str = 0
  BY EmptySeq DEF Init
<1>2. buf = [i \in Cells |-> IF i < OS_MAX_SHOW_LEN THEN "NUL" ELSE "guard"]
      /\ next = 0 /\ screen = << >> /\ lost = 0
  BY DEF Init
<1>3. \A i \in Cells : i \in Nat /\ OS_MAX_SHOW_LEN \in Nat
  BY PrintAssumption DEF Cells
<1>4. buf = Laid(wanted)
  BY <1>1, <1>2, <1>3 DEF Laid
<1> QED
  BY <1>1, <1>2, <1>4 DEF Filled

LEMMA FilledKept == Filled /\ [Next]_vars => Filled'
<1> SUFFICES ASSUME Filled, [Next]_vars, pc' = "format"
             PROVE  /\ wanted' \in Seq(AnyChars) /\ str' = Len(wanted') /\ buf' = Laid(wanted')
                    /\ next' = 0 /\ screen' = << >> /\ lost' = 0
  BY DEF Filled, Laid
<1>1. CASE Format
  <2>1. PICK f, text : text \in Seq(AnyChars) /\ ProduceAs(f, text)
    BY <1>1, Produced DEF Overrun
  <2>2. /\ pc = "format" /\ wanted \in Seq(AnyChars) /\ str = Len(wanted) /\ buf = Laid(wanted)
        /\ next' = 0 /\ screen' = << >> /\ lost' = 0
    BY <2>1 DEF ProduceAs, Filled
  <2>3. wanted' = wanted \o text /\ str' = str + Len(text) /\ buf' = Put(text)
    BY <2>1 DEF ProduceAs
  <2>4. PICK n \in Nat, k \in Nat : n = Len(wanted) /\ k = Len(text)
    BY <2>1, <2>2, LenProperties
  <2>5. PICK w : w = wanted \o text
    OBVIOUS
  <2>6. /\ w \in Seq(AnyChars) /\ Len(w) = n + k
        /\ \A i \in 1 .. n + k : w[i] = IF i <= n THEN wanted[i] ELSE text[i - n]
    BY <2>1, <2>2, <2>4, <2>5, ConcatProperties
  <2>7. ASSUME NEW i \in Cells PROVE Put(text)[i] = Laid(w)[i]
    <3>1. i \in Nat /\ OS_MAX_SHOW_LEN \in Nat
      BY PrintAssumption DEF Cells
    <3>2. Put(text)[i] = IF i \in n .. n + k - 1 /\ i < OS_MAX_SHOW_LEN
                         THEN text[i - n + 1] ELSE buf[i]
      BY <2>2, <2>4 DEF Put
    <3>3. buf[i] = IF i >= OS_MAX_SHOW_LEN THEN "guard"
                   ELSE IF i < n THEN wanted[i + 1] ELSE "NUL"
      BY <2>2, <2>4 DEF Laid
    <3>4. Laid(w)[i] = IF i >= OS_MAX_SHOW_LEN THEN "guard"
                       ELSE IF i < n + k THEN w[i + 1] ELSE "NUL"
      BY <2>6 DEF Laid
    <3>5. i < n => w[i + 1] = wanted[i + 1]
      BY <2>6, <3>1
    <3>6. i \in n .. n + k - 1 => w[i + 1] = text[i - n + 1]
      <4> SUFFICES ASSUME i \in n .. n + k - 1 PROVE w[i + 1] = text[i - n + 1]
        OBVIOUS
      <4>1. i + 1 \in 1 .. n + k /\ ~ (i + 1 <= n) /\ (i + 1) - n = i - n + 1
        OBVIOUS
      <4> QED
        BY <2>6, <4>1
    <3> QED
      BY <3>1, <3>2, <3>3, <3>4, <3>5, <3>6
  <2>8. Put(text) = Laid(w)
    BY <2>7 DEF Put, Laid
  <2> QED
    BY <2>2, <2>3, <2>4, <2>5, <2>6, <2>8
<1>2. CASE UNCHANGED <<pc, buf, str, wanted, next, screen, lost>>
  BY <1>2 DEF Filled, Laid
<1>3. CASE TryPrintf
  BY <1>3 DEF TryPrintf, Terminate, SendChar, PollBusy, Sent, Sending, CharDone
<1> QED
  BY <1>1, <1>2, <1>3 DEF Next, Transmitter, vars, Sending

\* The text in a buffer b.
TextOf(b) == LET end == CHOOSE i \in Cells : b[i] = "NUL" /\ \A j \in 0 .. i - 1 : b[j] # "NUL"
             IN  [i \in 1 .. end |-> b[i - 1]]

LEMMA TextIs ==
  ASSUME NEW b, NEW e \in Cells, b[e] = "NUL", \A j \in 0 .. e - 1 : b[j] # "NUL"
  PROVE  TextOf(b) = [i \in 1 .. e |-> b[i - 1]]
<1>1. \A i \in Cells : b[i] = "NUL" /\ (\A j \in 0 .. i - 1 : b[j] # "NUL") => i = e
  <2> SUFFICES ASSUME NEW i \in Cells, b[i] = "NUL", \A j \in 0 .. i - 1 : b[j] # "NUL"
               PROVE  i = e
    OBVIOUS
  <2>1. i \in Nat /\ e \in Nat
    BY DEF Cells
  <2>2. ~ (e < i) /\ ~ (i < e)
    BY <2>1
  <2> QED
    BY <2>1, <2>2
<1> DEFINE end == CHOOSE i \in Cells : b[i] = "NUL" /\ \A j \in 0 .. i - 1 : b[j] # "NUL"
<1>2. end \in Cells /\ b[end] = "NUL" /\ (\A j \in 0 .. end - 1 : b[j] # "NUL")
  OBVIOUS
<1>3. end = e
  BY <1>1, <1>2
<1> QED
  BY <1>3 DEF TextOf

\* At the end of the format as much of the text is in the buffer as fits: m characters.
\* There is a first terminator among them or behind them, at e.
LEMMA Cut ==
  ASSUME Filled, Terminate
  PROVE  \E m \in Cells, e \in Cells :
           /\ m = IF Len(wanted) < OS_MAX_SHOW_LEN THEN Len(wanted) ELSE OS_MAX_SHOW_LEN - 1
           /\ buf'[m] = "NUL"
           /\ \A j \in 0 .. m - 1 : buf'[j] = wanted[j + 1]
           /\ e \in 0 .. m /\ buf'[e] = "NUL"
           /\ \A j \in 0 .. e - 1 : buf'[j] \in Chars
           /\ \A i \in Cells : i >= OS_MAX_SHOW_LEN => buf'[i] = "guard"
           /\ next' = 0 /\ screen' = << >> /\ lost' = 0 /\ pc' = "send"
<1>1. /\ wanted \in Seq(AnyChars) /\ str = Len(wanted) /\ buf = Laid(wanted)
      /\ next' = 0 /\ screen' = << >> /\ lost' = 0 /\ pc' = "send"
  BY DEF Filled, Terminate
<1>2. PICK n \in Nat, size \in Nat \ {0} : n = Len(wanted) /\ size = OS_MAX_SHOW_LEN
  BY <1>1, LenProperties, PrintAssumption
<1>3. PICK m : m = IF n < size THEN n ELSE size - 1
  OBVIOUS
<1>4. m \in Cells /\ m \in Nat /\ m <= n /\ m < size
  BY <1>2, <1>3 DEF Cells, Guard
<1>5. buf' = [buf EXCEPT ![m] = "NUL"]
  BY <1>1, <1>2, <1>3 DEF Terminate
<1>6. DOMAIN buf = Cells
  BY <1>1 DEF Laid
<1>7. buf'[m] = "NUL" /\ \A i \in Cells : i # m => buf'[i] = buf[i]
  BY <1>4, <1>5, <1>6
<1>8. ASSUME NEW j \in 0 .. m - 1
      PROVE  buf'[j] = wanted[j + 1] /\ buf'[j] \in AnyChars
  <2>1. j \in Cells /\ j # m /\ ~ (j >= OS_MAX_SHOW_LEN) /\ j < Len(wanted)
    BY <1>2, <1>4 DEF Cells, Guard
  <2>2. buf'[j] = wanted[j + 1]
    BY <1>1, <1>7, <2>1 DEF Laid
  <2>3. j + 1 \in 1 .. Len(wanted)
    BY <1>2, <2>1 DEF Cells
  <2> QED
    BY <1>1, <2>2, <2>3, ElementOfSeq
<1>9. ASSUME NEW i \in Cells, i >= OS_MAX_SHOW_LEN
      PROVE  buf'[i] = "guard"
  <2>1. i # m
    BY <1>2, <1>4, <1>9
  <2> QED
    BY <1>1, <1>7, <1>9, <2>1 DEF Laid
<1>10. PICK e \in 0 .. m : buf'[e] = "NUL" /\ \A j \in 0 .. e - 1 : buf'[j] # "NUL"
  <2>1. PICK T : T = {i \in 0 .. m : buf'[i] = "NUL"}
    OBVIOUS
  <2>2. T \subseteq Nat /\ T # {}
    BY <1>4, <1>7, <2>1
  <2>3. PICK e \in T : \A i \in T : e <= i
    BY <2>2, Least
  <2>4. ASSUME NEW j \in 0 .. e - 1 PROVE buf'[j] # "NUL"
    <3>1. e \in 0 .. m
      BY <2>1
    <3>2. j \in 0 .. m /\ ~ (e <= j)
      BY <1>4, <3>1
    <3> QED
      BY <2>1, <2>3, <3>2
  <2> QED
    BY <2>1, <2>4
<1>11. e \in Cells /\ \A j \in 0 .. e - 1 : buf'[j] \in Chars
  <2>1. e \in Cells
    BY <1>2, <1>4 DEF Cells, Guard
  <2>2. \A j \in 0 .. e - 1 : j \in 0 .. m - 1
    BY <1>4
  <2> QED
    BY <1>8, <1>10, <2>1, <2>2 DEF AnyChars
<1> QED
  BY <1>1, <1>2, <1>3, <1>4, <1>7, <1>8, <1>9, <1>10, <1>11

\* vsnprintf_s: whatever is printed, as long as tmp holds the digits of its numbers, the
\* buffer ends up with as much of the text as fits and a terminator, no cell behind it is
\* written, and what is sent ends there or at a terminator that a %c put in.
THEOREM TextIsCut == Spec => TextIsPrefix
<1> DEFINE cut == SubSeq(wanted, 1, IF Len(wanted) < OS_MAX_SHOW_LEN THEN Len(wanted)
                                    ELSE OS_MAX_SHOW_LEN - 1)
           end == Len(Text')
<1>1. ASSUME Filled, [Next]_vars, pc = "format", pc' = "send"
      PROVE  /\ \A i \in DOMAIN cut : buf'[i - 1] = cut[i]
             /\ buf'[Len(cut)] = "NUL"
             /\ \A i \in Cells : i >= OS_MAX_SHOW_LEN => buf'[i] = "guard"
             /\ end \in 0 .. Len(cut) /\ Text' = SubSeq(cut, 1, end)
             /\ end # Len(cut) => cut[end + 1] = "NUL"
             /\ \A i \in 1 .. end : cut[i] # "NUL"
  <2>1. Terminate
    <3>1. ~ Format
      BY <1>1, Produced DEF ProduceAs, Overrun
    <3> QED
      BY <1>1, <3>1 DEF Next, TryPrintf, Transmitter, Sending, SendChar, PollBusy, Sent, vars
  <2>2. PICK m \in Cells, e \in Cells :
          /\ m = IF Len(wanted) < OS_MAX_SHOW_LEN THEN Len(wanted) ELSE OS_MAX_SHOW_LEN - 1
          /\ buf'[m] = "NUL"
          /\ \A j \in 0 .. m - 1 : buf'[j] = wanted[j + 1]
          /\ e \in 0 .. m /\ buf'[e] = "NUL"
          /\ \A j \in 0 .. e - 1 : buf'[j] \in Chars
          /\ \A i \in Cells : i >= OS_MAX_SHOW_LEN => buf'[i] = "guard"
    BY <1>1, <2>1, Cut
  <2>3. PICK n \in Nat, size \in Nat \ {0} : n = Len(wanted) /\ size = OS_MAX_SHOW_LEN
    BY <1>1, LenProperties, PrintAssumption DEF Filled
  <2>4. m \in 0 .. n /\ e \in Nat /\ e <= m
    BY <2>2, <2>3
  <2>5. PICK c : c = cut
    OBVIOUS
  <2>6. c \in Seq(AnyChars) /\ Len(c) = m /\ \A i \in 1 .. m : c[i] = wanted[i]
    <3>1. wanted \in Seq(AnyChars)
      BY <1>1 DEF Filled
    <3>2. c = SubSeq(wanted, 1, m)
      BY <2>2, <2>5
    <3>3. \A i \in 1 .. m : wanted[i] \in AnyChars
      BY <2>3, <2>4, <3>1, ElementOfSeq
    <3> QED
      BY <2>4, <3>2, <3>3, SubSeqProperties
  <2>7. ASSUME NEW i \in 1 .. m PROVE buf'[i - 1] = c[i]
    <3>1. i - 1 \in 0 .. m - 1 /\ (i - 1) + 1 = i
      BY <2>4
    <3> QED
      BY <2>2, <2>6, <3>1
  <2>8. PICK b, t : b = buf' /\ t = Text'
    OBVIOUS
  <2>9. t = [i \in 1 .. e |-> b[i - 1]]
    <3>1. t = TextOf(b)
      BY <2>8 DEF Text, TextOf
    <3>2. \A j \in 0 .. e - 1 : b[j] # "NUL"
      BY <2>2, <2>8 DEF Chars
    <3> QED
      BY <2>2, <2>8, <3>1, <3>2, TextIs
  <2>10. \A i \in 1 .. e : i \in 1 .. m /\ i - 1 \in 0 .. e - 1
    BY <2>4
  <2>11. \A i \in 1 .. e : c[i] \in Chars /\ t[i] = c[i]
    BY <2>2, <2>7, <2>8, <2>9, <2>10
  <2>12. t \in Seq(Chars) /\ Len(t) = e
    <3>1. t \in [1 .. e -> Chars]
      BY <2>9, <2>11
    <3> QED
      BY <2>4, <3>1, SeqOf
  <2>13. t = SubSeq(c, 1, e)
    <3>1. SubSeq(c, 1, e) = [i \in 1 .. e |-> c[i]]
      BY <2>4, <2>6
    <3> QED
      BY <2>9, <2>11, <3>1
  <2>14. e # m => c[e + 1] = "NUL"
    <3>1. e # m => e + 1 \in 1 .. m /\ (e + 1) - 1 = e
      BY <2>4
    <3> QED
      BY <2>2, <2>7, <3>1
  <2>15. DOMAIN c = 1 .. m /\ \A i \in 1 .. e : c[i] # "NUL"
    BY <2>6, <2>11, LenProperties DEF Chars
  <2> HIDE DEF cut
  <2> QED
    BY <2>2, <2>4, <2>5, <2>6, <2>7, <2>8, <2>12, <2>13, <2>14, <2>15
<1>2. [](Filled) /\ [][Next]_vars => TextIsPrefix
  BY <1>1, PTL DEF TextIsPrefix
<1> QED
  BY <1>2, FilledInit, FilledKept, PTL DEF Spec

-----------------------------------------------------------------------------
(***************************************************************************)
(* Functions by recursion on 0 .. N.                                        *)
(***************************************************************************)
\* A set with 0 and not all the numbers has one whose successor it misses.
LEMMA UpTheNumbers ==
  ASSUME NEW N \in Nat, NEW B, 0 \in B, NEW k \in 0 .. N, k \notin B
  PROVE  \E i \in 1 .. N : i - 1 \in B /\ i \notin B
<1>1. PICK T : T = (0 .. N) \ B
  OBVIOUS
<1>2. T \subseteq Nat /\ T # {}
  BY <1>1
<1>3. PICK i \in T : \A j \in T : i <= j
  BY <1>2, Least
<1>4. i \in 0 .. N /\ i \notin B
  BY <1>1
<1>5. i \in 1 .. N /\ i - 1 \in 0 .. N /\ i - 1 \notin T
  BY <1>2, <1>3, <1>4
<1>6. i - 1 \in B
  BY <1>1, <1>5
<1> QED
  BY <1>4, <1>5, <1>6

\* f repeats the steps G from a start.
Repeats(f, S, start, G, N) ==
  f \in [0 .. N -> S] /\ f[0] = start /\ \A i \in 1 .. N : f[i] = G[i][f[i - 1]]
Steps(G, S, start, N) == start \in S /\ G \in [1 .. N -> [S -> S]]

LEMMA Iterates ==
  ASSUME NEW S, NEW start, NEW N \in Nat, NEW G, Steps(G, S, start, N)
  PROVE  \E f : Repeats(f, S, start, G, N)
<1>0. start \in S /\ G \in [1 .. N -> [S -> S]]
  BY DEF Steps
<1> DEFINE B == {n \in 0 .. N : \E f : Repeats(f, S, start, G, n)}
<1>1. 0 \in B
  <2>1. PICK f : f = [i \in 0 .. 0 |-> start]
    OBVIOUS
  <2>2. Repeats(f, S, start, G, 0)
    BY <1>0, <2>1 DEF Repeats
  <2> QED
    BY <2>2
<1>2. ASSUME NEW n \in 1 .. N, n - 1 \in B PROVE n \in B
  <2>1. PICK g : Repeats(g, S, start, G, n - 1)
    BY <1>2
  <2> /\ g \in [0 .. n - 1 -> S] /\ g[0] = start
       /\ \A i \in 1 .. n - 1 : g[i] = G[i][g[i - 1]]
    BY <2>1 DEF Repeats
  <2>2. PICK f : f = [i \in 0 .. n |-> IF i = n THEN G[n][g[n - 1]] ELSE g[i]]
    OBVIOUS
  <2>3. n - 1 \in 0 .. n - 1 /\ g[n - 1] \in S
    OBVIOUS
  <2>4. G[n] \in [S -> S]
    BY <1>0
  <2>5. G[n][g[n - 1]] \in S
    BY <2>3, <2>4
  <2>6. f \in [0 .. n -> S]
    <3>1. \A i \in 0 .. n : i # n => i \in 0 .. n - 1 /\ g[i] \in S
      OBVIOUS
    <3> QED
      BY <2>2, <2>5, <3>1
  <2>7. f[0] = start
    BY <2>1, <2>2
  <2>8. ASSUME NEW i \in 1 .. n PROVE f[i] = G[i][f[i - 1]]
    <3>1. i - 1 \in 0 .. n /\ i - 1 # n /\ i \in 0 .. n
      OBVIOUS
    <3>2. f[i - 1] = g[i - 1]
      BY <2>2, <3>1
    <3>3. CASE i = n
      BY <2>2, <3>1, <3>2, <3>3
    <3>4. CASE i # n
      <4>1. i \in 1 .. n - 1
        BY <3>4
      <4> QED
        BY <2>1, <2>2, <3>1, <3>2, <3>4, <4>1
    <3> QED
      BY <3>3, <3>4
  <2>9. Repeats(f, S, start, G, n)
    BY <2>6, <2>7, <2>8 DEF Repeats
  <2> QED
    BY <2>9
<1>3. SUFFICES ASSUME N \notin B PROVE FALSE
  OBVIOUS
<1> HIDE DEF B
<1> QED
  BY <1>1, <1>2, <1>3, UpTheNumbers

\* Functions that differ come apart at some place.
Differ(f, g, i) == f[i] # g[i]

LEMMA ComeApart ==
  ASSUME NEW N \in Nat, NEW f, NEW g, NEW k \in 0 .. N, ~ Differ(f, g, 0), Differ(f, g, k)
  PROVE  \E i \in 1 .. N : ~ Differ(f, g, i - 1) /\ Differ(f, g, i)
<1>1. PICK B : B = {i \in 0 .. N : ~ Differ(f, g, i)}
  OBVIOUS
<1>2. 0 \in B /\ k \notin B
  BY <1>1
<1>3. PICK i \in 1 .. N : i - 1 \in B /\ i \notin B
  BY <1>2, UpTheNumbers
<1> QED
  BY <1>1, <1>3

-----------------------------------------------------------------------------
(***************************************************************************)
(* What the UART is to get.                                                 *)
(***************************************************************************)
Units == Chars \cup {"CR"}
Unit(c) == IF c = "LF" THEN <<"LF", "CR">> ELSE <<c>>

\* f[i] is what the UART gets for the first i characters of t.
IsOut(t, f) == f \in [0 .. Len(t) -> Seq(Units)] /\ f[0] = << >>
               /\ \A i \in 1 .. Len(t) : f[i] = f[i - 1] \o Unit(t[i])

LEMMA UnitText == ASSUME NEW c \in Chars PROVE Unit(c) \in Seq(Units)
<1>1. c \in Units /\ "LF" \in Units /\ "CR" \in Units
  BY MarksAreChars DEF Marks, Units
<1>2. <<c>> \in Seq(Units) /\ <<"LF", "CR">> \in Seq(Units)
  BY <1>1
<1> QED
  BY <1>2 DEF Unit

LEMMA OutExists ==
  ASSUME NEW t \in Seq(Chars)
  PROVE  \E f : IsOut(t, f)
<1>1. PICK N \in Nat : N = Len(t)
  BY LenProperties
<1>2. PICK S : S = Seq(Units)
  OBVIOUS
<1>3. PICK G : G = [i \in 1 .. N |-> [x \in S |-> x \o Unit(t[i])]]
  OBVIOUS
<1>4. ASSUME NEW i \in 1 .. N, NEW x \in S PROVE x \o Unit(t[i]) \in S
  <2>1. t[i] \in Chars
    BY <1>1, ElementOfSeq
  <2>2. Unit(t[i]) \in Seq(Units)
    BY <2>1, UnitText
  <2> QED
    BY <1>2, <2>2, ConcatProperties
<1>5. << >> \in S
  BY <1>2, EmptySeq
<1>6. Steps(G, S, << >>, N)
  BY <1>3, <1>4, <1>5 DEF Steps
<1>7. PICK f : Repeats(f, S, << >>, G, N)
  BY <1>6, Iterates
<1> /\ f \in [0 .. N -> S] /\ f[0] = << >>
     /\ \A i \in 1 .. N : f[i] = G[i][f[i - 1]]
  BY <1>7 DEF Repeats
<1>8. ASSUME NEW i \in 1 .. N PROVE f[i] = f[i - 1] \o Unit(t[i])
  <2>1. i - 1 \in 0 .. N /\ f[i - 1] \in S
    OBVIOUS
  <2> QED
    BY <1>3, <1>7, <2>1
<1> QED
  BY <1>1, <1>2, <1>7, <1>8 DEF IsOut

\* The model's recursion is this one.
LEMMA ExpandedIs ==
  ASSUME NEW t \in Seq(Chars), NEW f, IsOut(t, f)
  PROVE  Expanded(t) = f[Len(t)]
<1>1. PICK N \in Nat : N = Len(t)
  BY LenProperties
<1> DEFINE R(g) == g = [i \in 0 .. N |-> IF i = 0 THEN << >>
                          ELSE g[i - 1] \o IF t[i] = "LF" THEN <<"LF", "CR">> ELSE <<t[i]>>]
           out == CHOOSE g : R(g)
<1>2. f \in [0 .. N -> Seq(Units)] /\ f[0] = << >>
      /\ \A i \in 1 .. N : f[i] = f[i - 1] \o Unit(t[i])
  BY <1>1 DEF IsOut
<1>3. f = [i \in 0 .. N |-> f[i]]
  BY <1>2
<1>4. \A i \in 0 .. N : f[i] = IF i = 0 THEN << >>
                          ELSE f[i - 1] \o IF t[i] = "LF" THEN <<"LF", "CR">> ELSE <<t[i]>>
  <2> SUFFICES ASSUME NEW i \in 0 .. N, i # 0
               PROVE  f[i] = f[i - 1] \o IF t[i] = "LF" THEN <<"LF", "CR">> ELSE <<t[i]>>
    BY <1>2
  <2>1. i \in 1 .. N
    OBVIOUS
  <2> QED
    BY <1>2, <2>1 DEF Unit
<1>5. R(f)
  BY <1>3, <1>4
<1>6. R(out)
  BY <1>5
<1> HIDE DEF out
<1>7. out[0] = f[0]
  BY <1>2, <1>6
<1>8. ASSUME NEW i \in 1 .. N, out[i - 1] = f[i - 1] PROVE out[i] = f[i]
  <2>1. i \in 0 .. N /\ i # 0
    OBVIOUS
  <2>2. out[i] = out[i - 1] \o IF t[i] = "LF" THEN <<"LF", "CR">> ELSE <<t[i]>>
    BY <1>6, <2>1
  <2>3. out[i] = out[i - 1] \o Unit(t[i])
    BY <2>2 DEF Unit
  <2>4. f[i] = f[i - 1] \o Unit(t[i])
    BY <1>2
  <2> QED
    BY <1>8, <2>3, <2>4
<1>9. out[N] = f[N]
  <2> SUFFICES ASSUME out[N] # f[N] PROVE FALSE
    OBVIOUS
  <2>1. N \in 0 .. N /\ ~ Differ(out, f, 0) /\ Differ(out, f, N)
    BY <1>7 DEF Differ
  <2>2. PICK i \in 1 .. N : ~ Differ(out, f, i - 1) /\ Differ(out, f, i)
    BY <2>1, ComeApart
  <2> QED
    BY <1>8, <2>2 DEF Differ
<1>10. Expanded(t) = out[N]
  BY <1>1 DEF Expanded, out
<1> QED
  BY <1>1, <1>9, <1>10

-----------------------------------------------------------------------------
(***************************************************************************)
(* One text within another.                                                 *)
(***************************************************************************)
\* f places the characters of s in t, one behind the other.
Places(f, s, t) == f \in [1 .. Len(s) -> 1 .. Len(t)]
                   /\ (\A i \in 1 .. Len(s) : s[i] = t[f[i]])
                   /\ \A i, j \in 1 .. Len(s) : j < i => f[j] < f[i]

Within(s, t) == \E f : Places(f, s, t)

LEMMA EmptyWithin == Within(<< >>, << >>)
<1>1. PICK f : f = [i \in 1 .. 0 |-> i]
  OBVIOUS
<1>2. Places(f, << >>, << >>)
  BY <1>1 DEF Places
<1> QED
  BY <1>2 DEF Within

LEMMA BothGrow ==
  ASSUME NEW s \in Seq(Units), NEW t \in Seq(Units), NEW c \in Units, Within(s, t)
  PROVE  Within(Append(s, c), Append(t, c))
<1>1. PICK f : Places(f, s, t)
  BY DEF Within
<1>2. PICK m \in Nat, n \in Nat : m = Len(s) /\ n = Len(t)
  BY LenProperties
<1>3. f \in [1 .. m -> 1 .. n] /\ (\A i \in 1 .. m : s[i] = t[f[i]])
      /\ \A i, j \in 1 .. m : j < i => f[j] < f[i]
  BY <1>1, <1>2 DEF Places
<1>4. PICK u, v : u = Append(s, c) /\ v = Append(t, c)
  OBVIOUS
<1>5. /\ Len(u) = m + 1 /\ u[m + 1] = c /\ \A i \in 1 .. m : u[i] = s[i]
      /\ Len(v) = n + 1 /\ v[n + 1] = c /\ \A i \in 1 .. n : v[i] = t[i]
  BY <1>2, <1>4, AppendProperties
<1>6. PICK g : g = [i \in 1 .. m + 1 |-> IF i = m + 1 THEN n + 1 ELSE f[i]]
  OBVIOUS
<1>7. \A i \in 1 .. m : f[i] \in 1 .. n /\ g[i] = f[i]
  BY <1>3, <1>6
<1>8. g[m + 1] = n + 1
  BY <1>6
<1>9. \A i \in 1 .. m + 1 : i \in 1 .. m \/ i = m + 1
  OBVIOUS
<1>10. g \in [1 .. m + 1 -> 1 .. n + 1]
  <2>1. \A i \in 1 .. m + 1 : g[i] \in 1 .. n + 1
    BY <1>7, <1>8, <1>9
  <2> QED
    BY <1>6, <2>1
<1>11. \A i \in 1 .. m + 1 : u[i] = v[g[i]]
  <2> SUFFICES ASSUME NEW i \in 1 .. m + 1 PROVE u[i] = v[g[i]]
    OBVIOUS
  <2>1. CASE i \in 1 .. m
    BY <1>3, <1>5, <1>7, <2>1
  <2>2. CASE i = m + 1
    BY <1>5, <1>8, <2>2
  <2> QED
    BY <1>9, <2>1, <2>2
<1>12. ASSUME NEW i \in 1 .. m + 1, NEW j \in 1 .. m + 1, j < i PROVE g[j] < g[i]
  <2>1. j \in 1 .. m
    BY <1>12
  <2>2. CASE i \in 1 .. m
    BY <1>3, <1>7, <1>12, <2>1, <2>2
  <2>3. CASE i = m + 1
    BY <1>7, <1>8, <2>1, <2>3
  <2> QED
    BY <1>9, <2>2, <2>3
<1>13. Places(g, u, v)
  BY <1>5, <1>10, <1>11, <1>12 DEF Places
<1> QED
  BY <1>4, <1>13 DEF Within

LEMMA OneGrows ==
  ASSUME NEW s \in Seq(Units), NEW t \in Seq(Units), NEW c \in Units, Within(s, t)
  PROVE  Within(s, Append(t, c))
<1>1. PICK f : Places(f, s, t)
  BY DEF Within
<1>2. PICK m \in Nat, n \in Nat : m = Len(s) /\ n = Len(t)
  BY LenProperties
<1>3. f \in [1 .. m -> 1 .. n] /\ (\A i \in 1 .. m : s[i] = t[f[i]])
      /\ \A i, j \in 1 .. m : j < i => f[j] < f[i]
  BY <1>1, <1>2 DEF Places
<1>4. PICK v : v = Append(t, c)
  OBVIOUS
<1>5. Len(v) = n + 1 /\ \A i \in 1 .. n : v[i] = t[i]
  BY <1>2, <1>4, AppendProperties
<1>6. \A i \in 1 .. m : f[i] \in 1 .. n
  BY <1>3
<1>7. f \in [1 .. m -> 1 .. n + 1] /\ \A i \in 1 .. m : s[i] = v[f[i]]
  <2>1. \A i \in 1 .. m : f[i] \in 1 .. n + 1
    BY <1>6
  <2>2. f \in [1 .. m -> 1 .. n + 1]
    BY <1>3, <2>1
  <2> QED
    BY <1>3, <1>5, <1>6, <2>2
<1>8. Places(f, s, v)
  BY <1>2, <1>3, <1>5, <1>7 DEF Places
<1> QED
  BY <1>4, <1>8 DEF Within

\* h[i] is how many characters of s are found in the first i of t.
Finds(h, s, t, m, N) ==
  /\ h \in [0 .. N -> 0 .. m] /\ h[0] = 0
  /\ \A i \in 1 .. N : h[i] = IF h[i - 1] < m /\ s[h[i - 1] + 1] = t[i] THEN h[i - 1] + 1
                              ELSE h[i - 1]

LEMMA FindsExists ==
  ASSUME NEW s, NEW t, NEW m \in Nat, NEW N \in Nat
  PROVE  \E h : Finds(h, s, t, m, N)
<1>1. PICK S, start : S = 0 .. m /\ start = 0
  OBVIOUS
<1>2. PICK G : G = [i \in 1 .. N |-> [n \in S |->
                      IF n < m /\ s[n + 1] = t[i] THEN n + 1 ELSE n]]
  OBVIOUS
<1>3. ASSUME NEW i \in 1 .. N, NEW n \in S
      PROVE  (IF n < m /\ s[n + 1] = t[i] THEN n + 1 ELSE n) \in S
  BY <1>1
<1>4. Steps(G, S, start, N)
  BY <1>1, <1>2, <1>3 DEF Steps
<1>5. PICK h : Repeats(h, S, start, G, N)
  BY <1>4, Iterates
<1>6. /\ h \in [0 .. N -> S] /\ h[0] = start
      /\ \A i \in 1 .. N : h[i] = G[i][h[i - 1]]
  BY <1>5 DEF Repeats
<1>7. ASSUME NEW i \in 1 .. N
      PROVE  h[i] = IF h[i - 1] < m /\ s[h[i - 1] + 1] = t[i] THEN h[i - 1] + 1 ELSE h[i - 1]
  <2>1. i - 1 \in 0 .. N /\ h[i - 1] \in S
    BY <1>6
  <2> QED
    BY <1>2, <1>6, <2>1
<1>8. Finds(h, s, t, m, N)
  BY <1>1, <1>6, <1>7 DEF Finds
<1> QED
  BY <1>8

LEMMA FindsAll ==
  ASSUME NEW s, NEW t, NEW m \in Nat, NEW N \in Nat, m = Len(s), N = Len(t),
         NEW h, Finds(h, s, t, m, N), h[N] = m
  PROVE  IsSubsequence(s, t)
<1> DEFINE R(g) == g = [i \in 0 .. N |-> IF i = 0 THEN 0
                          ELSE LET n == g[i - 1]
                               IN  IF n < m /\ s[n + 1] = t[i] THEN n + 1 ELSE n]
           found == CHOOSE g : R(g)
<1>1. R(h)
  <2>1. h = [i \in 0 .. N |-> h[i]]
    BY DEF Finds
  <2>2. \A i \in 0 .. N : h[i] = IF i = 0 THEN 0
                          ELSE LET n == h[i - 1]
                               IN  IF n < m /\ s[n + 1] = t[i] THEN n + 1 ELSE n
    <3> SUFFICES ASSUME NEW i \in 0 .. N, i # 0
                 PROVE  h[i] = LET n == h[i - 1]
                               IN  IF n < m /\ s[n + 1] = t[i] THEN n + 1 ELSE n
      BY DEF Finds
    <3>1. i \in 1 .. N
      OBVIOUS
    <3> QED
      BY <3>1 DEF Finds
  <2> QED
    BY <2>1, <2>2
<1>2. R(found)
  BY <1>1
<1> HIDE DEF found
<1>3. found[0] = h[0]
  BY <1>2 DEF Finds
<1>4. ASSUME NEW i \in 1 .. N, found[i - 1] = h[i - 1] PROVE found[i] = h[i]
  <2>1. i \in 0 .. N /\ i # 0
    OBVIOUS
  <2>2. found[i] = LET n == found[i - 1]
                   IN  IF n < m /\ s[n + 1] = t[i] THEN n + 1 ELSE n
    BY <1>2, <2>1
  <2>3. PICK x : x = h[i - 1]
    OBVIOUS
  <2>4. found[i] = IF x < m /\ s[x + 1] = t[i] THEN x + 1 ELSE x
    BY <1>4, <2>2, <2>3
  <2>5. h[i] = IF x < m /\ s[x + 1] = t[i] THEN x + 1 ELSE x
    BY <2>3 DEF Finds
  <2> QED
    BY <2>4, <2>5
<1>5. found[N] = h[N]
  <2> SUFFICES ASSUME found[N] # h[N] PROVE FALSE
    OBVIOUS
  <2>1. N \in 0 .. N /\ ~ Differ(found, h, 0) /\ Differ(found, h, N)
    BY <1>3 DEF Differ
  <2>2. PICK i \in 1 .. N : ~ Differ(found, h, i - 1) /\ Differ(found, h, i)
    BY <2>1, ComeApart
  <2> QED
    BY <1>4, <2>2 DEF Differ
<1> QED
  BY <1>5 DEF IsSubsequence, found

\* Taking each character at the first place it is found misses none.
LEMMA Greedy ==
  ASSUME NEW s \in Seq(Units), NEW t \in Seq(Units), Within(s, t)
  PROVE  IsSubsequence(s, t)
<1>1. PICK m \in Nat, N \in Nat : m = Len(s) /\ N = Len(t)
  BY LenProperties
<1>2. PICK f : Places(f, s, t)
  BY DEF Within
<1>3. f \in [1 .. m -> 1 .. N] /\ (\A i \in 1 .. m : s[i] = t[f[i]])
      /\ \A i, j \in 1 .. m : j < i => f[j] < f[i]
  BY <1>1, <1>2 DEF Places
<1>4. PICK h : Finds(h, s, t, m, N)
  BY FindsExists
<1>5. h \in [0 .. N -> 0 .. m] /\ h[0] = 0
  BY <1>4 DEF Finds
<1>6. ASSUME NEW i \in 1 .. N
      PROVE  /\ h[i - 1] \in 0 .. m
             /\ h[i] = IF h[i - 1] < m /\ s[h[i - 1] + 1] = t[i] THEN h[i - 1] + 1
                       ELSE h[i - 1]
  <2>1. i - 1 \in 0 .. N /\ h[i - 1] \in 0 .. m
    BY <1>5
  <2> QED
    BY <1>4, <2>1 DEF Finds
<1>7. PICK B : B = {i \in 0 .. N : \A k \in 1 .. m : f[k] <= i => k <= h[i]}
  OBVIOUS
<1>9. 0 \in B
  <2>1. \A k \in 1 .. m : f[k] \in 1 .. N
    BY <1>3
  <2> QED
    BY <1>7, <2>1
<1>10. ASSUME NEW i \in 1 .. N, i - 1 \in B PROVE i \in B
  <2> SUFFICES ASSUME NEW k \in 1 .. m, f[k] <= i PROVE k <= h[i]
    BY <1>7
  <2>1. PICK n \in 0 .. m : /\ n = h[i - 1]
                            /\ h[i] = IF n < m /\ s[n + 1] = t[i] THEN n + 1 ELSE n
    BY <1>6
  <2>2. \A l \in 1 .. m : f[l] <= i - 1 => l <= n
    BY <1>7, <1>10, <2>1
  <2>3. f[k] \in 1 .. N
    BY <1>3
  <2>4. CASE f[k] <= i - 1
    BY <2>1, <2>2, <2>4
  <2>5. CASE f[k] = i
    <3>1. k - 1 <= n
      <4>1. CASE k = 1
        BY <4>1
      <4>2. CASE k # 1
        <5>1. k - 1 \in 1 .. m /\ k - 1 < k
          BY <4>2
        <5>2. f[k - 1] < f[k] /\ f[k - 1] \in 1 .. N
          BY <1>3, <5>1
        <5>3. f[k - 1] <= i - 1
          BY <2>5, <5>2
        <5> QED
          BY <2>2, <5>1, <5>3
      <4> QED
        BY <4>1, <4>2
    <3>2. CASE k <= n
      BY <2>1, <3>2
    <3>3. CASE k = n + 1
      <4>1. s[n + 1] = t[i] /\ n < m
        BY <1>3, <2>5, <3>3
      <4> QED
        BY <2>1, <3>3, <4>1
    <3> QED
      BY <3>1, <3>2, <3>3
  <2> QED
    BY <2>3, <2>4, <2>5
<1>11. N \in B
  <2> SUFFICES ASSUME N \notin B PROVE FALSE
    OBVIOUS
  <2>1. N \in 0 .. N
    OBVIOUS
  <2>2. PICK i \in 1 .. N : i - 1 \in B /\ i \notin B
    BY <1>9, <2>1, UpTheNumbers
  <2> QED
    BY <1>10, <2>2
<1>12. h[N] = m
  <2>1. N \in B /\ h[N] \in 0 .. m
    BY <1>5, <1>11
  <2>2. CASE m = 0
    BY <2>1, <2>2
  <2>3. CASE m # 0
    <3>1. m \in 1 .. m /\ f[m] \in 1 .. N
      BY <1>3, <2>3
    <3>2. m <= h[N]
      BY <1>7, <2>1, <3>1
    <3> QED
      BY <2>1, <3>2
  <2> QED
    BY <2>2, <2>3
<1> QED
  BY <1>1, <1>4, <1>12, FindsAll

-----------------------------------------------------------------------------
(***************************************************************************)
(* Sending.                                                                 *)
(***************************************************************************)
\* b holds a text of e characters and its terminator.
Holds(b, e) == e \in Cells /\ b[e] = "NUL" /\ \A j \in 0 .. e - 1 : b[j] \in Chars

LEMMA HeldText ==
  ASSUME NEW b, NEW e, Holds(b, e)
  PROVE  /\ e \in Nat /\ TextOf(b) \in Seq(Chars) /\ Len(TextOf(b)) = e
         /\ \A i \in 1 .. e : TextOf(b)[i] = b[i - 1]
<1>1. e \in Cells /\ e \in Nat /\ b[e] = "NUL" /\ \A j \in 0 .. e - 1 : b[j] \in Chars
  BY DEF Holds, Cells
<1>2. \A j \in 0 .. e - 1 : b[j] # "NUL"
  BY <1>1 DEF Chars
<1>3. TextOf(b) = [i \in 1 .. e |-> b[i - 1]]
  BY <1>1, <1>2, TextIs
<1>4. TextOf(b) \in [1 .. e -> Chars]
  <2>1. ASSUME NEW i \in 1 .. e PROVE b[i - 1] \in Chars
    <3>1. i - 1 \in 0 .. e - 1
      BY <1>1
    <3> QED
      BY <1>1, <3>1
  <2> QED
    BY <1>3, <2>1
<1>5. PICK t : t = TextOf(b)
  OBVIOUS
<1>6. t \in Seq(Chars) /\ Len(t) = e
  BY <1>1, <1>4, <1>5, SeqOf
<1> QED
  BY <1>1, <1>3, <1>5, <1>6

\* What the UART is to have got by now: f[n] for the first n characters, and in the
\* state LF the line feed whose carriage return is missing.
Due(f, p, n) == IF p = "LF" THEN Append(f[n], "LF") ELSE f[n]

\* n characters of the text of e characters in buf are dealt with, and the screen has what
\* they make, but for the characters given up.
Underway(e, f) ==
  /\ Holds(buf, e) /\ IsOut(TextOf(buf), f)
  /\ next \in 0 .. e
  /\ pc = "LF" => next < e /\ buf[next] = "LF"
  /\ pc = "done" => next = e
  /\ screen \in Seq(Units) /\ lost \in Nat
  /\ Within(screen, Due(f, pc, next))
  /\ Len(Due(f, pc, next)) = Len(screen) + lost

OnTheWay ==
  /\ pc \in {"format", "overrun", "send", "LF", "done"}
  /\ pc \notin {"format", "overrun"} => \E e, f : Underway(e, f)

LEMMA WayBegins ==
  ASSUME Filled, Terminate
  PROVE  \E e, f : Underway(e, f)'
<1>1. PICK e \in Cells :
        /\ buf'[e] = "NUL" /\ \A j \in 0 .. e - 1 : buf'[j] \in Chars
        /\ next' = 0 /\ screen' = << >> /\ lost' = 0 /\ pc' = "send"
  BY Cut
<1>2. PICK b : b = buf'
  OBVIOUS
<1>3. Holds(b, e)
  BY <1>1, <1>2 DEF Holds
<1>4. TextOf(b) \in Seq(Chars) /\ e \in Nat
  BY <1>3, HeldText
<1>5. PICK f : IsOut(TextOf(b), f)
  BY <1>4, OutExists
<1>6. f[0] = << >>
  BY <1>5 DEF IsOut
<1>7. PICK d : d = Due(f, "send", 0)
  OBVIOUS
<1>8. d = << >> /\ Len(d) = 0 /\ << >> \in Seq(Units) /\ Within(<< >>, d)
  BY <1>6, <1>7, EmptyWithin, EmptySeq DEF Due
<1>9. Underway(e, f)'
  BY <1>1, <1>2, <1>3, <1>4, <1>5, <1>7, <1>8 DEF Underway
<1> QED
  BY <1>9

\* The next character is dealt with: it is due now.
LEMMA CharIsDue ==
  ASSUME NEW e, NEW f, Underway(e, f), Sending, CharDone, buf' = buf
  PROVE  /\ next' \in 0 .. e /\ pc' \in {"send", "LF"}
         /\ pc' = "LF" => next' < e /\ buf[next'] = "LF"
         /\ Char \in Units /\ Due(f, pc, next) \in Seq(Units)
         /\ Due(f, pc', next') = Append(Due(f, pc, next), Char)
<1>1. /\ e \in Nat /\ TextOf(buf) \in Seq(Chars) /\ Len(TextOf(buf)) = e
      /\ \A i \in 1 .. e : TextOf(buf)[i] = buf[i - 1]
  <2>1. Holds(buf, e)
    BY DEF Underway
  <2> QED
    BY <2>1, HeldText
<1>2. PICK t, n : t = TextOf(buf) /\ n = next /\ n \in Nat
  BY <1>1 DEF Underway
<1>3. /\ f \in [0 .. e -> Seq(Units)]
      /\ \A i \in 1 .. e : f[i] = f[i - 1] \o Unit(t[i])
  <2>1. IsOut(t, f)
    BY <1>2 DEF Underway
  <2> QED
    BY <1>1, <1>2, <2>1 DEF IsOut
<1>4. n < e
  <2>1. n \in 0 .. e /\ buf[e] = "NUL" /\ (pc = "LF" => n < e)
    BY <1>2 DEF Underway, Holds
  <2>2. pc = "LF" \/ buf[n] # "NUL"
    BY <1>2 DEF Sending
  <2> QED
    BY <1>1, <2>1, <2>2
<1>5. n + 1 \in 1 .. e /\ (n + 1) - 1 = n /\ n \in 0 .. e /\ n + 1 \in 0 .. e /\ n \in 0 .. e - 1
  BY <1>1, <1>2, <1>4
<1>6. PICK c, x : c = buf[n] /\ x = f[n]
  OBVIOUS
<1>7. c \in Chars /\ x \in Seq(Units) /\ f[n + 1] = x \o Unit(c)
  <2>1. t[n + 1] = c
    BY <1>1, <1>2, <1>5, <1>6
  <2>2. c \in Chars
    BY <1>2, <1>5, <1>6 DEF Underway, Holds
  <2> QED
    BY <1>3, <1>5, <1>6, <2>1, <2>2
<1>8. "LF" \in Units /\ "CR" \in Units /\ c \in Units
  BY <1>7, MarksAreChars DEF Marks, Units
<1>9. Append(x, "LF") \in Seq(Units)
  BY <1>7, <1>8, AppendProperties
<1>10. CASE pc = "LF"
  <2>1. Char = "CR" /\ c = "LF"
    BY <1>2, <1>6, <1>10 DEF Char, Underway
  <2>2. pc' = "send" /\ next' = n + 1
    BY <1>2, <2>1 DEF CharDone
  <2>3. Due(f, pc, next) = Append(x, "LF") /\ Due(f, pc', next') = f[n + 1]
    BY <1>2, <1>6, <1>10, <2>2 DEF Due
  <2>4. x \o <<"LF", "CR">> = Append(Append(x, "LF"), "CR")
    BY <1>7, <1>8
  <2>5. f[n + 1] = x \o <<"LF", "CR">>
    BY <1>7, <2>1 DEF Unit
  <2> QED
    BY <1>5, <1>8, <1>9, <2>1, <2>2, <2>3, <2>4, <2>5
<1>11. CASE pc # "LF" /\ c = "LF"
  <2>1. Char = "LF"
    BY <1>2, <1>6, <1>11 DEF Char
  <2>2. pc' = "LF" /\ next' = n
    BY <1>2, <2>1 DEF CharDone
  <2>3. Due(f, pc, next) = x /\ Due(f, pc', next') = Append(x, "LF")
    BY <1>2, <1>6, <1>11, <2>2 DEF Due
  <2> QED
    BY <1>4, <1>5, <1>6, <1>7, <1>8, <1>11, <2>1, <2>2, <2>3
<1>12. CASE pc # "LF" /\ c # "LF"
  <2>1. Char = c
    BY <1>2, <1>6, <1>12 DEF Char
  <2>2. pc' = "send" /\ next' = n + 1
    BY <1>2, <1>12, <2>1 DEF CharDone
  <2>3. Due(f, pc, next) = x /\ Due(f, pc', next') = f[n + 1]
    BY <1>2, <1>6, <1>12, <2>2 DEF Due
  <2>4. f[n + 1] = Append(x, c)
    <3>1. f[n + 1] = x \o <<c>>
      BY <1>7, <1>12 DEF Unit
    <3>2. x \o <<c>> = Append(x, c)
      BY <1>7, <1>8
    <3> QED
      BY <3>1, <3>2
  <2> QED
    BY <1>5, <1>7, <1>8, <2>1, <2>2, <2>3, <2>4
<1> QED
  BY <1>10, <1>11, <1>12

LEMMA WayKept == Filled /\ OnTheWay /\ [Next]_vars => OnTheWay'
<1> SUFFICES ASSUME Filled, OnTheWay, [Next]_vars PROVE OnTheWay'
  OBVIOUS
<1>1. CASE Format
  <2>1. pc = "format" /\ pc' \in {"format", "overrun"}
    BY <1>1, Produced DEF ProduceAs, Overrun
  <2> QED
    BY <2>1 DEF OnTheWay
<1>2. CASE Terminate
  <2>1. pc' = "send"
    BY <1>2 DEF Terminate
  <2> QED
    BY <1>2, <2>1, WayBegins DEF OnTheWay
<1>3. CASE SendChar
  <2>1. Sending /\ CharDone /\ buf' = buf /\ screen' = Append(screen, Char) /\ lost' = lost
    BY <1>3 DEF SendChar
  <2>2. PICK e, f : Underway(e, f)
    BY <2>1 DEF OnTheWay, Sending
  <2>3. /\ next' \in 0 .. e /\ pc' \in {"send", "LF"}
        /\ pc' = "LF" => next' < e /\ buf[next'] = "LF"
        /\ Char \in Units /\ Due(f, pc, next) \in Seq(Units)
        /\ Due(f, pc', next') = Append(Due(f, pc, next), Char)
    BY <2>1, <2>2, CharIsDue
  <2>4. /\ screen \in Seq(Units) /\ lost \in Nat /\ Holds(buf, e) /\ IsOut(TextOf(buf), f)
        /\ Within(screen, Due(f, pc, next)) /\ Len(Due(f, pc, next)) = Len(screen) + lost
    BY <2>2 DEF Underway
  <2>5. PICK c, d, s, t : /\ c = Char /\ d = Due(f, pc, next) /\ s = screen /\ t = screen'
    OBVIOUS
  <2>6. /\ t = Append(s, c) /\ t \in Seq(Units) /\ Len(t) = Len(s) + 1
        /\ Len(Append(d, c)) = Len(d) + 1
    BY <2>1, <2>3, <2>4, <2>5, AppendProperties
  <2>7. Within(t, Append(d, c))
    BY <2>3, <2>4, <2>5, <2>6, BothGrow
  <2>8. Len(Append(d, c)) = Len(t) + lost
    <3>1. Len(s) \in Nat /\ Len(d) = Len(s) + lost /\ lost \in Nat
      BY <2>4, <2>5, LenProperties
    <3> QED
      BY <2>6, <3>1
  <2>9. Underway(e, f)'
    BY <2>1, <2>3, <2>4, <2>5, <2>6, <2>7, <2>8 DEF Underway
  <2> QED
    BY <2>3, <2>9 DEF OnTheWay
<1>4. CASE PollBusy
  <2>1. Sending /\ buf' = buf /\ screen' = screen
    BY <1>4 DEF PollBusy
  <2>2. PICK e, f : Underway(e, f)
    BY <2>1 DEF OnTheWay, Sending
  <2>3. CASE GiveUp
    <3>1. CharDone /\ lost' = lost + 1
      BY <1>4, <2>3 DEF PollBusy
    <3>2. /\ next' \in 0 .. e /\ pc' \in {"send", "LF"}
          /\ pc' = "LF" => next' < e /\ buf[next'] = "LF"
          /\ Char \in Units /\ Due(f, pc, next) \in Seq(Units)
          /\ Due(f, pc', next') = Append(Due(f, pc, next), Char)
      BY <2>1, <2>2, <3>1, CharIsDue
    <3>3. /\ screen \in Seq(Units) /\ lost \in Nat /\ Holds(buf, e) /\ IsOut(TextOf(buf), f)
          /\ Within(screen, Due(f, pc, next)) /\ Len(Due(f, pc, next)) = Len(screen) + lost
      BY <2>2 DEF Underway
    <3>4. PICK c, d : c = Char /\ d = Due(f, pc, next)
      OBVIOUS
    <3>5. Len(Append(d, c)) = Len(d) + 1 /\ Within(screen, Append(d, c))
      BY <3>2, <3>3, <3>4, AppendProperties, OneGrows
    <3>6. Len(Append(d, c)) = Len(screen) + lost' /\ lost' \in Nat
      <4>1. Len(screen) \in Nat /\ Len(d) = Len(screen) + lost
        BY <3>3, <3>4, LenProperties
      <4> QED
        BY <3>1, <3>3, <3>5, <4>1
    <3>7. Underway(e, f)'
      BY <2>1, <3>2, <3>3, <3>4, <3>5, <3>6 DEF Underway
    <3> QED
      BY <3>2, <3>7 DEF OnTheWay
  <2>4. CASE ~ GiveUp
    <3>1. UNCHANGED <<pc, next, lost, buf, screen>>
      BY <1>4, <2>4 DEF PollBusy
    <3>2. Underway(e, f)'
      BY <2>2, <3>1 DEF Underway
    <3> QED
      BY <3>1, <3>2 DEF OnTheWay
  <2> QED
    BY <2>3, <2>4
<1>5. CASE Sent
  <2>1. pc = "send" /\ buf[next] = "NUL" /\ pc' = "done" /\ UNCHANGED <<buf, next, screen, lost>>
    BY <1>5 DEF Sent
  <2>2. PICK e, f : Underway(e, f)
    BY <2>1 DEF OnTheWay
  <2>3. next = e
    <3>1. next \in 0 .. e /\ e \in Nat /\ \A j \in 0 .. e - 1 : buf[j] # "NUL"
      BY <2>2 DEF Underway, Holds, Chars, Cells
    <3> QED
      BY <2>1, <3>1
  <2>4. Due(f, pc', next') = Due(f, pc, next)
    BY <2>1 DEF Due
  <2>5. Underway(e, f)'
    BY <2>1, <2>2, <2>3, <2>4 DEF Underway
  <2> QED
    BY <2>1, <2>5 DEF OnTheWay
<1>6. CASE UNCHANGED <<pc, next, lost, buf, screen>>
  <2>1. CASE pc \in {"format", "overrun"}
    BY <1>6, <2>1 DEF OnTheWay
  <2>2. CASE pc \notin {"format", "overrun"}
    <3>1. PICK e, f : Underway(e, f)
      BY <2>2 DEF OnTheWay
    <3>2. Underway(e, f)'
      BY <1>6, <3>1 DEF Underway
    <3> QED
      BY <1>6, <3>2 DEF OnTheWay
  <2> QED
    BY <2>1, <2>2
<1> QED
  BY <1>1, <1>2, <1>3, <1>4, <1>5, <1>6 DEF Next, TryPrintf, Transmitter, vars

\* TryPrintf, TryPutc: for every text the UART gets it in order, each line feed with
\* its carriage return; what is missing is what was given up, character for character.
THEOREM ScreenGetsText == Spec => []ScreenIsText
<1>1. Init => OnTheWay
  BY DEF Init, OnTheWay
<1>2. ASSUME OnTheWay, pc = "done"
      PROVE  IsSubsequence(screen, Expanded(Text)) /\ Len(Expanded(Text)) - Len(screen) = lost
  <2>1. PICK e, f : Underway(e, f)
    BY <1>2 DEF OnTheWay
  <2>2. /\ Holds(buf, e) /\ IsOut(TextOf(buf), f) /\ next = e
        /\ screen \in Seq(Units) /\ lost \in Nat
        /\ Within(screen, Due(f, pc, next)) /\ Len(Due(f, pc, next)) = Len(screen) + lost
    BY <1>2, <2>1 DEF Underway
  <2>3. TextOf(buf) \in Seq(Chars) /\ Len(TextOf(buf)) = e /\ e \in Nat /\ Text = TextOf(buf)
    BY <2>2, HeldText DEF Text, TextOf
  <2>4. PICK d : d = Expanded(Text)
    OBVIOUS
  <2>5. d = f[e]
    BY <2>2, <2>3, <2>4, ExpandedIs
  <2>6. d \in Seq(Units)
    BY <2>2, <2>3, <2>5 DEF IsOut
  <2>7. Due(f, pc, next) = d
    BY <1>2, <2>2, <2>5 DEF Due
  <2>8. IsSubsequence(screen, d)
    BY <2>2, <2>6, <2>7, Greedy
  <2>9. Len(d) - Len(screen) = lost
    <3>1. Len(screen) \in Nat /\ Len(d) = Len(screen) + lost
      BY <2>2, <2>7, LenProperties
    <3> QED
      BY <2>2, <3>1
  <2> QED
    BY <2>4, <2>8, <2>9
<1>3. OnTheWay => ScreenIsText
  BY <1>2 DEF ScreenIsText
<1> QED
  BY <1>1, <1>3, WayKept, FilledInit, FilledKept, PTL DEF Spec
=============================================================================
