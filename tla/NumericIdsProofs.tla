-------------------------- MODULE NumericIdsProofs --------------------------
(* NumericIds for every base, width and padding.  Numbers are read digit by  *)
(* digit and written by division, so most of this is induction over numbers; *)
(* it is done with Smaller, which is about sets, not formulas: to prove that *)
(* all numbers have a property, collect those that do in a set and show that *)
(* n is in it when every smaller number is.                                  *)
EXTENDS NumericIds, SequenceTheorems, FiniteSetTheorems, TLAPS

\* The numbers are ordered the way well-founded induction asks for.
LEMMA LessOnNat == \A x, y \in Nat : <<x, y>> \in OpToRel(<, Nat) <=> x < y
<1> TAKE x, y \in Nat
<1>1. <<x, y>> \in Nat \X Nat /\ <<x, y>>[1] = x /\ <<x, y>>[2] = y
  OBVIOUS
<1> QED BY <1>1 DEF OpToRel

\* A set of numbers that is not empty has a least one.
LEMMA Least ==
  ASSUME NEW S, S \subseteq Nat, S # {}
  PROVE  \E m \in S : \A k \in S : m <= k
<1>1. PICK m \in S : \A k \in S : ~(<<k, m>> \in OpToRel(<, Nat))
  BY NatLessThanWellFounded, WFMin
<1>2. \A k \in S : ~(k < m)
  BY <1>1, LessOnNat
<1> QED BY <1>2

\* Every number has it, when each has it that no smaller one lacks.
LEMMA Smaller ==
  ASSUME NEW S, \A n \in Nat : (\A k \in 0..(n - 1) : k \in S) => n \in S
  PROVE  Nat \subseteq S
<1>1. SUFFICES ASSUME Nat \ S # {} PROVE FALSE
  OBVIOUS
<1>2. PICK m \in Nat \ S : \A k \in Nat \ S : m <= k
  BY <1>1, Least
<1>3. \A k \in 0..(m - 1) : k \in S
  BY <1>2
<1> QED BY <1>2, <1>3

\* The bounds of a quotient and of a remainder.
LEMMA Division ==
  ASSUME NEW n \in Nat, NEW b \in Nat, b >= 2
  PROVE  /\ n \div b \in Nat /\ n % b \in 0..(b - 1)
         /\ n = (n \div b) * b + (n % b)
         /\ n >= b => n \div b < n
OBVIOUS

\* One more digit behind a number, and off again.
LEMMA DigitOff ==
  ASSUME NEW q \in Nat, NEW b \in Nat, b >= 2, NEW r \in 0..(b - 1)
  PROVE  /\ q * b + r \in Nat
         /\ (q * b + r) \div b = q /\ (q * b + r) % b = r
         /\ q # 0 => q * b + r >= b
OBVIOUS

-----------------------------------------------------------------------------
(* Reading.                                                                  *)

\* What a digit is worth.
Value(char) == (CHOOSE i \in DOMAIN Digits : Digits[i] = char) - 1

\* A number with one more digit behind it.
Behind(q, char) == q * Base + Value(char)

\* What each prefix of t is worth, from what a shorter one is.
Step(t, read) ==
    [n \in 0..Len(t) |-> IF n = 0 THEN 0 ELSE Behind(read[n - 1], t[n])]

Reading(t) == CHOOSE read : read = Step(t, read)

\* Number is the reading of the whole text.
LEMMA NumberIsRead == \A t : Number(t) = Reading(t)[Len(t)]
BY DEF Number, Reading, Step, Behind, Value

\* Digits and their values tell each other.
LEMMA Digit ==
  /\ Base \in Nat /\ Base >= 2
  /\ \A i \in 1..Base : Digits[i] \in DigitChars /\ Value(Digits[i]) = i - 1
  /\ \A c \in DigitChars : Value(c) \in 0..(Base - 1) /\ Digits[Value(c) + 1] = c
<1>1. Base \in Nat /\ Base >= 2 /\ DOMAIN Digits = 1..Base
  BY NumericAssumption DEF Base
<1>2. \A i \in 1..Base : Digits[i] \in DigitChars /\ Value(Digits[i]) = i - 1
  BY <1>1, NumericAssumption DEF DigitChars, Value
<1>3. \A c \in DigitChars : Value(c) \in 0..(Base - 1) /\ Digits[Value(c) + 1] = c
  <2> TAKE c \in DigitChars
  <2>1. PICK i \in 1..Base : c = Digits[i]
    BY <1>1 DEF DigitChars
  <2> QED BY <1>1, <1>2, <2>1
<1> QED BY <1>1, <1>2, <1>3

\* The digit behind a number can be taken off again.
LEMMA DigitBehind ==
  \A q \in Nat, c \in DigitChars :
      /\ Behind(q, c) \in Nat
      /\ Behind(q, c) \div Base = q /\ Behind(q, c) % Base = Value(c)
      /\ q # 0 => Behind(q, c) >= Base
<1> TAKE q \in Nat, c \in DigitChars
<1>1. Base \in Nat /\ Base >= 2 /\ Value(c) \in 0..(Base - 1)
  BY Digit
<1> QED BY <1>1, DigitOff DEF Behind

\* There is a reading of every text of digits, and it goes digit by digit.
LEMMA ReadingOf ==
  ASSUME NEW t \in Seq(DigitChars)
  PROVE  /\ Reading(t) = Step(t, Reading(t))
         /\ \A n \in 0..Len(t) : Reading(t)[n] \in Nat
         /\ Reading(t)[0] = 0
         /\ \A n \in 1..Len(t) : Reading(t)[n] = Behind(Reading(t)[n - 1], t[n])
<1> DEFINE Reads(read, n) ==
             /\ read[0] = 0
             /\ \A i \in 1..n : read[i] = Behind(read[i - 1], t[i])
           Read == {n \in Nat : n <= Len(t) => \E read \in [0..n -> Nat] : Reads(read, n)}
<1>0. Len(t) \in Nat
  OBVIOUS
<1>1. ASSUME NEW n \in Nat, \A k \in 0..(n - 1) : k \in Read
      PROVE  n \in Read
  <2>1. CASE n = 0
    <3>1. Reads([i \in 0..0 |-> 0], 0)
      OBVIOUS
    <3> QED BY <2>1, <3>1
  <2>2. CASE n \in 1..Len(t)
    <3>1. PICK read \in [0..(n - 1) -> Nat] : Reads(read, n - 1)
      <4>1. n - 1 \in 0..(n - 1) /\ n - 1 <= Len(t)
        BY <1>0, <2>2
      <4> QED BY <1>1, <4>1
    <3>2. t[n] \in DigitChars /\ read[n - 1] \in Nat
      BY <1>0, <2>2, <3>1
    <3> DEFINE longer == [i \in 0..n |-> IF i < n THEN read[i] ELSE Behind(read[n - 1], t[n])]
    <3>3. Behind(read[n - 1], t[n]) \in Nat
      BY <3>2, DigitBehind
    <3>4. longer \in [0..n -> Nat]
      BY <2>2, <3>1, <3>3
    <3>5. Reads(longer, n)
      BY <2>2, <3>1
    <3> QED BY <3>4, <3>5
  <2>3. CASE n > Len(t)
    BY <2>3
  <2> QED BY <2>1, <2>2, <2>3
<1>2. Nat \subseteq Read
  BY <1>1, Smaller
<1>3. PICK read \in [0..Len(t) -> Nat] : Reads(read, Len(t))
  BY <1>2
<1>4. read = Step(t, read)
  BY <1>3 DEF Step
<1>5. Reading(t) = Step(t, Reading(t))
  BY <1>4 DEF Reading
<1>8. /\ Reading(t)[0] = 0
      /\ \A n \in 1..Len(t) : Reading(t)[n] = Behind(Reading(t)[n - 1], t[n])
  BY <1>0, <1>5 DEF Step
<1> DEFINE Same == {n \in Nat : n <= Len(t) => Reading(t)[n] \in Nat}
<1>6. ASSUME NEW n \in Nat, \A k \in 0..(n - 1) : k \in Same
      PROVE  n \in Same
  <2>1. CASE n = 0
    BY <1>5, <2>1 DEF Step
  <2>2. CASE n \in 1..Len(t)
    <3>1. Reading(t)[n] = Behind(Reading(t)[n - 1], t[n])
      BY <1>5, <2>2 DEF Step
    <3>2. Reading(t)[n - 1] \in Nat /\ t[n] \in DigitChars
      BY <1>6, <2>2
    <3> QED BY <3>1, <3>2, DigitBehind
  <2> QED BY <2>1, <2>2
<1>7. Nat \subseteq Same
  BY <1>6, Smaller
<1> QED BY <1>0, <1>5, <1>7, <1>8

\* What a text of digits names is a number.
LEMMA NumberIsNat == \A t \in Seq(DigitChars) : Number(t) \in Nat
<1> TAKE t \in Seq(DigitChars)
<1>1. Len(t) \in 0..Len(t)
  OBVIOUS
<1> QED BY <1>1, ReadingOf, NumberIsRead

\* The reading of a text goes by its characters alone.
LEMMA ReadAlike ==
  ASSUME NEW s \in Seq(DigitChars), NEW t \in Seq(DigitChars),
         Len(s) <= Len(t), \A i \in 1..Len(s) : s[i] = t[i]
  PROVE  \A n \in 0..Len(s) : Reading(s)[n] = Reading(t)[n]
<1> DEFINE Same == {n \in Nat : n <= Len(s) => Reading(s)[n] = Reading(t)[n]}
<1>0. Len(s) \in Nat /\ Len(t) \in Nat
  OBVIOUS
<1>1. /\ Reading(s)[0] = 0 /\ Reading(t)[0] = 0
      /\ \A n \in 1..Len(s) : Reading(s)[n] = Behind(Reading(s)[n - 1], s[n])
      /\ \A n \in 1..Len(t) : Reading(t)[n] = Behind(Reading(t)[n - 1], t[n])
  BY ReadingOf
<1>2. ASSUME NEW n \in Nat, \A k \in 0..(n - 1) : k \in Same
      PROVE  n \in Same
  <2>1. CASE n = 0
    BY <1>0, <1>1, <2>1
  <2>2. CASE n \in 1..Len(s)
    <3>1. n - 1 \in Same
      BY <1>2, <2>2
    <3>2. Reading(s)[n - 1] = Reading(t)[n - 1] /\ s[n] = t[n]
      BY <1>0, <2>2, <3>1
    <3> QED BY <1>0, <1>1, <2>2, <3>2
  <2>3. CASE n > Len(s)
    BY <1>0, <2>3
  <2> QED BY <1>0, <2>1, <2>2, <2>3
<1>3. Nat \subseteq Same
  BY <1>2, Smaller
<1> QED BY <1>0, <1>3

\* One more digit.
LEMMA NumberOfAppend ==
  ASSUME NEW t \in Seq(DigitChars), NEW c \in DigitChars
  PROVE  Number(Append(t, c)) = Behind(Number(t), c)
<1> DEFINE longer == Append(t, c)
<1>1. /\ longer \in Seq(DigitChars) /\ Len(t) \in Nat /\ Len(longer) = Len(t) + 1
      /\ longer[Len(t) + 1] = c /\ \A i \in 1..Len(t) : longer[i] = t[i]
  BY AppendProperties
<1> HIDE DEF longer
<1>2. Reading(longer)[Len(t)] = Reading(t)[Len(t)]
  BY <1>1, ReadAlike
<1>3. Len(longer) \in 1..Len(longer) /\ Len(longer) - 1 = Len(t)
  BY <1>1
<1>4. Reading(longer)[Len(t) + 1] = Behind(Reading(longer)[Len(t)], c)
  BY <1>1, <1>3, ReadingOf
<1>5. Number(longer) = Behind(Number(t), c)
  BY <1>1, <1>2, <1>4, NumberIsRead
<1> QED BY <1>5 DEF longer

\* Zeros are a text of zeros.
LEMMA ZerosAre ==
  ASSUME NEW k \in Nat
  PROVE  Zeros(k) \in Seq(DigitChars) /\ Len(Zeros(k)) = k
         /\ \A i \in 1..k : Zeros(k)[i] = Digits[1]
<1>1. Digits[1] \in DigitChars
  BY Digit
<1> QED BY <1>1 DEF Zeros

\* Zeros in front of a number are not read.
LEMMA NumberPadded ==
  ASSUME NEW t \in Seq(DigitChars), NEW k \in Nat
  PROVE  Number(Zeros(k) \o t) = Number(t)
<1> DEFINE padded == Zeros(k) \o t
<1>1. /\ padded \in Seq(DigitChars) /\ Len(t) \in Nat /\ Len(padded) = k + Len(t)
      /\ \A i \in 1..k : padded[i] = Digits[1]
      /\ \A i \in (k + 1)..(k + Len(t)) : padded[i] = t[i - k]
  <2>1. /\ Zeros(k) \in Seq(DigitChars) /\ Len(Zeros(k)) = k
        /\ \A i \in 1..k : Zeros(k)[i] = Digits[1]
    BY ZerosAre
  <2> HIDE DEF padded
  <2>2. /\ padded \in Seq(DigitChars) /\ Len(padded) = Len(Zeros(k)) + Len(t)
        /\ \A i \in 1..(Len(Zeros(k)) + Len(t)) :
             padded[i] = IF i <= Len(Zeros(k)) THEN Zeros(k)[i] ELSE t[i - Len(Zeros(k))]
    BY <2>1, ConcatProperties DEF padded
  <2>3. Len(t) \in Nat
    OBVIOUS
  <2> QED BY <2>1, <2>2, <2>3
<1> HIDE DEF padded
<1>2. /\ Reading(padded)[0] = 0 /\ Reading(t)[0] = 0
      /\ \A n \in 1..Len(padded) :
           Reading(padded)[n] = Behind(Reading(padded)[n - 1], padded[n])
      /\ \A n \in 1..Len(t) : Reading(t)[n] = Behind(Reading(t)[n - 1], t[n])
  BY <1>1, ReadingOf
<1>3. Value(Digits[1]) = 0 /\ Base \in Nat
  BY Digit
<1> DEFINE Same == {n \in Nat : n <= k + Len(t) =>
                      Reading(padded)[n] = IF n <= k THEN 0 ELSE Reading(t)[n - k]}
<1>4. ASSUME NEW n \in Nat, \A i \in 0..(n - 1) : i \in Same
      PROVE  n \in Same
  <2>1. CASE n = 0
    BY <1>1, <1>2, <2>1
  <2>2. CASE n \in 1..(k + Len(t))
    <3>1. n - 1 \in Same
      BY <1>4, <2>2
    <3>2. Reading(padded)[n] = Behind(Reading(padded)[n - 1], padded[n])
      BY <1>1, <1>2, <2>2
    <3>3. CASE n <= k
      <4>1. Reading(padded)[n - 1] = 0 /\ Value(padded[n]) = 0
        BY <1>1, <1>3, <2>2, <3>1, <3>3
      <4>2. Behind(0, padded[n]) = 0
        BY <1>3, <4>1 DEF Behind
      <4> QED BY <2>2, <3>2, <3>3, <4>1, <4>2
    <3>4. CASE n > k
      <4>1. Reading(t)[n - k] = Behind(Reading(t)[n - k - 1], t[n - k])
        <5>1. n - k \in 1..Len(t)
          BY <1>1, <2>2, <3>4
        <5> QED BY <1>2, <5>1
      <4>2. padded[n] = t[n - k]
        BY <1>1, <2>2, <3>4
      <4>3. Reading(padded)[n - 1] = Reading(t)[n - k - 1]
        <5>1. CASE n - 1 > k
          BY <1>1, <2>2, <3>1, <5>1
        <5>2. CASE n - 1 = k
          <6>1. Reading(t)[0] = 0
            BY <1>1, <1>2
          <6>2. n - k - 1 = 0
            BY <1>1, <2>2, <5>2
          <6> QED BY <1>1, <2>2, <3>1, <5>2, <6>1, <6>2
        <5> QED BY <1>1, <2>2, <3>4, <5>1, <5>2
      <4> QED BY <2>2, <3>2, <3>4, <4>1, <4>2, <4>3
    <3> QED BY <2>2, <3>3, <3>4
  <2>3. CASE n > k + Len(t)
    BY <1>1, <2>3
  <2> QED BY <1>1, <2>1, <2>2, <2>3
<1>5. Nat \subseteq Same
  BY <1>4, Smaller
<1>6. Reading(t)[0] = 0
  BY <1>1, <1>2
<1>7. k + Len(t) \in Same
  BY <1>1, <1>5
<1>8. Reading(padded)[k + Len(t)] = Reading(t)[Len(t)]
  BY <1>1, <1>6, <1>7
<1>9. Number(padded) = Number(t)
  BY <1>1, <1>8, NumberIsRead
<1> QED BY <1>9 DEF padded

-----------------------------------------------------------------------------
(* Writing.  NumeralOf asks for smaller numerals of its own, so that it is a *)
(* function at all is proved from tables up to a number, which agree.        *)

\* The numeral of n, from a table of numerals of smaller numbers.
Entry(table, n) ==
    IF n < Base THEN <<Digits[n + 1]>>
                ELSE Append(table[n \div Base], Digits[(n % Base) + 1])

\* The numerals up to n.
Table(n) == CHOOSE table : \A m \in 0..n : table[m] = Entry(table, m)

\* A quotient is a smaller number.
LEMMA Quotient ==
  \A n \in Nat : n >= Base => n \div Base \in 0..(n - 1) /\ n % Base \in 0..(Base - 1)
<1> TAKE n \in Nat
<1>1. Base \in Nat /\ Base >= 2
  BY Digit
<1>2. n \div Base \in Nat /\ n % Base \in 0..(Base - 1) /\ (n >= Base => n \div Base < n)
  BY <1>1, Division
<1> QED BY <1>2

\* There is a table up to any number.
LEMMA TableExists ==
  \A n \in Nat : \A m \in 0..n : Table(n)[m] = Entry(Table(n), m)
<1> DEFINE Has == {n \in Nat : \E table : \A m \in 0..n : table[m] = Entry(table, m)}
<1>0. Base \in Nat /\ Base >= 2
  BY Digit
<1>1. ASSUME NEW n \in Nat, \A k \in 0..(n - 1) : k \in Has
      PROVE  n \in Has
  <2>1. PICK table : \A m \in 0..(n - 1) : table[m] = Entry(table, m)
    <3>1. CASE n = 0
      BY <3>1
    <3>2. CASE n # 0
      <4>1. n - 1 \in Has
        BY <1>1, <3>2
      <4> QED BY <4>1
    <3> QED BY <3>1, <3>2
  <2> DEFINE longer == [m \in 0..n |-> IF m < n THEN table[m] ELSE Entry(table, n)]
  <2>2. ASSUME NEW m \in 0..n PROVE longer[m] = Entry(longer, m)
    <3>1. longer[m] = Entry(table, m)
      BY <2>1
    <3>2. m >= Base => longer[m \div Base] = table[m \div Base]
      <4>1. m >= Base => m \div Base \in 0..(m - 1)
        BY Quotient
      <4>2. \A i \in 0..(m - 1) : longer[i] = table[i]
        OBVIOUS
      <4> QED BY <4>1, <4>2
    <3> QED BY <1>0, <3>1, <3>2 DEF Entry
  <2> QED BY <2>2
<1>2. Nat \subseteq Has
  BY <1>1, Smaller
<1> QED BY <1>2 DEF Table

\* Two tables agree wherever both reach.
LEMMA TablesAgree ==
  ASSUME NEW n \in Nat, NEW k \in 0..n
  PROVE  Table(n)[k] = Table(k)[k]
<1> DEFINE Same == {m \in Nat : m <= k => Table(n)[m] = Table(k)[m]}
<1>0. Base \in Nat /\ Base >= 2
  BY Digit
<1>1. ASSUME NEW m \in Nat, \A i \in 0..(m - 1) : i \in Same
      PROVE  m \in Same
  <2>1. SUFFICES ASSUME m <= k PROVE Table(n)[m] = Table(k)[m]
    OBVIOUS
  <2>2. Table(n)[m] = Entry(Table(n), m) /\ Table(k)[m] = Entry(Table(k), m)
    BY <2>1, TableExists
  <2>3. m >= Base => Table(n)[m \div Base] = Table(k)[m \div Base]
    <3>1. m >= Base => m \div Base \in 0..(m - 1)
      BY Quotient
    <3> QED BY <1>1, <2>1, <3>1
  <2> QED BY <1>0, <2>2, <2>3 DEF Entry
<1>2. Nat \subseteq Same
  BY <1>1, Smaller
<1> QED BY <1>2

\* NumeralOf is the function its equation describes.
LEMMA NumeralOfEntry == \A n \in Nat : NumeralOf[n] = Entry(NumeralOf, n)
<1> DEFINE Whole(f) == [n \in Nat |-> IF n < Base THEN <<Digits[n + 1]>>
                          ELSE Append(f[n \div Base], Digits[(n % Base) + 1])]
           all == [n \in Nat |-> Table(n)[n]]
<1>0. Base \in Nat /\ Base >= 2
  BY Digit
<1>1. ASSUME NEW n \in Nat PROVE all[n] = Entry(all, n)
  <2>1. all[n] = Entry(Table(n), n)
    BY TableExists
  <2>2. n >= Base => Table(n)[n \div Base] = all[n \div Base]
    BY Quotient, TablesAgree
  <2> HIDE DEF all
  <2> QED BY <1>0, <2>1, <2>2 DEF Entry
<1>2. all = Whole(all)
  BY <1>1 DEF Entry
<1>3. NumeralOf = Whole(NumeralOf)
  BY <1>2 DEF NumeralOf
<1> QED BY <1>3 DEF Entry

\* Its two cases: one digit, or a shorter numeral and one digit more.
LEMMA NumeralOfIs ==
  \A n \in Nat :
      /\ n < Base => NumeralOf[n] = Append(<<>>, Digits[n + 1])
      /\ ~(n < Base) => NumeralOf[n] = Append(NumeralOf[n \div Base], Digits[(n % Base) + 1])
<1> TAKE n \in Nat
<1>1. NumeralOf[n] = Entry(NumeralOf, n)
  BY NumeralOfEntry
<1>2. n < Base => Entry(NumeralOf, n) = <<Digits[n + 1]>>
  BY Zenon DEF Entry
<1>3. ~(n < Base) => Entry(NumeralOf, n) = Append(NumeralOf[n \div Base], Digits[(n % Base) + 1])
  BY Zenon DEF Entry
<1>4. <<Digits[n + 1]>> = Append(<<>>, Digits[n + 1])
  OBVIOUS
<1> QED BY <1>1, <1>2, <1>3, <1>4, Zenon

\* What it writes is digits, at least one, and reads as the number.
LEMMA NumeralReads ==
  \A n \in Nat : NumeralOf[n] \in Seq(DigitChars) \ {<<>>} /\ Number(NumeralOf[n]) = n
<1> DEFINE Reads == {n \in Nat : /\ NumeralOf[n] \in Seq(DigitChars) \ {<<>>}
                                 /\ Number(NumeralOf[n]) = n}
<1>0. Base \in Nat /\ Base >= 2
  BY Digit
<1>1. ASSUME NEW n \in Nat, \A k \in 0..(n - 1) : k \in Reads
      PROVE  n \in Reads
  <2>1. CASE n < Base
    <3>1. Digits[n + 1] \in DigitChars /\ Value(Digits[n + 1]) = n
      BY <1>0, <2>1, Digit
    <3>2. NumeralOf[n] = Append(<<>>, Digits[n + 1])
      BY <2>1, NumeralOfIs
    <3>3. <<>> \in Seq(DigitChars) /\ Number(<<>>) = 0
      <4>1. <<>> \in Seq(DigitChars) /\ Len(<<>>) = 0
        OBVIOUS
      <4> QED BY <4>1, ReadingOf, NumberIsRead
    <3>4. Behind(0, Digits[n + 1]) = n
      BY <1>0, <3>1 DEF Behind
    <3>5. Number(NumeralOf[n]) = n
      BY <3>1, <3>2, <3>3, <3>4, NumberOfAppend
    <3>6. NumeralOf[n] \in Seq(DigitChars) \ {<<>>}
      BY <3>1, <3>2, <3>3, <3>4, AppendProperties
    <3> QED BY <3>5, <3>6
  <2>2. CASE n >= Base
    <3> DEFINE q == n \div Base
               c == Digits[(n % Base) + 1]
    <3>1. q \in 0..(n - 1) /\ c \in DigitChars /\ Value(c) = n % Base
      <4>1. q \in 0..(n - 1) /\ n % Base \in 0..(Base - 1)
        BY <2>2, Quotient
      <4> QED BY <1>0, <4>1, Digit
    <3>2. Behind(q, c) = n
      BY <1>0, <3>1, Division DEF Behind
    <3>3. NumeralOf[n] = Append(NumeralOf[q], c)
      <4>1. ~(n < Base)
        BY <1>0, <2>2
      <4> QED BY <4>1, NumeralOfIs, Zenon
    <3> HIDE DEF q, c
    <3>4. NumeralOf[q] \in Seq(DigitChars) /\ Number(NumeralOf[q]) = q
      BY <1>1, <3>1
    <3>5. Number(NumeralOf[n]) = n
      BY <3>1, <3>2, <3>3, <3>4, NumberOfAppend
    <3>6. NumeralOf[n] \in Seq(DigitChars) \ {<<>>}
      BY <3>1, <3>2, <3>3, <3>4, AppendProperties
    <3> QED BY <3>5, <3>6
  <2> QED BY <1>0, <2>1, <2>2
<1>2. Nat \subseteq Reads
  BY <1>1, Smaller
<1> QED BY <1>2

\* No text of the same number is shorter.
LEMMA NumeralIsShortest ==
  \A t \in Seq(DigitChars) \ {<<>>} : Len(NumeralOf[Number(t)]) <= Len(t)
<1> DEFINE Short == {k \in Nat : \A t \in Seq(DigitChars) \ {<<>>} :
                       Len(t) = k => Len(NumeralOf[Number(t)]) <= k}
<1>0. Base \in Nat /\ Base >= 2
  BY Digit
<1>1. ASSUME NEW k \in Nat, \A i \in 0..(k - 1) : i \in Short
      PROVE  k \in Short
  <2>1. SUFFICES ASSUME NEW t \in Seq(DigitChars) \ {<<>>}, Len(t) = k
                 PROVE  Len(NumeralOf[Number(t)]) <= k
    OBVIOUS
  <2>2. PICK s \in Seq(DigitChars), c \in DigitChars : t = Append(s, c)
    BY SequenceEmptyOrAppend
  <2>3. Len(s) \in Nat /\ k = Len(s) + 1
    BY <2>1, <2>2, AppendProperties
  <2>4. /\ Number(s) \in Nat /\ Number(t) \in Nat /\ Number(t) \div Base = Number(s)
        /\ Number(t) % Base = Value(c) /\ (Number(s) # 0 => Number(t) >= Base)
    BY <2>2, NumberOfAppend, NumberIsNat, DigitBehind
  <2>5. CASE Number(t) < Base
    <3>1. Digits[Number(t) + 1] \in DigitChars
      BY <1>0, <2>4, <2>5, Digit
    <3>2. NumeralOf[Number(t)] = Append(<<>>, Digits[Number(t) + 1])
      BY <2>4, <2>5, NumeralOfIs
    <3>3. Len(NumeralOf[Number(t)]) = 1
      BY <3>1, <3>2
    <3> QED BY <2>3, <3>3
  <2>6. CASE Number(t) >= Base
    <3>1. s # <<>>
      <4>1. SUFFICES ASSUME s = <<>> PROVE Number(t) < Base
        BY <1>0, <2>4, <2>6
      <4>2. Len(s) = 0 /\ Number(s) = 0
        BY <4>1, ReadingOf, NumberIsRead
      <4>3. Number(t) = Behind(0, c) /\ Value(c) \in 0..(Base - 1)
        BY <2>2, <4>2, NumberOfAppend, Digit
      <4> QED BY <1>0, <4>3 DEF Behind
    <3>2. Len(NumeralOf[Number(s)]) <= Len(s)
      <4>1. Len(s) \in Short
        BY <1>1, <2>3
      <4> QED BY <3>1, <4>1
    <3>3. NumeralOf[Number(t)] = Append(NumeralOf[Number(s)], Digits[Value(c) + 1])
      <4>1. ~(Number(t) < Base)
        BY <1>0, <2>4, <2>6
      <4>2. NumeralOf[Number(t)]
              = Append(NumeralOf[Number(t) \div Base], Digits[(Number(t) % Base) + 1])
        BY <2>4, <4>1, NumeralOfIs, Zenon
      <4> QED BY <2>4, <4>2, Zenon
    <3>4. NumeralOf[Number(s)] \in Seq(DigitChars) /\ Digits[Value(c) + 1] \in DigitChars
      BY <2>4, NumeralReads, Digit
    <3>5. Len(NumeralOf[Number(t)]) = Len(NumeralOf[Number(s)]) + 1
      BY <3>3, <3>4, AppendProperties
    <3> QED BY <2>3, <3>2, <3>4, <3>5
  <2> QED BY <1>0, <2>4, <2>5, <2>6
<1>2. Nat \subseteq Short
  BY <1>1, Smaller
<1> QED BY <1>2

-----------------------------------------------------------------------------
(* grant-store's own functions.                                              *)

\* formatID pads with zeros, which are not read.
LEMMA FormatIDReads == \A n \in Nat : Number(FormatID(n)) = n
<1> TAKE n \in Nat
<1> DEFINE short == PadWidth - Len(NumeralOf[n])
           zeros == IF short > 0 THEN short ELSE 0
<1>1. NumeralOf[n] \in Seq(DigitChars) /\ Number(NumeralOf[n]) = n
  BY NumeralReads
<1>2. Len(NumeralOf[n]) \in Nat /\ PadWidth \in Nat
  BY <1>1, NumericAssumption
<1>3. zeros \in Nat
  BY <1>2
<1>4. FormatID(n) = Zeros(zeros) \o NumeralOf[n]
  BY DEF FormatID
<1> HIDE DEF zeros
<1> QED BY <1>1, <1>3, <1>4, NumberPadded

\* No two numbers have one id, past the padding too: a row's id and its number
\* tell each other (store.go:171).
THEOREM FormatIDIsOneToOne == \A m, n \in Nat : FormatID(m) = FormatID(n) => m = n
BY FormatIDReads

\* The least and the greatest of some numbers up to a bound.
LEMMA MinMax ==
  ASSUME NEW b \in Nat, NEW S, S \subseteq 0..b, S # {}
  PROVE  /\ Min(S) \in S /\ Max(S) \in S
         /\ \A i \in S : Min(S) <= i /\ i <= Max(S)
<1>1. \E m \in S : \A i \in S : m <= i
  <2>1. S \subseteq Nat
    OBVIOUS
  <2> QED BY <2>1, Least
<1>2. \E m \in S : \A i \in S : m >= i
  <2> DEFINE below == {k \in 0..b : b - k \in S}
  <2>1. below \subseteq Nat /\ below # {}
    <3>1. PICK i \in S : TRUE
      OBVIOUS
    <3>2. b - i \in 0..b /\ b - (b - i) = i
      BY <3>1
    <3>3. b - i \in below
      BY <3>2
    <3> QED BY <3>3
  <2>2. PICK k \in below : \A i \in below : k <= i
    BY <2>1, Least
  <2>3. ASSUME NEW i \in S PROVE b - k >= i
    <3>1. i \in 0..b /\ b - i \in 0..b /\ b - (b - i) = i
      OBVIOUS
    <3>2. b - i \in below
      BY <3>1
    <3>3. k <= b - i /\ k \in 0..b
      BY <2>2, <3>2
    <3> QED BY <3>1, <3>3
  <2>4. b - k \in S
    BY <2>2
  <2> QED BY <2>3, <2>4
<1> QED BY <1>1, <1>2 DEF Min, Max

\* What is left of a text without its spaces is a text; a text of digits stays.
LEMMA TrimmedIs ==
  ASSUME NEW t \in Seq(Characters)
  PROVE  /\ Trimmed(t) \in Seq(Characters)
         /\ t \in Seq(DigitChars) \ {<<>>} => Trimmed(t) = t
<1> DEFINE solid == {i \in DOMAIN t : t[i] # Space}
<1>0. Len(t) \in Nat /\ DOMAIN t = 1..Len(t) /\ \A i \in 1..Len(t) : t[i] \in Characters
  OBVIOUS
<1>1. solid \subseteq 0..Len(t)
  BY <1>0
<1>2. CASE solid = {}
  <2>1. Trimmed(t) = <<>>
    BY <1>2 DEF Trimmed
  <2>2. t \notin Seq(DigitChars) \ {<<>>}
    <3>1. SUFFICES ASSUME t \in Seq(DigitChars) \ {<<>>} PROVE FALSE
      OBVIOUS
    <3>2. 1 \in DOMAIN t /\ t[1] \in DigitChars
      BY <3>1
    <3>3. 1 \in solid
      BY <3>2, NumericAssumption
    <3> QED BY <1>2, <3>3
  <2> QED BY <2>1, <2>2
<1>3. CASE solid # {}
  <2>1. /\ Min(solid) \in solid /\ Max(solid) \in solid
        /\ \A i \in solid : Min(solid) <= i /\ i <= Max(solid)
    BY <1>0, <1>1, <1>3, MinMax
  <2>2. Trimmed(t) = SubSeq(t, Min(solid), Max(solid))
    BY <1>3 DEF Trimmed
  <2>3. Min(solid) \in 1..Len(t) /\ Max(solid) \in 1..Len(t)
    BY <1>0, <2>1
  <2>4. ASSUME t \in Seq(DigitChars) \ {<<>>} PROVE Min(solid) = 1 /\ Max(solid) = Len(t)
    <3>1. Len(t) >= 1 /\ t[1] \in DigitChars /\ t[Len(t)] \in DigitChars
      BY <1>0, <2>4
    <3>2. 1 \in solid /\ Len(t) \in solid
      BY <1>0, <3>1, NumericAssumption
    <3> QED BY <2>1, <2>3, <3>2
  <2> HIDE DEF solid
  <2>5. SubSeq(t, Min(solid), Max(solid)) \in Seq(Characters)
    <3>1. \A i \in Min(solid)..Max(solid) : t[i] \in Characters
      BY <1>0, <2>3
    <3> QED BY <2>3, <3>1, SubSeqProperties
  <2> QED BY <2>2, <2>4, <2>5, SubSeqFull
<1> QED BY <1>2, <1>3

\* A numeral is a text of digits.
LEMMA NumeralIsDigits ==
  ASSUME NEW X, NEW t \in Seq(X)
  PROVE  IsNumeral(t) <=> t \in Seq(DigitChars) \ {<<>>}
<1>1. Len(t) \in Nat /\ t \in [1..Len(t) -> X]
  OBVIOUS
<1>2. ASSUME IsNumeral(t) PROVE t \in Seq(DigitChars) \ {<<>>}
  BY <1>1, <1>2 DEF IsNumeral
<1>3. ASSUME t \in Seq(DigitChars) \ {<<>>} PROVE IsNumeral(t)
  BY <1>1, <1>3 DEF IsNumeral
<1> QED BY <1>2, <1>3

\* A text that begins with a digit bears no sign.
LEMMA NumeralUnsigned ==
  ASSUME NEW t \in Seq(DigitChars) \ {<<>>}
  PROVE  Unsigned(t) = t /\ Head(t) # Signs.minus
<1>1. Head(t) \in DigitChars
  OBVIOUS
<1> QED BY <1>1, NumericAssumption DEF Unsigned, IsSigned

\* The bounds of an int64.
LEMMA IntBounds == MaxInt \in Nat /\ MinInt \in Int /\ MinInt < 0
BY PowerAssumption DEF MaxInt, MinInt

\* The saturated value of a number that fits is that number.
LEMMA Saturated ==
  ASSUME NEW n \in MinInt..MaxInt
  PROVE  Max({MinInt, Min({MaxInt, n})}) = n
<1>1. MaxInt \in Int /\ MinInt \in Int /\ n \in Int /\ MinInt <= n /\ n <= MaxInt
  BY IntBounds
<1>2. Min({MaxInt, n}) = n
  <2>1. \E m \in {MaxInt, n} : \A i \in {MaxInt, n} : m <= i
    BY <1>1
  <2> QED BY <1>1, <2>1 DEF Min
<1>3. \E m \in {MinInt, n} : \A i \in {MinInt, n} : m >= i
  BY <1>1
<1> QED BY <1>1, <1>2, <1>3 DEF Max

\* ParseInt of a number that fits is that number.
LEMMA ParsedIs ==
  ASSUME NEW t \in Seq(Characters), ParseInt(t).ok
  PROVE  /\ IsNumeral(Unsigned(t)) /\ Number(Unsigned(t)) \in Nat
         /\ ParseInt(t).value \in MinInt..MaxInt
         /\ ParseInt(t).value = IF Head(t) = Signs.minus THEN -Number(Unsigned(t))
                                                        ELSE Number(Unsigned(t))
<1> DEFINE n == IF Head(t) = Signs.minus THEN -Number(Unsigned(t)) ELSE Number(Unsigned(t))
           fits == n \in MinInt..MaxInt
<1>1. IsNumeral(Unsigned(t))
  BY DEF ParseInt
<1>2. Unsigned(t) \in Seq(Characters)
  BY DEF Unsigned, IsSigned
<1>3. Number(Unsigned(t)) \in Nat
  BY <1>1, <1>2, NumeralIsDigits, NumberIsNat
<1>4. ParseInt(t) = [ok |-> fits, value |-> Max({MinInt, Min({MaxInt, n})})]
  BY <1>1 DEF ParseInt
<1>5. n \in MinInt..MaxInt
  <2>1. fits \in BOOLEAN
    OBVIOUS
  <2> HIDE DEF fits, n
  <2>2. ParseInt(t).ok = fits
    BY <1>4, <2>1
  <2>3. fits
    BY <2>2, Zenon
  <2> QED BY <2>3 DEF fits
<1> HIDE DEF n
<1>6. ParseInt(t).value = n
  BY <1>4, <1>5, Saturated
<1> QED BY <1>1, <1>3, <1>5, <1>6 DEF n

\* What ParseInt makes of the numeral of a number that fits.
LEMMA NumeralParses ==
  ASSUME NEW n \in 0..MaxInt
  PROVE  ParseInt(NumeralOf[n]).ok /\ ParseInt(NumeralOf[n]).value = n
<1> DEFINE t == NumeralOf[n]
<1>0. n \in Nat /\ n \in MinInt..MaxInt
  BY IntBounds
<1>1. t \in Seq(DigitChars) \ {<<>>} /\ Number(t) = n
  BY <1>0, NumeralReads
<1> HIDE DEF t
<1>2. IsNumeral(t) /\ Unsigned(t) = t /\ Head(t) # Signs.minus
  BY <1>1, NumeralIsDigits, NumeralUnsigned
<1>3. ParseInt(t) = [ok |-> n \in MinInt..MaxInt, value |-> Max({MinInt, Min({MaxInt, n})})]
  BY <1>1, <1>2 DEF ParseInt
<1>4. ParseInt(t).ok = (n \in MinInt..MaxInt) /\ ParseInt(t).value = Max({MinInt, Min({MaxInt, n})})
  BY <1>3
<1>5. ParseInt(t).ok /\ ParseInt(t).value = n
  BY <1>0, <1>4, Saturated
<1> QED BY <1>5 DEF t

\* The numbers' own spellings are the ids that are taken, and no other text is:
\* what validateResourceID lets through (resource_type.go:146-166).
THEOREM CanonicalIds ==
  \A t \in Seq(Characters) :
      NumericIDIsValid(t) <=> \E n \in 0..MaxInt : t = NumeralOf[n]
<1> TAKE t \in Seq(Characters)
<1>1. ASSUME NumericIDIsValid(t) PROVE \E n \in 0..MaxInt : t = NumeralOf[n]
  <2>1. /\ ParseInt(t).value \in MinInt..MaxInt /\ ParseInt(t).value >= 0
        /\ FormatInt(ParseInt(t).value) = t
    BY <1>1, ParsedIs DEF NumericIDIsValid
  <2>2. ParseInt(t).value \in 0..MaxInt
    BY <2>1, IntBounds
  <2> QED BY <2>1, <2>2 DEF FormatInt
<1>2. ASSUME NEW n \in 0..MaxInt, t = NumeralOf[n] PROVE NumericIDIsValid(t)
  <2>1. n \in Nat /\ ~(n < 0) /\ n >= 0
    OBVIOUS
  <2>2. t \in Seq(DigitChars) \ {<<>>}
    BY <1>2, <2>1, NumeralReads
  <2>3. ParseInt(t).ok /\ ParseInt(t).value = n
    BY <1>2, NumeralParses
  <2>4. FormatInt(n) = t
    BY <1>2, <2>1 DEF FormatInt
  <2>5. t # <<>> /\ Trimmed(t) = t
    BY <2>2, TrimmedIs
  <2> QED BY <2>1, <2>3, <2>4, <2>5 DEF NumericIDIsValid
<1> QED BY <1>1, <1>2

\* A limit or an offset sent as its numeral is read as that number: what is
\* refused or read as 0 is never one that was plainly written (server.go:255-261).
THEOREM LimitIsRead == \A n \in 0..MaxInt : Atoi64(FormatInt(n)) = n
<1> TAKE n \in 0..MaxInt
<1>1. n \in Nat /\ FormatInt(n) = NumeralOf[n]
  BY IntBounds DEF FormatInt
<1>2. NumeralOf[n] \in Seq(DigitChars) \ {<<>>} /\ NumeralOf[n] \in Seq(Characters)
  <2>1. NumeralOf[n] \in Seq(DigitChars) \ {<<>>}
    BY <1>1, NumeralReads
  <2>2. DigitChars \subseteq Characters
    BY DEF Characters
  <2> QED BY <2>1, <2>2, SeqMonotonic
<1>3. Trimmed(NumeralOf[n]) = NumeralOf[n]
  BY <1>2, TrimmedIs
<1> QED BY <1>1, <1>3, NumeralParses DEF Atoi64

-----------------------------------------------------------------------------
(* The invariants.                                                           *)

\* The types: a text no longer than the bound, and a number handed out.
TypeInv == text \in Seq(Characters) /\ Len(text) <= MaxLength /\ seq \in 0..MaxSeq

\* What is sent stays within the bounds of the instance.
LEMMA TypesKept == Spec => []TypeInv
<1>1. Init => TypeInv
  <2> SUFFICES ASSUME Init PROVE TypeInv
    OBVIOUS
  <2>1. MaxLength \in Nat /\ MaxSeq \in Nat
    BY NumericAssumption
  <2> QED BY <2>1 DEF Init, TypeInv
<1>2. TypeInv /\ [Next]_vars => TypeInv'
  <2> SUFFICES ASSUME TypeInv, [Next]_vars PROVE TypeInv'
    OBVIOUS
  <2>1. MaxLength \in Nat /\ MaxSeq \in Nat
    BY NumericAssumption
  <2>2. CASE Send
    <3>1. PICK char \in Characters : text' = Append(text, char)
      BY <2>2 DEF Send
    <3>2. text' \in Seq(Characters) /\ Len(text') = Len(text) + 1 /\ Len(text) \in Nat
      BY <3>1 DEF TypeInv
    <3> QED BY <2>1, <2>2, <3>2 DEF Send, TypeInv
  <2>3. CASE Grant
    BY <2>1, <2>3 DEF Grant, TypeInv
  <2>4. CASE UNCHANGED vars
    BY <2>4 DEF vars, TypeInv
  <2> QED BY <2>2, <2>3, <2>4 DEF Next
<1> QED BY <1>1, <1>2, PTL DEF Spec

\* The one text that a number may be sent as is its numeral, which is no longer
\* than any other.
LEMMA OneSpelling ==
  ASSUME NEW t \in Seq(Characters), Len(t) <= MaxLength, IsNumeral(t)
  PROVE  {id \in Texts : Names(id, Number(t)) /\ NumericIDIsValid(id)}
           = IF Number(t) <= MaxInt THEN {NumeralOf[Number(t)]} ELSE {}
<1> DEFINE n == Number(t)
           ids == {id \in Texts : Names(id, n) /\ NumericIDIsValid(id)}
<1>1. t \in Seq(DigitChars) \ {<<>>} /\ n \in Nat /\ MaxLength \in Nat /\ MaxInt \in Nat
  BY NumeralIsDigits, NumberIsNat, NumericAssumption, IntBounds
<1>2. ASSUME NEW id \in ids PROVE id = NumeralOf[n] /\ n <= MaxInt
  <2>1. id \in Seq(Characters) /\ Names(id, n) /\ NumericIDIsValid(id)
    BY DEF Texts
  <2>2. PICK m \in 0..MaxInt : id = NumeralOf[m]
    BY <2>1, CanonicalIds
  <2>3. id \in Seq(DigitChars) \ {<<>>} /\ Number(id) = m
    BY <2>2, NumeralReads
  <2>4. Trimmed(id) = id /\ Unsigned(id) = id
    BY <2>1, <2>3, TrimmedIs, NumeralUnsigned
  <2>5. m = n
    BY <2>1, <2>3, <2>4 DEF Names
  <2> QED BY <1>1, <2>2, <2>5
<1>3. ASSUME n <= MaxInt PROVE NumeralOf[n] \in ids
  <2> DEFINE id == NumeralOf[n]
  <2>1. id \in Seq(DigitChars) \ {<<>>} /\ Number(id) = n
    BY <1>1, NumeralReads
  <2>2. Len(id) <= MaxLength
    <3>1. Len(id) <= Len(t) /\ Len(id) \in Nat /\ Len(t) \in Nat
      BY <1>1, <2>1, NumeralIsShortest
    <3> QED BY <1>1, <3>1
  <2> HIDE DEF id
  <2>3. id \in Seq(Characters) /\ id \in Texts
    <3>1. Len(id) \in 0..MaxLength /\ id \in [1..Len(id) -> DigitChars]
      BY <1>1, <2>1, <2>2
    <3>2. DigitChars \subseteq Characters
      BY DEF Characters
    <3>3. id \in [1..Len(id) -> Characters]
      BY <3>1, <3>2
    <3> QED BY <3>1, <3>3 DEF Texts
  <2>4. Trimmed(id) = id /\ Unsigned(id) = id /\ Head(id) # Signs.minus
    BY <2>1, <2>3, TrimmedIs, NumeralUnsigned
  <2>5. Names(id, n)
    BY <2>1, <2>4, NumeralIsDigits DEF Names
  <2>6. NumericIDIsValid(id)
    BY <1>1, <1>3, <2>3, CanonicalIds DEF id
  <2> QED BY <2>3, <2>5, <2>6 DEF id
<1>4. ids = IF n <= MaxInt THEN {NumeralOf[n]} ELSE {}
  BY <1>2, <1>3
<1> QED BY <1>4

\* Of all the texts somebody could mean one number by, the ids of resources take
\* exactly one, and none past the width (resource_type.go:146-150, 164).
THEOREM OneIdForANumber == Spec => []OneIdPerNumber
<1>1. TypeInv => OneIdPerNumber
  <2> SUFFICES ASSUME TypeInv, IsNumeral(text)
               PROVE  Cardinality({t \in Texts : Names(t, Number(text)) /\ NumericIDIsValid(t)})
                        = IF Number(text) <= MaxInt THEN 1 ELSE 0
    BY DEF OneIdPerNumber
  <2>1. {t \in Texts : Names(t, Number(text)) /\ NumericIDIsValid(t)}
          = IF Number(text) <= MaxInt THEN {NumeralOf[Number(text)]} ELSE {}
    BY OneSpelling DEF TypeInv
  <2> QED BY <2>1, FS_Singleton, FS_EmptySet
<1> QED BY <1>1, TypesKept, PTL

\* A limit that cuts a list is the limit that was asked for (server.go:255-261).
THEOREM LimitsAreAskedFor == Spec => []LimitsAreMeant
<1>1. TypeInv => LimitsAreMeant
  <2> SUFFICES ASSUME TypeInv, Atoi64(text) > 0
               PROVE  Names(text, Atoi64(text))
    BY DEF LimitsAreMeant
  <2> DEFINE t == Trimmed(text)
  <2>1. t \in Seq(Characters)
    BY TrimmedIs DEF TypeInv
  <2>2. ParseInt(t).ok /\ Atoi64(text) = ParseInt(t).value
    BY DEF Atoi64
  <2>3. /\ IsNumeral(Unsigned(t)) /\ Number(Unsigned(t)) \in Nat
        /\ ParseInt(t).value = IF Head(t) = Signs.minus THEN -Number(Unsigned(t))
                                                       ELSE Number(Unsigned(t))
    BY <2>1, <2>2, ParsedIs
  <2>4. Head(t) # Signs.minus /\ Number(Unsigned(t)) = Atoi64(text)
    BY <2>2, <2>3
  <2> QED BY <2>3, <2>4 DEF Names
<1> QED BY <1>1, TypesKept, PTL

\* No two grants handed out have one id, past the padding too (store.go:171).
THEOREM IDsDiffer == Spec => []GrantIDsDiffer
<1>1. TypeInv => GrantIDsDiffer
  <2> SUFFICES ASSUME TypeInv, NEW older \in 1..(seq - 1)
               PROVE  FormatID(older) # FormatID(seq)
    BY DEF GrantIDsDiffer
  <2>1. seq \in Nat /\ older \in Nat /\ older # seq
    BY NumericAssumption DEF TypeInv
  <2> QED BY <2>1, FormatIDIsOneToOne
<1> QED BY <1>1, TypesKept, PTL
=============================================================================
