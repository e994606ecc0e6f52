----------------------------- MODULE NumericIds -----------------------------
(* Texts that name numbers: the numeric half of validateResourceID           *)
(* (src/resource_type.go), atoi64 as GET /grants reads its limit and offset  *)
(* (src/server.go), and formatID (src/store.go).  A text is a sequence of    *)
(* characters.  Base and Width are small here and 10 and 64 in the code.     *)
(*                                                                           *)
(* The state is the next text somebody sends and the next number handed out. *)
EXTENDS Integers, SequencesExt

CONSTANTS
    Digits,          \* the digits in order, the first of them zero
    Signs,           \* [plus |-> character, minus |-> character]
    Space,           \* the character TrimSpace takes off
    Letters,         \* characters of no number
    Width,           \* bits of an int64
    PadWidth,        \* digits formatID pads to
    MaxLength,       \* bound: the longest text
    MaxSeq           \* bound: the last number handed out

VARIABLES text, seq

vars == <<text, seq>>

Base == Len(Digits)

DigitChars == {Digits[i] : i \in DOMAIN Digits}

Characters == DigitChars \cup Letters \cup {Signs.plus, Signs.minus, Space}

Texts == UNION {[1..n -> Characters] : n \in 0..MaxLength}

\* Digits are distinct characters, and no sign and no space is one.
ASSUME NumericAssumption ==
    /\ Digits \in Seq(DigitChars) /\ Base >= 2
    /\ \A i, j \in DOMAIN Digits : Digits[i] = Digits[j] => i = j
    /\ {Signs.plus, Signs.minus, Space} \cap DigitChars = {}
    /\ {Width, PadWidth, MaxLength, MaxSeq} \subseteq Nat \ {0}

\* It follows from Width's: the provers know no power but of two numerals.
ASSUME PowerAssumption == 2^(Width - 1) \in Nat \ {0}

MaxInt == 2^(Width - 1) - 1

MinInt == -(2^(Width - 1))

-----------------------------------------------------------------------------
(* Go's strconv and strings, as the code uses them.                          *)

IsNumeral(t) == t # <<>> /\ \A i \in DOMAIN t : t[i] \in DigitChars

\* The number a numeral names, however long it is: digit by digit.
Number(t) ==
    LET value(char) == (CHOOSE i \in DOMAIN Digits : Digits[i] = char) - 1
        read[n \in 0..Len(t)] ==
            IF n = 0 THEN 0 ELSE read[n - 1] * Base + value(t[n])
    IN read[Len(t)]

IsSigned(t) == t # <<>> /\ Head(t) \in {Signs.plus, Signs.minus}

Unsigned(t) == IF IsSigned(t) THEN Tail(t) ELSE t

\* ParseInt(t, 10, 64): a sign may come first; past the width it is an error,
\* and the value that comes with it is the nearest there is.
ParseInt(t) ==
    IF ~IsNumeral(Unsigned(t)) THEN [ok |-> FALSE, value |-> 0]
    ELSE LET n == IF Head(t) = Signs.minus THEN -Number(Unsigned(t))
                                           ELSE Number(Unsigned(t)) IN
         [ok |-> n \in MinInt..MaxInt, value |-> Max({MinInt, Min({MaxInt, n})})]

\* The digits of n, none of them a leading zero.
NumeralOf[n \in Nat] ==
    IF n < Base THEN <<Digits[n + 1]>>
                ELSE Append(NumeralOf[n \div Base], Digits[(n % Base) + 1])

FormatInt(n) == IF n < 0 THEN <<Signs.minus>> \o NumeralOf[-n] ELSE NumeralOf[n]

\* TrimSpace: the text from its first character that is no space to its last.
Trimmed(t) ==
    LET solid == {i \in DOMAIN t : t[i] # Space} IN
    IF solid = {} THEN <<>> ELSE SubSeq(t, Min(solid), Max(solid))

-----------------------------------------------------------------------------
(* grant-store's own.                                                        *)

\* A mutant of the next: any text that parses.
NumericIDParses(t) == ParseInt(t).ok /\ ParseInt(t).value >= 0

\* validateResourceID, for a type whose ids are numbers.
NumericIDIsValid(t) ==
    /\ t # <<>> /\ Trimmed(t) = t
    /\ ParseInt(t).ok /\ ParseInt(t).value >= 0
    /\ FormatInt(ParseInt(t).value) = t

\* A mutant of the next: the value without a look at the error.
ValueOfAny(t) == ParseInt(Trimmed(t)).value

\* atoi64: what is not a number is 0.
Atoi64(t) == IF ParseInt(Trimmed(t)).ok THEN ParseInt(Trimmed(t)).value ELSE 0

Zeros(n) == [i \in 1..n |-> Digits[1]]

\* A mutant of the next: a number cut to the width it is padded to.
LastDigits(n) ==
    LET padded == Zeros(PadWidth) \o NumeralOf[n] IN
    SubSeq(padded, Len(padded) - PadWidth + 1, Len(padded))

\* formatID: %06d pads a short number and leaves a long one alone.
FormatID(n) ==
    LET short == PadWidth - Len(NumeralOf[n]) IN
    Zeros(IF short > 0 THEN short ELSE 0) \o NumeralOf[n]

-----------------------------------------------------------------------------

Init == text = <<>> /\ seq = 0

\* Somebody sends another text.
Send ==
    /\ Len(text) < MaxLength
    /\ \E char \in Characters : text' = Append(text, char)
    /\ UNCHANGED seq

\* Another number is handed out.
Grant ==
    /\ text = <<>> /\ seq < MaxSeq
    /\ seq' = seq + 1
    /\ UNCHANGED text

Next == Send \/ Grant

Spec == Init /\ [][Next]_vars

-----------------------------------------------------------------------------
(* Properties.                                                               *)

\* What a reader who is kind to spaces, signs and zeros takes a text for.
Names(t, n) ==
    LET bare == Unsigned(Trimmed(t)) IN
    IsNumeral(bare) /\ Number(bare) = n /\ Head(Trimmed(t)) # Signs.minus

\* Of all the texts somebody could mean one number by, the ids of resources
\* take exactly one, and none past the width: no resource has two rows under
\* two spellings of its id (resource_type.go:146-150, 164).
OneIdPerNumber ==
    IsNumeral(text) =>
        Cardinality({t \in Texts : Names(t, Number(text)) /\ NumericIDIsValid(t)})
          = IF Number(text) <= MaxInt THEN 1 ELSE 0

\* A limit that cuts a list is the limit that was asked for: junk, and numbers
\* no int64 holds, cut nothing off (server.go:255-261, grant.go:216).
LimitsAreMeant == Atoi64(text) > 0 => Names(text, Atoi64(text))

\* No two grants have one id, past the padding too (store.go:171).
GrantIDsDiffer ==
    \A older \in 1..(seq - 1) : FormatID(older) # FormatID(seq)
=============================================================================
