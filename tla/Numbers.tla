-------------------------------- MODULE Numbers --------------------------------
(***************************************************************************)
(* The numbers on a command line: how amounts of CSPR are read as motes,   *)
(* printed, and fitted into a payment, and how the integers of arguments   *)
(* are read.  The widths of the integers and the number of decimals are    *)
(* parameters; the text is typed key by key.                               *)
(***************************************************************************)
EXTENDS Integers, Texts

CONSTANTS
  TypedDigit, \* the digits typed
  Decimals,   \* the decimals of a CSPR
  MaxMotes,   \* the largest of the wide integers, U512
  MaxPayment, \* the largest of the others, u64
  MaxKeys     \* bound: the length of a text

Underscore == "_"

Numeral == <<"0", "1", "2", "3", "4", "5", "6", "7", "8", "9">>

IsDigit(t) == Contains(Numeral, t)

DigitOf(t) == Position(Numeral, t) - 1

ASSUME NumberAssumption ==
  /\ \A t \in TypedDigit : IsDigit(t)
  /\ {Decimals, MaxMotes, MaxPayment, MaxKeys} \subseteq Nat
  /\ Decimals # 0
  /\ MaxPayment <= MaxMotes

VARIABLE typed \* the text of a number

NumberInit == typed = <<>>

TypeKey(key) ==
  /\ Len(typed) < MaxKeys
  /\ typed' = Append(typed, key)

NumberNext == \E key \in TypedDigit \cup {".", Underscore, "+", "-", " "} : TypeKey(key)

NumberSpec == NumberInit /\ [][NumberNext]_typed

-----------------------------------------------------------------------------
(***************************************************************************)
(* Reading and printing: the set of the one number, empty when it fails.   *)
(***************************************************************************)

\* Ten, multiplied k times.
TenTo(k) ==
  LET Power[j \in 0..k] == IF j = 0 THEN 1 ELSE 10 * Power[j - 1]
  IN Power[k]

\* MOTES_PER_CSPR.
MotesPerCspr == TenTo(Decimals)

\* The number that digits make, one after the other.
NumberOf(digits) ==
  LET Partial[k \in 0..Len(digits)] ==
        IF k = 0 THEN 0 ELSE 10 * Partial[k - 1] + DigitOf(digits[k])
  IN Partial[Len(digits)]

\* U512::from_dec_str; no digits at all are zero.
FromDecimal(word) ==
  IF \E i \in DOMAIN word : ~IsDigit(word[i]) THEN {} ELSE {NumberOf(word)} \cap 0..MaxMotes

\* Mutant: the decimals are read as they are.
NotPadded(decimals) == decimals

\* The decimals, filled up with zeros on the right.
Padded(decimals) == decimals \o [i \in 1..(Decimals - Len(decimals)) |-> "0"]

\* What groups the digits is left out.
Ungrouped(word) == FlattenSeq([i \in DOMAIN word |-> IF word[i] = Underscore THEN <<>> ELSE <<word[i]>>])

\* The place of the point, behind the text if there is none.
Point(word) == IF Contains(word, ".") THEN Position(word, ".") ELSE Len(word) + 1

\* parse_cspr_to_motes.
Motes(word) ==
  LET normalized == Ungrouped(Trimmed(word))
      whole == Before(normalized, Point(normalized))
      decimals == After(normalized, Point(normalized))
  IN IF whole \o decimals = <<>> \/ Len(decimals) > Decimals THEN {}
     ELSE {w * MotesPerCspr + d : w \in FromDecimal(whole), d \in FromDecimal(Padded(decimals))}
            \cap 0..MaxMotes

\* u512_to_u64, for the payment of a call or a session.
Payment(word) == Motes(word) \cap 0..MaxPayment

\* The digits of a number, at least `width` of them.
Digits(n, width) ==
  LET DigitsFrom[k \in 0..n] ==
        IF k < 10 THEN <<Numeral[k + 1]>>
        ELSE Append(DigitsFrom[k \div 10], Numeral[(k % 10) + 1])
      shortest == DigitsFrom[n]
  IN [i \in 1..(width - Len(shortest)) |-> "0"] \o shortest

\* format_cspr.
FormatCspr(n) ==
  Digits(n \div MotesPerCspr, 1) \o <<".">> \o Digits(n % MotesPerCspr, Decimals)

-----------------------------------------------------------------------------
(***************************************************************************)
(* The integers of arguments.                                              *)
(***************************************************************************)

\* normalize_decimal.  A sign comes first, before all underscores too.
Normalized(word) ==
  LET trimmed == Trimmed(word)
      normalized == Ungrouped(trimmed)
  IN IF \/ trimmed = <<>> \/ normalized \in {<<"+">>, <<"-">>}
        \/ \E i \in DOMAIN trimmed :
             ~IsDigit(trimmed[i]) /\ trimmed[i] # Underscore /\ ~(i = 1 /\ trimmed[i] \in {"+", "-"})
     THEN {} ELSE {normalized}

\* parse_i32 and parse_i64, with str::parse, which wants a digit.
Signed(word) ==
  LET half == (MaxPayment + 1) \div 2
      value(n) ==
        IF n[1] = "-" THEN {0 - x : x \in FromDecimal(Tail(n))}
        ELSE FromDecimal(IF n[1] = "+" THEN Tail(n) ELSE n)
  IN (UNION {value(n) : n \in Normalized(word) \ {<<>>}}) \cap (0 - half)..(half - 1)

\* normalize_unsigned_decimal.
Unsigned(word) ==
  {IF n # <<>> /\ n[1] = "+" THEN Tail(n) ELSE n :
     n \in {x \in Normalized(word) : x = <<>> \/ x[1] # "-"}}

\* parse_u8, parse_u32 and parse_u64, with str::parse.
Narrow(word) == (UNION {FromDecimal(n) : n \in Unsigned(word) \ {<<>>}}) \cap 0..MaxPayment

\* parse_u128, parse_u256 and parse_u512.
Wide(word) == UNION {FromDecimal(n) : n \in Unsigned(word)}

-----------------------------------------------------------------------------
(***************************************************************************)
(* Properties.                                                             *)
(***************************************************************************)

\* Reference: the sum of numbers.
Total(summands) ==
  LET Sum[k \in 0..Len(summands)] == IF k = 0 THEN 0 ELSE Sum[k - 1] + summands[k]
  IN Sum[Len(summands)]

\* The digits at places of a text, counted.
Count(word, places) == Cardinality({i \in places : IsDigit(word[i])})

\* Reference: digits grouped by underscores at will.
IsGrouped(word) == \A i \in DOMAIN word : IsDigit(word[i]) \/ word[i] = Underscore

\* Reference: what the digits are worth, each by the number of those behind it.
Size(word) ==
  Total([i \in DOMAIN word |->
    IF IsDigit(word[i]) THEN DigitOf(word[i]) * TenTo(Count(word, (i + 1)..Len(word))) ELSE 0])

\* Reference: what decimals are worth in motes, each by the number of those up to it.
Fraction(word) ==
  Total([i \in DOMAIN word |->
    IF IsDigit(word[i]) THEN DigitOf(word[i]) * TenTo(Decimals - Count(word, 1..i)) ELSE 0])

\* Reference: the motes a text means, a number with no more decimals than a CSPR has.
Worth(word) ==
  LET whole == Before(word, Point(word))
      decimals == After(word, Point(word))
      digits(text) == Count(text, DOMAIN text)
  IN IF /\ IsGrouped(whole) /\ IsGrouped(decimals)
        /\ digits(whole) + digits(decimals) # 0
        /\ digits(decimals) <= Decimals
     THEN {Size(whole) * MotesPerCspr + Fraction(decimals)} ELSE {}

\* An amount is the number that is written, to the mote, or refused: never rounded,
\* never cut off at the width of an integer, with no digit at a wrong place; a
\* payment likewise; and what is printed for it reads as the same amount.
AmountExact ==
  /\ Motes(typed) = Worth(Trimmed(typed)) \cap 0..MaxMotes
  /\ Payment(typed) = Worth(Trimmed(typed)) \cap 0..MaxPayment
  /\ \A n \in Motes(typed) : Motes(FormatCspr(n)) = {n}

\* Reference: the integers a text means: digits grouped by underscores, behind a
\* sign or not.
Meant(word) ==
  LET signed == word # <<>> /\ word[1] \in {"+", "-"}
      body == IF signed THEN Tail(word) ELSE word
  IN IF IsGrouped(body) /\ Count(body, DOMAIN body) # 0
     THEN {[negative |-> signed /\ word[1] = "-", size |-> Size(body)]} ELSE {}

\* An integer is read as it is written, or refused, at all ends of its range.  A
\* minus sign is none of an unsigned integer, not even before a zero.  Underscores
\* alone are refused but for a wide integer, which is then zero.
IntegerExact ==
  LET word == Trimmed(typed)
      half == (MaxPayment + 1) \div 2
      unsigned == {m.size : m \in {x \in Meant(word) : ~x.negative}}
      empty == IF word # <<>> /\ \A i \in DOMAIN word : word[i] = Underscore THEN {0} ELSE {}
  IN /\ Signed(typed) = {IF m.negative THEN 0 - m.size ELSE m.size : m \in Meant(word)}
                          \cap (0 - half)..(half - 1)
     /\ Narrow(typed) = unsigned \cap 0..MaxPayment
     /\ Wide(typed) = (unsigned \cap 0..MaxMotes) \cup empty

\* Numbers of both kinds are read as they are written, or refused.
NumbersExact == AmountExact /\ IntegerExact
===============================================================================
