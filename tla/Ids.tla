-------------------------------- MODULE Ids --------------------------------
(***************************************************************************)
(* The two readings of a goalId path argument.  GoalsRepository reads it   *)
(* as a Mongo object id (24 hexadecimal digits), TasksRepository as a 64   *)
(* bit integer that the handlers get with std::stoll, which converts the   *)
(* longest decimal prefix and ignores the rest.  tasks/update.cpp wraps    *)
(* std::stoll in ParseInt, which wants the whole string.                   *)
(*                                                                         *)
(* A string is a sequence of characters: 0 .. 9 are the decimal digits,    *)
(* 10 .. 15 the hexadecimal letters (either case), 16 any other character. *)
(* std::stoll also takes leading blanks and a sign; such a string is an    *)
(* integer that is no object id, like the unsigned one, and is left out.   *)
(***************************************************************************)
EXTENDS Integers, Sequences

CONSTANTS
  OidLen,    \* hexadecimal digits of an object id: 24
  Int64Max   \* the largest std::int64_t

ASSUME OidLenAssumption   == OidLen \in Nat \ {0}
ASSUME Int64MaxAssumption == Int64Max \in Nat

Digit == 0 .. 9
Hex   == 0 .. 15
Char  == 0 .. 16

\* bson::Oid(s) accepts s; it throws on any other string.
IsOid(s) == Len(s) = OidLen /\ \A i \in 1 .. Len(s) : s[i] \in Hex

\* Length of the decimal prefix: where std::stoll stops reading.
DigitRun(s) ==
  CHOOSE n \in 0 .. Len(s) :
    /\ \A i \in 1 .. n : s[i] \in Digit
    /\ n < Len(s) => s[n + 1] \notin Digit

\* The number that the first n characters of s write in the given base.
Numeral(s, n, base) ==
  LET value[i \in 0 .. n] ==
        IF i = 0 THEN 0 ELSE value[i - 1] * base + s[i]
  IN  value[n]

\* A mutant: a value that just fits is taken for an overflow.
StollTooNarrow(s) ==
  LET n == DigitRun(s)
      v == Numeral(s, n, 10)
  IN  [ok |-> n > 0 /\ v < Int64Max, value |-> v, pos |-> n]

\* std::stoll(s, &pos).  ok is FALSE where it throws: invalid_argument when
\* there is no digit to read, out_of_range when the value does not fit.
Stoll(s) ==
  LET n == DigitRun(s)
      v == Numeral(s, n, 10)
  IN  [ok |-> n > 0 /\ v <= Int64Max, value |-> v, pos |-> n]

ParsePrefix(s) == Stoll(s).ok   \* a mutant: pos is not looked at

\* ParseInt of tasks/update.cpp; the value is Stoll(s).value.
ParseInt(s) == Stoll(s).ok /\ Stoll(s).pos = Len(s)

\* std::to_string(n) of a natural number.
Decimal(n) ==
  LET digits[i \in Nat] == IF i < 10 THEN <<i>>
                           ELSE Append(digits[i \div 10], i % 10)
  IN  digits[n]

\* The least integer with OidLen decimal digits: a 1 and zeros.  Assumptions
\* about the scale of Int64Max are stated with it.
LeastLong == Numeral([i \in 1 .. OidLen |-> IF i = 1 THEN 1 ELSE 0], OidLen, 10)

\* bson::Oid compares as the 12 bytes that the digits write.
OidValue(s) == Numeral(s, Len(s), 16)
=============================================================================
