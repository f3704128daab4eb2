------------------------------- MODULE MCIds -------------------------------
(***************************************************************************)
(* Every string of at most MaxLen characters, built one character at a     *)
(* time.  The machine only enumerates inputs.                              *)
(***************************************************************************)
EXTENDS Ids

CONSTANT MaxLen   \* bound: length of the strings enumerated

VARIABLE text

Init == text = <<>>

Read(c) == Len(text) < MaxLen /\ text' = Append(text, c)

\* The longest strings are not extended.
Done == Len(text) = MaxLen /\ UNCHANGED text

Next == (\E c \in Char : Read(c)) \/ Done

Spec == Init /\ [][Next]_text

\* Int64Max has fewer decimal digits than an object id has digits, as
\* 2^63 - 1 has 19 of the 24: an integer with OidLen digits overflows.
ASSUME ScaleAssumption == Int64Max < LeastLong

----------------------------------------------------------------------------
\* No object id whose first digit is not 0 is an integer for ParseInt: with a
\* letter in it the conversion stops early, and with decimal digits alone it
\* does not fit.  (The first four bytes of an object id are the time it was
\* made, so its first digit is not 0 for dates since July 1978.)
OidNeverInteger ==
  IsOid(text) /\ text[1] # 0 => ~ParseInt(text)

\* std::to_string and std::stoll are inverse on what fits: the subject that
\* Login writes into a token is the user id that CheckAuth reads from it.
\* (The user id is the number that a text of digits writes.)
SubjectReadsBack ==
  LET id == Numeral(text, Len(text), 10)
  IN  (\A i \in 1 .. Len(text) : text[i] \in Digit) /\ id <= Int64Max =>
        ParseInt(Decimal(id)) /\ Stoll(Decimal(id)).value = id
=============================================================================
