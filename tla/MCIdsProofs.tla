----------------------------- MODULE MCIdsProofs ----------------------------
(***************************************************************************)
(* The two readings of a goalId exclude each other, and a token's subject  *)
(* reads back, for strings of any length.                                  *)
(***************************************************************************)
EXTENDS MCIds, IdsProofs

LEMMA TextIsText == Spec => [](text \in Seq(Char))
<1>1. Init => text \in Seq(Char)
  BY DEF Init
<1>2. text \in Seq(Char) /\ [Next]_text => (text \in Seq(Char))'
  BY DEF Next, Read, Done
<1>. QED
  BY <1>1, <1>2, PTL DEF Spec

\* No object id whose first digit is not 0 is an integer.
THEOREM OidsAreNotIntegers == Spec => []OidNeverInteger
<1>1. ASSUME text \in Seq(Char), IsOid(text), text[1] # 0
      PROVE  ~ParseInt(text)
  BY <1>1, ScaleAssumption, OidOverflows
<1>2. text \in Seq(Char) => OidNeverInteger
  BY <1>1 DEF OidNeverInteger
<1>. QED
  BY <1>2, TextIsText, PTL

\* What std::to_string writes into a token, std::stoll reads as the same id.
THEOREM SubjectsReadBack == Spec => []SubjectReadsBack
<1>. DEFINE id == Numeral(text, Len(text), 10)
<1>1. ASSUME text \in Seq(Char), id <= Int64Max
      PROVE  ParseInt(Decimal(id)) /\ Stoll(Decimal(id)).value = id
  <2>1. id \in Nat
    BY <1>1, NumeralType DEF Text
  <2>. QED
    BY <1>1, <2>1, DecimalStoll
<1>2. text \in Seq(Char) => SubjectReadsBack
  BY <1>1 DEF SubjectReadsBack
<1>. QED
  BY <1>2, TextIsText, PTL
=============================================================================
