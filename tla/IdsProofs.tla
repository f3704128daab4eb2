------------------------------ MODULE IdsProofs -----------------------------
(***************************************************************************)
(* What the conversions of Ids compute, for strings of any length and for  *)
(* any OidLen and Int64Max.                                                *)
(*                                                                         *)
(* The definitions are recursive functions.  Induction is by sets: a set   *)
(* that holds 0 and the successors of its members holds Nat (SetInduction, *)
(* from the least element of every set of naturals that has one at all),   *)
(* so that a property is proved for {n \in Nat : ...}.                     *)
(***************************************************************************)
EXTENDS Ids, TLAPS, WellFoundedInduction

Before == {p \in Nat \X Nat : p[1] < p[2]}

\* A set of naturals that is not empty has a least element.
LEMMA LeastElement ==
  ASSUME NEW T, T \subseteq Nat, T # {}
  PROVE  \E x \in T : \A y \in T : x <= y
<1>1. IsWellFoundedOn(Before, Nat)
  BY NatLessThanWellFounded DEF OpToRel, Before
<1>2. PICK x \in T : \A y \in T : <<y, x>> \notin Before
  BY <1>1, WFMin
<1>3. ASSUME NEW y \in T PROVE x <= y
  <2>1. x \in Nat /\ y \in Nat /\ <<y, x>> \notin Before
    BY <1>2
  <2>. QED
    BY <2>1 DEF Before
<1>. QED
  BY <1>3

\* Induction: a set with 0 and every successor has all naturals.
LEMMA SetInduction ==
  ASSUME NEW S, 0 \in S, \A n \in Nat : n \in S => n + 1 \in S
  PROVE  Nat \subseteq S
<1>. DEFINE T == Nat \ S
<1>. SUFFICES ASSUME T # {} PROVE FALSE
  OBVIOUS
<1>1. T \subseteq Nat
  OBVIOUS
<1>. HIDE DEF T
<1>2. PICK x \in T : \A y \in T : x <= y
  BY <1>1, LeastElement
<1>3. x \in Nat /\ x # 0 /\ x \notin S
  BY DEF T
<1>4. x - 1 \in Nat /\ x - 1 \notin S
  BY <1>3
<1>5. x - 1 \in T /\ ~(x <= x - 1)
  BY <1>3, <1>4 DEF T
<1>. QED
  BY <1>2, <1>5

\* The same with all smaller numbers at hand.
LEMMA StrongSetInduction ==
  ASSUME NEW S, \A n \in Nat : (\A m \in Nat : m < n => m \in S) => n \in S
  PROVE  Nat \subseteq S
<1>. DEFINE T == Nat \ S
<1>. SUFFICES ASSUME T # {} PROVE FALSE
  OBVIOUS
<1>1. T \subseteq Nat
  OBVIOUS
<1>. HIDE DEF T
<1>2. PICK x \in T : \A y \in T : x <= y
  BY <1>1, LeastElement
<1>3. x \in Nat /\ x \notin S
  BY DEF T
<1>4. ASSUME NEW m \in Nat, m < x PROVE m \in S
  BY <1>2, <1>3, <1>4 DEF T
<1>. QED
  BY <1>3, <1>4

----------------------------------------------------------------------------
(* The number that a string writes.                                        *)

\* v[i] is the number that the first i characters write, for i up to n.
Values(v, s, n, base) ==
  v = [i \in 0 .. n |-> IF i = 0 THEN 0 ELSE v[i - 1] * base + s[i]]

LEMMA ValuesExist ==
  ASSUME NEW s, NEW base, NEW n \in Nat
  PROVE  \E v : Values(v, s, n, base)
<1>. DEFINE S == {k \in Nat : \E v : Values(v, s, k, base)}
<1>1. 0 \in S
  <2>1. Values([i \in 0 .. 0 |-> 0], s, 0, base)
    BY DEF Values
  <2>. QED
    BY <2>1
<1>2. ASSUME NEW k \in Nat, k \in S PROVE k + 1 \in S
  <2>1. PICK v : Values(v, s, k, base)
    BY <1>2
  <2>. DEFINE w == [i \in 0 .. k + 1 |->
                      IF i = k + 1 THEN v[k] * base + s[k + 1] ELSE v[i]]
  <2>2. ASSUME NEW i \in 0 .. k + 1
        PROVE  w[i] = IF i = 0 THEN 0 ELSE w[i - 1] * base + s[i]
    <3>1. CASE i = k + 1
      <4>1. w[i - 1] = v[k]
        BY <3>1
      <4>. QED
        BY <3>1, <4>1
    <3>2. CASE i \in 0 .. k
      <4>1. w[i] = v[i] /\ (i # 0 => i - 1 \in 0 .. k /\ w[i - 1] = v[i - 1])
        BY <3>2
      <4>2. v[i] = IF i = 0 THEN 0 ELSE v[i - 1] * base + s[i]
        BY <2>1, <3>2 DEF Values
      <4>. QED
        BY <4>1, <4>2
    <3>. QED
      BY <3>1, <3>2
  <2>. HIDE DEF w
  <2>3. w = [i \in 0 .. k + 1 |->
               IF i = 0 THEN 0 ELSE w[i - 1] * base + s[i]]
    BY <2>2 DEF w
  <2>. QED
    BY <2>3 DEF Values
<1>. HIDE DEF S
<1>3. Nat \subseteq S
  BY <1>1, <1>2, SetInduction
<1>. QED
  BY <1>3 DEF S

\* Two such functions agree where both are defined.
LEMMA ValuesAgree ==
  ASSUME NEW s, NEW base, NEW v, NEW w, NEW n \in Nat, NEW m \in Nat,
         Values(v, s, n, base), Values(w, s, m, base),
         NEW i \in Nat, i <= n, i <= m
  PROVE  v[i] = w[i]
<1>. DEFINE S == {k \in Nat : k <= n /\ k <= m => v[k] = w[k]}
<1>1. 0 \in S
  BY DEF Values
<1>2. ASSUME NEW k \in Nat, k \in S PROVE k + 1 \in S
  BY <1>2 DEF Values
<1>. HIDE DEF S
<1>3. Nat \subseteq S
  BY <1>1, <1>2, SetInduction
<1>. QED
  BY <1>3 DEF S

\* Numeral, one character at a time.
LEMMA NumeralStep ==
  ASSUME NEW s, NEW base, NEW n \in Nat
  PROVE  /\ Numeral(s, 0, base) = 0
         /\ Numeral(s, n + 1, base) = Numeral(s, n, base) * base + s[n + 1]
<1>. DEFINE V(k) == CHOOSE v : Values(v, s, k, base)
<1>1. \A k \in Nat : Values(V(k), s, k, base)
  BY ValuesExist
<1>2. \A k \in Nat : Numeral(s, k, base) = V(k)[k]
  BY DEF Numeral, Values
<1>. HIDE DEF V
<1>3. Numeral(s, 0, base) = 0
  BY <1>1, <1>2 DEF Values
<1>4. V(n + 1)[n + 1] = V(n + 1)[n] * base + s[n + 1]
  BY <1>1 DEF Values
<1>5. V(n + 1)[n] = V(n)[n]
  BY <1>1, ValuesAgree
<1>. QED
  BY <1>2, <1>3, <1>4, <1>5

\* A string of characters, as a function.
Text(s) == /\ Len(s) \in Nat
           /\ \A i \in 1 .. Len(s) : s[i] \in Char

\* It is a natural number, and does not depend on what follows.
LEMMA NumeralType ==
  ASSUME NEW s, Text(s), NEW base \in {10, 16}, NEW n \in 0 .. Len(s)
  PROVE  Numeral(s, n, base) \in Nat
<1>. DEFINE S == {k \in Nat : k <= Len(s) => Numeral(s, k, base) \in Nat}
<1>1. 0 \in S
  BY NumeralStep
<1>2. ASSUME NEW k \in Nat, k \in S PROVE k + 1 \in S
  <2>. SUFFICES ASSUME k + 1 <= Len(s) PROVE Numeral(s, k + 1, base) \in Nat
    OBVIOUS
  <2>1. Numeral(s, k, base) \in Nat /\ s[k + 1] \in Nat
    <3>1. k <= Len(s) /\ k + 1 \in 1 .. Len(s)
      BY DEF Text
    <3>2. s[k + 1] \in 0 .. 16
      BY <3>1 DEF Text, Char
    <3>3. Numeral(s, k, base) \in Nat
      BY <1>2, <3>1
    <3>4. 0 .. 16 \subseteq Nat
      OBVIOUS
    <3>. QED
      BY <3>2, <3>3, <3>4
  <2>2. Numeral(s, k + 1, base) = Numeral(s, k, base) * base + s[k + 1]
    BY NumeralStep
  <2>3. PICK x \in Nat : x = Numeral(s, k, base)
    BY <2>1
  <2>. QED
    BY <2>1, <2>2, <2>3
<1>. HIDE DEF S
<1>3. Nat \subseteq S
  BY <1>1, <1>2, SetInduction
<1>. QED
  BY <1>3 DEF S, Text

LEMMA NumeralPrefix ==
  ASSUME NEW s, NEW t, NEW base, NEW n \in Nat,
         \A i \in 1 .. n : s[i] = t[i]
  PROVE  Numeral(s, n, base) = Numeral(t, n, base)
<1>. DEFINE S == {k \in Nat :
                    k <= n => Numeral(s, k, base) = Numeral(t, k, base)}
<1>1. 0 \in S
  BY NumeralStep
<1>2. ASSUME NEW k \in Nat, k \in S PROVE k + 1 \in S
  <2>. SUFFICES ASSUME k + 1 <= n
                PROVE  Numeral(s, k + 1, base) = Numeral(t, k + 1, base)
    OBVIOUS
  <2>1. Numeral(s, k, base) = Numeral(t, k, base) /\ s[k + 1] = t[k + 1]
    BY <1>2
  <2>. QED
    BY <2>1, NumeralStep
<1>. HIDE DEF S
<1>3. Nat \subseteq S
  BY <1>1, <1>2, SetInduction
<1>. QED
  BY <1>3 DEF S

\* Different hexadecimal strings of one length write different numbers.
LEMMA NumeralInjective ==
  ASSUME NEW s, NEW t, NEW n \in Nat,
         \A i \in 1 .. n : s[i] \in Hex /\ t[i] \in Hex,
         Numeral(s, n, 16) = Numeral(t, n, 16)
  PROVE  \A i \in 1 .. n : s[i] = t[i]
<1>. DEFINE Num(r, k) == Numeral(r, k, 16)
            S == {k \in Nat : k <= n =>
                    /\ Num(s, k) \in Nat /\ Num(t, k) \in Nat
                    /\ Num(s, k) = Num(t, k) => \A i \in 1 .. k : s[i] = t[i]}
<1>1. 0 \in S
  BY NumeralStep
<1>2. ASSUME NEW k \in Nat, k \in S PROVE k + 1 \in S
  <2>. SUFFICES ASSUME k + 1 <= n
                PROVE  /\ Num(s, k + 1) \in Nat /\ Num(t, k + 1) \in Nat
                       /\ Num(s, k + 1) = Num(t, k + 1) =>
                            \A i \in 1 .. k + 1 : s[i] = t[i]
    OBVIOUS
  <2>1. /\ Num(s, k) \in Nat /\ Num(t, k) \in Nat
        /\ Num(s, k) = Num(t, k) => \A i \in 1 .. k : s[i] = t[i]
    BY <1>2
  <2>2. s[k + 1] \in 0 .. 15 /\ t[k + 1] \in 0 .. 15
    BY DEF Hex
  <2>3. /\ Num(s, k + 1) = Num(s, k) * 16 + s[k + 1]
        /\ Num(t, k + 1) = Num(t, k) * 16 + t[k + 1]
    BY NumeralStep
  <2>. HIDE DEF Num
  <2>4. Num(s, k + 1) \in Nat /\ Num(t, k + 1) \in Nat
    BY <2>1, <2>2, <2>3
  <2>5. Num(s, k + 1) = Num(t, k + 1) =>
          Num(s, k) = Num(t, k) /\ s[k + 1] = t[k + 1]
    <3>1. PICK x \in Nat, y \in Nat, a \in 0 .. 15, c \in 0 .. 15 :
            /\ x = Num(s, k) /\ y = Num(t, k)
            /\ a = s[k + 1] /\ c = t[k + 1]
      BY <2>1, <2>2
    <3>2. x * 16 + a = y * 16 + c => x = y /\ a = c
      OBVIOUS
    <3>. QED
      BY <2>3, <3>1, <3>2
  <2>. QED
    BY <2>1, <2>4, <2>5
<1>. HIDE DEF S
<1>3. Nat \subseteq S
  BY <1>1, <1>2, SetInduction
<1>. QED
  BY <1>3 DEF S

\* bson::Oid orders the object ids: no two have one value.
LEMMA OidValueInjective ==
  ASSUME NEW s \in Seq(Char), IsOid(s), NEW t \in Seq(Char), IsOid(t),
         OidValue(s) = OidValue(t)
  PROVE  s = t
<1>1. /\ Len(s) = OidLen /\ Len(t) = OidLen /\ OidLen \in Nat
      /\ \A i \in 1 .. OidLen : s[i] \in Hex /\ t[i] \in Hex
  BY OidLenAssumption DEF IsOid
<1>2. \A i \in 1 .. OidLen : s[i] = t[i]
  BY <1>1, NumeralInjective DEF OidValue
<1>. QED
  BY <1>1, <1>2

LEMMA OidValueType ==
  ASSUME NEW s \in Seq(Char)
  PROVE  OidValue(s) \in Nat
BY NumeralType DEF OidValue, Text

----------------------------------------------------------------------------
(* std::stoll.                                                             *)

\* Where a decimal prefix ends.
IsRun(s, n) ==
  /\ n \in 0 .. Len(s)
  /\ \A i \in 1 .. n : s[i] \in Digit
  /\ n < Len(s) => s[n + 1] \notin Digit

LEMMA RunUnique ==
  ASSUME NEW s, Len(s) \in Nat, NEW n, NEW m, IsRun(s, n), IsRun(s, m)
  PROVE  n = m
<1>1. n \in Nat /\ m \in Nat
  BY DEF IsRun
<1>2. CASE n < m
  BY <1>1, <1>2 DEF IsRun
<1>3. CASE m < n
  BY <1>1, <1>3 DEF IsRun
<1>. QED
  BY <1>1, <1>2, <1>3

LEMMA RunExists ==
  ASSUME NEW s, Len(s) \in Nat
  PROVE  \E n : IsRun(s, n)
<1>. DEFINE T == {i \in 1 .. Len(s) : s[i] \notin Digit}
<1>1. CASE T = {}
  BY <1>1 DEF IsRun
<1>2. CASE T # {}
  <2>1. PICK x \in T : \A y \in T : x <= y
    <3>1. T \subseteq Nat
      OBVIOUS
    <3>. HIDE DEF T
    <3>. QED
      BY <1>2, <3>1, LeastElement
  <2>2. \A i \in 1 .. x - 1 : s[i] \in Digit
    BY <2>1
  <2>3. x - 1 \in 0 .. Len(s) /\ x - 1 + 1 = x
    BY <2>1
  <2>4. IsRun(s, x - 1)
    BY <2>1, <2>2, <2>3 DEF IsRun
  <2>. QED
    BY <2>4
<1>. QED
  BY <1>1, <1>2

\* DigitRun is the one place where the decimal prefix ends.
LEMMA DigitRunIs ==
  ASSUME NEW s, Len(s) \in Nat
  PROVE  /\ IsRun(s, DigitRun(s))
         /\ \A n : IsRun(s, n) => DigitRun(s) = n
<1>1. PICK m : IsRun(s, m)
  BY RunExists
<1>2. IsRun(s, DigitRun(s))
  BY <1>1 DEF DigitRun, IsRun
<1>. QED
  BY <1>2, RunUnique

\* std::stoll of any string gives a natural number and a place in the string.
LEMMA StollType ==
  ASSUME NEW s \in Seq(Char)
  PROVE  /\ Stoll(s).ok \in BOOLEAN
         /\ Stoll(s).value \in Nat
         /\ Stoll(s).pos \in 0 .. Len(s)
<1>1. Len(s) \in Nat /\ Text(s)
  BY DEF Text
<1>2. DigitRun(s) \in 0 .. Len(s)
  BY <1>1, DigitRunIs DEF IsRun
<1>3. Numeral(s, DigitRun(s), 10) \in Nat
  BY <1>1, <1>2, NumeralType
<1>. QED
  BY <1>2, <1>3 DEF Stoll

\* ParseInt takes strings that are decimal digits throughout, and only those
\* whose number fits.
LEMMA ParseIntIs ==
  ASSUME NEW s \in Seq(Char)
  PROVE  ParseInt(s) <=> /\ Len(s) > 0
                         /\ \A i \in 1 .. Len(s) : s[i] \in Digit
                         /\ Numeral(s, Len(s), 10) <= Int64Max
<1>1. Len(s) \in Nat
  OBVIOUS
<1>2. IsRun(s, DigitRun(s)) /\ \A n : IsRun(s, n) => DigitRun(s) = n
  BY <1>1, DigitRunIs
<1>3. /\ Stoll(s).pos = DigitRun(s)
      /\ Stoll(s).ok <=> /\ DigitRun(s) > 0
                         /\ Numeral(s, DigitRun(s), 10) <= Int64Max
  BY DEF Stoll
<1>4. CASE DigitRun(s) = Len(s)
  <2>1. \A i \in 1 .. Len(s) : s[i] \in Digit
    BY <1>2, <1>4 DEF IsRun
  <2>. QED
    BY <1>3, <1>4, <2>1 DEF ParseInt
<1>5. CASE DigitRun(s) # Len(s)
  <2>1. ~IsRun(s, Len(s))
    BY <1>2, <1>5
  <2>2. ~(\A i \in 1 .. Len(s) : s[i] \in Digit)
    BY <1>1, <2>1 DEF IsRun
  <2>. QED
    BY <1>3, <1>5, <2>2 DEF ParseInt
<1>. QED
  BY <1>4, <1>5

\* A string of digits that does not start with 0 writes no less than
\* a 1 with as many digits, all of them 0.
LEMMA NumeralLeast ==
  ASSUME NEW s, Text(s), NEW t, NEW n \in Nat, n <= Len(s),
         \A i \in 1 .. n : t[i] = IF i = 1 THEN 1 ELSE 0,
         Len(s) > 0, s[1] # 0
  PROVE  /\ Numeral(t, n, 10) \in Nat
         /\ Numeral(t, n, 10) <= Numeral(s, n, 10)
<1>. DEFINE S == {k \in Nat : k <= n =>
                    /\ Numeral(t, k, 10) \in Nat
                    /\ Numeral(t, k, 10) <= Numeral(s, k, 10)}
<1>1. 0 \in S
  BY NumeralStep
<1>2. ASSUME NEW k \in Nat, k \in S PROVE k + 1 \in S
  <2>. SUFFICES ASSUME k + 1 <= n
                PROVE  /\ Numeral(t, k + 1, 10) \in Nat
                       /\ Numeral(t, k + 1, 10) <= Numeral(s, k + 1, 10)
    OBVIOUS
  <2>1. k \in 0 .. Len(s) /\ k + 1 \in 1 .. Len(s) /\ k + 1 \in 1 .. n
    BY DEF Text
  <2>2. PICK x \in Nat, y \in Nat :
          x = Numeral(t, k, 10) /\ y = Numeral(s, k, 10) /\ x <= y
    BY <1>2, <2>1, NumeralType
  <2>3. PICK c \in 0 .. 16 : c = s[k + 1] /\ (k = 0 => c # 0)
    BY <2>1 DEF Text, Char
  <2>4. t[k + 1] = IF k = 0 THEN 1 ELSE 0
    BY <2>1
  <2>5. /\ Numeral(t, k + 1, 10) = x * 10 + (IF k = 0 THEN 1 ELSE 0)
        /\ Numeral(s, k + 1, 10) = y * 10 + c
    BY <2>2, <2>3, <2>4, NumeralStep
  <2>6. k = 0 => c >= 1
    BY <2>3
  <2>7. x * 10 <= y * 10 /\ x * 10 \in Nat /\ y * 10 \in Nat
    BY <2>2
  <2>8. CASE k = 0
    BY <2>5, <2>6, <2>7, <2>8
  <2>9. CASE k # 0
    BY <2>5, <2>7, <2>9
  <2>. QED
    BY <2>8, <2>9
<1>. HIDE DEF S
<1>3. Nat \subseteq S
  BY <1>1, <1>2, SetInduction
<1>. QED
  BY <1>3 DEF S

----------------------------------------------------------------------------
(* std::to_string.                                                         *)

LEMMA DivisionByTen ==
  ASSUME NEW n \in Nat
  PROVE  /\ n \div 10 \in Nat /\ n % 10 \in Digit
         /\ n = (n \div 10) * 10 + (n % 10)
         /\ n >= 10 => n \div 10 < n /\ n \div 10 > 0
BY DEF Digit

\* d[i] is how i is written, for i up to n.
Digits(d, n) ==
  d = [i \in 0 .. n |-> IF i < 10 THEN <<i>> ELSE Append(d[i \div 10], i % 10)]

LEMMA DigitsAgree ==
  ASSUME NEW d, NEW e, NEW n \in Nat, NEW m \in Nat, Digits(d, n), Digits(e, m),
         NEW i \in Nat, i <= n, i <= m
  PROVE  d[i] = e[i]
<1>. DEFINE S == {k \in Nat : k <= n /\ k <= m => d[k] = e[k]}
<1>1. ASSUME NEW k \in Nat, \A j \in Nat : j < k => j \in S PROVE k \in S
  <2>. SUFFICES ASSUME k <= n, k <= m PROVE d[k] = e[k]
    OBVIOUS
  <2>1. /\ d[k] = IF k < 10 THEN <<k>> ELSE Append(d[k \div 10], k % 10)
        /\ e[k] = IF k < 10 THEN <<k>> ELSE Append(e[k \div 10], k % 10)
    <3>1. k \in 0 .. n /\ k \in 0 .. m
      OBVIOUS
    <3>. QED
      BY <3>1 DEF Digits
  <2>2. CASE k < 10
    BY <2>1, <2>2
  <2>3. CASE ~(k < 10)
    <3>1. k \div 10 \in Nat /\ k \div 10 < k
      BY <2>3, DivisionByTen
    <3>2. d[k \div 10] = e[k \div 10]
      BY <1>1, <3>1
    <3>. QED
      BY <2>1, <2>3, <3>2
  <2>. QED
    BY <2>2, <2>3
<1>. HIDE DEF S
<1>2. Nat \subseteq S
  BY <1>1, StrongSetInduction
<1>. QED
  BY <1>2 DEF S

LEMMA DigitsExist ==
  ASSUME NEW n \in Nat
  PROVE  \E d : Digits(d, n)
<1>. DEFINE S == {k \in Nat : \E d : Digits(d, k)}
<1>1. 0 \in S
  <2>1. Digits([i \in 0 .. 0 |-> <<i>>], 0)
    BY DEF Digits
  <2>. QED
    BY <2>1
<1>2. ASSUME NEW k \in Nat, k \in S PROVE k + 1 \in S
  <2>1. PICK d : Digits(d, k)
    BY <1>2
  <2>. DEFINE last == IF k + 1 < 10 THEN <<k + 1>>
                      ELSE Append(d[(k + 1) \div 10], (k + 1) % 10)
              e == [i \in 0 .. k + 1 |-> IF i = k + 1 THEN last ELSE d[i]]
  <2>2. ASSUME NEW i \in 0 .. k + 1
        PROVE  e[i] = IF i < 10 THEN <<i>> ELSE Append(e[i \div 10], i % 10)
    <3>1. ~(i < 10) => i \div 10 \in 0 .. k /\ i \div 10 < i
      BY DivisionByTen
    <3>2. ~(i < 10) => e[i \div 10] = d[i \div 10]
      BY <3>1
    <3>3. CASE i = k + 1
      BY <3>2, <3>3
    <3>4. CASE i \in 0 .. k
      <4>1. e[i] = d[i]
        BY <3>4
      <4>2. d[i] = IF i < 10 THEN <<i>> ELSE Append(d[i \div 10], i % 10)
        BY <2>1, <3>4 DEF Digits
      <4>. HIDE DEF e
      <4>. QED
        BY <3>2, <4>1, <4>2
    <3>. QED
      BY <3>3, <3>4
  <2>. HIDE DEF e
  <2>3. e = [i \in 0 .. k + 1 |->
               IF i < 10 THEN <<i>> ELSE Append(e[i \div 10], i % 10)]
    BY <2>2 DEF e
  <2>. HIDE DEF last
  <2>4. Digits(e, k + 1)
    BY <2>3 DEF Digits
  <2>. QED
    BY <2>4
<1>. HIDE DEF S
<1>3. Nat \subseteq S
  BY <1>1, <1>2, SetInduction
<1>. QED
  BY <1>3 DEF S

\* Decimal, one digit at a time.
LEMMA DecimalStep ==
  ASSUME NEW n \in Nat
  PROVE  Decimal(n) = IF n < 10 THEN <<n>>
                      ELSE Append(Decimal(n \div 10), n % 10)
<1>. DEFINE D(k) == CHOOSE d : Digits(d, k)
            f == [k \in Nat |-> D(k)[k]]
            Def(g) == g = [i \in Nat |-> IF i < 10 THEN <<i>>
                                         ELSE Append(g[i \div 10], i % 10)]
<1>1. \A k \in Nat : Digits(D(k), k)
  BY DigitsExist
<1>. HIDE DEF D
<1>2. ASSUME NEW i \in Nat
      PROVE  f[i] = IF i < 10 THEN <<i>> ELSE Append(f[i \div 10], i % 10)
  <2>1. D(i)[i] = IF i < 10 THEN <<i>> ELSE Append(D(i)[i \div 10], i % 10)
    <3>1. i \in 0 .. i
      OBVIOUS
    <3>. QED
      BY <1>1, <3>1 DEF Digits
  <2>2. i \div 10 \in Nat /\ (~(i < 10) => i \div 10 <= i)
    BY DivisionByTen
  <2>3. ~(i < 10) => D(i)[i \div 10] = D(i \div 10)[i \div 10]
    BY <1>1, <2>2, DigitsAgree
  <2>. QED
    BY <2>1, <2>2, <2>3
<1>. HIDE DEF f
<1>3. Def(f)
  BY <1>2 DEF f
<1>. DEFINE g == CHOOSE h : Def(h)
<1>4. Def(g)
  BY <1>3
<1>5. \A i \in Nat : Decimal(i) = g[i]
  BY DEF Decimal
<1>. HIDE DEF g
<1>6. n \div 10 \in Nat
  BY DivisionByTen
<1>. QED
  BY <1>4, <1>5, <1>6

\* std::to_string writes decimal digits that are read back as the number.
LEMMA DecimalReadsBack ==
  ASSUME NEW n \in Nat
  PROVE  /\ Decimal(n) \in Seq(Digit) /\ Len(Decimal(n)) > 0
         /\ Numeral(Decimal(n), Len(Decimal(n)), 10) = n
<1>. DEFINE P(k) == /\ Decimal(k) \in Seq(Digit) /\ Len(Decimal(k)) > 0
                    /\ Numeral(Decimal(k), Len(Decimal(k)), 10) = k
            S == {k \in Nat : P(k)}
<1>1. ASSUME NEW k \in Nat, \A j \in Nat : j < k => j \in S PROVE P(k)
  <2>1. CASE k < 10
    <3>. DEFINE s == <<k>>
    <3>1. Decimal(k) = s /\ s \in Seq(Digit) /\ Len(s) = 1 /\ s[1] = k
      BY <2>1, DecimalStep DEF Digit
    <3>. HIDE DEF s
    <3>2. /\ Numeral(s, 0, 10) = 0
          /\ Numeral(s, 0 + 1, 10) = Numeral(s, 0, 10) * 10 + s[0 + 1]
      BY NumeralStep
    <3>. QED
      BY <3>1, <3>2
  <2>2. CASE ~(k < 10)
    <3>1. PICK q \in Nat, c \in Digit :
            q = k \div 10 /\ c = k % 10 /\ q < k /\ k = q * 10 + c
      BY <2>2, DivisionByTen
    <3>2. Decimal(k) = Append(Decimal(q), c)
      BY <2>2, <3>1, DecimalStep
    <3>3. P(q)
      BY <1>1, <3>1
    <3>4. PICK t \in Seq(Digit), m \in Nat :
            /\ t = Decimal(q) /\ m = Len(t) /\ m > 0
            /\ Numeral(t, m, 10) = q
      BY <3>3
    <3>5. PICK u \in Seq(Digit) : u = Decimal(k)
      BY <3>2, <3>4
    <3>6. /\ Len(u) = m + 1 /\ u[m + 1] = c
          /\ \A i \in 1 .. m : u[i] = t[i]
      BY <3>2, <3>4, <3>5
    <3>7. Numeral(u, m, 10) = Numeral(t, m, 10)
      BY <3>6, NumeralPrefix
    <3>8. Numeral(u, m + 1, 10) = Numeral(u, m, 10) * 10 + u[m + 1]
      BY NumeralStep
    <3>. QED
      BY <3>1, <3>4, <3>5, <3>6, <3>7, <3>8
  <2>. QED
    BY <2>1, <2>2
<1>. HIDE DEF P
<1>2. \A k \in Nat : (\A j \in Nat : j < k => j \in S) => k \in S
  BY <1>1
<1>. HIDE DEF S
<1>3. Nat \subseteq S
  BY <1>2, StrongSetInduction
<1>. QED
  BY <1>3 DEF S, P

\* What to_string writes of a number that fits, stoll reads as that number.
LEMMA DecimalStoll ==
  ASSUME NEW n \in Nat, n <= Int64Max
  PROVE  /\ Decimal(n) \in Seq(Char)
         /\ ParseInt(Decimal(n))
         /\ Stoll(Decimal(n)).ok /\ Stoll(Decimal(n)).value = n
<1>1. PICK s \in Seq(Digit) :
        s = Decimal(n) /\ Len(s) > 0 /\ Numeral(s, Len(s), 10) = n
  BY DecimalReadsBack
<1>2. s \in Seq(Char) /\ Len(s) \in Nat /\ \A i \in 1 .. Len(s) : s[i] \in Digit
  BY <1>1 DEF Digit, Char
<1>3. ParseInt(s)
  BY <1>1, <1>2, ParseIntIs
<1>4. IsRun(s, Len(s))
  BY <1>2 DEF IsRun
<1>5. DigitRun(s) = Len(s)
  BY <1>2, <1>4, DigitRunIs
<1>. QED
  BY <1>1, <1>2, <1>3, <1>5 DEF Stoll

----------------------------------------------------------------------------
\* An object id whose first digit is not 0 is no integer, when Int64Max has
\* fewer digits than an object id.
LEMMA OidOverflows ==
  ASSUME Int64Max < LeastLong,
         NEW s \in Seq(Char), IsOid(s), s[1] # 0
  PROVE  ~ParseInt(s)
<1>. SUFFICES ASSUME ParseInt(s) PROVE FALSE
  OBVIOUS
<1>. DEFINE t == [i \in 1 .. OidLen |-> IF i = 1 THEN 1 ELSE 0]
<1>1. Len(s) = OidLen /\ Text(s) /\ OidLen \in Nat /\ OidLen > 0
  BY OidLenAssumption DEF IsOid, Text
<1>2. Numeral(s, OidLen, 10) <= Int64Max
  BY <1>1, ParseIntIs
<1>3. \A i \in 1 .. OidLen : t[i] = IF i = 1 THEN 1 ELSE 0
  OBVIOUS
<1>. HIDE DEF t
<1>4. /\ Numeral(t, OidLen, 10) \in Nat
      /\ Numeral(t, OidLen, 10) <= Numeral(s, OidLen, 10)
  BY <1>1, <1>3, NumeralLeast
<1>5. Numeral(s, OidLen, 10) \in Nat
  BY <1>1, NumeralType
<1>6. Int64Max < Numeral(t, OidLen, 10)
  BY DEF LeastLong, t
<1>. QED
  BY <1>2, <1>4, <1>5, <1>6, Int64MaxAssumption
=============================================================================
