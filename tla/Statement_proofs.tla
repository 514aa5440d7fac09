--------------------------- MODULE Statement_proofs ---------------------------
(* Theorems about Statement, for any operations, arguments and databases, and  *)
(* about the conversions of SqlType, for any text and any integer.             *)
EXTENDS Statement, FiniteSetTheorems, TLAPS

-----------------------------------------------------------------------------
(* Induction, over sets: a theorem cannot be used here that takes an operator. *)

Below == {mn \in Nat \X Nat : mn[1] < mn[2]}

\* A set of natural numbers that is not empty has a least element.
LEMMA LeastNatural ==
  ASSUME NEW T, T \subseteq Nat, T # {}
  PROVE  \E k \in T : \A j \in T : k <= j
<1>1. IsWellFoundedOn(Below, Nat)
  BY NatLessThanWellFounded, Zenon DEF OpToRel, Below
<1>2. PICK k \in T : \A j \in T : ~(<<j, k>> \in Below)
  BY <1>1, WFMin
<1>3. ASSUME NEW j \in T PROVE k <= j
  <2>1. ~(<<j, k>> \in Below) /\ j \in Nat /\ k \in Nat
    BY <1>2
  <2>2. j < k => <<j, k>> \in Below
    BY <2>1 DEF Below
  <2> QED
    BY <2>1, <2>2
<1> QED
  BY <1>3

\* A set that has 0, and n + 1 with n, has every natural number.
LEMMA NatInductionOnSet ==
  ASSUME NEW G, 0 \in G, \A n \in Nat : n \in G => n + 1 \in G
  PROVE  Nat \subseteq G
<1> SUFFICES ASSUME Nat \ G # {} PROVE FALSE
  OBVIOUS
<1>1. PICK k \in Nat \ G : \A j \in Nat \ G : k <= j
  BY LeastNatural
<1>2. k - 1 \in Nat /\ k - 1 \in G
  BY <1>1
<1>3. (k - 1) + 1 \in G
  BY <1>2
<1> QED
  BY <1>2, <1>3

\* A set that has n when it has every smaller number has every natural number.
LEMMA StrongInductionOnSet ==
  ASSUME NEW G, \A n \in Nat : (\A j \in 0 .. n - 1 : j \in G) => n \in G
  PROVE  Nat \subseteq G
<1> SUFFICES ASSUME Nat \ G # {} PROVE FALSE
  OBVIOUS
<1>1. PICK k \in Nat \ G : \A j \in Nat \ G : k <= j
  BY LeastNatural
<1>2. \A j \in 0 .. k - 1 : j \in G
  BY <1>1
<1> QED
  BY <1>1, <1>2

\* A set that has the empty sequence, and Append(s, c) with s, has every sequence.
LEMMA SeqInductionOnSet ==
  ASSUME NEW C, NEW G, <<>> \in G,
         \A s \in Seq(C), c \in C : s \in G => Append(s, c) \in G
  PROVE  Seq(C) \subseteq G
<1> DEFINE Lengths == {n \in Nat : \A s \in Seq(C) : Len(s) = n => s \in G}
<1>1. 0 \in Lengths
  <2>1. \A s \in Seq(C) : Len(s) = 0 => s = <<>>
    OBVIOUS
  <2> QED
    BY <2>1
<1>2. ASSUME NEW n \in Nat, n \in Lengths PROVE n + 1 \in Lengths
  <2> SUFFICES ASSUME NEW s \in Seq(C), Len(s) = n + 1 PROVE s \in G
    OBVIOUS
  <2> DEFINE front == SubSeq(s, 1, n)
  <2>1. front \in Seq(C) /\ Len(front) = n /\ s[n + 1] \in C
    OBVIOUS
  <2>2. s = Append(front, s[n + 1])
    OBVIOUS
  <2>3. front \in G
    BY <1>2, <2>1
  <2> HIDE DEF front
  <2> QED
    BY <2>1, <2>2, <2>3
<1> HIDE DEF Lengths
<1>3. Nat \subseteq Lengths
  BY <1>1, <1>2, NatInductionOnSet
<1> QED
  BY <1>3 DEF Lengths

-----------------------------------------------------------------------------
(* The recursive definitions of SqlType: each has the function it speaks of,  *)
(* and its equation.                                                          *)

\* The function that Natural takes the last value of.
IsNatural(f, s) ==
  f = [i \in 0 .. Len(s) |-> IF i = 0 THEN 0 ELSE 10 * f[i - 1] + DigitValue(s[i])]

LEMMA NaturalFunction ==
  ASSUME NEW C, NEW s \in Seq(C)
  PROVE  \E f : IsNatural(f, s) /\ Natural(s) = f[Len(s)]
<1> DEFINE G == {t \in Seq(C) : \E f : IsNatural(f, t)}
<1>1. <<>> \in G
  <2> DEFINE f == [i \in 0 .. 0 |-> 0]
  <2>1. IsNatural(f, <<>>)
    BY DEF IsNatural
  <2> QED
    BY <2>1
<1>2. ASSUME NEW t \in Seq(C), NEW c \in C, t \in G PROVE Append(t, c) \in G
  <2>1. PICK f : IsNatural(f, t)
    BY <1>2
  <2> DEFINE n == Len(t)
             g == [i \in 0 .. n + 1 |-> IF i = n + 1 THEN 10 * f[n] + DigitValue(c) ELSE f[i]]
  <2>2. n \in Nat /\ Len(Append(t, c)) = n + 1 /\ Append(t, c)[n + 1] = c
        /\ \A i \in 1 .. n : Append(t, c)[i] = t[i]
    OBVIOUS
  <2>3. \A i \in 0 .. n : f[i] = IF i = 0 THEN 0 ELSE 10 * f[i - 1] + DigitValue(t[i])
    BY <2>1 DEF IsNatural
  <2> HIDE DEF n
  <2>4. \A i \in 0 .. n + 1 :
          g[i] = IF i = 0 THEN 0 ELSE 10 * g[i - 1] + DigitValue(Append(t, c)[i])
    BY <2>2, <2>3
  <2>5. IsNatural(g, Append(t, c))
    BY <2>2, <2>4 DEF IsNatural
  <2> QED
    BY <2>5
<1> HIDE DEF G
<1>3. Seq(C) \subseteq G
  BY <1>1, <1>2, SeqInductionOnSet
<1>4. \E f : IsNatural(f, s)
  BY <1>3 DEF G
<1> QED
  BY <1>4 DEF Natural, IsNatural

LEMMA NaturalEmpty == Natural(<<>>) = 0
<1>1. <<>> \in Seq({})
  OBVIOUS
<1>2. PICK f : IsNatural(f, <<>>) /\ Natural(<<>>) = f[Len(<<>>)]
  BY <1>1, NaturalFunction
<1> QED
  BY <1>2 DEF IsNatural

LEMMA NaturalAppend ==
  ASSUME NEW C, NEW s \in Seq(C), NEW c \in C
  PROVE  Natural(Append(s, c)) = 10 * Natural(s) + DigitValue(c)
<1> DEFINE t == Append(s, c)
           n == Len(s)
<1>1. PICK f : IsNatural(f, s) /\ Natural(s) = f[Len(s)]
  BY NaturalFunction
<1>2. PICK g : IsNatural(g, t) /\ Natural(t) = g[Len(t)]
  <2>1. t \in Seq(C)
    OBVIOUS
  <2> HIDE DEF t
  <2> QED
    BY <2>1, NaturalFunction
<1>3. n \in Nat /\ Len(t) = n + 1 /\ t[n + 1] = c /\ \A i \in 1 .. n : t[i] = s[i]
  OBVIOUS
<1>4. \A i \in 0 .. n : f[i] = IF i = 0 THEN 0 ELSE 10 * f[i - 1] + DigitValue(s[i])
  BY <1>1 DEF IsNatural
<1>5. \A i \in 0 .. n + 1 : g[i] = IF i = 0 THEN 0 ELSE 10 * g[i - 1] + DigitValue(t[i])
  BY <1>2, <1>3 DEF IsNatural
<1> HIDE DEF n, t
<1> DEFINE G == {i \in Nat : i <= n => f[i] = g[i]}
<1>6. 0 \in G
  BY <1>3, <1>4, <1>5
<1>7. \A i \in Nat : i \in G => i + 1 \in G
  BY <1>3, <1>4, <1>5
<1> HIDE DEF G
<1>8. n \in G
  BY <1>3, <1>6, <1>7, NatInductionOnSet
<1>9. f[n] = g[n]
  BY <1>3, <1>8 DEF G
<1> QED
  BY <1>1, <1>2, <1>3, <1>5, <1>9 DEF n, t

\* The function that TenTo takes the last value of.
IsTenTo(f, n) == f = [i \in 0 .. n |-> IF i = 0 THEN 1 ELSE 10 * f[i - 1]]

LEMMA TenToFunction ==
  ASSUME NEW n \in Nat
  PROVE  \E f : IsTenTo(f, n) /\ TenTo(n) = f[n]
<1> DEFINE G == {k \in Nat : \E f : IsTenTo(f, k)}
<1>1. 0 \in G
  <2> DEFINE f == [i \in 0 .. 0 |-> 1]
  <2>1. IsTenTo(f, 0)
    BY DEF IsTenTo
  <2> QED
    BY <2>1
<1>2. ASSUME NEW k \in Nat, k \in G PROVE k + 1 \in G
  <2>1. PICK f : IsTenTo(f, k)
    BY <1>2
  <2> DEFINE g == [i \in 0 .. k + 1 |-> IF i = k + 1 THEN 10 * f[k] ELSE f[i]]
  <2>2. \A i \in 0 .. k : f[i] = IF i = 0 THEN 1 ELSE 10 * f[i - 1]
    BY <2>1 DEF IsTenTo
  <2>3. \A i \in 0 .. k + 1 : g[i] = IF i = 0 THEN 1 ELSE 10 * g[i - 1]
    BY <2>2
  <2>4. IsTenTo(g, k + 1)
    BY <2>3 DEF IsTenTo
  <2> QED
    BY <2>4
<1> HIDE DEF G
<1>3. n \in G
  BY <1>1, <1>2, NatInductionOnSet
<1>4. \E f : IsTenTo(f, n)
  BY <1>3 DEF G
<1> QED
  BY <1>4 DEF TenTo, IsTenTo

LEMMA TenToZero == TenTo(0) = 1
<1>1. PICK f : IsTenTo(f, 0) /\ TenTo(0) = f[0]
  BY TenToFunction
<1> QED
  BY <1>1 DEF IsTenTo

LEMMA TenToNext ==
  ASSUME NEW n \in Nat
  PROVE  TenTo(n + 1) = 10 * TenTo(n)
<1>1. PICK f : IsTenTo(f, n) /\ TenTo(n) = f[n]
  BY TenToFunction
<1>2. PICK g : IsTenTo(g, n + 1) /\ TenTo(n + 1) = g[n + 1]
  BY TenToFunction
<1>3. \A i \in 0 .. n : f[i] = IF i = 0 THEN 1 ELSE 10 * f[i - 1]
  BY <1>1 DEF IsTenTo
<1>4. \A i \in 0 .. n + 1 : g[i] = IF i = 0 THEN 1 ELSE 10 * g[i - 1]
  BY <1>2 DEF IsTenTo
<1> DEFINE G == {i \in Nat : i <= n => f[i] = g[i]}
<1>5. 0 \in G
  BY <1>3, <1>4
<1>6. \A i \in Nat : i \in G => i + 1 \in G
  BY <1>3, <1>4
<1> HIDE DEF G
<1>7. n \in G
  BY <1>5, <1>6, NatInductionOnSet
<1>8. f[n] = g[n]
  BY <1>7 DEF G
<1> QED
  BY <1>1, <1>2, <1>4, <1>8

LEMMA TenToType ==
  ASSUME NEW n \in Nat
  PROVE  TenTo(n) \in Nat
<1> DEFINE G == {k \in Nat : TenTo(k) \in Nat}
<1>1. 0 \in G
  BY TenToZero
<1>2. \A k \in Nat : k \in G => k + 1 \in G
  BY TenToNext
<1> HIDE DEF G
<1>3. n \in G
  BY <1>1, <1>2, NatInductionOnSet
<1> QED
  BY <1>3 DEF G

\* The function that Shown takes the last value of.
IsShown(f, n) ==
  f = [m \in 0 .. n |-> IF m < 10 THEN <<Digits[m + 1]>>
                        ELSE Append(f[m \div 10], Digits[(m % 10) + 1])]

LEMMA Tenth ==
  ASSUME NEW m \in Nat
  PROVE  /\ m \div 10 \in Nat /\ m % 10 \in 0 .. 9 /\ m = 10 * (m \div 10) + (m % 10)
         /\ m >= 10 => m \div 10 < m
  OBVIOUS

LEMMA ShownFunction ==
  ASSUME NEW n \in Nat
  PROVE  \E f : IsShown(f, n) /\ Shown(n) = f[n]
<1> DEFINE G == {k \in Nat : \E f : IsShown(f, k)}
           Last(f, k) == IF k < 10 THEN <<Digits[k + 1]>>
                         ELSE Append(f[k \div 10], Digits[(k % 10) + 1])
<1>1. 0 \in G
  <2> DEFINE f == [i \in 0 .. 0 |-> <<Digits[1]>>]
  <2>1. IsShown(f, 0)
    BY DEF IsShown
  <2> QED
    BY <2>1
<1>2. ASSUME NEW k \in Nat, k \in G PROVE k + 1 \in G
  <2>1. PICK f : IsShown(f, k)
    BY <1>2
  <2> DEFINE g == [m \in 0 .. k + 1 |-> IF m = k + 1 THEN Last(f, k + 1) ELSE f[m]]
  <2>2. \A m \in 0 .. k : f[m] = Last(f, m)
    BY <2>1 DEF IsShown
  <2>3. \A m \in 0 .. k + 1 : m >= 10 => m \div 10 \in 0 .. k /\ m \div 10 # k + 1
    BY Tenth
  <2>4. ASSUME NEW m \in 0 .. k + 1 PROVE g[m] = Last(g, m)
    <3>1. m >= 10 => g[m \div 10] = f[m \div 10]
      BY <2>3
    <3>2. g[m] = Last(f, m)
      BY <2>2
    <3> HIDE DEF g
    <3> QED
      BY <3>1, <3>2
  <2>5. IsShown(g, k + 1)
    BY <2>4 DEF IsShown
  <2> QED
    BY <2>5
<1> HIDE DEF G
<1>3. n \in G
  BY <1>1, <1>2, NatInductionOnSet
<1>4. \E f : IsShown(f, n)
  BY <1>3 DEF G
<1> QED
  BY <1>4 DEF Shown, IsShown

LEMMA ShownDigit ==
  ASSUME NEW n \in 0 .. 9
  PROVE  Shown(n) = <<Digits[n + 1]>>
<1>1. PICK f : IsShown(f, n) /\ Shown(n) = f[n]
  BY ShownFunction
<1> QED
  BY <1>1 DEF IsShown

LEMMA ShownMore ==
  ASSUME NEW n \in Nat, n >= 10
  PROVE  Shown(n) = Append(Shown(n \div 10), Digits[(n % 10) + 1])
<1> DEFINE k == n \div 10
           Last(f, m) == IF m < 10 THEN <<Digits[m + 1]>>
                         ELSE Append(f[m \div 10], Digits[(m % 10) + 1])
<1>1. k \in Nat /\ k <= n
  BY Tenth
<1>2. PICK f : IsShown(f, n) /\ Shown(n) = f[n]
  BY ShownFunction
<1>3. PICK g : IsShown(g, k) /\ Shown(k) = g[k]
  BY <1>1, ShownFunction
<1>4. \A m \in 0 .. n : f[m] = Last(f, m)
  BY <1>2 DEF IsShown
<1>5. \A m \in 0 .. k : g[m] = Last(g, m)
  BY <1>3 DEF IsShown
<1> HIDE DEF k
<1> DEFINE G == {m \in Nat : m <= k => f[m] = g[m]}
<1>6. ASSUME NEW m \in Nat, \A j \in 0 .. m - 1 : j \in G PROVE m \in G
  <2> SUFFICES ASSUME m <= k PROVE f[m] = g[m]
    OBVIOUS
  <2>1. f[m] = Last(f, m) /\ g[m] = Last(g, m)
    BY <1>1, <1>4, <1>5
  <2>2. CASE m < 10
    BY <2>1, <2>2
  <2>3. CASE m >= 10
    <3>1. m \div 10 \in 0 .. m - 1 /\ m \div 10 <= k
      BY <1>1, <2>3, Tenth
    <3>2. f[m \div 10] = g[m \div 10]
      BY <1>6, <3>1
    <3> QED
      BY <2>1, <2>3, <3>2
  <2> QED
    BY <2>2, <2>3
<1> HIDE DEF G
<1>7. k \in G
  BY <1>1, <1>6, StrongInductionOnSet
<1>8. f[k] = g[k]
  BY <1>1, <1>7 DEF G
<1>9. f[n] = Append(f[k], Digits[(n % 10) + 1])
  <2>1. f[n] = Last(f, n)
    BY <1>4
  <2> QED
    BY <2>1 DEF k
<1> QED
  BY <1>2, <1>3, <1>8, <1>9 DEF k

-----------------------------------------------------------------------------
(* Digits and the numbers they stand for.                                     *)

LEMMA DigitOf ==
  ASSUME NEW n \in 0 .. 9
  PROVE  Digits[n + 1] \in Digit /\ DigitValue(Digits[n + 1]) = n
<1>1. \A i, j \in 1 .. 10 : Digits[i] = Digits[j] => i = j
  BY DEF Digits
<1>2. \A k \in 0 .. 9 : Digits[k + 1] = Digits[n + 1] => k = n
  BY <1>1
<1>3. n + 1 \in 1 .. 10
  OBVIOUS
<1> QED
  BY <1>2, <1>3 DEF Digit, DigitValue

LEMMA DigitValueType ==
  ASSUME NEW c \in Digit
  PROVE  DigitValue(c) \in 0 .. 9
<1>1. PICK i \in 1 .. 10 : c = Digits[i]
  BY DEF Digit
<1>2. i - 1 \in 0 .. 9 /\ c = Digits[(i - 1) + 1]
  BY <1>1
<1> QED
  BY <1>2, DigitOf

LEMMA DigitIsNoSign == "0" \in Digit /\ Digit \cap (Signs \cup {"."}) = {}
  BY DEF Digit, Digits, Signs

LEMMA NaturalType ==
  ASSUME NEW s \in Seq(Digit)
  PROVE  Natural(s) \in Nat
<1> DEFINE G == {t \in Seq(Digit) : Natural(t) \in Nat}
<1>1. <<>> \in G
  BY NaturalEmpty
<1>2. ASSUME NEW t \in Seq(Digit), NEW c \in Digit, t \in G PROVE Append(t, c) \in G
  <2>1. Natural(Append(t, c)) = 10 * Natural(t) + DigitValue(c)
    BY NaturalAppend
  <2>2. DigitValue(c) \in Nat
    BY DigitValueType
  <2> QED
    BY <1>2, <2>1, <2>2
<1> HIDE DEF G
<1>3. Seq(Digit) \subseteq G
  BY <1>1, <1>2, SeqInductionOnSet
<1> QED
  BY <1>3 DEF G

LEMMA MoveTen ==
  ASSUME NEW a \in Nat, NEW b \in Nat, NEW c \in Nat, NEW d \in Nat
  PROVE  10 * (a * b + c) + d = a * (10 * b) + (10 * c + d)
<1>1. a * (10 * b) = 10 * (a * b)
  OBVIOUS
<1>2. a * b \in Nat
  OBVIOUS
<1> QED
  BY <1>1, <1>2

\* Digits that follow others: the ones in front weigh a power of ten more.
LEMMA NaturalConcat ==
  ASSUME NEW s \in Seq(Digit), NEW t \in Seq(Digit)
  PROVE  Natural(s \o t) = Natural(s) * TenTo(Len(t)) + Natural(t)
<1> DEFINE G == {u \in Seq(Digit) : Natural(s \o u) = Natural(s) * TenTo(Len(u)) + Natural(u)}
<1>1. <<>> \in G
  <2>1. s \o <<>> = s /\ Len(<<>>) = 0 /\ <<>> \in Seq(Digit)
    OBVIOUS
  <2> QED
    BY <2>1, NaturalEmpty, TenToZero, NaturalType
<1>2. ASSUME NEW u \in Seq(Digit), NEW c \in Digit, u \in G PROVE Append(u, c) \in G
  <2>1. /\ s \o Append(u, c) = Append(s \o u, c)
        /\ s \o u \in Seq(Digit) /\ Append(u, c) \in Seq(Digit)
        /\ Len(u) \in Nat /\ Len(Append(u, c)) = Len(u) + 1
    OBVIOUS
  <2>2. Natural(s \o Append(u, c)) = 10 * Natural(s \o u) + DigitValue(c)
    BY <2>1, NaturalAppend
  <2>3. Natural(Append(u, c)) = 10 * Natural(u) + DigitValue(c)
    BY NaturalAppend
  <2>4. TenTo(Len(Append(u, c))) = 10 * TenTo(Len(u))
    BY <2>1, TenToNext
  <2>5. /\ Natural(s) \in Nat /\ Natural(u) \in Nat /\ TenTo(Len(u)) \in Nat
        /\ DigitValue(c) \in Nat
    <3>1. DigitValue(c) \in Nat
      BY DigitValueType
    <3> QED
      BY <2>1, <3>1, NaturalType, TenToType
  <2>6. Natural(s \o u) = Natural(s) * TenTo(Len(u)) + Natural(u)
    BY <1>2
  <2>7. 10 * (Natural(s) * TenTo(Len(u)) + Natural(u)) + DigitValue(c)
          = Natural(s) * (10 * TenTo(Len(u))) + (10 * Natural(u) + DigitValue(c))
    BY <2>5, MoveTen
  <2> QED
    BY <2>1, <2>2, <2>3, <2>4, <2>6, <2>7
<1> HIDE DEF G
<1>3. Seq(Digit) \subseteq G
  BY <1>1, <1>2, SeqInductionOnSet
<1> QED
  BY <1>3 DEF G

\* Zeros in front of a number leave it as it is.
LEMMA Zeros ==
  ASSUME NEW n \in Nat
  PROVE  /\ Repeat("0", n) \in Seq(Digit) /\ Len(Repeat("0", n)) = n
         /\ Natural(Repeat("0", n)) = 0
<1> DEFINE G == {k \in Nat : Natural(Repeat("0", k)) = 0}
<1>1. \A k \in Nat : Repeat("0", k) \in Seq(Digit) /\ Len(Repeat("0", k)) = k
  BY DigitIsNoSign DEF Repeat
<1>2. 0 \in G
  <2>1. Repeat("0", 0) = <<>>
    BY <1>1
  <2> QED
    BY <2>1, NaturalEmpty
<1>3. ASSUME NEW k \in Nat, k \in G PROVE k + 1 \in G
  <2>1. Repeat("0", k + 1) = Append(Repeat("0", k), "0")
    BY <1>1 DEF Repeat
  <2>2. Natural(Repeat("0", k + 1)) = 10 * Natural(Repeat("0", k)) + DigitValue("0")
    BY <1>1, <2>1, NaturalAppend, DigitIsNoSign
  <2>3. DigitValue("0") = 0
    <3>1. Digits[0 + 1] = "0"
      BY DEF Digits
    <3> QED
      BY <3>1, DigitOf
  <2> QED
    BY <1>3, <2>2, <2>3
<1> HIDE DEF G
<1>4. n \in G
  BY <1>2, <1>3, NatInductionOnSet
<1> QED
  BY <1>1, <1>4 DEF G

\* Shown writes digits, and Natural reads the number back from them.
LEMMA ShownReadsBack ==
  ASSUME NEW n \in Nat
  PROVE  Shown(n) \in Seq(Digit) /\ Shown(n) # <<>> /\ Natural(Shown(n)) = n
<1> DEFINE G == {k \in Nat : /\ Shown(k) \in Seq(Digit) /\ Shown(k) # <<>>
                             /\ Natural(Shown(k)) = k}
<1>1. ASSUME NEW k \in Nat, \A j \in 0 .. k - 1 : j \in G PROVE k \in G
  <2>1. CASE k < 10
    <3>1. Shown(k) = Append(<<>>, Digits[k + 1]) /\ <<>> \in Seq(Digit)
      BY <2>1, ShownDigit
    <3>2. Digits[k + 1] \in Digit /\ DigitValue(Digits[k + 1]) = k
      BY <2>1, DigitOf
    <3>3. Natural(Shown(k)) = k
      <4>1. Natural(Shown(k)) = 10 * Natural(<<>>) + DigitValue(Digits[k + 1])
        BY <3>1, <3>2, NaturalAppend
      <4> QED
        BY <3>2, <4>1, NaturalEmpty
    <3>4. Shown(k) \in Seq(Digit) /\ Shown(k) # <<>>
      <4>1. ASSUME NEW d \in Digit PROVE <<d>> \in Seq(Digit) /\ <<d>> # <<>>
        OBVIOUS
      <4>2. Shown(k) = <<Digits[k + 1]>>
        BY <2>1, ShownDigit
      <4> QED
        BY <3>2, <4>1, <4>2
    <3> QED
      BY <3>1, <3>3, <3>4
  <2>2. CASE k >= 10
    <3> DEFINE q == k \div 10
               r == k % 10
    <3>1. q \in 0 .. k - 1 /\ r \in 0 .. 9 /\ k = 10 * q + r
      BY <2>2, Tenth
    <3>2. Shown(k) = Append(Shown(q), Digits[r + 1])
      BY <2>2, ShownMore
    <3>3. q \in G
      BY <1>1, <3>1
    <3>4. Digits[r + 1] \in Digit /\ DigitValue(Digits[r + 1]) = r
      BY <3>1, DigitOf
    <3> HIDE DEF q, r
    <3>5. Natural(Shown(k)) = 10 * q + r
      BY <3>2, <3>3, <3>4, NaturalAppend
    <3> QED
      BY <3>1, <3>2, <3>3, <3>4, <3>5
  <2> QED
    BY <2>1, <2>2
<1> HIDE DEF G
<1>2. n \in G
  BY <1>1, StrongInductionOnSet
<1> QED
  BY <1>2 DEF G

-----------------------------------------------------------------------------
(* Sequences.                                                                 *)

LEMMA SeqOfLarger ==
  ASSUME NEW C, NEW D, C \subseteq D, NEW s \in Seq(C)
  PROVE  s \in Seq(D)
  OBVIOUS

LEMMA SameElements ==
  ASSUME NEW C, NEW s \in Seq(C), NEW t \in Seq(C), Len(s) = Len(t),
         \A i \in 1 .. Len(s) : s[i] = t[i]
  PROVE  s = t
  OBVIOUS

LEMMA ConcatWithEmpty ==
  ASSUME NEW C, NEW s \in Seq(C)
  PROVE  s \o <<>> = s /\ <<>> \o s = s
  OBVIOUS

LEMMA ConcatLength ==
  ASSUME NEW C, NEW a \in Seq(C), NEW b \in Seq(C)
  PROVE  /\ a \o b \in Seq(C) /\ Len(a \o b) = Len(a) + Len(b)
         /\ \A i \in 1 .. Len(a) : (a \o b)[i] = a[i]
         /\ \A i \in 1 .. Len(b) : (a \o b)[Len(a) + i] = b[i]
  OBVIOUS

LEMMA ConcatOne ==
  ASSUME NEW C, NEW c \in C, NEW s \in Seq(C)
  PROVE  <<c>> \o s # <<>> /\ Head(<<c>> \o s) = c /\ Tail(<<c>> \o s) = s
<1> DEFINE t == <<c>> \o s
<1>1. t \in Seq(C) /\ Len(t) = Len(s) + 1 /\ t[1] = c
  OBVIOUS
<1>2. \A i \in 1 .. Len(s) : t[i + 1] = s[i]
  OBVIOUS
<1> HIDE DEF t
<1>3. t # <<>> /\ Head(t) = c
  BY <1>1
<1>4. Tail(t) \in Seq(C) /\ Len(Tail(t)) = Len(s) /\ \A i \in 1 .. Len(s) : Tail(t)[i] = s[i]
  BY <1>1, <1>2
<1>5. Tail(t) = s
  BY <1>4, SameElements
<1> QED
  BY <1>3, <1>5 DEF t

\* The two parts of a sequence, before and after a place, make it up.
LEMMA SplitAt ==
  ASSUME NEW C, NEW s \in Seq(C), NEW k \in 0 .. Len(s)
  PROVE  /\ SubSeq(s, 1, k) \in Seq(C) /\ Len(SubSeq(s, 1, k)) = k
         /\ SubSeq(s, k + 1, Len(s)) \in Seq(C) /\ Len(SubSeq(s, k + 1, Len(s))) = Len(s) - k
         /\ \A i \in 1 .. k : SubSeq(s, 1, k)[i] = s[i]
         /\ \A i \in 1 .. Len(s) - k : SubSeq(s, k + 1, Len(s))[i] = s[k + i]
         /\ SubSeq(s, 1, k) \o SubSeq(s, k + 1, Len(s)) = s
<1> DEFINE a == SubSeq(s, 1, k)
           b == SubSeq(s, k + 1, Len(s))
<1>1. a \in Seq(C) /\ Len(a) = k /\ \A i \in 1 .. k : a[i] = s[i]
  OBVIOUS
<1>2. /\ b \in Seq(C) /\ Len(b) = Len(s) - k
      /\ \A i \in 1 .. Len(s) - k : b[i] = s[k + i]
  OBVIOUS
<1> HIDE DEF a, b
<1> DEFINE n == Len(s)
<1>0. n \in Nat /\ k \in Nat /\ k <= n /\ n - k \in Nat /\ k + (n - k) = n
  OBVIOUS
<1> HIDE DEF n
<1>3. /\ a \o b \in Seq(C) /\ Len(a \o b) = n
      /\ \A i \in 1 .. k : (a \o b)[i] = a[i]
      /\ \A i \in 1 .. n - k : (a \o b)[k + i] = b[i]
  <2>1. /\ a \o b \in Seq(C) /\ Len(a \o b) = Len(a) + Len(b)
        /\ \A i \in 1 .. Len(a) : (a \o b)[i] = a[i]
        /\ \A i \in 1 .. Len(b) : (a \o b)[Len(a) + i] = b[i]
    BY <1>1, <1>2, ConcatLength
  <2>2. Len(b) = n - k
    BY <1>2 DEF n
  <2> QED
    BY <1>0, <1>1, <2>1, <2>2
<1>4. ASSUME NEW i \in 1 .. n PROVE (a \o b)[i] = s[i]
  <2>1. i \in 1 .. k \/ (i - k \in 1 .. n - k /\ k + (i - k) = i)
    BY <1>0
  <2>2. CASE i \in 1 .. k
    BY <1>1, <1>3, <2>2
  <2>3. CASE i - k \in 1 .. n - k /\ k + (i - k) = i
    <3>1. (a \o b)[k + (i - k)] = b[i - k] /\ b[i - k] = s[k + (i - k)]
      BY <1>2, <1>3, <2>3 DEF n
    <3> QED
      BY <2>3, <3>1
  <2> QED
    BY <2>1, <2>2, <2>3
<1>5. a \o b = s
  BY <1>3, <1>4, SameElements DEF n
<1> QED
  BY <1>1, <1>2, <1>5 DEF a, b

-----------------------------------------------------------------------------
(* Texts with a sign and a point.                                             *)

LEMMA DigitsAreInteger ==
  ASSUME NEW a \in Seq(Digit), a # <<>>
  PROVE  ~Signed(a) /\ Sign(a) = 1 /\ IsInteger(a) /\ IntegerOf(a) = Natural(a)
<1>1. Head(a) \in Digit /\ \A i \in 1 .. Len(a) : a[i] \in Digit
  OBVIOUS
<1>2. ~Signed(a)
  BY <1>1, DigitIsNoSign DEF Signed
<1>3. Unsigned(a) = a /\ Sign(a) = 1
  BY <1>2 DEF Unsigned, Sign
<1>4. IntegerOf(a) = 1 * Natural(a)
  BY <1>3 DEF IntegerOf
<1> QED
  BY <1>1, <1>2, <1>3, <1>4, NaturalType DEF IsInteger

LEMMA UnsignedType ==
  ASSUME NEW text \in Seq(STRING)
  PROVE  Unsigned(text) \in Seq(STRING) /\ Sign(text) \in {-1, 1}
<1>1. text # <<>> => Tail(text) \in Seq(STRING)
  OBVIOUS
<1>2. Unsigned(text) \in Seq(STRING)
  BY <1>1 DEF Unsigned, Signed
<1>3. Sign(text) \in {-1, 1}
  BY DEF Sign
<1> QED
  BY <1>2, <1>3

LEMMA NoPoint ==
  ASSUME NEW a \in Seq(Digit)
  PROVE  IntPart(a) = a /\ FracPart(a) = <<>>
<1>1. Dots(a) = {}
  BY DigitIsNoSign DEF Dots
<1> QED
  BY <1>1 DEF IntPart, FracPart

LEMMA OnePoint ==
  ASSUME NEW a \in Seq(Digit), NEW b \in Seq(Digit)
  PROVE  IntPart(a \o <<".">> \o b) = a /\ FracPart(a \o <<".">> \o b) = b
<1> DEFINE u == a \o <<".">> \o b
           m == Len(a)
           n == Len(b)
<1>1. /\ m \in Nat /\ n \in Nat /\ Len(u) = m + 1 + n
      /\ \A i \in 1 .. m : u[i] = a[i]
      /\ u[m + 1] = "."
      /\ \A i \in 1 .. n : u[m + 1 + i] = b[i]
  OBVIOUS
<1>2. u \in Seq(Digit \cup {"."})
  OBVIOUS
<1>3. (\A i \in 1 .. m : a[i] \in Digit) /\ \A i \in 1 .. n : b[i] \in Digit
  OBVIOUS
<1> HIDE DEF u, m, n
<1>4. ASSUME NEW i \in 1 .. Len(u), u[i] = "." PROVE i = m + 1
  <2>1. CASE i <= m
    BY <1>1, <1>3, <1>4, <2>1, DigitIsNoSign
  <2>2. CASE i > m + 1
    <3>1. i - (m + 1) \in 1 .. n /\ m + 1 + (i - (m + 1)) = i
      BY <1>1, <2>2
    <3> QED
      BY <1>1, <1>3, <1>4, <3>1, DigitIsNoSign
  <2> QED
    BY <1>1, <2>1, <2>2
<1>5. Dots(u) = {m + 1}
  BY <1>1, <1>4 DEF Dots
<1>6. FirstDot(u) = m + 1
  BY <1>1, <1>5 DEF FirstDot
<1>7. SubSeq(u, 1, m) = a
  BY <1>1, <1>2 DEF m
<1>8. SubSeq(u, m + 2, Len(u)) = b
  BY <1>1, <1>2 DEF n
<1>9. IntPart(u) = SubSeq(u, 1, (m + 1) - 1) /\ FracPart(u) = SubSeq(u, (m + 1) + 1, Len(u))
  BY <1>5, <1>6 DEF IntPart, FracPart
<1>10. (m + 1) - 1 = m /\ (m + 1) + 1 = m + 2
  BY <1>1
<1>11. IntPart(u) = a /\ FracPart(u) = b
  BY <1>7, <1>8, <1>9, <1>10
<1> QED
  BY <1>11 DEF u

-----------------------------------------------------------------------------
(* What parse_numeric makes of a number.                                      *)

\* Digits padded with zeros to a scale: the ones before the point weigh TenTo(scale).
LEMMA PaddedDigits ==
  ASSUME NEW scale \in Nat, NEW int \in Seq(Digit), NEW frac \in Seq(Digit),
         int # <<>>, Len(frac) <= scale
  PROVE  LET digits == int \o frac \o Repeat("0", scale - Len(frac))
         IN  /\ digits \in Seq(Digit) /\ digits # <<>>
             /\ Natural(digits)
                  = Natural(int) * TenTo(scale) + Natural(frac) * TenTo(scale - Len(frac))
<1> DEFINE zeros == Repeat("0", scale - Len(frac))
           digits == int \o frac \o zeros
<1>1. Len(frac) \in Nat /\ scale - Len(frac) \in Nat
  OBVIOUS
<1>2. zeros \in Seq(Digit) /\ Len(zeros) = scale - Len(frac) /\ Natural(zeros) = 0
  BY <1>1, Zeros
<1> HIDE DEF zeros
<1>3. /\ digits = int \o (frac \o zeros)
      /\ frac \o zeros \in Seq(Digit) /\ Len(frac \o zeros) = scale
      /\ digits \in Seq(Digit) /\ digits # <<>>
  BY <1>1, <1>2
<1> HIDE DEF digits
<1>4. Natural(digits) = Natural(int) * TenTo(scale) + Natural(frac \o zeros)
  BY <1>3, NaturalConcat
<1>5. Natural(frac \o zeros) = Natural(frac) * TenTo(scale - Len(frac)) + 0
  BY <1>2, NaturalConcat
<1>6. Natural(frac) * TenTo(scale - Len(frac)) \in Nat
  <2>1. Natural(frac) \in Nat /\ TenTo(scale - Len(frac)) \in Nat
    BY <1>1, NaturalType, TenToType
  <2> QED
    BY <2>1
<1> QED
  BY <1>3, <1>4, <1>5, <1>6 DEF digits, zeros

\* Where the two parts of a text are digits, its number is the one of the padded digits.
LEMMA ParseDigits ==
  ASSUME NEW text, NEW scale \in Nat, NEW digits \in Seq(Digit), digits # <<>>,
         ~(Len(FracPart(Unsigned(text))) > scale),
         digits = IntPart(Unsigned(text)) \o FracPart(Unsigned(text))
                    \o Repeat("0", scale - Len(FracPart(Unsigned(text))))
  PROVE  ParseNumeric(text, scale) = {[value |-> Sign(text) * Natural(digits), scale |-> scale]}
<1>1. IsInteger(digits) /\ IntegerOf(digits) = Natural(digits)
  BY DigitsAreInteger
<1> QED
  BY <1>1 DEF ParseNumeric

LEMMA NumberParts ==
  ASSUME NEW text \in Seq(STRING), IsNumber(text)
  PROVE  /\ IntPart(Unsigned(text)) \in Seq(Digit) /\ IntPart(Unsigned(text)) # <<>>
         /\ FracPart(Unsigned(text)) \in Seq(Digit)
<1> DEFINE u == Unsigned(text)
<1>1. /\ \A i, j \in Dots(u) : i = j
      /\ IntPart(u) # <<>>
      /\ \A i \in 1 .. Len(u) : u[i] \in Digit \cup {"."}
  BY DEF IsNumber
<1>2. u \in Seq(STRING)
  BY UnsignedType
<1> HIDE DEF u
<1>3. CASE Dots(u) = {}
  <2>1. \A i \in 1 .. Len(u) : u[i] \in Digit
    BY <1>1, <1>3 DEF Dots
  <2>2. u \in Seq(Digit) /\ <<>> \in Seq(Digit)
    BY <1>2, <2>1
  <2> QED
    BY <1>1, <1>3, <2>2 DEF IntPart, FracPart, u
<1>4. CASE Dots(u) # {}
  <2>1. PICK d \in Dots(u) : \A j \in Dots(u) : j = d
    BY <1>1, <1>4
  <2>2. d \in 1 .. Len(u) /\ Len(u) \in Nat
    BY <1>2, <2>1 DEF Dots
  <2>3. \A i \in 1 .. Len(u) : i # d => u[i] \in Digit
    BY <1>1, <2>1 DEF Dots
  <2>4. FirstDot(u) = d
    <3>1. \A i \in Dots(u) : (\A j \in Dots(u) : i <= j) <=> i = d
      BY <2>1, <2>2
    <3> QED
      BY <3>1, <2>1 DEF FirstDot
  <2>5. SubSeq(u, 1, d - 1) \in Seq(Digit) /\ SubSeq(u, d + 1, Len(u)) \in Seq(Digit)
    BY <1>2, <2>2, <2>3
  <2> QED
    BY <1>1, <1>4, <2>4, <2>5 DEF IntPart, FracPart, u
<1> QED
  BY <1>3, <1>4

\* parse_numeric takes a number exactly as it is written, for any digits and any scale, and
\* refuses it exactly when it has more decimal places than the scale: nothing is rounded or cut.
THEOREM ParseIsExact ==
  ASSUME NEW text \in Seq(STRING), IsNumber(text), NEW scale \in Nat
  PROVE  ParseNumeric(text, scale) =
           IF Len(FracPart(Unsigned(text))) <= scale
           THEN {[value |-> Written(text, scale), scale |-> scale]} ELSE {}
<1> DEFINE int == IntPart(Unsigned(text))
           frac == FracPart(Unsigned(text))
<1>1. int \in Seq(Digit) /\ int # <<>> /\ frac \in Seq(Digit)
  BY NumberParts
<1>2. CASE Len(frac) <= scale
  <2>1. Written(text, scale)
          = Sign(text) * (Natural(int) * TenTo(scale) + Natural(frac) * TenTo(scale - Len(frac)))
    BY DEF Written
  <2> DEFINE digits == int \o frac \o Repeat("0", scale - Len(frac))
  <2>2. /\ digits \in Seq(Digit) /\ digits # <<>>
        /\ Natural(digits)
             = Natural(int) * TenTo(scale) + Natural(frac) * TenTo(scale - Len(frac))
    <3> HIDE DEF int, frac
    <3> QED
      BY <1>1, <1>2, PaddedDigits
  <2>3. ~(Len(frac) > scale)
    BY <1>1, <1>2
  <2> HIDE DEF digits
  <2>4. ParseNumeric(text, scale) = {[value |-> Sign(text) * Natural(digits), scale |-> scale]}
    BY <2>2, <2>3, ParseDigits DEF digits
  <2> QED
    BY <1>2, <2>1, <2>2, <2>4
<1>3. CASE ~(Len(frac) <= scale)
  <2>1. Len(frac) > scale
    BY <1>1, <1>3
  <2> QED
    BY <1>3, <2>1 DEF ParseNumeric
<1> QED
  BY <1>2, <1>3

\* Digits are worth less than the power of ten of their number.
LEMMA NaturalBound ==
  ASSUME NEW s \in Seq(Digit)
  PROVE  Natural(s) < TenTo(Len(s))
<1> DEFINE G == {t \in Seq(Digit) : Natural(t) < TenTo(Len(t))}
<1>1. <<>> \in G
  <2>1. Len(<<>>) = 0 /\ <<>> \in Seq(Digit)
    OBVIOUS
  <2> QED
    BY <2>1, NaturalEmpty, TenToZero
<1>2. ASSUME NEW t \in Seq(Digit), NEW c \in Digit, t \in G PROVE Append(t, c) \in G
  <2>1. Append(t, c) \in Seq(Digit) /\ Len(t) \in Nat /\ Len(Append(t, c)) = Len(t) + 1
    OBVIOUS
  <2>2. Natural(Append(t, c)) = 10 * Natural(t) + DigitValue(c)
    BY NaturalAppend
  <2>3. TenTo(Len(t) + 1) = 10 * TenTo(Len(t))
    BY <2>1, TenToNext
  <2>4. Natural(t) \in Nat /\ TenTo(Len(t)) \in Nat /\ DigitValue(c) \in 0 .. 9
    <3>1. DigitValue(c) \in 0 .. 9
      BY DigitValueType
    <3> QED
      BY <2>1, <3>1, NaturalType, TenToType
  <2> QED
    BY <1>2, <2>1, <2>2, <2>3, <2>4
<1> HIDE DEF G
<1>3. Seq(Digit) \subseteq G
  BY <1>1, <1>2, SeqInductionOnSet
<1> QED
  BY <1>3 DEF G

LEMMA TenToGrows ==
  ASSUME NEW m \in Nat, NEW n \in Nat, m <= n
  PROVE  TenTo(m) <= TenTo(n)
<1> DEFINE G == {k \in Nat : TenTo(m) <= TenTo(m + k)}
<1>1. 0 \in G
  BY TenToType
<1>2. ASSUME NEW k \in Nat, k \in G PROVE k + 1 \in G
  <2>1. m + k \in Nat /\ m + (k + 1) = (m + k) + 1
    OBVIOUS
  <2>2. TenTo((m + k) + 1) = 10 * TenTo(m + k)
    BY <2>1, TenToNext
  <2>3. TenTo(m) \in Nat /\ TenTo(m + k) \in Nat
    BY <2>1, TenToType
  <2> QED
    BY <1>2, <2>1, <2>2, <2>3
<1> HIDE DEF G
<1>3. n - m \in Nat /\ m + (n - m) = n
  OBVIOUS
<1>4. n - m \in G
  BY <1>1, <1>2, <1>3, NatInductionOnSet
<1> QED
  BY <1>3, <1>4 DEF G

\* What parse_numeric makes of a number that a decimal(precision, scale) can hold has no more
\* than precision digits.  SQL Server's precision is at most 38, and 10^38 fits the i128 that
\* the code computes with: no such number overflows it.
THEOREM ParsedFits ==
  ASSUME NEW text \in Seq(STRING), IsNumber(text), NEW scale \in Nat, NEW precision \in Nat,
         Len(IntPart(Unsigned(text))) + scale <= precision,
         NEW x \in ParseNumeric(text, scale)
  PROVE  x.value < TenTo(precision) /\ -x.value < TenTo(precision)
<1> DEFINE int == IntPart(Unsigned(text))
           frac == FracPart(Unsigned(text))
           zeros == Repeat("0", scale - Len(frac))
           digits == int \o frac \o zeros
<1>1. int \in Seq(Digit) /\ int # <<>> /\ frac \in Seq(Digit)
  BY NumberParts
<1>2. Len(frac) <= scale
  BY ParseIsExact
<1>3. scale - Len(frac) \in Nat /\ Len(frac) \in Nat /\ Len(int) \in Nat
  <2> HIDE DEF int, frac
  <2> QED
    BY <1>1, <1>2
<1>4. zeros \in Seq(Digit) /\ Len(zeros) = scale - Len(frac)
  BY <1>3, Zeros
<1>5. /\ digits \in Seq(Digit) /\ digits # <<>>
      /\ Len(digits) = Len(int) + scale
  <2> HIDE DEF int, frac, zeros
  <2> DEFINE front == int \o frac
  <2>1. front \in Seq(Digit) /\ Len(front) = Len(int) + Len(frac)
    BY <1>1
  <2>2. digits \in Seq(Digit) /\ Len(digits) = Len(int) + Len(frac) + Len(zeros)
    <3>1. digits = front \o zeros
      OBVIOUS
    <3> HIDE DEF front, digits
    <3>2. zeros \in Seq(Digit)
      BY <1>4
    <3>3. front \o zeros \in Seq(Digit) /\ Len(front \o zeros) = Len(front) + Len(zeros)
      BY <2>1, <3>2
    <3> QED
      BY <2>1, <3>1, <3>3
  <2>3. Len(int) # 0
    BY <1>1
  <2> HIDE DEF digits
  <2> QED
    BY <1>3, <1>4, <2>2, <2>3
<1>6. ParseNumeric(text, scale) = {[value |-> Sign(text) * Natural(digits), scale |-> scale]}
  <2>1. ~(Len(frac) > scale)
    BY <1>2, <1>3
  <2> HIDE DEF digits
  <2> QED
    BY <1>5, <2>1, ParseDigits DEF digits
<1>7. x.value = Sign(text) * Natural(digits) /\ Sign(text) \in {-1, 1}
  BY <1>6, UnsignedType
<1>8. Natural(digits) \in Nat /\ Natural(digits) < TenTo(precision)
  <2>1. Natural(digits) < TenTo(Len(digits)) /\ Natural(digits) \in Nat
    <3> HIDE DEF digits
    <3> QED
      BY <1>5, NaturalBound, NaturalType
  <2>2. Len(digits) \in Nat /\ Len(digits) <= precision
    <3> HIDE DEF digits
    <3> QED
      BY <1>3, <1>5
  <2>3. TenTo(Len(digits)) <= TenTo(precision)
    <3> HIDE DEF digits
    <3> QED
      BY <2>2, TenToGrows
  <2>4. TenTo(precision) \in Nat /\ TenTo(Len(digits)) \in Nat
    <3> HIDE DEF digits
    <3> QED
      BY <2>2, TenToType
  <2> HIDE DEF digits
  <2> QED
    BY <2>1, <2>3, <2>4
<1>9. TenTo(precision) \in Nat
  BY TenToType
<1> HIDE DEF digits
<1> QED
  BY <1>7, <1>8, <1>9

\* A JSON number that parse_numeric takes has digits and a point, and no exponent.
LEMMA ParsedJsonIsNumber ==
  ASSUME NEW text \in Seq(STRING), JsonNumber(text), NEW scale \in Nat,
         ParseNumeric(text, scale) # {}
  PROVE  IsNumber(text)
<1> DEFINE u == Unsigned(text)
           int == IntPart(u)
           frac == FracPart(u)
           zeros == Repeat("0", scale - Len(frac))
           digits == int \o frac \o zeros
<1>1. u \in Seq(STRING) /\ u # <<>> /\ Head(u) \in Digit
  BY UnsignedType DEF JsonNumber
<1>2. ~(Len(frac) > scale) /\ (digits = <<>> \/ IsInteger(digits))
  BY DEF ParseNumeric
<1> HIDE DEF u
<1>3. u[1] \in Digit /\ Len(u) \in Nat /\ Len(u) >= 1
  BY <1>1
<1>4. ASSUME int \in Seq(STRING), frac \in Seq(STRING), int # <<>>, int[1] \in Digit
      PROVE  /\ \A i \in 1 .. Len(int) : int[i] \in Digit
             /\ \A i \in 1 .. Len(frac) : frac[i] \in Digit
  <2> HIDE DEF int, frac
  <2>1. Len(frac) \in Nat /\ scale - Len(frac) \in Nat
    BY <1>2, <1>4
  <2>2. zeros \in Seq(Digit)
    BY <2>1, Zeros
  <2> HIDE DEF zeros
  <2>3. /\ zeros \in Seq(STRING \cup Digit) /\ int \in Seq(STRING \cup Digit)
        /\ frac \in Seq(STRING \cup Digit)
    BY <1>4, <2>2, SeqOfLarger
  <2>4. /\ digits \in Seq(STRING \cup Digit) /\ digits # <<>> /\ Head(digits) = int[1]
        /\ Len(digits) = Len(int) + Len(frac) + Len(zeros)
        /\ \A i \in 1 .. Len(int) : digits[i] = int[i]
        /\ \A i \in 1 .. Len(frac) : digits[Len(int) + i] = frac[i]
        /\ Len(int) \in Nat /\ Len(frac) \in Nat /\ Len(zeros) \in Nat
    BY <1>4, <2>3
  <2>5. IsInteger(digits)
    BY <1>2, <2>4
  <2> HIDE DEF digits
  <2>6. ~Signed(digits)
    BY <1>4, <2>4, DigitIsNoSign DEF Signed
  <2>7. \A i \in 1 .. Len(digits) : digits[i] \in Digit
    BY <2>5, <2>6 DEF IsInteger, Unsigned
  <2>8. \A i \in 1 .. Len(frac) : Len(int) + i \in 1 .. Len(digits)
    BY <2>4
  <2>9. \A i \in 1 .. Len(int) : i \in 1 .. Len(digits)
    BY <2>4
  <2> QED
    BY <2>4, <2>7, <2>8, <2>9
<1>5. CASE Dots(u) = {}
  <2>1. int = u /\ frac = <<>>
    BY <1>5 DEF IntPart, FracPart
  <2>2. \A i \in 1 .. Len(u) : u[i] \in Digit
    BY <1>1, <1>3, <1>4, <2>1
  <2> QED
    BY <1>1, <1>5, <2>1, <2>2 DEF IsNumber, u
<1>6. CASE Dots(u) # {}
  <2>1. PICK d \in Dots(u) : \A j \in Dots(u) : d <= j
    <3>1. Dots(u) \subseteq Nat
      BY DEF Dots
    <3> QED
      BY <1>6, <3>1, LeastNatural
  <2>2. d \in 1 .. Len(u) /\ u[d] = "."
    BY <2>1 DEF Dots
  <2>3. FirstDot(u) = d
    <3>1. \A i \in Dots(u) : i \in Nat
      BY DEF Dots
    <3>2. \A i \in Dots(u) : (\A j \in Dots(u) : i <= j) => i = d
      BY <2>1, <3>1
    <3> QED
      BY <2>1, <3>2 DEF FirstDot
  <2>4. d - 1 \in Nat /\ d - 1 >= 1
    BY <1>3, <2>2, DigitIsNoSign
  <2>5. int = SubSeq(u, 1, d - 1) /\ frac = SubSeq(u, d + 1, Len(u))
    BY <1>6, <2>3 DEF IntPart, FracPart
  <2>6. /\ int \in Seq(STRING) /\ Len(int) = d - 1 /\ int # <<>>
        /\ \A i \in 1 .. d - 1 : int[i] = u[i]
    <3>1. /\ SubSeq(u, 1, d - 1) \in Seq(STRING) /\ Len(SubSeq(u, 1, d - 1)) = d - 1
          /\ \A i \in 1 .. d - 1 : SubSeq(u, 1, d - 1)[i] = u[i]
      BY <1>1, <1>3, <2>2, <2>4
    <3>2. /\ int \in Seq(STRING) /\ Len(int) = d - 1
          /\ \A i \in 1 .. d - 1 : int[i] = u[i]
      BY <2>5, <3>1
    <3> HIDE DEF int
    <3> QED
      BY <2>4, <3>2
  <2>7. /\ frac \in Seq(STRING) /\ Len(frac) = Len(u) - d
        /\ \A i \in 1 .. Len(u) - d : frac[i] = u[d + i]
    BY <1>1, <1>3, <2>2, <2>5
  <2>8. /\ \A i \in 1 .. Len(int) : int[i] \in Digit
        /\ \A i \in 1 .. Len(frac) : frac[i] \in Digit
    BY <1>3, <1>4, <2>4, <2>6, <2>7
  <2> HIDE DEF int, frac, digits, zeros
  <2>9. ASSUME NEW i \in 1 .. Len(u), i # d PROVE u[i] \in Digit
    <3>1. CASE i < d
      BY <1>3, <2>2, <2>6, <2>8, <3>1
    <3>2. CASE i > d
      <4>1. i - d \in 1 .. Len(frac) /\ d + (i - d) = i
        BY <1>3, <2>2, <2>7, <3>2
      <4> QED
        BY <2>7, <2>8, <4>1
    <3> QED
      BY <2>2, <2>9, <3>1, <3>2
  <2>10. \A i \in Dots(u) : i = d
    BY <2>9, DigitIsNoSign DEF Dots
  <2>11. \A i \in 1 .. Len(u) : u[i] \in Digit \cup {"."}
    BY <2>2, <2>9
  <2> QED
    BY <2>6, <2>10, <2>11 DEF IsNumber, u, int
<1> QED
  BY <1>5, <1>6

\* format_numeric writes what parse_numeric reads back, for any number and any scale: the sign
\* of -0.5, the zeros of 0.05 and the digits before the point all survive.
THEOREM NumericReadsBack ==
  ASSUME NEW value \in Int, NEW scale \in Nat
  PROVE  ParseNumeric(FormatNumeric([value |-> value, scale |-> scale]), scale)
           = {[value |-> value, scale |-> scale]}
<1> DEFINE m == IF value < 0 THEN -value ELSE value
           shown == Shown(m)
           zeros == Repeat("0", scale + 1 - Len(shown))
           padded == zeros \o shown
           split == Len(padded) - scale
           int == SubSeq(padded, 1, split)
           frac == SubSeq(padded, split + 1, Len(padded))
           point == IF scale = 0 THEN <<>> ELSE <<".">>
           body == int \o point \o frac
           text == IF value < 0 THEN <<"-">> \o body ELSE body
<1>1. FormatNumeric([value |-> value, scale |-> scale]) = text
  BY DEF FormatNumeric
<1>2. m \in Nat
  OBVIOUS
<1> HIDE DEF m
<1>3. shown \in Seq(Digit) /\ shown # <<>> /\ Natural(shown) = m /\ Len(shown) \in Nat
  BY <1>2, ShownReadsBack
<1> HIDE DEF shown
<1>4. /\ zeros \in Seq(Digit) /\ Natural(zeros) = 0 /\ Len(zeros) \in Nat
      /\ Len(zeros) + Len(shown) >= scale + 1
  <2>1. CASE scale + 1 - Len(shown) \in Nat
    <3>1. zeros \in Seq(Digit) /\ Natural(zeros) = 0 /\ Len(zeros) = scale + 1 - Len(shown)
      BY <2>1, Zeros
    <3> QED
      BY <1>3, <2>1, <3>1
  <2>2. CASE scale + 1 - Len(shown) < 0
    <3>1. zeros = <<>> /\ <<>> \in Seq(Digit)
      BY <1>3, <2>2 DEF Repeat
    <3> HIDE DEF zeros
    <3> QED
      BY <1>3, <2>2, <3>1, NaturalEmpty
  <2> QED
    BY <1>3, <2>1, <2>2
<1> HIDE DEF zeros
<1>5. padded \in Seq(Digit) /\ Len(padded) \in Nat /\ Len(padded) >= scale + 1
  BY <1>3, <1>4
<1>6. Natural(padded) = m
  <2>1. Natural(padded) = Natural(zeros) * TenTo(Len(shown)) + Natural(shown)
    BY <1>3, <1>4, NaturalConcat
  <2>2. TenTo(Len(shown)) \in Nat
    BY <1>3, TenToType
  <2> QED
    BY <1>2, <1>3, <1>4, <2>1, <2>2
<1> HIDE DEF padded
<1>7. /\ int \in Seq(Digit) /\ int # <<>> /\ frac \in Seq(Digit) /\ Len(frac) = scale
      /\ int \o frac = padded
  <2>1. split \in 0 .. Len(padded) /\ split >= 1 /\ Len(padded) - split = scale
    BY <1>5
  <2> HIDE DEF split
  <2>2. /\ int \in Seq(Digit) /\ Len(int) = split /\ frac \in Seq(Digit)
        /\ Len(frac) = Len(padded) - split /\ int \o frac = padded
    BY <1>5, <2>1, SplitAt
  <2> HIDE DEF int, frac
  <2> QED
    BY <2>1, <2>2
<1> HIDE DEF int, frac, split
<1> DEFINE Chars == Digit \cup {"-", "."}
<1>8. /\ int \in Seq(Chars) /\ frac \in Seq(Chars) /\ int[1] \in Digit
      /\ point \in Seq(Chars)
  <2>1. int \in Seq(Chars) /\ frac \in Seq(Chars)
    BY <1>7, SeqOfLarger
  <2>2. int[1] \in Digit
    BY <1>7
  <2>3. <<".">> \in Seq(Chars) /\ <<>> \in Seq(Chars)
    OBVIOUS
  <2> HIDE DEF Chars
  <2> QED
    BY <2>1, <2>2, <2>3
<1> HIDE DEF Chars, point
<1>9. body \in Seq(Chars) /\ body # <<>> /\ Head(body) \in Digit
  <2> HIDE DEF text
  <2>1. int \in Seq(Chars) /\ Len(int) \in Nat /\ Len(int) >= 1
    BY <1>7, <1>8
  <2>2. int \o point \in Seq(Chars) /\ Len(int \o point) >= 1 /\ (int \o point)[1] = int[1]
    BY <1>8, <2>1
  <2>3. body \in Seq(Chars) /\ Len(body) >= 1 /\ body[1] = int[1]
    BY <1>8, <2>2
  <2> HIDE DEF body
  <2> QED
    BY <1>8, <2>3
<1>10. IntPart(body) = int /\ FracPart(body) = frac
  <2>1. CASE scale = 0
    <3>1. frac = <<>> /\ point = <<>>
      BY <1>7, <2>1 DEF point
    <3>2. body = int
      BY <1>7, <3>1
    <3> QED
      BY <1>7, <3>1, <3>2, NoPoint
  <2>2. CASE scale # 0
    BY <1>7, <2>2, OnePoint DEF point
  <2> QED
    BY <2>1, <2>2
<1> HIDE DEF body
<1>11. Unsigned(text) = body /\ Sign(text) * m = value
  <2>1. CASE value < 0
    <3>1. Head(text) = "-" /\ text # <<>> /\ Tail(text) = body
      <4>1. text = <<"-">> \o body
        BY <2>1
      <4>2. "-" \in Chars
        BY DEF Chars
      <4> HIDE DEF text
      <4> QED
        BY <1>9, <4>1, <4>2, ConcatOne
    <3> HIDE DEF text
    <3> QED
      BY <2>1, <3>1 DEF Unsigned, Signed, Sign, Signs, m
  <2>2. CASE ~(value < 0)
    <3>1. text = body
      BY <2>2
    <3> HIDE DEF text
    <3>2. ~Signed(text)
      BY <1>9, <3>1, DigitIsNoSign DEF Signed
    <3> QED
      BY <2>2, <3>1, <3>2 DEF Unsigned, Sign, m
  <2> QED
    BY <2>1, <2>2
<1> HIDE DEF text
<1>12. int \o frac \o Repeat("0", scale - Len(frac)) = padded
  <2>1. scale - Len(frac) = 0
    BY <1>7
  <2>2. Repeat("0", 0) = <<>>
    BY DEF Repeat
  <2> QED
    BY <1>5, <1>7, <2>1, <2>2, ConcatWithEmpty
<1>13. ~(Len(frac) > scale) /\ padded # <<>>
  BY <1>5, <1>7
<1>14. ParseNumeric(text, scale) = {[value |-> Sign(text) * Natural(padded), scale |-> scale]}
  <2>1. padded = IntPart(Unsigned(text)) \o FracPart(Unsigned(text))
                   \o Repeat("0", scale - Len(FracPart(Unsigned(text))))
    BY <1>10, <1>11, <1>12
  <2>2. ~(Len(FracPart(Unsigned(text))) > scale)
    BY <1>10, <1>11, <1>13
  <2> QED
    BY <1>5, <1>13, <2>1, <2>2, ParseDigits
<1> QED
  BY <1>1, <1>6, <1>11, <1>14

-----------------------------------------------------------------------------
(* The columns of an answer.                                                  *)

LEMMA PartsType ==
  ASSUME NEW u \in Seq(STRING)
  PROVE  IntPart(u) \in Seq(STRING) /\ FracPart(u) \in Seq(STRING)
<1>1. CASE Dots(u) = {}
  BY <1>1 DEF IntPart, FracPart
<1>2. CASE Dots(u) # {}
  <2>1. PICK d \in Dots(u) : \A j \in Dots(u) : d <= j
    <3>1. Dots(u) \subseteq Nat
      BY DEF Dots
    <3> QED
      BY <1>2, <3>1, LeastNatural
  <2>2. FirstDot(u) \in 1 .. Len(u)
    <3>1. FirstDot(u) \in Dots(u)
      BY <2>1 DEF FirstDot
    <3> QED
      BY <3>1 DEF Dots
  <2>3. Len(u) \in Nat
    OBVIOUS
  <2>4. SubSeq(u, 1, FirstDot(u) - 1) \in Seq(STRING)
    BY <2>2, <2>3
  <2>5. SubSeq(u, FirstDot(u) + 1, Len(u)) \in Seq(STRING)
    BY <2>2, <2>3
  <2> QED
    BY <1>2, <2>4, <2>5 DEF IntPart, FracPart
<1> QED
  BY <1>1, <1>2

LEMMA IntegerType ==
  ASSUME NEW C, NEW s \in Seq(C), IsInteger(s)
  PROVE  IntegerOf(s) \in Int
<1>1. Unsigned(s) \in Seq(C)
  BY DEF Unsigned, Signed
<1>2. Unsigned(s) \in Seq(Digit)
  BY <1>1 DEF IsInteger
<1>3. Natural(Unsigned(s)) \in Nat
  BY <1>2, NaturalType
<1>4. Sign(s) \in {-1, 1}
  BY DEF Sign
<1> QED
  BY <1>3, <1>4 DEF IntegerOf

\* parse_numeric returns a number of the scale, or none.
LEMMA ParsedType ==
  ASSUME NEW text \in Seq(STRING), NEW scale \in Nat, NEW x \in ParseNumeric(text, scale)
  PROVE  x.value \in Int /\ x = [value |-> x.value, scale |-> scale]
           /\ ParseNumeric(text, scale) = {x}
<1> DEFINE int == IntPart(Unsigned(text))
           frac == FracPart(Unsigned(text))
           zeros == Repeat("0", scale - Len(frac))
           digits == int \o frac \o zeros
           unscaled == IF digits = <<>> THEN 0 ELSE IntegerOf(digits)
<1>1. ~(Len(frac) > scale) /\ (digits = <<>> \/ IsInteger(digits))
  BY DEF ParseNumeric
<1>2. ParseNumeric(text, scale) = {[value |-> Sign(text) * unscaled, scale |-> scale]}
  BY <1>1 DEF ParseNumeric
<1>3. int \in Seq(STRING) /\ frac \in Seq(STRING)
  BY PartsType, UnsignedType
<1> HIDE DEF int, frac
<1>4. Len(frac) \in Nat /\ scale - Len(frac) \in Nat
  BY <1>1, <1>3
<1>5. zeros \in Seq(Digit)
  BY <1>4, Zeros
<1> HIDE DEF zeros
<1>6. digits \in Seq(STRING \cup Digit)
  <2>1. /\ zeros \in Seq(STRING \cup Digit) /\ int \in Seq(STRING \cup Digit)
        /\ frac \in Seq(STRING \cup Digit)
    BY <1>3, <1>5, SeqOfLarger
  <2> QED
    BY <2>1
<1> HIDE DEF digits
<1>7. unscaled \in Int
  BY <1>1, <1>6, IntegerType
<1>8. Sign(text) \in {-1, 1}
  BY DEF Sign
<1> HIDE DEF unscaled
<1>9. Sign(text) * unscaled \in Int
  BY <1>7, <1>8
<1> QED
  BY <1>2, <1>9

\* An integer is printed as a text that str::parse reads back.
LEMMA IntegerReadsBack ==
  ASSUME NEW x \in Int
  PROVE  LET text == IF x < 0 THEN <<"-">> \o Shown(-x) ELSE Shown(x)
         IN  IsInteger(text) /\ IntegerOf(text) = x
<1> DEFINE m == IF x < 0 THEN -x ELSE x
<1>1. m \in Nat
  OBVIOUS
<1>2. Shown(m) \in Seq(Digit) /\ Shown(m) # <<>> /\ Natural(Shown(m)) = m
  BY <1>1, ShownReadsBack
<1>3. CASE ~(x < 0)
  <2>1. IsInteger(Shown(m)) /\ IntegerOf(Shown(m)) = m
    BY <1>2, DigitsAreInteger
  <2> QED
    BY <1>3, <2>1
<1>4. CASE x < 0
  <2> DEFINE shown == Shown(m)
             text == <<"-">> \o shown
  <2>1. shown \in Seq(Digit) /\ shown # <<>> /\ Natural(shown) = m
    BY <1>2
  <2> HIDE DEF shown
  <2>2. text # <<>> /\ Head(text) = "-" /\ Tail(text) = shown
    BY <2>1
  <2> HIDE DEF text
  <2>3. Unsigned(text) = shown /\ Sign(text) = -1
    BY <2>2 DEF Unsigned, Signed, Sign, Signs
  <2>4. IsInteger(text)
    BY <2>1, <2>3 DEF IsInteger
  <2>5. IntegerOf(text) = -1 * m
    BY <2>1, <2>3 DEF IntegerOf
  <2>6. -1 * m = x
    BY <1>4
  <2> QED
    BY <1>4, <2>4, <2>5, <2>6 DEF text, shown
<1> QED
  BY <1>3, <1>4

LEMMA ScaleType ==
  ASSUME NEW type, type.size \in Seq(Nat)
  PROVE  Scale(type) \in Nat
  BY DEF Scale

\* No base type is of two groups.
LEMMA TypesApart ==
  ASSUME NEW base
  PROVE  /\ base = "bit" =>
              base \notin IntegerTypes \cup DecimalTypes \cup DateTimeTypes \cup FloatTypes
         /\ base \in IntegerTypes => base \notin DecimalTypes \cup DateTimeTypes \cup FloatTypes
         /\ base \in DecimalTypes => base \notin DateTimeTypes \cup FloatTypes
         /\ base \in DateTimeTypes => base \notin FloatTypes
         /\ base = "datetimeoffset" =>
              base \notin {"bit"} \cup IntegerTypes \cup DecimalTypes \cup DateTimeTypes \cup FloatTypes
         /\ base \in DOMAIN Canonical =>
              base \notin {"bit", "datetimeoffset"} \cup IntegerTypes \cup DecimalTypes \cup DateTimeTypes
<1>1. base \in DOMAIN Canonical =>
        base \notin {"bit", "datetimeoffset"} \cup IntegerTypes \cup DecimalTypes \cup DateTimeTypes
  BY CanonicalAssumption
<1> QED
  BY <1>1 DEF IntegerTypes, DecimalTypes, DateTimeTypes, FloatTypes

\* An argument has one reading at most, and a column with it is shown so that it is read again.
LEMMA ReadingReadsBack ==
  ASSUME NEW v, ArgumentOK(v), NEW type, type.size \in Seq(Nat), NEW x \in Readings(v, type)
  PROVE  LET shown == ColumnDataToJson([sql |-> type.base, value |-> <<x>>])
         IN  Readings(v, type) = {x} /\ shown.json # "null" /\ Readings(shown, type) = {x}
<1> DEFINE base == type.base
           column == [sql |-> base, value |-> <<x>>]
           shown == ColumnDataToJson(column)
<1>0. column.value # <<>> /\ column.value[1] = x /\ column.sql = base
  OBVIOUS
<1> HIDE DEF column
<1> SUFFICES Readings(v, type) = {x} /\ shown.json # "null" /\ Readings(shown, type) = {x}
  BY DEF column
<1>1. CASE base = "bit"
  <2>0. /\ base # "datetimeoffset" /\ base \notin IntegerTypes /\ base \notin FloatTypes
        /\ base \notin DecimalTypes /\ base \notin DateTimeTypes /\ base \notin DOMAIN Canonical
    BY <1>1, TypesApart
  <2>1. shown = [json |-> "bool", of |-> x]
    BY <1>0, <1>1, <2>0 DEF ColumnDataToJson
  <2>2. v.json = "bool" /\ v.of = x
    BY <1>1, <2>0 DEF Readings
  <2> HIDE DEF shown
  <2> QED
    BY <1>1, <2>0, <2>1, <2>2 DEF Readings
<1>2. CASE base \in IntegerTypes
  <2> DEFINE text == IF x < 0 THEN <<"-">> \o Shown(-x) ELSE Shown(x)
  <2>0. /\ base \notin {"bit", "datetimeoffset"} /\ base \notin FloatTypes
        /\ base \notin DecimalTypes /\ base \notin DateTimeTypes /\ base \notin DOMAIN Canonical
    BY <1>2, TypesApart
  <2>1. /\ v.json = "number" /\ IsInteger(v.of) /\ InRange(base, IntegerOf(v.of))
        /\ x = IntegerOf(v.of) /\ Readings(v, type) = {x}
    BY <1>2, <2>0 DEF Readings
  <2>2. x \in Int
    BY <2>1, IntegerType DEF ArgumentOK
  <2>3. IsInteger(text) /\ IntegerOf(text) = x
    BY <2>2, IntegerReadsBack
  <2>4. shown = [json |-> "number", of |-> text]
    BY <1>0, <1>2, <2>0 DEF ColumnDataToJson
  <2> HIDE DEF shown, text
  <2> QED
    BY <1>2, <2>0, <2>1, <2>3, <2>4 DEF Readings
<1>3. CASE base \in DecimalTypes
  <2>0. /\ base \notin {"bit", "datetimeoffset"} /\ base \notin FloatTypes
        /\ base \notin IntegerTypes /\ base \notin DateTimeTypes /\ base \notin DOMAIN Canonical
    BY <1>3, TypesApart
  <2>1. v.json \in {"number", "string"} /\ Readings(v, type) = ParseNumeric(v.of, Scale(type))
    BY <1>3, <2>0 DEF Readings
  <2>2. /\ x.value \in Int /\ x = [value |-> x.value, scale |-> Scale(type)]
        /\ ParseNumeric(v.of, Scale(type)) = {x}
    BY <2>1, ParsedType, ScaleType DEF ArgumentOK
  <2>3. ParseNumeric(FormatNumeric(x), Scale(type)) = {x}
    BY <2>2, NumericReadsBack, ScaleType
  <2>4. shown = [json |-> "string", of |-> FormatNumeric(x)]
    BY <1>0, <1>3, <2>0 DEF ColumnDataToJson
  <2> HIDE DEF shown
  <2>5. Readings(shown, type) = ParseNumeric(shown.of, Scale(type))
    BY <1>3, <2>0, <2>4 DEF Readings
  <2> QED
    BY <2>1, <2>2, <2>3, <2>4, <2>5
<1>4. CASE base \in DateTimeTypes
  <2>0. /\ base \notin {"bit", "datetimeoffset"} /\ base \notin FloatTypes
        /\ base \notin IntegerTypes /\ base \notin DecimalTypes /\ base \notin DOMAIN Canonical
    BY <1>4, TypesApart
  <2>1. shown = [json |-> "naive", of |-> x]
    BY <1>0, <1>4, <2>0 DEF ColumnDataToJson
  <2> HIDE DEF shown
  <2>2. Readings(shown, type) = {x}
    BY <1>4, <2>0, <2>1 DEF Readings
  <2>3. Readings(v, type) = {x}
    BY <1>4, <2>0 DEF Readings
  <2> QED
    BY <2>1, <2>2, <2>3
<1>5. CASE base = "datetimeoffset"
  <2>0. /\ base # "bit" /\ base \notin IntegerTypes /\ base \notin FloatTypes
        /\ base \notin DecimalTypes /\ base \notin DateTimeTypes /\ base \notin DOMAIN Canonical
    BY <1>5, TypesApart
  <2>1. /\ v.json = "rfc3339" /\ x = <<v.of[1] - v.of[2], v.of[2]>>
        /\ Readings(v, type) = {x}
    BY <1>5, <2>0 DEF Readings
  <2>2. v.of[1] \in Int /\ v.of[2] \in Int
    BY <2>1 DEF ArgumentOK
  <2>3. shown = [json |-> "rfc3339", of |-> WithTimezone(x)]
    BY <1>0, <1>5, <2>0 DEF ColumnDataToJson
  <2>4. WithTimezone(x) = <<(v.of[1] - v.of[2]) + v.of[2], v.of[2]>>
    BY <2>1 DEF WithTimezone
  <2>5. ((v.of[1] - v.of[2]) + v.of[2]) - v.of[2] = v.of[1] - v.of[2]
    BY <2>2
  <2> HIDE DEF shown
  <2>6. Readings(shown, type) = {<<shown.of[1] - shown.of[2], shown.of[2]>>}
    BY <1>5, <2>0, <2>3 DEF Readings
  <2>7. shown.of[1] = (v.of[1] - v.of[2]) + v.of[2] /\ shown.of[2] = v.of[2]
    BY <2>3, <2>4
  <2> QED
    BY <2>1, <2>3, <2>5, <2>6, <2>7
<1> DEFINE Fixed == {"bit", "datetimeoffset"} \cup IntegerTypes \cup DecimalTypes \cup DateTimeTypes
<1>6. CASE base \notin Fixed
  <2>0. /\ base # "bit" /\ base \notin IntegerTypes /\ base \notin DecimalTypes
        /\ base \notin DateTimeTypes /\ base # "datetimeoffset"
    BY <1>6
  <2>1. shown = [json |-> IF base \in FloatTypes THEN "number" ELSE "string", of |-> x]
    BY <1>0, <2>0 DEF ColumnDataToJson
  <2>2. shown.json \notin {"null", "bool"} /\ shown.of = x
        /\ shown.json = (IF base \in FloatTypes THEN "number" ELSE "string")
    BY <2>1
  <2> HIDE DEF shown
  <2>3. CASE base \in DOMAIN Canonical
    <3>1. v.of \in DOMAIN Canonical[base] /\ x = Canonical[base][v.of] /\ Readings(v, type) = {x}
      BY <2>0, <2>3 DEF Readings
    <3>2. x \in DOMAIN Canonical[base] /\ Canonical[base][x] = x
      BY <2>3, <3>1, CanonicalAssumption
    <3>3. Readings(shown, type) = {Canonical[base][x]}
      BY <2>0, <2>2, <2>3, <3>2 DEF Readings
    <3> QED
      BY <2>2, <3>1, <3>2, <3>3
  <2>4. CASE base \notin DOMAIN Canonical
    <3>1. Readings(v, type) = {x}
      BY <2>0, <2>4 DEF Readings
    <3>2. Readings(shown, type) = {x}
      BY <2>0, <2>2, <2>4 DEF Readings
    <3> QED
      BY <2>2, <3>1, <3>2
  <2> QED
    BY <2>3, <2>4
<1> QED
  BY <1>1, <1>2, <1>3, <1>4, <1>5, <1>6

\* What an answer shows of a value is read, as an argument of the same type, as that value: for
\* any type, and any argument that json_to_param takes.
THEOREM AnswerReadsBack ==
  ASSUME NEW v, ArgumentOK(v), NEW type, type.size \in Seq(Nat), JsonToParam(v, type) # Refused
  PROVE  JsonToParam(ColumnDataToJson(JsonToParam(v, type)), type) = JsonToParam(v, type)
<1>1. CASE v.json = "null"
  <2>1. JsonToParam(v, type) = [sql |-> type.base, value |-> <<>>]
    BY <1>1 DEF JsonToParam
  <2>2. ColumnDataToJson([sql |-> type.base, value |-> <<>>]) = Null
    BY DEF ColumnDataToJson
  <2>3. JsonToParam(Null, type) = [sql |-> type.base, value |-> <<>>]
    BY DEF JsonToParam, Null
  <2> QED
    BY <2>1, <2>2, <2>3
<1>2. CASE v.json # "null"
  <2>1. PICK x : x \in Readings(v, type)
    BY <1>2 DEF JsonToParam
  <2> DEFINE column == [sql |-> type.base, value |-> <<x>>]
             shown == ColumnDataToJson(column)
  <2>2. Readings(v, type) = {x} /\ shown.json # "null" /\ Readings(shown, type) = {x}
    BY <2>1, ReadingReadsBack
  <2>3. JsonToParam(v, type) = column
    BY <1>2, <2>2 DEF JsonToParam
  <2> HIDE DEF shown
  <2>4. JsonToParam(shown, type) = column
    BY <2>2 DEF JsonToParam
  <2> QED
    BY <2>3, <2>4 DEF shown
<1> QED
  BY <1>1, <1>2

-----------------------------------------------------------------------------
(* The order of the parameters.                                               *)

\* Before is a linear order, so that every place has one parameter.
LEMMA EveryPlaceIsTaken ==
  ASSUME NEW params, IsFiniteSet(params),
         \A p \in params : p.key \in Nat /\ p.ordinal \in Nat,
         \A p, q \in params : p.key = q.key => p = q
  PROVE  LET rank == [p \in params |-> Cardinality({q \in params : Before(q, p)})]
         IN  /\ rank \in [params -> 1 .. Cardinality(params)]
             /\ \A p, q \in params : rank[p] = rank[q] => p = q
             /\ \A i \in 1 .. Cardinality(params) : \E p \in params : rank[p] = i
<1> DEFINE upTo(p) == {q \in params : Before(q, p)}
           rank == [p \in params |-> Cardinality(upTo(p))]
           n == Cardinality(params)
<1>1. n \in Nat
  BY FS_CardinalityType
<1>2. ASSUME NEW p \in params
      PROVE  IsFiniteSet(upTo(p)) /\ Cardinality(upTo(p)) \in 1 .. n
  <2>1. IsFiniteSet(upTo(p)) /\ Cardinality(upTo(p)) <= n
    BY FS_Subset
  <2>2. p \in upTo(p)
    BY DEF Before
  <2> HIDE DEF upTo, n
  <2>3. Cardinality(upTo(p)) \in Nat /\ Cardinality(upTo(p)) # 0
    BY <2>1, <2>2, FS_CardinalityType, FS_EmptySet
  <2> QED
    BY <1>1, <2>1, <2>3
<1>3. ASSUME NEW p \in params, NEW q \in params, Before(p, q),
             Cardinality(upTo(p)) = Cardinality(upTo(q))
      PROVE  p = q
  <2>1. upTo(p) \subseteq upTo(q)
    BY <1>3 DEF Before
  <2>2. q \in upTo(q)
    BY DEF Before
  <2>3. upTo(p) = upTo(q)
    <3> HIDE DEF upTo
    <3> QED
      BY <1>2, <1>3, <2>1, FS_Subset
  <2>4. Before(q, p)
    BY <2>2, <2>3
  <2> QED
    BY <1>3, <2>4 DEF Before
<1>4. ASSUME NEW p \in params, NEW q \in params, rank[p] = rank[q]
      PROVE  p = q
  <2>1. Before(p, q) \/ Before(q, p)
    BY DEF Before
  <2>2. Cardinality(upTo(p)) = Cardinality(upTo(q))
    BY <1>4
  <2> QED
    BY <1>3, <2>1, <2>2
<1>5. rank \in [params -> 1 .. n]
  BY <1>2
<1>6. IsFiniteSet(1 .. n) /\ Cardinality(1 .. n) = n
  BY <1>1, FS_Interval
<1> HIDE DEF rank
<1>7. rank \in Injection(params, 1 .. n)
  BY <1>4, <1>5 DEF Injection, IsInjective
<1>8. rank \in Surjection(params, 1 .. n)
  BY <1>6, <1>7, FS_Injection
<1>9. \A i \in 1 .. n : \E p \in params : rank[p] = i
  BY <1>8 DEF Surjection
<1> QED
  BY <1>4, <1>5, <1>9 DEF rank

LEMMA CallParams ==
  ASSUME call \in Calls
  PROVE  /\ IsFiniteSet(operation.params)
         /\ \A p, q \in operation.params : p.name = q.name \/ p.key = q.key => p = q
         /\ \A p \in operation.params :
              p.key \in Nat /\ p.ordinal \in Nat /\ p.type.size \in Seq(Nat)
         /\ IsFunction(operation.kind) =>
              \A p, q \in operation.params : p.ordinal = q.ordinal => p = q
         /\ \A p \in operation.params : p.name \in DOMAIN Body => ArgumentOK(Body[p.name])
         /\ Requests \in DOMAIN Body /\ Body[Requests].json = "string" =>
              Body[Requests].of # NoDatabase
  BY CallsAssumption DEF operation, Body

\* The statement lists the parameters of the object, each of them once; the ones of a function
\* at their places in its declaration.
LEMMA ParamsInOrder ==
  ASSUME call \in Calls
  PROVE  /\ OrderedParams \in Seq(operation.params)
         /\ \A p \in operation.params : \E i \in 1 .. Len(OrderedParams) : OrderedParams[i] = p
         /\ IsFunction(operation.kind) =>
              \A p \in operation.params :
                Place(p) \in 1 .. Len(OrderedParams) /\ OrderedParams[Place(p)] = p
<1> DEFINE params == operation.params
           n == Cardinality(params)
           rank == [p \in params |-> Cardinality({q \in params : Before(q, p)})]
<1>1. n \in Nat
  BY CallParams, FS_CardinalityType
<1>2. /\ rank \in [params -> 1 .. n]
      /\ \A p, q \in params : rank[p] = rank[q] => p = q
      /\ \A i \in 1 .. n : \E p \in params : rank[p] = i
  <2>1. /\ IsFiniteSet(params)
        /\ \A p \in params : p.key \in Nat /\ p.ordinal \in Nat
        /\ \A p, q \in params : p.key = q.key => p = q
    BY CallParams
  <2> HIDE DEF params
  <2> QED
    BY <2>1, EveryPlaceIsTaken
<1>3. \A i \in 1 .. n : OrderedParams[i] \in params /\ rank[OrderedParams[i]] = i
  <2> TAKE i \in 1 .. n
  <2>1. OrderedParams[i] = CHOOSE p \in params : Cardinality({q \in params : Before(q, p)}) = i
    BY DEF OrderedParams
  <2>2. \E p \in params : Cardinality({q \in params : Before(q, p)}) = i
    BY <1>2
  <2> HIDE DEF params
  <2> QED
    BY <2>1, <2>2
<1>4. ASSUME IsFunction(operation.kind), NEW p \in params PROVE Place(p) = rank[p]
  <2>1. \A q \in params : q.ordinal <= p.ordinal <=> Before(q, p)
    BY <1>4, CallParams DEF Before
  <2>2. {q \in params : q.ordinal <= p.ordinal} = {q \in params : Before(q, p)}
    BY <2>1
  <2> QED
    BY <2>2 DEF Place
<1> HIDE DEF rank, n, params
<1>6. OrderedParams \in Seq(params) /\ Len(OrderedParams) = n
  <2>1. OrderedParams \in [1 .. n -> params]
    BY <1>3 DEF OrderedParams, n, params
  <2> QED
    BY <1>1, <2>1
<1>7. ASSUME NEW p \in params PROVE rank[p] \in 1 .. n /\ OrderedParams[rank[p]] = p
  BY <1>2, <1>3
<1> QED
  BY <1>4, <1>6, <1>7 DEF params

-----------------------------------------------------------------------------
(* The steps of a call.                                                       *)

\* What is sent is made of plain names only: no quoting is ever needed, nor can one be left out.
OnlyPlainNames ==
  Sent =>
    /\ \A i \in 1 .. Len(sent.object) : sent.object[i] \in Plain
    /\ \A i \in 1 .. Len(sent.names) : sent.names[i] \in Plain

\* With read_only set no procedure is executed, nor an object of a kind that is not known.
ReadOnlyIsKept == Sent /\ config.read_only => sent.verb # "EXEC"

\* What the steps keep.  The database is the one that was asked for, a statement that is sent has
\* the values of the parameters in their order, none of them refused, and under their names where
\* it has names; the rows of the answer are those values, converted.
StatementInv ==
  /\ TypeOK
  /\ answer = [rows |-> answer.rows, error |-> answer.error]
  /\ stage \in {"path", "schema", "database", "build"} \/ Sent =>
       (config.read_only => ~IsWritableKind(operation.kind))
  /\ stage \in {"schema", "database", "build"} \/ Sent =>
       Len(operation.path) = 2 /\ \A i \in 1 .. 2 : operation.path[i] \in Plain
  /\ stage = "build" \/ Sent =>
       /\ database = Wanted
       /\ Requests \in DOMAIN Body => Body[Requests].json = "string"
  /\ Sent =>
       /\ sent.object = (IF database = NoDatabase THEN <<>> ELSE <<database>>) \o operation.path
       /\ sent.verb = "SELECT" => operation.kind = "VIEW"
       /\ sent.verb \notin {"SELECT", "EXEC"} => IsFunction(operation.kind)
       /\ sent.verb = "EXEC" =>
            /\ IsWritableKind(operation.kind)
            /\ sent.names = [i \in 1 .. Len(OrderedParams) |-> OrderedParams[i].name]
       /\ \A i \in 1 .. Len(sent.names) : sent.names[i] \in Plain
       /\ bound = [i \in 1 .. Len(OrderedParams) |-> ArgumentOf(OrderedParams[i])]
  /\ stage = "answered" => answer.rows = {<<p, ColumnDataToJson(Received(p))>> : p \in Columns}

LEMMA BoundHasOneValue ==
  ASSUME NEW v, NEW type
  PROVE  Len(JsonToParam(v, type).value) <= 1
<1>1. Len(<<>>) = 0 /\ \A x : Len(<<x>>) = 1
  OBVIOUS
<1> QED
  BY <1>1 DEF JsonToParam, Refused

LEMMA SameCall ==
  ASSUME UNCHANGED <<call, config>>
  PROVE  /\ operation' = operation /\ Body' = Body /\ Wanted' = Wanted
         /\ OrderedParams' = OrderedParams
         /\ \A p : (ArgumentOf(p))' = ArgumentOf(p)
<1>1. operation' = operation /\ Body' = Body
  BY DEF operation, Body
<1> QED
  BY <1>1 DEF Wanted, OrderedParams, ArgumentOf

\* The first steps only move to the next stage, or refuse the call.
LEMMA GoesKeepsInv ==
  ASSUME StatementInv, NEW from, NEW to, Goes(from, to), from \in {"validate", "guard", "path", "schema"},
         to \in {"guard", "path", "schema", "database", "refused"},
         to \in {"path", "schema", "database"} =>
           (config.read_only => ~IsWritableKind(operation.kind)),
         to \in {"schema", "database"} =>
           Len(operation.path) = 2 /\ \A i \in 1 .. 2 : operation.path[i] \in Plain
  PROVE  StatementInv'
<1>1. /\ stage = from /\ stage' = to /\ sent' = sent /\ bound' = bound /\ call' = call
      /\ config' = config /\ database' = database /\ answer' = answer
  BY DEF Goes
<1>2. operation' = operation
  BY <1>1, SameCall
<1>3. ~Sent /\ ~Sent' /\ stage' \notin {"build", "answered"}
  BY <1>1 DEF Sent
<1>4. TypeOK' /\ (answer = [rows |-> answer.rows, error |-> answer.error])'
  BY <1>1, <1>3 DEF StatementInv, TypeOK, Sent
<1>5. stage' \in {"path", "schema", "database", "build"} \/ Sent' =>
        ((config.read_only)' => ~IsWritableKind(operation.kind)')
  BY <1>1, <1>2, <1>3
<1>6. stage' \in {"schema", "database", "build"} \/ Sent' =>
        (Len(operation.path) = 2 /\ \A i \in 1 .. 2 : operation.path[i] \in Plain)'
  BY <1>1, <1>2, <1>3
<1> QED
  BY <1>3, <1>4, <1>5, <1>6 DEF StatementInv

LEMMA ResolveKeepsInv ==
  ASSUME StatementInv, ResolveExecutionDatabase
  PROVE  StatementInv'
<1>1. /\ stage = "database" /\ sent' = sent /\ bound' = bound /\ call' = call
      /\ config' = config /\ answer' = answer
      /\ \/ /\ stage' = "build" /\ database' = Wanted /\ Wanted \in Plain \cup {NoDatabase}
            /\ Requests \in DOMAIN Body => Body[Requests].json = "string"
         \/ stage' = "refused" /\ database' = database
  BY DEF ResolveExecutionDatabase
<1>2. operation' = operation /\ Body' = Body /\ Wanted' = Wanted
  BY <1>1, SameCall
<1>3. ~Sent /\ ~Sent' /\ stage' # "answered"
  BY <1>1 DEF Sent
<1>4. TypeOK' /\ (answer = [rows |-> answer.rows, error |-> answer.error])'
  BY <1>1, <1>3 DEF StatementInv, TypeOK, Sent
<1>5. /\ config.read_only => ~IsWritableKind(operation.kind)
      /\ Len(operation.path) = 2 /\ \A i \in 1 .. 2 : operation.path[i] \in Plain
  BY <1>1 DEF StatementInv
<1>6. stage' = "build" => /\ database' = Wanted'
                          /\ (Requests \in DOMAIN Body => Body[Requests].json = "string")'
  BY <1>1, <1>2
<1>7. /\ (config.read_only => ~IsWritableKind(operation.kind))'
      /\ (Len(operation.path) = 2 /\ \A i \in 1 .. 2 : operation.path[i] \in Plain)'
  BY <1>1, <1>2, <1>5
<1> QED
  BY <1>3, <1>4, <1>6, <1>7 DEF StatementInv

LEMMA BuildKeepsInv ==
  ASSUME StatementInv, BuildStatement
  PROVE  StatementInv'
<1> DEFINE params == OrderedParams
           values == [i \in 1 .. Len(params) |-> ArgumentOf(params[i])]
           verb == CASE operation.kind = "VIEW" -> "SELECT"
                     [] IsFunction(operation.kind) -> "SELECT FROM FUNCTION"
                     [] OTHER -> "EXEC"
           names == IF verb = "EXEC" THEN [i \in 1 .. Len(params) |-> params[i].name] ELSE <<>>
           object == (IF database = NoDatabase THEN <<>> ELSE <<database>>) \o operation.path
           refuses == \/ \E i \in 1 .. Len(values) : values[i] = Refused
                      \/ \E i \in 1 .. Len(names) : names[i] \notin Plain
<1>1. /\ stage = "build" /\ call' = call /\ config' = config /\ database' = database
      /\ answer' = answer
      /\ \/ refuses /\ stage' = "refused" /\ sent' = sent /\ bound' = bound
         \/ /\ ~refuses /\ stage' = "sent" /\ bound' = values
            /\ sent' = [verb |-> verb, names |-> names, object |-> object]
  BY DEF BuildStatement
<1>2. /\ operation' = operation /\ Body' = Body /\ Wanted' = Wanted
      /\ OrderedParams' = OrderedParams
      /\ \A p : (ArgumentOf(p))' = ArgumentOf(p)
  BY <1>1, SameCall
<1>3. call \in Calls /\ Len(params) \in Nat
  BY ParamsInOrder DEF StatementInv, TypeOK
<1>4. /\ config.read_only => ~IsWritableKind(operation.kind)
      /\ Len(operation.path) = 2 /\ \A i \in 1 .. 2 : operation.path[i] \in Plain
      /\ database = Wanted /\ (Requests \in DOMAIN Body => Body[Requests].json = "string")
  BY <1>1 DEF StatementInv
<1>5. /\ (config.read_only => ~IsWritableKind(operation.kind))'
      /\ (Len(operation.path) = 2 /\ \A i \in 1 .. 2 : operation.path[i] \in Plain)'
      /\ database' = Wanted' /\ (Requests \in DOMAIN Body => Body[Requests].json = "string")'
  BY <1>1, <1>2, <1>4
<1>6. CASE stage' = "refused" /\ sent' = sent /\ bound' = bound
  <2>1. ~Sent /\ ~Sent' /\ stage' \notin {"build", "answered", "path", "schema", "database"}
    BY <1>1, <1>6 DEF Sent
  <2>2. TypeOK' /\ (answer = [rows |-> answer.rows, error |-> answer.error])'
    BY <1>1, <1>6, <2>1 DEF StatementInv, TypeOK, Sent
  <2> QED
    BY <2>1, <2>2 DEF StatementInv
<1>7. CASE /\ ~refuses /\ stage' = "sent" /\ bound' = values
           /\ sent' = [verb |-> verb, names |-> names, object |-> object]
  <2>1. /\ operation.kind = "VIEW" => verb = "SELECT"
        /\ operation.kind # "VIEW" /\ IsFunction(operation.kind) => verb = "SELECT FROM FUNCTION"
        /\ operation.kind # "VIEW" /\ ~IsFunction(operation.kind) => verb = "EXEC"
    BY DEF IsFunction
  <2>2. Len(values) = Len(params)
    BY <1>3
  <2>3. \A i \in 1 .. Len(values) : values[i] # Refused /\ Len(values[i].value) <= 1
    BY <1>7, <2>2, BoundHasOneValue DEF ArgumentOf
  <2>4. verb = "EXEC" => Len(names) = Len(params)
    BY <1>3
  <2>5. \A i \in 1 .. Len(names) : names[i] \in Plain
    BY <1>7
  <2>6. verb = "EXEC" => names = [i \in 1 .. Len(OrderedParams) |-> OrderedParams[i].name]
    OBVIOUS
  <2> HIDE DEF verb, object
  <2>7. sent'.verb = verb /\ sent'.names = names /\ sent'.object = object
    BY <1>7
  <2>8. sent' # Nothing
    <3>1. Nothing.verb = "none"
      BY DEF Nothing
    <3>2. verb # "none"
      BY <2>1
    <3> QED
      BY <2>7, <3>1, <3>2
  <2> HIDE DEF names
  <2>9. TypeOK'
    BY <1>1, <1>3, <1>7, <2>2, <2>3, <2>4, <2>7, <2>8 DEF StatementInv, TypeOK
  <2>10. object = ((IF database = NoDatabase THEN <<>> ELSE <<database>>) \o operation.path)'
    BY <1>1, <1>2 DEF object
  <2>11. /\ verb = "SELECT" => operation.kind = "VIEW"
         /\ verb \notin {"SELECT", "EXEC"} => IsFunction(operation.kind)
         /\ verb = "EXEC" => IsWritableKind(operation.kind)
    BY <2>1 DEF IsWritableKind
  <2>12. bound' = [i \in 1 .. Len(OrderedParams) |-> ArgumentOf(OrderedParams[i])]'
    BY <1>2, <1>7
  <2>13. /\ Sent' /\ stage' # "answered"
         /\ (answer = [rows |-> answer.rows, error |-> answer.error])'
    BY <1>1, <1>7 DEF Sent, StatementInv
  <2> HIDE DEF values, refuses, params
  <2> QED
    BY <1>2, <1>5, <2>5, <2>6, <2>7, <2>9, <2>10, <2>11, <2>12, <2>13 DEF StatementInv
<1> QED
  BY <1>1, <1>6, <1>7

\* SQL Server answers what was sent, or fails; what was sent stays.
LEMMA EndKeepsInv ==
  ASSUME StatementInv, Answer \/ Fail
  PROVE  StatementInv'
<1>1. /\ stage = "sent" /\ stage' \in {"answered", "failed"} /\ call' = call /\ config' = config
      /\ database' = database /\ sent' = sent /\ bound' = bound
  BY DEF Answer, Fail
<1>2. /\ operation' = operation /\ Body' = Body /\ Wanted' = Wanted
      /\ OrderedParams' = OrderedParams
      /\ \A p : (ArgumentOf(p))' = ArgumentOf(p)
  BY <1>1, SameCall
<1>3. Sent /\ Sent' /\ stage' # "build"
  BY <1>1 DEF Sent
<1>4. TypeOK' /\ (answer = [rows |-> answer.rows, error |-> answer.error])'
  <2>1. TypeOK'
    BY <1>1 DEF StatementInv, TypeOK
  <2>2. answer = [rows |-> answer.rows, error |-> answer.error]
    BY DEF StatementInv
  <2>3. \/ \E rows : answer' = [answer EXCEPT !.rows = rows]
        \/ \E error : answer' = [answer EXCEPT !.error = error]
    BY DEF Answer, Fail
  <2> QED
    BY <2>1, <2>2, <2>3
<1>5. stage' = "answered" =>
        answer'.rows = {<<p, ColumnDataToJson(Received(p))>> : p \in Columns}'
  <2>1. SUFFICES ASSUME stage' = "answered"
                 PROVE  answer'.rows = {<<p, ColumnDataToJson(Received(p))>> : p \in Columns}'
    OBVIOUS
  <2>2. Columns' = Columns /\ \A p : (Received(p))' = Received(p)
    BY <1>1, <1>2 DEF Columns, Received, Place
  <2>3. answer' = [answer EXCEPT !.rows = {<<p, ColumnDataToJson(Received(p))>> : p \in Columns}]
    BY <1>1, <2>1 DEF Answer, Fail
  <2>4. answer = [rows |-> answer.rows, error |-> answer.error]
    BY DEF StatementInv
  <2> QED
    BY <2>2, <2>3, <2>4
<1> QED
  BY <1>1, <1>2, <1>3, <1>4, <1>5 DEF StatementInv

THEOREM StatementInductive == Spec => []StatementInv
<1>1. Init => StatementInv
  BY DEF Init, StatementInv, TypeOK, Sent, Nothing, Unanswered
<1>2. ASSUME StatementInv, [Next]_vars PROVE StatementInv'
  <2>1. CASE ValidateInput
    BY <1>2, <2>1, GoesKeepsInv DEF ValidateInput
  <2>2. CASE RefuseWrites
    BY <1>2, <2>2, GoesKeepsInv DEF RefuseWrites
  <2>3. CASE ParsePath
    BY <1>2, <2>3, GoesKeepsInv DEF ParsePath, StatementInv, Goes
  <2>4. CASE ResolvedSchemasFor
    BY <1>2, <2>4, GoesKeepsInv DEF ResolvedSchemasFor, StatementInv, Goes
  <2>5. CASE ResolveExecutionDatabase
    BY <1>2, <2>5, ResolveKeepsInv
  <2>6. CASE BuildStatement
    BY <1>2, <2>6, BuildKeepsInv
  <2>7. CASE Answer \/ Fail
    BY <1>2, <2>7, EndKeepsInv
  <2>8. CASE UNCHANGED vars
    <3>1. /\ call' = call /\ config' = config /\ stage' = stage /\ database' = database
          /\ sent' = sent /\ bound' = bound /\ answer' = answer
      BY <2>8 DEF vars
    <3>2. /\ operation' = operation /\ Body' = Body /\ Wanted' = Wanted
          /\ OrderedParams' = OrderedParams
          /\ \A p : (ArgumentOf(p))' = ArgumentOf(p)
      BY <3>1, SameCall
    <3>3. Columns' = Columns /\ \A p : (Received(p))' = Received(p)
      BY <3>1, <3>2 DEF Columns, Received, Place
    <3>4. Sent' = Sent
      BY <3>1 DEF Sent
    <3>5. TypeOK' /\ (answer = [rows |-> answer.rows, error |-> answer.error])'
      BY <1>2, <3>1 DEF StatementInv, TypeOK
    <3> QED
      BY <1>2, <3>1, <3>2, <3>3, <3>4, <3>5 DEF StatementInv
  <2> QED
    BY <1>2, <2>1, <2>2, <2>3, <2>4, <2>5, <2>6, <2>7, <2>8 DEF Next
<1> QED
  BY <1>1, <1>2, PTL DEF Spec

-----------------------------------------------------------------------------
(* What the invariant shows.                                                  *)

\* A parameter gets its own argument, and that argument was not refused.
LEMMA EachGetsItsOwn ==
  ASSUME StatementInv, Sent, sent.verb # "SELECT", NEW p \in operation.params
  PROVE  Received(p) = ArgumentOf(p) /\ ArgumentOf(p) # Refused
<1>1. /\ call \in Calls /\ sent # Nothing
      /\ \A i \in 1 .. Len(bound) : bound[i] # Refused
  BY DEF StatementInv, TypeOK, Sent
<1>2. /\ sent.verb # "EXEC" => IsFunction(operation.kind)
      /\ sent.verb = "EXEC" =>
           sent.names = [i \in 1 .. Len(OrderedParams) |-> OrderedParams[i].name]
      /\ bound = [i \in 1 .. Len(OrderedParams) |-> ArgumentOf(OrderedParams[i])]
  BY DEF StatementInv
<1>3. /\ OrderedParams \in Seq(operation.params) /\ Len(OrderedParams) \in Nat
      /\ \A i \in 1 .. Len(OrderedParams) : OrderedParams[i] \in operation.params
  BY <1>1, ParamsInOrder
<1>4. PICK i \in 1 .. Len(OrderedParams) : OrderedParams[i] = p
  BY <1>1, ParamsInOrder
<1>5. Len(bound) = Len(OrderedParams)
  BY <1>2, <1>3
<1>6. ArgumentOf(p) # Refused
  BY <1>1, <1>2, <1>4, <1>5
<1>7. CASE sent.verb = "EXEC"
  <2>1. Len(sent.names) = Len(OrderedParams)
    BY <1>2, <1>3, <1>7
  <2>2. \A k \in 1 .. Len(sent.names) : sent.names[k] = p.name <=> OrderedParams[k] = p
    BY <1>1, <1>2, <1>3, <1>7, <2>1, CallParams
  <2>3. Received(p) = bound[CHOOSE k \in 1 .. Len(sent.names) : sent.names[k] = p.name]
    BY <1>7 DEF Received
  <2>4. PICK k \in 1 .. Len(OrderedParams) :
          Received(p) = bound[k] /\ OrderedParams[k] = p
    BY <1>4, <2>1, <2>2, <2>3
  <2> QED
    BY <1>2, <1>6, <2>4
<1>8. CASE sent.verb # "EXEC"
  <2>1. Place(p) \in 1 .. Len(OrderedParams) /\ OrderedParams[Place(p)] = p
    BY <1>1, <1>2, <1>8, ParamsInOrder
  <2>2. Received(p) = bound[Place(p)]
    BY <1>8 DEF Received
  <2> QED
    BY <1>2, <1>6, <2>1, <2>2
<1> QED
  BY <1>7, <1>8

LEMMA InvImpliesArguments ==
  ASSUME StatementInv
  PROVE  ArgumentsReachParameters
<1> SUFFICES ASSUME Sent PROVE ArgumentsReachParameters
  BY DEF ArgumentsReachParameters
<1>1. /\ database = Wanted
      /\ Requests \in DOMAIN Body => Body[Requests].json = "string"
      /\ sent.object = (IF database = NoDatabase THEN <<>> ELSE <<database>>) \o operation.path
      /\ call \in Calls
  BY DEF StatementInv, TypeOK
<1>2. Requests \in DOMAIN Body => Body[Requests].of # NoDatabase
  BY <1>1, CallParams
<1>3. (IF database = NoDatabase THEN <<>> ELSE <<database>>)
        = (IF Requests \in DOMAIN Body THEN <<Body[Requests].of>>
           ELSE IF config.default_database # NoDatabase THEN <<config.default_database>> ELSE <<>>)
  BY <1>1, <1>2 DEF Wanted
<1>4. sent.verb # "SELECT" => \A p \in operation.params : Received(p) = ArgumentOf(p)
  BY EachGetsItsOwn
<1> QED
  BY <1>1, <1>3, <1>4 DEF ArgumentsReachParameters

LEMMA InvImpliesNumericExact ==
  ASSUME StatementInv
  PROVE  NumericExact
<1> SUFFICES ASSUME Sent, sent.verb # "SELECT", NEW p \in operation.params,
                    p.type.base \in DecimalTypes, p.name \in DOMAIN Body
             PROVE  LET v == Body[p.name] IN
                    /\ v.json = "number" => IsNumber(v.of)
                    /\ v.json \in {"number", "string"} /\ IsNumber(v.of) =>
                         /\ Len(FracPart(Unsigned(v.of))) <= Scale(p.type)
                         /\ Received(p).value[1] =
                              [value |-> Written(v.of, Scale(p.type)), scale |-> Scale(p.type)]
  BY DEF NumericExact
<1> DEFINE v == Body[p.name]
<1>1. /\ call \in Calls /\ ArgumentOK(v) /\ p.type.size \in Seq(Nat)
  BY CallParams DEF StatementInv, TypeOK
<1>2. Received(p) = JsonToParam(v, p.type) /\ JsonToParam(v, p.type) # Refused
  BY EachGetsItsOwn DEF ArgumentOf
<1>3. Scale(p.type) \in Nat
  BY <1>1, ScaleType
<1> HIDE DEF v
<1>4. ASSUME v.json \in {"number", "string"}
      PROVE  /\ v.of \in Seq(STRING)
             /\ Readings(v, p.type) = ParseNumeric(v.of, Scale(p.type))
             /\ ParseNumeric(v.of, Scale(p.type)) # {}
             /\ Received(p).value = <<CHOOSE x \in ParseNumeric(v.of, Scale(p.type)) : TRUE>>
  <2>1. v.of \in Seq(STRING) /\ v.json # "null"
    BY <1>1, <1>4 DEF ArgumentOK
  <2>2. Readings(v, p.type) = ParseNumeric(v.of, Scale(p.type))
    BY <1>4, TypesApart DEF Readings
  <2> QED
    BY <1>2, <2>1, <2>2 DEF JsonToParam
<1>5. ASSUME v.json = "number" PROVE IsNumber(v.of)
  <2>1. JsonNumber(v.of)
    BY <1>1, <1>5 DEF ArgumentOK
  <2> QED
    BY <1>3, <1>4, <1>5, <2>1, ParsedJsonIsNumber
<1>6. ASSUME v.json \in {"number", "string"}, IsNumber(v.of)
      PROVE  /\ Len(FracPart(Unsigned(v.of))) <= Scale(p.type)
             /\ Received(p).value[1] =
                  [value |-> Written(v.of, Scale(p.type)), scale |-> Scale(p.type)]
  BY <1>3, <1>4, <1>6, ParseIsExact
<1> QED
  BY <1>5, <1>6 DEF v

LEMMA InvImpliesReadsBack ==
  ASSUME StatementInv
  PROVE  AnswersReadBack
<1> SUFFICES ASSUME stage = "answered", NEW r \in answer.rows
             PROVE  JsonToParam(r[2], r[1].type) = Received(r[1])
  BY DEF AnswersReadBack
<1>1. PICK p \in Columns : r = <<p, ColumnDataToJson(Received(p))>>
  BY DEF StatementInv
<1>2. Sent /\ sent.verb # "SELECT" /\ p \in operation.params /\ call \in Calls
  BY <1>1 DEF Sent, Columns, StatementInv, TypeOK
<1> DEFINE v == IF p.name \in DOMAIN Body THEN Body[p.name] ELSE Null
<1>3. Received(p) = JsonToParam(v, p.type) /\ JsonToParam(v, p.type) # Refused
  BY <1>2, EachGetsItsOwn DEF ArgumentOf
<1>4. ArgumentOK(v) /\ p.type.size \in Seq(Nat)
  <2>1. ArgumentOK(Null)
    BY DEF ArgumentOK, Null
  <2> QED
    BY <1>2, <2>1, CallParams
<1> HIDE DEF v
<1>5. JsonToParam(ColumnDataToJson(Received(p)), p.type) = Received(p)
  BY <1>3, <1>4, AnswerReadsBack
<1> QED
  BY <1>1, <1>5

\* The stages, and what is known of a statement in each of them.
THEOREM TypeCorrect == Spec => []TypeOK
<1>1. StatementInv => TypeOK
  BY DEF StatementInv
<1> QED
  BY <1>1, StatementInductive, PTL

\* Every parameter that has an argument gets the one of its own name, in the database that was
\* asked for: for any operation, any order of the JSON maps and any arguments.
THEOREM ArgumentsAlwaysReach == Spec => []ArgumentsReachParameters
  BY InvImpliesArguments, StatementInductive, PTL

\* A decimal parameter gets the number that is written in the argument, or the call is refused:
\* for any text, precision and scale.
THEOREM AlwaysExact == Spec => []NumericExact
  BY InvImpliesNumericExact, StatementInductive, PTL

\* Every value of an answer is read back as the value that SQL Server had.
THEOREM AnswersAlwaysReadBack == Spec => []AnswersReadBack
  BY InvImpliesReadsBack, StatementInductive, PTL

\* With read_only set, nothing but a view or a function is ever sent.
THEOREM ReadOnlyAlwaysKept == Spec => []ReadOnlyIsKept
<1>1. StatementInv => ReadOnlyIsKept
  BY DEF StatementInv, ReadOnlyIsKept
<1> QED
  BY <1>1, StatementInductive, PTL

\* No identifier of a statement ever needs a quote: the path, the database and the names of the
\* parameters are letters, digits and "_".
THEOREM NamesAlwaysPlain == Spec => []OnlyPlainNames
<1>1. ASSUME StatementInv PROVE OnlyPlainNames
  <2> SUFFICES ASSUME Sent PROVE OnlyPlainNames
    BY DEF OnlyPlainNames
  <2>1. /\ call \in Calls /\ (database = NoDatabase \/ database \in Plain)
        /\ Len(operation.path) = 2 /\ \A i \in 1 .. 2 : operation.path[i] \in Plain
        /\ sent.object = (IF database = NoDatabase THEN <<>> ELSE <<database>>) \o operation.path
        /\ \A i \in 1 .. Len(sent.names) : sent.names[i] \in Plain
    BY <1>1 DEF StatementInv, TypeOK
  <2>2. operation.path \in Seq(Plain)
    <3>1. operation.path \in Seq(STRING)
      BY <2>1, CallsAssumption DEF operation
    <3> QED
      BY <2>1, <3>1
  <2> DEFINE prefix == IF database = NoDatabase THEN <<>> ELSE <<database>>
  <2>3. prefix \in Seq(Plain)
    BY <2>1
  <2> HIDE DEF prefix
  <2>4. prefix \o operation.path \in Seq(Plain)
    BY <2>2, <2>3
  <2>5. sent.object \in Seq(Plain)
    BY <2>1, <2>4 DEF prefix
  <2>6. \A i \in 1 .. Len(sent.object) : sent.object[i] \in Plain
    BY <2>5
  <2> QED
    BY <2>1, <2>6 DEF OnlyPlainNames
<1> QED
  BY <1>1, StatementInductive, PTL
=============================================================================
