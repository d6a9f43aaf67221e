----------------------------- MODULE WindowsProofs -----------------------------
(***************************************************************************)
(* The window of a cycle, for any margins, days, digits and rows.  First   *)
(* what the digits of a counter are worth and how they compare as text;    *)
(* then the protocol.                                                      *)
(***************************************************************************)
EXTENDS MCDelta, DeltaCycleProofs, Integers, Sequences, FiniteSets, SequenceTheorems, WellFoundedInduction,
        NaturalsInduction, TLAPS

Less == {ss \in Nat \X Nat : ss[1] < ss[2]}

LEMMA LessIsWellFounded == IsWellFoundedOn(Less, Nat)
BY NatLessThanWellFounded DEF OpToRel, Less

LEMMA LeastExists ==
    ASSUME NEW T \in SUBSET Nat, T # {}
    PROVE  \E n \in T : \A m \in T : n <= m
<1>1. PICK x \in T : \A y \in T : ~(<<y, x>> \in Less)
  BY LessIsWellFounded, WFMin
<1>2. \A y \in T : ~(y < x)
  BY <1>1 DEF Less
<1> QED
  BY <1>2

\* A set of numbers that has 0 and goes on has them all.
LEMMA AllNumbers ==
    ASSUME NEW S, 0 \in S, \A n \in Nat : n \in S => n + 1 \in S
    PROVE  Nat \subseteq S
<1>1. SUFFICES ASSUME Nat \ S # {}
               PROVE  FALSE
  OBVIOUS
<1>2. PICK n \in Nat \ S : \A m \in Nat \ S : ~(<<m, n>> \in Less)
  BY <1>1, LessIsWellFounded, WFMin
<1>3. n - 1 \in Nat /\ n - 1 < n
  BY <1>2
<1>4. n - 1 \in S
  BY <1>2, <1>3 DEF Less
<1> QED
  BY <1>2, <1>3, <1>4

\* f is a recursion over the first n numbers: it starts with z and goes on with F.
Solves(f, n, z, F, T) ==
    f \in [0 .. n -> T] /\ f[0] = z /\ \A i \in 1 .. n : f[i] = F[<<i, f[i - 1]>>]

LEMMA Solution ==
    ASSUME NEW T, NEW z \in T, NEW F, F \in [Nat \X T -> T], NEW n \in Nat
    PROVE  \E f : Solves(f, n, z, F, T)
<1> DEFINE S == {m \in Nat : \E f : Solves(f, m, z, F, T)}
<1>1. 0 \in S
  <2>1. Solves([i \in 0 .. 0 |-> z], 0, z, F, T)
    BY DEF Solves
  <2> QED
    BY <2>1
<1>2. ASSUME NEW m \in Nat, m \in S
      PROVE  m + 1 \in S
  <2>1. PICK f : Solves(f, m, z, F, T)
    BY <1>2
  <2>2. /\ f \in [0 .. m -> T] /\ f[0] = z /\ F[<<m + 1, f[m]>>] \in T
        /\ \A i \in 1 .. m : f[i] = F[<<i, f[i - 1]>>]
    BY <2>1 DEF Solves
  <2>3. PICK g : g = [i \in 0 .. m + 1 |-> IF i = m + 1 THEN F[<<m + 1, f[m]>>] ELSE f[i]]
    OBVIOUS
  <2>4. g \in [0 .. m + 1 -> T]
    BY <2>2, <2>3
  <2>5. \A i \in 0 .. m : g[i] = f[i]
    BY <2>3
  <2>6. g[0] = z
    BY <2>2, <2>5
  <2>7. ASSUME NEW i \in 1 .. m + 1
        PROVE  g[i] = F[<<i, g[i - 1]>>]
    <3>1. CASE i = m + 1
      <4>1. i - 1 = m /\ m \in 0 .. m /\ i \in 0 .. m + 1 /\ m # m + 1
        BY <3>1
      <4>2. g[i] = F[<<m + 1, f[m]>>] /\ g[m] = f[m]
        BY <2>3, <2>5, <3>1, <4>1
      <4> QED
        BY <3>1, <4>1, <4>2
    <3>2. CASE i # m + 1
      <4>1. i \in 1 .. m /\ i \in 0 .. m /\ i - 1 \in 0 .. m
        BY <3>2
      <4> QED
        BY <2>2, <2>5, <4>1
    <3> QED
      BY <3>1, <3>2
  <2>8. Solves(g, m + 1, z, F, T)
    BY <2>4, <2>6, <2>7 DEF Solves
  <2> QED
    BY <2>8
<1>3. Nat \subseteq S
  <2> HIDE DEF S
  <2> QED
    BY <1>1, <1>2, AllNumbers
<1> QED
  BY <1>3

-------------------------------------------------------------------------------
(* The powers of the base.                                                  *)

LEMMA PowerFacts ==
    /\ Base \in Nat \ {0, 1} /\ Width \in Nat \ {0}
    /\ Win!Power \in [0 .. Width -> Nat] /\ Win!Power[0] = 1
    /\ \A i \in 1 .. Width : Win!Power[i] = Base * Win!Power[i - 1]
<1>1. Base \in Nat \ {0, 1} /\ Width \in Nat \ {0}
  BY WindowAssumption DEF Win!BoundsAssumption
<1>2. PICK F : F = [p \in Nat \X Nat |-> Base * p[2]]
  OBVIOUS
<1>3. F \in [Nat \X Nat -> Nat] /\ 1 \in Nat /\ \A i, m \in Nat : F[<<i, m>>] = Base * m
  BY <1>1, <1>2
<1>4. PICK f : /\ f \in [0 .. Width -> Nat] /\ f[0] = 1
               /\ \A i \in 1 .. Width : f[i] = F[<<i, f[i - 1]>>]
  <2>1. \E f : Solves(f, Width, 1, F, Nat)
    BY <1>1, <1>3, Solution
  <2> QED
    BY <2>1 DEF Solves
<1>5. ASSUME NEW i \in 1 .. Width
      PROVE  f[i] = Base * f[i - 1]
  <2>1. i \in Nat /\ i - 1 \in 0 .. Width /\ f[i - 1] \in Nat
    BY <1>1, <1>4
  <2> QED
    BY <1>3, <1>4, <2>1
<1>6. f = [i \in 0 .. Width |-> IF i = 0 THEN 1 ELSE Base * f[i - 1]]
  BY <1>1, <1>4, <1>5
<1>7. Win!Power = [i \in 0 .. Width |-> IF i = 0 THEN 1 ELSE Base * Win!Power[i - 1]]
  BY <1>6 DEF Win!Power
<1>8. /\ DOMAIN Win!Power = 0 .. Width /\ Win!Power[0] = 1
      /\ \A i \in 1 .. Width : Win!Power[i] = Base * Win!Power[i - 1]
  BY <1>1, <1>7
<1>9. \A i \in 0 .. Width : Win!Power[i] \in Nat
  <2> DEFINE S == {n \in Nat : n <= Width => Win!Power[n] \in Nat}
  <2>1. 0 \in S
    BY <1>8
  <2>2. ASSUME NEW n \in Nat, n \in S
        PROVE  n + 1 \in S
    BY <1>1, <1>8, <2>2
  <2>3. Nat \subseteq S
    <3> HIDE DEF S
    <3> QED
      BY <2>1, <2>2, AllNumbers
  <2> QED
    BY <2>3
<1> QED
  BY <1>1, <1>7, <1>8, <1>9

\* The powers grow.
LEMMA PowerGrows ==
    ASSUME NEW i \in 0 .. Width, NEW j \in i .. Width
    PROVE  Win!Power[i] >= 1 /\ Win!Power[i] <= Win!Power[j]
<1> USE PowerFacts
<1> DEFINE S == {n \in Nat : n <= Width => Win!Power[n] >= 1}
           U == {n \in Nat : i + n <= Width => Win!Power[i] <= Win!Power[i + n]}
<1>1. ASSUME NEW n \in 0 .. Width - 1
      PROVE  Win!Power[n + 1] >= 2 * Win!Power[n] /\ Win!Power[n] \in Nat /\ Win!Power[n + 1] \in Nat
  <2>1. n + 1 \in 1 .. Width /\ (n + 1) - 1 = n /\ n \in 0 .. Width /\ n + 1 \in 0 .. Width
    OBVIOUS
  <2>2. Win!Power[n + 1] = Base * Win!Power[n]
    BY <2>1
  <2>3. Win!Power[n] \in Nat /\ Win!Power[n + 1] \in Nat
    BY <2>1
  <2>4. \A p, b \in Nat : b >= 2 => b * p >= 2 * p
    OBVIOUS
  <2>5. Base \in Nat /\ Base >= 2
    OBVIOUS
  <2>6. Base * Win!Power[n] >= 2 * Win!Power[n]
    BY <2>3, <2>4, <2>5
  <2> QED
    BY <2>2, <2>3, <2>6
<1>2. Nat \subseteq S
  <2>1. 0 \in S
    OBVIOUS
  <2>2. ASSUME NEW n \in Nat, n \in S
        PROVE  n + 1 \in S
    <3>1. CASE n + 1 <= Width
      <4>1. n \in 0 .. Width - 1 /\ Win!Power[n] >= 1
        BY <2>2, <3>1
      <4>2. /\ Win!Power[n + 1] >= 2 * Win!Power[n]
            /\ Win!Power[n] \in Nat /\ Win!Power[n + 1] \in Nat
        BY <1>1, <4>1
      <4>3. Win!Power[n + 1] >= 1
        BY <4>1, <4>2
      <4> QED
        BY <4>3
    <3> QED
      BY <3>1
  <2> HIDE DEF S
  <2> QED
    BY <2>1, <2>2, AllNumbers
<1>3. Nat \subseteq U
  <2>1. 0 \in U
    OBVIOUS
  <2>2. ASSUME NEW n \in Nat, n \in U
        PROVE  n + 1 \in U
    <3>1. CASE i + n + 1 <= Width
      <4>1. i + n \in 0 .. Width - 1 /\ (i + n) + 1 = i + (n + 1)
        BY <3>1
      <4>2. Win!Power[(i + n) + 1] >= 2 * Win!Power[i + n] /\ Win!Power[i + n] \in Nat
            /\ Win!Power[(i + n) + 1] \in Nat
        BY <1>1, <4>1
      <4>3. Win!Power[i] <= Win!Power[i + n] /\ Win!Power[i] \in Nat
        BY <2>2, <4>1
      <4>4. \A a, b, c \in Nat : a <= b /\ c >= 2 * b => a <= c
        OBVIOUS
      <4>5. Win!Power[i] <= Win!Power[(i + n) + 1]
        BY <4>2, <4>3, <4>4
      <4> QED
        BY <4>1, <4>5
    <3>2. CASE ~(i + n + 1 <= Width)
      BY <3>2
    <3> QED
      BY <3>1, <3>2
  <2> HIDE DEF U
  <2> QED
    BY <2>1, <2>2, AllNumbers
<1>4. i \in Nat /\ j - i \in Nat /\ i + (j - i) = j /\ i <= Width /\ j <= Width
  OBVIOUS
<1>5. i \in S /\ j - i \in U
  BY <1>2, <1>3, <1>4
<1>6. Win!Power[i] >= 1
  BY <1>4, <1>5
<1>7. Win!Power[i] <= Win!Power[i + (j - i)]
  BY <1>4, <1>5
<1> QED
  BY <1>4, <1>6, <1>7

-------------------------------------------------------------------------------
(* What digits are worth.                                                   *)

Digit == 0 .. Base - 1

\* The value of the first i digits.
UpTo(t) == CHOOSE f : f = [i \in 0 .. Len(t) |-> IF i = 0 THEN 0 ELSE f[i - 1] * Base + t[i]]

LEMMA DigitFacts ==
    ASSUME NEW t \in Seq(Digit)
    PROVE  /\ UpTo(t) \in [0 .. Len(t) -> Nat] /\ UpTo(t)[0] = 0
           /\ \A i \in 1 .. Len(t) : /\ t[i] \in Digit /\ UpTo(t)[i] \in Nat /\ UpTo(t)[i - 1] \in Nat
                                     /\ UpTo(t)[i] = UpTo(t)[i - 1] * Base + t[i]
           /\ Win!Number(t) = UpTo(t)[Len(t)] /\ Win!Number(t) \in Nat
<1>1. Base \in Nat /\ Len(t) \in Nat /\ \A i \in 1 .. Len(t) : t[i] \in Digit /\ t[i] \in Nat
  BY PowerFacts DEF Digit
<1>2. PICK F : F = [p \in Nat \X Nat |-> p[2] * Base + (IF p[1] \in 1 .. Len(t) THEN t[p[1]] ELSE 0)]
  OBVIOUS
<1>3. F \in [Nat \X Nat -> Nat] /\ 0 \in Nat
  <2>1. ASSUME NEW p \in Nat \X Nat
        PROVE  p[2] * Base + (IF p[1] \in 1 .. Len(t) THEN t[p[1]] ELSE 0) \in Nat
    <3>1. p[2] \in Nat /\ p[2] * Base \in Nat
      BY <1>1
    <3>2. (IF p[1] \in 1 .. Len(t) THEN t[p[1]] ELSE 0) \in Nat
      BY <1>1
    <3> QED
      BY <3>1, <3>2
  <2> QED
    BY <1>2, <2>1
<1>4. \A i \in 1 .. Len(t), m \in Nat : F[<<i, m>>] = m * Base + t[i]
  BY <1>1, <1>2
<1>5. PICK f : /\ f \in [0 .. Len(t) -> Nat] /\ f[0] = 0
               /\ \A i \in 1 .. Len(t) : f[i] = F[<<i, f[i - 1]>>]
  <2>1. \E f : Solves(f, Len(t), 0, F, Nat)
    BY <1>1, <1>3, Solution
  <2> QED
    BY <2>1 DEF Solves
<1>6. ASSUME NEW i \in 1 .. Len(t)
      PROVE  f[i] = f[i - 1] * Base + t[i]
  <2>1. i - 1 \in 0 .. Len(t) /\ f[i - 1] \in Nat
    BY <1>1, <1>5
  <2> QED
    BY <1>4, <1>5, <2>1
<1>7. f = [i \in 0 .. Len(t) |-> IF i = 0 THEN 0 ELSE f[i - 1] * Base + t[i]]
  BY <1>1, <1>5, <1>6
<1>8. UpTo(t) = [i \in 0 .. Len(t) |-> IF i = 0 THEN 0 ELSE UpTo(t)[i - 1] * Base + t[i]]
  BY <1>7 DEF UpTo
<1>9. /\ UpTo(t)[0] = 0 /\ DOMAIN UpTo(t) = 0 .. Len(t)
      /\ \A i \in 1 .. Len(t) : UpTo(t)[i] = UpTo(t)[i - 1] * Base + t[i]
  BY <1>1, <1>8
<1>10. \A i \in 0 .. Len(t) : UpTo(t)[i] \in Nat
  <2> DEFINE S == {n \in Nat : n <= Len(t) => UpTo(t)[n] \in Nat}
  <2>1. 0 \in S
    BY <1>9
  <2>2. ASSUME NEW n \in Nat, n \in S
        PROVE  n + 1 \in S
    <3>1. CASE n + 1 <= Len(t)
      <4>1. n + 1 \in 1 .. Len(t) /\ UpTo(t)[n] \in Nat /\ (n + 1) - 1 = n
        BY <1>1, <2>2, <3>1
      <4>2. UpTo(t)[n + 1] = UpTo(t)[n] * Base + t[n + 1] /\ t[n + 1] \in Nat
        BY <1>1, <1>9, <4>1
      <4> QED
        BY <1>1, <4>1, <4>2
    <3> QED
      BY <1>1, <3>1
  <2>3. Nat \subseteq S
    <3> HIDE DEF S
    <3> QED
      BY <2>1, <2>2, AllNumbers
  <2> QED
    BY <1>1, <2>3
<1>11. Win!Number(t) = UpTo(t)[Len(t)]
  BY DEF Win!Number, UpTo
<1>12. UpTo(t) \in [0 .. Len(t) -> Nat]
  <2> HIDE DEF UpTo
  <2>1. PICK g : g = UpTo(t)
    OBVIOUS
  <2>2. g = [i \in 0 .. Len(t) |-> IF i = 0 THEN 0 ELSE g[i - 1] * Base + t[i]]
    BY <1>8, <2>1
  <2>3. \A i \in 0 .. Len(t) : g[i] \in Nat
    BY <1>10, <2>1
  <2>4. g \in [0 .. Len(t) -> Nat]
    BY <2>2, <2>3
  <2> QED
    BY <2>1, <2>4
<1>13. \A i \in 1 .. Len(t) : i \in 0 .. Len(t) /\ i - 1 \in 0 .. Len(t)
  BY <1>1
<1>14. Len(t) \in 0 .. Len(t)
  BY <1>1
<1> QED
  BY <1>1, <1>9, <1>10, <1>11, <1>12, <1>13, <1>14

\* How many digits a number has.
LEMMA NumeralDigits ==
    ASSUME NEW n \in Nat, n < Win!Power[Width]
    PROVE  \E l \in 1 .. Width :
              /\ n < Win!Power[l] /\ (l = 1 \/ n >= Win!Power[l - 1])
              /\ Win!Numeral(n) = [i \in 1 .. l |-> (n \div Win!Power[l - i]) % Base]
<1> DEFINE Fits(l) == n < Win!Power[l] /\ (l = 1 \/ n >= Win!Power[l - 1])
<1>1. \E l \in 1 .. Width : Fits(l)
  <2>1. PICK T : T = {l \in 1 .. Width : n < Win!Power[l]}
    OBVIOUS
  <2>2. Width \in T /\ T \in SUBSET Nat
    BY <2>1, PowerFacts
  <2>3. PICK l \in T : \A m \in T : l <= m
    BY <2>2, LeastExists
  <2>4. l \in 1 .. Width /\ n < Win!Power[l]
    BY <2>1
  <2>5. CASE l # 1
    <3>1. l - 1 \in 1 .. Width /\ l - 1 \notin T /\ Win!Power[l - 1] \in Nat
      BY <2>3, <2>4, <2>5, PowerFacts
    <3> QED
      BY <2>1, <2>4, <3>1
  <2> QED
    BY <2>4, <2>5
<1>2. PICK l \in 1 .. Width :
         /\ Fits(l)
         /\ l = CHOOSE k \in 1 .. Width : n < Win!Power[k] /\ (k = 1 \/ n >= Win!Power[k - 1])
  BY <1>1
<1> QED
  BY <1>2 DEF Win!Numeral

LEMMA Division ==
    ASSUME NEW a \in Nat, NEW b \in Nat \ {0}
    PROVE  \E q, r \in Nat : a \div b = q /\ a % b = r /\ r < b /\ a = b * q + r
<1>1. /\ a \div b \in Nat /\ b * (a \div b) <= a /\ a < b * (a \div b) + b
      /\ b * (a \div b) \in Nat
  OBVIOUS
<1>2. a % b \in 0 .. b - 1
  OBVIOUS
<1>3. a % b = a - b * (a \div b)
  OBVIOUS
<1>4. PICK q \in Nat, r \in Nat : a \div b = q /\ a % b = r
  BY <1>1, <1>2
<1>5. r < b /\ b * q \in Nat /\ r = a - b * q
  BY <1>1, <1>2, <1>3, <1>4
<1> QED
  BY <1>4, <1>5

LEMMA Quotient ==
    ASSUME NEW a \in Nat, NEW b \in Nat \ {0}, NEW q \in Nat, NEW r \in Nat, a = b * q + r, r < b
    PROVE  a \div b = q /\ a % b = r
<1>1. a \div b = q
  OBVIOUS
<1>2. a % b = r
  OBVIOUS
<1> QED
  BY <1>1, <1>2

\* A quotient's last digit.
LEMMA NextDigit ==
    ASSUME NEW n \in Nat, NEW p \in Nat \ {0}, NEW b \in Nat \ {0}
    PROVE  /\ n \div p \in Nat /\ (n \div p) % b \in 0 .. b - 1
           /\ n \div p = (n \div (b * p)) * b + ((n \div p) % b)
<1>1. PICK q \in Nat, r \in Nat : n \div p = q /\ r < p /\ n = p * q + r
  BY Division
<1>2. PICK s \in Nat, e \in Nat : q \div b = s /\ q % b = e /\ e < b /\ q = b * s + e
  BY Division
<1>3. b * p \in Nat \ {0} /\ p * e \in Nat /\ p * e + r \in Nat
  OBVIOUS
<1>4. n = (b * p) * s + (p * e + r)
  <2>1. n = p * (b * s + e) + r
    BY <1>1, <1>2
  <2> QED
    BY <2>1
<1>5. p * e + r < b * p
  <2>1. PICK d \in Nat : b = e + 1 + d
    BY <1>2
  <2>2. b * p = p * e + p + d * p /\ d * p \in Nat
    BY <2>1
  <2> QED
    BY <1>1, <1>3, <2>2
<1>6. n \div (b * p) = s
  <2>1. PICK c \in Nat \ {0}, y \in Nat : c = b * p /\ y = p * e + r
    BY <1>3
  <2>2. n = c * s + y /\ y < c
    BY <1>4, <1>5, <2>1
  <2> QED
    BY <2>1, <2>2, Quotient
<1>7. q = s * b + e /\ e \in 0 .. b - 1
  BY <1>2
<1> QED
  BY <1>1, <1>2, <1>6, <1>7

\* A numeral is worth its number.
LEMMA NumeralValue ==
    ASSUME NEW n \in Nat, n < Win!Power[Width]
    PROVE  /\ Win!Numeral(n) \in Seq(Digit) /\ Len(Win!Numeral(n)) \in 1 .. Width
           /\ n < Win!Power[Len(Win!Numeral(n))]
           /\ Len(Win!Numeral(n)) = 1 \/ n >= Win!Power[Len(Win!Numeral(n)) - 1]
           /\ Win!Number(Win!Numeral(n)) = n
<1> USE PowerFacts
<1>1. PICK l \in 1 .. Width :
              /\ n < Win!Power[l] /\ (l = 1 \/ n >= Win!Power[l - 1])
              /\ Win!Numeral(n) = [i \in 1 .. l |-> (n \div Win!Power[l - i]) % Base]
  BY NumeralDigits
<1>2. PICK t : t = Win!Numeral(n)
  OBVIOUS
<1>3. ASSUME NEW i \in 1 .. l
      PROVE  /\ t[i] = (n \div Win!Power[l - i]) % Base /\ t[i] \in Digit
             /\ n \div Win!Power[l - i] = (n \div Win!Power[l - (i - 1)]) * Base + t[i]
  <2>1. t[i] = (n \div Win!Power[l - i]) % Base
    BY <1>1, <1>2
  <2>2. l - i \in 0 .. Width /\ l - (i - 1) \in 1 .. Width /\ l - (i - 1) - 1 = l - i
    OBVIOUS
  <2>3. Win!Power[l - i] \in Nat \ {0} /\ Win!Power[l - (i - 1)] = Base * Win!Power[l - i]
    BY <2>2, PowerGrows
  <2>4. /\ (n \div Win!Power[l - i]) % Base \in 0 .. Base - 1
        /\ n \div Win!Power[l - i] =
              (n \div (Base * Win!Power[l - i])) * Base + ((n \div Win!Power[l - i]) % Base)
    BY <2>3, NextDigit
  <2>5. t[i] \in Digit
    BY <2>1, <2>4 DEF Digit
  <2>6. n \div Win!Power[l - i] = (n \div Win!Power[l - (i - 1)]) * Base + t[i]
    BY <2>1, <2>3, <2>4
  <2> QED
    BY <2>1, <2>5, <2>6
<1>4. t \in Seq(Digit) /\ Len(t) = l
  <2>1. t = [i \in 1 .. l |-> t[i]] /\ l \in Nat
    BY <1>1, <1>2, <1>3
  <2>2. \A i \in 1 .. l : t[i] \in Digit
    BY <1>3
  <2> QED
    BY <2>1, <2>2
<1>5. UpTo(t)[l] = n \div Win!Power[l - l]
  <2> DEFINE S == {k \in Nat : k <= l => UpTo(t)[k] = n \div Win!Power[l - k]}
  <2>1. 0 \in S
    <3>1. n \div Win!Power[l] = 0
      <4>1. PICK p \in Nat \ {0} : p = Win!Power[l]
        BY <1>1
      <4>2. n = p * 0 + n /\ n < p /\ 0 \in Nat
        BY <1>1, <4>1
      <4> QED
        BY <4>1, <4>2, Quotient
    <3>2. UpTo(t)[0] = 0 /\ l - 0 = l
      BY <1>4, DigitFacts
    <3> QED
      BY <3>1, <3>2
  <2>2. ASSUME NEW k \in Nat, k \in S
        PROVE  k + 1 \in S
    <3>1. CASE k + 1 <= l
      <4>1. k + 1 \in 1 .. l /\ (k + 1) - 1 = k /\ UpTo(t)[k] = n \div Win!Power[l - k]
        BY <2>2, <3>1
      <4>2. n \div Win!Power[l - (k + 1)] = (n \div Win!Power[l - k]) * Base + t[k + 1]
        BY <1>3, <4>1
      <4>3. UpTo(t)[k + 1] = UpTo(t)[k] * Base + t[k + 1]
        BY <1>4, <4>1, DigitFacts
      <4> QED
        BY <4>1, <4>2, <4>3
    <3> QED
      BY <3>1
  <2>3. Nat \subseteq S
    <3> HIDE DEF S
    <3> QED
      BY <2>1, <2>2, AllNumbers
  <2> QED
    BY <2>3
<1>6. n \div Win!Power[l - l] = n
  OBVIOUS
<1>7. Win!Number(t) = n
  BY <1>4, <1>5, <1>6, DigitFacts
<1> QED
  BY <1>1, <1>2, <1>4, <1>7

\* Noughts in front are worth nothing.
LEMMA Padded ==
    ASSUME NEW t \in Seq(Digit), NEW w \in Nat, Len(t) <= w
    PROVE  /\ Win!PadTo(t, w) \in Seq(Digit) /\ Len(Win!PadTo(t, w)) = w
           /\ Win!Number(Win!PadTo(t, w)) = Win!Number(t)
<1>0. Base \in Nat \ {0, 1} /\ \A x \in Digit : x \in Nat /\ x < Base
  BY PowerFacts DEF Digit
<1>1. PICK k \in Nat : w = k + Len(t) /\ w - Len(t) = k
  <2>1. Len(t) \in Nat
    BY LenProperties
  <2>2. w - Len(t) \in Nat /\ w = (w - Len(t)) + Len(t)
    BY <2>1
  <2> QED
    BY <2>2
<1>2. PICK z : z = [i \in 1 .. k |-> 0]
  OBVIOUS
<1>3. 0 \in Digit
  BY <1>0 DEF Digit
<1>4. z \in Seq(Digit) /\ Len(z) = k
  BY <1>2, <1>3
<1>5. PICK p : p = z \o t
  OBVIOUS
<1>6. Win!PadTo(t, w) = p
  BY <1>1, <1>2, <1>5 DEF Win!PadTo
<1>7. /\ p \in Seq(Digit) /\ Len(p) = w
      /\ \A i \in 1 .. k : p[i] = 0
      /\ \A i \in 1 .. Len(t) : p[k + i] = t[i]
  <2>1. /\ p \in Seq(Digit) /\ Len(p) = Len(z) + Len(t)
        /\ \A i \in 1 .. Len(z) + Len(t) : p[i] = IF i <= Len(z) THEN z[i] ELSE t[i - Len(z)]
    BY <1>4, <1>5, ConcatProperties
  <2>2. ASSUME NEW i \in 1 .. k
        PROVE  p[i] = 0
    BY <1>1, <1>2, <1>4, <2>1
  <2>3. ASSUME NEW i \in 1 .. Len(t)
        PROVE  p[k + i] = t[i]
    <3>1. k + i \in 1 .. k + Len(t) /\ ~(k + i <= k) /\ (k + i) - k = i
      BY <1>1, LenProperties
    <3> QED
      BY <1>4, <2>1, <3>1
  <2> QED
    BY <1>1, <1>4, <2>1, <2>2, <2>3, LenProperties
<1>8. UpTo(p)[k] = 0
  <2> DEFINE S == {n \in Nat : n <= k => UpTo(p)[n] = 0}
  <2>1. 0 \in S
    BY <1>7, DigitFacts
  <2>2. ASSUME NEW n \in Nat, n \in S
        PROVE  n + 1 \in S
    <3>1. CASE n + 1 <= k
      <4>1. /\ n + 1 \in 1 .. Len(p) /\ n + 1 \in 1 .. k /\ (n + 1) - 1 = n
            /\ UpTo(p)[n] = 0 /\ p[n + 1] = 0
        BY <1>1, <1>7, <2>2, <3>1, LenProperties
      <4>2. UpTo(p)[n + 1] = UpTo(p)[n] * Base + p[n + 1]
        BY <1>7, <4>1, DigitFacts
      <4> QED
        BY <1>0, <4>1, <4>2
    <3> QED
      BY <3>1
  <2>3. Nat \subseteq S
    <3> HIDE DEF S
    <3> QED
      BY <2>1, <2>2, AllNumbers
  <2> QED
    BY <2>3
<1>9. UpTo(p)[k + Len(t)] = UpTo(t)[Len(t)]
  <2> DEFINE S == {n \in Nat : n <= Len(t) => UpTo(p)[k + n] = UpTo(t)[n]}
  <2>1. 0 \in S
    BY <1>8, DigitFacts
  <2>2. ASSUME NEW n \in Nat, n \in S
        PROVE  n + 1 \in S
    <3>1. CASE n + 1 <= Len(t)
      <4>1. /\ n + 1 \in 1 .. Len(t) /\ k + (n + 1) \in 1 .. Len(p) /\ (n + 1) - 1 = n
            /\ (k + (n + 1)) - 1 = k + n /\ UpTo(p)[k + n] = UpTo(t)[n]
            /\ p[k + (n + 1)] = t[n + 1]
        BY <1>1, <1>7, <2>2, <3>1
      <4>2. UpTo(p)[k + (n + 1)] = UpTo(p)[k + n] * Base + p[k + (n + 1)]
        BY <1>7, <4>1, DigitFacts
      <4>3. UpTo(t)[n + 1] = UpTo(t)[n] * Base + t[n + 1]
        BY <4>1, DigitFacts
      <4> QED
        BY <4>1, <4>2, <4>3
    <3> QED
      BY <3>1
  <2>3. Nat \subseteq S
    <3> HIDE DEF S
    <3> QED
      BY <2>1, <2>2, AllNumbers
  <2> QED
    BY <2>3
<1>10. Win!Number(p) = Win!Number(t)
  BY <1>1, <1>7, <1>9, DigitFacts
<1> QED
  BY <1>6, <1>7, <1>10

LEMMA Carry ==
    ASSUME NEW p \in Nat, NEW q \in Nat, NEW d \in Nat, NEW e \in Nat, NEW b \in Nat,
           p < q, d < b
    PROVE  p * b + d < q * b + e
<1>1. PICK c \in Nat : q = p + 1 + c
  <2>1. q - (p + 1) \in Nat /\ q = p + 1 + (q - (p + 1))
    OBVIOUS
  <2> QED
    BY <2>1
<1>2. q * b = p * b + b + c * b /\ c * b \in Nat /\ p * b \in Nat
  BY <1>1
<1> QED
  BY <1>2

\* Of two texts of one length the lesser one is worth less.
LEMMA LessText ==
    ASSUME NEW a \in Seq(Digit), NEW b \in Seq(Digit), Len(a) = Len(b), Win!TextLess(a, b)
    PROVE  Win!Number(a) < Win!Number(b)
<1>0. Base \in Nat \ {0, 1} /\ \A x \in Digit : x \in Nat /\ x < Base
  BY PowerFacts DEF Digit
<1>1. PICK i \in 1 .. Len(b) : a[i] < b[i] /\ \A j \in 1 .. i - 1 : a[j] = b[j]
  <2>1. Len(a) \in Nat /\ Len(b) \in Nat
    BY LenProperties
  <2>2. PICK i \in 1 .. Len(b) : /\ i <= Len(a) => a[i] < b[i]
                                 /\ \A j \in 1 .. i - 1 : j <= Len(a) /\ a[j] = b[j]
    BY DEF Win!TextLess
  <2>3. i <= Len(a)
    BY <2>1
  <2> QED
    BY <2>2, <2>3
<1>2. i \in Nat /\ i - 1 \in Nat /\ Len(a) \in Nat
  BY LenProperties
<1>3. UpTo(a)[i - 1] = UpTo(b)[i - 1]
  <2> DEFINE S == {n \in Nat : n <= i - 1 => UpTo(a)[n] = UpTo(b)[n]}
  <2>1. 0 \in S
    BY DigitFacts
  <2>2. ASSUME NEW n \in Nat, n \in S
        PROVE  n + 1 \in S
    <3>1. CASE n + 1 <= i - 1
      <4>1. /\ n + 1 \in 1 .. Len(a) /\ n + 1 \in 1 .. Len(b) /\ (n + 1) - 1 = n
            /\ UpTo(a)[n] = UpTo(b)[n] /\ a[n + 1] = b[n + 1]
        BY <1>1, <1>2, <2>2, <3>1
      <4>2. UpTo(a)[n + 1] = UpTo(a)[n] * Base + a[n + 1]
        BY <4>1, DigitFacts
      <4>3. UpTo(b)[n + 1] = UpTo(b)[n] * Base + b[n + 1]
        BY <4>1, DigitFacts
      <4> QED
        BY <4>1, <4>2, <4>3
    <3> QED
      BY <3>1
  <2>3. Nat \subseteq S
    <3> HIDE DEF S
    <3> QED
      BY <2>1, <2>2, AllNumbers
  <2> QED
    BY <1>2, <2>3
<1>4. UpTo(a)[i] < UpTo(b)[i]
  <2>1. /\ UpTo(a)[i] = UpTo(a)[i - 1] * Base + a[i] /\ a[i] \in Digit /\ UpTo(a)[i - 1] \in Nat
        /\ UpTo(b)[i] = UpTo(b)[i - 1] * Base + b[i] /\ b[i] \in Digit
    BY DigitFacts
  <2>2. PICK m \in Nat : m = UpTo(a)[i - 1] * Base
    BY <1>0, <2>1
  <2>3. UpTo(a)[i] = m + a[i] /\ UpTo(b)[i] = m + b[i] /\ a[i] \in Nat /\ b[i] \in Nat
    BY <1>0, <1>3, <2>1, <2>2
  <2> QED
    BY <1>1, <2>3
<1>5. UpTo(a)[i + (Len(a) - i)] < UpTo(b)[i + (Len(a) - i)]
  <2> DEFINE S == {n \in Nat : i + n <= Len(a) => UpTo(a)[i + n] < UpTo(b)[i + n]}
  <2>1. 0 \in S
    BY <1>4
  <2>2. ASSUME NEW n \in Nat, n \in S
        PROVE  n + 1 \in S
    <3>1. CASE i + (n + 1) <= Len(a)
      <4>1. /\ i + (n + 1) \in 1 .. Len(a) /\ i + (n + 1) \in 1 .. Len(b) /\ (i + (n + 1)) - 1 = i + n
            /\ UpTo(a)[i + n] < UpTo(b)[i + n]
        BY <2>2, <3>1
      <4>2. /\ UpTo(a)[i + (n + 1)] = UpTo(a)[i + n] * Base + a[i + (n + 1)]
            /\ UpTo(b)[i + (n + 1)] = UpTo(b)[i + n] * Base + b[i + (n + 1)]
            /\ a[i + (n + 1)] \in Digit /\ b[i + (n + 1)] \in Digit
            /\ UpTo(a)[i + n] \in Nat /\ UpTo(b)[i + n] \in Nat
        BY <4>1, DigitFacts
      <4>3. PICK p \in Nat, q \in Nat, d \in Nat, e \in Nat :
               /\ p = UpTo(a)[i + n] /\ q = UpTo(b)[i + n]
               /\ d = a[i + (n + 1)] /\ e = b[i + (n + 1)] /\ d < Base /\ p < q
        BY <1>0, <4>1, <4>2
      <4>4. p * Base + d < q * Base + e
        BY <1>0, <4>3, Carry
      <4> QED
        BY <4>2, <4>3, <4>4
    <3> QED
      BY <3>1
  <2>3. Nat \subseteq S
    <3> HIDE DEF S
    <3> QED
      BY <2>1, <2>2, AllNumbers
  <2>4. Len(a) - i \in Nat /\ i + (Len(a) - i) <= Len(a)
    BY <1>2
  <2> QED
    BY <2>3, <2>4
<1>6. i + (Len(a) - i) = Len(a)
  BY <1>2
<1> QED
  BY <1>5, <1>6, DigitFacts

\* Texts of one length are compared as numbers are.
LEMMA TextOrder ==
    ASSUME NEW a \in Seq(Digit), NEW b \in Seq(Digit), Len(a) = Len(b)
    PROVE  Win!TextLess(a, b) <=> Win!Number(a) < Win!Number(b)
<1>1. Win!Number(a) \in Nat /\ Win!Number(b) \in Nat
  BY DigitFacts
<1>2. Win!TextLess(a, b) => Win!Number(a) < Win!Number(b)
  BY LessText
<1>3. Win!TextLess(b, a) => Win!Number(b) < Win!Number(a)
  BY LessText
<1>4. ASSUME a # b
      PROVE  Win!TextLess(a, b) \/ Win!TextLess(b, a)
  <2>1. PICK T : T = {i \in 1 .. Len(a) : a[i] # b[i]}
    OBVIOUS
  <2>2. T # {} /\ T \in SUBSET Nat
    BY <1>4, <2>1
  <2>3. PICK i \in T : \A j \in T : i <= j
    BY <2>2, LeastExists
  <2>4. i \in 1 .. Len(a) /\ a[i] # b[i] /\ i \in Nat
    BY <2>1, <2>3
  <2>5. \A j \in 1 .. i - 1 : a[j] = b[j] /\ j <= Len(a)
    BY <2>1, <2>3, <2>4
  <2>6. a[i] \in Nat /\ b[i] \in Nat
    <3>1. \A x \in Digit : x \in Nat
      BY PowerFacts DEF Digit
    <3> QED
      BY <2>4, <3>1
  <2>7. CASE a[i] < b[i]
    BY <2>4, <2>5, <2>7 DEF Win!TextLess
  <2>8. CASE b[i] < a[i]
    BY <2>4, <2>5, <2>8 DEF Win!TextLess
  <2> QED
    BY <2>4, <2>6, <2>7, <2>8
<1> QED
  BY <1>1, <1>2, <1>3, <1>4

\* A number of fewer digits is less.
LEMMA FewerDigits ==
    ASSUME NEW m \in Nat, m < Win!Power[Width], NEW n \in Nat, n < Win!Power[Width],
           Len(Win!Numeral(m)) < Len(Win!Numeral(n))
    PROVE  m < n
<1>1. PICK k, l : k = Len(Win!Numeral(m)) /\ l = Len(Win!Numeral(n))
  OBVIOUS
<1>2. /\ k \in 1 .. Width /\ m < Win!Power[k]
      /\ l \in 1 .. Width /\ (l = 1 \/ n >= Win!Power[l - 1])
  BY <1>1, NumeralValue
<1>3. k < l
  BY <1>1
<1>4. Width \in Nat
  BY PowerFacts
<1>5. k \in 0 .. Width /\ l - 1 \in k .. Width /\ n >= Win!Power[l - 1] /\ l - 1 \in 0 .. Width
  BY <1>2, <1>3, <1>4
<1>6. Win!Power[k] <= Win!Power[l - 1]
  BY <1>5, PowerGrows
<1>7. Win!Power[k] \in Nat /\ Win!Power[l - 1] \in Nat
  BY <1>5, PowerFacts
<1> QED
  BY <1>2, <1>5, <1>6, <1>7

LEMMA MinusFacts ==
    ASSUME NEW m \in Nat, NEW n \in Nat
    PROVE  /\ SafetyUnits \in Nat
           /\ Win!Minus(n, SafetyUnits) \in Nat /\ Win!Minus(n, SafetyUnits) <= n
           /\ m <= n => Win!Minus(m, SafetyUnits) <= Win!Minus(n, SafetyUnits)
BY WindowAssumption DEF Win!BoundsAssumption, Win!Minus

\* LessUnits takes the margin off and keeps the digits.
LEMMA LessUnitsFacts ==
    ASSUME NEW t \in Seq(Digit), Len(t) \in 1 .. Width, Win!Number(t) < Win!Power[Width]
    PROVE  LET less == Win!Minus(Win!Number(t), SafetyUnits)
               l    == Win!LessUnits(t)
           IN /\ l \in Seq(Digit) /\ Len(l) \in 1 .. Width /\ Win!Number(l) = less
              /\ Len(Win!Numeral(less)) <= Len(t) => Len(l) = Len(t)
<1> DEFINE less == Win!Minus(Win!Number(t), SafetyUnits)
           num  == Win!Numeral(less)
<1>1. less \in Nat /\ less < Win!Power[Width]
  <2>1. Win!Number(t) \in Nat /\ Win!Power[Width] \in Nat
    BY DigitFacts, PowerFacts
  <2> QED
    BY <2>1, MinusFacts
<1>2. num \in Seq(Digit) /\ Len(num) \in 1 .. Width /\ Win!Number(num) = less
  BY <1>1, NumeralValue
<1>3. Len(t) \in Nat /\ Width \in Nat
  BY PowerFacts
<1> HIDE DEF less, num
<1>4. CASE Len(num) < Len(t)
  <2>1. /\ Win!PadTo(num, Len(t)) \in Seq(Digit) /\ Len(Win!PadTo(num, Len(t))) = Len(t)
        /\ Win!Number(Win!PadTo(num, Len(t))) = Win!Number(num)
    BY <1>2, <1>3, <1>4, Padded
  <2>2. Win!LessUnits(t) = Win!PadTo(num, Len(t))
    BY <1>4 DEF Win!LessUnits, num, less
  <2> QED
    BY <1>2, <2>1, <2>2 DEF num, less
<1>5. CASE ~(Len(num) < Len(t))
  <2>1. Win!LessUnits(t) = num
    BY <1>5 DEF Win!LessUnits, num, less
  <2>2. Len(num) <= Len(t) => Len(num) = Len(t)
    BY <1>2, <1>3, <1>5
  <2> QED
    BY <1>2, <2>1, <2>2 DEF num, less
<1> QED
  BY <1>4, <1>5

\* How StagedMax writes a row's counter.
Text(n) == IF kind = "NUMC" THEN Win!PadTo(Win!Numeral(n), Width) ELSE Win!Numeral(n)

\* The position that a row's counter leads to.
LEMMA PositionOf ==
    ASSUME NEW n \in Nat, n < Win!Power[Width]
    PROVE  /\ Text(n) \in Seq(Digit) /\ Len(Text(n)) \in 1 .. Width /\ Win!Number(Text(n)) = n
           /\ Win!LessUnits(Text(n)) \in Seq(Digit)
           /\ Len(Win!LessUnits(Text(n))) = Len(Text(n))
           /\ Win!Number(Win!LessUnits(Text(n))) = Win!Minus(n, SafetyUnits)
<1>1. /\ Win!Numeral(n) \in Seq(Digit) /\ Len(Win!Numeral(n)) \in 1 .. Width
      /\ Win!Number(Win!Numeral(n)) = n /\ Width \in Nat \ {0}
  BY NumeralValue, PowerFacts
<1>2. /\ Win!PadTo(Win!Numeral(n), Width) \in Seq(Digit) /\ Len(Win!PadTo(Win!Numeral(n), Width)) = Width
      /\ Win!Number(Win!PadTo(Win!Numeral(n), Width)) = n
  BY <1>1, Padded
<1>3. Text(n) \in Seq(Digit) /\ Len(Text(n)) \in 1 .. Width /\ Win!Number(Text(n)) = n
  BY <1>1, <1>2 DEF Text
<1>4. PICK less : less = Win!Minus(n, SafetyUnits)
  OBVIOUS
<1>5. less \in Nat /\ less <= n /\ less < Win!Power[Width]
  BY <1>4, MinusFacts, PowerFacts
<1>6. Len(Win!Numeral(less)) <= Len(Text(n))
  <2>1. Len(Win!Numeral(less)) \in 1 .. Width
    BY <1>5, NumeralValue
  <2>2. ~(Len(Win!Numeral(n)) < Len(Win!Numeral(less)))
    BY <1>5, FewerDigits
  <2> QED
    BY <1>1, <1>2, <2>1, <2>2 DEF Text
<1> QED
  BY <1>3, <1>4, <1>6, LessUnitsFacts

-------------------------------------------------------------------------------
(* The protocol: what holds whatever the margins are.                       *)

Clock == Win!Clock

Written == Win!Written

\* What the rows, the replica and the source have to do with each other.
Shape ==
    /\ kind \in Kinds /\ kind \in {"DATE", "DATETIME", "NUMC", "INT4"} /\ now \in 0 .. MaxNow
    /\ value \in Seq(Nat) /\ Len(value) <= MaxRows[kind]
    /\ open \subseteq Written /\ gone \subseteq Written \ open /\ adopted \subseteq Written
    /\ replica \subseteq Written \ open

\* No row is from the future, and a counter counts the rows.
Stamped ==
    /\ kind = "DATE" => \A r \in Written : value[r] <= now \div Day
    /\ kind = "DATETIME" => \A r \in Written : value[r] <= now
    /\ kind \notin Clock => \A r \in Written : value[r] = r

\* The position of a counter is the one that the m-th row leads to.
Reached(m) == wm = Win!LessUnits(Text(m))

PositionShape ==
    wm # NoValue => IF kind \in Clock THEN wm \in Int ELSE \E m \in Written : Reached(m)

CycleShape ==
    /\ cycle = [pc |-> cycle.pc, load |-> cycle.load, plan |-> cycle.plan, due |-> cycle.due,
                stage |-> cycle.stage]
    /\ cycle.pc \in {"idle", "read", "commit"} /\ cycle.load \in {"D", "F", "I", "L"}
    /\ cycle.due \subseteq Written \ open /\ cycle.stage \subseteq Written \ open
    /\ cycle.pc = "read" => cycle.load # "I"
    /\ cycle.pc # "idle" /\ kind \in Clock => cycle.plan.next \in Int

\* A reload reads all that there is, so that it puts back what it takes away.
ReloadInv ==
    /\ cycle.pc = "read" /\ Win!Truncates(cycle.load) =>
          cycle.plan.floor = NoValue /\ cycle.plan.below = NoValue
    /\ cycle.pc = "commit" /\ Win!Truncates(cycle.load) => replica \ gone \subseteq cycle.stage

PlainInv == Shape /\ Stamped /\ PositionShape /\ CycleShape /\ ReloadInv

LEMMA ConstantFacts ==
    /\ Kinds \subseteq {"DATE", "DATETIME", "NUMC", "INT4"} /\ MaxRows \in [Kinds -> Nat]
    /\ MaxNow \in Nat /\ Day \in Nat \ {0} /\ SafetySecs \in Nat /\ SafetyUnits \in Nat
    /\ Skew \in Nat /\ \A k \in Kinds : MaxRows[k] < Win!Power[Width]
    /\ NoValue \notin Int /\ NoValue \notin Win!Digits
BY WindowAssumption DEF Win!BoundsAssumption

LEMMA Days ==
    ASSUME NEW a \in Nat, NEW b \in Nat, a <= b
    PROVE  a \div Day \in Nat /\ b \div Day \in Nat /\ a \div Day <= b \div Day
<1>1. PICK d \in Nat \ {0} : d = Day
  BY ConstantFacts
<1>2. PICK p \in Nat, c \in Nat : a \div d = p /\ a = d * p + c /\ c < d
  BY <1>1, Division
<1>3. PICK q \in Nat, e \in Nat : b \div d = q /\ b = d * q + e /\ e < d
  BY <1>1, Division
<1>4. ASSUME q < p
      PROVE  FALSE
  <2>1. PICK k \in Nat : p = q + 1 + k
    <3>1. p - (q + 1) \in Nat /\ p = q + 1 + (p - (q + 1))
      BY <1>4
    <3> QED
      BY <3>1
  <2>2. d * p = d * q + d + d * k /\ d * k \in Nat /\ d * q \in Nat
    BY <2>1
  <2> QED
    BY <1>2, <1>3, <2>2
<1> QED
  BY <1>1, <1>2, <1>3, <1>4

\* A number is a sequence's index.
LEMMA RowFacts ==
    ASSUME Shape
    PROVE  /\ Len(value) \in Nat /\ Written = 1 .. Len(value)
           /\ \A r \in Written : r \in Nat /\ r < Win!Power[Width] /\ value[r] \in Nat
<1>1. Len(value) \in Nat /\ Written = 1 .. Len(value) /\ \A r \in Written : value[r] \in Nat
  BY LenProperties DEF Shape, Written, Win!Written
<1>2. Win!Power[Width] \in Nat /\ MaxRows[kind] \in Nat /\ MaxRows[kind] < Win!Power[Width]
  BY ConstantFacts, PowerFacts DEF Shape
<1>3. Len(value) <= MaxRows[kind]
  BY DEF Shape
<1> QED
  BY <1>1, <1>2, <1>3

\* A text of digits is one of Digits, and never NoValue.
LEMMA TextIsDigits ==
    ASSUME NEW t \in Seq(Digit), Len(t) \in 1 .. Width
    PROVE  t \in Win!Digits /\ t # NoValue
<1>1. t \in [1 .. Len(t) -> Digit]
  BY LenProperties
<1>2. t \in Win!Digits
  BY <1>1 DEF Win!Digits, Digit
<1> QED
  BY <1>2, ConstantFacts

\* The position of a counter.
LEMMA CounterPosition ==
    ASSUME Shape, NEW m \in Written, NEW t, t = Win!LessUnits(Text(m))
    PROVE  t \in Seq(Digit) /\ Len(t) \in 1 .. Width /\ t \in Win!Digits /\ t # NoValue
<1>1. m \in Nat /\ m < Win!Power[Width]
  BY RowFacts
<1>2. t \in Seq(Digit) /\ Len(t) \in 1 .. Width
  BY <1>1, PositionOf
<1> QED
  BY <1>2, TextIsDigits

\* The staged row with the greatest counter.
LEMMA StagedMaxIs ==
    ASSUME Shape, Stamped, CycleShape, kind \notin Clock, cycle.stage # {}
    PROVE  \E q \in cycle.stage : /\ \A r \in cycle.stage : r <= q
                                  /\ Win!CeilingFromStagedMax(cycle.stage) = Win!LessUnits(Text(q))
<1>1. /\ cycle.stage \subseteq 1 .. Len(value) /\ Len(value) \in Nat
      /\ \A r \in cycle.stage : value[r] = r /\ r \in Nat
  BY RowFacts DEF Stamped, CycleShape
<1>2. \E q \in cycle.stage : \A r \in cycle.stage : value[r] <= value[q]
  <2>1. PICK T : T = {n \in Nat : \A r \in cycle.stage : r <= n}
    OBVIOUS
  <2>2. Len(value) \in T /\ T \in SUBSET Nat
    BY <1>1, <2>1
  <2>3. PICK n \in T : \A k \in T : n <= k
    BY <2>2, LeastExists
  <2>4. n \in Nat /\ \A r \in cycle.stage : r <= n
    BY <2>1, <2>3
  <2>5. CASE n \in cycle.stage
    BY <1>1, <2>4, <2>5
  <2>6. CASE n \notin cycle.stage
    <3>1. \A r \in cycle.stage : r <= n - 1
      BY <1>1, <2>4, <2>6
    <3>2. PICK r \in cycle.stage : TRUE
      OBVIOUS
    <3>3. n - 1 \in Nat
      BY <1>1, <2>4, <3>1, <3>2
    <3>4. n - 1 \in T
      BY <2>1, <3>1, <3>3
    <3> QED
      BY <2>3, <2>4, <3>4
  <2> QED
    BY <2>5, <2>6
<1>3. PICK q : /\ q \in cycle.stage
               /\ q = CHOOSE m \in cycle.stage : \A r \in cycle.stage : value[r] <= value[m]
               /\ \A r \in cycle.stage : value[r] <= value[q]
  BY <1>2
<1>4. Win!StagedMax(cycle.stage) = Text(q)
  BY <1>1, <1>3 DEF Win!StagedMax, Text
<1> QED
  BY <1>1, <1>3, <1>4 DEF Win!CeilingFromStagedMax

-------------------------------------------------------------------------------
(* Every step keeps it.                                                     *)

LEMMA PlainInit == Win!Init => PlainInv
<1> SUFFICES ASSUME Win!Init PROVE PlainInv
  OBVIOUS
<1>1. value = <<>> /\ Len(value) = 0 /\ value \in Seq(Nat) /\ Written = {}
  BY DEF Win!Init, Written, Win!Written
<1>2. kind \in Kinds /\ kind \in {"DATE", "DATETIME", "NUMC", "INT4"} /\ MaxRows[kind] \in Nat
      /\ 0 \in 0 .. MaxNow
  BY ConstantFacts DEF Win!Init
<1>3. Shape /\ Stamped /\ PositionShape
  BY <1>1, <1>2 DEF Win!Init, Shape, Stamped, PositionShape
<1>4. CycleShape /\ ReloadInv
  BY DEF Win!Init, Win!Idle, CycleShape, ReloadInv
<1> QED
  BY <1>3, <1>4 DEF PlainInv

\* Steps that leave the rows, the clock and the position as they are.
LEMMA RowsStay ==
    ASSUME Shape, Stamped, PositionShape,
           UNCHANGED <<kind, now, value, wm>>,
           open' \subseteq open, gone' \subseteq Written \ open', adopted' \subseteq Written,
           replica' \subseteq Written \ open'
    PROVE  Shape' /\ Stamped' /\ PositionShape'
<1>1. Written' = Written /\ Clock' = Clock
  BY DEF Written, Win!Written, Clock, Win!Clock
<1>2. Shape'
  BY <1>1 DEF Shape
<1>3. Stamped'
  BY <1>1 DEF Stamped
<1>4. \A m : Reached(m)' <=> Reached(m)
  BY DEF Reached, Text
<1>5. PositionShape'
  BY <1>1, <1>4 DEF PositionShape
<1> QED
  BY <1>2, <1>3, <1>5

\* Steps that leave the cycle as it is.
LEMMA CycleStays ==
    ASSUME CycleShape, ReloadInv, UNCHANGED <<kind, cycle, replica>>,
           gone \subseteq gone', Written \ open \subseteq Written' \ open'
    PROVE  CycleShape' /\ ReloadInv'
<1>1. CycleShape'
  BY DEF CycleShape, Clock, Win!Clock
<1>2. ReloadInv'
  BY DEF ReloadInv, Win!Truncates
<1> QED
  BY <1>1, <1>2

LEMMA TickPlain ==
    ASSUME PlainInv, Win!Tick
    PROVE  PlainInv'
<1> USE DEF PlainInv
<1>1. /\ now < MaxNow /\ now' = now + 1
      /\ UNCHANGED <<kind, value, open, gone, adopted, replica, wm, cycle>>
  BY DEF Win!Tick
<1>2. Written' = Written /\ Clock' = Clock
  BY <1>1 DEF Written, Win!Written, Clock, Win!Clock
<1>3. now \in Nat /\ now' \in 0 .. MaxNow /\ now' \in Nat
  BY <1>1, ConstantFacts DEF Shape
<1>4. Shape'
  BY <1>1, <1>2, <1>3 DEF Shape
<1>5. Stamped'
  <2>1. now \div Day <= now' \div Day /\ now \div Day \in Nat /\ now' \div Day \in Nat
    BY <1>1, <1>3, Days
  <2>2. \A r \in Written : value[r] \in Nat
    BY RowFacts
  <2>3. ASSUME kind = "DATE", NEW r \in Written
        PROVE  value[r] <= now' \div Day
    BY <2>1, <2>2, <2>3 DEF Stamped
  <2>4. ASSUME kind = "DATETIME", NEW r \in Written
        PROVE  value[r] <= now'
    BY <1>1, <1>3, <2>2, <2>4 DEF Stamped
  <2> QED
    BY <1>1, <1>2, <2>3, <2>4 DEF Stamped
<1>6. PositionShape'
  <2>1. \A m : Reached(m)' <=> Reached(m)
    BY <1>1 DEF Reached, Text
  <2> QED
    BY <1>1, <1>2, <2>1 DEF PositionShape
<1>7. CycleShape' /\ ReloadInv'
  BY <1>1, <1>2, CycleStays DEF PlainInv
<1> QED
  BY <1>4, <1>5, <1>6, <1>7

\* What a new row looks like.
LEMMA NewRow ==
    ASSUME Shape, Win!Write
    PROVE  /\ Len(value) \in Nat /\ Len(value) < MaxRows[kind] /\ Len(value') = Len(value) + 1
           /\ value' \in Seq(Nat) /\ Written = 1 .. Len(value)
           /\ Written' = Written \cup {Len(value) + 1}
           /\ Len(value) + 1 \notin Written
           /\ \A r \in Written : value'[r] = value[r]
           /\ kind = "DATE" => value'[Len(value) + 1] = now \div Day
           /\ kind = "DATETIME" => value'[Len(value) + 1] = now
           /\ kind \notin Clock => value'[Len(value) + 1] = Len(value) + 1
           /\ open' = open \cup {Len(value) + 1}
           /\ UNCHANGED <<kind, now, gone, adopted, replica, wm, cycle>>
<1>1. PICK x : /\ x = CASE kind = "DATE"     -> now \div Day
                        [] kind = "DATETIME" -> now
                        [] OTHER             -> Len(value) + 1
               /\ value' = Append(value, x)
  BY DEF Win!Write
<1>2. /\ Len(value) < MaxRows[kind] /\ open' = open \cup {Len(value) + 1}
      /\ UNCHANGED <<kind, now, gone, adopted, replica, wm, cycle>>
  BY DEF Win!Write
<1>3. Len(value) \in Nat /\ Written = 1 .. Len(value)
  BY RowFacts
<1>4. /\ kind = "DATE" => x = now \div Day
      /\ kind = "DATETIME" => x = now
      /\ kind \notin Clock => x = Len(value) + 1
  BY <1>1 DEF Clock, Win!Clock
<1>5. x \in Nat
  <2>1. now \in Nat /\ now \div Day \in Nat
    BY ConstantFacts, Days DEF Shape
  <2> QED
    BY <1>3, <1>4, <2>1 DEF Clock, Win!Clock
<1>6. /\ value' \in Seq(Nat) /\ Len(value') = Len(value) + 1 /\ value'[Len(value) + 1] = x
      /\ \A r \in 1 .. Len(value) : value'[r] = value[r]
  BY <1>1, <1>3, <1>5, AppendProperties DEF Shape
<1>7. Written' = 1 .. Len(value) + 1
  BY <1>3, <1>6 DEF Written, Win!Written
<1> QED
  BY <1>2, <1>3, <1>4, <1>6, <1>7

LEMMA WritePlain ==
    ASSUME PlainInv, Win!Write
    PROVE  PlainInv'
<1> USE DEF PlainInv
<1>1. /\ Len(value) \in Nat /\ Len(value) < MaxRows[kind] /\ Len(value') = Len(value) + 1
      /\ value' \in Seq(Nat) /\ Written' = Written \cup {Len(value) + 1}
      /\ Len(value) + 1 \notin Written
      /\ \A r \in Written : value'[r] = value[r]
      /\ open' = open \cup {Len(value) + 1}
      /\ UNCHANGED <<kind, now, gone, adopted, replica, wm, cycle>>
  BY NewRow
<1>2. Shape'
  <2>1. MaxRows[kind] \in Nat
    BY ConstantFacts DEF Shape
  <2> QED
    BY <1>1, <2>1 DEF Shape
<1>3. Stamped'
  <2>1. Clock' = Clock
    BY DEF Clock, Win!Clock
  <2>2. now \in Nat /\ now \div Day \in Nat
    BY ConstantFacts, Days DEF Shape
  <2>3. ASSUME kind = "DATE", NEW r \in Written'
        PROVE  value'[r] <= now \div Day
    BY <1>1, <2>2, <2>3, NewRow DEF Stamped
  <2>4. ASSUME kind = "DATETIME", NEW r \in Written'
        PROVE  value'[r] <= now
    BY <1>1, <2>2, <2>4, NewRow DEF Stamped
  <2>5. ASSUME kind \notin Clock, NEW r \in Written'
        PROVE  value'[r] = r
    BY <1>1, <2>5, NewRow DEF Stamped
  <2> QED
    BY <1>1, <2>1, <2>3, <2>4, <2>5 DEF Stamped
<1>4. PositionShape'
  <2>1. \A m : Reached(m)' <=> Reached(m)
    BY <1>1 DEF Reached, Text
  <2> QED
    BY <1>1, <2>1 DEF PositionShape, Clock, Win!Clock
<1>5. Written \ open \subseteq Written' \ open'
  BY <1>1
<1>6. CycleShape' /\ ReloadInv'
  BY <1>1, <1>5, CycleStays
<1> QED
  BY <1>2, <1>3, <1>4, <1>6

LEMMA EndPlain ==
    ASSUME PlainInv, NEW r \in open, Win!End(r)
    PROVE  PlainInv'
<1> USE DEF PlainInv
<1>1. open' = open \ {r} /\ UNCHANGED <<kind, now, value, gone, adopted, replica, wm, cycle>>
  BY DEF Win!End
<1>2. Written' = Written
  BY <1>1 DEF Written, Win!Written
<1>3. Shape' /\ Stamped' /\ PositionShape'
  <2>1. /\ gone' \subseteq Written \ open' /\ adopted' \subseteq Written
        /\ replica' \subseteq Written \ open'
    BY <1>1 DEF Shape
  <2> QED
    BY <1>1, <2>1, RowsStay
<1>4. CycleShape' /\ ReloadInv'
  BY <1>1, <1>2, CycleStays
<1> QED
  BY <1>3, <1>4

LEMMA ArchivePlain ==
    ASSUME PlainInv, NEW r \in Win!Committed, Win!Archive(r)
    PROVE  PlainInv'
<1> USE DEF PlainInv
<1>1. gone' = gone \cup {r} /\ UNCHANGED <<kind, now, value, open, adopted, replica, wm, cycle>>
  BY DEF Win!Archive
<1>2. Written' = Written /\ r \in Written \ open
  BY <1>1 DEF Written, Win!Written, Win!Committed
<1>3. Shape' /\ Stamped' /\ PositionShape'
  <2>1. /\ gone' \subseteq Written \ open' /\ adopted' \subseteq Written
        /\ replica' \subseteq Written \ open'
    BY <1>1, <1>2 DEF Shape
  <2> QED
    BY <1>1, <2>1, RowsStay
<1>4. CycleShape' /\ ReloadInv'
  BY <1>1, <1>2, CycleStays
<1> QED
  BY <1>3, <1>4

\* The plan and the cycle that Begin makes.
LEMMA Begun ==
    ASSUME NEW load \in {"D", "F", "I", "L"}, Win!Begin(load)
    PROVE  /\ cycle.pc = "idle"
           /\ cycle' = [pc |-> cycle'.pc, load |-> cycle'.load, plan |-> cycle'.plan,
                        due |-> cycle'.due, stage |-> cycle'.stage]
           /\ cycle'.pc = (IF load = "I" THEN "commit" ELSE "read")
           /\ cycle'.load = load /\ cycle'.plan = Win!ComputeBounds(load) /\ cycle'.stage = {}
           /\ cycle'.due = {r \in Win!Committed \ adopted :
                               kind = "DATE" /\ load = "D" => value[r] < now \div Day}
           /\ UNCHANGED <<kind, now, value, open, gone, adopted, replica, wm>>
BY DEF Win!Begin

\* What ComputeBounds answers.
LEMMA PlanIs ==
    ASSUME Shape, NEW load \in {"D", "F", "I", "L"}
    PROVE  /\ Win!ComputeBounds(load).floor =
                 IF wm # NoValue /\ load = "D" THEN Win!Floor ELSE NoValue
           /\ Win!ComputeBounds(load).below =
                 IF kind = "DATE" /\ ~Win!Truncates(load) THEN now \div Day ELSE NoValue
           /\ kind = "DATE" => Win!ComputeBounds(load).next = now \div Day - 1
           /\ kind = "DATETIME" => Win!ComputeBounds(load).next = now - SafetySecs
BY DEF Win!ComputeBounds, Win!HasFloor, Win!BoundsRead, Win!ReadStart, Win!Clock

LEMMA BeginPlain ==
    ASSUME PlainInv, NEW load \in {"D", "F", "I", "L"}, Win!Begin(load)
    PROVE  PlainInv'
<1> USE DEF PlainInv
<1>1. UNCHANGED <<kind, now, value, open, gone, adopted, replica, wm>>
  BY Begun
<1>2. Written' = Written /\ Clock' = Clock
  BY <1>1 DEF Written, Win!Written, Clock, Win!Clock
<1>3. Shape' /\ Stamped' /\ PositionShape'
  <2>1. /\ gone' \subseteq Written \ open' /\ adopted' \subseteq Written
        /\ replica' \subseteq Written \ open'
    BY <1>1 DEF Shape
  <2> QED
    BY <1>1, <2>1, RowsStay
<1>4. CycleShape'
  <2>1. /\ cycle' = [pc |-> cycle'.pc, load |-> cycle'.load, plan |-> cycle'.plan,
                     due |-> cycle'.due, stage |-> cycle'.stage]
        /\ cycle'.pc = (IF load = "I" THEN "commit" ELSE "read") /\ cycle'.load = load
        /\ cycle'.plan = Win!ComputeBounds(load) /\ cycle'.stage = {}
    BY Begun
  <2>2. cycle'.due \subseteq Written \ open
    BY Begun DEF Win!Committed, Written
  <2>3. kind \in Clock => cycle'.plan.next \in Int
    <3>1. now \in Nat /\ SafetySecs \in Nat
      BY ConstantFacts DEF Shape
    <3>2. now \div Day \in Nat
      BY <3>1, Days
    <3> QED
      BY <2>1, <3>1, <3>2, PlanIs DEF Clock, Win!Clock
  <2> QED
    BY <1>1, <1>2, <2>1, <2>2, <2>3 DEF CycleShape
<1>5. ReloadInv'
  <2>1. /\ cycle'.pc = (IF load = "I" THEN "commit" ELSE "read") /\ cycle'.load = load
        /\ cycle'.plan = Win!ComputeBounds(load)
    BY Begun
  <2>2. Win!Truncates(load) => load # "I" /\ load # "D"
    BY DEF Win!Truncates
  <2>3. Win!Truncates(load) => cycle'.plan.floor = NoValue /\ cycle'.plan.below = NoValue
    BY <2>1, <2>2, PlanIs
  <2>4. Win!Truncates(load) => cycle'.pc = "read"
    BY <2>1, <2>2
  <2>5. Win!Truncates(cycle.load)' <=> Win!Truncates(load)
    BY <2>1 DEF Win!Truncates
  <2> QED
    BY <2>3, <2>4, <2>5 DEF ReloadInv
<1> QED
  BY <1>3, <1>4, <1>5

\* What the read does.
LEMMA ReadIs ==
    ASSUME Shape, CycleShape, Win!Read
    PROVE  /\ cycle.pc = "read" /\ cycle.load # "I"
           /\ cycle' = [pc |-> "commit", load |-> cycle.load, plan |-> cycle.plan,
                        due |-> cycle.due, stage |-> Win!Where(cycle.plan)]
           /\ Win!Where(cycle.plan) \subseteq Written \ (open \cup gone)
           /\ UNCHANGED <<kind, now, value, open, gone, adopted, replica, wm>>
<1>1. cycle.pc = "read" /\ cycle.load # "I"
  BY DEF Win!Read, CycleShape
<1>2. cycle' = [pc |-> "commit", load |-> cycle.load, plan |-> cycle.plan,
                due |-> cycle.due, stage |-> Win!Where(cycle.plan)]
  BY DEF Win!Read, CycleShape
<1>3. Win!Where(cycle.plan) \subseteq Written \ (open \cup gone)
  BY DEF Win!Where, Win!Committed, Written
<1> QED
  BY <1>1, <1>2, <1>3 DEF Win!Read

LEMMA ReadPlain ==
    ASSUME PlainInv, Win!Read
    PROVE  PlainInv'
<1> USE DEF PlainInv
<1>1. UNCHANGED <<kind, now, value, open, gone, adopted, replica, wm>>
  BY ReadIs
<1>2. Written' = Written /\ Clock' = Clock
  BY <1>1 DEF Written, Win!Written, Clock, Win!Clock
<1>3. Shape' /\ Stamped' /\ PositionShape'
  <2>1. /\ gone' \subseteq Written \ open' /\ adopted' \subseteq Written
        /\ replica' \subseteq Written \ open'
    BY <1>1 DEF Shape
  <2> QED
    BY <1>1, <2>1, RowsStay
<1>4. /\ cycle.pc = "read" /\ cycle'.pc = "commit" /\ cycle'.load = cycle.load
      /\ cycle'.plan = cycle.plan /\ cycle'.due = cycle.due /\ cycle'.stage = Win!Where(cycle.plan)
      /\ cycle' = [pc |-> cycle'.pc, load |-> cycle'.load, plan |-> cycle'.plan,
                   due |-> cycle'.due, stage |-> cycle'.stage]
      /\ Win!Where(cycle.plan) \subseteq Written \ (open \cup gone)
  BY ReadIs
<1>5. CycleShape'
  BY <1>1, <1>2, <1>4 DEF CycleShape
<1>6. ReloadInv'
  <2>1. ASSUME Win!Truncates(cycle.load)
        PROVE  replica \ gone \subseteq Win!Where(cycle.plan)
    <3>1. cycle.plan.floor = NoValue /\ cycle.plan.below = NoValue
      BY <1>4, <2>1 DEF ReloadInv
    <3>2. replica \ gone \subseteq Win!Committed
      BY DEF Shape, Win!Committed, Written
    <3> QED
      BY <3>1, <3>2 DEF Win!Where
  <2>2. Win!Truncates(cycle.load)' <=> Win!Truncates(cycle.load)
    BY <1>4 DEF Win!Truncates
  <2> QED
    BY <1>1, <1>4, <2>1, <2>2 DEF ReloadInv
<1> QED
  BY <1>3, <1>5, <1>6

\* DecideWatermark for a clock: the plan's ceiling, unless the position is past it.
LEMMA DecideClock ==
    ASSUME PlainInv, kind \in Clock, cycle.pc # "idle", cycle.load # "F"
    PROVE  /\ cycle.plan.next \in Int /\ Win!DecideWatermark \in Int
           /\ wm = NoValue => Win!DecideWatermark = cycle.plan.next
           /\ wm # NoValue => /\ wm \in Int /\ wm <= Win!DecideWatermark
                              /\ Win!DecideWatermark \in {wm, cycle.plan.next}
<1>1. cycle.plan.next \in Int /\ cycle.plan.next # NoValue
  BY ConstantFacts DEF PlainInv, CycleShape
<1>2. wm # NoValue => wm \in Int
  BY DEF PlainInv, PositionShape
<1>3. Win!DecideWatermark = Win!Forward(cycle.plan.next)
  BY DEF Win!DecideWatermark, Clock
<1>4. Win!Forward(cycle.plan.next) =
         IF wm = NoValue THEN cycle.plan.next ELSE IF cycle.plan.next < wm THEN wm ELSE cycle.plan.next
  BY <1>1 DEF Win!Forward, Clock
<1> QED
  BY <1>1, <1>2, <1>3, <1>4

\* The positions of two counters are ordered as their lengths and then as texts.
LEMMA PositionOrder ==
    ASSUME Shape, kind \notin Clock, NEW m \in Written, NEW q \in Written,
           NEW s, s = Win!LessUnits(Text(m)), NEW t, t = Win!LessUnits(Text(q)),
           ~(Len(t) < Len(s) \/ (Len(t) = Len(s) /\ Win!TextLess(t, s)))
    PROVE  Win!Number(s) <= Win!Number(t)
<1>1. m \in Nat /\ m < Win!Power[Width] /\ q \in Nat /\ q < Win!Power[Width]
  BY RowFacts
<1>2. /\ s \in Seq(Digit) /\ Len(s) = Len(Text(m)) /\ Len(Text(m)) \in 1 .. Width
      /\ Win!Number(s) = Win!Minus(m, SafetyUnits)
  BY <1>1, PositionOf
<1>3. /\ t \in Seq(Digit) /\ Len(t) = Len(Text(q)) /\ Len(Text(q)) \in 1 .. Width
      /\ Win!Number(t) = Win!Minus(q, SafetyUnits)
  BY <1>1, PositionOf
<1>4. Win!Number(s) \in Nat /\ Win!Number(t) \in Nat
  BY <1>2, <1>3, DigitFacts
<1>5. CASE Len(t) = Len(s)
  BY <1>2, <1>3, <1>4, <1>5, TextOrder
<1>6. CASE Len(t) # Len(s)
  <2>1. Len(Text(m)) < Len(Text(q))
    BY <1>2, <1>3, <1>6
  <2>2. kind # "NUMC"
    <3>1. ASSUME kind = "NUMC"
          PROVE  Len(Text(m)) = Width /\ Len(Text(q)) = Width
      <4>1. Win!Numeral(m) \in Seq(Digit) /\ Len(Win!Numeral(m)) \in 1 .. Width /\ Width \in Nat
        BY <1>1, NumeralValue, PowerFacts
      <4>2. Win!Numeral(q) \in Seq(Digit) /\ Len(Win!Numeral(q)) \in 1 .. Width
        BY <1>1, NumeralValue
      <4>3. Text(m) = Win!PadTo(Win!Numeral(m), Width) /\ Text(q) = Win!PadTo(Win!Numeral(q), Width)
        BY <3>1 DEF Text
      <4> QED
        BY <4>1, <4>2, <4>3, Padded
    <3> QED
      BY <2>1, <3>1
  <2>3. Text(m) = Win!Numeral(m) /\ Text(q) = Win!Numeral(q)
    BY <2>2 DEF Text
  <2>4. m < q
    BY <1>1, <2>1, <2>3, FewerDigits
  <2> QED
    BY <1>1, <1>2, <1>3, <2>4, MinusFacts
<1> QED
  BY <1>5, <1>6

\* DecideWatermark for a counter: the ceiling from the greatest staged row, unless the
\* position is past it or nothing was staged.
LEMMA DecideCounter ==
    ASSUME PlainInv, kind \notin Clock
    PROVE  \/ Win!DecideWatermark = wm
           \/ /\ cycle.load # "F"
              /\ \E q \in cycle.stage :
                    /\ \A r \in cycle.stage : r <= q
                    /\ Win!DecideWatermark = Win!LessUnits(Text(q))
              /\ Win!DecideWatermark # NoValue
              /\ wm # NoValue => Win!Number(wm) <= Win!Number(Win!DecideWatermark)
<1>1. CASE cycle.load = "F"
  BY <1>1 DEF Win!DecideWatermark
<1>2. CASE cycle.load # "F" /\ cycle.stage = {}
  <2>1. Win!DecideWatermark = Win!Forward(wm)
    BY <1>2 DEF Win!DecideWatermark, Win!CeilingFromStagedMax, Clock
  <2> QED
    BY <2>1 DEF Win!Forward
<1>3. CASE cycle.load # "F" /\ cycle.stage # {}
  <2>1. PICK q \in cycle.stage : /\ \A r \in cycle.stage : r <= q
                                 /\ Win!CeilingFromStagedMax(cycle.stage) = Win!LessUnits(Text(q))
    BY <1>3, StagedMaxIs DEF PlainInv
  <2>2. PICK t : t = Win!LessUnits(Text(q))
    OBVIOUS
  <2>3. Win!DecideWatermark = Win!Forward(t)
    BY <1>3, <2>1, <2>2 DEF Win!DecideWatermark, Clock
  <2>4. q \in Written
    BY DEF PlainInv, CycleShape
  <2>5. t # NoValue
    BY <2>2, <2>4, CounterPosition DEF PlainInv
  <2>6. CASE wm = NoValue
    <3>1. Win!DecideWatermark = t
      BY <2>3, <2>6 DEF Win!Forward
    <3> QED
      BY <1>3, <2>1, <2>2, <2>5, <2>6, <3>1
  <2>7. CASE wm # NoValue /\ (Len(t) < Len(wm) \/ (Len(t) = Len(wm) /\ Win!TextLess(t, wm)))
    <3>1. Win!DecideWatermark = wm
      BY <2>3, <2>5, <2>7 DEF Win!Forward, Clock
    <3> QED
      BY <3>1
  <2>8. CASE wm # NoValue /\ ~(Len(t) < Len(wm) \/ (Len(t) = Len(wm) /\ Win!TextLess(t, wm)))
    <3>1. Win!DecideWatermark = t
      BY <2>3, <2>5, <2>8 DEF Win!Forward, Clock
    <3>2. PICK m \in Written : wm = Win!LessUnits(Text(m))
      BY <2>8 DEF PlainInv, PositionShape, Reached
    <3>3. Win!Number(wm) <= Win!Number(t)
      BY <2>2, <2>4, <2>8, <3>2, PositionOrder DEF PlainInv
    <3> QED
      BY <1>3, <2>1, <2>2, <2>5, <3>1, <3>3
  <2> QED
    BY <2>6, <2>7, <2>8
<1> QED
  BY <1>1, <1>2, <1>3

LEMMA CommitPlain ==
    ASSUME PlainInv, Win!Commit
    PROVE  PlainInv'
<1> USE DEF PlainInv
<1>1. /\ cycle.pc = "commit" /\ wm' = Win!DecideWatermark /\ cycle' = Win!Idle
      /\ replica' = IF Win!Truncates(cycle.load) THEN cycle.stage ELSE replica \cup cycle.stage
      /\ adopted' = IF cycle.load = "I" /\ kind \in Clock THEN adopted \cup cycle.due ELSE adopted
      /\ UNCHANGED <<kind, now, value, open, gone>>
  BY DEF Win!Commit, Clock
<1>2. Written' = Written /\ Clock' = Clock
  BY <1>1 DEF Written, Win!Written, Clock, Win!Clock
<1>3. Shape'
  <2>1. replica' \subseteq Written \ open /\ adopted' \subseteq Written
    BY <1>1 DEF Shape, CycleShape
  <2> QED
    BY <1>1, <1>2, <2>1 DEF Shape
<1>4. Stamped'
  BY <1>1, <1>2 DEF Stamped
<1>5. PositionShape'
  <2>1. \A m : Reached(m)' <=> wm' = Win!LessUnits(Text(m))
    BY <1>1 DEF Reached, Text
  <2>2. CASE wm' = wm
    <3>1. \A m : Reached(m)' <=> Reached(m)
      BY <2>1, <2>2 DEF Reached
    <3> QED
      BY <1>1, <1>2, <2>2, <3>1 DEF PositionShape
  <2>3. CASE kind \in Clock
    <3>1. cycle.load = "F" => wm' = wm
      BY <1>1 DEF Win!DecideWatermark
    <3>2. cycle.load # "F" => wm' \in Int
      BY <1>1, <2>3, DecideClock
    <3> QED
      BY <1>1, <1>2, <2>2, <2>3, <3>1, <3>2 DEF PositionShape
  <2>4. CASE kind \notin Clock /\ wm' # wm
    <3>1. PICK q \in cycle.stage : wm' = Win!LessUnits(Text(q))
      BY <1>1, <2>4, DecideCounter
    <3>2. q \in Written
      BY DEF CycleShape
    <3> QED
      BY <1>1, <1>2, <2>1, <2>4, <3>1, <3>2 DEF PositionShape
  <2> QED
    BY <2>2, <2>3, <2>4
<1>6. CycleShape' /\ ReloadInv'
  BY <1>1 DEF Win!Idle, CycleShape, ReloadInv
<1> QED
  BY <1>3, <1>4, <1>5, <1>6

LEMMA GiveUpPlain ==
    ASSUME PlainInv, Win!GiveUp
    PROVE  PlainInv'
<1> USE DEF PlainInv
<1>1. cycle' = Win!Idle /\ UNCHANGED <<kind, now, value, open, gone, adopted, replica, wm>>
  BY DEF Win!GiveUp
<1>2. Shape' /\ Stamped' /\ PositionShape'
  <2>1. Written' = Written
    BY <1>1 DEF Written, Win!Written
  <2>2. /\ gone' \subseteq Written \ open' /\ adopted' \subseteq Written
        /\ replica' \subseteq Written \ open'
    BY <1>1 DEF Shape
  <2> QED
    BY <1>1, <2>2, RowsStay
<1>3. CycleShape' /\ ReloadInv'
  BY <1>1 DEF Win!Idle, CycleShape, ReloadInv
<1> QED
  BY <1>2, <1>3

LEMMA PlainStep == PlainInv /\ [Win!Next]_windowVars => PlainInv'
<1> SUFFICES ASSUME PlainInv, [Win!Next]_windowVars
             PROVE  PlainInv'
  OBVIOUS
<1>1. CASE Win!Tick
  BY <1>1, TickPlain
<1>2. CASE Win!Write
  BY <1>2, WritePlain
<1>3. CASE \E r \in open : Win!End(r)
  BY <1>3, EndPlain
<1>4. CASE \E r \in Win!Committed : Win!Archive(r)
  BY <1>4, ArchivePlain
<1>5. CASE \E load \in {"D", "F", "I", "L"} : Win!Begin(load)
  BY <1>5, BeginPlain
<1>6. CASE Win!Read
  BY <1>6, ReadPlain
<1>7. CASE Win!Commit
  BY <1>7, CommitPlain
<1>8. CASE Win!GiveUp
  BY <1>8, GiveUpPlain
<1>9. CASE UNCHANGED windowVars
  <2>1. UNCHANGED <<kind, now, value, open, gone, adopted, replica, wm, cycle>>
    BY <1>9 DEF windowVars
  <2>2. Written' = Written
    BY <2>1 DEF Written, Win!Written
  <2>3. Shape' /\ Stamped' /\ PositionShape'
    <3>1. gone' \subseteq Written \ open' /\ adopted' \subseteq Written
          /\ replica' \subseteq Written \ open'
      BY <2>1 DEF PlainInv, Shape
    <3> QED
      BY <2>1, <3>1, RowsStay DEF PlainInv
  <2>4. CycleShape' /\ ReloadInv'
    BY <2>1, <2>2, CycleStays DEF PlainInv
  <2> QED
    BY <2>3, <2>4 DEF PlainInv
<1> QED
  BY <1>1, <1>2, <1>3, <1>4, <1>5, <1>6, <1>7, <1>8, <1>9 DEF Win!Next

-------------------------------------------------------------------------------
(* What follows from it.                                                    *)

LEMMA PlainType == PlainInv => Win!TypeOK
<1> SUFFICES ASSUME PlainInv
             PROVE  Win!TypeOK
  OBVIOUS
<1> USE DEF PlainInv
<1>1. value \in Seq(0 .. MaxNow + MaxRows[kind])
  <2>1. MaxNow \in Nat /\ MaxRows[kind] \in Nat /\ now \in Nat /\ now <= MaxNow /\ kind \in Kinds
    BY ConstantFacts DEF Shape
  <2>2. now \div Day <= now
    <3>1. PICK d \in Nat \ {0} : d = Day
      BY ConstantFacts
    <3>2. PICK q \in Nat, e \in Nat : now \div d = q /\ now = d * q + e
      BY <2>1, <3>1, Division
    <3>3. PICK c \in Nat : d = c + 1
      <4>1. d - 1 \in Nat /\ d = (d - 1) + 1
        BY <3>1
      <4> QED
        BY <4>1
    <3>4. d * q = c * q + q /\ c * q \in Nat
      BY <3>2, <3>3
    <3> QED
      BY <3>1, <3>2, <3>4
  <2>3. now \div Day \in Nat
    BY <2>1, Days
  <2>4. ASSUME NEW r \in 1 .. Len(value)
        PROVE  value[r] \in 0 .. MaxNow + MaxRows[kind]
    <3>1. /\ r \in Written /\ r \in Nat /\ value[r] \in Nat
          /\ Len(value) \in Nat /\ Len(value) <= MaxRows[kind]
      BY RowFacts DEF Shape
    <3>2. value[r] <= now \/ value[r] = r
      <4>1. CASE kind = "DATE"
        <5>1. value[r] <= now \div Day
          BY <3>1, <4>1 DEF Stamped
        <5>2. \A a, b, c \in Nat : a <= b /\ b <= c => a <= c
          OBVIOUS
        <5> QED
          BY <2>1, <2>2, <2>3, <3>1, <5>1, <5>2
      <4>2. CASE kind = "DATETIME"
        BY <3>1, <4>2 DEF Stamped
      <4>3. CASE kind \notin Clock
        BY <3>1, <4>3 DEF Stamped
      <4> QED
        BY <4>1, <4>2, <4>3 DEF Clock, Win!Clock
    <3> QED
      BY <2>1, <3>1, <3>2
  <2>5. PICK T : T = 0 .. MaxNow + MaxRows[kind]
    OBVIOUS
  <2>6. value \in [1 .. Len(value) -> Nat] /\ Len(value) \in Nat
    BY LenProperties DEF Shape
  <2>7. value \in [1 .. Len(value) -> T]
    BY <2>4, <2>5, <2>6
  <2>8. value \in Seq(T)
    BY <2>6, <2>7, SeqDef
  <2> QED
    BY <2>5, <2>8
<1>2. wm # NoValue => wm \in Win!Position
  <2>1. CASE kind \in Clock
    BY <2>1 DEF PositionShape, Win!Position, Clock
  <2>2. CASE kind \notin Clock
    <3>1. ASSUME wm # NoValue
          PROVE  wm \in Win!Digits
      <4>1. PICK m \in Written : wm = Win!LessUnits(Text(m))
        BY <2>2, <3>1 DEF PositionShape, Reached
      <4> QED
        BY <4>1, CounterPosition
    <3> QED
      BY <2>2, <3>1 DEF Win!Position, Clock
  <2> QED
    BY <2>1, <2>2
<1> QED
  BY <1>1, <1>2 DEF Win!TypeOK, Shape, CycleShape, Written

\* A commit that truncates has staged all that the replica holds and the source has.
LEMMA CommitKeepsRows ==
    PlainInv /\ [Win!Next]_windowVars => [replica \ gone \subseteq replica']_windowVars
<1> SUFFICES ASSUME PlainInv, Win!Next
             PROVE  replica \ gone \subseteq replica'
  OBVIOUS
<1>1. CASE Win!Commit
  <2>1. /\ cycle.pc = "commit"
        /\ replica' = IF Win!Truncates(cycle.load) THEN cycle.stage ELSE replica \cup cycle.stage
    BY <1>1 DEF Win!Commit
  <2> QED
    BY <2>1 DEF PlainInv, ReloadInv
<1>2. CASE ~Win!Commit
  <2>1. replica' = replica
    BY <1>2 DEF Win!Next, Win!Tick, Win!Write, Win!End, Win!Archive, Win!Begin, Win!Read, Win!GiveUp
  <2> QED
    BY <2>1
<1> QED
  BY <1>1, <1>2

\* The order of the column.
Forwards == wm # NoValue => /\ wm' # NoValue
                            /\ IF kind \in Clock THEN wm <= wm' ELSE Win!Number(wm) <= Win!Number(wm')

LEMMA CommitMovesForward ==
    PlainInv /\ [Win!Next]_windowVars => [Forwards]_windowVars
<1> SUFFICES ASSUME PlainInv, Win!Next, wm # NoValue
             PROVE  /\ wm' # NoValue
                    /\ IF kind \in Clock THEN wm <= wm' ELSE Win!Number(wm) <= Win!Number(wm')
  BY DEF Forwards
<1>1. CASE wm' = wm
  <2>1. CASE kind \in Clock
    <3>1. wm \in Int
      BY <2>1 DEF PlainInv, PositionShape
    <3> QED
      BY <1>1, <2>1, <3>1
  <2>2. CASE kind \notin Clock
    <3>1. PICK m \in Written : wm = Win!LessUnits(Text(m))
      BY <2>2 DEF PlainInv, PositionShape, Reached
    <3>2. wm \in Seq(Digit)
      BY <3>1, CounterPosition DEF PlainInv
    <3>3. Win!Number(wm) \in Nat
      BY <3>2, DigitFacts
    <3> QED
      BY <1>1, <2>2, <3>3
  <2> QED
    BY <2>1, <2>2
<1>2. CASE wm' # wm
  <2>1. Win!Commit
    BY <1>2 DEF Win!Next, Win!Tick, Win!Write, Win!End, Win!Archive, Win!Begin, Win!Read, Win!GiveUp
  <2>2. wm' = Win!DecideWatermark /\ cycle.pc = "commit"
    BY <2>1 DEF Win!Commit
  <2>3. CASE kind \in Clock
    <3>1. cycle.load # "F"
      BY <1>2, <2>2 DEF Win!DecideWatermark
    <3>2. wm' \in Int /\ wm <= wm'
      BY <2>2, <2>3, <3>1, DecideClock
    <3> QED
      BY <2>3, <3>2, ConstantFacts
  <2>4. CASE kind \notin Clock
    BY <1>2, <2>2, <2>4, DecideCounter
  <2> QED
    BY <2>3, <2>4
<1> QED
  BY <1>1, <1>2

LEMMA PlainAlways == WindowSpec => []PlainInv
BY PlainInit, PlainStep, PTL DEF WindowSpec

\* Every state of the window has its types, for any days, margins, digits and rows: the
\* watermark of a counter is always digits that fit the column.
THEOREM WindowTypeCorrect == WindowSpec => []Win!TypeOK
BY PlainAlways, PlainType, PTL

\* A cycle, also one that reloads, takes no row from the replica that the source has.
THEOREM RowsAreKept == WindowSpec => TargetKeepsRows
<1>1. PlainInv /\ [Win!Next]_windowVars => [replica \ gone \subseteq replica']_(Win!vars)
  BY CommitKeepsRows DEF windowVars, Win!vars
<1> QED
  BY <1>1, PlainAlways, PTL DEF WindowSpec, TargetKeepsRows, Win!TargetKeepsRows

\* The watermark never goes back, by the value of a clock and by the number that the
\* digits of a counter are worth, although they are compared as text.
THEOREM WindowMovesForward == WindowSpec => PositionMovesForward
<1>1. PlainInv /\ [Win!Next]_windowVars => [Forwards]_(Win!vars)
  BY CommitMovesForward DEF windowVars, Win!vars
<1> QED
  BY <1>1, PlainAlways, PTL
     DEF WindowSpec, PositionMovesForward, Win!PositionMovesForward, Forwards, Clock

-------------------------------------------------------------------------------
(* What the replica is owed.                                                *)

\* A position of a column with a time of day is at least one unit behind the clock.
\* Without a margin, a row of the very second of the read is lost.
Margin == "DATETIME" \in Kinds => SafetySecs > 0

\* How long a transaction has been open.
OpenInv ==
    \A r \in open :
       /\ kind = "DATE" => (now \div Day) - value[r] <= Win!DaysOf(SafetySecs)
       /\ kind = "DATETIME" => now - value[r] < 2 * SafetySecs
       /\ kind \notin Clock => (Len(value) - r < 2 * SafetyUnits \/ r = Len(value))

\* A clock's position, and the floor that is read from it.
Ceiling == IF kind = "DATE" THEN (now \div Day) - 1 ELSE now - SafetySecs

Low(p) == IF kind = "DATE" THEN p - Win!DaysOf(SafetySecs) ELSE p - SafetySecs

\* The floor that a counter's row leads to: one margin for the position, one for the floor.
CounterLow(m) == Win!Minus(Win!Minus(m, SafetyUnits), SafetyUnits)

\* What the replica does not have although the source has it.
Left == Written \ (replica \cup gone \cup adopted)

\* All of it is above the next floor.
PositionInv ==
    wm # NoValue =>
       IF kind \in Clock THEN wm <= Ceiling /\ \A r \in Left : value[r] > Low(wm)
       ELSE \E m \in Written : Reached(m) /\ \A r \in Left : r > CounterLow(m)

\* What the cycle's ceiling leaves to later cycles is above their floor, too.
CeilingInv ==
    cycle.pc # "idle" /\ kind \in Clock =>
       cycle.plan.next <= Ceiling /\ \A r \in Left \ cycle.due : value[r] > Low(cycle.plan.next)

ReadInv ==
    cycle.pc = "read" =>
       /\ cycle.plan.floor = IF wm # NoValue /\ cycle.load = "D" THEN Win!Floor ELSE NoValue
       /\ cycle.plan.below # NoValue =>
             kind = "DATE" /\ \A r \in cycle.due : value[r] < cycle.plan.below

CommitInv ==
    cycle.pc = "commit" =>
       /\ cycle.load # "I" => cycle.due \subseteq replica \cup cycle.stage \cup gone
       /\ kind \notin Clock => \A r \in Left \ cycle.stage, q \in cycle.stage : r > CounterLow(q)

OwedInv ==
    OpenInv /\ PositionInv /\ CeilingInv /\ ReadInv /\ CommitInv
       /\ (cycle.pc # "idle" => cycle.due \cap adopted = {})

LEMMA DaysOfMargin == Win!DaysOf(SafetySecs) \in Nat
<1>1. PICK d \in Nat \ {0}, a \in Nat : d = Day /\ a = SafetySecs + Day - 1
  <2>1. SafetySecs + Day - 1 \in Nat
    BY ConstantFacts
  <2> QED
    BY <2>1, ConstantFacts
<1>2. a \div d \in Nat
  BY <1>1, Division
<1> QED
  BY <1>1, <1>2 DEF Win!DaysOf

\* A date and a time of day in two columns are compared as one value is.
LEMMA TwoColumns ==
    ASSUME NEW v \in Int, NEW f \in Int, v > f
    PROVE  \/ v \div Day > f \div Day
           \/ v \div Day = f \div Day /\ v % Day > f % Day
<1>1. PICK d \in Nat \ {0} : d = Day
  BY ConstantFacts
<1>2. ASSUME NEW a \in Int
      PROVE  \E q, r \in Int : a \div d = q /\ a % d = r /\ 0 <= r /\ r < d /\ a = d * q + r
  <2>1. a \div d \in Int /\ a % d \in 0 .. d - 1
    OBVIOUS
  <2>2. a % d = a - d * (a \div d)
    OBVIOUS
  <2>3. PICK q \in Int, r \in Int : a \div d = q /\ a % d = r
    BY <2>1
  <2>4. r \in 0 .. d - 1 /\ d * q \in Int /\ r = a - d * q
    BY <2>1, <2>2, <2>3
  <2> QED
    BY <2>3, <2>4
<1>3. PICK p \in Int, b \in Int : v \div d = p /\ v % d = b /\ 0 <= b /\ b < d /\ v = d * p + b
  BY <1>2
<1>4. PICK q \in Int, c \in Int : f \div d = q /\ f % d = c /\ 0 <= c /\ c < d /\ f = d * q + c
  BY <1>2
<1>5. ASSUME p < q
      PROVE  FALSE
  <2>1. PICK k \in Nat : q = p + 1 + k
    <3>1. q - (p + 1) \in Nat /\ q = p + 1 + (q - (p + 1))
      BY <1>5
    <3> QED
      BY <3>1
  <2>2. d * q = d * p + d + d * k /\ d * k \in Nat /\ d * p \in Int
    BY <2>1
  <2> QED
    BY <1>3, <1>4, <2>2
<1>6. p = q => b > c
  <2>1. d * q \in Int
    OBVIOUS
  <2> QED
    BY <1>3, <1>4, <2>1
<1> QED
  BY <1>1, <1>3, <1>4, <1>5, <1>6

\* The predicate of the read takes what is above the floor.
LEMMA AboveFloor ==
    ASSUME PlainInv, kind \in Clock, wm \in Int, NEW r \in Written, value[r] > Low(wm)
    PROVE  Win!Above(value[r], Win!Floor)
<1>1. value[r] \in Int
  BY RowFacts DEF PlainInv
<1>2. CASE kind = "DATE"
  BY <1>2 DEF Win!Above, Win!Floor, Low
<1>3. CASE kind = "DATETIME"
  <2>1. PICK f : f = wm - SafetySecs
    OBVIOUS
  <2>2. f \in Int /\ value[r] > f
    BY <1>3, <2>1, ConstantFacts DEF Low
  <2>3. \/ value[r] \div Day > f \div Day
        \/ value[r] \div Day = f \div Day /\ value[r] % Day > f % Day
    BY <1>1, <2>2, TwoColumns
  <2>4. Win!Floor = f
    BY <1>3, <2>1 DEF Win!Floor
  <2>5. Win!Above(value[r], f)
    BY <1>3, <2>3 DEF Win!Above
  <2> QED
    BY <2>4, <2>5
<1> QED
  BY <1>2, <1>3 DEF Clock, Win!Clock

\* Digits are taken as text, a number as a number.
LEMMA AboveCounterFloor ==
    ASSUME PlainInv, kind \notin Clock, NEW m \in Written, Reached(m),
           NEW r \in Written, r > CounterLow(m)
    PROVE  Win!Above(value[r], Win!Floor)
<1>1. /\ m \in Nat /\ m < Win!Power[Width] /\ r \in Nat /\ r < Win!Power[Width]
      /\ value[r] = r /\ kind \in {"NUMC", "INT4"}
  <2>1. m \in Nat /\ m < Win!Power[Width] /\ r \in Nat /\ r < Win!Power[Width]
    BY RowFacts DEF PlainInv
  <2>2. value[r] = r /\ kind \in {"NUMC", "INT4"}
    BY DEF PlainInv, Shape, Stamped, Clock, Win!Clock
  <2> QED
    BY <2>1, <2>2
<1>2. PICK t : t = wm /\ t = Win!LessUnits(Text(m))
  BY DEF Reached
<1>3. /\ t \in Seq(Digit) /\ Len(t) = Len(Text(m)) /\ Len(t) \in 1 .. Width
      /\ Win!Number(t) = Win!Minus(m, SafetyUnits)
  BY <1>1, <1>2, PositionOf
<1>4. PICK less : less = Win!Minus(Win!Number(t), SafetyUnits)
  OBVIOUS
<1>5. less = CounterLow(m) /\ less \in Nat /\ less <= m /\ less < Win!Power[Width]
      /\ Win!Number(t) \in Nat /\ Win!Number(t) < Win!Power[Width]
  <2>1. Win!Minus(m, SafetyUnits) \in Nat /\ Win!Minus(m, SafetyUnits) <= m
    BY <1>1, MinusFacts
  <2>2. less \in Nat /\ less <= Win!Minus(m, SafetyUnits)
    BY <1>3, <1>4, <2>1, MinusFacts
  <2>3. Win!Power[Width] \in Nat
    BY PowerFacts
  <2> QED
    BY <1>1, <1>3, <1>4, <2>1, <2>2, <2>3 DEF CounterLow
<1>6. Win!LessUnits(t) \in Seq(Digit) /\ Win!Number(Win!LessUnits(t)) = less
  BY <1>3, <1>4, <1>5, LessUnitsFacts
<1>7. Win!Floor = Win!LessUnits(t)
  BY <1>1, <1>2 DEF Win!Floor
<1>8. CASE kind = "INT4"
  BY <1>1, <1>5, <1>6, <1>7, <1>8 DEF Win!Above
<1>9. CASE kind = "NUMC"
  <2>1. /\ Win!Numeral(m) \in Seq(Digit) /\ Len(Win!Numeral(m)) \in 1 .. Width /\ Width \in Nat
        /\ Win!Numeral(r) \in Seq(Digit) /\ Len(Win!Numeral(r)) \in 1 .. Width
        /\ Win!Number(Win!Numeral(r)) = r
        /\ Len(Win!Numeral(less)) \in 1 .. Width
    BY <1>1, <1>5, NumeralValue, PowerFacts
  <2>2. Len(t) = Width
    BY <1>3, <1>9, <2>1, Padded DEF Text
  <2>3. Len(Win!LessUnits(t)) = Width
    <3>1. Len(Win!Numeral(less)) <= Len(t)
      BY <2>1, <2>2
    <3> QED
      BY <1>3, <1>4, <1>5, <2>2, <3>1, LessUnitsFacts
  <2>4. PICK p : p = Win!PadTo(Win!Numeral(r), Width)
    OBVIOUS
  <2>5. p \in Seq(Digit) /\ Len(p) = Width /\ Win!Number(p) = r
    BY <2>1, <2>4, Padded
  <2>6. Win!TextLess(Win!LessUnits(t), p)
    BY <1>1, <1>5, <1>6, <2>3, <2>5, TextOrder
  <2> QED
    BY <1>1, <1>7, <1>9, <2>4, <2>6 DEF Win!Above
<1> QED
  BY <1>1, <1>8, <1>9

LEMMA CounterLowFacts ==
    ASSUME NEW q \in Nat, NEW r \in Nat \ {0}, q < r \/ q - r < 2 * SafetyUnits
    PROVE  r > CounterLow(q)
BY ConstantFacts DEF CounterLow, Win!Minus

\* A position that is not past the clock's leaves out nothing that is written from now on.
LEMMA BelowNow ==
    ASSUME Margin, Shape, kind \in Clock, NEW p \in Int, p <= Ceiling
    PROVE  Low(p) \in Int /\ Low(p) < IF kind = "DATE" THEN now \div Day ELSE now
<1>1. now \in Nat /\ SafetySecs \in Nat /\ Win!DaysOf(SafetySecs) \in Nat
  BY ConstantFacts, DaysOfMargin DEF Shape
<1>2. now \div Day \in Nat
  BY <1>1, Days
<1>3. CASE kind = "DATE"
  BY <1>1, <1>2, <1>3 DEF Low, Ceiling
<1>4. CASE kind = "DATETIME"
  BY <1>1, <1>4 DEF Low, Ceiling, Margin, Shape
<1> QED
  BY <1>3, <1>4 DEF Clock, Win!Clock

-------------------------------------------------------------------------------
(* Every step keeps what is owed.                                           *)

LEMMA OwedInit == Win!Init => OwedInv
BY DEF Win!Init, Win!Idle, OwedInv, OpenInv, PositionInv, CeilingInv, ReadInv, CommitInv

\* Steps that leave the rows and the position as they are, and owe no more.
LEMMA PositionStays ==
    ASSUME PositionInv, UNCHANGED <<kind, value, wm>>,
           Left' \subseteq Left, kind \in Clock /\ wm \in Int => (wm <= Ceiling => wm <= Ceiling'),
           PositionShape
    PROVE  PositionInv'
<1>1. Written' = Written /\ Clock' = Clock
  BY DEF Written, Win!Written, Clock, Win!Clock
<1>2. \A m : Reached(m)' <=> Reached(m)
  BY DEF Reached, Text
<1>3. \A p : Low(p)' = Low(p)
  BY DEF Low
<1>4. Low(wm)' = Low(wm)
  BY DEF Low
<1>5. \A m : CounterLow(m)' = CounterLow(m)
  BY DEF CounterLow
<1>6. CASE wm # NoValue /\ kind \in Clock
  <2>1. wm \in Int /\ wm <= Ceiling /\ \A r \in Left : value[r] > Low(wm)
    BY <1>6 DEF PositionInv, PositionShape
  <2>2. wm <= Ceiling' /\ \A r \in Left' : value'[r] > Low(wm)'
    BY <1>4, <1>6, <2>1
  <2> QED
    BY <1>1, <1>6, <2>2 DEF PositionInv
<1>7. CASE wm # NoValue /\ kind \notin Clock
  <2>1. PICK m \in Written : Reached(m) /\ \A r \in Left : r > CounterLow(m)
    BY <1>7 DEF PositionInv
  <2>2. m \in Written' /\ Reached(m)' /\ \A r \in Left' : r > CounterLow(m)'
    BY <1>1, <1>2, <1>5, <2>1
  <2> QED
    BY <1>1, <1>7, <2>2 DEF PositionInv
<1>8. CASE wm = NoValue
  BY <1>8 DEF PositionInv
<1> QED
  BY <1>6, <1>7, <1>8

\* Steps that leave the cycle as it is, too.
LEMMA CycleOwedStays ==
    ASSUME CycleShape, CeilingInv, ReadInv, CommitInv, cycle.pc # "idle" => cycle.due \cap adopted = {},
           UNCHANGED <<kind, value, wm, cycle, adopted, replica>>, gone \subseteq gone',
           cycle.pc # "idle" /\ kind \in Clock =>
              (cycle.plan.next <= Ceiling => cycle.plan.next <= Ceiling')
    PROVE  /\ CeilingInv' /\ ReadInv' /\ CommitInv'
           /\ (cycle.pc # "idle" => cycle.due \cap adopted = {})'
<1>1. Left' \subseteq Left /\ Clock' = Clock
  BY DEF Left, Written, Win!Written, Clock, Win!Clock
<1>2. Low(cycle.plan.next)' = Low(cycle.plan.next)
  BY DEF Low
<1>3. \A m : CounterLow(m)' = CounterLow(m)
  BY DEF CounterLow
<1>4. CeilingInv'
  <2>1. CASE cycle.pc # "idle" /\ kind \in Clock
    <3>1. cycle.plan.next <= Ceiling' /\ \A r \in Left' \ cycle.due : value'[r] > Low(cycle.plan.next)'
      BY <1>1, <1>2, <2>1 DEF CeilingInv
    <3> QED
      BY <1>1, <2>1, <3>1 DEF CeilingInv
  <2>2. CASE ~(cycle.pc # "idle" /\ kind \in Clock)
    BY <1>1, <2>2 DEF CeilingInv
  <2> QED
    BY <2>1, <2>2
<1>5. ReadInv'
  <2>1. Win!Floor' = Win!Floor
    BY DEF Win!Floor
  <2> QED
    BY <2>1 DEF ReadInv
<1>6. CommitInv'
  <2>1. CASE cycle.pc = "commit"
    <3>1. cycle.load # "I" => cycle.due \subseteq replica' \cup cycle.stage \cup gone'
      BY <2>1 DEF CommitInv
    <3>2. kind \notin Clock => \A r \in Left' \ cycle.stage, q \in cycle.stage : r > CounterLow(q)'
      BY <1>1, <1>3, <2>1 DEF CommitInv
    <3> QED
      BY <1>1, <2>1, <3>1, <3>2 DEF CommitInv
  <2>2. CASE cycle.pc # "commit"
    BY <2>2 DEF CommitInv
  <2> QED
    BY <2>1, <2>2
<1> QED
  BY <1>4, <1>5, <1>6

LEMMA TickOwed ==
    ASSUME PlainInv, OwedInv, Win!Tick
    PROVE  OwedInv'
<1> USE DEF PlainInv, OwedInv
<1>1. /\ kind \in Clock /\ now < MaxNow /\ \A r \in open : Win!MayWait(now + 1, r) /\ now' = now + 1
      /\ UNCHANGED <<kind, value, open, gone, adopted, replica, wm, cycle>>
  BY DEF Win!Tick, Clock
<1>2. now \in Nat /\ now + 1 \in Nat /\ now' = now + 1 /\ SafetySecs \in Nat
  BY <1>1, ConstantFacts DEF Shape, Win!Tick
<1>3. now \div Day <= now' \div Day /\ now \div Day \in Nat /\ now' \div Day \in Nat
  BY <1>2, Days
<1>4. Ceiling \in Int /\ Ceiling' \in Int /\ Ceiling <= Ceiling'
  BY <1>1, <1>2, <1>3 DEF Ceiling
<1>5. OpenInv'
  <2>1. ASSUME NEW r \in open
        PROVE  /\ kind = "DATE" => (now' \div Day) - value[r] <= Win!DaysOf(SafetySecs)
               /\ kind = "DATETIME" => now' - value[r] < 2 * SafetySecs
    BY <1>1, <1>2 DEF Win!MayWait
  <2> QED
    BY <1>1, <2>1 DEF OpenInv, Clock, Win!Clock
<1>6. Left' = Left
  BY <1>1 DEF Left, Written, Win!Written
<1>7. PositionInv'
  BY <1>1, <1>4, <1>6, PositionStays
<1>8. cycle.pc # "idle" /\ kind \in Clock => (cycle.plan.next <= Ceiling => cycle.plan.next <= Ceiling')
  BY <1>4 DEF CycleShape
<1>9. /\ CeilingInv' /\ ReadInv' /\ CommitInv'
      /\ (cycle.pc # "idle" => cycle.due \cap adopted = {})'
  BY <1>1, <1>8, CycleOwedStays
<1> QED
  BY <1>5, <1>7, <1>9

LEMMA EndOwed ==
    ASSUME PlainInv, OwedInv, NEW x \in open, Win!End(x)
    PROVE  OwedInv'
<1> USE DEF PlainInv, OwedInv
<1>1. open' = open \ {x} /\ UNCHANGED <<kind, now, value, gone, adopted, replica, wm, cycle>>
  BY DEF Win!End
<1>2. Left' = Left /\ Ceiling' = Ceiling /\ Clock' = Clock
  BY <1>1 DEF Left, Written, Win!Written, Ceiling, Clock, Win!Clock
<1>3. OpenInv'
  BY <1>1, <1>2 DEF OpenInv
<1>4. PositionInv'
  BY <1>1, <1>2, PositionStays
<1>5. /\ CeilingInv' /\ ReadInv' /\ CommitInv'
      /\ (cycle.pc # "idle" => cycle.due \cap adopted = {})'
  BY <1>1, <1>2, CycleOwedStays
<1> QED
  BY <1>3, <1>4, <1>5

LEMMA ArchiveOwed ==
    ASSUME PlainInv, OwedInv, NEW x \in Win!Committed, Win!Archive(x)
    PROVE  OwedInv'
<1> USE DEF PlainInv, OwedInv
<1>1. gone' = gone \cup {x} /\ UNCHANGED <<kind, now, value, open, adopted, replica, wm, cycle>>
  BY DEF Win!Archive
<1>2. Left' \subseteq Left /\ Ceiling' = Ceiling /\ Clock' = Clock
  BY <1>1 DEF Left, Written, Win!Written, Ceiling, Clock, Win!Clock
<1>3. OpenInv'
  BY <1>1, <1>2 DEF OpenInv
<1>4. PositionInv'
  BY <1>1, <1>2, PositionStays
<1>5. /\ CeilingInv' /\ ReadInv' /\ CommitInv'
      /\ (cycle.pc # "idle" => cycle.due \cap adopted = {})'
  BY <1>1, <1>2, CycleOwedStays
<1> QED
  BY <1>3, <1>4, <1>5

LEMMA WriteOwed ==
    ASSUME Margin, PlainInv, OwedInv, Win!Write
    PROVE  OwedInv'
<1> USE DEF PlainInv, OwedInv
<1> DEFINE n == Len(value) + 1
<1>1. /\ Len(value) \in Nat /\ Len(value') = n /\ Written = 1 .. Len(value)
      /\ Written' = Written \cup {n} /\ n \notin Written
      /\ \A r \in Written : value'[r] = value[r]
      /\ open' = open \cup {n}
      /\ UNCHANGED <<kind, now, gone, adopted, replica, wm, cycle>>
  BY NewRow
<1>2. /\ kind = "DATE" => value'[n] = now \div Day
      /\ kind = "DATETIME" => value'[n] = now
      /\ kind \notin Clock => value'[n] = n
  BY NewRow
<1>3. \A r \in open : Win!MayDraw(r)
  BY DEF Win!Write
<1>4. Left' = Left \cup {n} /\ Left \subseteq Written /\ Clock' = Clock /\ Ceiling' = Ceiling
  BY <1>1 DEF Left, Shape, Clock, Win!Clock, Ceiling
<1>5. now \in Nat /\ now \div Day \in Nat /\ SafetySecs \in Nat /\ SafetyUnits \in Nat
      /\ Win!DaysOf(SafetySecs) \in Nat
  <2>1. now \in Nat /\ SafetySecs \in Nat /\ SafetyUnits \in Nat
    BY ConstantFacts DEF Shape
  <2>2. now \div Day \in Nat
    BY <2>1, Days
  <2> QED
    BY <2>1, <2>2, DaysOfMargin
<1>6. open \subseteq Written
  BY DEF Shape
<1>7. OpenInv'
  <2>1. ASSUME kind = "DATE", NEW r \in open'
        PROVE  (now \div Day) - value'[r] <= Win!DaysOf(SafetySecs)
    BY <1>1, <1>2, <1>5, <1>6, <2>1 DEF OpenInv
  <2>2. ASSUME kind = "DATETIME", NEW r \in open'
        PROVE  now - value'[r] < 2 * SafetySecs
    <3>1. SafetySecs > 0
      BY <2>2 DEF Margin, Shape
    <3> QED
      BY <1>1, <1>2, <1>5, <1>6, <2>2, <3>1 DEF OpenInv
  <2>3. ASSUME kind \notin Clock, NEW r \in open'
        PROVE  n - r < 2 * SafetyUnits \/ r = n
    <3>1. CASE r = n
      BY <3>1
    <3>2. CASE r \in open
      <4>1. value[r] = r /\ r \in Nat /\ 2 * SafetyUnits \in Nat /\ n \in Nat
        BY <1>1, <1>5, <1>6, <2>3, <3>2 DEF Stamped
      <4>2. Win!MayDraw(r)
        BY <1>3, <3>2
      <4>3. n - value[r] < 2 * SafetyUnits
        BY <1>1, <1>5, <2>3, <4>1, <4>2 DEF Win!MayDraw, Clock
      <4> QED
        BY <4>1, <4>3
    <3> QED
      BY <1>1, <3>1, <3>2
  <2>4. UNCHANGED <<kind, now>>
    BY <1>1
  <2> HIDE DEF n
  <2> QED
    BY <1>1, <1>4, <2>1, <2>2, <2>3, <2>4 DEF OpenInv
<1>8. ASSUME kind \in Clock, NEW p \in Int, p <= Ceiling
      PROVE  value'[n] > Low(p)
  <2>1. Low(p) \in Int /\ Low(p) < IF kind = "DATE" THEN now \div Day ELSE now
    BY <1>8, BelowNow
  <2>2. value'[n] = IF kind = "DATE" THEN now \div Day ELSE now
    BY <1>2, <1>8 DEF Clock, Win!Clock
  <2> QED
    BY <1>5, <2>1, <2>2
<1>9. ASSUME NEW q \in Written
      PROVE  n > CounterLow(q)
  <2>1. q \in Nat /\ n \in Nat \ {0} /\ q < n
    BY <1>1
  <2> QED
    BY <2>1, CounterLowFacts
<1> HIDE DEF n
<1>10. PositionInv'
  <2>1. \A m : Reached(m)' <=> Reached(m)
    BY <1>1 DEF Reached, Text
  <2>2. Low(wm)' = Low(wm) /\ \A m : CounterLow(m)' = CounterLow(m)
    BY <1>1 DEF Low, CounterLow
  <2>3. CASE wm # NoValue /\ kind \in Clock
    <3>1. wm \in Int /\ wm <= Ceiling /\ \A r \in Left : value[r] > Low(wm)
      BY <2>3 DEF PositionInv, PositionShape
    <3>2. value'[n] > Low(wm)
      BY <1>8, <2>3, <3>1
    <3>3. \A r \in Left' : value'[r] > Low(wm)
      BY <1>1, <1>4, <3>1, <3>2
    <3> QED
      BY <1>1, <1>4, <2>2, <2>3, <3>1, <3>3 DEF PositionInv
  <2>4. CASE wm # NoValue /\ kind \notin Clock
    <3>1. PICK m \in Written : Reached(m) /\ \A r \in Left : r > CounterLow(m)
      BY <2>4 DEF PositionInv
    <3>2. m \in Written' /\ Reached(m)' /\ \A r \in Left' : r > CounterLow(m)'
      BY <1>1, <1>4, <1>9, <2>1, <2>2, <3>1
    <3> QED
      BY <1>1, <1>4, <2>4, <3>2 DEF PositionInv
  <2>5. CASE wm = NoValue
    BY <1>1, <2>5 DEF PositionInv
  <2> QED
    BY <2>3, <2>4, <2>5
<1>11. CeilingInv'
  <2>1. CASE cycle.pc # "idle" /\ kind \in Clock
    <3>1. /\ cycle.plan.next \in Int /\ cycle.plan.next <= Ceiling
          /\ \A r \in Left \ cycle.due : value[r] > Low(cycle.plan.next)
      BY <2>1 DEF CeilingInv, CycleShape
    <3>2. value'[n] > Low(cycle.plan.next)
      BY <1>8, <2>1, <3>1
    <3>3. \A r \in Left' \ cycle.due : value'[r] > Low(cycle.plan.next)
      BY <1>1, <1>4, <3>1, <3>2
    <3>4. Low(cycle.plan.next)' = Low(cycle.plan.next)
      BY <1>1 DEF Low
    <3> QED
      BY <1>1, <1>4, <2>1, <3>1, <3>3, <3>4 DEF CeilingInv
  <2>2. CASE ~(cycle.pc # "idle" /\ kind \in Clock)
    BY <1>1, <1>4, <2>2 DEF CeilingInv
  <2> QED
    BY <2>1, <2>2
<1>12. ReadInv'
  <2>1. Win!Floor' = Win!Floor
    BY <1>1 DEF Win!Floor
  <2>2. cycle.due \subseteq Written
    BY DEF CycleShape
  <2>3. \A r \in cycle.due : value'[r] = value[r]
    BY <1>1, <2>2
  <2> QED
    BY <1>1, <2>1, <2>3 DEF ReadInv
<1>13. CommitInv'
  <2>1. CASE cycle.pc = "commit"
    <3>1. cycle.load # "I" => cycle.due \subseteq replica \cup cycle.stage \cup gone
      BY <2>1 DEF CommitInv
    <3>2. ASSUME kind \notin Clock, NEW r \in Left' \ cycle.stage, NEW q \in cycle.stage
          PROVE  r > CounterLow(q)
      <4>1. q \in Written
        BY DEF CycleShape
      <4>2. CASE r = n
        BY <1>9, <4>1, <4>2
      <4>3. CASE r \in Left
        BY <2>1, <3>2, <4>3 DEF CommitInv
      <4> QED
        BY <1>4, <4>2, <4>3
    <3>3. \A m : CounterLow(m)' = CounterLow(m)
      BY DEF CounterLow
    <3> QED
      BY <1>1, <1>4, <2>1, <3>1, <3>2, <3>3 DEF CommitInv
  <2>2. CASE cycle.pc # "commit"
    BY <1>1, <2>2 DEF CommitInv
  <2> QED
    BY <2>1, <2>2
<1> QED
  BY <1>1, <1>7, <1>10, <1>11, <1>12, <1>13

LEMMA BeginOwed ==
    ASSUME PlainInv, OwedInv, NEW load \in {"D", "F", "I", "L"}, Win!Begin(load)
    PROVE  OwedInv'
<1> USE DEF PlainInv, OwedInv
<1>1. UNCHANGED <<kind, now, value, open, gone, adopted, replica, wm>>
  BY Begun
<1>2. /\ cycle'.pc = (IF load = "I" THEN "commit" ELSE "read") /\ cycle'.load = load
      /\ cycle'.plan = Win!ComputeBounds(load) /\ cycle'.stage = {}
      /\ cycle'.due = {r \in Win!Committed \ adopted :
                          kind = "DATE" /\ load = "D" => value[r] < now \div Day}
  BY Begun
<1>3. Left' = Left /\ Ceiling' = Ceiling /\ Clock' = Clock /\ Written' = Written
  BY <1>1 DEF Left, Written, Win!Written, Ceiling, Clock, Win!Clock
<1>4. OpenInv'
  BY <1>1, <1>3 DEF OpenInv
<1>5. PositionInv'
  BY <1>1, <1>3, PositionStays
<1>6. now \in Nat /\ now \div Day \in Nat /\ SafetySecs \in Nat /\ Win!DaysOf(SafetySecs) \in Nat
  <2>1. now \in Nat /\ SafetySecs \in Nat
    BY ConstantFacts DEF Shape
  <2>2. now \div Day \in Nat
    BY <2>1, Days
  <2> QED
    BY <2>1, <2>2, DaysOfMargin
<1>7. CeilingInv'
  <2>1. ASSUME kind \in Clock
        PROVE  cycle'.plan.next = Ceiling /\ Ceiling \in Int /\ Ceiling <= Ceiling
    BY <1>2, <1>6, <2>1, PlanIs DEF Ceiling, Clock, Win!Clock
  <2>2. ASSUME kind \in Clock, NEW r \in Left \ cycle'.due
        PROVE  value[r] > Low(Ceiling)
    <3>1. r \in Written /\ value[r] \in Nat
      BY RowFacts DEF Left
    <3>2. r \in open \/ (kind = "DATE" /\ ~(value[r] < now \div Day))
      BY <1>2 DEF Left, Win!Committed, Written
    <3>3. CASE kind = "DATE"
      <4>1. Low(Ceiling) = (now \div Day) - 1 - Win!DaysOf(SafetySecs)
        BY <3>3 DEF Low, Ceiling
      <4>2. r \in open => (now \div Day) - value[r] <= Win!DaysOf(SafetySecs)
        BY <3>3 DEF OpenInv
      <4> QED
        BY <1>6, <3>1, <3>2, <4>1, <4>2
    <3>4. CASE kind = "DATETIME"
      <4>1. Low(Ceiling) = now - SafetySecs - SafetySecs
        BY <3>4 DEF Low, Ceiling
      <4>2. now - value[r] < 2 * SafetySecs
        BY <3>2, <3>4 DEF OpenInv
      <4> QED
        BY <1>6, <3>1, <4>1, <4>2
    <3> QED
      BY <2>2, <3>3, <3>4 DEF Clock, Win!Clock
  <2>3. \A p : Low(p)' = Low(p)
    BY <1>1 DEF Low
  <2>4. Low(cycle.plan.next)' = Low(cycle'.plan.next)
    BY <1>1 DEF Low
  <2> QED
    BY <1>1, <1>3, <2>1, <2>2, <2>4 DEF CeilingInv
<1>8. ReadInv'
  <2>1. Win!Floor' = Win!Floor
    BY <1>1 DEF Win!Floor
  <2>2. cycle'.plan.floor = IF wm # NoValue /\ load = "D" THEN Win!Floor ELSE NoValue
    BY <1>2, PlanIs
  <2>3. ASSUME cycle'.pc = "read", cycle'.plan.below # NoValue
        PROVE  kind = "DATE" /\ \A r \in cycle'.due : value[r] < cycle'.plan.below
    <3>1. kind = "DATE" /\ ~Win!Truncates(load) /\ cycle'.plan.below = now \div Day
      BY <1>2, <2>3, PlanIs
    <3>2. load = "D"
      BY <1>2, <2>3, <3>1 DEF Win!Truncates
    <3> QED
      BY <1>2, <3>1, <3>2
  <2> QED
    BY <1>1, <1>2, <2>1, <2>2, <2>3 DEF ReadInv
<1>9. CommitInv'
  BY <1>2 DEF CommitInv
<1>10. cycle'.due \cap adopted' = {}
  BY <1>1, <1>2
<1> QED
  BY <1>4, <1>5, <1>7, <1>8, <1>9, <1>10

\* The read takes all rows that the replica is owed and whose transaction has ended.
LEMMA WhereTakes ==
    ASSUME PlainInv, OwedInv, cycle.pc = "read",
           NEW r \in Left, r \in Win!Committed,
           cycle.plan.below # NoValue => value[r] < cycle.plan.below
    PROVE  r \in Win!Where(cycle.plan)
<1> USE DEF PlainInv, OwedInv
<1>1. r \in Written
  BY DEF Left
<1>2. ASSUME cycle.plan.floor # NoValue
      PROVE  Win!Above(value[r], cycle.plan.floor)
  <2>1. wm # NoValue /\ cycle.plan.floor = Win!Floor
    BY <1>2 DEF ReadInv
  <2>2. CASE kind \in Clock
    <3>1. wm \in Int /\ value[r] > Low(wm)
      BY <2>1, <2>2 DEF PositionInv, PositionShape
    <3> QED
      BY <1>1, <2>1, <2>2, <3>1, AboveFloor
  <2>3. CASE kind \notin Clock
    <3>1. PICK m \in Written : Reached(m) /\ r > CounterLow(m)
      BY <2>1, <2>3 DEF PositionInv
    <3> QED
      BY <1>1, <2>1, <2>3, <3>1, AboveCounterFloor
  <2> QED
    BY <2>2, <2>3
<1> QED
  BY <1>2 DEF Win!Where

LEMMA ReadOwed ==
    ASSUME PlainInv, OwedInv, Win!Read
    PROVE  OwedInv'
<1> USE DEF PlainInv, OwedInv
<1>1. UNCHANGED <<kind, now, value, open, gone, adopted, replica, wm>>
  BY ReadIs
<1>2. /\ cycle.pc = "read" /\ cycle'.pc = "commit" /\ cycle'.load = cycle.load
      /\ cycle'.plan = cycle.plan /\ cycle'.due = cycle.due /\ cycle'.stage = Win!Where(cycle.plan)
      /\ Win!Where(cycle.plan) \subseteq Written \ (open \cup gone)
  BY ReadIs
<1>3. Left' = Left /\ Ceiling' = Ceiling /\ Clock' = Clock /\ Written' = Written
  BY <1>1 DEF Left, Written, Win!Written, Ceiling, Clock, Win!Clock
<1>4. OpenInv'
  BY <1>1, <1>3 DEF OpenInv
<1>5. PositionInv'
  BY <1>1, <1>3, PositionStays
<1>6. CeilingInv'
  <2>1. Low(cycle.plan.next)' = Low(cycle.plan.next)
    BY <1>1, <1>2 DEF Low
  <2> QED
    BY <1>1, <1>2, <1>3, <2>1 DEF CeilingInv
<1>7. ReadInv'
  BY <1>2 DEF ReadInv
<1>8. CommitInv'
  <2>1. ASSUME NEW r \in cycle.due, r \notin replica, r \notin gone
        PROVE  r \in Win!Where(cycle.plan)
    <3>1. r \in Written \ open /\ r \notin adopted
      BY <1>2 DEF CycleShape
    <3>2. r \in Left /\ r \in Win!Committed
      BY <2>1, <3>1 DEF Left, Win!Committed, Written
    <3>3. cycle.plan.below # NoValue => value[r] < cycle.plan.below
      BY <1>2 DEF ReadInv
    <3> QED
      BY <1>2, <3>2, <3>3, WhereTakes
  <2>2. ASSUME kind \notin Clock, NEW r \in Left \ Win!Where(cycle.plan), NEW q \in Win!Where(cycle.plan)
        PROVE  r > CounterLow(q)
    <3>1. r \in Written /\ r \notin gone
      BY DEF Left
    <3>2. r \in open
      <4>1. cycle.plan.below = NoValue
        BY <1>2, <2>2 DEF ReadInv, Clock, Win!Clock
      <4>2. r \notin Win!Committed
        BY <1>2, <2>2, <4>1, WhereTakes
      <4> QED
        BY <3>1, <4>2 DEF Win!Committed, Written
    <3>3. Len(value) - r < 2 * SafetyUnits \/ r = Len(value)
      BY <2>2, <3>2 DEF OpenInv
    <3>4. /\ Len(value) \in Nat /\ Written = 1 .. Len(value) /\ q \in Written /\ q # r
      BY <1>2, <3>2, RowFacts
    <3>5. SafetyUnits \in Nat
      BY ConstantFacts
    <3>6. q \in Nat /\ r \in Nat \ {0} /\ (q < r \/ q - r < 2 * SafetyUnits)
      BY <3>1, <3>3, <3>4, <3>5
    <3> QED
      BY <3>6, CounterLowFacts
  <2>3. \A m : CounterLow(m)' = CounterLow(m)
    BY DEF CounterLow
  <2>4. cycle'.due \subseteq replica' \cup cycle'.stage \cup gone'
    BY <1>1, <1>2, <2>1
  <2>5. kind' \notin Clock' => \A r \in Left' \ cycle'.stage, q \in cycle'.stage : r > CounterLow(q)
    BY <1>1, <1>2, <1>3, <2>2
  <2> QED
    BY <2>3, <2>4, <2>5 DEF CommitInv
<1>9. cycle'.due \cap adopted' = {}
  BY <1>1, <1>2
<1> QED
  BY <1>4, <1>5, <1>6, <1>7, <1>8, <1>9

LEMMA CommitOwed ==
    ASSUME PlainInv, OwedInv, Win!Commit
    PROVE  OwedInv'
<1> USE DEF PlainInv, OwedInv
<1>1. /\ cycle.pc = "commit" /\ wm' = Win!DecideWatermark /\ cycle' = Win!Idle
      /\ replica' = IF Win!Truncates(cycle.load) THEN cycle.stage ELSE replica \cup cycle.stage
      /\ adopted' = IF cycle.load = "I" /\ kind \in Clock THEN adopted \cup cycle.due ELSE adopted
      /\ UNCHANGED <<kind, now, value, open, gone>>
  BY DEF Win!Commit, Clock
<1>2. Written' = Written /\ Clock' = Clock /\ Ceiling' = Ceiling
  BY <1>1 DEF Written, Win!Written, Clock, Win!Clock, Ceiling
<1>3. cycle'.pc = "idle"
  BY <1>1 DEF Win!Idle
<1>4. OpenInv'
  BY <1>1, <1>2 DEF OpenInv
<1>5. CeilingInv' /\ ReadInv' /\ CommitInv' /\ (cycle'.pc # "idle" => cycle'.due \cap adopted' = {})
  BY <1>3 DEF CeilingInv, ReadInv, CommitInv
<1>6. Left' \subseteq Left \ cycle.stage
  <2>1. /\ adopted \subseteq adopted' /\ cycle.stage \subseteq replica'
        /\ replica \subseteq replica' \cup gone
    BY <1>1 DEF ReloadInv
  <2> QED
    BY <1>1, <1>2, <2>1 DEF Left
<1>7. CASE wm' = wm
  <2>1. PositionInv'
    BY <1>1, <1>2, <1>6, <1>7, PositionStays
  <2> QED
    BY <1>4, <1>5, <2>1
<1>8. CASE wm' # wm /\ kind \in Clock
  <2>1. cycle.load # "F"
    BY <1>1, <1>8 DEF Win!DecideWatermark
  <2>2. wm' = cycle.plan.next /\ wm' \in Int
    BY <1>1, <1>8, <2>1, DecideClock
  <2>3. Left' \cap cycle.due = {}
    <3>1. CASE cycle.load = "I"
      BY <1>1, <1>8, <3>1 DEF Left
    <3>2. CASE cycle.load # "I"
      <4>1. cycle.due \subseteq replica \cup cycle.stage \cup gone
        BY <1>1, <3>2 DEF CommitInv
      <4> QED
        BY <1>6, <4>1 DEF Left
    <3> QED
      BY <3>1, <3>2
  <2>4. wm' <= Ceiling /\ \A r \in Left' : value[r] > Low(wm')
    BY <1>1, <1>6, <1>8, <2>2, <2>3 DEF CeilingInv
  <2>5. Low(wm)' = Low(wm')
    BY <1>1 DEF Low
  <2>6. PositionInv'
    BY <1>1, <1>2, <1>8, <2>4, <2>5 DEF PositionInv
  <2> QED
    BY <1>4, <1>5, <2>6
<1>9. CASE wm' # wm /\ kind \notin Clock
  <2>1. PICK q \in cycle.stage : wm' = Win!LessUnits(Text(q))
    BY <1>1, <1>9, DecideCounter
  <2>2. q \in Written
    BY DEF CycleShape
  <2>3. Reached(q)'
    BY <1>1, <2>1 DEF Reached, Text
  <2>4. \A r \in Left' : r > CounterLow(q)
    BY <1>1, <1>6, <1>9 DEF CommitInv
  <2>5. \A m : CounterLow(m)' = CounterLow(m)
    BY DEF CounterLow
  <2>6. PositionInv'
    BY <1>1, <1>2, <1>9, <2>2, <2>3, <2>4, <2>5 DEF PositionInv
  <2> QED
    BY <1>4, <1>5, <2>6
<1> QED
  BY <1>7, <1>8, <1>9

LEMMA GiveUpOwed ==
    ASSUME PlainInv, OwedInv, Win!GiveUp
    PROVE  OwedInv'
<1> USE DEF PlainInv, OwedInv
<1>1. cycle'.pc = "idle" /\ UNCHANGED <<kind, now, value, open, gone, adopted, replica, wm>>
  BY DEF Win!GiveUp, Win!Idle
<1>2. Left' = Left /\ Ceiling' = Ceiling /\ Clock' = Clock
  BY <1>1 DEF Left, Written, Win!Written, Ceiling, Clock, Win!Clock
<1>3. OpenInv'
  BY <1>1, <1>2 DEF OpenInv
<1>4. PositionInv'
  BY <1>1, <1>2, PositionStays
<1>5. CeilingInv' /\ ReadInv' /\ CommitInv' /\ (cycle'.pc # "idle" => cycle'.due \cap adopted' = {})
  BY <1>1 DEF CeilingInv, ReadInv, CommitInv
<1> QED
  BY <1>3, <1>4, <1>5

LEMMA OwedStep == Margin /\ PlainInv /\ OwedInv /\ [Win!Next]_windowVars => OwedInv'
<1> SUFFICES ASSUME Margin, PlainInv, OwedInv, [Win!Next]_windowVars
             PROVE  OwedInv'
  OBVIOUS
<1>1. CASE Win!Tick
  BY <1>1, TickOwed
<1>2. CASE Win!Write
  BY <1>2, WriteOwed
<1>3. CASE \E r \in open : Win!End(r)
  BY <1>3, EndOwed
<1>4. CASE \E r \in Win!Committed : Win!Archive(r)
  BY <1>4, ArchiveOwed
<1>5. CASE \E load \in {"D", "F", "I", "L"} : Win!Begin(load)
  BY <1>5, BeginOwed
<1>6. CASE Win!Read
  BY <1>6, ReadOwed
<1>7. CASE Win!Commit
  BY <1>7, CommitOwed
<1>8. CASE Win!GiveUp
  BY <1>8, GiveUpOwed
<1>9. CASE UNCHANGED windowVars
  <2>1. UNCHANGED <<kind, now, value, open, gone, adopted, replica, wm, cycle>>
    BY <1>9 DEF windowVars
  <2>2. Left' = Left /\ Ceiling' = Ceiling /\ Clock' = Clock
    BY <2>1 DEF Left, Written, Win!Written, Ceiling, Clock, Win!Clock
  <2>3. OpenInv'
    BY <2>1, <2>2 DEF OpenInv, OwedInv
  <2>4. PositionInv'
    BY <2>1, <2>2, PositionStays DEF OwedInv, PlainInv
  <2>5. /\ CeilingInv' /\ ReadInv' /\ CommitInv'
        /\ (cycle.pc # "idle" => cycle.due \cap adopted = {})'
    BY <2>1, <2>2, CycleOwedStays DEF OwedInv, PlainInv
  <2> QED
    BY <2>3, <2>4, <2>5 DEF OwedInv
<1> QED
  BY <1>1, <1>2, <1>3, <1>4, <1>5, <1>6, <1>7, <1>8, <1>9 DEF Win!Next

\* A cycle that commits leaves no row behind that was committed when it began, for dates,
\* times of day and counters of every width: what PrepareBoundary, ComputeBounds,
\* DecideWatermark and the read's predicate promise together, provided that no
\* transaction is open for longer than MayWait and MayDraw allow.
THEOREM NoRowIsLeftBehind ==
    ASSUME Margin
    PROVE  WindowSpec => []CycleTakesAll
<1>1. Win!Init => PlainInv /\ OwedInv
  BY PlainInit, OwedInit
<1>2. (PlainInv /\ OwedInv) /\ [Win!Next]_windowVars => (PlainInv /\ OwedInv)'
  BY PlainStep, OwedStep
<1>3. PlainInv /\ OwedInv => CycleTakesAll
  BY DEF OwedInv, CommitInv, CycleTakesAll, Win!CycleTakesAll
<1> QED
  BY <1>1, <1>2, <1>3, PTL DEF WindowSpec

-------------------------------------------------------------------------------
(* The cycle of DeltaCycle and the window, of which one moves.              *)

LEMMA BothStep ==
    ASSUME TypeInv, PlainInv, [CycleStep \/ WindowStep]_<<which, vars, windowVars>>
    PROVE  TypeInv' /\ PlainInv'
<1>1. UNCHANGED vars => TypeInv'
  BY StepType
<1>2. UNCHANGED windowVars => PlainInv'
  BY PlainStep
<1>3. CASE CycleStep
  BY <1>2, <1>3, StepType DEF CycleStep
<1>4. CASE WindowStep
  BY <1>1, <1>4, PlainStep DEF WindowStep
<1>5. CASE UNCHANGED <<which, vars, windowVars>>
  BY <1>1, <1>2, <1>5
<1> QED
  BY <1>3, <1>4, <1>5

\* The rows of a target and of its runs that Begin and Commit write, and the window and
\* the position of the other kinds of column, keep their types, whichever moves.
THEOREM TypesOfBothParts == MCSpec => []TypesOK
<1>1. MCInit => TypeInv /\ PlainInv
  BY InitType, PlainInit DEF MCInit
<1>2. TypeInv /\ PlainInv /\ [CycleStep \/ WindowStep]_<<which, vars, windowVars>>
         => TypeInv' /\ PlainInv'
  BY BothStep
<1>3. TypeInv /\ PlainInv => TypesOK
  BY PlainType DEF TypeInv, TypesOK
<1> QED
  BY <1>1, <1>2, <1>3, PTL DEF MCSpec
===============================================================================
