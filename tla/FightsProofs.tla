---------------------------- MODULE FightsProofs ----------------------------
(***************************************************************************)
(* Theorems about Fights, for all values of the constants: whatever        *)
(* ratings, K factor and alms, in numbers that do not overflow.            *)
(***************************************************************************)
EXTENDS Fights, Counting

-----------------------------------------------------------------------------
(***************************************************************************)
(* Fixed-point numbers.                                                    *)
(***************************************************************************)
LEMMA ProductGrows ==
  ASSUME NEW a \in Nat, NEW b \in Nat, NEW c \in Nat, NEW d \in Nat, a <= c, b <= d
  PROVE  a * b \in Nat /\ a * b <= c * d
<1>1. a * b <= c * b
  OBVIOUS
<1>2. c * b <= c * d
  OBVIOUS
<1>3. a * b \in Nat /\ c * b \in Nat /\ c * d \in Nat
  OBVIOUS
<1> DEFINE x == a * b y == c * b z == c * d
<1> HIDE DEF x, y, z
<1>4. x \in Nat /\ y \in Nat /\ z \in Nat /\ x <= y /\ y <= z
  BY <1>1, <1>2, <1>3 DEF x, y, z
<1>5. x <= z
  BY <1>4
<1> QED
  BY <1>3, <1>5 DEF x, z

LEMMA AbsIsNat ==
  ASSUME NEW a \in Int
  PROVE  Abs(a) \in Nat /\ (a >= 0 => Abs(a) = a) /\ (a <= 0 => Abs(a) = -a)
BY DEF Abs

LEMMA RoundedIsNat ==
  ASSUME NEW n \in Nat
  PROVE  Rounded(n) \in Nat /\ 2 * Rounded(n) >= n /\ 2 * Rounded(n) <= n + 1
BY DEF Rounded

(* A product has the sign that its factors give it. *)
LEMMA TimesType ==
  ASSUME NEW a \in Int, NEW b \in Int
  PROVE  /\ Times(a, b) \in Int
         /\ a >= 0 /\ b >= 0 => Times(a, b) >= 0
         /\ a >= 0 /\ b <= 0 => Times(a, b) <= 0
         /\ a >= 256 /\ b >= 256 => Times(a, b) >= 256
<1> DEFINE p == Abs(a) * Abs(b)
           q == p \div 128
           n == Rounded(q)
<1>1. Abs(a) \in Nat /\ Abs(b) \in Nat
  BY AbsIsNat
<1>2. p \in Nat
  BY <1>1
<1>3. a >= 256 /\ b >= 256 => p >= 256 * 256
  <2> SUFFICES ASSUME a >= 256, b >= 256 PROVE p >= 256 * 256
    OBVIOUS
  <2>1. Abs(a) >= 256 /\ Abs(b) >= 256
    BY DEF Abs
  <2>2. 256 * 256 <= Abs(a) * Abs(b)
    BY <1>1, <2>1, ProductGrows
  <2> QED
    BY <2>2
<1>4. p = 0 \/ (a # 0 /\ b # 0)
  <2>1. a = 0 => Abs(a) = 0
    BY DEF Abs
  <2>2. b = 0 => Abs(b) = 0
    BY DEF Abs
  <2> QED
    BY <1>1, <2>1, <2>2
<1> HIDE DEF p
<1>5. q \in Nat /\ (p >= 256 * 256 => q >= 512) /\ (p = 0 => q = 0)
  BY <1>2
<1> HIDE DEF q
<1>6. n \in Nat /\ 2 * n >= q /\ 2 * n <= q + 1
  BY <1>5, RoundedIsNat
<1> HIDE DEF n
<1>7. Times(a, b) = Signed((a < 0) # (b < 0), n)
  BY DEF Times, n, q, p
<1>8. a >= 0 /\ b >= 0 => Times(a, b) = n
  BY <1>7 DEF Signed
<1>9. a >= 0 /\ b < 0 => Times(a, b) = -n
  BY <1>7 DEF Signed
<1>10. Times(a, b) \in {n, -n}
  BY <1>7 DEF Signed
<1>11. a >= 0 /\ b = 0 => n = 0
  BY <1>4, <1>5, <1>6
<1> QED
  BY <1>3, <1>5, <1>6, <1>8, <1>9, <1>10, <1>11

(* One by a number: below one for a greater one. *)
LEMMA OneOver ==
  ASSUME NEW b \in Nat, b >= 256
  PROVE  /\ Over(256, b) \in 0..256
         /\ b >= 512 => Over(256, b) <= 128
         /\ b <= 512 => Over(256, b) >= 128
<1> DEFINE q == 131072 \div b
<1>1. q \in Nat /\ b * q <= 131072 /\ 131072 < b * (q + 1)
  BY SMTT(30)
<1> HIDE DEF q
<1>2. q <= 512
  <2> SUFFICES ASSUME q >= 513 PROVE FALSE
    BY <1>1
  <2>1. 256 * 513 <= b * q
    BY <1>1, ProductGrows
  <2> QED
    BY <1>1, <2>1
<1>3. b >= 512 => q <= 256
  <2> SUFFICES ASSUME q >= 257, b >= 512 PROVE FALSE
    BY <1>1
  <2>1. 512 * 257 <= b * q
    BY <1>1, ProductGrows
  <2> QED
    BY <1>1, <2>1
<1>4. b <= 512 => q >= 256
  <2> SUFFICES ASSUME q <= 255, b <= 512 PROVE FALSE
    BY <1>1
  <2>1. b * (q + 1) <= 512 * 256
    BY <1>1, ProductGrows
  <2> QED
    BY <1>1, <2>1
<1>5. Over(256, b) = Rounded(q)
  <2>1. Abs(256) * 512 = 131072 /\ Abs(b) = b
    BY DEF Abs
  <2>2. ((256 < 0) # (b < 0)) = FALSE
    OBVIOUS
  <2> QED
    BY <2>1, <2>2 DEF Over, Signed, q
<1>6. Rounded(q) \in Nat /\ 2 * Rounded(q) >= q /\ 2 * Rounded(q) <= q + 1
  BY <1>1, RoundedIsNat
<1> QED
  BY <1>1, <1>2, <1>3, <1>4, <1>5, <1>6

LEMMA TruncatedType ==
  ASSUME NEW a \in Int, NEW n \in Nat \ {0}
  PROVE  /\ Truncated(a, n) \in Int
         /\ a >= 0 => Truncated(a, n) >= 0
         /\ a <= 0 => Truncated(a, n) <= 0
<1> DEFINE q == Abs(a) \div n
<1>1. Abs(a) \in Nat
  BY AbsIsNat
<1>2. q \in Nat
  BY <1>1
<1>3. a = 0 => q = 0
  BY DEF Abs
<1> HIDE DEF q
<1>4. Truncated(a, n) = IF a < 0 THEN -q ELSE q
  BY DEF Truncated, Signed, q
<1> QED
  BY <1>2, <1>3, <1>4

-----------------------------------------------------------------------------
(***************************************************************************)
(* Powers.                                                                 *)
(***************************************************************************)
LEMMA Prefix ==
  ASSUME NEW k \in Nat \ {0}
  PROVE  Max(1..k) = k /\ (1..k) \ {k} = 1..(k - 1) /\ 1..k # {}
<1>0. k \in Int /\ 1 \in Int
  OBVIOUS
<1>a. IsFiniteSet(1..k)
  BY <1>0, FS_Interval
<1>1. 1..k \in SUBSET Int /\ IsFiniteSet(1..k) /\ 1..k # {} /\ k \in 1..k
  BY <1>a
<1>2. Max(1..k) \in 1..k /\ k <= Max(1..k)
  BY <1>1, MaxIsGreatest
<1> QED
  BY <1>2

(* Polynomials are evaluated from the highest coefficient to the lowest;   *)
(* v[k] is what the first k of six coefficients make of x.                 *)
Horner(v, c, x) ==
  /\ v \in [0..6 -> Int] /\ v[0] = 0
  /\ \A k \in 1..6 : v[k] = Times(v[k - 1], x) + c[k]

LEMMA SixCoefficients ==
  ASSUME NEW x \in Int, NEW c \in Seq(Int), Len(c) = 6
  PROVE  \E v : Horner(v, c, x) /\ v[6] = Polynomial(c, x)
<1> DEFINE Op(a, b) == Times(a, x) + b
           step == [z \in Int \X Int |-> Op(z[1], z[2])]
           Adds(F) == F = [s \in SUBSET (DOMAIN c) |->
                             IF s = {} THEN 0 ELSE Op(F[s \ {Max(s)}], c[Max(s)])]
           it == CHOOSE F : Adds(F)
           v == [k \in 0..6 |-> it[1..k]]
<1>1. Polynomial(c, x) = it[DOMAIN c]
  BY Zenon DEF Polynomial, FoldLeft, MapThenFoldSet
<1>2. \A a, b \in Int : Op(a, b) \in Int
  BY TimesType
<1> HIDE DEF Op
<1>3. step \in [Int \X Int -> Int]
  BY <1>2
<1>a. DOMAIN c = 1..6 /\ IsFiniteSet(DOMAIN c) /\ \A k \in 1..6 : c[k] \in Int
  <2>1. DOMAIN c = 1..6 /\ \A k \in 1..6 : c[k] \in Int
    OBVIOUS
  <2> QED
    BY <2>1, FS_Interval
<1>4. \A s \in SUBSET (DOMAIN c) : s # {} => Max(s) \in DOMAIN c /\ c[Max(s)] \in Int
  <2> TAKE s \in SUBSET (DOMAIN c)
  <2>1. IsFiniteSet(s) /\ s \in SUBSET Int
    BY <1>a, FS_Subset
  <2>2. s # {} => Max(s) \in s
    BY <2>1, MaxIsGreatest
  <2> QED
    BY <1>a, <2>2
<1>5. PICK F \in [SUBSET (DOMAIN c) -> Int] : InOrder(F, c, 0, step)
  <2>1. 0 \in Int
    OBVIOUS
  <2> HIDE DEF step
  <2> QED
    BY <1>3, <2>1, SequenceFoldExists
<1>6. Adds(F)
  <2>1. \A s \in SUBSET (DOMAIN c) : s # {} =>
          step[<<F[s \ {Max(s)}], c[Max(s)]>>] = Op(F[s \ {Max(s)}], c[Max(s)])
    BY <1>4, <1>5
  <2> QED
    BY <1>5, <2>1 DEF InOrder
<1>7. Adds(it)
  BY <1>6
<1> HIDE DEF it
<1>8. DOMAIN c = 1..6
  OBVIOUS
<1>9. it[1..0] = 0
  BY <1>7, <1>8
<1>10. ASSUME NEW k \in 1..6 PROVE it[1..k] = Op(it[1..(k - 1)], c[k])
  <2>1. 1..k \in SUBSET (DOMAIN c) /\ k \in Nat \ {0}
    BY <1>8
  <2>2. Max(1..k) = k /\ (1..k) \ {k} = 1..(k - 1) /\ 1..k # {}
    BY <2>1, Prefix
  <2> QED
    BY <1>7, <2>1, <2>2
<1> HIDE DEF Adds
<1>11. \A k \in 1..6 : it[1..(k - 1)] \in Int => it[1..k] \in Int
  <2> TAKE k \in 1..6
  <2> DEFINE a == it[1..(k - 1)]
  <2>1. it[1..k] = Op(a, c[k]) /\ c[k] \in Int
    BY <1>a, <1>10
  <2> HIDE DEF a
  <2>2. a \in Int => it[1..k] \in Int
    BY <1>2, <2>1
  <2> QED
    BY <2>2 DEF a
<1>12. /\ it[1..0] \in Int /\ it[1..1] \in Int /\ it[1..2] \in Int /\ it[1..3] \in Int
       /\ it[1..4] \in Int /\ it[1..5] \in Int /\ it[1..6] \in Int
  <2>0. it[1..0] \in Int
    BY <1>9
  <2>1. it[1..1] \in Int
    BY <1>11, <2>0
  <2>2. it[1..2] \in Int
    BY <1>11, <2>1
  <2>3. it[1..3] \in Int
    BY <1>11, <2>2
  <2>4. it[1..4] \in Int
    BY <1>11, <2>3
  <2>5. it[1..5] \in Int
    BY <1>11, <2>4
  <2>6. it[1..6] \in Int
    BY <1>11, <2>5
  <2> QED
    BY <2>0, <2>1, <2>2, <2>3, <2>4, <2>5, <2>6
<1>13. v \in [0..6 -> Int]
  BY <1>12
<1>14. \A k \in 1..6 : v[k] = Op(v[k - 1], c[k])
  <2> TAKE k \in 1..6
  <2>1. k \in 0..6 /\ k - 1 \in 0..6
    OBVIOUS
  <2>2. v[k] = it[1..k] /\ v[k - 1] = it[1..(k - 1)]
    BY <2>1
  <2> QED
    BY <1>10, <2>2
<1>15. v[0] = 0 /\ v[6] = Polynomial(c, x)
  BY <1>1, <1>8, <1>9
<1> HIDE DEF v
<1> QED
  BY <1>13, <1>14, <1>15 DEF Op, Horner

LEMMA PowerIsPositive ==
  ASSUME NEW b \in Nat \ {0}, NEW n \in Nat
  PROVE  Power(b, n) \in Nat \ {0} /\ (n = 0 => Power(b, n) = 1)
<1> DEFINE A == Nat \ {0}
           c == [i \in 1..n |-> b]
           step == [z \in A \X A |-> z[1] * z[2]]
           Multiplies(F) == F = [s \in SUBSET (DOMAIN c) |->
                                   IF s = {} THEN 1 ELSE F[s \ {Max(s)}] * c[Max(s)]]
           it == CHOOSE F : Multiplies(F)
<1>1. Power(b, n) = it[DOMAIN c]
  BY Zenon DEF Power, FoldLeft, MapThenFoldSet
<1>2. \A x, y \in A : x * y \in A
  OBVIOUS
<1>3. step \in [A \X A -> A]
  BY <1>2
<1>4. c \in Seq(A) /\ DOMAIN c = 1..n
  OBVIOUS
<1>f. IsFiniteSet(DOMAIN c)
  <2>1. 1 \in Int /\ n \in Int
    OBVIOUS
  <2> QED
    BY <1>4, <2>1, FS_Interval
<1>5. \A s \in SUBSET (DOMAIN c) : s # {} => Max(s) \in DOMAIN c /\ c[Max(s)] \in A
  <2> TAKE s \in SUBSET (DOMAIN c)
  <2>a. s \in SUBSET Int
    BY <1>4
  <2>1. IsFiniteSet(s) /\ s \in SUBSET Int
    BY <1>f, <2>a, FS_Subset
  <2>2. s # {} => Max(s) \in s
    BY <2>1, MaxIsGreatest
  <2> QED
    BY <1>4, <2>2
<1> HIDE DEF A, c
<1>6. PICK F \in [SUBSET (DOMAIN c) -> A] : InOrder(F, c, 1, step)
  <2>1. 1 \in A
    BY DEF A
  <2> HIDE DEF step
  <2> QED
    BY <1>3, <1>4, <2>1, SequenceFoldExists
<1>7. Multiplies(F)
  <2>1. \A s \in SUBSET (DOMAIN c) : s # {} =>
          step[<<F[s \ {Max(s)}], c[Max(s)]>>] = F[s \ {Max(s)}] * c[Max(s)]
    BY <1>5, <1>6
  <2> QED
    BY <1>6, <2>1 DEF InOrder
<1>8. Multiplies(it)
  BY <1>7
<1> HIDE DEF it
<1>9. it[{}] \in A
  BY <1>8 DEF A
<1>10. \A s \in SUBSET (DOMAIN c) : s # {} /\ it[s \ {Max(s)}] \in A => it[s] \in A
  BY <1>2, <1>5, <1>8
<1>11. it[DOMAIN c] \in A
  <2> HIDE DEF Multiplies
  <2> QED
    BY <1>4, <1>9, <1>10, SequenceFoldKeeps
<1>12. n = 0 => DOMAIN c = {}
  BY <1>4
<1>13. it[{}] = 1
  BY <1>8
<1> QED
  BY <1>1, <1>11, <1>12, <1>13 DEF A

(* A power of two, and of ten, is one or more. *)
LEMMA Exp2IsOneOrMore ==
  ASSUME NEW x \in Nat
  PROVE  Exp2(x) \in Nat /\ Exp2(x) >= 256
<1> DEFINE c == <<0, 2, 14, 61, 177, 256>>
           y == x % 256
           p == Power(2, x \div 256)
<1>1. y \in Nat
  OBVIOUS
<1>2. p \in Nat \ {0}
  <2>1. x \div 256 \in Nat
    OBVIOUS
  <2> QED
    BY <2>1, PowerIsPositive
<1>3. c \in Seq(Int) /\ Len(c) = 6
  OBVIOUS
<1>c. \A k \in 1..6 : c[k] \in Int /\ c[k] >= 0
  OBVIOUS
<1>4. c[6] = 256
  OBVIOUS
<1> HIDE DEF c, y, p
<1>5. PICK v : Horner(v, c, y) /\ v[6] = Polynomial(c, y)
  BY <1>1, <1>3, SixCoefficients
<1>6. \A k \in 1..6 : v[k - 1] >= 0 => v[k] >= c[k] /\ v[k] >= 0
  <2> TAKE k \in 1..6
  <2>1. v[k - 1] \in Int /\ v[k] = Times(v[k - 1], y) + c[k]
    BY <1>5 DEF Horner
  <2> DEFINE u == v[k - 1]
  <2> HIDE DEF u
  <2>2. u \in Int /\ v[k] = Times(u, y) + c[k]
    BY <2>1 DEF u
  <2>a. u \in Int /\ y \in Int /\ y >= 0
    BY <1>1, <2>2
  <2>3. Times(u, y) \in Int /\ (u >= 0 => Times(u, y) >= 0)
    BY <2>a, TimesType
  <2>4. u >= 0 => v[k] >= c[k] /\ v[k] >= 0
    BY <1>c, <2>2, <2>3
  <2> QED
    BY <2>4 DEF u
<1>7. v[5] >= 0
  <2>1. v[1] >= 0
    BY <1>5, <1>6 DEF Horner
  <2>2. v[2] >= 0
    BY <1>6, <2>1
  <2>3. v[3] >= 0
    BY <1>6, <2>2
  <2>4. v[4] >= 0
    BY <1>6, <2>3
  <2> QED
    BY <1>6, <2>4
<1>8. Polynomial(c, y) \in Int /\ Polynomial(c, y) >= 256
  BY <1>4, <1>5, <1>6, <1>7 DEF Horner
<1>9. Exp2(x) = Times(p * 256, Polynomial(c, y))
  BY DEF Exp2, p, c, y
<1>10. p * 256 \in Int /\ p * 256 >= 256
  BY <1>2
<1> DEFINE q == p * 256 r == Polynomial(c, y)
<1> HIDE DEF q, r
<1>11. q \in Int /\ q >= 256 /\ r \in Int /\ r >= 256 /\ Exp2(x) = Times(q, r)
  BY <1>8, <1>9, <1>10 DEF q, r
<1> QED
  BY <1>11, TimesType

(* The logarithm of ten, as it is computed: 3.32 *)
LEMMA Log2OfTen == Log2(2560) = 850
<1> DEFINE c == <<11, -107, 418, -909, 1303, -717>>
<1>1. c \in Seq(Int) /\ Len(c) = 6
  OBVIOUS
<1>2. /\ c[1] = 11 /\ c[2] = -107 /\ c[3] = 418 /\ c[4] = -909 /\ c[5] = 1303
      /\ c[6] = -717
  OBVIOUS
<1> HIDE DEF c
<1>3. PICK v : Horner(v, c, 320) /\ v[6] = Polynomial(c, 320)
  BY <1>1, SixCoefficients
<1>4. /\ Times(0, 320) = 0 /\ Times(11, 320) = 14 /\ Times(-93, 320) = -116
      /\ Times(302, 320) = 378 /\ Times(-531, 320) = -664 /\ Times(639, 320) = 799
  BY DEF Times, Abs, Rounded, Signed
<1>5. v[1] = 11
  BY <1>2, <1>3, <1>4 DEF Horner
<1>6. v[2] = -93
  BY <1>2, <1>3, <1>4, <1>5 DEF Horner
<1>7. v[3] = 302
  BY <1>2, <1>3, <1>4, <1>6 DEF Horner
<1>8. v[4] = -531
  BY <1>2, <1>3, <1>4, <1>7 DEF Horner
<1>9. v[5] = 639
  BY <1>2, <1>3, <1>4, <1>8 DEF Horner
<1>10. v[6] = 82
  BY <1>2, <1>3, <1>4, <1>9 DEF Horner
<1>11. Log2(2560) = 3 * 256 + Polynomial(c, 320)
  BY DEF Log2, c
<1> QED
  BY <1>3, <1>10, <1>11

LEMMA PowerOf10Type ==
  ASSUME NEW y \in Int
  PROVE  /\ PowerOf10(y) \in Nat
         /\ y >= 0 => PowerOf10(y) >= 256
         /\ y <= 0 => PowerOf10(y) <= 256
<1> DEFINE positive(x) == IF x % 256 = 0 THEN Power(10, x \div 256) * 256
                          ELSE Exp2(Times(Log2(2560), x))
<1>1. ASSUME NEW x \in Nat
      PROVE  positive(x) \in Nat /\ positive(x) >= 256 /\ (x = 0 => positive(x) = 256)
  <2> DEFINE n == x \div 256 p == Power(10, n)
  <2>1. n \in Nat /\ (x = 0 => n = 0)
    OBVIOUS
  <2> HIDE DEF n
  <2>2. p \in Nat \ {0} /\ (n = 0 => p = 1)
    BY <2>1, PowerIsPositive
  <2> HIDE DEF p
  <2>3. p * 256 \in Nat /\ p * 256 >= 256 /\ (x = 0 => p * 256 = 256)
    BY <2>1, <2>2
  <2>4. Times(850, x) \in Nat
    BY TimesType
  <2>5. Exp2(Times(850, x)) \in Nat /\ Exp2(Times(850, x)) >= 256
    BY <2>4, Exp2IsOneOrMore
  <2>6. x % 256 = 0 => positive(x) = p * 256
    BY DEF p, n
  <2>7. x % 256 # 0 => positive(x) = Exp2(Times(850, x)) /\ x # 0
    BY Log2OfTen
  <2> HIDE DEF positive
  <2> QED
    BY <2>3, <2>5, <2>6, <2>7
<1>2. PowerOf10(y) = IF y < 0 THEN Over(256, positive(-y)) ELSE positive(y)
  BY Zenon DEF PowerOf10
<1> HIDE DEF positive
<1>3. CASE y >= 0
  <2>1. y \in Nat /\ PowerOf10(y) = positive(y)
    BY <1>2, <1>3
  <2> QED
    BY <1>1, <2>1
<1>4. CASE y < 0
  <2>1. -y \in Nat /\ PowerOf10(y) = Over(256, positive(-y))
    BY <1>2, <1>4
  <2>2. positive(-y) \in Nat /\ positive(-y) >= 256
    BY <1>1, <2>1
  <2>3. Over(256, positive(-y)) \in 0..256
    BY <2>2, OneOver
  <2> QED
    BY <1>4, <2>1, <2>3
<1> QED
  BY <1>3, <1>4
-----------------------------------------------------------------------------
(***************************************************************************)
(* Ratings.                                                                *)
(***************************************************************************)

(* The stronger side is expected to score half or more, the weaker one     *)
(* half or less, rounding included.                                        *)
LEMMA ExpectedType ==
  ASSUME NEW own \in Nat, NEW other \in Nat
  PROVE  /\ Expected(own, other) \in 0..256
         /\ other >= own => Expected(own, other) <= 128
         /\ other <= own => Expected(own, other) >= 128
<1> DEFINE a == (other - own) * 256
           y == Truncated(a, 400)
           p == PowerOf10(y)
<1>1. a \in Int /\ (other >= own => a >= 0) /\ (other <= own => a <= 0)
  OBVIOUS
<1> HIDE DEF a
<1>2. y \in Int /\ (other >= own => y >= 0) /\ (other <= own => y <= 0)
  BY <1>1, TruncatedType
<1> HIDE DEF y
<1>3. p \in Nat /\ (other >= own => p >= 256) /\ (other <= own => p <= 256)
  BY <1>2, PowerOf10Type
<1> HIDE DEF p
<1>4. Expected(own, other) = Over(256, 256 + p)
  BY DEF Expected, p, y, a
<1>5. 256 + p \in Nat /\ 256 + p >= 256
  BY <1>3
<1>6. /\ Over(256, 256 + p) \in 0..256
      /\ 256 + p >= 512 => Over(256, 256 + p) <= 128
      /\ 256 + p <= 512 => Over(256, 256 + p) >= 128
  BY <1>5, OneOver
<1> QED
  BY <1>3, <1>4, <1>6

LEMMA FactorKeepsSign ==
  ASSUME NEW k \in Nat, NEW n \in Int
  PROVE  k * n \in Int /\ (n >= 0 => k * n >= 0) /\ (n <= 0 => k * n <= 0)
OBVIOUS

Scores == {0, 128, 256}

LEMMA ChangeType ==
  ASSUME NEW own \in Nat, NEW other \in Nat, NEW score \in Scores
  PROVE  /\ Change(own, other, score) \in Int
         /\ score = 256 => Change(own, other, score) >= 0
         /\ score = 0 => Change(own, other, score) <= 0
         /\ score = 128 /\ other >= own => Change(own, other, score) >= 0
         /\ score = 128 /\ other <= own => Change(own, other, score) <= 0
<1> DEFINE e == Expected(own, other)
           d == score - e
           c == KFACTOR * d
<1>1. e \in 0..256 /\ (other >= own => e <= 128) /\ (other <= own => e >= 128)
  BY ExpectedType
<1> HIDE DEF e
<1>2. /\ d \in Int /\ (score = 256 => d >= 0) /\ (score = 0 => d <= 0)
      /\ score = 128 /\ other >= own => d >= 0
      /\ score = 128 /\ other <= own => d <= 0
  BY <1>1 DEF Scores
<1> HIDE DEF d
<1>3. c \in Int /\ (d >= 0 => c >= 0) /\ (d <= 0 => c <= 0)
  BY <1>2, FightsAssumption, FactorKeepsSign
<1> HIDE DEF c
<1>4. Change(own, other, score) = IF score = 0 THEN Times(ALMS, c) ELSE c
  BY DEF Change, c, d, e
<1>5. ALMS \in Int /\ ALMS >= 0
  BY FightsAssumption
<1>6. Times(ALMS, c) \in Int /\ (c <= 0 => Times(ALMS, c) <= 0)
  BY <1>3, <1>5, TimesType
<1> QED
  BY <1>2, <1>3, <1>4, <1>6

LEMMA NewRatingType ==
  ASSUME NEW own \in Nat, NEW other \in Nat, NEW score \in Scores
  PROVE  /\ NewRating(own, other, score) \in Nat
         /\ score = 256 => NewRating(own, other, score) >= own
         /\ score = 0 => NewRating(own, other, score) <= own
         /\ score = 128 /\ other >= own => NewRating(own, other, score) >= own
         /\ score = 128 /\ other <= own => NewRating(own, other, score) <= own
<1> DEFINE c == Change(own, other, score)
           a == own * 256 + c
           q == Abs(a) \div 256
           t == Truncated(a, 256)
<1>1. /\ c \in Int /\ (score = 256 => c >= 0) /\ (score = 0 => c <= 0)
      /\ score = 128 /\ other >= own => c >= 0
      /\ score = 128 /\ other <= own => c <= 0
  BY ChangeType
<1> HIDE DEF c
<1>2. a \in Int /\ (c >= 0 => a >= own * 256) /\ (c <= 0 => a <= own * 256)
  BY <1>1
<1> HIDE DEF a
<1>3. t = IF a < 0 THEN -q ELSE q
  BY DEF Truncated, Signed
<1>4. q \in Nat
  BY <1>2, AbsIsNat
<1>5. a >= 0 => q = a \div 256
  BY <1>2, AbsIsNat
<1> HIDE DEF q
<1>6. /\ t \in Int /\ (c >= 0 => t >= own) /\ (c <= 0 => t <= own)
  BY <1>2, <1>3, <1>4, <1>5
<1> HIDE DEF t
<1>7. NewRating(own, other, score) = IF t < 0 THEN 0 ELSE t
  BY DEF NewRating, t, a, c
<1> QED
  BY <1>1, <1>6, <1>7

-----------------------------------------------------------------------------
(***************************************************************************)
(* The score of a fight.                                                   *)
(***************************************************************************)
LEMMA ScoreType ==
  ASSUME NEW l, NEW r
  PROVE  Score(l, r) \in Scores /\ 256 - Score(l, r) \in Scores
BY DEF Score, Scores

(* The same number of points from each of n moves. *)
LEMMA SumOfEqual ==
  ASSUME NEW n \in Nat, NEW f, DOMAIN f = 1..n, NEW k \in {0, 2}, \A i \in 1..n : f[i] = k
  PROVE  SumOf(f) = k * n
<1> DEFINE S == 1..n
           ones == [i \in S |-> IF i \in S THEN 1 ELSE 0]
           none == [i \in S |-> IF i \in {} THEN 1 ELSE 0]
           twos == [i \in S |-> 2]
<1>0. 1 \in Int /\ n \in Int
  OBVIOUS
<1>1. IsFiniteSet(S) /\ Cardinality(S) = n
  BY <1>0, FS_Interval
<1>2. \A i \in S : f[i] \in Nat
  OBVIOUS
<1>3. SumOf(f) = Total(f, S)
  <2>1. MapThenSumSet(LAMBDA x : f[x], S) = Total(f, S)
    BY <1>1, <1>2, SumIsTotal, Zenon
  <2> QED
    BY <2>1, Zenon DEF SumOf
<1>4. Total(ones, S) = n
  <2>1. S \in SUBSET S /\ \A i \in S : ones[i] = IF i \in S THEN 1 ELSE 0
    OBVIOUS
  <2> HIDE DEF S, ones
  <2> QED
    BY <1>1, <2>1, TotalOfOnes
<1>5. Total(none, S) = 0
  <2>1. {} \in SUBSET S /\ \A i \in S : none[i] = IF i \in {} THEN 1 ELSE 0
    OBVIOUS
  <2> HIDE DEF S, none
  <2> QED
    BY <1>1, <2>1, TotalOfOnes, FS_EmptySet
<1>6. Total(twos, S) = Total(ones, S) + Total(ones, S)
  <2>1. \A i \in S : ones[i] \in Nat /\ ones[i] \in Nat /\ twos[i] = ones[i] + ones[i]
    OBVIOUS
  <2> HIDE DEF S, ones, twos
  <2> QED
    BY <1>1, <2>1, TotalSum
<1>7. CASE k = 0
  <2>1. \A i \in S : f[i] = none[i]
    BY <1>7
  <2> HIDE DEF S, none
  <2>2. Total(f, S) = Total(none, S)
    BY <2>1, TotalAgree
  <2> QED
    BY <1>3, <1>5, <1>7, <2>2
<1>8. CASE k = 2
  <2>1. \A i \in S : f[i] = twos[i]
    BY <1>8
  <2> HIDE DEF S, twos, ones
  <2>2. Total(f, S) = Total(twos, S)
    BY <2>1, TotalAgree
  <2> QED
    BY <1>3, <1>4, <1>6, <1>8, <2>2
<1> QED
  BY <1>7, <1>8

(* A type that beats another is not the same and is not beaten by it. *)
LEMMA BeatsOneWay ==
  ASSUME NEW m, NEW n, <<TypeOf[m], TypeOf[n]>> \in Beats
  PROVE  /\ ExecuteOneMoveAgainstAnother(m, n) = 0
         /\ ExecuteOneMoveAgainstAnother(n, m) = 2
<1> DEFINE a == TypeOf[m] b == TypeOf[n]
<1>1. a # b /\ <<b, a>> \notin Beats
  BY DEF Beats
<1> QED
  BY <1>1 DEF ExecuteOneMoveAgainstAnother

LEMMA ShufflesType ==
  ASSUME TypeOK, NEW f \in Fighters, NEW r \in Shuffles(f)
  PROVE  /\ Cardinality(Made(f)) \in Nat /\ Len(r) = Cardinality(Made(f))
         /\ DOMAIN r = 1..Len(r) /\ \A i \in DOMAIN r : r[i] \in Made(f)
<1> DEFINE s == moves[f]
           n == Cardinality(Made(f))
           at == [i \in 1..Len(s) |-> s[i]]
<1>1. s \in Seq(Moves)
  BY DEF TypeOK
<1>2. Made(f) = {s[i] : i \in 1..Len(s)} /\ Len(s) \in Nat
  BY <1>1 DEF Made, ToSet
<1> HIDE DEF s
<1>3. IsFiniteSet(1..Len(s))
  <2>1. 1 \in Int /\ Len(s) \in Int
    BY <1>2
  <2> QED
    BY <2>1, FS_Interval
<1>4. at \in Surjection(1..Len(s), Made(f))
  BY <1>2 DEF Surjection
<1>5. IsFiniteSet(Made(f)) /\ n \in Nat
  <2> HIDE DEF at
  <2> QED
    BY <1>3, <1>4, FS_Surjection, FS_CardinalityType
<1>6. r \in [1..n -> Made(f)]
  BY DEF Shuffles, SetToSeqs, Made
<1> HIDE DEF n
<1>7. Len(r) = n /\ DOMAIN r = 1..n
  BY <1>5, <1>6
<1> QED
  BY <1>5, <1>6, <1>7 DEF n

(* Whatever the order of the moves and whichever side it is on: one who    *)
(* dominates wins.                                                         *)
LEMMA DominatesWins ==
  ASSUME TypeOK, NEW f \in Fighters, NEW g \in Fighters, Dominates(f, g),
         NEW r \in Shuffles(f), NEW l \in Shuffles(g)
  PROVE  Score(l, r) = 0 /\ Score(r, l) = 256
<1> DEFINE n == Len(l) k == Len(r)
<1>1. /\ Len(r) = Cardinality(Made(f)) /\ DOMAIN r = 1..Len(r) /\ Len(r) \in Nat
      /\ \A i \in DOMAIN r : r[i] \in Made(f)
  BY ShufflesType
<1>2. /\ Len(l) = Cardinality(Made(g)) /\ DOMAIN l = 1..Len(l) /\ Len(l) \in Nat
      /\ \A i \in DOMAIN l : l[i] \in Made(g)
  BY ShufflesType
<1>3. k >= n
  BY <1>1, <1>2 DEF Dominates
<1>4. n # 0
  <2>1. PICK s : s = moves[g] /\ s \in Seq(Moves)
    BY DEF TypeOK
  <2>2. IsFiniteSet(Made(g))
    <3>1. Made(g) = {s[i] : i \in 1..Len(s)} /\ Len(s) \in Nat
      BY <2>1 DEF Made, ToSet
    <3>2. [i \in 1..Len(s) |-> s[i]] \in Surjection(1..Len(s), Made(g))
      BY <3>1 DEF Surjection
    <3>3. 1 \in Int /\ Len(s) \in Int
      BY <3>1
    <3>4. IsFiniteSet(1..Len(s))
      BY <3>3, FS_Interval
    <3> DEFINE at == [i \in 1..Len(s) |-> s[i]]
    <3> HIDE DEF at
    <3> QED
      BY <3>2, <3>4, FS_Surjection DEF at
  <2> QED
    BY <1>2, <2>2, FS_EmptySet DEF Dominates
<1>5. DOMAIN l \cap DOMAIN r = 1..n /\ DOMAIN r \cap DOMAIN l = 1..n
  BY <1>1, <1>2, <1>3
<1>6. \A i \in 1..n : <<TypeOf[r[i]], TypeOf[l[i]]>> \in Beats
  BY <1>1, <1>2, <1>3 DEF Dominates
<1>7. \A i \in 1..n : /\ ExecuteOneMoveAgainstAnother(l[i], r[i]) = 2
                      /\ ExecuteOneMoveAgainstAnother(r[i], l[i]) = 0
  BY <1>6, BeatsOneWay
<1>8. SumOf(Exchange(l, r)) = 2 * n
  <2> DEFINE e == Exchange(l, r)
  <2>1. DOMAIN e = 1..n /\ \A i \in 1..n : e[i] = 2
    BY <1>5, <1>7 DEF Exchange
  <2> HIDE DEF e
  <2>2. SumOf(e) = 2 * n
    BY <1>2, <2>1, SumOfEqual
  <2> QED
    BY <2>2 DEF e
<1>9. SumOf(Exchange(r, l)) = 0
  <2> DEFINE e == Exchange(r, l)
  <2>1. DOMAIN e = 1..n /\ \A i \in 1..n : e[i] = 0
    BY <1>5, <1>7 DEF Exchange
  <2> HIDE DEF e
  <2>2. SumOf(e) = 0 * n
    BY <1>2, <2>1, SumOfEqual
  <2> QED
    BY <1>2, <2>2 DEF e
<1>10. LongerBy(r, l) = k - n /\ LongerBy(l, r) = 0
  BY <1>1, <1>2, <1>3 DEF LongerBy
<1>11. RightScore(l, r) = 2 * k /\ FullScore(l, r) = 2 * k
  BY <1>1, <1>2, <1>8, <1>10 DEF RightScore, FullScore
<1>12. RightScore(r, l) = 0 /\ FullScore(r, l) = 2 * k
  BY <1>1, <1>2, <1>9, <1>10 DEF RightScore, FullScore
<1>13. k \in Nat /\ k # 0
  BY <1>1, <1>2, <1>3, <1>4
<1> HIDE DEF k, n
<1> QED
  BY <1>11, <1>12, <1>13 DEF Score
-----------------------------------------------------------------------------
(***************************************************************************)
(* The steps.                                                              *)
(***************************************************************************)

(* Fights are between treats of different owners, and none is left when no *)
(* tournament is under way.                                                *)
IndFights ==
  /\ TypeOK
  /\ \A p \in todo : Owner[p[1]] < Owner[p[2]]
  /\ here = {} => todo = {}

LEMMA InitIsTyped == ASSUME Init PROVE IndFights
<1>1. rating \in [Fighters -> Nat] /\ \A f \in Fighters : rating[f] >= 1000
  BY FightsAssumption DEF Init
<1>2. \A f \in Fighters : sweetness[f] \in 1..SuperSweet
  BY <1>1 DEF Init, SuperSweet
<1>3. sweetness \in [Fighters -> 1..SuperSweet]
  BY <1>2 DEF Init
<1>4. played \in 0..MaxPlayed /\ moves \in [Fighters -> Seq(Moves)]
  BY FightsAssumption DEF Init
<1> QED
  BY <1>1, <1>3, <1>4 DEF Init, IndFights, TypeOK

LEMMA LearnKeeps ==
  ASSUME IndFights, NEW f \in Fighters, NEW m \in Moves,
         Learn(f, m) \/ \E i \in 1..MaxMoves : Relearn(f, i, m)
  PROVE  IndFights'
<1>1. moves[f] \in Seq(Moves) /\ moves \in [Fighters -> Seq(Moves)]
  BY DEF IndFights, TypeOK
<1>2. moves' \in [Fighters -> Seq(Moves)]
  <2>1. CASE Learn(f, m)
    <3>1. Append(moves[f], m) \in Seq(Moves)
      BY <1>1
    <3> QED
      BY <1>1, <2>1, <3>1 DEF Learn
  <2>2. ASSUME NEW i \in 1..MaxMoves, Relearn(f, i, m) PROVE moves' \in [Fighters -> Seq(Moves)]
    <3> DEFINE u == moves[f]
               s == [u EXCEPT ![i] = m]
    <3>1. s \in Seq(Moves)
      <4>1. u \in Seq(Moves)
        BY <1>1
      <4> HIDE DEF u
      <4>2. u \in [1..Len(u) -> Moves] /\ Len(u) \in Nat
        BY <4>1
      <4>3. s \in [1..Len(u) -> Moves]
        BY <4>2
      <4> HIDE DEF s
      <4> QED
        BY <4>2, <4>3
    <3>2. moves' = [moves EXCEPT ![f] = s]
      BY <1>1, <2>2 DEF Relearn
    <3> HIDE DEF s
    <3> QED
      BY <1>1, <3>1, <3>2
  <2> QED
    BY <2>1, <2>2
<1>3. UNCHANGED <<rating, sweetness, todo, here, played>>
  BY DEF Learn, Relearn
<1> QED
  BY <1>2, <1>3 DEF IndFights, TypeOK

LEMMA BeginKeeps ==
  ASSUME IndFights, NEW S \in SUBSET Fighters, Begin(S)
  PROVE  IndFights'
<1>1. played' \in 0..MaxPlayed
  BY FightsAssumption DEF Begin, IndFights, TypeOK
<1>2. todo' \subseteq Fighters \X Fighters /\ \A p \in todo' : Owner[p[1]] < Owner[p[2]]
  BY DEF Begin
<1>3. here' # {}
  BY FS_EmptySet DEF Begin
<1> QED
  BY <1>1, <1>2, <1>3 DEF Begin, IndFights, TypeOK

(* What a fight does to the ratings of two treats. *)
Rated(f, g) ==
  \E r \in Shuffles(f), l \in Shuffles(g) :
    rating' = [rating EXCEPT ![f] = NewRating(rating[f], rating[g], 256 - Score(l, r)),
                             ![g] = NewRating(rating[g], rating[f], Score(l, r))]

LEMMA FightRates ==
  ASSUME IndFights, NEW f \in Fighters, NEW g \in Fighters, Fight(f, g)
  PROVE  /\ f # g /\ rating' \in [Fighters -> Nat]
         /\ Dominates(f, g) => rating'[f] >= rating[f] /\ rating'[g] <= rating[g]
         /\ Dominates(g, f) => rating'[g] >= rating[g] /\ rating'[f] <= rating[f]
         /\ rating'[f] > rating[f] => rating'[g] <= rating[g]
<1>1. TypeOK /\ rating \in [Fighters -> Nat]
  BY DEF IndFights, TypeOK
<1>2. f # g
  <2>1. Owner[f] < Owner[g] /\ Owner[f] \in Int
    BY FightsAssumption DEF Fight, IndFights
  <2> QED
    BY <2>1
<1>3. PICK r \in Shuffles(f), l \in Shuffles(g) :
        rating' = [rating EXCEPT ![f] = NewRating(rating[f], rating[g], 256 - Score(l, r)),
                                 ![g] = NewRating(rating[g], rating[f], Score(l, r))]
  BY DEF Fight
<1> DEFINE a == rating[f] b == rating[g] s == Score(l, r) t == 256 - s
           x == NewRating(a, b, t) y == NewRating(b, a, s)
<1>4. a \in Nat /\ b \in Nat
  BY <1>1
<1>5. s \in Scores /\ t \in Scores
  BY ScoreType
<1>6. rating' = [rating EXCEPT ![f] = x, ![g] = y]
  BY <1>3
<1>7. Dominates(f, g) => s = 0
  BY <1>1, DominatesWins
<1>8. Dominates(g, f) => s = 256
  BY <1>1, DominatesWins
<1>9. (s = 0 <=> t = 256) /\ (s = 256 <=> t = 0) /\ (s = 128 <=> t = 128)
  BY <1>5 DEF Scores
<1> HIDE DEF a, b, s, t
<1>10. /\ x \in Nat /\ (t = 256 => x >= a) /\ (t = 0 => x <= a)
       /\ t = 128 /\ b >= a => x >= a
       /\ t = 128 /\ b <= a => x <= a
  BY <1>4, <1>5, NewRatingType
<1>11. /\ y \in Nat /\ (s = 256 => y >= b) /\ (s = 0 => y <= b)
       /\ s = 128 /\ a >= b => y >= b
       /\ s = 128 /\ a <= b => y <= b
  BY <1>4, <1>5, NewRatingType
<1> HIDE DEF x, y
<1>12. rating'[f] = x /\ rating'[g] = y /\ rating' \in [Fighters -> Nat]
  BY <1>1, <1>2, <1>6, <1>10, <1>11
<1>13. x > a => y <= b
  <2>1. CASE s = 0
    BY <1>11, <2>1
  <2>2. CASE s = 256
    BY <1>4, <1>9, <1>10, <2>2
  <2>3. CASE s = 128
    BY <1>4, <1>9, <1>10, <1>11, <2>3
  <2> QED
    BY <1>5, <2>1, <2>2, <2>3 DEF Scores
<1> QED
  BY <1>2, <1>7, <1>8, <1>9, <1>10, <1>11, <1>12, <1>13 DEF a, b

LEMMA CompleteKeeps == ASSUME IndFights, Complete PROVE IndFights'
<1>1. \A f \in Fighters : rating[f] \in Nat /\ sweetness[f] \in 1..SuperSweet
  BY DEF IndFights, TypeOK
<1>2. \A f \in Fighters : UpdateSweetness(f) \in 1..SuperSweet
  BY <1>1 DEF UpdateSweetness, SuperSweet
<1>3. sweetness' \in [Fighters -> 1..SuperSweet]
  BY <1>1, <1>2 DEF Complete
<1> QED
  BY <1>3 DEF Complete, IndFights, TypeOK

LEMMA NextKeepsIndFights == ASSUME IndFights, [Next]_vars PROVE IndFights'
<1>1. ASSUME NEW f \in Students, NEW m \in Moves,
             Learn(f, m) \/ \E i \in 1..MaxMoves : Relearn(f, i, m)
      PROVE  IndFights'
  BY <1>1, LearnKeeps, FightsAssumption
<1>2. ASSUME NEW S \in SUBSET Fighters, Begin(S) PROVE IndFights'
  BY <1>2, BeginKeeps
<1>3. ASSUME NEW f \in Fighters, NEW g \in Fighters, Fight(f, g) PROVE IndFights'
  <2>1. rating' \in [Fighters -> Nat]
    BY <1>3, FightRates
  <2> QED
    BY <1>3, <2>1 DEF Fight, IndFights, TypeOK
<1>4. CASE UNCHANGED vars
  BY <1>4 DEF vars, IndFights, TypeOK
<1> QED
  BY <1>1, <1>2, <1>3, <1>4, CompleteKeeps DEF Next

LEMMA FightsAreTyped == Spec => []IndFights
<1>1. Init => IndFights
  BY InitIsTyped
<1>2. IndFights /\ [Next]_vars => IndFights'
  BY NextKeepsIndFights
<1> QED
  BY <1>1, <1>2, PTL DEF Spec

(* No treat gets a rating below zero, or sweeter than the sweetest,        *)
(* whatever careers, K factors and alms: the rating is cut off at zero,    *)
(* and two thousand is where the sweetness of the formula would pass ten.  *)
THEOREM TypeCorrect == Spec => []TypeOK
<1>1. IndFights => TypeOK
  BY DEF IndFights
<1> QED
  BY <1>1, FightsAreTyped, PTL

(* Better moves pay for every pair of ratings: the expected score is       *)
(* rounded to a half or more for the stronger side and to a half or less   *)
(* for the weaker one, the reduced loss keeps its sign, and a treat whose  *)
(* moves beat the other's wins from both sides and in every order.         *)
THEOREM BetterMovesAlwaysPay == Spec => BetterMovesPay
<1>1. ASSUME IndFights, Next
      PROVE  \A f, g \in Fighters :
               {<<f, g>>, <<g, f>>} \cap (todo \ todo') # {} =>
                 /\ Dominates(f, g) => rating'[f] >= rating[f] /\ rating'[g] <= rating[g]
                 /\ rating'[f] > rating[f] => rating'[g] <= rating[g]
  <2> TAKE f, g \in Fighters
  <2> HAVE {<<f, g>>, <<g, f>>} \cap (todo \ todo') # {}
  <2>1. todo # {} /\ here # {}
    BY <1>1 DEF IndFights
  <2>2. PICK p \in todo \ todo' : p \in {<<f, g>>, <<g, f>>}
    OBVIOUS
  <2>3. ASSUME NEW h \in Fighters, NEW k \in Fighters, Fight(h, k)
        PROVE  /\ Dominates(f, g) => rating'[f] >= rating[f] /\ rating'[g] <= rating[g]
               /\ rating'[f] > rating[f] => rating'[g] <= rating[g]
    <3>1. p = <<h, k>>
      BY <2>2, <2>3 DEF Fight
    <3>2. rating \in [Fighters -> Nat] /\ rating' \in [Fighters -> Nat]
      BY <1>1, <2>3, FightRates DEF IndFights, TypeOK
    <3>3. (h = f /\ k = g) \/ (h = g /\ k = f)
      BY <2>2, <3>1
    <3> QED
      BY <1>1, <2>3, <3>2, <3>3, FightRates
  <2> QED
    BY <1>1, <2>1, <2>2, <2>3 DEF Next, Learn, Relearn, Begin, Complete
<1>2. IndFights /\ [Next]_vars =>
        [\A f, g \in Fighters :
           {<<f, g>>, <<g, f>>} \cap (todo \ todo') # {} =>
             /\ Dominates(f, g) => rating'[f] >= rating[f] /\ rating'[g] <= rating[g]
             /\ rating'[f] > rating[f] => rating'[g] <= rating[g]]_vars
  BY <1>1
<1> QED
  BY <1>2, FightsAreTyped, PTL DEF Spec, BetterMovesPay
=============================================================================
