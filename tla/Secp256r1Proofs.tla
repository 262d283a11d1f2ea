--------------------------- MODULE Secp256r1Proofs ---------------------------
(***************************************************************************)
(* Secp256r1.sol verifies ECDSA, on every curve y^2 = x^3 - 3x + b of      *)
(* prime order over a prime field, for every key, signature and hash.      *)
(*                                                                         *)
(* From the bottom: congruences; modexp with exponent p - 2 is the inverse *)
(* modulo p (InverseIs); the word-size operations compute in the field     *)
(* (MulmodIs, SubmodIs: c stands for the integer x); _jAdd computes the    *)
(* chord and _modifiedJacobianDouble the tangent, as congruences of        *)
(* polynomials (JAddIs, DoubleIs); hence they add any two points that      *)
(* differ and double any point (JAddAdds, DoubleAdds).                     *)
(*                                                                         *)
(* No two multiples c P and m P with c < m < nn are the same point         *)
(* (Distinct), so the loop of scalarMultJacobian never asks _jAdd to       *)
(* double.  IInv is inductive: it says how many times P the accumulator    *)
(* and B are (Done).                                                       *)
(***************************************************************************)
EXTENDS Secp256r1, WellFoundedInduction, TLAPS

(* Congruences.                                                            *)

Moduli == Nat \ {0}

\* x and y leave the same remainder.
Cong(m, x, y) == \E q \in Int : x = y + q * m

\* A congruence, from the multiple.
LEMMA CongBy ==
  ASSUME NEW m \in Moduli, NEW x \in Int, NEW y \in Int, NEW q \in Int, x = y + q * m
  PROVE  Cong(m, x, y)
  BY DEF Cong

\* An equivalence.
LEMMA CongSelf ==
  ASSUME NEW m \in Moduli, NEW x \in Int
  PROVE  Cong(m, x, x)
  <1>1. x = x + 0 * m
    BY DEF Moduli
  <1> QED BY <1>1, CongBy

LEMMA CongBack ==
  ASSUME NEW m \in Moduli, NEW x \in Int, NEW y \in Int, Cong(m, x, y)
  PROVE  Cong(m, y, x)
  <1>1. PICK q \in Int : x = y + q * m
    BY DEF Cong
  <1>2. y = x + (-q) * m /\ -q \in Int
    BY <1>1 DEF Moduli
  <1> QED BY <1>2, CongBy

LEMMA CongOn ==
  ASSUME NEW m \in Moduli, NEW x \in Int, NEW y \in Int, NEW z \in Int,
         Cong(m, x, y), Cong(m, y, z)
  PROVE  Cong(m, x, z)
  <1>1. PICK i \in Int : x = y + i * m
    BY DEF Cong
  <1>2. PICK j \in Int : y = z + j * m
    BY DEF Cong
  <1>3. x = z + (i + j) * m /\ i + j \in Int
    BY <1>1, <1>2 DEF Moduli
  <1> QED BY <1>3, CongBy

\* Congruences are added, subtracted and multiplied.
LEMMA CongAdd ==
  ASSUME NEW m \in Moduli, NEW x \in Int, NEW y \in Int, NEW u \in Int, NEW v \in Int,
         Cong(m, x, y), Cong(m, u, v)
  PROVE  Cong(m, x + u, y + v)
  <1>1. PICK i \in Int : x = y + i * m
    BY DEF Cong
  <1>2. PICK j \in Int : u = v + j * m
    BY DEF Cong
  <1>3. x + u = (y + v) + (i + j) * m /\ i + j \in Int /\ x + u \in Int /\ y + v \in Int
    BY <1>1, <1>2 DEF Moduli
  <1> QED BY <1>3, CongBy

LEMMA CongSub ==
  ASSUME NEW m \in Moduli, NEW x \in Int, NEW y \in Int, NEW u \in Int, NEW v \in Int,
         Cong(m, x, y), Cong(m, u, v)
  PROVE  Cong(m, x - u, y - v)
  <1>1. PICK i \in Int : x = y + i * m
    BY DEF Cong
  <1>2. PICK j \in Int : u = v + j * m
    BY DEF Cong
  <1>3. x - u = (y - v) + (i - j) * m /\ i - j \in Int /\ x - u \in Int /\ y - v \in Int
    BY <1>1, <1>2 DEF Moduli
  <1> QED BY <1>3, CongBy

LEMMA CongMul ==
  ASSUME NEW m \in Moduli, NEW x \in Int, NEW y \in Int, NEW u \in Int, NEW v \in Int,
         Cong(m, x, y), Cong(m, u, v)
  PROVE  Cong(m, x * u, y * v)
  <1>1. PICK i \in Int : x = y + i * m
    BY DEF Cong
  <1>2. PICK j \in Int : u = v + j * m
    BY DEF Cong
  <1>3. PICK q \in Int : q = y * j + v * i + i * j * m
    BY DEF Moduli
  <1>4. x * u = y * v + q * m /\ x * u \in Int /\ y * v \in Int
    BY <1>1, <1>2, <1>3 DEF Moduli
  <1> QED BY <1>4, CongBy

\* A remainder is congruent, and the only such number in its range.
LEMMA CongMod ==
  ASSUME NEW m \in Moduli, NEW x \in Int
  PROVE  x % m \in 0..m-1 /\ x % m \in Int /\ Cong(m, x % m, x)
  <1>1. x % m \in 0..m-1 /\ x % m \in Int /\ x \div m \in Int
    BY DEF Moduli
  <1>2. x = m * (x \div m) + (x % m)
    BY DEF Moduli
  <1>3. PICK q \in Int : q = -(x \div m)
    BY <1>1
  <1>4. x % m = x + q * m
    BY <1>1, <1>2, <1>3 DEF Moduli
  <1> QED BY <1>1, <1>3, <1>4, CongBy

\* Within its range a number is congruent only to itself.
LEMMA CongSame ==
  ASSUME NEW m \in Moduli, NEW x \in 0..m-1, NEW y \in 0..m-1, Cong(m, x, y)
  PROVE  x = y
  BY DEF Cong, Moduli

\* The remainder is the congruent number in the range ...
LEMMA ModOf ==
  ASSUME NEW m \in Moduli, NEW x \in Int, NEW y \in 0..m-1, Cong(m, x, y)
  PROVE  x % m = y
  <1>1. x % m \in 0..m-1 /\ x % m \in Int /\ Cong(m, x % m, x)
    BY CongMod
  <1>2. y \in Int
    OBVIOUS
  <1>3. Cong(m, x % m, y)
    BY <1>1, <1>2, CongOn
  <1> QED BY <1>1, <1>3, CongSame

\* ... and congruent numbers have the same.
LEMMA ModEqual ==
  ASSUME NEW m \in Moduli, NEW x \in Int, NEW y \in Int, Cong(m, x, y)
  PROVE  x % m = y % m
  <1>1. y % m \in 0..m-1 /\ y % m \in Int /\ Cong(m, y % m, y)
    BY CongMod
  <1>2. Cong(m, x, y % m)
    BY <1>1, CongBack, CongOn
  <1> QED BY <1>1, <1>2, ModOf

----------------------------------------------------------------------------
(* Induction, on a set of natural numbers.                                 *)

\* A set with 0 and, with every n, n + 1 holds every natural number: of the
\* others there would be a smallest.
LEMMA InductionOn ==
  ASSUME NEW S, 0 \in S, \A n \in Nat : n \in S => n + 1 \in S
  PROVE  \A n \in Nat : n \in S
  <1> SUFFICES ASSUME NEW n \in Nat, n \notin S PROVE FALSE
    OBVIOUS
  <1> DEFINE T == {i \in Nat : i \notin S}
  <1>1. PICK x \in T : \A y \in T : ~ (<<y, x>> \in OpToRel(<, Nat))
    <2>1. T \subseteq Nat /\ T # {}
      OBVIOUS
    <2> HIDE DEF T
    <2> QED BY <2>1, NatLessThanWellFounded, WFMin
  <1>2. x \in Nat /\ x \notin S /\ x # 0
    OBVIOUS
  <1>3. x - 1 \in Nat /\ (x - 1) + 1 = x /\ x - 1 < x
    BY <1>2
  <1>4. x - 1 \notin S
    BY <1>2, <1>3
  <1>5. <<x - 1, x>> \in OpToRel(<, Nat)
    BY <1>2, <1>3 DEF OpToRel
  <1> QED BY <1>1, <1>3, <1>4, <1>5

----------------------------------------------------------------------------
(* modexp.                                                                 *)

\* f is the function of modexp.
IsPow(f, base, exp, mod) ==
  f = [n \in 0..exp |-> IF n = 0 THEN 1 ELSE (f[n - 1] * base) % mod]
Pow(base, exp, mod) == CHOOSE f : IsPow(f, base, exp, mod)

\* There is such a function, for any exponent.
LEMMA PowExists ==
  ASSUME NEW base, NEW exp \in Nat, NEW mod
  PROVE  IsPow(Pow(base, exp, mod), base, exp, mod)
  <1> DEFINE S == {n \in Nat : \E f : IsPow(f, base, n, mod)}
  <1>1. 0 \in S
    <2>1. PICK f : f = [n \in 0..0 |-> 1]
      BY Zenon
    <2>2. f = [n \in 0..0 |-> IF n = 0 THEN 1 ELSE (f[n - 1] * base) % mod]
      BY <2>1
    <2> QED BY <2>2 DEF IsPow
  <1>2. ASSUME NEW n \in Nat, n \in S PROVE n + 1 \in S
    <2>1. PICK f : IsPow(f, base, n, mod)
      BY <1>2
    <2>2. PICK h : h = [i \in 0..n+1 |-> IF i = n + 1 THEN (f[n] * base) % mod ELSE f[i]]
      BY Zenon
    <2>3. ASSUME NEW i \in 0..n+1
          PROVE  h[i] = IF i = 0 THEN 1 ELSE (h[i - 1] * base) % mod
      <3>1. CASE i = n + 1
        BY <2>2, <3>1
      <3>2. CASE i = 0
        BY <2>1, <2>2, <3>2 DEF IsPow
      <3>3. CASE i \in 1..n
        <4>1. i \in 0..n /\ i # 0 /\ i # n + 1 /\ i - 1 # n + 1 /\ i - 1 \in 0..n+1
          BY <3>3
        <4>2. h[i] = f[i] /\ h[i - 1] = f[i - 1]
          BY <2>2, <4>1
        <4>3. f[i] = (f[i - 1] * base) % mod
          BY <2>1, <4>1 DEF IsPow
        <4> QED BY <4>1, <4>2, <4>3
      <3> QED BY <3>1, <3>2, <3>3
    <2>4. h = [i \in 0..n+1 |-> IF i = 0 THEN 1 ELSE (h[i - 1] * base) % mod]
      BY Zenon, <2>2, <2>3
    <2> QED BY <2>4 DEF IsPow
  <1>3. exp \in S
    <2> HIDE DEF S
    <2> QED BY <1>1, <1>2, InductionOn
  <1> QED BY <1>3 DEF Pow

\* A power is reduced.
LEMMA ModexpType ==
  ASSUME NEW base \in Int, NEW exp \in Nat, NEW mod \in Nat, mod > 1
  PROVE  modexp(base, exp, mod) \in 0..mod-1
  <1>1. PICK f : f = Pow(base, exp, mod)
    OBVIOUS
  <1>2. f = [n \in 0..exp |-> IF n = 0 THEN 1 ELSE (f[n - 1] * base) % mod]
    <2>1. IsPow(f, base, exp, mod)
      BY Zenon, <1>1, PowExists
    <2> QED BY Zenon, <2>1 DEF IsPow
  <1>3. modexp(base, exp, mod) = f[exp]
    BY Zenon, <1>1 DEF modexp, Pow, IsPow
  <1> DEFINE S == {n \in Nat : n <= exp => f[n] \in 0..mod-1}
  <1>4. 0 \in S
    BY <1>2
  <1>5. ASSUME NEW n \in Nat, n \in S PROVE n + 1 \in S
    <2> SUFFICES ASSUME n + 1 <= exp PROVE f[n + 1] \in 0..mod-1
      OBVIOUS
    <2>1. f[n] \in 0..mod-1
      BY <1>5
    <2>2. f[n + 1] = (f[n] * base) % mod
      BY <1>2
    <2>3. PICK v \in Int : v = f[n] * base
      BY <2>1
    <2>4. v % mod \in 0..mod-1
      BY <2>3
    <2> QED BY <2>2, <2>3, <2>4
  <1>6. exp \in S
    <2> HIDE DEF S
    <2> QED BY <1>4, <1>5, InductionOn
  <1> QED BY <1>3, <1>6

----------------------------------------------------------------------------
(* The fields of pp and nn elements.                                       *)

Primes == {pp, nn}

\* Both moduli are more than 2.
LEMMA PrimeType ==
  ASSUME NEW p \in Primes
  PROVE  p \in Moduli /\ p \in Nat /\ 2 < p
  BY CurveAssumption DEF Primes, Moduli

\* What primemod gives is the inverse.
LEMMA InverseIs ==
  ASSUME NEW p \in Primes, NEW v \in 1..p-1
  PROVE  /\ primemod(v, p) \in 1..p-1 /\ Inverse(v, p) = primemod(v, p)
         /\ Cong(p, v * primemod(v, p), 1)
  <1>1. p \in Moduli /\ p \in Nat /\ 2 < p
    BY PrimeType
  <1>2. PICK w : w = primemod(v, p)
    OBVIOUS
  <1>3. w \in 0..p-1
    <2>1. v \in Int /\ p - 2 \in Nat /\ p > 1
      BY <1>1
    <2> QED BY Zenon, <1>1, <1>2, <2>1, ModexpType DEF primemod
  <1>4. (v * w) % p = 1
    BY <1>2, FermatAssumption DEF Primes
  <1>5. v \in Int /\ w \in Int /\ v * w \in Int
    BY <1>1, <1>3
  <1>6. Cong(p, v * w, 1)
    <2>1. Cong(p, 1, v * w)
      BY <1>1, <1>4, <1>5, CongMod
    <2> QED BY <1>1, <1>5, <2>1, CongBack
  <1>7. w \in 1..p-1
    <2>1. ASSUME w = 0 PROVE FALSE
      <3>1. v * w = 0
        BY <1>5, <2>1
      <3>2. 0 % p = 0
        BY <1>1
      <3> QED BY <1>4, <3>1, <3>2
    <2> QED BY <1>1, <1>3, <2>1
  <1>8. PICK z : z = Inverse(v, p)
    OBVIOUS
  <1>9. z \in 1..p-1 /\ (v * z) % p = 1
    BY <1>4, <1>7, <1>8 DEF Inverse
  <1>10. z \in Int /\ z \in 0..p-1 /\ v * z \in Int
    BY <1>1, <1>5, <1>9
  <1>11. Cong(p, v * z, 1)
    <2>1. Cong(p, 1, v * z)
      BY <1>1, <1>9, <1>10, CongMod
    <2> QED BY <1>1, <1>10, <2>1, CongBack
  <1>12. Cong(p, z, w)
    <2>1. Cong(p, z, z)
      BY <1>1, <1>10, CongSelf
    <2>2. Cong(p, w, w)
      BY <1>1, <1>5, CongSelf
    <2>3. Cong(p, (v * w) * z, 1 * z)
      BY <1>1, <1>5, <1>6, <1>10, <2>1, CongMul
    <2>4. Cong(p, (v * z) * w, 1 * w)
      BY <1>1, <1>5, <1>10, <1>11, <2>2, CongMul
    <2>5. (v * w) * z = (v * z) * w /\ 1 * z = z /\ 1 * w = w /\ (v * w) * z \in Int
      BY <1>5, <1>10
    <2>6. Cong(p, z, (v * w) * z)
      BY <1>1, <1>10, <2>3, <2>5, CongBack
    <2> QED BY <1>1, <1>5, <1>10, <2>4, <2>5, <2>6, CongOn
  <1>13. z = w
    BY <1>1, <1>3, <1>10, <1>12, CongSame
  <1> QED BY <1>2, <1>6, <1>7, <1>8, <1>13

\* Every number that is not 0 has an inverse ...
LEMMA Unit ==
  ASSUME NEW p \in Primes, NEW x \in Int, ~Cong(p, x, 0)
  PROVE  \E w \in Int : Cong(p, x * w, 1)
  <1>1. p \in Moduli /\ p \in Nat /\ 2 < p
    BY PrimeType
  <1>2. PICK v : v = x % p
    OBVIOUS
  <1>3. v \in 0..p-1 /\ v \in Int /\ Cong(p, v, x)
    BY <1>1, <1>2, CongMod
  <1>4. v # 0
    BY <1>1, <1>3, CongBack
  <1>5. v \in 1..p-1
    BY <1>1, <1>3, <1>4
  <1>6. PICK w : w = primemod(v, p)
    OBVIOUS
  <1>7. w \in Int /\ Cong(p, v * w, 1)
    BY <1>1, <1>5, <1>6, InverseIs
  <1>8. Cong(p, x * w, v * w)
    BY Zenon, <1>1, <1>3, <1>7, CongBack, CongSelf, CongMul
  <1>9. x * w \in Int /\ v * w \in Int /\ 1 \in Int
    BY <1>3, <1>7
  <1> QED BY Zenon, <1>1, <1>7, <1>8, <1>9, CongOn

\* ... and so a factor that is not 0 can be cancelled.
LEMMA Cancel ==
  ASSUME NEW p \in Primes, NEW x \in Int, NEW y \in Int, NEW v \in Int, ~Cong(p, v, 0),
         Cong(p, x * v, y * v)
  PROVE  Cong(p, x, y)
  <1>1. p \in Moduli
    BY PrimeType
  <1>2. PICK w \in Int : Cong(p, v * w, 1)
    BY Zenon, Unit
  <1>3. x * v \in Int /\ y * v \in Int /\ v * w \in Int /\ (x * v) * w \in Int /\ (y * v) * w \in Int
    OBVIOUS
  <1>4. Cong(p, (x * v) * w, (y * v) * w)
    BY Zenon, <1>1, <1>3, CongSelf, CongMul
  <1>5. ASSUME NEW u \in Int PROVE Cong(p, (u * v) * w, u)
    <2>1. Cong(p, u * (v * w), u * 1)
      BY <1>1, <1>2, <1>3, CongSelf, CongMul
    <2>2. u * (v * w) = (u * v) * w /\ u * 1 = u
      OBVIOUS
    <2> QED BY <2>1, <2>2
  <1>6. Cong(p, x, (x * v) * w)
    BY <1>1, <1>3, <1>5, CongBack
  <1>7. Cong(p, x, (y * v) * w)
    BY <1>1, <1>3, <1>4, <1>6, CongOn
  <1> QED BY <1>1, <1>3, <1>5, <1>7, CongOn

\* A product is 0 only when a factor is.
LEMMA NoZeroDivisors ==
  ASSUME NEW p \in Primes, NEW x \in Int, NEW y \in Int, Cong(p, x * y, 0), ~Cong(p, y, 0)
  PROVE  Cong(p, x, 0)
  <1>1. 0 * y = 0 /\ 0 \in Int
    OBVIOUS
  <1> QED BY <1>1, Cancel

----------------------------------------------------------------------------
(* The arithmetic of the contract.                                         *)

Field == 0..pp-1

\* The number c of the contract stands for the integer x.
Is(c, x) == c \in Field /\ Cong(pp, c, x)

\* The field is one of integers modulo pp.
LEMMA FieldType ==
  /\ pp \in Primes /\ pp \in Moduli /\ pp \in Nat /\ 3 < pp
  /\ Field \subseteq Int
  BY CurveAssumption DEF Primes, Moduli, Field

\* A number of the field stands for itself, ...
LEMMA IsSelf ==
  ASSUME NEW c \in Field
  PROVE  Is(c, c) /\ c \in Int
  BY FieldType, CongSelf DEF Is

\* ... and a remainder for the number.
LEMMA IsMod ==
  ASSUME NEW x \in Int
  PROVE  Is(x % pp, x)
  BY Zenon, FieldType, CongMod DEF Is, Field

\* A number of the contract can be taken for anything congruent.
LEMMA IsAlso ==
  ASSUME NEW c, NEW x \in Int, NEW y \in Int, Is(c, x), Cong(pp, x, y)
  PROVE  Is(c, y)
  BY FieldType, CongOn DEF Is

\* MULMOD multiplies and ADDMOD adds.
LEMMA MulmodIs ==
  ASSUME NEW c, NEW x \in Int, Is(c, x), NEW d, NEW y \in Int, Is(d, y),
         NEW z \in Int, z = x * y
  PROVE  Is(mulmod(c, d), z)
  <1>1. c \in Int /\ d \in Int /\ c * d \in Int
    BY FieldType DEF Is
  <1>2. Cong(pp, c * d, z)
    BY <1>1, FieldType, CongMul DEF Is
  <1>3. Is((c * d) % pp, c * d)
    BY <1>1, IsMod
  <1> QED BY <1>1, <1>2, <1>3, IsAlso DEF mulmod

LEMMA AddmodIs ==
  ASSUME NEW c, NEW x \in Int, Is(c, x), NEW d, NEW y \in Int, Is(d, y),
         NEW z \in Int, z = x + y
  PROVE  Is(addmod(c, d), z)
  <1>1. c \in Int /\ d \in Int /\ c + d \in Int
    BY FieldType DEF Is
  <1>2. Cong(pp, c + d, z)
    BY <1>1, FieldType, CongAdd DEF Is
  <1>3. Is((c + d) % pp, c + d)
    BY <1>1, IsMod
  <1> QED BY <1>1, <1>2, <1>3, IsAlso DEF addmod

\* The sum in submod may wrap around, and the difference wraps it back.
LEMMA SubmodValue ==
  ASSUME NEW c \in Field, NEW d \in Field
  PROVE  submod(c, d) = IF c < d THEN c - d + pp ELSE c - d
  <1>1. pp \in Nat /\ Word \in Nat /\ pp < Word /\ Word < 2 * pp /\ c \in Int /\ d \in Int
    BY CurveAssumption, FieldType
  <1>2. 0 <= c /\ c < pp /\ 0 <= d /\ d < pp
    BY <1>1 DEF Field
  <1>3. CASE c >= d
    <2>1. 0 <= c - d /\ c - d < Word /\ ~(c < d)
      BY <1>1, <1>2, <1>3
    <2>2. (c - d) % Word = c - d
      BY <1>1, <2>1
    <2> QED BY <2>1, <2>2 DEF submod, sub
  <1>4. CASE c < d
    <2>1. CASE pp + c < Word
      <3>1. (pp + c) % Word = pp + c
        BY <1>1, <1>2, <2>1
      <3>2. ((pp + c) - d) % Word = (pp + c) - d
        BY <1>1, <1>2, <1>4, <2>1
      <3>3. (pp + c) - d = c - d + pp
        BY <1>1
      <3>4. add(pp, c) = pp + c
        BY <3>1 DEF add
      <3>5. submod(c, d) = sub(add(pp, c), d)
        BY <1>4 DEF submod
      <3> QED BY <1>4, <3>2, <3>3, <3>4, <3>5 DEF sub
    <2>2. CASE pp + c >= Word
      <3>1. (pp + c) % Word = pp + c - Word
        BY <1>1, <1>2, <2>2
      <3>2. (pp + c - Word) - d < 0 /\ -Word <= (pp + c - Word) - d
        BY <1>1, <1>2, <1>4, <2>2
      <3>3. ((pp + c - Word) - d) % Word = c - d + pp
        BY <1>1, <3>2
      <3>4. add(pp, c) = pp + c - Word
        BY <3>1 DEF add
      <3>5. submod(c, d) = sub(add(pp, c), d)
        BY <1>4 DEF submod
      <3>6. sub(pp + c - Word, d) = c - d + pp
        BY <3>3 DEF sub
      <3> QED BY Zenon, <1>4, <3>4, <3>5, <3>6
    <2> QED BY <1>1, <2>1, <2>2
  <1> QED BY <1>1, <1>3, <1>4

\* submod subtracts.
LEMMA SubmodIs ==
  ASSUME NEW c, NEW x \in Int, Is(c, x), NEW d, NEW y \in Int, Is(d, y),
         NEW z \in Int, z = x - y
  PROVE  Is(submod(c, d), z)
  <1>1. c \in Field /\ d \in Field /\ c \in Int /\ d \in Int /\ c - d \in Int /\ pp \in Nat
    BY FieldType DEF Is
  <1>2. PICK v : v = submod(c, d)
    OBVIOUS
  <1>3. v = IF c < d THEN c - d + pp ELSE c - d
    BY <1>1, <1>2, SubmodValue
  <1>4. v \in Field /\ v \in Int
    BY <1>1, <1>3 DEF Field
  <1>5. Cong(pp, v, c - d)
    <2>1. CASE c < d
      <3>1. PICK q \in Int : q = 1
        OBVIOUS
      <3>2. v = (c - d) + q * pp
        BY <1>1, <1>3, <2>1, <3>1
      <3> QED BY Zenon, <1>1, <1>4, <3>2, FieldType, CongBy
    <2>2. CASE ~(c < d)
      BY <1>1, <1>3, <2>2, FieldType, CongSelf
    <2> QED BY <2>1, <2>2
  <1>6. Cong(pp, c - d, z)
    BY <1>1, FieldType, CongSub DEF Is
  <1>7. Is(v, z)
    BY <1>1, <1>4, <1>5, <1>6, FieldType, CongOn DEF Is
  <1> QED BY <1>2, <1>7

----------------------------------------------------------------------------
(* Jacobian coordinates.                                                   *)

Triples == Field \X Field \X Field

\* P are Jacobian coordinates of the affine point <<x, y>>.
Rep(P, x, y) ==
  /\ P[3] # 0
  /\ Is(P[1], x * (P[3] * P[3]))
  /\ Is(P[2], y * (P[3] * P[3] * P[3]))

\* Jacobian coordinates, from the integers they stand for.
LEMMA RepOf ==
  ASSUME NEW x \in Int, NEW y \in Int, NEW z \in Int, ~Cong(pp, z, 0),
         NEW g1 \in Int, g1 = x * (z * z), NEW g2 \in Int, g2 = y * (z * z * z),
         NEW c1, Is(c1, g1), NEW c2, Is(c2, g2), NEW c3, Is(c3, z), NEW P, P = <<c1, c2, c3>>
  PROVE  P \in Triples /\ Rep(P, x, y)
  <1>1. c3 \in Int /\ Cong(pp, z, c3)
    BY FieldType, CongBack DEF Is
  <1>2. PICK z2, c, z3, d, h1, h2 \in Int :
          z2 = z * z /\ c = c3 * c3 /\ z3 = z2 * z /\ d = c * c3 /\ h1 = x * c /\ h2 = y * d
    BY <1>1
  <1>3. Cong(pp, z2, c)
    BY <1>1, <1>2, FieldType, CongMul
  <1>4. Cong(pp, z3, d)
    BY <1>1, <1>2, <1>3, FieldType, CongMul
  <1>5. Cong(pp, x, x) /\ Cong(pp, y, y)
    BY FieldType, CongSelf
  <1>6. Cong(pp, x * z2, x * c)
    BY <1>2, <1>3, <1>5, FieldType, CongMul
  <1>7. Cong(pp, y * z3, y * d)
    BY <1>2, <1>4, <1>5, FieldType, CongMul
  <1>8. g1 = x * z2 /\ g2 = y * z3
    BY <1>2
  <1>9. Is(c1, h1) /\ Is(c2, h2)
    BY <1>2, <1>6, <1>7, <1>8, IsAlso
  <1>10. P[1] = c1 /\ P[2] = c2 /\ P[3] = c3
    OBVIOUS
  <1>11. h1 = x * (P[3] * P[3]) /\ h2 = y * (P[3] * P[3] * P[3])
    BY <1>2, <1>10
  <1>12. P[3] # 0
    BY <1>1, <1>10
  <1>13. P \in Triples
    BY DEF Triples, Is
  <1> QED BY <1>9, <1>10, <1>11, <1>12, <1>13 DEF Rep

\* The small factors, and the a of the curve.
LEMMA Small == Is(2, 2) /\ Is(3, 3) /\ Is(pp - 3, -3)
  <1>1. 2 \in Field /\ 3 \in Field /\ pp - 3 \in Field /\ pp - 3 \in Int /\ -3 \in Int
    BY FieldType DEF Field
  <1>2. PICK q, c, d \in Int : q = 1 /\ c = pp - 3 /\ d = -3
    BY <1>1
  <1>3. c = d + q * pp
    BY <1>2, FieldType
  <1>4. Cong(pp, c, d)
    BY Zenon, <1>3, FieldType, CongBy
  <1> QED BY <1>1, <1>2, <1>4, IsSelf DEF Is

\* _jAdd of two points is the chord's third point, with z3 = 0 where there is
\* no chord.
LEMMA JAddIs ==
  ASSUME NEW P \in Triples, NEW Q \in Triples, NEW x1 \in Field, NEW y1 \in Field,
         NEW x2 \in Field, NEW y2 \in Field, Rep(P, x1, y1), Rep(Q, x2, y2)
  PROVE  /\ x1 = x2 => jAdd(P, Q) \in Triples /\ jAdd(P, Q)[3] = 0
         /\ \A l \in Int : \A x, y \in Field :
              /\ x1 # x2 /\ Cong(pp, y2 - y1, l * (x2 - x1))
              /\ Is(x, l * l - x1 - x2) /\ Is(y, l * (x1 - x) - y1)
              => jAdd(P, Q) \in Triples /\ Rep(jAdd(P, Q), x, y)
  <1> DEFINE X1 == P[1]
             Y1 == P[2]
             Z1 == P[3]
             X2 == Q[1]
             Y2 == Q[2]
             Z2 == Q[3]
             z1z1 == mulmod(Z1, Z1)
             z2z2 == mulmod(Z2, Z2)
             v1 == mulmod(X1, z2z2)
             s1 == mulmod(Y1, mulmod(z2z2, Z2))
             s2 == mulmod(Y2, mulmod(z1z1, Z1))
             h == submod(mulmod(X2, z1z1), v1)
             i == mulmod(mulmod(2, h), mulmod(2, h))
             j == mulmod(h, i)
             rr == mulmod(2, submod(s2, s1))
             v == mulmod(v1, i)
             x3 == submod(mulmod(rr, rr), addmod(j, mulmod(2, v)))
             y3 == submod(mulmod(rr, submod(v, x3)), mulmod(mulmod(2, s1), j))
             zz == mulmod(addmod(Z1, Z2), addmod(Z1, Z2))
             z3 == mulmod(submod(zz, addmod(z1z1, z2z2)), h)
  <1>6. jAdd(P, Q) = <<x3, y3, z3>>
    <2>1. P[3] # 0 /\ Q[3] # 0
      BY Zenon DEF Rep
    <2> QED BY Zenon, <2>1 DEF jAdd
  <1>1. X1 = P[1] /\ Y1 = P[2] /\ Z1 = P[3] /\ X2 = Q[1] /\ Y2 = Q[2] /\ Z2 = Q[3]
    BY Zenon
  <1> HIDE DEF X1, Y1, Z1, X2, Y2, Z2
  <1>2. /\ X1 \in Field /\ Y1 \in Field /\ Z1 \in Field /\ X2 \in Field /\ Y2 \in Field
        /\ Z2 \in Field /\ Z1 \in Int /\ Z2 \in Int /\ Z1 # 0 /\ Z2 # 0
        /\ x1 \in Int /\ y1 \in Int /\ x2 \in Int /\ y2 \in Int
    BY <1>1, FieldType DEF Triples, Rep
  <1>3. PICK q1, q2, c1, c2, a1, a2, b1, b2 \in Int :
          /\ q1 = Z1 * Z1 /\ c1 = q1 * Z1 /\ a1 = x1 * q1 /\ b1 = y1 * c1
          /\ q2 = Z2 * Z2 /\ c2 = q2 * Z2 /\ a2 = x2 * q2 /\ b2 = y2 * c2
    BY <1>2
  <1>4. /\ Is(X1, a1) /\ Is(Y1, b1) /\ Is(X2, a2) /\ Is(Y2, b2)
        /\ Is(Z1, Z1) /\ Is(Z2, Z2) /\ Is(2, 2)
    BY <1>1, <1>2, <1>3, IsSelf, Small DEF Rep
  <1>5. PICK W, A1, A2, S1, S2, H, D, I, Z, T \in Int :
          /\ W = Z1 * Z2 /\ A1 = x1 * (W * W) /\ A2 = x2 * (W * W)
          /\ S1 = y1 * (W * W * W) /\ S2 = y2 * (W * W * W)
          /\ H = A2 - A1 /\ D = 2 * H /\ I = D * D /\ Z = (2 * W) * H /\ T = Z * Z
    BY <1>2
  <1>7. Is(z1z1, q1) /\ Is(z2z2, q2)
    BY <1>2, <1>3, <1>4, MulmodIs
  <1> HIDE DEF z1z1, z2z2
  <1>8. Is(v1, A1)
    <2>1. A1 = a1 * q2
      BY <1>2, <1>3, <1>5
    <2> QED BY <1>4, <1>7, <2>1, MulmodIs
  <1>9. Is(s1, S1)
    <2>1. Is(mulmod(z2z2, Z2), c2)
      BY <1>2, <1>3, <1>4, <1>7, MulmodIs
    <2>2. S1 = b1 * c2
      BY <1>2, <1>3, <1>5
    <2> QED BY <1>4, <2>1, <2>2, MulmodIs
  <1>10. Is(s2, S2)
    <2>1. Is(mulmod(z1z1, Z1), c1)
      BY <1>2, <1>3, <1>4, <1>7, MulmodIs
    <2>2. S2 = b2 * c1
      BY <1>2, <1>3, <1>5
    <2> QED BY <1>4, <2>1, <2>2, MulmodIs
  <1> HIDE DEF v1, s1, s2
  <1>11. Is(h, H)
    <2>1. A2 = a2 * q1
      BY <1>2, <1>3, <1>5
    <2>2. Is(mulmod(X2, z1z1), A2)
      BY <1>4, <1>7, <2>1, MulmodIs
    <2> QED BY <1>5, <1>8, <2>2, SubmodIs
  <1> HIDE DEF h
  <1>12. Is(i, I)
    <2>1. Is(mulmod(2, h), D)
      BY <1>4, <1>5, <1>11, MulmodIs
    <2> QED BY <1>5, <2>1, MulmodIs
  <1> HIDE DEF i
  <1>13. PICK J, V, R, dx \in Int :
           J = T * dx /\ V = x1 * T /\ R = 2 * (S2 - S1) /\ dx = x2 - x1
    BY <1>2
  <1>14. Is(j, J)
    <2>1. H = (W * W) * dx
      BY <1>2, <1>5, <1>13
    <2>2. J = (W * W) * dx * (4 * H * H)
      BY <1>5, <1>13
    <2>3. J = H * (4 * H * H)
      BY <2>1, <2>2
    <2>4. J = H * I
      BY <1>5, <2>3
    <2> QED BY <1>11, <1>12, <2>4, MulmodIs
  <1>15. Is(v, V)
    <2>1. V = A1 * I
      BY <1>2, <1>5, <1>13
    <2> QED BY <1>8, <1>12, <2>1, MulmodIs
  <1>16. Is(rr, R)
    <2>1. PICK d \in Int : d = S2 - S1
      OBVIOUS
    <2>2. Is(submod(s2, s1), d)
      BY <1>9, <1>10, <2>1, SubmodIs
    <2> QED BY <1>4, <1>13, <2>1, <2>2, MulmodIs
  <1>17. Is(z3, Z)
    <2>1. PICK g, gg, k2, w2 \in Int : g = Z1 + Z2 /\ gg = g * g /\ k2 = q1 + q2 /\ w2 = 2 * W
      BY <1>2
    <2>2. Is(addmod(Z1, Z2), g)
      BY <1>2, <1>4, <2>1, AddmodIs
    <2>3. Is(zz, gg)
      BY <2>1, <2>2, MulmodIs
    <2>4. Is(addmod(z1z1, z2z2), k2)
      BY <1>7, <2>1, AddmodIs
    <2>5. w2 = gg - k2
      BY <1>2, <1>3, <1>5, <2>1
    <2>6. Is(submod(zz, addmod(z1z1, z2z2)), w2)
      BY <2>3, <2>4, <2>5, SubmodIs
    <2>7. Z = w2 * H
      BY <1>5, <2>1
    <2> QED BY <1>11, <2>6, <2>7, MulmodIs
  <1> HIDE DEF j, v, rr, z3
  <1>18. ~Cong(pp, W, 0)
    <2>1. 0 \in Field
      BY FieldType DEF Field
    <2>2. ~Cong(pp, Z1, 0) /\ ~Cong(pp, Z2, 0)
      BY <1>2, <2>1, FieldType, CongSame DEF Field
    <2> QED BY <1>2, <1>5, <2>2, FieldType, NoZeroDivisors
  <1>19. PICK RR, V2, JV, S12, SJ \in Int :
           RR = R * R /\ V2 = 2 * V /\ JV = J + V2 /\ S12 = 2 * S1 /\ SJ = S12 * J
    OBVIOUS
  <1>20. PICK M \in Int : M = RR - JV
    OBVIOUS
  <1>21. Is(x3, M)
    <2>1. Is(mulmod(rr, rr), RR)
      BY <1>16, <1>19, MulmodIs
    <2>2. Is(mulmod(2, v), V2)
      BY <1>4, <1>15, <1>19, MulmodIs
    <2>3. Is(addmod(j, mulmod(2, v)), JV)
      BY <1>14, <1>19, <2>2, AddmodIs
    <2> QED BY <1>20, <2>1, <2>3, SubmodIs
  <1> HIDE DEF x3
  <1>22. PICK U, RU, N \in Int : U = V - M /\ RU = R * U /\ N = RU - SJ
    OBVIOUS
  <1>23. Is(y3, N)
    <2>1. Is(submod(v, x3), U)
      BY <1>15, <1>21, <1>22, SubmodIs
    <2>2. Is(mulmod(rr, submod(v, x3)), RU)
      BY <1>16, <1>22, <2>1, MulmodIs
    <2>3. Is(mulmod(2, s1), S12)
      BY <1>4, <1>9, <1>19, MulmodIs
    <2>4. Is(mulmod(mulmod(2, s1), j), SJ)
      BY <1>14, <1>19, <2>3, MulmodIs
    <2> QED BY <1>22, <2>2, <2>4, SubmodIs
  <1> HIDE DEF y3
  <1>24. CASE x1 = x2
    <2>1. H = 0
      BY <1>2, <1>5, <1>24
    <2>2. Z = 0
      BY <1>5, <2>1
    <2>3. z3 = 0
      <3>1. 0 \in Field
        BY FieldType DEF Field
      <3> QED BY <1>17, <2>2, <3>1, FieldType, CongSame DEF Is, Field
    <2>4. x3 \in Field /\ y3 \in Field /\ z3 \in Field
      BY <1>17, <1>21, <1>23 DEF Is
    <2>5. jAdd(P, Q) \in Triples
      BY <1>6, <2>4 DEF Triples
    <2>6. jAdd(P, Q)[3] = z3
      BY <1>6
    <2> QED BY <1>24, <2>3, <2>5, <2>6
  <1>25. ASSUME NEW l \in Int, NEW x \in Field, NEW y \in Field, x1 # x2,
                Cong(pp, y2 - y1, l * (x2 - x1)),
                Is(x, l * l - x1 - x2), Is(y, l * (x1 - x) - y1)
         PROVE  jAdd(P, Q) \in Triples /\ Rep(jAdd(P, Q), x, y)
    <2>1. PICK dy, ld, K, L, xs, ys \in Int :
            /\ dy = y2 - y1 /\ ld = l * dx /\ K = 2 * (W * W * W) /\ L = l * Z
            /\ xs = l * l - x1 - x2 /\ ys = l * (x1 - x) - y1 /\ x \in Int /\ y \in Int
      BY <1>2, FieldType
    <2>2. Cong(pp, dy, ld) /\ Cong(pp, x, xs) /\ Cong(pp, y, ys)
      BY <1>13, <1>25, <2>1 DEF Is
    <2>3. Z = K * dx
      <3>1. H = (W * W) * dx
        BY <1>2, <1>5, <1>13
      <3> QED BY <1>5, <2>1, <3>1
    <2>4. Cong(pp, R, L)
      <3>1. R = K * dy
        BY <1>2, <1>5, <1>13, <2>1
      <3>2. L = K * ld
        BY <2>1, <2>3
      <3>3. Cong(pp, K, K)
        BY FieldType, CongSelf
      <3> QED BY <2>2, <3>1, <3>2, <3>3, FieldType, CongMul
    <2>5. PICK LL, xT \in Int : LL = L * L /\ xT = x * T
      BY <2>1
    <2>6. Cong(pp, M, xT)
      <3>1. Cong(pp, RR, LL)
        BY <1>19, <2>4, <2>5, FieldType, CongMul
      <3>2. PICK sT \in Int : sT = LL - JV
        OBVIOUS
      <3>3. Cong(pp, JV, JV) /\ Cong(pp, T, T)
        BY FieldType, CongSelf
      <3>4. Cong(pp, M, sT)
        BY <1>20, <3>1, <3>2, <3>3, FieldType, CongSub
      <3>5. sT = xs * T
        <4>1. LL = l * l * T
          BY <1>5, <2>1, <2>5
        <4> QED BY <1>2, <1>13, <1>19, <2>1, <3>2, <4>1
      <3>6. Cong(pp, xT, sT)
        BY <2>1, <2>2, <2>5, <3>3, <3>5, FieldType, CongMul
      <3> QED BY <3>4, <3>6, FieldType, CongBack, CongOn
    <2>7. PICK u, Lu, ZT, yZ \in Int : u = V - xT /\ Lu = L * u /\ ZT = Z * T /\ yZ = y * ZT
      BY <2>1
    <2>8. Cong(pp, N, yZ)
      <3>1. Cong(pp, V, V) /\ Cong(pp, SJ, SJ) /\ Cong(pp, ZT, ZT)
        BY FieldType, CongSelf
      <3>2. Cong(pp, U, u)
        BY <1>22, <2>6, <2>7, <3>1, FieldType, CongSub
      <3>3. Cong(pp, RU, Lu)
        BY <1>22, <2>4, <2>7, <3>2, FieldType, CongMul
      <3>4. PICK n \in Int : n = Lu - SJ
        OBVIOUS
      <3>5. Cong(pp, N, n)
        BY <1>22, <3>1, <3>3, <3>4, FieldType, CongSub
      <3>6. n = ys * ZT
        <4>1. Lu = l * (x1 - x) * ZT
          BY <1>2, <1>13, <2>1, <2>5, <2>7
        <4>2. SJ = y1 * ((K * dx) * T)
          BY <1>2, <1>5, <1>13, <1>19, <2>1
        <4>3. SJ = y1 * ZT
          BY <2>3, <2>7, <4>2
        <4> QED BY <1>2, <2>1, <3>4, <4>1, <4>3
      <3>7. Cong(pp, yZ, n)
        BY <2>1, <2>2, <2>7, <3>1, <3>6, FieldType, CongMul
      <3> QED BY <3>5, <3>7, FieldType, CongBack, CongOn
    <2>9. ~Cong(pp, Z, 0)
      <3>1. ~Cong(pp, dx, 0)
        <4>1. Cong(pp, x1, x1)
          BY <1>2, FieldType, CongSelf
        <4>2. ASSUME Cong(pp, dx, 0) PROVE FALSE
          <5>1. Cong(pp, dx + x1, 0 + x1)
            BY <1>2, <4>1, <4>2, FieldType, CongAdd
          <5>2. dx + x1 = x2 /\ 0 + x1 = x1
            BY <1>2, <1>13
          <5> QED BY <1>25, <5>1, <5>2, FieldType, CongSame DEF Field
        <4> QED BY <4>2
      <3>2. ~Cong(pp, 2, 0)
        BY FieldType, CongSame
      <3>3. PICK w1, w2, w3 \in Int : w1 = W * dx /\ w2 = W * w1 /\ w3 = W * w2
        OBVIOUS
      <3>4. ~Cong(pp, w1, 0)
        BY <1>18, <3>1, <3>3, FieldType, NoZeroDivisors
      <3>5. ~Cong(pp, w2, 0)
        BY <1>18, <3>3, <3>4, FieldType, NoZeroDivisors
      <3>6. ~Cong(pp, w3, 0)
        BY <1>18, <3>3, <3>5, FieldType, NoZeroDivisors
      <3>7. Z = 2 * w3
        BY <2>1, <2>3, <3>3
      <3> QED BY <3>2, <3>6, <3>7, FieldType, NoZeroDivisors
    <2>10. Is(x3, xT) /\ Is(y3, yZ)
      BY Zenon, <1>21, <1>23, <2>6, <2>8, IsAlso
    <2>11. xT = x * (Z * Z) /\ yZ = y * (Z * Z * Z)
      BY <1>5, <2>1, <2>5, <2>7
    <2> QED BY <1>6, <1>17, <2>1, <2>9, <2>10, <2>11, RepOf
  <1> QED BY <1>24, <1>25

\* A factor that is a number of the formula need not be in the field.
LEMMA MulByIs ==
  ASSUME NEW n \in Int, NEW d, NEW y \in Int, Is(d, y), NEW z \in Int, z = n * y
  PROVE  Is(mulmod(n, d), z)
  <1>1. d \in Int /\ n * d \in Int
    BY FieldType DEF Is
  <1>2. Cong(pp, n, n) /\ Cong(pp, d, y)
    BY FieldType, CongSelf DEF Is
  <1>3. Cong(pp, n * d, z)
    BY <1>1, <1>2, FieldType, CongMul
  <1>4. Is((n * d) % pp, n * d)
    BY <1>1, IsMod
  <1> QED BY <1>1, <1>3, <1>4, IsAlso DEF mulmod

\* _modifiedJacobianDouble is the tangent's third point.
LEMMA DoubleIs ==
  ASSUME NEW P \in Triples, NEW x \in Field, NEW y \in Field, Rep(P, x, y), y # 0,
         NEW l \in Int, NEW x3 \in Field, NEW y3 \in Field,
         Cong(pp, 3 * x * x - 3, l * (2 * y)),
         Is(x3, l * l - x - x), Is(y3, l * (x - x3) - y)
  PROVE  modifiedJacobianDouble(P) \in Triples /\ Rep(modifiedJacobianDouble(P), x3, y3)
  <1>1. PICK X1, Y1, Z1 : X1 = P[1] /\ Y1 = P[2] /\ Z1 = P[3]
    OBVIOUS
  <1>2. /\ X1 \in Field /\ Y1 \in Field /\ Z1 \in Field /\ Z1 \in Int /\ Z1 # 0
        /\ x \in Int /\ y \in Int /\ x3 \in Int /\ y3 \in Int
    BY <1>1, FieldType DEF Triples, Rep
  <1>3. PICK q, c, a, h \in Int : q = Z1 * Z1 /\ c = q * Z1 /\ a = x * q /\ h = y * c
    BY <1>2
  <1>4. Is(X1, a) /\ Is(Y1, h) /\ Is(Z1, Z1)
    BY Zenon, <1>1, <1>2, <1>3, IsSelf DEF Rep
  <1> DEFINE z2 == mulmod(Z1, Z1)
             y2 == mulmod(Y1, Y1)
             ss == mulmod(4, mulmod(X1, y2))
             m == addmod(mulmod(3, mulmod(X1, X1)), mulmod(pp - 3, mulmod(z2, z2)))
             dx == submod(mulmod(m, m), mulmod(2, ss))
             dy == submod(mulmod(m, submod(ss, dx)), mulmod(8, mulmod(y2, y2)))
             dz == mulmod(2, mulmod(Y1, Z1))
  <1>5. modifiedJacobianDouble(P) = <<dx, dy, dz>>
    BY <1>1 DEF modifiedJacobianDouble
  <1>6. PICK YY, AY, SS, AA, A3, QQ, Q3, M \in Int :
          /\ YY = h * h /\ AY = a * YY /\ SS = 4 * AY /\ AA = a * a /\ A3 = 3 * AA
          /\ QQ = q * q /\ Q3 = (-3) * QQ /\ M = A3 + Q3
    OBVIOUS
  <1>7. Is(z2, q) /\ Is(y2, YY)
    BY <1>2, <1>3, <1>4, <1>6, MulmodIs
  <1> HIDE DEF z2, y2
  <1>8. Is(ss, SS)
    <2>1. Is(mulmod(X1, y2), AY)
      BY <1>4, <1>6, <1>7, MulmodIs
    <2> QED BY <1>6, <2>1, MulByIs
  <1> HIDE DEF ss
  <1>9. Is(m, M)
    <2>1. Is(mulmod(X1, X1), AA)
      BY <1>4, <1>6, MulmodIs
    <2>2. Is(mulmod(3, mulmod(X1, X1)), A3)
      BY <1>6, <2>1, MulByIs
    <2>3. Is(mulmod(z2, z2), QQ)
      BY <1>6, <1>7, MulmodIs
    <2>4. PICK d \in Int : d = -3
      OBVIOUS
    <2>5. Is(pp - 3, d)
      BY <2>4, Small
    <2>6. Q3 = d * QQ
      BY <1>6, <2>4
    <2>7. Is(mulmod(pp - 3, mulmod(z2, z2)), Q3)
      BY <2>3, <2>5, <2>6, MulmodIs
    <2> QED BY <1>6, <2>2, <2>7, AddmodIs
  <1> HIDE DEF m
  <1>10. PICK MM, S2, E, U, MU, Y4, Y8, N, T, Z \in Int :
           /\ MM = M * M /\ S2 = 2 * SS /\ E = MM - S2 /\ U = SS - E /\ MU = M * U
           /\ Y4 = YY * YY /\ Y8 = 8 * Y4 /\ N = MU - Y8
           /\ T = h * Z1 /\ Z = 2 * T
    BY <1>2
  <1>11. Is(dx, E)
    <2>1. Is(mulmod(m, m), MM)
      BY <1>9, <1>10, MulmodIs
    <2>2. Is(mulmod(2, ss), S2)
      BY <1>8, <1>10, MulByIs
    <2> QED BY <1>10, <2>1, <2>2, SubmodIs
  <1> HIDE DEF dx
  <1>12. Is(dy, N)
    <2>1. Is(submod(ss, dx), U)
      BY <1>8, <1>10, <1>11, SubmodIs
    <2>2. Is(mulmod(m, submod(ss, dx)), MU)
      BY <1>9, <1>10, <2>1, MulmodIs
    <2>3. Is(mulmod(y2, y2), Y4)
      BY <1>7, <1>10, MulmodIs
    <2>4. Is(mulmod(8, mulmod(y2, y2)), Y8)
      BY <1>10, <2>3, MulByIs
    <2> QED BY <1>10, <2>2, <2>4, SubmodIs
  <1> HIDE DEF dy
  <1>13. Is(dz, Z)
    <2>1. Is(mulmod(Y1, Z1), T)
      BY <1>2, <1>4, <1>10, MulmodIs
    <2> QED BY <1>10, <2>1, MulByIs
  <1> HIDE DEF dz
  <1>14. PICK t, ly, L, ZZ, LL, xs, xZ, ys \in Int :
           /\ t = 3 * x * x - 3 /\ ly = l * (2 * y) /\ L = l * Z /\ ZZ = Z * Z /\ LL = L * L
           /\ xs = l * l - x - x /\ xZ = x3 * ZZ /\ ys = l * (x - x3) - y
    BY <1>2
  <1>15. Cong(pp, t, ly) /\ Cong(pp, x3, xs) /\ Cong(pp, y3, ys)
    BY <1>14 DEF Is
  <1>16. Z = (2 * y) * QQ
    BY <1>2, <1>3, <1>6, <1>10
  <1>17. Cong(pp, M, L)
    <2>1. M = t * QQ
      BY <1>2, <1>3, <1>6, <1>14
    <2>2. L = ly * QQ
      BY <1>2, <1>14, <1>16
    <2>3. Cong(pp, QQ, QQ)
      BY FieldType, CongSelf
    <2> QED BY Zenon, <1>15, <2>1, <2>2, <2>3, FieldType, CongMul
  <1>18. SS = x * ZZ /\ Y8 = y * (Z * ZZ)
    <2>1. YY = y * y * (q * q * q)
      BY <1>2, <1>3, <1>6
    <2>2. SS = x * (4 * y * y * (QQ * QQ))
      BY <1>2, <1>3, <1>6, <2>1
    <2>3. ZZ = 4 * y * y * (QQ * QQ)
      BY <1>2, <1>14, <1>16
    <2>4. Y8 = y * (((2 * y) * QQ) * (4 * y * y * (QQ * QQ)))
      BY <1>2, <1>6, <1>10, <2>1
    <2> QED BY <1>16, <2>2, <2>3, <2>4
  <1>19. Cong(pp, E, xZ)
    <2>1. Cong(pp, MM, LL)
      BY <1>10, <1>14, <1>17, FieldType, CongMul
    <2>2. Cong(pp, S2, S2) /\ Cong(pp, ZZ, ZZ)
      BY FieldType, CongSelf
    <2>3. PICK w \in Int : w = LL - S2
      OBVIOUS
    <2>4. Cong(pp, E, w)
      BY Zenon, <1>10, <2>1, <2>2, <2>3, FieldType, CongSub
    <2>5. w = xs * ZZ
      <3>1. LL = l * l * ZZ
        BY <1>14
      <3> QED BY <1>2, <1>10, <1>14, <1>18, <2>3, <3>1
    <2>6. Cong(pp, xZ, w)
      BY <1>2, <1>14, <1>15, <2>2, <2>5, FieldType, CongMul
    <2> QED BY Zenon, <2>4, <2>6, FieldType, CongBack, CongOn
  <1>20. PICK u, Lu, ZT, yZ \in Int : u = SS - xZ /\ Lu = L * u /\ ZT = Z * ZZ /\ yZ = y3 * ZT
    BY <1>2
  <1>21. Cong(pp, N, yZ)
    <2>1. Cong(pp, SS, SS) /\ Cong(pp, Y8, Y8) /\ Cong(pp, ZT, ZT)
      BY Zenon, FieldType, CongSelf
    <2>2. Cong(pp, U, u)
      BY Zenon, <1>10, <1>19, <1>20, <2>1, FieldType, CongSub
    <2>3. Cong(pp, MU, Lu)
      BY <1>10, <1>17, <1>20, <2>2, FieldType, CongMul
    <2>4. PICK n \in Int : n = Lu - Y8
      OBVIOUS
    <2>5. Cong(pp, N, n)
      BY Zenon, <1>10, <2>1, <2>3, <2>4, FieldType, CongSub
    <2>6. n = ys * ZT
      <3>1. u = (x - x3) * ZZ
        BY <1>2, <1>14, <1>18, <1>20
      <3>2. Lu = l * (x - x3) * ZT
        BY <1>2, <1>14, <1>20, <3>1
      <3>3. Y8 = y * ZT
        BY Zenon, <1>18, <1>20
      <3> QED BY <1>2, <1>14, <2>4, <3>2, <3>3
    <2>7. Cong(pp, yZ, n)
      BY <1>2, <1>15, <1>20, <2>1, <2>6, FieldType, CongMul
    <2> QED BY Zenon, <2>5, <2>7, FieldType, CongBack, CongOn
  <1>22. ~Cong(pp, Z, 0)
    <2>1. 0 \in Field /\ 2 \in Field
      BY FieldType DEF Field
    <2>2. ~Cong(pp, Z1, 0) /\ ~Cong(pp, y, 0) /\ ~Cong(pp, 2, 0)
      BY <1>2, <2>1, FieldType, CongSame DEF Field
    <2>3. PICK y2i \in Int : y2i = 2 * y
      BY <1>2
    <2>4. ~Cong(pp, y2i, 0)
      BY <1>2, <2>2, <2>3, FieldType, NoZeroDivisors
    <2>5. ~Cong(pp, q, 0)
      BY Zenon, <1>2, <1>3, <2>2, FieldType, NoZeroDivisors
    <2>6. ~Cong(pp, QQ, 0)
      BY <1>6, <2>5, FieldType, NoZeroDivisors
    <2>7. Z = y2i * QQ
      BY <1>16, <2>3
    <2> QED BY <2>4, <2>6, <2>7, FieldType, NoZeroDivisors
  <1>23. Is(dx, xZ) /\ Is(dy, yZ)
    BY Zenon, <1>11, <1>12, <1>19, <1>21, IsAlso
  <1>24. xZ = x3 * (Z * Z) /\ yZ = y3 * (Z * Z * Z)
    BY <1>2, <1>14, <1>20
  <1> QED BY <1>2, <1>5, <1>13, <1>22, <1>23, <1>24, RepOf

----------------------------------------------------------------------------
(* The affine point of Jacobian coordinates.                               *)

\* Jacobian coordinates are those of one affine point ...
LEMMA RepUnique ==
  ASSUME NEW P \in Triples, NEW x \in Field, NEW y \in Field, NEW x1 \in Field, NEW y1 \in Field,
         Rep(P, x, y), Rep(P, x1, y1)
  PROVE  x = x1 /\ y = y1
  <1>1. PICK z, c, d \in Int : z = P[3] /\ c = z * z /\ d = c * z
    <2>1. PICK z \in Int : z = P[3]
      BY Zenon, FieldType DEF Triples
    <2>2. PICK c \in Int : c = z * z
      OBVIOUS
    <2>3. PICK d \in Int : d = c * z
      OBVIOUS
    <2> QED BY <2>1, <2>2, <2>3
  <1>2. z # 0 /\ z \in Field /\ 0 \in Field
    BY <1>1, FieldType DEF Rep, Triples, Field
  <1>3. ~Cong(pp, z, 0)
    BY <1>1, <1>2, FieldType, CongSame DEF Field
  <1>4. ~Cong(pp, c, 0) /\ ~Cong(pp, d, 0)
    <2>1. ~Cong(pp, c, 0)
      BY <1>1, <1>3, FieldType, NoZeroDivisors
    <2> QED BY <1>1, <1>3, <2>1, FieldType, NoZeroDivisors
  <1>5. x \in Int /\ y \in Int /\ x1 \in Int /\ y1 \in Int /\ P[1] \in Int /\ P[2] \in Int
    BY Zenon, FieldType DEF Triples
  <1>6. PICK xc, xc1, yd, yd1 \in Int : xc = x * c /\ xc1 = x1 * c /\ yd = y * d /\ yd1 = y1 * d
    BY <1>5
  <1>7. Cong(pp, P[1], xc) /\ Cong(pp, P[1], xc1) /\ Cong(pp, P[2], yd) /\ Cong(pp, P[2], yd1)
    BY <1>1, <1>6 DEF Rep, Is
  <1>8. Cong(pp, xc, xc1) /\ Cong(pp, yd, yd1)
    BY <1>5, <1>7, FieldType, CongBack, CongOn
  <1>9. Cong(pp, x, x1) /\ Cong(pp, y, y1)
    BY Zenon, <1>4, <1>5, <1>6, <1>8, FieldType, Cancel
  <1> QED BY <1>9, FieldType, CongSame DEF Field

\* ... which is the one _affineFromJacobian computes.
LEMMA AffineRep ==
  ASSUME NEW P \in Triples, P[3] # 0
  PROVE  \E x, y \in Field :
           Rep(P, x, y) /\ Affine(P) = <<x, y>> /\ affineFromJacobian(P) = <<x, y>>
  <1>1. PICK x1, y1, z \in Int : x1 = P[1] /\ y1 = P[2] /\ z = P[3]
    BY Zenon, FieldType DEF Triples
  <1>2. z \in 1..pp-1 /\ x1 \in Field /\ y1 \in Field /\ z \in Field
    BY <1>1, FieldType DEF Triples, Field
  <1>3. PICK w : w = primemod(z, pp)
    OBVIOUS
  <1>4. w \in 1..pp-1 /\ Inverse(z, pp) = w /\ Cong(pp, z * w, 1)
    BY <1>2, <1>3, FieldType, InverseIs
  <1>5. w \in Field /\ w \in Int
    BY <1>4, FieldType DEF Field
  <1>6. PICK ww, w3, a, h, g \in Int : ww = w * w /\ w3 = ww * w /\ a = x1 * ww /\ h = y1 * ww /\ g = y1 * w3
    BY <1>5
  <1>7. PICK xx, hh, yy : xx = a % pp /\ hh = h % pp /\ yy = (hh * w) % pp
    OBVIOUS
  <1>8. Is(xx, a) /\ Is(hh, h)
    BY <1>7, IsMod
  <1>9. Is(yy, g)
    <2>1. hh \in Int /\ w \in Int
      BY <1>5, <1>8, FieldType DEF Is
    <2>2. PICK hw \in Int : hw = hh * w
      BY <2>1
    <2>3. Cong(pp, w, w) /\ Cong(pp, hh, h)
      BY <1>5, <1>8, FieldType, CongSelf DEF Is
    <2>4. g = h * w
      BY <1>5, <1>6
    <2>5. Cong(pp, hw, g)
      BY <1>5, <2>1, <2>2, <2>3, <2>4, FieldType, CongMul
    <2> QED BY <1>7, <2>2, <2>5, IsMod, IsAlso
  <1>10. Affine(P) = <<xx, yy>>
    <2>1. x1 * w * w = a /\ y1 * w * w = h
      BY <1>5, <1>6
    <2> QED BY <1>1, <1>2, <1>4, <1>7, <2>1 DEF Affine
  <1>11. affineFromJacobian(P) = <<xx, yy>>
    <2>1. Is(w, w) /\ Is(x1, x1) /\ Is(y1, y1)
      BY <1>2, <1>5, IsSelf
    <2>2. Is(mulmod(w, w), ww)
      BY <1>5, <1>6, <2>1, MulmodIs
    <2>3. Is(mulmod(mulmod(w, w), w), w3)
      BY <1>5, <1>6, <2>1, <2>2, MulmodIs
    <2>4. Is(mulmod(x1, mulmod(w, w)), a)
      BY <1>6, <2>1, <2>2, MulmodIs
    <2>5. Is(mulmod(y1, mulmod(mulmod(w, w), w)), g)
      BY <1>6, <2>1, <2>3, MulmodIs
    <2>6. ASSUME NEW c, NEW d, NEW i \in Int, Is(c, i), Is(d, i) PROVE c = d
      <3>1. c \in Field /\ d \in Field /\ c \in Int /\ d \in Int /\ Cong(pp, c, i) /\ Cong(pp, i, d)
        BY <2>6, FieldType, CongBack DEF Is
      <3>2. Cong(pp, c, d)
        BY <3>1, FieldType, CongOn
      <3> QED BY <3>1, <3>2, FieldType, CongSame DEF Field
    <2>7. mulmod(x1, mulmod(w, w)) = xx /\ mulmod(y1, mulmod(mulmod(w, w), w)) = yy
      BY <1>8, <1>9, <2>4, <2>5, <2>6
    <2> QED BY <1>1, <1>2, <1>3, <2>7 DEF affineFromJacobian
  <1>12. PICK z2, z3, xz, yz, t, t2, t3 \in Int :
           /\ z2 = z * z /\ z3 = z2 * z /\ xz = xx * z2 /\ yz = yy * z3
           /\ t = z * w /\ t2 = t * t /\ t3 = t2 * t
    <2>1. xx \in Int /\ yy \in Int
      BY <1>8, <1>9, FieldType DEF Is
    <2> QED BY <1>5, <2>1
  <1>13. Cong(pp, t, 1) /\ Cong(pp, t2, 1) /\ Cong(pp, t3, 1)
    <2>1. 1 * 1 = 1 /\ 1 \in Int
      OBVIOUS
    <2>2. Cong(pp, t, 1)
      BY <1>4, <1>12
    <2>3. Cong(pp, t2, 1)
      BY <1>12, <2>1, <2>2, FieldType, CongMul
    <2> QED BY <1>12, <2>1, <2>2, <2>3, FieldType, CongMul
  <1>14. Is(x1, xz)
    <2>1. Cong(pp, xx, a) /\ Cong(pp, z2, z2) /\ Cong(pp, x1, x1) /\ xx \in Int
      BY <1>8, FieldType, CongSelf DEF Is
    <2>2. PICK q \in Int : q = a * z2
      OBVIOUS
    <2>3. Cong(pp, xz, q)
      BY <1>12, <2>1, <2>2, FieldType, CongMul
    <2>4. q = x1 * t2
      BY <1>5, <1>6, <1>12, <2>2
    <2>5. Cong(pp, q, x1)
      <3>1. PICK v \in Int : v = x1 * 1
        OBVIOUS
      <3>2. Cong(pp, q, v)
        BY <1>13, <2>1, <2>4, <3>1, FieldType, CongMul
      <3> QED BY <3>1, <3>2
    <2>6. Cong(pp, x1, xz)
      BY <2>3, <2>5, FieldType, CongOn, CongBack
    <2> QED BY <1>2, <2>6 DEF Is
  <1>15. Is(y1, yz)
    <2>1. Cong(pp, yy, g) /\ Cong(pp, z3, z3) /\ Cong(pp, y1, y1) /\ yy \in Int
      BY <1>9, FieldType, CongSelf DEF Is
    <2>2. PICK q \in Int : q = g * z3
      OBVIOUS
    <2>3. Cong(pp, yz, q)
      BY <1>12, <2>1, <2>2, FieldType, CongMul
    <2>4. q = y1 * t3
      BY <1>5, <1>6, <1>12, <2>2
    <2>5. Cong(pp, q, y1)
      <3>1. PICK v \in Int : v = y1 * 1
        OBVIOUS
      <3>2. Cong(pp, q, v)
        BY <1>13, <2>1, <2>4, <3>1, FieldType, CongMul
      <3> QED BY <3>1, <3>2
    <2>6. Cong(pp, y1, yz)
      BY <2>3, <2>5, FieldType, CongOn, CongBack
    <2> QED BY <1>2, <2>6 DEF Is
  <1>16. xx \in Field /\ yy \in Field
    BY <1>8, <1>9 DEF Is
  <1>17. Rep(P, xx, yy)
    <2>1. xz = xx * (P[3] * P[3]) /\ yz = yy * (P[3] * P[3] * P[3])
      BY <1>1, <1>12
    <2> QED BY <1>1, <1>2, <1>14, <1>15, <2>1 DEF Rep
  <1> QED BY <1>10, <1>11, <1>16, <1>17

\* Affine gives the point a triple stands for.
LEMMA AffineIs ==
  ASSUME NEW P \in Triples, NEW x \in Field, NEW y \in Field
  PROVE  Rep(P, x, y) <=> Affine(P) = <<x, y>>
  <1>1. P[3] = 0 => Affine(P) # <<x, y>> /\ ~Rep(P, x, y)
    BY DEF Affine, O, Rep
  <1>2. CASE P[3] # 0
    <2>1. PICK x1, y1 \in Field : Rep(P, x1, y1) /\ Affine(P) = <<x1, y1>>
      BY <1>2, AffineRep
    <2> QED BY <2>1, RepUnique
  <1> QED BY <1>1, <1>2

----------------------------------------------------------------------------
(* The affine group law, and the contract's.                               *)

Group == Points \cup {O}

\* Points have coordinates in the field, and are not the point at infinity.
LEMMA PointType ==
  ASSUME NEW P \in Points
  PROVE  /\ P[1] \in Field /\ P[2] \in Field /\ P[1] \in Int /\ P[2] \in Int
         /\ P = <<P[1], P[2]>> /\ P # O
  <1>1. P \in Field \X Field
    BY DEF Points, Field
  <1>2. P[1] \in Field /\ P[2] \in Field /\ P = <<P[1], P[2]>>
    BY <1>1
  <1>3. P # O
    <2>1. PICK x, y : P = <<x, y>>
      BY <1>2
    <2>2. <<x, y>> # << >>
      OBVIOUS
    <2> QED BY <2>1, <2>2 DEF O
  <1> QED BY <1>2, <1>3, FieldType

\* The slope of a line, a quotient in the field.
LEMMA Slope ==
  ASSUME NEW dx \in Int, NEW dy \in Int, ~Cong(pp, dx, 0),
         NEW l, l = (dy * Inverse(dx % pp, pp)) % pp
  PROVE  l \in Int /\ Cong(pp, dy, l * dx)
  <1>1. PICK v : v = dx % pp
    OBVIOUS
  <1>2. v \in Field /\ v \in Int /\ Cong(pp, v, dx)
    BY <1>1, FieldType, IsMod DEF Is
  <1>3. v # 0
    BY <1>2, FieldType, CongBack
  <1>4. v \in 1..pp-1
    BY <1>2, <1>3, FieldType DEF Field
  <1>5. PICK w : w = Inverse(v, pp)
    OBVIOUS
  <1>6. w \in Int /\ Cong(pp, v * w, 1)
    BY <1>4, <1>5, FieldType, InverseIs
  <1>7. PICK g \in Int : g = dy * w
    BY <1>6
  <1>8. l \in Int /\ Cong(pp, l, g)
    BY <1>1, <1>5, <1>7, FieldType, IsMod DEF Is
  <1>9. PICK ld, gv, u, yu, y1 \in Int : ld = l * dx /\ gv = g * v /\ u = v * w /\ yu = dy * u /\ y1 = dy * 1
    BY <1>2, <1>6, <1>8
  <1>10. Cong(pp, dx, v) /\ Cong(pp, dy, dy) /\ Cong(pp, u, 1)
    BY Zenon, <1>2, <1>6, <1>9, FieldType, CongBack, CongSelf
  <1>11. Cong(pp, ld, gv)
    BY <1>2, <1>8, <1>9, <1>10, FieldType, CongMul
  <1>12. gv = yu /\ y1 = dy
    BY <1>2, <1>6, <1>7, <1>9
  <1>13. Cong(pp, yu, y1)
    BY <1>9, <1>10, FieldType, CongMul
  <1>14. Cong(pp, ld, dy)
    BY Zenon, <1>11, <1>12, <1>13, FieldType, CongOn
  <1> QED BY Zenon, <1>8, <1>9, <1>14, FieldType, CongBack

\* The chord through two points.
LEMMA Chord ==
  ASSUME NEW P \in Points, NEW Q \in Points, P[1] # Q[1]
  PROVE  \E l \in Int, x, y \in Field :
           /\ AffineAdd(P, Q) = <<x, y>>
           /\ Cong(pp, Q[2] - P[2], l * (Q[1] - P[1]))
           /\ Is(x, l * l - P[1] - Q[1]) /\ Is(y, l * (P[1] - x) - P[2])
  <1>1. PICK x1, y1, x2, y2 : x1 = P[1] /\ y1 = P[2] /\ x2 = Q[1] /\ y2 = Q[2]
    OBVIOUS
  <1>2. /\ x1 \in Field /\ y1 \in Field /\ x2 \in Field /\ y2 \in Field /\ P # Q /\ P # O /\ Q # O
        /\ x1 \in Int /\ y1 \in Int /\ x2 \in Int /\ y2 \in Int
    BY <1>1, PointType
  <1>3. PICK dx, dy \in Int : dx = x2 - x1 /\ dy = y2 - y1
    BY <1>2
  <1>4. ~Cong(pp, dx, 0)
    <2> SUFFICES ASSUME Cong(pp, dx, 0) PROVE FALSE
      OBVIOUS
    <2>1. Cong(pp, dx + x1, 0 + x1)
      BY <1>2, FieldType, CongSelf, CongAdd
    <2>2. dx + x1 = x2 /\ 0 + x1 = x1
      BY <1>2, <1>3
    <2> QED BY <1>1, <1>2, <2>1, <2>2, FieldType, CongSame DEF Field
  <1>5. PICK l : l = (dy * Inverse(dx % pp, pp)) % pp
    OBVIOUS
  <1>6. l \in Int /\ Cong(pp, dy, l * dx)
    BY <1>4, <1>5, Slope
  <1>7. PICK h \in Int : h = l * l - x1 - x2
    BY <1>2, <1>6
  <1>8. PICK x : x = h % pp
    OBVIOUS
  <1>9. Is(x, h) /\ x \in Field /\ x \in Int
    BY <1>8, FieldType, IsMod DEF Is
  <1>10. PICK i \in Int : i = l * (x1 - x) - y1
    BY <1>2, <1>6, <1>9
  <1>11. PICK y : y = i % pp
    OBVIOUS
  <1>12. Is(y, i) /\ y \in Field
    BY <1>11, IsMod DEF Is
  <1>13. AffineAdd(P, Q) = <<x, y>>
    BY Zenon, <1>1, <1>2, <1>3, <1>5, <1>7, <1>8, <1>10, <1>11 DEF AffineAdd
  <1> QED BY <1>1, <1>3, <1>6, <1>7, <1>9, <1>10, <1>12, <1>13

\* The tangent in a point.
LEMMA Tangent ==
  ASSUME NEW P \in Points, P[2] # 0
  PROVE  \E l \in Int, x, y \in Field :
           /\ AffineAdd(P, P) = <<x, y>>
           /\ Cong(pp, 3 * P[1] * P[1] - 3, l * (2 * P[2]))
           /\ Is(x, l * l - P[1] - P[1]) /\ Is(y, l * (P[1] - x) - P[2])
  <1>1. PICK x1, y1 : x1 = P[1] /\ y1 = P[2]
    OBVIOUS
  <1>2. x1 \in Field /\ y1 \in Field /\ P # O /\ y1 # 0 /\ x1 \in Int /\ y1 \in Int
    BY <1>1, PointType
  <1>3. PICK dx, dy \in Int : dx = 2 * y1 /\ dy = 3 * x1 * x1 - 3
    BY <1>2
  <1>4. ~Cong(pp, dx, 0)
    <2>1. 0 \in Field /\ 2 \in Field /\ 2 # 0
      BY FieldType DEF Field
    <2>2. ~Cong(pp, y1, 0) /\ ~Cong(pp, 2, 0)
      BY <1>2, <2>1, FieldType, CongSame DEF Field
    <2> QED BY <1>2, <1>3, <2>2, FieldType, NoZeroDivisors
  <1>5. PICK l : l = (dy * Inverse(dx % pp, pp)) % pp
    OBVIOUS
  <1>6. l \in Int /\ Cong(pp, dy, l * dx)
    BY <1>4, <1>5, Slope
  <1>7. PICK h \in Int : h = l * l - x1 - x1
    BY <1>2, <1>6
  <1>8. PICK x : x = h % pp
    OBVIOUS
  <1>9. Is(x, h) /\ x \in Field /\ x \in Int
    BY <1>8, FieldType, IsMod DEF Is
  <1>10. PICK i \in Int : i = l * (x1 - x) - y1
    BY <1>2, <1>6, <1>9
  <1>11. PICK y : y = i % pp
    OBVIOUS
  <1>12. Is(y, i) /\ y \in Field
    BY <1>11, IsMod DEF Is
  <1>13. (y1 + y1) % pp # 0
    <2>1. y1 + y1 = dx
      BY <1>2, <1>3
    <2>2. Is(dx % pp, dx)
      BY IsMod
    <2>3. dx % pp # 0
      BY <1>4, <2>2, FieldType, CongBack DEF Is
    <2> QED BY <2>1, <2>3
  <1>14. AffineAdd(P, P) = <<x, y>>
    BY Zenon, <1>1, <1>2, <1>3, <1>5, <1>7, <1>8, <1>10, <1>11, <1>13 DEF AffineAdd
  <1> QED BY <1>1, <1>3, <1>6, <1>7, <1>9, <1>10, <1>12, <1>14

\* Two points with one abscissa are opposite.
LEMMA Opposite ==
  ASSUME NEW P \in Points, NEW Q \in Points, P[1] = Q[1], P # Q
  PROVE  AffineAdd(P, Q) = O
  <1>1. PICK x, y1, y2 : x = P[1] /\ y1 = P[2] /\ y2 = Q[2]
    OBVIOUS
  <1>2. y1 \in Field /\ y2 \in Field /\ y1 \in Int /\ y2 \in Int /\ P # O /\ Q # O
    BY <1>1, PointType
  <1>3. y1 # y2
    <2>1. P = <<P[1], P[2]>> /\ Q = <<Q[1], Q[2]>>
      BY PointType
    <2> QED BY <1>1, <2>1
  <1>4. PICK s1, s2, sum, diff, z \in Int :
          s1 = y1 * y1 /\ s2 = y2 * y2 /\ sum = y1 + y2 /\ diff = y1 - y2 /\ z = 0
    BY <1>2
  <1>5. s1 % pp = s2 % pp
    BY <1>1, <1>4 DEF Points
  <1>6. Cong(pp, s1, s2)
    <2>1. Cong(pp, s1 % pp, s1) /\ Cong(pp, s2 % pp, s2) /\ s1 % pp \in Int
      BY Zenon, FieldType, CongMod
    <2> QED BY <1>5, <2>1, FieldType, CongBack, CongOn
  <1>7. Cong(pp, sum * diff, 0)
    <2>1. Cong(pp, s1 - s2, s2 - s2)
      BY <1>6, FieldType, CongSelf, CongSub
    <2>2. s1 - s2 = sum * diff /\ s2 - s2 = 0
      BY <1>2, <1>4
    <2> QED BY <2>1, <2>2
  <1>8. ~Cong(pp, diff, 0)
    <2> SUFFICES ASSUME Cong(pp, diff, 0) PROVE FALSE
      OBVIOUS
    <2>1. Cong(pp, diff + y2, 0 + y2)
      BY <1>2, FieldType, CongSelf, CongAdd
    <2>2. diff + y2 = y1 /\ 0 + y2 = y2
      BY <1>2, <1>4
    <2> QED BY <1>2, <1>3, <2>1, <2>2, FieldType, CongSame DEF Field
  <1>9. Cong(pp, sum, 0)
    BY <1>7, <1>8, FieldType, NoZeroDivisors
  <1>10. sum % pp = 0
    <2>1. 0 \in 0..pp-1
      BY FieldType
    <2> QED BY Zenon, <1>9, <2>1, FieldType, ModOf
  <1> QED BY Zenon, <1>1, <1>2, <1>4, <1>10 DEF AffineAdd

\* A point with ordinate 0 is its own opposite.
LEMMA OwnOpposite ==
  ASSUME NEW P \in Points, P[2] = 0
  PROVE  AffineAdd(P, P) = O
  <1>1. P # O
    BY PointType
  <1>2. (P[2] + P[2]) % pp = 0
    BY FieldType
  <1> QED BY Zenon, <1>1, <1>2 DEF AffineAdd

\* Only z = 0 stands for the point at infinity.
LEMMA AffineO ==
  ASSUME NEW P \in Triples
  PROVE  Affine(P) = O <=> P[3] = 0
  <1>1. CASE P[3] # 0
    <2>1. PICK x, y \in Field : Affine(P) = <<x, y>>
      BY <1>1, AffineRep
    <2>2. <<x, y>> # << >>
      OBVIOUS
    <2> QED BY <1>1, <2>1, <2>2 DEF O
  <1>2. P[3] = 0 => Affine(P) = O
    BY DEF Affine
  <1> QED BY <1>1, <1>2

\* The operations of the contract stay in the field.
LEMMA MulmodType ==
  ASSUME NEW c \in Int, NEW d \in Int
  PROVE  mulmod(c, d) \in Field /\ mulmod(c, d) \in Int
  <1>1. PICK cd \in Int : cd = c * d
    OBVIOUS
  <1> QED BY <1>1, FieldType, IsMod DEF mulmod, Is

LEMMA AddmodType ==
  ASSUME NEW c \in Int, NEW d \in Int
  PROVE  addmod(c, d) \in Field /\ addmod(c, d) \in Int
  BY FieldType, IsMod DEF addmod, Is

LEMMA SubmodType ==
  ASSUME NEW c \in Field, NEW d \in Field
  PROVE  submod(c, d) \in Field /\ submod(c, d) \in Int
  <1>1. c \in Int /\ d \in Int /\ Is(c, c) /\ Is(d, d)
    BY IsSelf
  <1>2. PICK z \in Int : z = c - d
    BY <1>1
  <1> QED BY Zenon, <1>1, <1>2, FieldType, SubmodIs DEF Is

\* Doubling stays in the field, at infinity too.
LEMMA DoubleType ==
  ASSUME NEW P \in Triples
  PROVE  modifiedJacobianDouble(P) \in Triples
  <1>1. PICK X1, Y1, Z1 \in Int : X1 = P[1] /\ Y1 = P[2] /\ Z1 = P[3]
    BY Zenon, FieldType DEF Triples
  <1> DEFINE z2 == mulmod(Z1, Z1)
             y2 == mulmod(Y1, Y1)
             ss == mulmod(4, mulmod(X1, y2))
             m == addmod(mulmod(3, mulmod(X1, X1)), mulmod(pp - 3, mulmod(z2, z2)))
             dx == submod(mulmod(m, m), mulmod(2, ss))
             dy == submod(mulmod(m, submod(ss, dx)), mulmod(8, mulmod(y2, y2)))
             dz == mulmod(2, mulmod(Y1, Z1))
  <1>2. modifiedJacobianDouble(P) = <<dx, dy, dz>>
    BY Zenon, <1>1 DEF modifiedJacobianDouble
  <1>3. z2 \in Int /\ y2 \in Int /\ dz \in Field
    BY MulmodType
  <1> HIDE DEF z2, y2, dz
  <1>4. ss \in Field /\ ss \in Int
    BY <1>3, MulmodType
  <1> HIDE DEF ss
  <1>5. m \in Int
    <2>1. mulmod(3, mulmod(X1, X1)) \in Int
      BY MulmodType
    <2>2. mulmod(z2, z2) \in Int /\ pp - 3 \in Int
      BY <1>3, FieldType, MulmodType
    <2>3. mulmod(pp - 3, mulmod(z2, z2)) \in Int
      BY <2>2, MulmodType
    <2> QED BY <2>1, <2>3, AddmodType
  <1> HIDE DEF m
  <1>6. dx \in Field
    BY <1>4, <1>5, MulmodType, SubmodType
  <1> HIDE DEF dx
  <1>7. submod(ss, dx) \in Int
    BY <1>4, <1>6, SubmodType
  <1>8. dy \in Field
    BY <1>3, <1>5, <1>7, MulmodType, SubmodType
  <1> HIDE DEF dy
  <1> QED BY <1>2, <1>3, <1>6, <1>8 DEF Triples

\* _modifiedJacobianDouble doubles every point.
LEMMA DoubleAdds ==
  ASSUME NEW P \in Triples, Affine(P) \in Group
  PROVE  /\ modifiedJacobianDouble(P) \in Triples
         /\ Affine(modifiedJacobianDouble(P)) = AffineAdd(Affine(P), Affine(P))
  <1>1. modifiedJacobianDouble(P) \in Triples
    BY DoubleType
  <1>2. PICK D \in Triples : D = modifiedJacobianDouble(P)
    BY <1>1
  <1>3. D[3] = mulmod(2, mulmod(P[2], P[3])) /\ P[2] \in Int /\ P[3] \in Int
    <2>1. \E c, d : D = <<c, d, mulmod(2, mulmod(P[2], P[3]))>>
      BY Zenon, <1>2 DEF modifiedJacobianDouble
    <2>2. D[3] = mulmod(2, mulmod(P[2], P[3]))
      BY <2>1
    <2> QED BY Zenon, <2>2, FieldType DEF Triples
  <1>4. ASSUME P[2] = 0 \/ P[3] = 0 PROVE Affine(D) = O
    <2>1. P[2] * P[3] = 0 /\ 0 % pp = 0 /\ 2 * 0 = 0
      BY <1>3, <1>4, FieldType
    <2>2. D[3] = 0
      BY <1>3, <2>1 DEF mulmod
    <2> QED BY <2>2, AffineO
  <1>5. CASE P[3] = 0
    <2>1. Affine(P) = O
      BY <1>5, AffineO
    <2> QED BY Zenon, <1>2, <1>4, <1>5, <2>1 DEF AffineAdd
  <1>6. CASE P[3] # 0
    <2>1. PICK x, y \in Field : Rep(P, x, y) /\ Affine(P) = <<x, y>>
      BY <1>6, AffineRep
    <2>2. PICK A : A = Affine(P)
      OBVIOUS
    <2>3. A \in Points /\ A[1] = x /\ A[2] = y
      BY <1>6, <2>1, <2>2, AffineO DEF Group
    <2>4. CASE y = 0
      <3>1. AffineAdd(A, A) = O
        BY <2>3, <2>4, OwnOpposite
      <3>2. P[2] = 0
        <4>1. PICK d, z \in Int : d = P[3] * P[3] * P[3] /\ z = 0
          BY <1>3
        <4>2. y * d = z
          BY <2>4, <4>1
        <4>3. Is(P[2], z)
          BY <2>1, <4>1, <4>2 DEF Rep
        <4> QED BY <4>1, <4>3, FieldType, CongSame DEF Is, Field
      <3> QED BY <1>2, <1>4, <2>2, <3>1, <3>2
    <2>5. CASE y # 0
      <3>1. PICK l \in Int, x3, y3 \in Field :
              /\ AffineAdd(A, A) = <<x3, y3>>
              /\ Cong(pp, 3 * x * x - 3, l * (2 * y))
              /\ Is(x3, l * l - x - x) /\ Is(y3, l * (x - x3) - y)
        BY Zenon, <2>3, <2>5, Tangent
      <3>2. Rep(D, x3, y3)
        BY Zenon, <1>2, <2>1, <2>5, <3>1, DoubleIs
      <3>3. Affine(D) = <<x3, y3>>
        BY <3>2, AffineIs
      <3> QED BY <1>2, <2>2, <3>1, <3>3
    <2> QED BY <2>4, <2>5
  <1> QED BY <1>1, <1>2, <1>5, <1>6

\* _jAdd adds every two points that differ.
LEMMA JAddAdds ==
  ASSUME NEW P \in Triples, NEW Q \in Triples, Affine(P) \in Group, Affine(Q) \in Group
  PROVE  /\ jAdd(P, Q) \in Triples
         /\ Affine(jAdd(P, Q)) = IF Affine(P) = Affine(Q) THEN O
                                 ELSE AffineAdd(Affine(P), Affine(Q))
  <1>1. PICK J : J = jAdd(P, Q)
    OBVIOUS
  <1>2. CASE P[3] = 0
    <2>1. J = Q /\ Affine(P) = O
      BY Zenon, <1>1, <1>2, AffineO DEF jAdd
    <2>2. AffineAdd(O, Affine(Q)) = Affine(Q)
      BY DEF AffineAdd
    <2> QED BY Zenon, <1>1, <2>1, <2>2
  <1>3. CASE P[3] # 0 /\ Q[3] = 0
    <2>1. J = P /\ Affine(Q) = O /\ Affine(P) # O
      BY Zenon, <1>1, <1>3, AffineO DEF jAdd
    <2>2. AffineAdd(Affine(P), O) = Affine(P)
      BY DEF AffineAdd
    <2> QED BY Zenon, <1>1, <2>1, <2>2
  <1>4. CASE P[3] # 0 /\ Q[3] # 0
    <2>1. PICK x1, y1 \in Field : Rep(P, x1, y1) /\ Affine(P) = <<x1, y1>>
      BY <1>4, AffineRep
    <2>2. PICK x2, y2 \in Field : Rep(Q, x2, y2) /\ Affine(Q) = <<x2, y2>>
      BY <1>4, AffineRep
    <2>3. PICK A, C : A = Affine(P) /\ C = Affine(Q)
      OBVIOUS
    <2>4. A \in Points /\ A[1] = x1 /\ A[2] = y1 /\ C \in Points /\ C[1] = x2 /\ C[2] = y2
      BY <1>4, <2>1, <2>2, <2>3, AffineO DEF Group
    <2>5. CASE x1 = x2
      <3>1. J \in Triples /\ J[3] = 0
        BY <1>1, <2>1, <2>2, <2>5, JAddIs
      <3>2. Affine(J) = O
        BY <3>1, AffineO
      <3>3. A # C => AffineAdd(A, C) = O
        BY <2>4, <2>5, Opposite
      <3> QED BY <1>1, <2>3, <3>1, <3>2, <3>3
    <2>6. CASE x1 # x2
      <3>1. PICK l \in Int, x3, y3 \in Field :
              /\ AffineAdd(A, C) = <<x3, y3>>
              /\ Cong(pp, y2 - y1, l * (x2 - x1))
              /\ Is(x3, l * l - x1 - x2) /\ Is(y3, l * (x1 - x3) - y1)
        BY Zenon, <2>4, <2>6, Chord
      <3>2. J \in Triples /\ Rep(J, x3, y3)
        BY Zenon, <1>1, <2>1, <2>2, <2>6, <3>1, JAddIs
      <3>3. Affine(J) = <<x3, y3>>
        BY <3>2, AffineIs
      <3>4. A # C
        BY <2>4, <2>6
      <3> QED BY <1>1, <2>3, <3>1, <3>2, <3>3, <3>4
    <2> QED BY <2>5, <2>6
  <1> QED BY <1>2, <1>3, <1>4

----------------------------------------------------------------------------
(* Multiples of a point.                                                   *)

\* The laws of the group.
LEMMA GroupLaws ==
  /\ \A P, Q \in Group : AffineAdd(P, Q) \in Group
  /\ \A P, Q, R \in Group : AffineAdd(AffineAdd(P, Q), R) = AffineAdd(P, AffineAdd(Q, R))
  /\ \A P \in Group : AffineAdd(O, P) = P /\ AffineAdd(P, O) = P
  /\ O \in Group /\ Points \subseteq Group
  <1>1. \A P \in Group : AffineAdd(O, P) = P /\ AffineAdd(P, O) = P
    BY Zenon DEF AffineAdd
  <1> QED BY Zenon, <1>1, GroupAssumption DEF Group

\* f is the function of Multiples, up to m.
IsTimes(f, P, m) ==
  f = [n \in 0..m |-> IF n = 0 THEN O ELSE AffineAdd(f[n - 1], P)]

\* There is such a function, for any m.
LEMMA TimesExists ==
  ASSUME NEW P, NEW m \in Nat
  PROVE  \E f : IsTimes(f, P, m)
  <1> DEFINE S == {n \in Nat : \E f : IsTimes(f, P, n)}
  <1>1. 0 \in S
    <2>1. PICK f : f = [n \in 0..0 |-> O]
      BY Zenon
    <2>2. f = [n \in 0..0 |-> IF n = 0 THEN O ELSE AffineAdd(f[n - 1], P)]
      BY <2>1
    <2> QED BY <2>2 DEF IsTimes
  <1>2. ASSUME NEW n \in Nat, n \in S PROVE n + 1 \in S
    <2>1. PICK f : IsTimes(f, P, n)
      BY <1>2
    <2>2. PICK h : h = [i \in 0..n+1 |-> IF i = n + 1 THEN AffineAdd(f[n], P) ELSE f[i]]
      BY Zenon
    <2>3. ASSUME NEW i \in 0..n+1
          PROVE  h[i] = IF i = 0 THEN O ELSE AffineAdd(h[i - 1], P)
      <3>1. CASE i = n + 1
        BY <2>2, <3>1
      <3>2. CASE i = 0
        BY <2>1, <2>2, <3>2 DEF IsTimes
      <3>3. CASE i \in 1..n
        <4>1. i \in 0..n /\ i # 0 /\ i # n + 1 /\ i - 1 # n + 1 /\ i - 1 \in 0..n+1
          BY <3>3
        <4>2. h[i] = f[i] /\ h[i - 1] = f[i - 1]
          BY <2>2, <4>1
        <4>3. f[i] = AffineAdd(f[i - 1], P)
          BY <2>1, <4>1 DEF IsTimes
        <4> QED BY <4>1, <4>2, <4>3
      <3> QED BY <3>1, <3>2, <3>3
    <2>4. h = [i \in 0..n+1 |-> IF i = 0 THEN O ELSE AffineAdd(h[i - 1], P)]
      BY <2>2, <2>3
    <2> QED BY <2>4 DEF IsTimes
  <1>3. m \in S
    <2> HIDE DEF S
    <2> QED BY <1>1, <1>2, InductionOn
  <1> QED BY <1>3

\* The multiples of a point up to its order.
LEMMA MultiplesIs ==
  ASSUME NEW P \in Points
  PROVE  /\ Multiples[P][0] = O
         /\ \A i \in 1..nn-1 : Multiples[P][i] = AffineAdd(Multiples[P][i - 1], P)
         /\ AffineAdd(Multiples[P][nn - 1], P) = O
  <1>1. nn - 1 \in Nat /\ nn \in Nat
    BY CurveAssumption
  <1>2. PICK f : f = Multiples[P]
    OBVIOUS
  <1>3. f = CHOOSE g : IsTimes(g, P, nn - 1)
    BY Zenon, <1>2 DEF Multiples, IsTimes
  <1>4. IsTimes(f, P, nn - 1)
    BY Zenon, <1>1, <1>3, TimesExists
  <1>5. f = [n \in 0..nn-1 |-> IF n = 0 THEN O ELSE AffineAdd(f[n - 1], P)]
    BY Zenon, <1>4 DEF IsTimes
  <1>6. f[0] = O /\ \A i \in 1..nn-1 : f[i] = AffineAdd(f[i - 1], P)
    BY <1>1, <1>5
  <1> QED BY Zenon, <1>2, <1>6, GroupAssumption

\* The recursion of the multiples, at nn too.
LEMMA TimesNext ==
  ASSUME NEW P \in Group
  PROVE  Times(0, P) = O /\ \A n \in Nat : Times(n + 1, P) = AffineAdd(Times(n, P), P)
  <1>1. nn \in Nat /\ 2 < nn
    BY CurveAssumption
  <1>2. CASE P = O
    <2>1. \A n : Times(n, P) = O
      BY <1>2 DEF Times
    <2> QED BY <1>2, <2>1, GroupLaws
  <1>3. CASE P \in Points
    <2>1. P # O
      BY <1>3, PointType
    <2>2. PICK f : f = Multiples[P]
      OBVIOUS
    <2>3. \A n : Times(n, P) = f[n % nn]
      BY <2>1, <2>2 DEF Times
    <2>4. /\ f[0] = O
          /\ \A i \in 1..nn-1 : f[i] = AffineAdd(f[i - 1], P)
          /\ AffineAdd(f[nn - 1], P) = O
      BY Zenon, <1>3, <2>2, MultiplesIs
    <2>5. 0 % nn = 0
      BY <1>1
    <2>6. ASSUME NEW n \in Nat PROVE f[(n + 1) % nn] = AffineAdd(f[n % nn], P)
      <3>1. PICK i : i = n % nn
        OBVIOUS
      <3>2. i \in 0..nn-1 /\ n = nn * (n \div nn) + i
        BY <1>1, <3>1
      <3>3. CASE i < nn - 1
        <4>1. (n + 1) % nn = i + 1
          <5>1. Cong(nn, n + 1, i + 1)
            <6>1. nn \in Moduli /\ i \in Int
              BY <1>1, <3>2 DEF Moduli
            <6>2. Cong(nn, i, n)
              BY <3>1, <6>1, CongMod
            <6>3. Cong(nn, n, i) /\ Cong(nn, 1, 1)
              BY <6>1, <6>2, CongBack, CongSelf
            <6> QED BY <6>1, <6>3, CongAdd
          <5>2. i + 1 \in 0..nn-1 /\ nn \in Moduli
            BY <1>1, <3>2, <3>3 DEF Moduli
          <5> QED BY <5>1, <5>2, ModOf
        <4>2. i + 1 \in 1..nn-1 /\ (i + 1) - 1 = i
          BY <1>1, <3>2, <3>3
        <4> QED BY <2>4, <3>1, <4>1, <4>2
      <3>4. CASE i = nn - 1
        <4>1. (n + 1) % nn = 0
          <5>1. nn \in Moduli /\ i \in Int
            BY <1>1, <3>2 DEF Moduli
          <5>2. Cong(nn, n + 1, i + 1)
            <6>1. Cong(nn, i, n)
              BY <3>1, <5>1, CongMod
            <6>2. Cong(nn, n, i) /\ Cong(nn, 1, 1)
              BY <5>1, <6>1, CongBack, CongSelf
            <6> QED BY <5>1, <6>2, CongAdd
          <5>3. Cong(nn, i + 1, 0)
            <6>1. PICK q, u, z \in Int : q = 1 /\ u = i + 1 /\ z = 0
              BY <5>1
            <6>2. u = z + q * nn
              BY <1>1, <3>4, <6>1
            <6> QED BY <5>1, <6>1, <6>2, CongBy
          <5>4. Cong(nn, n + 1, 0) /\ 0 \in 0..nn-1
            BY <1>1, <5>1, <5>2, <5>3, CongOn
          <5> QED BY <5>1, <5>4, ModOf
        <4> QED BY <2>4, <3>1, <3>4, <4>1
      <3>5. i < nn - 1 \/ i = nn - 1
        BY <1>1, <3>2
      <3> QED BY <3>3, <3>4, <3>5
    <2> QED BY <2>3, <2>4, <2>5, <2>6
  <1> QED BY <1>2, <1>3 DEF Group

\* Multiples are in the group, ...
LEMMA TimesType ==
  ASSUME NEW P \in Group
  PROVE  \A n \in Nat : Times(n, P) \in Group
  <1> DEFINE S == {n \in Nat : Times(n, P) \in Group}
  <1>1. 0 \in S
    BY TimesNext, GroupLaws
  <1>2. ASSUME NEW n \in Nat, n \in S PROVE n + 1 \in S
    BY <1>2, TimesNext, GroupLaws
  <1>3. \A n \in Nat : n \in S
    <2> HIDE DEF S
    <2> QED BY <1>1, <1>2, InductionOn
  <1> QED BY <1>3

\* ... the sum of two is the multiple of the sum, ...
LEMMA TimesSum ==
  ASSUME NEW P \in Group, NEW m \in Nat
  PROVE  \A n \in Nat : Times(m + n, P) = AffineAdd(Times(m, P), Times(n, P))
  <1> DEFINE S == {n \in Nat : Times(m + n, P) = AffineAdd(Times(m, P), Times(n, P))}
  <1>1. 0 \in S
    <2>1. m + 0 = m
      OBVIOUS
    <2> QED BY <2>1, TimesNext, TimesType, GroupLaws
  <1>2. ASSUME NEW n \in Nat, n \in S PROVE n + 1 \in S
    <2>1. Times(m + n, P) = AffineAdd(Times(m, P), Times(n, P))
      BY <1>2
    <2>2. m + (n + 1) = (m + n) + 1 /\ m + n \in Nat
      OBVIOUS
    <2>3. Times((m + n) + 1, P) = AffineAdd(Times(m + n, P), P)
      BY <2>2, TimesNext
    <2>4. Times(n + 1, P) = AffineAdd(Times(n, P), P)
      BY TimesNext
    <2>5. Times(m, P) \in Group /\ Times(n, P) \in Group
      BY TimesType
    <2>6. AffineAdd(AffineAdd(Times(m, P), Times(n, P)), P)
            = AffineAdd(Times(m, P), AffineAdd(Times(n, P), P))
      BY <2>5, GroupLaws
    <2> QED BY <2>1, <2>2, <2>3, <2>4, <2>6
  <1>3. \A n \in Nat : n \in S
    <2> HIDE DEF S
    <2> QED BY <1>1, <1>2, InductionOn
  <1> QED BY <1>3

\* ... a multiple of a multiple is that of the product, ...
LEMMA TimesProduct ==
  ASSUME NEW P \in Group, NEW m \in Nat
  PROVE  \A n \in Nat : Times(n, Times(m, P)) = Times(n * m, P)
  <1> DEFINE S == {n \in Nat : Times(n, Times(m, P)) = Times(n * m, P)}
  <1>1. PICK T \in Group : T = Times(m, P)
    BY TimesType
  <1>2. 0 \in S
    <2>1. 0 * m = 0
      OBVIOUS
    <2> QED BY <1>1, <2>1, TimesNext
  <1>3. ASSUME NEW n \in Nat, n \in S PROVE n + 1 \in S
    <2>1. Times(n, T) = Times(n * m, P)
      BY <1>1, <1>3
    <2>2. PICK nm \in Nat : nm = n * m
      OBVIOUS
    <2>3. (n + 1) * m = nm + m
      BY <2>2
    <2>4. Times(n + 1, T) = AffineAdd(Times(n, T), T)
      BY TimesNext
    <2>5. Times(nm + m, P) = AffineAdd(Times(nm, P), Times(m, P))
      BY TimesSum
    <2>6. Times(n + 1, T) = Times((n + 1) * m, P)
      BY <1>1, <2>1, <2>2, <2>3, <2>4, <2>5
    <2> QED BY <1>1, <2>6
  <1>4. \A n \in Nat : n \in S
    <2> HIDE DEF S
    <2> QED BY <1>2, <1>3, InductionOn
  <1> QED BY <1>4

\* ... and only the remainder modulo the order counts.
LEMMA TimesMod ==
  ASSUME NEW P, NEW m \in Nat, NEW n \in Nat, m % nn = n % nn
  PROVE  Times(m, P) = Times(n, P)
  BY DEF Times

\* Once a point is the point.
LEMMA TimesOne ==
  ASSUME NEW P \in Group
  PROVE  Times(1, P) = P
  <1>1. 0 + 1 = 1
    OBVIOUS
  <1> QED BY <1>1, TimesNext, GroupLaws

\* nn is prime: no point is of a smaller order, ...
LEMMA Order ==
  ASSUME NEW P \in Points, NEW j \in 1..nn-1
  PROVE  Times(j, P) # O
  <1> SUFFICES ASSUME Times(j, P) = O PROVE FALSE
    OBVIOUS
  <1>1. nn \in Nat /\ 2 < nn /\ nn \in Primes /\ nn \in Moduli /\ P \in Group /\ O \in Group /\ j \in Nat
    BY CurveAssumption, GroupLaws DEF Primes, Moduli
  <1>2. PICK w : w = primemod(j, nn)
    OBVIOUS
  <1>3. w \in 1..nn-1 /\ Cong(nn, j * w, 1)
    BY <1>1, <1>2, InverseIs
  <1>4. w \in Nat
    BY <1>1, <1>3
  <1>5. PICK wj \in Nat : wj = w * j
    BY <1>1, <1>4
  <1>6. wj % nn = 1 % nn
    <2>1. Cong(nn, wj, 1)
      <3>1. wj = j * w
        BY <1>1, <1>4, <1>5
      <3> QED BY <1>3, <3>1
    <2>2. wj \in Int /\ 1 \in Int
      OBVIOUS
    <2> QED BY Zenon, <1>1, <2>1, <2>2, ModEqual
  <1>7. Times(w, O) = Times(wj, P)
    BY <1>1, <1>4, <1>5, TimesProduct
  <1>8. Times(w, O) = O
    BY DEF Times
  <1>9. Times(wj, P) = Times(1, P)
    BY <1>6, TimesMod
  <1>10. Times(1, P) = P
    BY <1>1, TimesOne
  <1> QED BY Zenon, <1>7, <1>8, <1>9, <1>10, PointType

\* ... and so no two multiples below nn are the same point.
LEMMA Distinct ==
  ASSUME NEW P \in Points, NEW m \in Nat, NEW c \in Nat, c < m, m < nn
  PROVE  Times(c, P) # Times(m, P)
  <1> SUFFICES ASSUME Times(c, P) = Times(m, P) PROVE FALSE
    OBVIOUS
  <1>1. nn \in Nat /\ nn \in Moduli /\ 2 < nn /\ P \in Group
    BY CurveAssumption, GroupLaws DEF Moduli
  <1>2. PICK j, i \in Nat : j = m - c /\ i = nn - c
    BY <1>1
  <1>3. j \in 1..nn-1 /\ i + c = nn /\ i + m = nn + j
    BY <1>1, <1>2
  <1>4. Times(i + c, P) = Times(i + m, P)
    <2>1. Times(i + c, P) = AffineAdd(Times(i, P), Times(c, P))
      BY <1>1, TimesSum
    <2>2. Times(i + m, P) = AffineAdd(Times(i, P), Times(m, P))
      BY <1>1, TimesSum
    <2> QED BY <2>1, <2>2
  <1>5. nn % nn = 0 % nn /\ (nn + j) % nn = j % nn
    <2>1. PICK q, z, u, v \in Int : q = 1 /\ z = 0 /\ u = nn + j /\ v = j
      BY <1>1
    <2>2. nn = z + q * nn /\ u = v + q * nn
      BY <1>1, <2>1
    <2>3. nn \in Int
      BY <1>1
    <2>4. Cong(nn, nn, z)
      BY Zenon, <1>1, <2>2, <2>3, CongBy
    <2>5. Cong(nn, u, v)
      BY Zenon, <1>1, <2>2, CongBy
    <2>6. nn % nn = z % nn
      BY Zenon, <1>1, <2>3, <2>4, ModEqual
    <2>7. u % nn = v % nn
      BY Zenon, <1>1, <2>5, ModEqual
    <2> QED BY <2>1, <2>6, <2>7
  <1>6. Times(nn, P) = Times(0, P) /\ Times(nn + j, P) = Times(j, P)
    <2>1. nn \in Nat /\ j \in Nat /\ nn + j \in Nat /\ 0 \in Nat
      BY <1>1, <1>2
    <2> QED BY Zenon, <1>5, <2>1, TimesMod
  <1>7. Times(0, P) = O
    BY <1>1, TimesNext
  <1> QED BY <1>3, <1>4, <1>6, <1>7, Order

----------------------------------------------------------------------------
(* The inductive invariant.                                                *)

\* What scalarMultJacobian has done of the product of K and P: c P accumulated in
\* a, m P in D, and i of the bits left.
Done(a, D, i, P, K) ==
  \E c \in 0..nn-1, m \in 1..2*nn-1 :
    c < m /\ c + m * i = K /\ Affine(a) = Times(c, P) /\ Affine(D) = Times(m, P)

U1 == ScalarOf(e, primemod(s, nn))
U2 == ScalarOf(r, primemod(s, nn))

InputsOK == <<X, Y>> \in Points /\ r \in 1..Word-1 /\ s \in 1..Word-1 /\ e \in 0..Word-1

StateOK ==
  /\ B \in Triples /\ acc \in Triples /\ baseMult \in Triples
  /\ k \in 0..nn-1 /\ u2 \in 0..nn-1
  /\ pc \in {"verify", "base", "key", "done"} /\ valid \in BOOLEAN

Multiplying ==
  /\ pc = "verify" => ~valid
  /\ pc \in {"base", "key"} => r < nn /\ s < nn /\ u2 = U2
  /\ pc = "base" => Done(acc, B, k, <<gx, gy>>, U1)
  /\ pc = "key" => Affine(baseMult) = R1 /\ Done(acc, B, k, <<X, Y>>, U2)

IInv == InputsOK /\ StateOK /\ Multiplying /\ AcceptedIsSigned /\ SignedIsAccepted

\* The order is a prime above 2, and the generator is on the curve.
LEMMA OrderType == nn \in Nat /\ 2 < nn /\ nn \in Primes /\ nn \in Moduli /\ <<gx, gy>> \in Points
  BY CurveAssumption DEF Primes, Moduli

\* The scalars of verify, and ECDSA's.
LEMMA Scalar ==
  ASSUME NEW x \in Nat, NEW t \in 1..nn-1, NEW P
  PROVE  /\ ScalarOf(x, primemod(t, nn)) \in 0..nn-1
         /\ Times(ScalarOf(x, primemod(t, nn)), P) = Times(x * Inverse(t, nn), P)
  <1>1. PICK w : w = primemod(t, nn)
    OBVIOUS
  <1>2. w \in 1..nn-1 /\ Inverse(t, nn) = w
    BY <1>1, OrderType, InverseIs
  <1>3. w \in Nat
    BY <1>2, OrderType
  <1>4. PICK v \in Nat : v = x * w
    BY <1>3
  <1>5. PICK u : u = v % nn
    OBVIOUS
  <1>6. u \in 0..nn-1 /\ u \in Int /\ Cong(nn, u, v)
    <2>1. v \in Int
      BY <1>4
    <2> QED BY Zenon, <1>5, <2>1, OrderType, CongMod
  <1>7. u % nn = v % nn /\ u \in Nat
    <2>1. v \in Int /\ nn \in Moduli /\ nn \in Nat
      BY <1>4, OrderType
    <2>2. u % nn = v % nn
      BY Zenon, <1>6, <2>1, ModEqual
    <2>3. u \in Nat
      BY <1>6, <2>1
    <2> QED BY Zenon, <2>2, <2>3
  <1>8. Times(u, P) = Times(v, P)
    BY <1>7, TimesMod
  <1> QED BY <1>1, <1>2, <1>4, <1>5, <1>6, <1>8 DEF ScalarOf

\* scalarMultJacobian, before its loop, ...
LEMMA DoneFirst ==
  ASSUME NEW x, NEW y, <<x, y>> \in Points, NEW K \in 0..nn-1
  PROVE  <<x, y, 1>> \in Triples /\ Infinity \in Triples /\ Done(Infinity, <<x, y, 1>>, K, <<x, y>>, K)
  <1>1. PICK P : P = <<x, y>>
    OBVIOUS
  <1>2. P \in Points /\ P \in Group /\ x \in Field /\ y \in Field /\ x \in Int /\ y \in Int
    BY <1>1, PointType, GroupLaws
  <1>3. 0 \in Field /\ 1 \in Field
    BY FieldType DEF Field
  <1>4. <<x, y, 1>> \in Triples /\ Infinity \in Triples
    BY <1>2, <1>3 DEF Triples, Infinity
  <1>5. Affine(<<x, y, 1>>) = Times(1, P)
    <2>1. PICK D \in Triples : D = <<x, y, 1>>
      BY <1>4
    <2>2. D[1] = x /\ D[2] = y /\ D[3] = 1
      BY <2>1
    <2>3. x * (1 * 1) = x /\ y * (1 * 1 * 1) = y
      BY <1>2
    <2>4. Is(x, x) /\ Is(y, y)
      BY <1>2, IsSelf
    <2>5. Rep(D, x, y)
      BY <2>2, <2>3, <2>4 DEF Rep
    <2>6. Affine(D) = <<x, y>>
      BY <1>2, <2>5, AffineIs
    <2> QED BY <1>1, <1>2, <2>1, <2>6, TimesOne
  <1>6. Affine(Infinity) = Times(0, P)
    <2>1. Infinity[3] = 0
      BY DEF Infinity
    <2> QED BY <1>2, <1>4, <2>1, AffineO, TimesNext
  <1>7. 0 \in 0..nn-1 /\ 1 \in 1..2*nn-1 /\ 0 < 1 /\ 0 + 1 * K = K
    BY OrderType
  <1> QED BY Zenon, <1>1, <1>4, <1>5, <1>6, <1>7 DEF Done

\* ... at a bit of k, ...
LEMMA DoneNext ==
  ASSUME NEW a \in Triples, NEW D \in Triples, NEW i \in 1..nn-1, NEW P \in Points,
         NEW K \in 0..nn-1, Done(a, D, i, P, K)
  PROVE  /\ modifiedJacobianDouble(D) \in Triples
         /\ (IF i % 2 = 1 THEN jAdd(D, a) ELSE a) \in Triples
         /\ Done(IF i % 2 = 1 THEN jAdd(D, a) ELSE a, modifiedJacobianDouble(D), i \div 2, P, K)
  <1>1. PICK c \in 0..nn-1, m \in 1..2*nn-1 :
          c < m /\ c + m * i = K /\ Affine(a) = Times(c, P) /\ Affine(D) = Times(m, P)
    BY Zenon DEF Done
  <1>2. c \in Nat /\ m \in Nat /\ P \in Group /\ i \in Nat /\ i > 0 /\ m > 0
    BY OrderType, GroupLaws
  <1>3. Affine(a) \in Group /\ Affine(D) \in Group
    BY <1>1, <1>2, TimesType
  <1>4. PICK D1 : D1 = modifiedJacobianDouble(D)
    BY Zenon
  <1>5. D1 \in Triples /\ Affine(D1) = Times(m + m, P)
    BY <1>1, <1>2, <1>3, <1>4, DoubleAdds, TimesSum
  <1>6. PICK h : h = i \div 2
    OBVIOUS
  <1>7. h \in Nat /\ (i % 2 = 1 => i = 2 * h + 1) /\ (i % 2 # 1 => i = 2 * h)
    BY <1>2, <1>6
  <1>8. PICK mi, mh \in Nat : mi = m * i /\ mh = m * h
    BY <1>2, <1>7
  <1>9. m <= mi
    <2>1. PICK j \in Nat : i = j + 1
      <3>1. i - 1 \in Nat /\ i = (i - 1) + 1
        BY <1>2
      <3> QED BY <3>1
    <2>2. PICK mj \in Nat : mj = m * j
      BY <1>2
    <2>3. mi = mj + m
      BY <1>2, <1>8, <2>1, <2>2
    <2> QED BY <1>2, <2>2, <2>3
  <1>10. c + mi = K /\ m < nn /\ K < nn
    BY <1>1, <1>2, <1>8, <1>9, OrderType
  <1>11. (m + m) * h = mh + mh /\ m + m \in 1..2*nn-1
    BY <1>2, <1>7, <1>8, <1>10, OrderType
  <1>12. CASE i % 2 = 1
    <2>1. PICK J : J = jAdd(D, a)
      OBVIOUS
    <2>2. Affine(D) # Affine(a)
      BY Zenon, <1>1, <1>2, <1>10, Distinct
    <2>3. J \in Triples /\ Affine(J) = Times(m + c, P)
      BY <1>1, <1>2, <1>3, <2>1, <2>2, JAddAdds, TimesSum
    <2>4. mi = mh + mh + m
      BY <1>2, <1>7, <1>8, <1>12
    <2>5. m + c \in 0..nn-1 /\ m + c < m + m /\ (m + c) + (m + m) * h = K
      BY <1>1, <1>2, <1>10, <1>11, <2>4, OrderType
    <2>6. Done(J, D1, h, P, K)
      BY Zenon, <1>5, <1>11, <2>3, <2>5 DEF Done
    <2> QED BY Zenon, <1>4, <1>5, <1>6, <1>12, <2>1, <2>3, <2>6
  <1>13. CASE i % 2 # 1
    <2>1. mi = mh + mh
      BY <1>2, <1>7, <1>8, <1>13
    <2>2. c < m + m /\ c + (m + m) * h = K
      BY <1>1, <1>2, <1>10, <1>11, <2>1
    <2>3. Done(a, D1, h, P, K)
      BY Zenon, <1>1, <1>5, <1>11, <2>2 DEF Done
    <2> QED BY Zenon, <1>4, <1>5, <1>6, <1>13, <2>3
  <1> QED BY <1>12, <1>13

\* ... and after it.
LEMMA DoneLast ==
  ASSUME NEW a, NEW D, NEW P, NEW K \in 0..nn-1, Done(a, D, 0, P, K)
  PROVE  Affine(a) = Times(K, P)
  <1>1. PICK c \in 0..nn-1, m \in 1..2*nn-1 : c + m * 0 = K /\ Affine(a) = Times(c, P)
    BY Zenon DEF Done
  <1>2. c = K
    BY <1>1, OrderType
  <1> QED BY <1>1, <1>2

\* What is left of k times what B stands for is what is missing.
LEMMA DoneSum ==
  ASSUME NEW a, NEW D, NEW i \in 0..nn-1, NEW P \in Points, NEW K \in 0..nn-1, Done(a, D, i, P, K)
  PROVE  AffineAdd(Affine(a), Times(i, Affine(D))) = Times(K, P)
  <1>1. PICK c \in 0..nn-1, m \in 1..2*nn-1 :
          c < m /\ c + m * i = K /\ Affine(a) = Times(c, P) /\ Affine(D) = Times(m, P)
    BY Zenon DEF Done
  <1>2. c \in Nat /\ m \in Nat /\ P \in Group /\ i \in Nat
    BY OrderType, GroupLaws
  <1>3. PICK im \in Nat : im = i * m
    BY <1>2
  <1>4. Times(i, Times(m, P)) = Times(im, P)
    BY <1>2, <1>3, TimesProduct
  <1>5. Times(c + im, P) = AffineAdd(Times(c, P), Times(im, P))
    BY <1>2, TimesSum
  <1>6. c + im = K
    BY <1>1, <1>2, <1>3
  <1> QED BY <1>1, <1>4, <1>5, <1>6

\* The inputs of verify are naturals, r and s positive.
LEMMA InputType ==
  ASSUME InputsOK
  PROVE  /\ <<X, Y>> \in Points /\ r \in Nat /\ r > 0 /\ s \in Nat /\ s > 0 /\ e \in Nat
         /\ s < nn => s \in 1..nn-1
  BY CurveAssumption, OrderType DEF InputsOK

\* The products of the two scalars are the points ECDSA adds.
LEMMA Products ==
  ASSUME InputsOK, s < nn
  PROVE  /\ U1 \in 0..nn-1 /\ R1 = Times(U1, <<gx, gy>>) /\ R1 \in Group
         /\ U2 \in 0..nn-1 /\ R2 = Times(U2, <<X, Y>>) /\ R2 \in Group
  <1>1. U1 \in 0..nn-1 /\ R1 = Times(U1, <<gx, gy>>)
    BY InputType, Scalar DEF U1, R1
  <1>2. U2 \in 0..nn-1 /\ R2 = Times(U2, <<X, Y>>)
    BY InputType, Scalar DEF U2, R2
  <1>3. U1 \in Nat /\ U2 \in Nat /\ <<gx, gy>> \in Group /\ <<X, Y>> \in Group
    BY <1>1, <1>2, OrderType, InputType, GroupLaws
  <1> QED BY <1>1, <1>2, <1>3, TimesType

\* The end of verify.
LEMMA Verdict ==
  ASSUME InputsOK, r < nn, s < nn, NEW P \in Triples, NEW Q \in Triples,
         Affine(P) = R1, Affine(Q) = R2, NEW v, v = CompareX(affineFromJacobian(jAdd(P, Q)))
  PROVE  /\ v \in BOOLEAN
         /\ v => EcdsaVerify
         /\ EcdsaVerify => v \/ R1 = R2 \/ AffineAdd(R1, R2)[1] >= nn
  <1>1. R1 \in Group /\ R2 \in Group
    BY Products
  <1>2. PICK J, S : J = jAdd(P, Q) /\ S = AffineAdd(R1, R2)
    OBVIOUS
  <1>3. J \in Triples /\ Affine(J) = IF R1 = R2 THEN O ELSE S
    BY <1>1, <1>2, JAddAdds
  <1>4. v = (affineFromJacobian(J)[1] = r)
    BY Zenon, <1>2 DEF CompareX
  <1>5. J[3] = 0 => ~v
    <2>1. r # 0
      BY InputType
    <2> QED BY Zenon, <1>4, <2>1 DEF affineFromJacobian
  <1>6. CASE R1 = R2
    BY <1>3, <1>4, <1>5, <1>6, AffineO
  <1>7. CASE R1 # R2 /\ S = O
    BY <1>2, <1>3, <1>4, <1>5, <1>7, AffineO DEF EcdsaVerify
  <1>8. CASE R1 # R2 /\ S # O
    <2>1. affineFromJacobian(J) = S
      BY <1>3, <1>8, AffineO, AffineRep
    <2>2. S[1] \in Field /\ S[1] \in Nat
      <3>1. S \in Points
        BY <1>1, <1>2, <1>8, GroupLaws DEF Group
      <3>2. S[1] \in Field
        BY <3>1, PointType
      <3> QED BY <3>2 DEF Field
    <2>3. S[1] < nn => S[1] % nn = S[1]
      BY <2>2, OrderType
    <2>4. r % nn = r
      BY InputType, OrderType
    <2>5. v = (S[1] = r)
      BY <1>4, <2>1
    <2>6. EcdsaVerify = (S[1] % nn = r)
      BY Zenon, <1>2, <1>8 DEF EcdsaVerify
    <2>7. S[1] < nn \/ S[1] >= nn
      BY <2>2, OrderType
    <2> QED BY Zenon, <1>2, <2>3, <2>4, <2>5, <2>6, <2>7
  <1> QED BY <1>6, <1>7, <1>8

\* No step changes the inputs, nor what ECDSA makes of them.
LEMMA SameInputs ==
  ASSUME UNCHANGED inputs
  PROVE  /\ InputsOK' = InputsOK /\ U1' = U1 /\ U2' = U2 /\ R1' = R1 /\ R2' = R2
         /\ EcdsaVerify' = EcdsaVerify
         /\ <<X, Y>>' = <<X, Y>> /\ r' = r /\ s' = s
  BY DEF inputs, InputsOK, U1, U2, R1, R2, EcdsaVerify

\* The invariant holds when verify is called, ...
LEMMA InitInv == Init => IInv
  <1> SUFFICES ASSUME Init PROVE IInv
    BY Zenon
  <1>1. InputsOK
    <2>1. PICK key \in PublicKeys : X = key[1] /\ Y = key[2]
      BY Zenon DEF Init
    <2>2. key \in Points
      BY Zenon, CurveAssumption
    <2>3. key = <<X, Y>>
      BY <2>1, <2>2, PointType
    <2> QED BY <2>2, <2>3, CurveAssumption DEF Init, InputsOK
  <1>2. StateOK
    <2>1. Infinity \in Triples
      BY FieldType DEF Infinity, Triples, Field
    <2>2. 0 \in 0..nn-1
      BY OrderType
    <2> QED BY Zenon, <2>1, <2>2 DEF Init, StateOK
  <1>3. Multiplying /\ AcceptedIsSigned /\ SignedIsAccepted
    BY DEF Init, Multiplying, AcceptedIsSigned, SignedIsAccepted
  <1> QED BY <1>1, <1>2, <1>3 DEF IInv

\* ... is kept by the range check, ...
LEMMA RefuseStep == IInv /\ Refuse => IInv'
  <1> SUFFICES ASSUME IInv, Refuse PROVE IInv'
    OBVIOUS
  <1>1. UNCHANGED inputs /\ InputsOK
    BY DEF Refuse, IInv
  <1>2. InputsOK' /\ ~EcdsaVerify'
    <2>1. ~EcdsaVerify
      BY <1>1, InputType, OrderType DEF Refuse, OutOfRange, EcdsaVerify
    <2> QED BY <1>1, <2>1, SameInputs
  <1>3. StateOK'
    BY DEF Refuse, IInv, StateOK
  <1>4. ~valid'
    BY DEF Refuse, IInv, Multiplying
  <1>5. Multiplying'
    BY DEF Refuse, Multiplying
  <1> QED BY <1>2, <1>3, <1>4, <1>5 DEF IInv, AcceptedIsSigned, SignedIsAccepted

\* ... by the start of the first product, ...
LEMMA ScalarsStep == IInv /\ Scalars => IInv'
  <1> SUFFICES ASSUME IInv, Scalars PROVE IInv'
    OBVIOUS
  <1>1. UNCHANGED inputs /\ InputsOK /\ StateOK
    BY DEF Scalars, IInv
  <1>2. r < nn /\ s < nn
    BY <1>1, InputType, OrderType DEF Scalars, OutOfRange
  <1>3. U1 \in 0..nn-1 /\ U2 \in 0..nn-1
    BY <1>1, <1>2, Products
  <1>4. B' = <<gx, gy, 1>> /\ acc' = Infinity /\ k' = U1 /\ u2' = U2 /\ pc' = "base" /\ UNCHANGED <<baseMult, valid>>
    BY DEF Scalars, StartMult, U1, U2
  <1>5. B' \in Triples /\ acc' \in Triples /\ Done(acc', B', k', <<gx, gy>>, U1)
    BY <1>3, <1>4, OrderType, DoneFirst
  <1>6. StateOK'
    BY Zenon, <1>1, <1>3, <1>4, <1>5 DEF StateOK
  <1>7. Multiplying'
    BY Zenon, <1>1, <1>2, <1>4, <1>5, SameInputs DEF Multiplying
  <1> QED BY Zenon, <1>1, <1>4, <1>6, <1>7, SameInputs DEF IInv, AcceptedIsSigned, SignedIsAccepted

\* ... at every bit of both products, ...
LEMMA LoopBodyStep == IInv /\ LoopBody => IInv'
  <1> SUFFICES ASSUME IInv, LoopBody PROVE IInv'
    OBVIOUS
  <1>1. UNCHANGED inputs /\ InputsOK /\ StateOK /\ Multiplying /\ pc \in {"base", "key"}
    BY DEF LoopBody, IInv
  <1>2. r < nn /\ s < nn /\ u2 = U2
    BY <1>1 DEF Multiplying
  <1>3. U1 \in 0..nn-1 /\ U2 \in 0..nn-1
    BY <1>1, <1>2, Products
  <1>4. k \in 1..nn-1 /\ B \in Triples /\ acc \in Triples
    BY <1>1, OrderType DEF LoopBody, StateOK
  <1>5. /\ B' = modifiedJacobianDouble(B) /\ acc' = (IF k % 2 = 1 THEN jAdd(B, acc) ELSE acc)
        /\ k' = k \div 2 /\ UNCHANGED <<u2, baseMult, pc, valid>>
    BY DEF LoopBody, AddAndDouble
  <1>6. ASSUME NEW P \in Points, NEW K \in 0..nn-1, Done(acc, B, k, P, K)
        PROVE  B' \in Triples /\ acc' \in Triples /\ Done(acc', B', k', P, K)
    BY Zenon, <1>4, <1>5, <1>6, DoneNext
  <1>7. B' \in Triples /\ acc' \in Triples
    BY Zenon, <1>1, <1>3, <1>6, OrderType, InputType DEF Multiplying
  <1>8. StateOK'
    <2>1. k' \in 0..nn-1
      BY <1>4, <1>5, OrderType
    <2> QED BY <1>1, <1>5, <1>7, <2>1 DEF StateOK
  <1>9. Multiplying'
    <2>1. pc = "base" => Done(acc', B', k', <<gx, gy>>, U1)
      BY Zenon, <1>1, <1>3, <1>6, OrderType DEF Multiplying
    <2>2. pc = "key" => Affine(baseMult) = R1 /\ Done(acc', B', k', <<X, Y>>, U2)
      BY Zenon, <1>1, <1>3, <1>6, InputType DEF Multiplying
    <2> QED BY Zenon, <1>1, <1>2, <1>5, <2>1, <2>2, SameInputs DEF Multiplying
  <1> QED BY Zenon, <1>1, <1>5, <1>8, <1>9, SameInputs DEF IInv, AcceptedIsSigned, SignedIsAccepted

\* ... between them, ...
LEMMA BaseDoneStep == IInv /\ BaseDone => IInv'
  <1> SUFFICES ASSUME IInv, BaseDone PROVE IInv'
    OBVIOUS
  <1>1. UNCHANGED inputs /\ InputsOK /\ StateOK /\ Multiplying /\ pc = "base" /\ k = 0
    BY DEF BaseDone, IInv
  <1>2. r < nn /\ s < nn /\ u2 = U2 /\ Done(acc, B, 0, <<gx, gy>>, U1)
    BY <1>1 DEF Multiplying
  <1>3. U1 \in 0..nn-1 /\ U2 \in 0..nn-1 /\ R1 = Times(U1, <<gx, gy>>)
    BY <1>1, <1>2, Products
  <1>4. Affine(acc) = R1
    BY <1>2, <1>3, DoneLast
  <1>5. B' = <<X, Y, 1>> /\ acc' = Infinity /\ k' = U2 /\ baseMult' = acc /\ pc' = "key" /\ UNCHANGED <<u2, valid>>
    BY Zenon, <1>2 DEF BaseDone, StartMult
  <1>6. B' \in Triples /\ acc' \in Triples /\ Done(acc', B', k', <<X, Y>>, U2)
    BY Zenon, <1>1, <1>3, <1>5, InputType, DoneFirst
  <1>7. StateOK'
    BY Zenon, <1>1, <1>3, <1>5, <1>6 DEF StateOK
  <1>8. Multiplying'
    BY Zenon, <1>1, <1>2, <1>4, <1>5, <1>6, SameInputs DEF Multiplying
  <1> QED BY Zenon, <1>1, <1>5, <1>7, <1>8, SameInputs DEF IInv, AcceptedIsSigned, SignedIsAccepted

\* ... and by the comparison at the end.
LEMMA KeyDoneStep == IInv /\ KeyDone => IInv'
  <1> SUFFICES ASSUME IInv, KeyDone PROVE IInv'
    OBVIOUS
  <1>1. UNCHANGED inputs /\ InputsOK /\ StateOK /\ Multiplying /\ pc = "key" /\ k = 0
    BY DEF KeyDone, IInv
  <1>2. r < nn /\ s < nn /\ Affine(baseMult) = R1 /\ Done(acc, B, 0, <<X, Y>>, U2)
    BY <1>1 DEF Multiplying
  <1>3. U2 \in 0..nn-1 /\ R2 = Times(U2, <<X, Y>>)
    BY <1>1, <1>2, Products
  <1>4. Affine(acc) = R2
    BY <1>2, <1>3, DoneLast
  <1>5. valid' = CompareX(affineFromJacobian(jAdd(baseMult, acc))) /\ pc' = "done" /\ UNCHANGED <<B, acc, k, u2, baseMult>>
    BY DEF KeyDone
  <1>6. baseMult \in Triples /\ acc \in Triples
    BY Zenon, <1>1 DEF StateOK
  <1>7. /\ valid' \in BOOLEAN /\ (valid' => EcdsaVerify)
        /\ EcdsaVerify => valid' \/ R1 = R2 \/ AffineAdd(R1, R2)[1] >= nn
    BY <1>1, <1>2, <1>4, <1>5, <1>6, Verdict
  <1>8. StateOK'
    BY <1>1, <1>5, <1>7 DEF StateOK
  <1>9. Multiplying'
    BY <1>5 DEF Multiplying
  <1> QED BY <1>1, <1>7, <1>8, <1>9, SameInputs DEF IInv, AcceptedIsSigned, SignedIsAccepted

\* Verification in Solidity keeps the invariant, whatever the curve, the key,
\* the signature and the hash.
THEOREM VerifierInvariant == Spec => []IInv
  <1>1. Init => IInv
    BY InitInv
  <1>2. IInv /\ [Next]_vars => IInv'
    <2> SUFFICES ASSUME IInv, [Next]_vars PROVE IInv'
      OBVIOUS
    <2>1. CASE UNCHANGED vars
      <3>1. UNCHANGED inputs /\ UNCHANGED <<B, acc, k, u2, baseMult, pc, valid>>
        BY Zenon, <2>1 DEF vars
      <3>2. StateOK' /\ Multiplying'
        BY Zenon, <3>1, SameInputs DEF IInv, StateOK, Multiplying
      <3> QED BY <3>1, <3>2, SameInputs DEF IInv, AcceptedIsSigned, SignedIsAccepted
    <2> QED BY <2>1, RefuseStep, ScalarsStep, LoopBodyStep, BaseDoneStep, KeyDoneStep DEF Next
  <1> QED BY <1>1, <1>2, PTL DEF Spec

\* Every coordinate is reduced at every step: the subtractions that wrap around
\* at the word size wrap back.
THEOREM CoordinatesReduced == Spec => []TypeOK
  <1>1. IInv => TypeOK
    BY DEF IInv, StateOK, TypeOK, Triples, Field
  <1> QED BY <1>1, VerifierInvariant, PTL

\* The loop of scalarMultJacobian computes the product: what is accumulated plus
\* what is left of k times B, at every bit.
THEOREM DoubleAndAdd == Spec => []LoopInvariant
  <1>1. IInv => LoopInvariant
    <2> SUFFICES ASSUME IInv, pc \in {"base", "key"}
                 PROVE  AffineAdd(Affine(acc), Times(k, Affine(B))) = (IF pc = "base" THEN R1 ELSE R2)
      BY DEF LoopInvariant
    <2>1. InputsOK /\ s < nn /\ k \in 0..nn-1
      BY Zenon DEF IInv, StateOK, Multiplying
    <2>2. CASE pc = "base"
      BY Zenon, <2>1, <2>2, Products, OrderType, DoneSum DEF IInv, Multiplying
    <2>3. CASE pc = "key"
      BY Zenon, <2>1, <2>3, Products, InputType, DoneSum DEF IInv, Multiplying
    <2> QED BY <2>2, <2>3
  <1> QED BY <1>1, VerifierInvariant, PTL

\* verify accepts only what ECDSA accepts.
THEOREM OnlySigned == Spec => []AcceptedIsSigned
  BY VerifierInvariant, PTL DEF IInv

\* What ECDSA accepts, verify accepts, but for equal products and an abscissa of
\* nn or more.
THEOREM SignedAccepted == Spec => []SignedIsAccepted
  BY VerifierInvariant, PTL DEF IInv
=============================================================================
