---------------------- MODULE SessionRegistrationProofs ----------------------
(***************************************************************************)
(* Theorems of SessionPolicies and SessionRegistration for every base,     *)
(* width and set of names, every list of policies and any number of calls. *)
(***************************************************************************)
EXTENDS SessionRegistration, PolicyBuffers, FunctionTheorems, FiniteSetTheorems,
        WellFoundedInduction, TLAPS

(* Numbers. *)

\* A set of numbers that is not empty has a least element.
LEMMA Least ==
  ASSUME NEW T \in SUBSET Nat, T # {}
  PROVE  \E x \in T : \A y \in T : x <= y
<1> DEFINE R == OpToRel(<, Nat)
<1>1. R = {p \in Nat \X Nat : p[1] < p[2]}
  BY DEF OpToRel
<1>2. PICK x \in T : \A y \in T : <<y, x>> \notin R
  <2>1. IsWellFoundedOn(R, Nat)
    BY NatLessThanWellFounded
  <2> HIDE DEF R
  <2> QED
    BY <2>1, WFMin
<1>3. \A y \in T : ~(y < x)
  <2> SUFFICES ASSUME NEW y \in T, y < x
               PROVE  FALSE
    OBVIOUS
  <2>1. <<y, x>> \in Nat \X Nat /\ <<y, x>>[1] < <<y, x>>[2]
    OBVIOUS
  <2> HIDE DEF R
  <2> QED
    BY <1>1, <1>2, <2>1
<1> QED
  BY <1>3

\* A set of numbers up to n that has 0, and with each number the next one, has
\* them all.
LEMMA Induction ==
  ASSUME NEW n \in Nat, NEW T, 0 \in T,
         \A k \in 1..n : k - 1 \in T => k \in T
  PROVE  \A k \in 0..n : k \in T
<1> SUFFICES ASSUME NEW k \in 0..n, k \notin T
             PROVE  FALSE
  OBVIOUS
<1> DEFINE U == {m \in 0..n : m \notin T}
<1>1. U \in SUBSET Nat /\ U # {}
  OBVIOUS
<1>2. PICK x \in U : \A y \in U : x <= y
  <2> HIDE DEF U
  <2> QED
    BY <1>1, Least
<1>3. x \in 1..n /\ x - 1 \in 0..n
  BY <1>2
<1>4. x - 1 \in T
  BY <1>2, <1>3
<1> QED
  BY <1>2, <1>3, <1>4

\* f, in S, starts at start and takes step to each number up to n.
Recursive(f, n, S, start, step) ==
  /\ f \in [0..n -> S]
  /\ f[0] = start
  /\ \A k \in 1..n : f[k] = step[<<f[k - 1], k>>]

\* A value for 0 and a step give a value for every number up to n.
LEMMA Recursion ==
  ASSUME NEW n \in Nat, NEW S, NEW start \in S, NEW step \in [S \X (1..n) -> S]
  PROVE  \E f : Recursive(f, n, S, start, step)
<1> DEFINE Ok(m, f) == f[0] = start /\ \A k \in 1..m : f[k] = step[<<f[k - 1], k>>]
           T == {m \in 0..n : \E f \in [0..m -> S] : Ok(m, f)}
<1>1. 0 \in T
  <2> DEFINE g == [k \in 0..0 |-> start]
  <2>1. g \in [0..0 -> S] /\ Ok(0, g)
    OBVIOUS
  <2> HIDE DEF g
  <2> QED
    BY <2>1
<1>2. ASSUME NEW m \in 1..n, m - 1 \in T
      PROVE  m \in T
  <2>1. PICK f \in [0..(m - 1) -> S] : Ok(m - 1, f)
    BY <1>2
  <2> DEFINE g == [k \in 0..m |-> IF k = m THEN step[<<f[m - 1], m>>] ELSE f[k]]
  <2>2. step[<<f[m - 1], m>>] \in S
    OBVIOUS
  <2>3. g \in [0..m -> S]
    BY <2>2
  <2>4. Ok(m, g)
    <3>1. g[0] = start
      BY <2>1
    <3>2. ASSUME NEW k \in 1..m
          PROVE  g[k] = step[<<g[k - 1], k>>]
      <4>1. k - 1 \in 0..m /\ k - 1 # m /\ g[k - 1] = f[k - 1]
        OBVIOUS
      <4>2. CASE k = m
        BY <4>1, <4>2
      <4>3. CASE k # m
        <5>1. k \in 1..(m - 1)
          BY <4>3
        <5> QED
          BY <5>1, <4>1, <2>1
      <4> QED
        BY <4>2, <4>3
    <3> QED
      BY <3>1, <3>2
  <2> HIDE DEF g
  <2>5. \E h \in [0..m -> S] : Ok(m, h)
    BY <2>3, <2>4, Zenon
  <2>6. m \in 0..n
    OBVIOUS
  <2> QED
    BY <2>5, <2>6, Zenon
<1>3. n \in T
  <2> HIDE DEF T
  <2> QED
    BY <1>1, <1>2, Induction
<1>4. PICK f \in [0..n -> S] : Ok(n, f)
  BY <1>3
<1>5. Recursive(f, n, S, start, step)
  BY <1>4 DEF Recursive
<1> QED
  BY <1>5

\* A digit and what stands before it, by division.
LEMMA Division ==
  ASSUME NEW v \in Nat, NEW x \in 0..(Base - 1)
  PROVE  /\ v * Base + x \in Nat
         /\ (v * Base + x) \div Base = v
         /\ (v * Base + x) % Base = x
BY PolicyAssumption

LEMMA DivisionType ==
  ASSUME NEW v \in Nat
  PROVE  v \div Base \in Nat /\ v % Base \in 0..(Base - 1)
BY PolicyAssumption

(* What Felt::from_hex reads, and format! writes. *)

\* The number that the first digits write.
Value(d) ==
  CHOOSE v : v = [n \in 0..Len(d) |-> IF n = 0 THEN 0 ELSE v[n - 1] * Base + d[n]]


\* The sequences of digits.
Digits == Seq(0..(Base - 1))

LEMMA ValueOfDigits ==
  ASSUME NEW d \in Digits
  PROVE  /\ FromHex(d) = Value(d)[Len(d)]
         /\ Value(d)[0] = 0
         /\ \A n \in 0..Len(d) : Value(d)[n] \in Nat
         /\ \A n \in 1..Len(d) : Value(d)[n] = Value(d)[n - 1] * Base + d[n]
<1> USE PolicyAssumption
<1> DEFINE N == Len(d)
<1>1. N \in Nat /\ \A n \in 1..N : d[n] \in 0..(Base - 1)
  BY DEF Digits
<1> HIDE DEF N
<1> DEFINE step == [p \in Nat \X (1..N) |-> p[1] * Base + d[p[2]]]
<1>2. step \in [Nat \X (1..N) -> Nat]
  BY <1>1
<1>3. \A x \in Nat, n \in 1..N : step[<<x, n>>] = x * Base + d[n]
  OBVIOUS
<1>4. PICK f : Recursive(f, N, Nat, 0, step)
  <2>1. 0 \in Nat /\ N \in Nat
    BY <1>1, <1>2
  <2> HIDE DEF step
  <2> QED
    BY <2>1, <1>2, Recursion
<1> HIDE DEF step
<1>5. f = [n \in 0..N |-> IF n = 0 THEN 0 ELSE f[n - 1] * Base + d[n]]
  <2>1. \A n \in 1..N : f[n - 1] \in Nat
    BY <1>1, <1>4 DEF Recursive
  <2>2. \A n \in 1..N : step[<<f[n - 1], n>>] = f[n - 1] * Base + d[n]
    BY <2>1, <1>3
  <2>3. ASSUME NEW n \in 0..N
        PROVE  f[n] = IF n = 0 THEN 0 ELSE f[n - 1] * Base + d[n]
    <3>1. f[0] = 0
      BY <1>4 DEF Recursive
    <3>2. CASE n # 0
      <4>1. n \in 1..N
        BY <1>1, <3>2
      <4>2. f[n] = step[<<f[n - 1], n>>]
        BY <1>4, <4>1 DEF Recursive
      <4> QED
        BY <2>2, <3>2, <4>1, <4>2
    <3> QED
      BY <3>1, <3>2
  <2>4. f = [n \in 0..N |-> f[n]]
    BY <1>4 DEF Recursive
  <2> QED
    BY <2>3, <2>4
<1>6. Value(d) = [n \in 0..N |->
                   IF n = 0 THEN 0 ELSE Value(d)[n - 1] * Base + d[n]]
  BY <1>5, Zenon DEF Value, N
<1>7. Value(d)[0] = 0
  BY <1>1, <1>6
<1>8. \A n \in 1..N : Value(d)[n] = Value(d)[n - 1] * Base + d[n]
  BY <1>1, <1>6
<1>9. \A n \in 0..N : Value(d)[n] \in Nat
  <2> DEFINE T == {n \in 0..N : Value(d)[n] \in Nat}
  <2>1. 0 \in T
    BY <1>1, <1>7
  <2>2. ASSUME NEW n \in 1..N, n - 1 \in T
        PROVE  n \in T
    <3>1. Value(d)[n - 1] \in Nat /\ d[n] \in 0..(Base - 1)
      BY <1>1, <2>2
    <3>2. Value(d)[n - 1] * Base + d[n] \in Nat
      BY <3>1, Division
    <3> QED
      BY <3>2, <1>8
  <2>3. \A n \in 0..N : n \in T
    <3> HIDE DEF T
    <3> QED
      BY <1>1, <2>1, <2>2, Induction
  <2> QED
    BY <2>3
<1> QED
  BY <1>7, <1>8, <1>9 DEF FromHex, Value, N

LEMMA RestOfNumber ==
  ASSUME NEW felt \in Nat
  PROVE  /\ Rest(felt)[0] = felt
         /\ \A n \in 0..Width : Rest(felt)[n] \in Nat
         /\ \A n \in 1..Width : Rest(felt)[n] = Rest(felt)[n - 1] \div Base
<1> USE PolicyAssumption
<1> DEFINE step == [p \in Nat \X (1..Width) |-> p[1] \div Base]
<1>2. step \in [Nat \X (1..Width) -> Nat]
  OBVIOUS
<1>3. \A x \in Nat, n \in 1..Width : step[<<x, n>>] = x \div Base
  OBVIOUS
<1>4. PICK f : Recursive(f, Width, Nat, felt, step)
  <2>1. felt \in Nat /\ Width \in Nat
    BY <1>2
  <2> HIDE DEF step
  <2> QED
    BY <2>1, <1>2, Recursion
<1> HIDE DEF step
<1>5. f = [n \in 0..Width |-> IF n = 0 THEN felt ELSE f[n - 1] \div Base]
  <2>1. \A n \in 1..Width : f[n - 1] \in Nat
    BY <1>4 DEF Recursive
  <2>2. \A n \in 1..Width : step[<<f[n - 1], n>>] = f[n - 1] \div Base
    BY <2>1, <1>3
  <2>3. ASSUME NEW n \in 0..Width
        PROVE  f[n] = IF n = 0 THEN felt ELSE f[n - 1] \div Base
    <3>1. f[0] = felt
      BY <1>4 DEF Recursive
    <3>2. CASE n # 0
      <4>1. n \in 1..Width
        BY <3>2
      <4>2. f[n] = step[<<f[n - 1], n>>]
        BY <1>4, <4>1 DEF Recursive
      <4> QED
        BY <2>2, <3>2, <4>1, <4>2
    <3> QED
      BY <3>1, <3>2
  <2>4. f = [n \in 0..Width |-> f[n]]
    BY <1>4 DEF Recursive
  <2> QED
    BY <2>3, <2>4
<1>6. Rest(felt) = [n \in 0..Width |-> IF n = 0 THEN felt ELSE Rest(felt)[n - 1] \div Base]
  BY <1>5, Zenon DEF Rest
<1>7. Rest(felt)[0] = felt
  BY <1>6
<1>8. \A n \in 1..Width : Rest(felt)[n] = Rest(felt)[n - 1] \div Base
  BY <1>6
<1>9. \A n \in 0..Width : Rest(felt)[n] \in Nat
  <2> DEFINE T == {n \in 0..Width : Rest(felt)[n] \in Nat}
  <2>1. 0 \in T
    BY <1>7
  <2>2. ASSUME NEW n \in 1..Width, n - 1 \in T
        PROVE  n \in T
    <3>1. Rest(felt)[n - 1] \in Nat
      BY <2>2
    <3>2. Rest(felt)[n - 1] \div Base \in Nat
      BY <3>1, DivisionType
    <3> QED
      BY <3>2, <1>8
  <2>3. \A n \in 0..Width : n \in T
    <3> HIDE DEF T
    <3> QED
      BY <2>1, <2>2, Induction
  <2> QED
    BY <2>3
<1> QED
  BY <1>7, <1>8, <1>9

\* Where the digits of d stand in its padding.
Margin(d) == Width - Len(d)

\* The padding of the number that d writes is d behind zeros.
THEOREM PaddingOfDigits ==
  ASSUME NEW d \in Address
  PROVE  PaddedHex(FromHex(d)) =
           [i \in 1..Width |-> IF i <= Margin(d) THEN 0 ELSE d[i - Margin(d)]]
<1> USE PolicyAssumption
<1>1. d \in Digits /\ Len(d) \in 1..Width /\ \A n \in 1..Len(d) : d[n] \in 0..(Base - 1)
  BY DEF Address, Digits
<1>v. /\ FromHex(d) = Value(d)[Len(d)] /\ Value(d)[0] = 0
      /\ \A n \in 0..Len(d) : Value(d)[n] \in Nat
      /\ \A n \in 1..Len(d) : Value(d)[n] = Value(d)[n - 1] * Base + d[n]
  BY <1>1, ValueOfDigits
<1> DEFINE felt == FromHex(d)
           r == Rest(felt)
           T == {k \in 0..Width : r[k] = IF k <= Len(d) THEN Value(d)[Len(d) - k] ELSE 0}
<1>2. felt \in Nat
  BY <1>1, <1>v
<1>3. /\ r[0] = felt
      /\ \A n \in 1..Width : r[n] = r[n - 1] \div Base
  <2> HIDE DEF felt
  <2> QED
    BY <1>2, RestOfNumber
<1> HIDE DEF r
<1>4. 0 \in T
  BY <1>1, <1>v, <1>3
<1>5. ASSUME NEW k \in 1..Width, k - 1 \in T
      PROVE  k \in T
  <2>1. r[k] = r[k - 1] \div Base
    BY <1>3
  <2>2. CASE k <= Len(d)
    <3> DEFINE n == Len(d) - (k - 1)
    <3>1. n \in 1..Len(d) /\ n - 1 = Len(d) - k
      BY <1>1, <2>2
    <3>2. r[k - 1] = Value(d)[n]
      BY <1>5, <2>2, <1>1
    <3>3. Value(d)[n] = Value(d)[n - 1] * Base + d[n] /\ Value(d)[n - 1] \in Nat
          /\ d[n] \in 0..(Base - 1)
      <4>1. n - 1 \in 0..Len(d)
        BY <3>1, <1>1
      <4> HIDE DEF n
      <4> QED
        BY <3>1, <4>1, <1>1, <1>v
    <3>4. r[k] = Value(d)[n - 1]
      <4> HIDE DEF n
      <4> QED
        <5>1. (Value(d)[n - 1] * Base + d[n]) \div Base = Value(d)[n - 1]
          BY <3>3, Division, Zenon
        <5> QED
          BY <3>2, <3>3, <2>1, <5>1
    <3> QED
      BY <3>1, <3>4, <2>2
  <2>3. CASE k = Len(d) + 1
    <3>1. r[k - 1] = 0
      BY <1>5, <2>3, <1>1, <1>v
    <3> QED
      BY <3>1, <2>1, <2>3, <1>1
  <2>4. CASE k > Len(d) + 1
    <3>1. r[k - 1] = 0
      BY <1>5, <2>4, <1>1
    <3> QED
      BY <3>1, <2>1, <2>4, <1>1
  <2> QED
    BY <2>2, <2>3, <2>4, <1>1
<1>6. \A k \in 0..Width : k \in T
  <2> HIDE DEF T
  <2> QED
    BY <1>4, <1>5, Induction
<1>7. ASSUME NEW i \in 1..Width
      PROVE  r[Width - i] % Base = IF i <= Margin(d) THEN 0 ELSE d[i - Margin(d)]
  <2> DEFINE k == Width - i
  <2>1. k \in 0..Width
    OBVIOUS
  <2>2. r[k] = IF k <= Len(d) THEN Value(d)[Len(d) - k] ELSE 0
    BY <2>1, <1>6
  <2>3. CASE i <= Margin(d)
    <3>1. r[k] = 0
      BY <2>3, <2>2, <1>1, <1>v DEF Margin
    <3> QED
      BY <3>1, <2>3
  <2>4. CASE ~(i <= Margin(d))
    <3> DEFINE n == Len(d) - k
    <3>1. n \in 1..Len(d) /\ n = i - Margin(d) /\ k <= Len(d)
      BY <2>4, <1>1 DEF Margin
    <3>2. r[k] = Value(d)[n - 1] * Base + d[n] /\ Value(d)[n - 1] \in Nat
          /\ d[n] \in 0..(Base - 1)
      <4>1. n - 1 \in 0..Len(d) /\ r[k] = Value(d)[n]
        BY <3>1, <2>2, <1>1
      <4> HIDE DEF n, k
      <4> QED
        BY <3>1, <4>1, <1>1, <1>v
    <3>3. r[k] % Base = d[n]
      <4> HIDE DEF n, k
      <4> QED
        <5>1. (Value(d)[n - 1] * Base + d[n]) % Base = d[n]
          BY <3>2, Division, Zenon
        <5> QED
          BY <3>2, <5>1
    <3> QED
      BY <3>1, <3>3, <2>4
  <2> QED
    BY <2>3, <2>4
<1> QED
  BY <1>7 DEF PaddedHex, r

\* An address has a number.
LEMMA NumberType ==
  ASSUME NEW d \in Address
  PROVE  FromHex(d) \in Nat
<1>1. d \in Digits /\ Len(d) \in 0..Len(d)
  BY DEF Address, Digits
<1> QED
  BY <1>1, ValueOfDigits

\* The paddings.
Hex == [1..Width -> 0..(Base - 1)]

LEMMA HexType ==
  /\ \A felt \in Nat : PaddedHex(felt) \in Hex
  /\ \A a \in Hex : a \in Digits /\ a \in Address /\ Len(a) = Width
<1> USE PolicyAssumption
<1>1. ASSUME NEW felt \in Nat
      PROVE  PaddedHex(felt) \in Hex
  <2>1. \A i \in 1..Width : Rest(felt)[Width - i] % Base \in 0..(Base - 1)
    <3> SUFFICES ASSUME NEW i \in 1..Width
                 PROVE  Rest(felt)[Width - i] % Base \in 0..(Base - 1)
      OBVIOUS
    <3>1. Rest(felt)[Width - i] \in Nat
      BY RestOfNumber
    <3> QED
      BY <3>1, DivisionType
  <2> QED
    BY <2>1 DEF PaddedHex, Hex
<1>2. ASSUME NEW a \in Hex
      PROVE  a \in Digits /\ a \in Address /\ Len(a) = Width
  BY DEF Hex, Digits, Address
<1> QED
  BY <1>1, <1>2

\* An address and its padding write the same number.
THEOREM PaddingKeepsTheNumber ==
  ASSUME NEW d \in Address
  PROVE  FromHex(PaddedHex(FromHex(d))) = FromHex(d)
<1> USE PolicyAssumption
<1> DEFINE p == PaddedHex(FromHex(d))
           gap == Margin(d)
<1>1. d \in Digits /\ Len(d) \in 1..Width /\ \A n \in 1..Len(d) : d[n] \in 0..(Base - 1)
  BY DEF Address, Digits
<1>2. /\ FromHex(d) = Value(d)[Len(d)] /\ Value(d)[0] = 0
      /\ \A n \in 0..Len(d) : Value(d)[n] \in Nat
      /\ \A n \in 1..Len(d) : Value(d)[n] = Value(d)[n - 1] * Base + d[n]
  BY <1>1, ValueOfDigits
<1>3. p = [i \in 1..Width |-> IF i <= gap THEN 0 ELSE d[i - gap]]
  BY PaddingOfDigits
<1>4. p \in Digits /\ Len(p) = Width
  <2>1. FromHex(d) \in Nat
    BY <1>1, <1>2
  <2>2. p \in Hex
    BY <2>1, HexType
  <2> HIDE DEF p
  <2> QED
    BY <2>2, HexType
<1> HIDE DEF p
<1>5. /\ FromHex(p) = Value(p)[Width] /\ Value(p)[0] = 0
      /\ \A n \in 1..Width : Value(p)[n] = Value(p)[n - 1] * Base + p[n]
  BY <1>4, ValueOfDigits
<1>6. gap \in 0..Width /\ Width - gap = Len(d)
  BY <1>1 DEF Margin
<1> HIDE DEF gap
<1> DEFINE T == {k \in 0..Width : Value(p)[k] = IF k <= gap THEN 0 ELSE Value(d)[k - gap]}
<1>7. 0 \in T
  BY <1>5, <1>6
<1>8. ASSUME NEW k \in 1..Width, k - 1 \in T
      PROVE  k \in T
  <2>1. Value(p)[k] = Value(p)[k - 1] * Base + p[k]
    BY <1>5
  <2>2. CASE k <= gap
    <3>1. Value(p)[k - 1] = 0 /\ p[k] = 0
      BY <1>8, <1>3, <1>6, <2>2
    <3> QED
      BY <3>1, <2>1, <2>2
  <2>3. CASE gap < k
    <3> DEFINE n == k - gap
    <3>1. n \in 1..Len(d) /\ n - 1 = (k - 1) - gap
      BY <1>1, <1>6, <2>3
    <3>2. Value(p)[k - 1] = Value(d)[n - 1]
      <4>1. Value(p)[k - 1] = IF k - 1 <= gap THEN 0 ELSE Value(d)[n - 1]
        BY <1>8, <3>1
      <4>2. k - 1 <= gap => n - 1 = 0
        BY <1>6, <2>3
      <4> HIDE DEF n
      <4> QED
        BY <4>1, <4>2, <1>2
    <3>3. p[k] = d[n]
      BY <1>3, <1>6, <2>3
    <3>4. Value(p)[k] = Value(d)[n]
      <4> HIDE DEF n
      <4> QED
        BY <2>1, <3>1, <3>2, <3>3, <1>2
    <3> QED
      BY <3>4, <1>6, <2>3
  <2> QED
    BY <2>2, <2>3, <1>6
<1>9. \A k \in 0..Width : k \in T
  <2> HIDE DEF T
  <2> QED
    BY <1>7, <1>8, Induction
<1>10. Value(p)[Width] = Value(d)[Len(d)]
  BY <1>1, <1>6, <1>9
<1> QED
  BY <1>2, <1>5, <1>10 DEF p

(* The comparison. *)

\* The order of paddings is strict and total.
LEMMA HexOrder ==
  ASSUME NEW a \in Hex, NEW b \in Hex, NEW c \in Hex
  PROVE  /\ ~HexLess(a, a)
         /\ HexLess(a, b) /\ HexLess(b, c) => HexLess(a, c)
         /\ a = b \/ HexLess(a, b) \/ HexLess(b, a)
<1> USE PolicyAssumption DEF Hex
<1>1. ~HexLess(a, a)
  BY DEF HexLess
<1>2. ASSUME HexLess(a, b), HexLess(b, c)
      PROVE  HexLess(a, c)
  <2>1. PICK i \in 1..Width : a[i] < b[i] /\ \A j \in 1..(i - 1) : a[j] = b[j]
    BY <1>2 DEF HexLess
  <2>2. PICK k \in 1..Width : b[k] < c[k] /\ \A j \in 1..(k - 1) : b[j] = c[j]
    BY <1>2 DEF HexLess
  <2>d. \A x \in 1..Width : a[x] \in Nat /\ b[x] \in Nat /\ c[x] \in Nat
    OBVIOUS
  <2>3. CASE i <= k
    <3>1. b[i] <= c[i]
      <4>1. CASE i = k
        BY <4>1, <2>2, <2>d
      <4>2. CASE i < k
        <5>1. i \in 1..(k - 1)
          BY <4>2
        <5> QED
          BY <5>1, <2>2, <2>d
      <4> QED
        BY <4>1, <4>2, <2>3
    <3>2. \A j \in 1..(i - 1) : a[j] = c[j]
      <4> SUFFICES ASSUME NEW j \in 1..(i - 1)
                   PROVE  a[j] = c[j]
        OBVIOUS
      <4>1. j \in 1..(k - 1)
        BY <2>3
      <4> QED
        BY <4>1, <2>1, <2>2
    <3>3. a[i] < c[i]
      BY <3>1, <2>1, <2>d
    <3> QED
      BY <3>2, <3>3 DEF HexLess
  <2>4. CASE k < i
    <3>1. a[k] < c[k]
      BY <2>1, <2>2, <2>4
    <3>2. \A j \in 1..(k - 1) : a[j] = c[j]
      BY <2>1, <2>2, <2>4
    <3> QED
      BY <3>1, <3>2 DEF HexLess
  <2> QED
    BY <2>3, <2>4
<1>3. ASSUME a # b
      PROVE  HexLess(a, b) \/ HexLess(b, a)
  <2> DEFINE D == {i \in 1..Width : a[i] # b[i]}
  <2>a. \E i \in 1..Width : a[i] # b[i]
    <3> SUFFICES ASSUME \A i \in 1..Width : a[i] = b[i]
                 PROVE  FALSE
      OBVIOUS
    <3>1. a = [i \in 1..Width |-> a[i]] /\ b = [i \in 1..Width |-> b[i]]
      OBVIOUS
    <3> QED
      BY <3>1, <1>3
  <2>1. D # {} /\ D \in SUBSET Nat
    <3>1. \A i \in D : i \in Nat
      OBVIOUS
    <3> QED
      BY <2>a, <3>1
  <2>2. PICK x \in D : \A y \in D : x <= y
    BY <2>1, Least
  <2>3. \A j \in 1..(x - 1) : a[j] = b[j]
    <3> SUFFICES ASSUME NEW j \in 1..(x - 1)
                 PROVE  a[j] = b[j]
      OBVIOUS
    <3>1. j \in 1..Width /\ ~(x <= j)
      OBVIOUS
    <3> QED
      BY <3>1, <2>2
  <2>4. x \in 1..Width /\ a[x] # b[x] /\ a[x] \in Nat /\ b[x] \in Nat
    BY <2>2
  <2>5. a[x] < b[x] \/ b[x] < a[x]
    BY <2>4
  <2>6. \A j \in 1..(x - 1) : b[j] = a[j]
    BY <2>3
  <2>7. CASE a[x] < b[x]
    BY <2>3, <2>4, <2>7, Zenon DEF HexLess
  <2>8. CASE b[x] < a[x]
    BY <2>6, <2>4, <2>8, Zenon DEF HexLess
  <2> QED
    BY <2>5, <2>7, <2>8
<1> QED
  BY <1>1, <1>2, <1>3

\* A greater number stays greater whatever digits follow.
LEMMA Following ==
  ASSUME NEW v \in Nat, NEW w \in Nat, v < w,
         NEW x \in 0..(Base - 1), NEW y \in 0..(Base - 1)
  PROVE  v * Base + x < w * Base + y
<1> USE PolicyAssumption
<1>1. PICK e \in Nat : w = v + 1 + e
  <2>1. w - v - 1 \in Nat /\ w = v + 1 + (w - v - 1)
    OBVIOUS
  <2> QED
    BY <2>1
<1>2. w * Base = v * Base + Base + e * Base
  BY <1>1
<1>3. e * Base \in Nat /\ v * Base \in Nat /\ Base \in Nat
  OBVIOUS
<1>4. x < Base /\ x \in Nat /\ y \in Nat
  OBVIOUS
<1> QED
  BY <1>2, <1>3, <1>4

\* The order of paddings as text is that of their numbers.
THEOREM TextIsNumber ==
  ASSUME NEW a \in Hex, NEW b \in Hex
  PROVE  /\ FromHex(a) \in Nat
         /\ HexLess(a, b) <=> FromHex(a) < FromHex(b)
         /\ a = b <=> FromHex(a) = FromHex(b)
<1> USE PolicyAssumption
<1>1. \A c \in Hex : /\ FromHex(c) = Value(c)[Width] /\ Value(c)[0] = 0
                     /\ \A n \in 0..Width : Value(c)[n] \in Nat
                     /\ \A n \in 1..Width : Value(c)[n] = Value(c)[n - 1] * Base + c[n]
                     /\ \A n \in 1..Width : c[n] \in 0..(Base - 1)
  <2> SUFFICES ASSUME NEW c \in Hex
               PROVE  /\ FromHex(c) = Value(c)[Width] /\ Value(c)[0] = 0
                      /\ \A n \in 0..Width : Value(c)[n] \in Nat
                      /\ \A n \in 1..Width : Value(c)[n] = Value(c)[n - 1] * Base + c[n]
                      /\ \A n \in 1..Width : c[n] \in 0..(Base - 1)
    OBVIOUS
  <2>1. c \in Digits /\ Len(c) = Width
    BY HexType
  <2>2. \A n \in 1..Width : c[n] \in 0..(Base - 1)
    BY DEF Hex
  <2> QED
    BY <2>1, <2>2, ValueOfDigits
<1>2. ASSUME NEW c \in Hex, NEW d \in Hex, HexLess(c, d)
      PROVE  FromHex(c) < FromHex(d)
  <2>1. PICK i \in 1..Width : c[i] < d[i] /\ \A j \in 1..(i - 1) : c[j] = d[j]
    BY <1>2 DEF HexLess
  <2> DEFINE T == {k \in 0..Width : /\ k < i => Value(c)[k] = Value(d)[k]
                                    /\ k >= i => Value(c)[k] < Value(d)[k]}
  <2>2. 0 \in T
    BY <1>1
  <2>3. ASSUME NEW k \in 1..Width, k - 1 \in T
        PROVE  k \in T
    <3>1. /\ Value(c)[k] = Value(c)[k - 1] * Base + c[k]
          /\ Value(d)[k] = Value(d)[k - 1] * Base + d[k]
          /\ Value(c)[k - 1] \in Nat /\ Value(d)[k - 1] \in Nat
          /\ c[k] \in 0..(Base - 1) /\ d[k] \in 0..(Base - 1)
      BY <1>1
    <3>2. CASE k < i
      <4>1. c[k] = d[k] /\ Value(c)[k - 1] = Value(d)[k - 1]
        BY <2>1, <2>3, <3>2
      <4> QED
        BY <3>1, <3>2, <4>1
    <3>3. CASE k = i
      <4>1. c[k] < d[k] /\ Value(c)[k - 1] = Value(d)[k - 1]
        BY <2>1, <2>3, <3>3
      <4> QED
        BY <3>1, <3>3, <4>1
    <3>4. CASE k > i
      <4>1. Value(c)[k - 1] < Value(d)[k - 1]
        BY <2>3, <3>4
      <4>2. Value(c)[k - 1] * Base + c[k] < Value(d)[k - 1] * Base + d[k]
        BY <3>1, <4>1, Following
      <4> QED
        BY <3>1, <3>4, <4>2
    <3> QED
      BY <3>2, <3>3, <3>4
  <2>4. \A k \in 0..Width : k \in T
    <3> HIDE DEF T
    <3> QED
      BY <2>2, <2>3, Induction
  <2>5. Value(c)[Width] < Value(d)[Width]
    BY <2>4
  <2> QED
    BY <2>5, <1>1
<1>3. a = b \/ HexLess(a, b) \/ HexLess(b, a)
  BY HexOrder
<1>4. FromHex(a) \in Nat /\ FromHex(b) \in Nat
  BY <1>1
<1> QED
  BY <1>2, <1>3, <1>4
\* What is sorted.
Canonical == [target : Hex, method : Name]

\* The comparison that sort_by is given is a strict total order: it leaves no
\* tie between different policies, so that the sort's being stable adds
\* nothing, and no two of them in an order of their own.
THEOREM CanonicalOrder ==
  ASSUME NEW p \in Canonical, NEW q \in Canonical, NEW r \in Canonical
  PROVE  /\ ~CanonicalLess(p, p)
         /\ CanonicalLess(p, q) /\ CanonicalLess(q, r) => CanonicalLess(p, r)
         /\ p = q \/ CanonicalLess(p, q) \/ CanonicalLess(q, p)
<1>1. /\ p.target \in Hex /\ q.target \in Hex /\ r.target \in Hex
      /\ p.method \in Nat /\ q.method \in Nat /\ r.method \in Nat
      /\ Fold[p.method] \in Nat /\ Fold[q.method] \in Nat /\ Fold[r.method] \in Nat
  BY PolicyAssumption DEF Canonical
<1>2. p.target = q.target /\ p.method = q.method => p = q
  BY DEF Canonical
<1>3. ~CanonicalLess(p, p)
  BY <1>1, HexOrder DEF CanonicalLess
<1>4. CanonicalLess(p, q) /\ CanonicalLess(q, r) => CanonicalLess(p, r)
  BY <1>1, HexOrder DEF CanonicalLess
<1>5. p = q \/ CanonicalLess(p, q) \/ CanonicalLess(q, p)
  BY <1>1, <1>2, HexOrder DEF CanonicalLess
<1> QED
  BY <1>3, <1>4, <1>5

(* The sort. *)

\* The places that StableSort counts for place i of s.
Before(s, i) ==
  {j \in DOMAIN s : \/ CanonicalLess(s[j], s[i])
                    \/ ~CanonicalLess(s[i], s[j]) /\ j <= i}

\* The place that i goes to.
Rank(s, i) == Cardinality(Before(s, i))

\* Where s has what is not above x.
UpTo(s, x) == {j \in DOMAIN s : ~CanonicalLess(x, s[j])}

\* The lists of length n to be sorted.
Row(n) == [1..n -> Canonical]

\* Places are ranked from 1 to n, no two alike, each once.
LEMMA RankIsAPermutation ==
  ASSUME NEW n \in Nat, NEW s \in Row(n)
  PROVE  /\ \A i \in 1..n : Rank(s, i) \in 1..n
         /\ \A i, j \in 1..n : Rank(s, i) = Rank(s, j) => i = j
         /\ \A k \in 1..n : \E i \in 1..n : Rank(s, i) = k
<1>1. DOMAIN s = 1..n /\ \A i \in 1..n : s[i] \in Canonical
  BY DEF Row
<1>2. IsFiniteSet(1..n) /\ Cardinality(1..n) = n
  BY FS_Interval
<1>3. \A i \in 1..n : /\ Before(s, i) \in SUBSET (1..n)
                      /\ IsFiniteSet(Before(s, i))
                      /\ Rank(s, i) \in 0..n
  <2> SUFFICES ASSUME NEW i \in 1..n
               PROVE  /\ Before(s, i) \in SUBSET (1..n)
                      /\ IsFiniteSet(Before(s, i))
                      /\ Rank(s, i) \in 0..n
    OBVIOUS
  <2>1. Before(s, i) \in SUBSET (1..n)
    BY <1>1 DEF Before
  <2>2. IsFiniteSet(Before(s, i)) /\ Cardinality(Before(s, i)) <= n
    BY <1>2, <2>1, FS_Subset
  <2>3. Cardinality(Before(s, i)) \in Nat
    BY <2>2, FS_CardinalityType
  <2> QED
    BY <2>1, <2>2, <2>3 DEF Rank
<1>4. ASSUME NEW i \in 1..n
      PROVE  i \in Before(s, i)
  BY <1>1, <1>4, CanonicalOrder DEF Before
<1>5. \A i \in 1..n : Rank(s, i) \in 1..n
  <2> SUFFICES ASSUME NEW i \in 1..n
               PROVE  Rank(s, i) # 0
    BY <1>3
  <2> QED
    BY <1>3, <1>4, FS_EmptySet DEF Rank
<1>6. ASSUME NEW i \in 1..n, NEW j \in 1..n,
             CanonicalLess(s[i], s[j]) \/ (s[i] = s[j] /\ i < j)
      PROVE  Rank(s, i) < Rank(s, j)
  <2>1. Before(s, i) \subseteq Before(s, j)
    <3> SUFFICES ASSUME NEW k \in Before(s, i)
                 PROVE  k \in Before(s, j)
      OBVIOUS
    <3>1. k \in 1..n /\ s[k] \in Canonical /\ s[i] \in Canonical /\ s[j] \in Canonical
      BY <1>1 DEF Before
    <3>2. CASE CanonicalLess(s[k], s[i])
      <4>1. CanonicalLess(s[k], s[j])
        BY <1>6, <3>1, <3>2, CanonicalOrder
      <4> QED
        BY <4>1, <3>1, <1>1 DEF Before
    <3>3. CASE ~CanonicalLess(s[k], s[i])
      <4>1. s[k] = s[i] /\ k <= i
        BY <3>1, <3>3, CanonicalOrder DEF Before
      <4>2. CASE CanonicalLess(s[i], s[j])
        BY <4>1, <4>2, <3>1, <1>1 DEF Before
      <4>3. CASE s[i] = s[j] /\ i < j
        <5>1. k <= j
          BY <4>1, <4>3, <3>1
        <5>2. ~CanonicalLess(s[j], s[k])
          BY <4>1, <4>3, <3>1, CanonicalOrder
        <5> QED
          BY <5>1, <5>2, <3>1, <1>1 DEF Before
      <4> QED
        BY <4>2, <4>3, <1>6
    <3> QED
      BY <3>2, <3>3
  <2>2. j \notin Before(s, i)
    <3>1. s[i] \in Canonical /\ s[j] \in Canonical
      BY <1>1
    <3>2. CASE CanonicalLess(s[i], s[j])
      <4>1. ~CanonicalLess(s[j], s[i])
        BY <3>1, <3>2, CanonicalOrder
      <4> QED
        BY <3>2, <4>1 DEF Before
    <3>3. CASE s[i] = s[j] /\ i < j
      <4>1. ~CanonicalLess(s[j], s[i])
        BY <3>1, <3>3, CanonicalOrder
      <4>2. ~(j <= i)
        BY <3>3
      <4> QED
        BY <4>1, <4>2 DEF Before
    <3> QED
      BY <3>2, <3>3, <1>6
  <2>3. Before(s, i) \in SUBSET Before(s, j) /\ Before(s, i) # Before(s, j)
    BY <2>1, <2>2, <1>4
  <2>4. Rank(s, i) <= Rank(s, j) /\ Rank(s, i) # Rank(s, j)
    BY <2>3, <1>3, FS_Subset DEF Rank
  <2> QED
    BY <2>4, <1>5
<1>7. ASSUME NEW i \in 1..n, NEW j \in 1..n, i # j
      PROVE  Rank(s, i) # Rank(s, j)
  <2>1. s[i] \in Canonical /\ s[j] \in Canonical
    BY <1>1
  <2>2. CanonicalLess(s[i], s[j]) \/ CanonicalLess(s[j], s[i]) \/ s[i] = s[j]
    BY <2>1, CanonicalOrder
  <2>3. Rank(s, i) \in Nat /\ Rank(s, j) \in Nat
    BY <1>5
  <2>4. CASE CanonicalLess(s[i], s[j])
    <3>1. Rank(s, i) < Rank(s, j)
      BY <2>4, <1>6
    <3> QED
      BY <3>1, <2>3
  <2>5. CASE CanonicalLess(s[j], s[i])
    <3>1. Rank(s, j) < Rank(s, i)
      BY <2>5, <1>6
    <3> QED
      BY <3>1, <2>3
  <2>6. CASE s[i] = s[j]
    <3>1. i < j \/ j < i
      BY <1>7
    <3>2. Rank(s, i) < Rank(s, j) \/ Rank(s, j) < Rank(s, i)
      BY <3>1, <2>6, <1>6
    <3> QED
      BY <3>2, <2>3
  <2> QED
    BY <2>2, <2>4, <2>5, <2>6
<1>8. \A i, j \in 1..n : Rank(s, i) = Rank(s, j) => i = j
  BY <1>7
<1> DEFINE f == [i \in 1..n |-> Rank(s, i)]
<1>9. f \in Injection(1..n, 1..n)
  <2>1. f \in [1..n -> 1..n]
    BY <1>5
  <2>2. \A a, b \in 1..n : f[a] = f[b] => a = b
    BY <1>8
  <2> QED
    BY <2>1, <2>2, Fun_IsInj
<1>10. f \in Surjection(1..n, 1..n)
  <2> HIDE DEF f
  <2> QED
    BY <1>2, <1>9, FS_Injection
<1>11. \A k \in 1..n : \E i \in 1..n : f[i] = k
  <2> HIDE DEF f
  <2> QED
    BY <1>10, Zenon DEF Surjection
<1>12. \A i \in 1..n : f[i] = Rank(s, i)
  OBVIOUS
<1>13. \A k \in 1..n : \E i \in 1..n : Rank(s, i) = k
  <2> HIDE DEF f
  <2> QED
    BY <1>11, <1>12, Zenon
<1> QED
  BY <1>5, <1>8, <1>13

\* Where the sort takes what it puts at place k.
Place(s, k) == CHOOSE i \in DOMAIN s : Rank(s, i) = k

LEMMA SortByRank ==
  ASSUME NEW s
  PROVE  StableSort(s, CanonicalLess) = [k \in DOMAIN s |-> s[Place(s, k)]]
BY DEF StableSort, Place, Rank, Before

LEMMA PlaceType ==
  ASSUME NEW n \in Nat, NEW s \in Row(n), NEW k \in 1..n
  PROVE  Place(s, k) \in 1..n /\ Rank(s, Place(s, k)) = k /\ s[Place(s, k)] \in Canonical
<1>1. DOMAIN s = 1..n /\ \A i \in 1..n : s[i] \in Canonical
  BY DEF Row
<1>2. \E i \in DOMAIN s : Rank(s, i) = k
  <2>1. \E i \in 1..n : Rank(s, i) = k
    BY RankIsAPermutation
  <2> QED
    BY <2>1, <1>1
<1>3. Place(s, k) \in DOMAIN s /\ Rank(s, Place(s, k)) = k
  BY <1>2, Zenon DEF Place
<1> QED
  BY <1>1, <1>3

\* How many are not above each policy.
SameCounts(s, t) == \A x \in Canonical : Cardinality(UpTo(s, x)) = Cardinality(UpTo(t, x))

\* The rank of a lesser policy is less, in another list of the same counts too.
LEMMA LesserRank ==
  ASSUME NEW n \in Nat, NEW s \in Row(n), NEW t \in Row(n), SameCounts(s, t),
         NEW a \in 1..n, NEW b \in 1..n, CanonicalLess(s[a], t[b])
  PROVE  Rank(s, a) < Rank(t, b)
<1>1. /\ DOMAIN s = 1..n /\ \A i \in 1..n : s[i] \in Canonical
      /\ DOMAIN t = 1..n /\ \A i \in 1..n : t[i] \in Canonical
  BY DEF Row
<1>2. IsFiniteSet(1..n)
  BY FS_Interval
<1> DEFINE S == UpTo(s, s[a])
           T == UpTo(t, s[a])
<1>3. S \in SUBSET (1..n) /\ T \in SUBSET (1..n) /\ Before(t, b) \in SUBSET (1..n)
  BY <1>1 DEF UpTo, Before
<1>4. IsFiniteSet(S) /\ IsFiniteSet(T) /\ IsFiniteSet(Before(t, b))
  <2> HIDE DEF S, T
  <2> QED
    BY <1>2, <1>3, FS_Subset
<1>5. Before(s, a) \subseteq S
  <2> SUFFICES ASSUME NEW j \in Before(s, a)
               PROVE  ~CanonicalLess(s[a], s[j])
    BY DEF UpTo, Before
  <2>1. j \in 1..n /\ s[j] \in Canonical /\ s[a] \in Canonical
    BY <1>1 DEF Before
  <2>2. CASE CanonicalLess(s[j], s[a])
    BY <2>1, <2>2, CanonicalOrder
  <2> QED
    BY <2>2 DEF Before
<1>6. \A j \in T : j \in Before(t, b) /\ j # b
  <2> SUFFICES ASSUME NEW j \in T
               PROVE  j \in Before(t, b) /\ j # b
    OBVIOUS
  <2>1. j \in 1..n /\ t[j] \in Canonical /\ t[b] \in Canonical /\ s[a] \in Canonical
    BY <1>1 DEF UpTo
  <2>2. ~CanonicalLess(s[a], t[j])
    BY DEF UpTo
  <2>3. CanonicalLess(t[j], t[b])
    BY <2>1, <2>2, CanonicalOrder
  <2>4. j # b
    BY <2>2
  <2> QED
    BY <2>1, <2>3, <2>4, <1>1 DEF Before
<1>7. b \in Before(t, b)
  BY <1>1, CanonicalOrder DEF Before
<1> HIDE DEF S, T
<1>8. T \in SUBSET Before(t, b) /\ T # Before(t, b)
  BY <1>6, <1>7
<1>9. Cardinality(T) <= Rank(t, b) /\ Cardinality(T) # Rank(t, b)
  BY <1>4, <1>8, FS_Subset DEF Rank
<1>10. Rank(s, a) <= Cardinality(S)
  BY <1>4, <1>5, FS_Subset DEF Rank
<1>11. Cardinality(S) = Cardinality(T)
  <2>1. s[a] \in Canonical
    BY <1>1
  <2> QED
    BY <2>1 DEF SameCounts, S, T
<1>12. Rank(s, a) \in Nat /\ Rank(t, b) \in Nat /\ Cardinality(T) \in Nat
  <2>1. Rank(s, a) \in 1..n /\ Rank(t, b) \in 1..n
    BY RankIsAPermutation
  <2>2. Cardinality(T) \in Nat
    BY <1>4, FS_CardinalityType
  <2> QED
    BY <2>1, <2>2
<1> QED
  BY <1>9, <1>10, <1>11, <1>12

\* Two lists of the same counts are sorted alike.
LEMMA SortedAlike ==
  ASSUME NEW n \in Nat, NEW s \in Row(n), NEW t \in Row(n), SameCounts(s, t)
  PROVE  StableSort(s, CanonicalLess) = StableSort(t, CanonicalLess)
<1>1. /\ DOMAIN s = 1..n /\ \A i \in 1..n : s[i] \in Canonical
      /\ DOMAIN t = 1..n /\ \A i \in 1..n : t[i] \in Canonical
  BY DEF Row
<1>2. SameCounts(t, s)
  BY DEF SameCounts
<1>3. ASSUME NEW k \in 1..n
      PROVE  s[Place(s, k)] = t[Place(t, k)]
  <2>1. /\ Place(s, k) \in 1..n /\ Rank(s, Place(s, k)) = k
        /\ s[Place(s, k)] \in Canonical
    BY PlaceType
  <2>2. /\ Place(t, k) \in 1..n /\ Rank(t, Place(t, k)) = k
        /\ t[Place(t, k)] \in Canonical
    BY PlaceType
  <2>3. ~CanonicalLess(s[Place(s, k)], t[Place(t, k)])
    BY <2>1, <2>2, LesserRank
  <2>4. ~CanonicalLess(t[Place(t, k)], s[Place(s, k)])
    BY <2>1, <2>2, <1>2, LesserRank
  <2> QED
    BY <2>1, <2>2, <2>3, <2>4, CanonicalOrder
<1>4. [k \in DOMAIN s |-> s[Place(s, k)]] = [k \in DOMAIN t |-> t[Place(t, k)]]
  BY <1>1, <1>3
<1> QED
  BY <1>4, SortByRank

\* Two places of a list trade what they hold.
Swapped(s, i, j) == [s EXCEPT ![i] = s[j], ![j] = s[i]]

LEMMA SwappedCounts ==
  ASSUME NEW n \in Nat, NEW s \in Row(n), NEW i \in 1..n, NEW j \in 1..n
  PROVE  Swapped(s, i, j) \in Row(n) /\ SameCounts(s, Swapped(s, i, j))
<1> DEFINE t == Swapped(s, i, j)
           g == [k \in 1..n |-> IF k = i THEN j ELSE IF k = j THEN i ELSE k]
<1>1. DOMAIN s = 1..n /\ \A k \in 1..n : s[k] \in Canonical
  BY DEF Row
<1>2. t \in Row(n) /\ DOMAIN t = 1..n
  BY <1>1 DEF Row, Swapped
<1>3. /\ \A k \in 1..n : g[k] \in 1..n /\ g[g[k]] = k
      /\ \A k \in 1..n : t[g[k]] = s[k] /\ s[g[k]] = t[k]
  BY <1>1 DEF Row, Swapped
<1> HIDE DEF t, g
<1>4. ASSUME NEW x \in Canonical
      PROVE  Cardinality(UpTo(s, x)) = Cardinality(UpTo(t, x))
  <2> DEFINE S == UpTo(s, x)
             T == UpTo(t, x)
             h == [k \in S |-> g[k]]
  <2>1. S \in SUBSET (1..n) /\ T \in SUBSET (1..n)
    BY <1>1, <1>2 DEF UpTo
  <2>2. \A k \in S : g[k] \in T
    BY <1>1, <1>2, <1>3 DEF UpTo
  <2>3. \A k \in T : g[k] \in S
    BY <1>1, <1>2, <1>3 DEF UpTo
  <2>4. IsFiniteSet(S)
    <3>1. IsFiniteSet(1..n)
      BY FS_Interval
    <3> HIDE DEF S
    <3> QED
      BY <2>1, <3>1, FS_Subset
  <2> HIDE DEF S, T
  <2>5. h \in [S -> T] /\ \A a, b \in S : h[a] = h[b] => a = b
    BY <2>1, <2>2, <1>3
  <2>6. \A k \in T : \E a \in S : h[a] = k
    BY <2>1, <2>3, <1>3
  <2> HIDE DEF h
  <2>7. h \in Bijection(S, T)
    BY <2>5, <2>6, Fun_IsBij
  <2>8. ExistsBijection(S, T)
    BY <2>7 DEF ExistsBijection
  <2>9. Cardinality(T) = Cardinality(S)
    BY <2>4, <2>8, FS_Bijection
  <2> QED
    BY <2>9 DEF S, T
<1> QED
  BY <1>2, <1>4 DEF SameCounts, t

(* The canonical form. *)

\* A list of parsed policies before it is sorted.
Parsed(l) ==
  [i \in DOMAIN l |->
    [target |-> PaddedHex(FromHex(l[i].contract_address)), method |-> l[i].entrypoint]]

\* Two lists are both refused, or come out the same.
Alike(l, m) ==
  /\ Parses(l) <=> Parses(m)
  /\ Parses(l) => Canonicalize(l) = Canonicalize(m)

\* What is listed has a name, and an address unless it is refused.
Readable(S) ==
  \A p \in S : /\ p.entrypoint \in Name
               /\ p.contract_address = NotHex \/ p.contract_address \in Address

LEMMA ParsedType ==
  ASSUME NEW S, Readable(S), NEW l \in Seq(S), Parses(l)
  PROVE  Parsed(l) \in Row(Len(l)) /\ DOMAIN Parsed(l) = 1..Len(l)
<1>1. ASSUME NEW i \in 1..Len(l)
      PROVE  [target |-> PaddedHex(FromHex(l[i].contract_address)),
              method |-> l[i].entrypoint] \in Canonical
  <2>1. l[i] \in S /\ l[i].contract_address # NotHex
    BY DEF Parses
  <2>2. l[i].contract_address \in Address /\ l[i].entrypoint \in Name
    BY <2>1 DEF Readable
  <2>3. FromHex(l[i].contract_address) \in Nat
    BY <2>2, NumberType
  <2>4. PaddedHex(FromHex(l[i].contract_address)) \in Hex
    BY <2>3, HexType
  <2> QED
    BY <2>2, <2>4 DEF Canonical
<1> QED
  BY <1>1 DEF Parsed, Row

\* A policy's place does not show in the canonical list.
THEOREM OrderIgnored ==
  ASSUME NEW S, Readable(S), NEW l \in Seq(S), NEW i \in DOMAIN l, NEW j \in DOMAIN l
  PROVE  /\ Swapped(l, i, j) \in Seq(S)
         /\ Len(Swapped(l, i, j)) = Len(l)
         /\ Alike(l, Swapped(l, i, j))
<1> DEFINE m == Swapped(l, i, j)
           n == Len(l)
<1>1. DOMAIN l = 1..n /\ n \in Nat /\ i \in 1..n /\ j \in 1..n /\ l \in [1..n -> S]
  OBVIOUS
<1>2. m \in [1..n -> S] /\ m \in Seq(S) /\ Len(m) = n
  <2>1. m \in [1..n -> S]
    BY <1>1 DEF Swapped
  <2> QED
    BY <2>1, <1>1
<1>3. m[i] = l[j] /\ m[j] = l[i] /\ \A k \in 1..n : k # i /\ k # j => m[k] = l[k]
  BY <1>1 DEF Swapped
<1>4. Parses(l) <=> Parses(m)
  <2>1. DOMAIN m = 1..n
    BY <1>2
  <2> HIDE DEF m
  <2> QED
    BY <1>1, <1>3, <2>1 DEF Parses
<1>5. ASSUME Parses(l)
      PROVE  Canonicalize(l) = Canonicalize(m)
  <2>1. Parsed(l) \in Row(n) /\ DOMAIN Parsed(l) = 1..n
    BY <1>5, ParsedType
  <2>2. Parsed(m) = Swapped(Parsed(l), i, j)
    <3>1. DOMAIN Parsed(m) = 1..n /\ DOMAIN Swapped(Parsed(l), i, j) = 1..n
      BY <1>2, <2>1 DEF Parsed, Swapped
    <3>2. ASSUME NEW k \in 1..n
          PROVE  Parsed(m)[k] = Swapped(Parsed(l), i, j)[k]
      <4>1. DOMAIN m = 1..n
        BY <1>2
      <4> HIDE DEF m
      <4> QED
        BY <1>1, <1>3, <4>1 DEF Parsed, Swapped
    <3>3. /\ Parsed(m) = [k \in 1..n |-> Parsed(m)[k]]
          /\ Swapped(Parsed(l), i, j) = [k \in 1..n |-> Swapped(Parsed(l), i, j)[k]]
      <4>1. Parsed(m) = [k \in DOMAIN Parsed(m) |-> Parsed(m)[k]]
        BY DEF Parsed
      <4>2. Swapped(Parsed(l), i, j) =
              [k \in DOMAIN Swapped(Parsed(l), i, j) |-> Swapped(Parsed(l), i, j)[k]]
        BY DEF Swapped
      <4> QED
        BY <3>1, <4>1, <4>2
    <3> QED
      BY <3>2, <3>3
  <2>3. Parsed(m) \in Row(n) /\ SameCounts(Parsed(l), Parsed(m))
    BY <1>1, <2>1, <2>2, SwappedCounts
  <2>4. StableSort(Parsed(l), CanonicalLess) = StableSort(Parsed(m), CanonicalLess)
    BY <1>1, <2>1, <2>3, SortedAlike
  <2> QED
    BY <2>4 DEF Canonicalize, Parsed
<1> QED
  BY <1>2, <1>4, <1>5 DEF Alike

\* The canonical list takes each parsed policy from its place.
LEMMA CanonicalPlaces ==
  ASSUME NEW S, Readable(S), NEW l \in Seq(S), Parses(l)
  PROVE  /\ Parsed(l) \in Row(Len(l)) /\ DOMAIN Parsed(l) = 1..Len(l)
         /\ DOMAIN Canonicalize(l) = 1..Len(l)
         /\ \A k \in 1..Len(l) : Canonicalize(l)[k] = Parsed(l)[Place(Parsed(l), k)]
         /\ Canonicalize(l) \in Seq(Canonical)
<1> DEFINE s == Parsed(l)
           n == Len(l)
<1>1. s \in Row(n) /\ DOMAIN s = 1..n /\ n \in Nat
  BY ParsedType
<1>2. Canonicalize(l) = [k \in DOMAIN s |-> s[Place(s, k)]]
  BY SortByRank DEF Canonicalize, Parsed
<1>3. \A k \in 1..n : s[Place(s, k)] \in Canonical
  BY <1>1, PlaceType
<1> HIDE DEF s
<1>4. Canonicalize(l) = [k \in 1..n |-> s[Place(s, k)]]
  BY <1>1, <1>2
<1>5. Canonicalize(l) \in Seq(Canonical)
  BY <1>1, <1>3, <1>4
<1> QED
  BY <1>1, <1>4, <1>5 DEF s

\* No place of the canonical list holds a policy above one that follows.
LEMMA CanonicalAscends ==
  ASSUME NEW S, Readable(S), NEW l \in Seq(S), Parses(l),
         NEW i \in 1..Len(l), NEW j \in 1..Len(l), i < j
  PROVE  ~CanonicalLess(Canonicalize(l)[j], Canonicalize(l)[i])
<1> DEFINE s == Parsed(l)
           n == Len(l)
<1>1. /\ s \in Row(n) /\ n \in Nat
      /\ Canonicalize(l)[i] = s[Place(s, i)] /\ Canonicalize(l)[j] = s[Place(s, j)]
  BY CanonicalPlaces
<1> HIDE DEF s
<1>2. /\ Place(s, i) \in 1..n /\ Rank(s, Place(s, i)) = i
      /\ Place(s, j) \in 1..n /\ Rank(s, Place(s, j)) = j
  BY <1>1, PlaceType
<1>3. SUFFICES ASSUME CanonicalLess(s[Place(s, j)], s[Place(s, i)])
               PROVE  FALSE
  BY <1>1
<1>4. SameCounts(s, s)
  BY DEF SameCounts
<1>5. Rank(s, Place(s, j)) < Rank(s, Place(s, i))
  BY <1>1, <1>2, <1>3, <1>4, LesserRank
<1> QED
  BY <1>2, <1>5

(* Lists of any length. *)

\* The listed policies have the type of Policy, so that all parse.
ListType == listed \in Seq(Policy) /\ Len(listed) <= MaxLength

LEMMA ListTypeInvariant == ListSpec => []ListType
<1>1. ListInit => ListType
  BY ListAssumption DEF ListInit, ListType, ListAssumption
<1>2. ListType /\ [Add \/ Trade]_listed => ListType'
  <2> SUFFICES ASSUME ListType, [Add \/ Trade]_listed
               PROVE  ListType'
    OBVIOUS
  <2>1. CASE Add
    <3>1. PICK p \in Policy : listed' = Append(listed, p) /\ Len(listed) < MaxLength
      BY <2>1 DEF Add
    <3>2. /\ listed' \in Seq(Policy) /\ Len(listed') = Len(listed) + 1
          /\ Len(listed) \in Nat /\ MaxLength \in Nat
      BY <3>1, ListAssumption DEF ListType, ListAssumption
    <3> QED
      BY <3>1, <3>2 DEF ListType
  <2>2. CASE Trade
    <3>1. PICK i, j \in DOMAIN listed :
            listed' = [listed EXCEPT ![i] = listed[j], ![j] = listed[i]]
      BY <2>2 DEF Trade
    <3>2. listed \in [1..Len(listed) -> Policy] /\ Len(listed) \in Nat
          /\ DOMAIN listed = 1..Len(listed)
      BY DEF ListType
    <3>3. listed' \in [1..Len(listed) -> Policy]
      BY <3>1, <3>2
    <3>4. listed' \in Seq(Policy) /\ Len(listed') = Len(listed)
      BY <3>2, <3>3
    <3> QED
      BY <3>4 DEF ListType
  <2>3. CASE UNCHANGED listed
    BY <2>3 DEF ListType
  <2> QED
    BY <2>1, <2>2, <2>3
<1> QED
  BY <1>1, <1>2, PTL DEF ListSpec

LEMMA ListedReadable ==
  /\ Readable(Policy)
  /\ ListType => Parses(listed)
<1>1. Readable(Policy)
  BY ListAssumption DEF ListAssumption, Readable, Policy
<1>2. ASSUME ListType
      PROVE  Parses(listed)
  <2>1. \A i \in DOMAIN listed : listed[i] \in Policy
    BY <1>2 DEF ListType
  <2>2. \A i \in DOMAIN listed : listed[i].contract_address \in Addresses
    BY <2>1 DEF Policy
  <2> QED
    BY <2>2, ListAssumption DEF ListAssumption, Parses
<1> QED
  BY <1>1, <1>2

\* The canonical list is sorted by the numbers of the addresses, then by name,
\* whatever the application lists.
THEOREM SortedCorrect == ListSpec => []CanonicalIsSorted
<1>1. ListType => CanonicalIsSorted
  <2> SUFFICES ASSUME ListType
               PROVE  CanonicalIsSorted
    OBVIOUS
  <2> DEFINE c == Canonicalize(listed)
  <2>1. Readable(Policy) /\ Parses(listed) /\ listed \in Seq(Policy)
    BY ListedReadable DEF ListType
  <2>2. DOMAIN c = 1..Len(listed) /\ c \in Seq(Canonical)
    BY <2>1, CanonicalPlaces
  <2>3. \A i, j \in DOMAIN c : i < j => ~CanonicalLess(c[j], c[i])
    BY <2>1, <2>2, CanonicalAscends
  <2> HIDE DEF c
  <2>4. ASSUME NEW i \in DOMAIN c, NEW j \in DOMAIN c, i < j
        PROVE  \/ FromHex(c[i].target) < FromHex(c[j].target)
               \/ /\ FromHex(c[i].target) = FromHex(c[j].target)
                  /\ \/ Fold[c[i].method] < Fold[c[j].method]
                     \/ /\ Fold[c[i].method] = Fold[c[j].method]
                        /\ c[i].method <= c[j].method
    <3>1. c[i] \in Canonical /\ c[j] \in Canonical
      BY <2>2
    <3>2. c[i] = c[j] \/ CanonicalLess(c[i], c[j])
      BY <2>3, <2>4, <3>1, CanonicalOrder
    <3>3. /\ c[i].target \in Hex /\ c[j].target \in Hex
          /\ c[i].method \in Nat /\ c[j].method \in Nat
      BY <3>1, PolicyAssumption DEF Canonical
    <3>4. CASE c[i] = c[j]
      BY <3>3, <3>4
    <3>5. CASE CanonicalLess(c[i], c[j])
      <4>1. CASE HexLess(c[i].target, c[j].target)
        BY <4>1, <3>3, TextIsNumber
      <4>2. CASE /\ c[i].target = c[j].target
                 /\ \/ Fold[c[i].method] < Fold[c[j].method]
                    \/ /\ Fold[c[i].method] = Fold[c[j].method]
                       /\ c[i].method < c[j].method
        BY <4>2, <3>3
      <4> QED
        BY <3>5, <4>1, <4>2 DEF CanonicalLess
    <3> QED
      BY <3>2, <3>4, <3>5
  <2> QED
    BY <2>4 DEF CanonicalIsSorted, c
<1> QED
  BY <1>1, ListTypeInvariant, PTL

\* Sorting and padding lose no policy and add none.
THEOREM KeepsCorrect == ListSpec => []CanonicalKeepsPolicies
<1>1. ListType => CanonicalKeepsPolicies
  <2> SUFFICES ASSUME ListType
               PROVE  CanonicalKeepsPolicies
    OBVIOUS
  <2> DEFINE c == Canonicalize(listed)
             s == Parsed(listed)
             n == Len(listed)
  <2>1. Readable(Policy) /\ Parses(listed) /\ listed \in Seq(Policy)
    BY ListedReadable DEF ListType
  <2>2. /\ n \in Nat /\ DOMAIN listed = 1..n
        /\ s \in Row(n) /\ DOMAIN s = 1..n /\ DOMAIN c = 1..n
        /\ \A k \in 1..n : c[k] = s[Place(s, k)]
    BY <2>1, CanonicalPlaces
  <2>3. \A i \in 1..n : /\ FromHex(s[i].target) = FromHex(listed[i].contract_address)
                        /\ s[i].method = listed[i].entrypoint
    <3> SUFFICES ASSUME NEW i \in 1..n
                 PROVE  /\ FromHex(s[i].target) = FromHex(listed[i].contract_address)
                        /\ s[i].method = listed[i].entrypoint
      OBVIOUS
    <3>1. listed[i].contract_address \in Address
      <4>1. listed[i] \in Policy
        BY <2>1, <2>2
      <4>2. listed[i].contract_address \in Addresses
        BY <4>1 DEF Policy
      <4> QED
        BY <4>2, ListAssumption DEF ListAssumption
    <3>2. s[i] = [target |-> PaddedHex(FromHex(listed[i].contract_address)),
                  method |-> listed[i].entrypoint]
      BY <2>2 DEF Parsed
    <3> QED
      BY <3>1, <3>2, PaddingKeepsTheNumber
  <2> HIDE DEF s, c
  <2>4. ASSUME NEW value, NEW name
        PROVE  Cardinality({k \in DOMAIN c : FromHex(c[k].target) = value
                                             /\ c[k].method = name})
             = Cardinality({i \in DOMAIN listed :
                              /\ FromHex(listed[i].contract_address) = value
                              /\ listed[i].entrypoint = name})
    <3> DEFINE K == {k \in DOMAIN c : FromHex(c[k].target) = value /\ c[k].method = name}
               I == {i \in DOMAIN listed : /\ FromHex(listed[i].contract_address) = value
                                           /\ listed[i].entrypoint = name}
               h == [k \in K |-> Place(s, k)]
    <3>1. \A k \in K : k \in 1..n /\ Place(s, k) \in I
      BY <2>2, <2>3, PlaceType
    <3>2. \A j, k \in K : Place(s, j) = Place(s, k) => j = k
      <4> SUFFICES ASSUME NEW j \in K, NEW k \in K, Place(s, j) = Place(s, k)
                   PROVE  j = k
        OBVIOUS
      <4>1. Rank(s, Place(s, j)) = j /\ Rank(s, Place(s, k)) = k
        BY <3>1, <2>2, PlaceType
      <4> QED
        BY <4>1
    <3>3. ASSUME NEW i \in I
          PROVE  \E k \in K : Place(s, k) = i
      <4> DEFINE k == Rank(s, i)
      <4>1. i \in 1..n /\ k \in 1..n
        BY <2>2, RankIsAPermutation
      <4>2. Place(s, k) \in 1..n /\ Rank(s, Place(s, k)) = k
        BY <4>1, <2>2, PlaceType
      <4>3. Place(s, k) = i
        BY <4>1, <4>2, <2>2, RankIsAPermutation
      <4>4. k \in K
        BY <4>1, <4>3, <2>2, <2>3
      <4> QED
        BY <4>3, <4>4
    <3>4. IsFiniteSet(K)
      <4>1. IsFiniteSet(1..n) /\ K \in SUBSET (1..n)
        BY <2>2, FS_Interval
      <4> HIDE DEF K
      <4> QED
        BY <4>1, FS_Subset
    <3> HIDE DEF K, I
    <3>5. h \in [K -> I] /\ \A a, b \in K : h[a] = h[b] => a = b
      BY <3>1, <3>2
    <3>6. \A i \in I : \E a \in K : h[a] = i
      BY <3>3
    <3> HIDE DEF h
    <3>7. h \in Bijection(K, I)
      BY <3>5, <3>6, Fun_IsBij
    <3>8. Cardinality(I) = Cardinality(K)
      BY <3>4, <3>7, FS_Bijection DEF ExistsBijection
    <3> QED
      BY <3>8 DEF K, I
  <2> QED
    BY <2>4 DEF CanonicalKeepsPolicies, c
<1> QED
  BY <1>1, ListTypeInvariant, PTL

\* No step that leaves the policies and changes their order changes the
\* canonical list.
THEOREM IgnoresOrderCorrect == ListSpec => CanonicalIgnoresOrder
<1>1. ListType /\ [Add \/ Trade]_listed =>
        [Len(listed') = Len(listed) => Canonicalize(listed)' = Canonicalize(listed)]_listed
  <2> SUFFICES ASSUME ListType, Add \/ Trade, Len(listed') = Len(listed)
               PROVE  Canonicalize(listed)' = Canonicalize(listed)
    OBVIOUS
  <2>1. CASE Add
    <3>1. PICK p \in Policy : listed' = Append(listed, p)
      BY <2>1 DEF Add
    <3>2. Len(listed') = Len(listed) + 1 /\ Len(listed) \in Nat
      BY <3>1 DEF ListType
    <3> QED
      BY <3>2
  <2>2. CASE Trade
    <3>1. PICK i, j \in DOMAIN listed : listed' = Swapped(listed, i, j)
      BY <2>2 DEF Trade, Swapped
    <3>2. Readable(Policy) /\ Parses(listed) /\ listed \in Seq(Policy)
      BY ListedReadable DEF ListType
    <3>3. Alike(listed, Swapped(listed, i, j))
      BY <3>2, OrderIgnored
    <3>4. Canonicalize(listed') = Canonicalize(listed)
      BY <3>1, <3>2, <3>3 DEF Alike
    <3> QED
      BY <3>4
  <2> QED
    BY <2>1, <2>2
<1> QED
  BY <1>1, ListTypeInvariant, PTL DEF ListSpec, CanonicalIgnoresOrder

(* The buffers of the C++ binding. *)

Bytes == Seq(Nat)

\* Two that begin alike, and at each number stay alike, are alike up to n.
LEMMA StayAlike ==
  ASSUME NEW n \in Nat, NEW f, NEW g, f[0] = g[0],
         \A i \in 1..n : f[i - 1] = g[i - 1] => f[i] = g[i]
  PROVE  f[n] = g[n]
<1> DEFINE T == {i \in 0..n : f[i] = g[i]}
<1>1. 0 \in T
  OBVIOUS
<1>2. \A i \in 1..n : i - 1 \in T => i \in T
  OBVIOUS
<1>3. \A i \in 0..n : i \in T
  <2> HIDE DEF T
  <2> QED
    BY <1>1, <1>2, Induction
<1>4. n \in 0..n
  OBVIOUS
<1> QED
  BY <1>3, <1>4, Zenon

\* What is in front, between and behind in joined buffers.
LEMMA Joined ==
  ASSUME NEW a \in Bytes, NEW b \in Bytes
  PROVE  /\ a \o b \in Bytes /\ Len(a \o b) = Len(a) + Len(b) /\ Len(a) \in Nat
         /\ Len(a) > 0 => (a \o b)[Len(a)] = a[Len(a)]
         /\ After(Len(a), a \o b) = b
         /\ a \o <<>> = a /\ <<>> \o a = a /\ <<>> \in Bytes
BY DEF Bytes, After

LEMMA JoinedThree ==
  ASSUME NEW a \in Bytes, NEW b \in Bytes, NEW c \in Bytes
  PROVE  /\ (a \o b) \o c = a \o (b \o c)
         /\ SubSeq((a \o b) \o c, Len(a) + 1, Len(a) + Len(b)) = b
         /\ After(Len(a) + Len(b), (a \o b) \o c) = c
<1>1. /\ (a \o b) \o c = a \o (b \o c)
      /\ SubSeq((a \o b) \o c, Len(a) + 1, Len(a) + Len(b)) = b
  BY DEF Bytes
<1>2. After(Len(a \o b), (a \o b) \o c) = c
  BY Joined, Zenon
<1>3. Len(a \o b) = Len(a) + Len(b)
  BY Joined, Zenon
<1> QED
  BY <1>1, <1>2, <1>3, Zenon

\* What a reader gives.
Gives(r, v, rest) == r = Result(v, rest) /\ r.value = v /\ r.rest = rest

\* What is left of a number after one more of its bytes.
LEMMA ShiftedStep ==
  ASSUME NEW n \in Nat, NEW width \in Nat
  PROVE  /\ Shifted(n, width)[0] = n
         /\ \A k \in 0..width : Shifted(n, width)[k] \in Nat
         /\ \A k \in 1..width : Shifted(n, width)[k] = Shifted(n, width)[k - 1] \div 256
<1> DEFINE step == [p \in Nat \X (1..width) |-> p[1] \div 256]
<1>1. step \in [Nat \X (1..width) -> Nat]
  OBVIOUS
<1>2. \A x \in Nat, k \in 1..width : step[<<x, k>>] = x \div 256
  OBVIOUS
<1>3. PICK f : Recursive(f, width, Nat, n, step)
  <2> HIDE DEF step
  <2> QED
    BY <1>1, Recursion
<1> HIDE DEF step
<1>4. f = [k \in 0..width |-> IF k = 0 THEN n ELSE f[k - 1] \div 256]
  <2>1. f = [k \in 0..width |-> f[k]] /\ f[0] = n
    BY <1>3 DEF Recursive
  <2>2. ASSUME NEW k \in 1..width
        PROVE  f[k] = f[k - 1] \div 256
    <3>1. f[k - 1] \in Nat /\ f[k] = step[<<f[k - 1], k>>]
      BY <1>3 DEF Recursive
    <3> QED
      BY <1>2, <3>1
  <2>3. \A k \in 0..width : k = 0 \/ (k \in 1..width /\ k # 0)
    OBVIOUS
  <2>4. \A k \in 0..width : f[k] = IF k = 0 THEN n ELSE f[k - 1] \div 256
    BY <2>1, <2>2, <2>3, Zenon
  <2> QED
    BY <2>1, <2>4, Zenon
<1> DEFINE rest == Shifted(n, width)
<1>5. rest = [k \in 0..width |-> IF k = 0 THEN n ELSE rest[k - 1] \div 256]
  BY <1>4, Zenon DEF Shifted
<1> HIDE DEF rest
<1>6. rest[0] = n /\ \A k \in 1..width : rest[k] = rest[k - 1] \div 256
  BY <1>5
<1>7. \A k \in 0..width : rest[k] \in Nat
  <2> DEFINE T == {k \in 0..width : rest[k] \in Nat}
  <2>1. 0 \in T
    BY <1>6
  <2>2. \A k \in 1..width : k - 1 \in T => k \in T
    BY <1>6
  <2>3. \A k \in 0..width : k \in T
    <3> HIDE DEF T
    <3> QED
      BY <2>1, <2>2, Induction
  <2> QED
    BY <2>3
<1> QED
  BY <1>6, <1>7 DEF rest

\* An integer is its width of bytes, and is read back from before any others,
\* if nothing is left of it after them.
LEMMA IntegerBytes ==
  ASSUME NEW n \in Nat, NEW width \in Nat \ {0}, Shifted(n, width)[width] = 0,
         NEW more \in Bytes
  PROVE  /\ WriteInteger(n, width) \in Bytes /\ Len(WriteInteger(n, width)) = width
         /\ ReadInteger(WriteInteger(n, width) \o more, width) = Result(n, more)
<1> DEFINE b == WriteInteger(n, width)
           rest == Shifted(n, width)
           whole == b \o more
<1>1. /\ rest[0] = n /\ rest[width] = 0
      /\ \A k \in 0..width : rest[k] \in Nat
      /\ \A k \in 1..width : rest[k] = rest[k - 1] \div 256
  <2>1. width \in Nat
    OBVIOUS
  <2>2. rest[0] = n
    BY <2>1, ShiftedStep, Zenon
  <2>3. \A k \in 0..width : rest[k] \in Nat
    BY <2>1, ShiftedStep, Zenon
  <2>4. \A k \in 1..width : rest[k] = rest[k - 1] \div 256
    <3> HIDE DEF rest
    <3>1. ASSUME NEW k \in 1..width
          PROVE  Shifted(n, width)[k] = Shifted(n, width)[k - 1] \div 256
      BY <2>1, ShiftedStep
    <3> QED
      BY <3>1 DEF rest
  <2> QED
    BY <2>2, <2>3, <2>4, Zenon
<1>2. b = [i \in 1..width |-> rest[width - i] % 256]
  BY Zenon DEF WriteInteger
<1> HIDE DEF b, rest
<1>3. \A i \in 1..width : rest[width - i] % 256 \in Nat
  BY <1>1
<1>4. b \in Bytes /\ Len(b) = width /\ \A i \in 1..width : b[i] = rest[width - i] % 256
  BY <1>2, <1>3 DEF Bytes
<1>5. After(width, whole) = more
  <2> HIDE DEF whole
  <2>0. b \in Bytes
    BY <1>4
  <2>1. After(Len(b), whole) = more
    BY <2>0, Joined, Zenon DEF whole
  <2> QED
    BY <1>4, <2>1, Zenon
<1>6. \A i \in 1..width : whole[i] = rest[width - i] % 256
  BY <1>4 DEF Bytes
<1> HIDE DEF whole
<1> DEFINE f == [i \in 0..width |-> rest[width - i]]
           v == CHOOSE g : g = [i \in 0..width |->
                     IF i = 0 THEN 0 ELSE g[i - 1] * 256 + whole[i]]
<1>7. f = [i \in 0..width |-> IF i = 0 THEN 0 ELSE f[i - 1] * 256 + whole[i]]
  <2> SUFFICES ASSUME NEW i \in 0..width
               PROVE  f[i] = IF i = 0 THEN 0 ELSE f[i - 1] * 256 + whole[i]
    OBVIOUS
  <2>1. CASE i = 0
    BY <1>1, <2>1
  <2>2. CASE i # 0
    <3>1. i \in 1..width /\ width - i + 1 \in 1..width /\ i - 1 \in 0..width
          /\ width - (i - 1) = width - i + 1 /\ (width - i + 1) - 1 = width - i
          /\ width - i \in 0..width
      BY <2>2
    <3>2. rest[width - i + 1] = rest[width - i] \div 256 /\ rest[width - i] \in Nat
      BY <1>1, <3>1
    <3>3. f[i - 1] = rest[width - i] \div 256 /\ f[i] = rest[width - i]
      BY <3>1, <3>2
    <3>4. \A x \in Nat : (x \div 256) * 256 + (x % 256) = x
      OBVIOUS
    <3>5. whole[i] = rest[width - i] % 256
      BY <1>6, <3>1
    <3> HIDE DEF f
    <3> QED
      BY <2>2, <3>2, <3>3, <3>4, <3>5
  <2> QED
    BY <2>1, <2>2
<1>8. f[width] = n
  BY <1>1
<1> HIDE DEF f
<1>9. v = [i \in 0..width |-> IF i = 0 THEN 0 ELSE v[i - 1] * 256 + whole[i]]
  <2> HIDE DEF f, whole
  <2> DEFINE shift(x, i) == x * 256 + whole[i]
  <2>1. f = [i \in 0..width |-> IF i = 0 THEN 0 ELSE shift(f[i - 1], i)]
    BY <1>7
  <2> HIDE DEF shift
  <2>2. \E g : g = [i \in 0..width |-> IF i = 0 THEN 0 ELSE shift(g[i - 1], i)]
    BY <2>1, Zenon
  <2>3. \E g : g = [i \in 0..width |-> IF i = 0 THEN 0 ELSE g[i - 1] * 256 + whole[i]]
    BY <2>2 DEF shift
  <2> QED
    BY <2>3, Zenon
<1>10. ReadInteger(whole, width) = Result(v[width], After(width, whole))
  BY Zenon DEF ReadInteger
<1> HIDE DEF v
<1>11. f[width] = v[width]
  <2>1. f[0] = v[0]
    <3>1. 0 \in 0..width
      OBVIOUS
    <3>2. f[0] = 0
      BY <1>7, <3>1
    <3>3. v[0] = 0
      BY <1>9, <3>1
    <3> QED
      BY <3>2, <3>3
  <2>2. ASSUME NEW i \in 1..width, f[i - 1] = v[i - 1]
        PROVE  f[i] = v[i]
    <3>1. i \in 0..width /\ i # 0
      OBVIOUS
    <3>2. f[i] = f[i - 1] * 256 + whole[i]
      BY <1>7, <3>1
    <3>3. v[i] = v[i - 1] * 256 + whole[i]
      BY <1>9, <3>1
    <3> QED
      BY <2>2, <3>2, <3>3, Zenon
  <2> QED
    BY <2>1, <2>2, StayAlike, Zenon
<1> QED
  BY <1>4, <1>5, <1>8, <1>10, <1>11, Zenon DEF b, whole

\* What an int32_t and a uint64_t can say, of what is not negative, and what is
\* short enough to be counted by an int32_t.
Int32 == {n \in Nat : n <= MaxInt32}
Text == {s \in Bytes : Len(s) \in Int32}
Counted(S) == {s \in Seq(S) : Len(s) \in Int32}

MaxUInt64 == 18446744073709551615
UInt64 == {n \in Nat : n <= MaxUInt64}

LEMMA CountedType ==
  /\ \A s \in Text : s \in Bytes /\ Len(s) \in Int32
  /\ \A S : \A s \in Counted(S) : s \in Seq(S) /\ Len(s) \in Int32
BY DEF Text, Counted

\* Nothing is left of an int32_t after four bytes, nor of a uint64_t after eight.
LEMMA FourBytes ==
  ASSUME NEW n \in Int32
  PROVE  n \in Nat /\ 4 \in Nat \ {0} /\ Shifted(n, 4)[4] = 0
<1>1. n \in Nat /\ 4 \in Nat \ {0} /\ 4 \in Nat /\ n <= MaxInt32
  BY DEF Int32
<1> DEFINE r == Shifted(n, 4)
<1>2. r[0] = n /\ \A k \in 1..4 : r[k] = r[k - 1] \div 256
  BY <1>1, ShiftedStep
<1> HIDE DEF r
<1>3. /\ r[1] = r[0] \div 256 /\ r[2] = r[1] \div 256
      /\ r[3] = r[2] \div 256 /\ r[4] = r[3] \div 256
  BY <1>2
<1>4. r[4] = 0
  BY <1>1, <1>2, <1>3, SMT DEF MaxInt32
<1> QED
  BY <1>1, <1>4 DEF r

LEMMA EightBytes ==
  ASSUME NEW n \in UInt64
  PROVE  n \in Nat /\ 8 \in Nat \ {0} /\ Shifted(n, 8)[8] = 0
<1>1. n \in Nat /\ 8 \in Nat \ {0} /\ 8 \in Nat /\ n <= MaxUInt64
  BY DEF UInt64
<1> DEFINE r == Shifted(n, 8)
<1>2. r[0] = n /\ \A k \in 1..8 : r[k] = r[k - 1] \div 256
  BY <1>1, ShiftedStep
<1> HIDE DEF r
<1>3. r[1] \in Nat /\ r[1] <= 72057594037927935
  <2>1. r[1] = r[0] \div 256
    BY <1>2
  <2> QED
    BY <1>1, <1>2, <2>1, SMT DEF MaxUInt64
<1>4. r[2] \in Nat /\ r[2] <= 281474976710655
  <2>1. r[2] = r[1] \div 256
    BY <1>2
  <2> QED
    BY <1>3, <2>1, SMT
<1>5. r[3] \in Nat /\ r[3] <= 1099511627775
  <2>1. r[3] = r[2] \div 256
    BY <1>2
  <2> QED
    BY <1>4, <2>1, SMT
<1>6. r[4] \in Nat /\ r[4] <= 4294967295
  <2>1. r[4] = r[3] \div 256
    BY <1>2
  <2> QED
    BY <1>5, <2>1, SMT
<1>7. r[5] \in Nat /\ r[5] <= 16777215
  <2>1. r[5] = r[4] \div 256
    BY <1>2
  <2> QED
    BY <1>6, <2>1, SMT
<1>8. r[6] \in Nat /\ r[6] <= 65535
  <2>1. r[6] = r[5] \div 256
    BY <1>2
  <2> QED
    BY <1>7, <2>1, SMT
<1>9. r[7] \in Nat /\ r[7] <= 255
  <2>1. r[7] = r[6] \div 256
    BY <1>2
  <2> QED
    BY <1>8, <2>1, SMT
<1>10. r[8] = 0
  BY <1>2, <1>9
<1> QED
  BY <1>1, <1>10, SMT DEF r

\* A buffer of the size that its bytes have holds just those.
LEMMA LowerAll ==
  ASSUME NEW b \in Bytes, NEW size, size = Len(b)
  PROVE  Lower(b, size) = b
<1>1. \A i \in 1..Len(b) : (IF i <= Len(b) THEN b[i] ELSE 0) = b[i]
  OBVIOUS
<1>2. b = [i \in 1..Len(b) |-> b[i]]
  BY DEF Bytes
<1> QED
  BY <1>1, <1>2 DEF Lower

\* A string takes the bytes that are counted for it, and is read back.
LEMMA StringBytes ==
  ASSUME NEW s \in Text
  PROVE  /\ WriteString(s) \in Bytes /\ Len(WriteString(s)) = SizeString(s)
         /\ SizeString(s) \in Nat
         /\ \A more \in Bytes : Gives(ReadString(WriteString(s) \o more), s, more)
<1>0. s \in Bytes /\ Len(s) \in Int32
  BY CountedType
<1>1. Len(s) \in Nat /\ 4 + Len(s) \in Nat
  BY <1>0 DEF Bytes
<1>2. PICK head : head = WriteInteger(Len(s), 4)
  OBVIOUS
<1>3. /\ head \in Bytes /\ Len(head) = 4
      /\ \A m \in Bytes : ReadInteger(head \o m, 4) = Result(Len(s), m)
  BY <1>0, <1>2, FourBytes, IntegerBytes, Zenon
<1>4. ASSUME NEW more \in Bytes
      PROVE  Gives(ReadString((head \o s) \o more), s, more)
  <2> DEFINE b == (head \o s) \o more
  <2>1. s \o more \in Bytes
    BY <1>0, Joined, Zenon
  <2>2. b = head \o (s \o more)
    BY <1>0, <1>3, JoinedThree, Zenon
  <2>3. ReadInteger(b, 4) = Result(Len(s), s \o more)
    BY <1>3, <2>1, <2>2, Zenon
  <2>4. ReadInteger(b, 4).value = Len(s)
    BY <2>3 DEF Result
  <2>5. SubSeq(b, Len(head) + 1, Len(head) + Len(s)) = s
        /\ After(Len(head) + Len(s), b) = more
    <3>1. head \in Bytes
      BY <1>3
    <3>2. SubSeq(b, Len(head) + 1, Len(head) + Len(s)) = s
      BY <1>0, <3>1, JoinedThree
    <3>3. After(Len(head) + Len(s), b) = more
      BY <1>0, <3>1, JoinedThree
    <3> QED
      BY <3>2, <3>3
  <2>6. 4 + 1 = 5
    OBVIOUS
  <2>7. SubSeq(b, 5, 4 + Len(s)) = s /\ After(4 + Len(s), b) = more
    BY <1>3, <2>5, <2>6, Zenon
  <2>8. ReadString(b) = Result(s, more)
    BY <2>4, <2>7, Zenon DEF ReadString
  <2> HIDE DEF b
  <2>9. Gives(ReadString(b), s, more)
    BY <2>8 DEF Gives, Result
  <2> QED
    BY <2>9 DEF b
<1>5. head \o s \in Bytes /\ Len(head \o s) = 4 + Len(s)
  <2>1. head \o s \in Bytes /\ Len(head \o s) = Len(head) + Len(s)
    BY <1>0, <1>3, Joined, Zenon
  <2> QED
    BY <1>3, <2>1, Zenon
<1> QED
  BY <1>1, <1>2, <1>4, <1>5, Zenon DEF WriteString, SizeString

\* The sum of no sizes, and of one more.
LEMMA TotalStep ==
  ASSUME NEW n \in Nat, NEW sizes \in [1..n -> Nat]
  PROVE  \E sum : /\ sum \in [0..n -> Nat] /\ sum[0] = 0 /\ sum[n] = Total(sizes)
                  /\ \A i \in 1..n : sum[i] = sum[i - 1] + sizes[i]
<1> DEFINE step == [p \in Nat \X (1..n) |-> p[1] + sizes[p[2]]]
<1>1. step \in [Nat \X (1..n) -> Nat]
  OBVIOUS
<1>2. \A x \in Nat, i \in 1..n : step[<<x, i>>] = x + sizes[i]
  OBVIOUS
<1>3. Len(sizes) = n /\ 0 \in Nat
  OBVIOUS
<1>4. PICK f : Recursive(f, n, Nat, 0, step)
  <2> HIDE DEF step
  <2> QED
    BY <1>1, <1>3, Recursion
<1> HIDE DEF step
<1>5. /\ f \in [0..n -> Nat] /\ f[0] = 0
      /\ \A i \in 1..n : f[i] = f[i - 1] + sizes[i]
  <2>1. f \in [0..n -> Nat] /\ f[0] = 0 /\ \A i \in 1..n : f[i] = step[<<f[i - 1], i>>]
    BY <1>4 DEF Recursive
  <2>2. ASSUME NEW i \in 1..n
        PROVE  f[i] = f[i - 1] + sizes[i]
    <3>1. i - 1 \in 0..n
      OBVIOUS
    <3>2. f[i - 1] \in Nat
      BY <2>1, <3>1
    <3> QED
      BY <2>1, <3>2, <1>2
  <2> QED
    BY <2>1, <2>2
<1> DEFINE Sum == CHOOSE sum : sum = [i \in 0..Len(sizes) |->
                                       IF i = 0 THEN 0 ELSE sum[i - 1] + sizes[i]]
<1>6. f = [i \in 0..n |-> IF i = 0 THEN 0 ELSE f[i - 1] + sizes[i]]
  <2>1. f = [i \in 0..n |-> f[i]]
    BY <1>5
  <2>2. ASSUME NEW i \in 0..n
        PROVE  f[i] = IF i = 0 THEN 0 ELSE f[i - 1] + sizes[i]
    <3>1. CASE i # 0
      <4>1. i \in 1..n
        BY <3>1
      <4> QED
        BY <3>1, <4>1, <1>5
    <3> QED
      BY <3>1, <1>5
  <2> QED
    BY <2>1, <2>2
<1>7. Sum = [i \in 0..n |-> IF i = 0 THEN 0 ELSE Sum[i - 1] + sizes[i]]
  BY <1>3, <1>6, Zenon
<1>8. Total(sizes) = Sum[n]
  BY <1>3, Zenon DEF Total
<1> HIDE DEF Sum
<1>9. Sum[0] = 0 /\ \A i \in 1..n : Sum[i] = Sum[i - 1] + sizes[i]
  BY <1>7
<1>10. \A i \in 0..n : Sum[i] \in Nat
  <2> DEFINE T == {i \in 0..n : Sum[i] \in Nat}
  <2>1. 0 \in T
    BY <1>9
  <2>2. \A i \in 1..n : i - 1 \in T => i \in T
    BY <1>9
  <2>3. \A i \in 0..n : i \in T
    <3> HIDE DEF T
    <3> QED
      BY <2>1, <2>2, Induction
  <2> QED
    BY <2>3
<1>11. Sum \in [0..n -> Nat]
  BY <1>7, <1>10
<1> QED
  BY <1>8, <1>9, <1>11

\* The rows up to each number, joined, are those before it and the row itself.
LEMMA FlattenStep ==
  ASSUME NEW n \in Nat, NEW rows \in [1..n -> Bytes]
  PROVE  \E flat : /\ flat \in [0..n -> Bytes] /\ flat[0] = <<>>
                   /\ flat[n] = FlattenSeq(rows)
                   /\ \A i \in 1..n : flat[i] = flat[i - 1] \o rows[i]
<1>1. Len(rows) = n /\ <<>> \in Bytes /\ (n = 0 => rows = <<>>)
  BY DEF Bytes
<1> DEFINE step == [p \in Bytes \X (1..n) |-> p[1] \o rows[p[2]]]
<1>2. step \in [Bytes \X (1..n) -> Bytes]
  <2>1. \A p \in Bytes \X (1..n) : p[1] \in Bytes /\ rows[p[2]] \in Bytes
    OBVIOUS
  <2>2. \A p \in Bytes \X (1..n) : p[1] \o rows[p[2]] \in Bytes
    BY <2>1, Joined, Zenon
  <2> QED
    BY <2>2, Zenon
<1>3. \A x \in Bytes, i \in 1..n : step[<<x, i>>] = x \o rows[i]
  OBVIOUS
<1>4. PICK f : Recursive(f, n, Bytes, <<>>, step)
  <2> HIDE DEF step
  <2> QED
    BY <1>1, <1>2, Recursion
<1> HIDE DEF step
<1>5. /\ f \in [0..n -> Bytes] /\ f[0] = <<>>
      /\ \A i \in 1..n : f[i] = f[i - 1] \o rows[i]
  <2>1. f \in [0..n -> Bytes] /\ f[0] = <<>> /\ \A i \in 1..n : f[i] = step[<<f[i - 1], i>>]
    BY <1>4 DEF Recursive
  <2>2. ASSUME NEW i \in 1..n
        PROVE  f[i] = f[i - 1] \o rows[i]
    <3>1. i - 1 \in 0..n
      OBVIOUS
    <3>2. f[i - 1] \in Bytes
      BY <2>1, <3>1
    <3> QED
      BY <2>1, <3>2, <1>3
  <2> QED
    BY <2>1, <2>2
<1> DEFINE Flat == CHOOSE flat : flat = [i \in 1..Len(rows) |->
                                 IF i = 1 THEN rows[i] ELSE flat[i - 1] \o rows[i]]
           g == [i \in 1..n |-> f[i]]
<1>6. g = [i \in 1..n |-> IF i = 1 THEN rows[i] ELSE g[i - 1] \o rows[i]]
  <2> SUFFICES ASSUME NEW i \in 1..n
               PROVE  f[i] = IF i = 1 THEN rows[i] ELSE g[i - 1] \o rows[i]
    OBVIOUS
  <2>1. CASE i = 1
    <3>1. i - 1 = 0 /\ rows[i] \in Bytes
      BY <2>1
    <3>2. f[i] = <<>> \o rows[i]
      BY <1>5, <3>1, Zenon
    <3>3. f[i] = rows[i]
      BY <3>1, <3>2, Joined, Zenon
    <3> QED
      BY <2>1, <3>3
  <2>2. CASE i # 1
    <3>1. i - 1 \in 1..n
      BY <2>2
    <3>2. g[i - 1] = f[i - 1]
      BY <3>1
    <3> QED
      BY <1>5, <2>2, <3>2
  <2> QED
    BY <2>1, <2>2
<1> HIDE DEF g
<1>7. Flat = [i \in 1..n |-> IF i = 1 THEN rows[i] ELSE Flat[i - 1] \o rows[i]]
  BY <1>1, <1>6, Zenon
<1>8. FlattenSeq(rows) = IF n = 0 THEN rows ELSE Flat[n]
  <2>1. FlattenSeq(rows) = IF Len(rows) = 0 THEN rows ELSE Flat[Len(rows)]
    BY Zenon DEF FlattenSeq
  <2> HIDE DEF Flat
  <2> QED
    BY <1>1, <2>1
<1> HIDE DEF Flat
<1>9. \A i \in 1..n : Flat[i] = f[i]
  <2> DEFINE T == {i \in 0..n : i = 0 \/ Flat[i] = f[i]}
  <2>1. 0 \in T
    OBVIOUS
  <2>2. ASSUME NEW i \in 1..n, i - 1 \in T
        PROVE  i \in T
    <3>1. CASE i = 1
      <4>1. i - 1 = 0 /\ rows[i] \in Bytes
        BY <3>1
      <4>2. f[i] = <<>> \o rows[i]
        BY <1>5, <4>1, Zenon
      <4>3. f[i] = rows[i]
        BY <4>1, <4>2, Joined, Zenon
      <4> QED
        BY <1>7, <3>1, <4>3
    <3>2. CASE i # 1
      <4>1. Flat[i - 1] = f[i - 1]
        BY <2>2, <3>2
      <4>2. Flat[i] = Flat[i - 1] \o rows[i]
        BY <1>7, <3>2
      <4>3. Flat[i] = f[i]
        BY <1>5, <4>1, <4>2, Zenon
      <4> QED
        BY <4>3
    <3> QED
      BY <3>1, <3>2
  <2>3. \A i \in 0..n : i \in T
    <3> HIDE DEF T
    <3> QED
      BY <2>1, <2>2, Induction
  <2> QED
    BY <2>3
<1>10. f[n] = FlattenSeq(rows)
  BY <1>1, <1>5, <1>8, <1>9
<1> QED
  BY <1>5, <1>10

\* Rows that are joined take as many bytes as all of them.
LEMMA FlattenBytes ==
  ASSUME NEW n \in Nat, NEW rows \in [1..n -> Bytes],
         NEW sizes \in [1..n -> Nat], \A i \in 1..n : Len(rows[i]) = sizes[i]
  PROVE  FlattenSeq(rows) \in Bytes /\ Len(FlattenSeq(rows)) = Total(sizes)
<1>1. PICK flat : /\ flat \in [0..n -> Bytes] /\ flat[0] = <<>>
                  /\ flat[n] = FlattenSeq(rows)
                  /\ \A i \in 1..n : flat[i] = flat[i - 1] \o rows[i]
  BY FlattenStep
<1>2. PICK sum : /\ sum \in [0..n -> Nat] /\ sum[0] = 0 /\ sum[n] = Total(sizes)
                 /\ \A i \in 1..n : sum[i] = sum[i - 1] + sizes[i]
  BY TotalStep
<1> DEFINE T == {i \in 0..n : Len(flat[i]) = sum[i]}
<1>3. 0 \in T
  BY <1>1, <1>2
<1>4. ASSUME NEW i \in 1..n, i - 1 \in T
      PROVE  i \in T
  <2>1. i - 1 \in 0..n
    OBVIOUS
  <2>2. flat[i - 1] \in Bytes /\ rows[i] \in Bytes
    BY <1>1, <2>1
  <2>3. Len(flat[i]) = Len(flat[i - 1]) + Len(rows[i])
    <3>1. Len(flat[i - 1] \o rows[i]) = Len(flat[i - 1]) + Len(rows[i])
      BY <2>2, Joined, Zenon
    <3> QED
      BY <1>1, <3>1, Zenon
  <2>4. Len(rows[i]) = sizes[i]
    OBVIOUS
  <2>5. Len(flat[i - 1]) = sum[i - 1]
    BY <1>4
  <2>6. Len(flat[i]) = sum[i]
    BY <1>2, <2>3, <2>4, <2>5, Zenon
  <2> QED
    BY <2>6
<1>5. \A i \in 0..n : i \in T
  <2> HIDE DEF T
  <2> QED
    BY <1>3, <1>4, Induction
<1> QED
  BY <1>1, <1>2, <1>5

\* What is left of joined rows, and what stands after them, before each row.
LEMMA RowsLeft ==
  ASSUME NEW n \in Nat, NEW rows \in [1..n -> Bytes], NEW more \in Bytes
  PROVE  \E left : /\ left \in [0..n -> Bytes]
                   /\ left[0] = FlattenSeq(rows) \o more /\ left[n] = more
                   /\ \A i \in 1..n : left[i - 1] = rows[i] \o left[i]
<1> DEFINE step == [p \in Bytes \X (1..n) |-> rows[n - p[2] + 1] \o p[1]]
<1>1. step \in [Bytes \X (1..n) -> Bytes]
  <2>1. \A p \in Bytes \X (1..n) : p[1] \in Bytes /\ rows[n - p[2] + 1] \in Bytes
    OBVIOUS
  <2>2. \A p \in Bytes \X (1..n) : rows[n - p[2] + 1] \o p[1] \in Bytes
    BY <2>1, Joined, Zenon
  <2> QED
    BY <2>2, Zenon
<1>2. \A x \in Bytes, i \in 1..n : step[<<x, i>>] = rows[n - i + 1] \o x
  OBVIOUS
<1>3. PICK g : Recursive(g, n, Bytes, more, step)
  <2> HIDE DEF step
  <2> QED
    BY <1>1, Recursion
<1> HIDE DEF step
<1>4. g \in [0..n -> Bytes] /\ g[0] = more
  BY <1>3 DEF Recursive
<1>5. ASSUME NEW i \in 1..n
      PROVE  g[i] = rows[n - i + 1] \o g[i - 1]
  <2>1. i - 1 \in 0..n
    OBVIOUS
  <2>2. g[i - 1] \in Bytes
    BY <1>4, <2>1
  <2>3. g[i] = step[<<g[i - 1], i>>]
    BY <1>3 DEF Recursive
  <2> QED
    BY <2>2, <2>3, <1>2
<1> DEFINE left == [i \in 0..n |-> g[n - i]]
<1>6. left \in [0..n -> Bytes] /\ left[n] = more
  BY <1>4
<1>7. \A i \in 1..n : left[i - 1] = rows[i] \o left[i]
  <2> SUFFICES ASSUME NEW i \in 1..n
               PROVE  left[i - 1] = rows[i] \o left[i]
    OBVIOUS
  <2>1. n - i + 1 \in 1..n /\ n - (n - i + 1) + 1 = i /\ (n - i + 1) - 1 = n - i
        /\ n - (i - 1) = n - i + 1 /\ i - 1 \in 0..n /\ i \in 0..n
    OBVIOUS
  <2>2. g[n - i + 1] = rows[i] \o g[n - i]
    BY <1>5, <2>1
  <2> QED
    BY <2>1, <2>2
<1> HIDE DEF left
<1>8. PICK flat : /\ flat \in [0..n -> Bytes] /\ flat[0] = <<>>
                  /\ flat[n] = FlattenSeq(rows)
                  /\ \A i \in 1..n : flat[i] = flat[i - 1] \o rows[i]
  BY FlattenStep
<1> DEFINE T == {i \in 0..n : flat[i] \o left[i] = left[0]}
<1>9. 0 \in T
  <2>1. left[0] \in Bytes /\ 0 \in 0..n
    BY <1>6
  <2>2. flat[0] \o left[0] = left[0]
    BY <1>8, <2>1, Joined, Zenon
  <2> QED
    BY <2>1, <2>2
<1>10. ASSUME NEW i \in 1..n, i - 1 \in T
       PROVE  i \in T
  <2>1. i - 1 \in 0..n /\ i \in 0..n
    OBVIOUS
  <2>2. flat[i - 1] \in Bytes /\ rows[i] \in Bytes /\ left[i] \in Bytes
    BY <1>6, <1>8, <2>1
  <2>3. (flat[i - 1] \o rows[i]) \o left[i] = flat[i - 1] \o (rows[i] \o left[i])
    BY <2>2, JoinedThree, Zenon
  <2>4. flat[i] \o left[i] = flat[i - 1] \o left[i - 1]
    BY <1>7, <1>8, <2>3, Zenon
  <2> QED
    BY <1>10, <2>1, <2>4
<1>11. \A i \in 0..n : i \in T
  <2> HIDE DEF T
  <2> QED
    BY <1>9, <1>10, Induction
<1>12. left[0] = FlattenSeq(rows) \o more
  <2>1. flat[n] \o left[n] = left[0]
    <3>1. n \in 0..n
      OBVIOUS
    <3> QED
      BY <1>11, <3>1, Zenon
  <2> QED
    BY <1>6, <1>8, <2>1, Zenon
<1> QED
  BY <1>6, <1>7, <1>12, Zenon

\* The value that is read of so many rows.
LEMMA CountedRows ==
  ASSUME NEW n \in Int32, NEW rows \in [1..n -> Bytes],
         NEW sizes \in [1..n -> Nat], \A i \in 1..n : Len(rows[i]) = sizes[i]
  PROVE  \A b : WriteInteger(n, 4) \o FlattenSeq(rows) = b =>
         /\ b \in Bytes /\ 4 + Total(sizes) \in Nat /\ Len(b) = 4 + Total(sizes)
         /\ \A more \in Bytes :
              /\ ReadInteger(b \o more, 4).value = n
              /\ After(4, b \o more) = FlattenSeq(rows) \o more
<1> SUFFICES ASSUME NEW b, WriteInteger(n, 4) \o FlattenSeq(rows) = b
             PROVE  /\ b \in Bytes /\ 4 + Total(sizes) \in Nat /\ Len(b) = 4 + Total(sizes)
                    /\ \A more \in Bytes :
                         /\ ReadInteger(b \o more, 4).value = n
                         /\ After(4, b \o more) = FlattenSeq(rows) \o more
  OBVIOUS
<1> DEFINE flat == FlattenSeq(rows)
<1>1. flat \in Bytes /\ Len(flat) = Total(sizes)
  <2>1. n \in Nat
    BY FourBytes, Zenon
  <2> QED
    BY <2>1, FlattenBytes, Zenon
<1>2. Len(flat) \in Nat /\ 4 + Len(flat) \in Nat
  BY <1>1 DEF Bytes
<1> HIDE DEF flat
<1>3. PICK head : head = WriteInteger(n, 4)
  OBVIOUS
<1>4. /\ head \in Bytes /\ Len(head) = 4
      /\ \A m \in Bytes : ReadInteger(head \o m, 4) = Result(n, m)
  <2>1. 4 \in Nat \ {0} /\ n \in Nat /\ Shifted(n, 4)[4] = 0
    BY FourBytes, Zenon
  <2>2. head \in Bytes /\ Len(head) = 4
    BY <1>1, <1>3, <2>1, IntegerBytes, Zenon
  <2>3. \A m \in Bytes : ReadInteger(head \o m, 4) = Result(n, m)
    BY <1>3, <2>1, IntegerBytes, Zenon
  <2> QED
    BY <2>2, <2>3, Zenon
<1>5. b = head \o flat
  BY <1>3 DEF flat
<1>6. b \in Bytes /\ Len(b) = Len(head) + Len(flat)
  <2>1. head \o flat \in Bytes /\ Len(head \o flat) = Len(head) + Len(flat)
    BY <1>1, <1>4, Joined, Zenon
  <2> QED
    BY <1>5, <2>1, Zenon
<1>7. Len(b) = 4 + Len(flat)
  BY <1>4, <1>6, Zenon
<1>8. ASSUME NEW more \in Bytes
      PROVE  /\ ReadInteger(b \o more, 4).value = n
             /\ After(4, b \o more) = flat \o more
  <2>1. flat \o more \in Bytes
    BY <1>1, Joined, Zenon
  <2>2. b \o more = head \o (flat \o more)
    <3>1. (head \o flat) \o more = head \o (flat \o more)
      BY <1>1, <1>4, JoinedThree, Zenon
    <3> QED
      BY <1>5, <3>1, Zenon
  <2>3. ReadInteger(b \o more, 4) = Result(n, flat \o more)
    BY <1>4, <2>1, <2>2, Zenon
  <2>4. After(Len(head), head \o (flat \o more)) = flat \o more
    BY <1>4, <2>1, Joined, Zenon
  <2>5. After(4, b \o more) = flat \o more
    BY <1>4, <2>2, <2>4, Zenon
  <2>6. ReadInteger(b \o more, 4).value = n
    BY <2>3 DEF Result
  <2> QED
    BY <2>5, <2>6
<1> QED
  BY <1>1, <1>2, <1>6, <1>7, <1>8, Zenon DEF flat

\* What the first elements of a sequence are.
LEMMA Beginnings ==
  ASSUME NEW S, NEW s \in Seq(S)
  PROVE  \E first : /\ first[0] = <<>> /\ first[Len(s)] = s
                    /\ \A i \in 1..Len(s) : first[i] = Append(first[i - 1], s[i])
<1> DEFINE first == [i \in 0..Len(s) |-> [j \in 1..i |-> s[j]]]
<1>1. first[0] = <<>> /\ first[Len(s)] = s
  OBVIOUS
<1>2. ASSUME NEW i \in 1..Len(s)
      PROVE  first[i] = Append(first[i - 1], s[i])
  <2>1. i - 1 \in 0..Len(s) /\ i \in 0..Len(s)
    OBVIOUS
  <2>2. [j \in 1..i |-> s[j]] = Append([j \in 1..(i - 1) |-> s[j]], s[i])
    OBVIOUS
  <2> QED
    BY <2>1, <2>2
<1> HIDE DEF first
<1> QED
  BY <1>1, <1>2, Zenon

\* f is what is read of the first elements of s, and the bytes left then.
ReadInSteps(f, s, rows, bytes, more) ==
  /\ f = [i \in 0..Len(s) |-> f[i]]
  /\ f[0] = Result(<<>>, After(4, bytes)) /\ f[Len(s)] = Result(s, more)
  /\ \A i \in 1..Len(s) :
       /\ f[i].rest \in Bytes /\ f[i - 1].rest = rows[i] \o f[i].rest
       /\ f[i] = Result(Append(f[i - 1].value, s[i]), f[i].rest)

\* Rows of the right sizes take what is counted for them, and can be read one
\* by one.
LEMMA ManyRows ==
  ASSUME NEW S, NEW s \in Counted(S), NEW rows \in [1..Len(s) -> Bytes],
         NEW sizes \in [1..Len(s) -> Nat], \A i \in 1..Len(s) : Len(rows[i]) = sizes[i]
  PROVE  \A b : WriteInteger(Len(s), 4) \o FlattenSeq(rows) = b =>
         /\ b \in Bytes /\ 4 + Total(sizes) \in Nat /\ Len(b) = 4 + Total(sizes)
         /\ \A more \in Bytes :
              /\ ReadInteger(b \o more, 4).value = Len(s)
              /\ \E f : ReadInSteps(f, s, rows, b \o more, more)
<1> SUFFICES ASSUME NEW b, WriteInteger(Len(s), 4) \o FlattenSeq(rows) = b
             PROVE  /\ b \in Bytes /\ 4 + Total(sizes) \in Nat /\ Len(b) = 4 + Total(sizes)
                    /\ \A more \in Bytes :
                         /\ ReadInteger(b \o more, 4).value = Len(s)
                         /\ \E f : ReadInSteps(f, s, rows, b \o more, more)
  OBVIOUS
<1>0. s \in Seq(S) /\ Len(s) \in Int32
  BY CountedType
<1>1. Len(s) \in Nat /\ 0 \in 0..Len(s) /\ Len(s) \in 0..Len(s)
  BY <1>0
<1>2. /\ b \in Bytes /\ 4 + Total(sizes) \in Nat /\ Len(b) = 4 + Total(sizes)
      /\ \A more \in Bytes : /\ ReadInteger(b \o more, 4).value = Len(s)
                             /\ After(4, b \o more) = FlattenSeq(rows) \o more
  <2>1. \A x : WriteInteger(Len(s), 4) \o FlattenSeq(rows) = x =>
         /\ x \in Bytes /\ 4 + Total(sizes) \in Nat /\ Len(x) = 4 + Total(sizes)
         /\ \A more \in Bytes : /\ ReadInteger(x \o more, 4).value = Len(s)
                                /\ After(4, x \o more) = FlattenSeq(rows) \o more
    BY <1>0, CountedRows, Zenon
  <2> QED
    BY <2>1, Zenon
<1>3. PICK first : /\ first[0] = <<>> /\ first[Len(s)] = s
                   /\ \A i \in 1..Len(s) : first[i] = Append(first[i - 1], s[i])
  BY <1>0, Beginnings, Zenon
<1>4. ASSUME NEW more \in Bytes
      PROVE  \E f : ReadInSteps(f, s, rows, b \o more, more)
  <2>1. PICK left : /\ left \in [0..Len(s) -> Bytes]
                    /\ left[0] = FlattenSeq(rows) \o more /\ left[Len(s)] = more
                    /\ \A i \in 1..Len(s) : left[i - 1] = rows[i] \o left[i]
    BY <1>1, RowsLeft, Zenon
  <2> DEFINE f == [i \in 0..Len(s) |-> Result(first[i], left[i])]
  <2>2. f = [i \in 0..Len(s) |-> f[i]]
    BY Zenon
  <2>3. f[0] = Result(first[0], left[0]) /\ f[Len(s)] = Result(first[Len(s)], left[Len(s)])
    BY <1>1, Zenon
  <2>4. f[0] = Result(<<>>, After(4, b \o more)) /\ f[Len(s)] = Result(s, more)
    <3> HIDE DEF f
    <3> QED
      BY <1>2, <1>3, <2>1, <2>3, Zenon
  <2>5. ASSUME NEW i \in 1..Len(s)
        PROVE  /\ f[i].rest \in Bytes /\ f[i - 1].rest = rows[i] \o f[i].rest
               /\ f[i] = Result(Append(f[i - 1].value, s[i]), f[i].rest)
    <3>1. i \in 0..Len(s) /\ i - 1 \in 0..Len(s)
      OBVIOUS
    <3>2. left[i] \in Bytes /\ left[i - 1] = rows[i] \o left[i]
      BY <2>1, <3>1, Zenon
    <3>3. f[i] = Result(first[i], left[i]) /\ f[i - 1] = Result(first[i - 1], left[i - 1])
      BY <3>1, Zenon
    <3> HIDE DEF f
    <3>4. f[i].rest = left[i] /\ f[i - 1].rest = left[i - 1] /\ f[i - 1].value = first[i - 1]
      BY <3>3 DEF Result
    <3> QED
      BY <1>3, <3>2, <3>3, <3>4, Zenon
  <2> HIDE DEF f
  <2>6. ReadInSteps(f, s, rows, b \o more, more)
    BY <2>2, <2>4, <2>5, Zenon DEF ReadInSteps
  <2> QED
    BY <2>6, Zenon
<1> QED
  BY <1>2, <1>4, Zenon

\* Strings, one after the other, take what is counted for them, and are read
\* back.
LEMMA StringsBytes ==
  ASSUME NEW s \in Counted(Text)
  PROVE  /\ WriteFieldElements(s) \in Bytes
         /\ Len(WriteFieldElements(s)) = SizeFieldElements(s)
         /\ SizeFieldElements(s) \in Nat
         /\ \A more \in Bytes : Gives(ReadFieldElements(WriteFieldElements(s) \o more), s, more)
<1> DEFINE rows == [i \in DOMAIN s |-> WriteString(s[i])]
           sizes == [i \in DOMAIN s |-> SizeString(s[i])]
           b == WriteFieldElements(s)
<1>0. s \in Seq(Text)
  BY CountedType
<1>1. Len(s) \in Nat /\ DOMAIN s = 1..Len(s) /\ \A i \in 1..Len(s) : s[i] \in Text
  BY <1>0
<1>2. \A i \in 1..Len(s) :
        /\ WriteString(s[i]) \in Bytes /\ Len(WriteString(s[i])) = SizeString(s[i])
        /\ SizeString(s[i]) \in Nat
        /\ \A m \in Bytes : Gives(ReadString(WriteString(s[i]) \o m), s[i], m)
  BY <1>1, StringBytes, Zenon
<1>3. rows \in [1..Len(s) -> Bytes] /\ sizes \in [1..Len(s) -> Nat]
  BY <1>1, <1>2, Zenon
<1>4. \A i \in 1..Len(s) : /\ Len(rows[i]) = sizes[i]
                           /\ \A m \in Bytes : Gives(ReadString(rows[i] \o m), s[i], m)
  BY <1>1, <1>2, Zenon
<1>5. WriteInteger(Len(s), 4) \o FlattenSeq(rows) = b /\ SizeFieldElements(s) = 4 + Total(sizes)
  BY Zenon DEF WriteFieldElements, WriteMany, SizeFieldElements, SizeMany
<1> HIDE DEF rows, sizes, b
<1>6. /\ b \in Bytes /\ 4 + Total(sizes) \in Nat /\ Len(b) = 4 + Total(sizes)
      /\ \A more \in Bytes : /\ ReadInteger(b \o more, 4).value = Len(s)
                             /\ \E f : ReadInSteps(f, s, rows, b \o more, more)
  <2>1. \A x : WriteInteger(Len(s), 4) \o FlattenSeq(rows) = x =>
         /\ x \in Bytes /\ 4 + Total(sizes) \in Nat /\ Len(x) = 4 + Total(sizes)
         /\ \A more \in Bytes : /\ ReadInteger(x \o more, 4).value = Len(s)
                                /\ \E f : ReadInSteps(f, s, rows, x \o more, more)
    BY <1>3, <1>4, ManyRows, Zenon
  <2> QED
    BY <1>5, <2>1, Zenon
<1>7. ASSUME NEW more \in Bytes
      PROVE  Gives(ReadFieldElements(b \o more), s, more)
  <2>1. PICK f : ReadInSteps(f, s, rows, b \o more, more)
    BY <1>6, Zenon
  <2> DEFINE next(g, i) == IF i = 0 THEN Result(<<>>, After(4, b \o more))
                           ELSE Result(Append(g[i - 1].value, ReadString(g[i - 1].rest).value),
                                       ReadString(g[i - 1].rest).rest)
             Many == CHOOSE g : g = [i \in 0..ReadInteger(b \o more, 4).value |-> next(g, i)]
  <2>2. ReadFieldElements(b \o more) = Many[ReadInteger(b \o more, 4).value]
    BY Zenon DEF ReadFieldElements, ReadMany
  <2>3. \A i \in 0..Len(s) : i = 0 \/ i \in 1..Len(s)
    OBVIOUS
  <2>4. \A i \in 1..Len(s) : i \in 0..Len(s) /\ i # 0
    OBVIOUS
  <2>5. ASSUME NEW i \in 1..Len(s)
        PROVE  f[i] = next(f, i)
    <3>1. Gives(ReadString(f[i - 1].rest), s[i], f[i].rest)
      BY <1>4, <2>1, Zenon DEF ReadInSteps
    <3>2. ReadString(f[i - 1].rest).value = s[i] /\ ReadString(f[i - 1].rest).rest = f[i].rest
      BY <3>1, Zenon DEF Gives
    <3>3. f[i] = Result(Append(f[i - 1].value, s[i]), f[i].rest)
      BY <2>1, Zenon DEF ReadInSteps
    <3> QED
      BY <2>4, <3>2, <3>3, Zenon
  <2>6. f[0] = next(f, 0) /\ f[0] = next(Many, 0)
    BY <2>1, Zenon DEF ReadInSteps
  <2>7. f = [i \in 0..Len(s) |-> next(f, i)]
    <3>1. f = [i \in 0..Len(s) |-> f[i]]
      BY <2>1, Zenon DEF ReadInSteps
    <3>2. \A i \in 0..Len(s) : f[i] = next(f, i)
      BY <2>3, <2>5, <2>6, Zenon
    <3> HIDE DEF next
    <3> QED
      BY <3>1, <3>2, Zenon
  <2>8. Many = [i \in 0..Len(s) |-> next(Many, i)]
    BY <1>6, <2>7, Zenon
  <2> HIDE DEF Many
  <2>9. f[Len(s)] = Many[Len(s)]
    <3>1. 0 \in 0..Len(s)
      BY <1>1
    <3>2. f[0] = Many[0]
      <4> HIDE DEF next
      <4> QED
        BY <2>6, <2>8, <3>1, Zenon
    <3>3. ASSUME NEW i \in 1..Len(s), f[i - 1] = Many[i - 1]
          PROVE  f[i] = Many[i]
      <4>1. next(f, i) = next(Many, i)
        BY <3>3, Zenon
      <4> HIDE DEF next
      <4> QED
        BY <2>4, <2>5, <2>8, <4>1, Zenon
    <3> QED
      BY <1>1, <3>2, <3>3, StayAlike, Zenon
  <2>10. Many[Len(s)] = Result(s, more)
    BY <2>1, <2>9, Zenon DEF ReadInSteps
  <2>11. Gives(Many[Len(s)], s, more)
    BY <2>10 DEF Gives, Result
  <2> QED
    BY <1>6, <2>2, <2>11, Zenon
<1> QED
  BY <1>5, <1>6, <1>7, Zenon DEF b

CallValue == [contract_address : Text, entrypoint : Text, calldata : Counted(Text)]
PolicyValue == [contract_address : Text, entrypoint : Text]

\* Parts in the order they were written are read in it.
LEMMA TwoParts ==
  ASSUME NEW a \in Bytes, NEW b \in Bytes
  PROVE  /\ a \o b \in Bytes /\ Len(a \o b) = Len(a) + Len(b)
         /\ \A more \in Bytes : b \o more \in Bytes /\ (a \o b) \o more = a \o (b \o more)
<1>1. a \o b \in Bytes /\ Len(a \o b) = Len(a) + Len(b)
  BY Joined, Zenon
<1>2. \A more \in Bytes : b \o more \in Bytes
  BY Joined, Zenon
<1>3. \A more \in Bytes : (a \o b) \o more = a \o (b \o more)
  BY JoinedThree, Zenon
<1> QED
  BY <1>1, <1>2, <1>3, Zenon

LEMMA PolicyBytes ==
  ASSUME NEW p \in PolicyValue
  PROVE  /\ WritePolicy(p) \in Bytes /\ Len(WritePolicy(p)) = SizePolicy(p)
         /\ SizePolicy(p) \in Nat
         /\ \A more \in Bytes : Gives(ReadPolicy(WritePolicy(p) \o more), p, more)
<1> DEFINE x == WriteString(p.contract_address)
           y == WriteString(p.entrypoint)
<1>1. p.contract_address \in Text /\ p.entrypoint \in Text
      /\ p = [contract_address |-> p.contract_address, entrypoint |-> p.entrypoint]
  BY DEF PolicyValue
<1>2. /\ x \in Bytes /\ Len(x) = SizeString(p.contract_address)
      /\ SizeString(p.contract_address) \in Nat
      /\ \A m \in Bytes : Gives(ReadString(x \o m), p.contract_address, m)
  BY <1>1, StringBytes, Zenon
<1>3. /\ y \in Bytes /\ Len(y) = SizeString(p.entrypoint)
      /\ SizeString(p.entrypoint) \in Nat
      /\ \A m \in Bytes : Gives(ReadString(y \o m), p.entrypoint, m)
  BY <1>1, StringBytes, Zenon
<1> HIDE DEF x, y
<1>4. /\ x \o y \in Bytes /\ Len(x \o y) = Len(x) + Len(y)
      /\ \A m \in Bytes : y \o m \in Bytes /\ (x \o y) \o m = x \o (y \o m)
  BY <1>2, <1>3, TwoParts, Zenon
<1>5. ASSUME NEW more \in Bytes
      PROVE  Gives(ReadPolicy((x \o y) \o more), p, more)
  <2> DEFINE bytes == (x \o y) \o more
  <2>1. Gives(ReadString(bytes), p.contract_address, y \o more)
    BY <1>2, <1>4, Zenon
  <2>2. Gives(ReadString(y \o more), p.entrypoint, more)
    BY <1>3, Zenon
  <2> HIDE DEF bytes
  <2>3. ReadPolicy(bytes) = Result([contract_address |-> p.contract_address,
                                    entrypoint |-> p.entrypoint], more)
    BY <2>1, <2>2, Zenon DEF ReadPolicy, Gives
  <2>4. ReadPolicy(bytes) = Result(p, more)
    BY <1>1, <2>3, Zenon
  <2>5. Gives(ReadPolicy(bytes), p, more)
    BY <2>4 DEF Gives, Result
  <2> QED
    BY <2>5 DEF bytes
<1>6. WritePolicy(p) = x \o y /\ SizePolicy(p) = Len(x) + Len(y)
  BY <1>2, <1>3 DEF WritePolicy, SizePolicy, x, y
<1>7. Len(x) + Len(y) \in Nat
  BY <1>2, <1>3
<1> QED
  BY <1>4, <1>5, <1>6, <1>7, Zenon

\* So do policies, one after the other.
LEMMA PolicyListBytes ==
  ASSUME NEW s \in Counted(PolicyValue)
  PROVE  /\ WritePolicyList(s) \in Bytes
         /\ Len(WritePolicyList(s)) = SizePolicyList(s)
         /\ SizePolicyList(s) \in Nat
         /\ \A more \in Bytes : Gives(ReadPolicyList(WritePolicyList(s) \o more), s, more)
<1> DEFINE rows == [i \in DOMAIN s |-> WritePolicy(s[i])]
           sizes == [i \in DOMAIN s |-> SizePolicy(s[i])]
           b == WritePolicyList(s)
<1>0. s \in Seq(PolicyValue)
  BY CountedType
<1>1. Len(s) \in Nat /\ DOMAIN s = 1..Len(s) /\ \A i \in 1..Len(s) : s[i] \in PolicyValue
  BY <1>0
<1>2. \A i \in 1..Len(s) :
        /\ WritePolicy(s[i]) \in Bytes /\ Len(WritePolicy(s[i])) = SizePolicy(s[i])
        /\ SizePolicy(s[i]) \in Nat
        /\ \A m \in Bytes : Gives(ReadPolicy(WritePolicy(s[i]) \o m), s[i], m)
  BY <1>1, PolicyBytes, Zenon
<1>3. rows \in [1..Len(s) -> Bytes] /\ sizes \in [1..Len(s) -> Nat]
  BY <1>1, <1>2, Zenon
<1>4. \A i \in 1..Len(s) : /\ Len(rows[i]) = sizes[i]
                           /\ \A m \in Bytes : Gives(ReadPolicy(rows[i] \o m), s[i], m)
  BY <1>1, <1>2, Zenon
<1>5. WriteInteger(Len(s), 4) \o FlattenSeq(rows) = b /\ SizePolicyList(s) = 4 + Total(sizes)
  BY Zenon DEF WritePolicyList, WriteMany, SizePolicyList, SizeMany
<1> HIDE DEF rows, sizes, b
<1>6. /\ b \in Bytes /\ 4 + Total(sizes) \in Nat /\ Len(b) = 4 + Total(sizes)
      /\ \A more \in Bytes : /\ ReadInteger(b \o more, 4).value = Len(s)
                             /\ \E f : ReadInSteps(f, s, rows, b \o more, more)
  <2>1. \A x : WriteInteger(Len(s), 4) \o FlattenSeq(rows) = x =>
         /\ x \in Bytes /\ 4 + Total(sizes) \in Nat /\ Len(x) = 4 + Total(sizes)
         /\ \A more \in Bytes : /\ ReadInteger(x \o more, 4).value = Len(s)
                                /\ \E f : ReadInSteps(f, s, rows, x \o more, more)
    BY <1>3, <1>4, ManyRows, Zenon
  <2> QED
    BY <1>5, <2>1, Zenon
<1>7. ASSUME NEW more \in Bytes
      PROVE  Gives(ReadPolicyList(b \o more), s, more)
  <2>1. PICK f : ReadInSteps(f, s, rows, b \o more, more)
    BY <1>6, Zenon
  <2> DEFINE next(g, i) == IF i = 0 THEN Result(<<>>, After(4, b \o more))
                           ELSE Result(Append(g[i - 1].value, ReadPolicy(g[i - 1].rest).value),
                                       ReadPolicy(g[i - 1].rest).rest)
             Many == CHOOSE g : g = [i \in 0..ReadInteger(b \o more, 4).value |-> next(g, i)]
  <2>2. ReadPolicyList(b \o more) = Many[ReadInteger(b \o more, 4).value]
    BY Zenon DEF ReadPolicyList, ReadMany
  <2>3. \A i \in 0..Len(s) : i = 0 \/ i \in 1..Len(s)
    OBVIOUS
  <2>4. \A i \in 1..Len(s) : i \in 0..Len(s) /\ i # 0
    OBVIOUS
  <2>5. ASSUME NEW i \in 1..Len(s)
        PROVE  f[i] = next(f, i)
    <3>1. Gives(ReadPolicy(f[i - 1].rest), s[i], f[i].rest)
      BY <1>4, <2>1, Zenon DEF ReadInSteps
    <3>2. ReadPolicy(f[i - 1].rest).value = s[i] /\ ReadPolicy(f[i - 1].rest).rest = f[i].rest
      BY <3>1, Zenon DEF Gives
    <3>3. f[i] = Result(Append(f[i - 1].value, s[i]), f[i].rest)
      BY <2>1, Zenon DEF ReadInSteps
    <3> QED
      BY <2>4, <3>2, <3>3, Zenon
  <2>6. f[0] = next(f, 0) /\ f[0] = next(Many, 0)
    BY <2>1, Zenon DEF ReadInSteps
  <2>7. f = [i \in 0..Len(s) |-> next(f, i)]
    <3>1. f = [i \in 0..Len(s) |-> f[i]]
      BY <2>1, Zenon DEF ReadInSteps
    <3>2. \A i \in 0..Len(s) : f[i] = next(f, i)
      BY <2>3, <2>5, <2>6, Zenon
    <3> HIDE DEF next
    <3> QED
      BY <3>1, <3>2, Zenon
  <2>8. Many = [i \in 0..Len(s) |-> next(Many, i)]
    BY <1>6, <2>7, Zenon
  <2> HIDE DEF Many
  <2>9. f[Len(s)] = Many[Len(s)]
    <3>1. 0 \in 0..Len(s)
      BY <1>1
    <3>2. f[0] = Many[0]
      <4> HIDE DEF next
      <4> QED
        BY <2>6, <2>8, <3>1, Zenon
    <3>3. ASSUME NEW i \in 1..Len(s), f[i - 1] = Many[i - 1]
          PROVE  f[i] = Many[i]
      <4>1. next(f, i) = next(Many, i)
        BY <3>3, Zenon
      <4> HIDE DEF next
      <4> QED
        BY <2>4, <2>5, <2>8, <4>1, Zenon
    <3> QED
      BY <1>1, <3>2, <3>3, StayAlike, Zenon
  <2>10. Many[Len(s)] = Result(s, more)
    BY <2>1, <2>9, Zenon DEF ReadInSteps
  <2>11. Gives(Many[Len(s)], s, more)
    BY <2>10 DEF Gives, Result
  <2> QED
    BY <1>6, <2>2, <2>11, Zenon
<1> QED
  BY <1>5, <1>6, <1>7, Zenon DEF b

LEMMA CallBytes ==
  ASSUME NEW c \in CallValue
  PROVE  /\ WriteCall(c) \in Bytes /\ Len(WriteCall(c)) = SizeCall(c)
         /\ SizeCall(c) \in Nat
         /\ \A more \in Bytes : Gives(ReadCall(WriteCall(c) \o more), c, more)
<1> DEFINE x == WriteString(c.contract_address)
           y == WriteString(c.entrypoint)
           z == WriteFieldElements(c.calldata)
<1>1. /\ c.contract_address \in Text /\ c.entrypoint \in Text /\ c.calldata \in Counted(Text)
      /\ c = [contract_address |-> c.contract_address, entrypoint |-> c.entrypoint,
              calldata |-> c.calldata]
  BY DEF CallValue
<1>2. /\ x \in Bytes /\ Len(x) = SizeString(c.contract_address)
      /\ SizeString(c.contract_address) \in Nat
      /\ \A m \in Bytes : Gives(ReadString(x \o m), c.contract_address, m)
  BY <1>1, StringBytes, Zenon
<1>3. /\ y \in Bytes /\ Len(y) = SizeString(c.entrypoint)
      /\ SizeString(c.entrypoint) \in Nat
      /\ \A m \in Bytes : Gives(ReadString(y \o m), c.entrypoint, m)
  BY <1>1, StringBytes, Zenon
<1>4. /\ z \in Bytes /\ Len(z) = SizeFieldElements(c.calldata)
      /\ SizeFieldElements(c.calldata) \in Nat
      /\ \A m \in Bytes : Gives(ReadFieldElements(z \o m), c.calldata, m)
  BY <1>1, StringsBytes, Zenon
<1> HIDE DEF x, y, z
<1>5. /\ x \o y \in Bytes /\ Len(x \o y) = Len(x) + Len(y)
      /\ \A m \in Bytes : y \o m \in Bytes /\ (x \o y) \o m = x \o (y \o m)
  BY <1>2, <1>3, TwoParts, Zenon
<1>6. /\ (x \o y) \o z \in Bytes /\ Len((x \o y) \o z) = Len(x \o y) + Len(z)
      /\ \A m \in Bytes : z \o m \in Bytes /\ ((x \o y) \o z) \o m = (x \o y) \o (z \o m)
  BY <1>4, <1>5, TwoParts, Zenon
<1>7. ASSUME NEW more \in Bytes
      PROVE  Gives(ReadCall(((x \o y) \o z) \o more), c, more)
  <2> DEFINE bytes == ((x \o y) \o z) \o more
  <2>1. bytes = x \o (y \o (z \o more)) /\ z \o more \in Bytes /\ y \o (z \o more) \in Bytes
    BY <1>5, <1>6, Zenon
  <2> HIDE DEF bytes
  <2>2. Gives(ReadString(bytes), c.contract_address, y \o (z \o more))
    BY <1>2, <2>1, Zenon
  <2>3. Gives(ReadString(y \o (z \o more)), c.entrypoint, z \o more)
    BY <1>3, <2>1, Zenon
  <2>4. Gives(ReadFieldElements(z \o more), c.calldata, more)
    BY <1>4, Zenon
  <2>5. ReadCall(bytes) = Result([contract_address |-> c.contract_address,
                                  entrypoint |-> c.entrypoint,
                                  calldata |-> c.calldata], more)
    BY <2>2, <2>3, <2>4, Zenon DEF ReadCall, Gives
  <2>6. ReadCall(bytes) = Result(c, more)
    BY <1>1, <2>5, Zenon
  <2>7. Gives(ReadCall(bytes), c, more)
    BY <2>6 DEF Gives, Result
  <2> QED
    BY <2>7 DEF bytes
<1>8. WriteCall(c) = (x \o y) \o z
      /\ SizeCall(c) = SizeString(c.contract_address) + SizeString(c.entrypoint)
                         + SizeFieldElements(c.calldata)
  BY Zenon DEF WriteCall, SizeCall, x, y, z
<1>9. Len((x \o y) \o z) = SizeString(c.contract_address) + SizeString(c.entrypoint)
                             + SizeFieldElements(c.calldata)
  BY <1>2, <1>3, <1>4, <1>5, <1>6, Zenon
<1>10. SizeString(c.contract_address) + SizeString(c.entrypoint)
         + SizeFieldElements(c.calldata) \in Nat
  BY <1>2, <1>3, <1>4
<1> QED
  BY <1>6, <1>7, <1>8, <1>9, <1>10, Zenon

\* So do calls, one after the other.
LEMMA CallsBytes ==
  ASSUME NEW s \in Counted(CallValue)
  PROVE  /\ WriteCalls(s) \in Bytes
         /\ Len(WriteCalls(s)) = SizeCalls(s)
         /\ SizeCalls(s) \in Nat
         /\ \A more \in Bytes : Gives(ReadCalls(WriteCalls(s) \o more), s, more)
<1> DEFINE rows == [i \in DOMAIN s |-> WriteCall(s[i])]
           sizes == [i \in DOMAIN s |-> SizeCall(s[i])]
           b == WriteCalls(s)
<1>0. s \in Seq(CallValue)
  BY CountedType
<1>1. Len(s) \in Nat /\ DOMAIN s = 1..Len(s) /\ \A i \in 1..Len(s) : s[i] \in CallValue
  BY <1>0
<1>2. \A i \in 1..Len(s) :
        /\ WriteCall(s[i]) \in Bytes /\ Len(WriteCall(s[i])) = SizeCall(s[i])
        /\ SizeCall(s[i]) \in Nat
        /\ \A m \in Bytes : Gives(ReadCall(WriteCall(s[i]) \o m), s[i], m)
  BY <1>1, CallBytes, Zenon
<1>3. rows \in [1..Len(s) -> Bytes] /\ sizes \in [1..Len(s) -> Nat]
  BY <1>1, <1>2, Zenon
<1>4. \A i \in 1..Len(s) : /\ Len(rows[i]) = sizes[i]
                           /\ \A m \in Bytes : Gives(ReadCall(rows[i] \o m), s[i], m)
  BY <1>1, <1>2, Zenon
<1>5. WriteInteger(Len(s), 4) \o FlattenSeq(rows) = b /\ SizeCalls(s) = 4 + Total(sizes)
  BY Zenon DEF WriteCalls, WriteMany, SizeCalls, SizeMany
<1> HIDE DEF rows, sizes, b
<1>6. /\ b \in Bytes /\ 4 + Total(sizes) \in Nat /\ Len(b) = 4 + Total(sizes)
      /\ \A more \in Bytes : /\ ReadInteger(b \o more, 4).value = Len(s)
                             /\ \E f : ReadInSteps(f, s, rows, b \o more, more)
  <2>1. \A x : WriteInteger(Len(s), 4) \o FlattenSeq(rows) = x =>
         /\ x \in Bytes /\ 4 + Total(sizes) \in Nat /\ Len(x) = 4 + Total(sizes)
         /\ \A more \in Bytes : /\ ReadInteger(x \o more, 4).value = Len(s)
                                /\ \E f : ReadInSteps(f, s, rows, x \o more, more)
    BY <1>3, <1>4, ManyRows, Zenon
  <2> QED
    BY <1>5, <2>1, Zenon
<1>7. ASSUME NEW more \in Bytes
      PROVE  Gives(ReadCalls(b \o more), s, more)
  <2>1. PICK f : ReadInSteps(f, s, rows, b \o more, more)
    BY <1>6, Zenon
  <2> DEFINE next(g, i) == IF i = 0 THEN Result(<<>>, After(4, b \o more))
                           ELSE Result(Append(g[i - 1].value, ReadCall(g[i - 1].rest).value),
                                       ReadCall(g[i - 1].rest).rest)
             Many == CHOOSE g : g = [i \in 0..ReadInteger(b \o more, 4).value |-> next(g, i)]
  <2>2. ReadCalls(b \o more) = Many[ReadInteger(b \o more, 4).value]
    BY Zenon DEF ReadCalls, ReadMany
  <2>3. \A i \in 0..Len(s) : i = 0 \/ i \in 1..Len(s)
    OBVIOUS
  <2>4. \A i \in 1..Len(s) : i \in 0..Len(s) /\ i # 0
    OBVIOUS
  <2>5. ASSUME NEW i \in 1..Len(s)
        PROVE  f[i] = next(f, i)
    <3>1. Gives(ReadCall(f[i - 1].rest), s[i], f[i].rest)
      BY <1>4, <2>1, Zenon DEF ReadInSteps
    <3>2. ReadCall(f[i - 1].rest).value = s[i] /\ ReadCall(f[i - 1].rest).rest = f[i].rest
      BY <3>1, Zenon DEF Gives
    <3>3. f[i] = Result(Append(f[i - 1].value, s[i]), f[i].rest)
      BY <2>1, Zenon DEF ReadInSteps
    <3> QED
      BY <2>4, <3>2, <3>3, Zenon
  <2>6. f[0] = next(f, 0) /\ f[0] = next(Many, 0)
    BY <2>1, Zenon DEF ReadInSteps
  <2>7. f = [i \in 0..Len(s) |-> next(f, i)]
    <3>1. f = [i \in 0..Len(s) |-> f[i]]
      BY <2>1, Zenon DEF ReadInSteps
    <3>2. \A i \in 0..Len(s) : f[i] = next(f, i)
      BY <2>3, <2>5, <2>6, Zenon
    <3> HIDE DEF next
    <3> QED
      BY <3>1, <3>2, Zenon
  <2>8. Many = [i \in 0..Len(s) |-> next(Many, i)]
    BY <1>6, <2>7, Zenon
  <2> HIDE DEF Many
  <2>9. f[Len(s)] = Many[Len(s)]
    <3>1. 0 \in 0..Len(s)
      BY <1>1
    <3>2. f[0] = Many[0]
      <4> HIDE DEF next
      <4> QED
        BY <2>6, <2>8, <3>1, Zenon
    <3>3. ASSUME NEW i \in 1..Len(s), f[i - 1] = Many[i - 1]
          PROVE  f[i] = Many[i]
      <4>1. next(f, i) = next(Many, i)
        BY <3>3, Zenon
      <4> HIDE DEF next
      <4> QED
        BY <2>4, <2>5, <2>8, <4>1, Zenon
    <3> QED
      BY <1>1, <3>2, <3>3, StayAlike, Zenon
  <2>10. Many[Len(s)] = Result(s, more)
    BY <2>1, <2>9, Zenon DEF ReadInSteps
  <2>11. Gives(Many[Len(s)], s, more)
    BY <2>10 DEF Gives, Result
  <2> QED
    BY <1>6, <2>2, <2>11, Zenon
<1> QED
  BY <1>5, <1>6, <1>7, Zenon DEF b

PoliciesValue == [policies : Counted(PolicyValue), max_fee : Text]

LEMMA PoliciesBytes ==
  ASSUME NEW p \in PoliciesValue
  PROVE  /\ WritePolicies(p) \in Bytes /\ Len(WritePolicies(p)) = SizePolicies(p)
         /\ \A more \in Bytes : Gives(ReadPolicies(WritePolicies(p) \o more), p, more)
<1> DEFINE x == WritePolicyList(p.policies)
           y == WriteString(p.max_fee)
<1>1. p.policies \in Counted(PolicyValue) /\ p.max_fee \in Text
      /\ p = [policies |-> p.policies, max_fee |-> p.max_fee]
  BY DEF PoliciesValue
<1>2. /\ x \in Bytes /\ Len(x) = SizePolicyList(p.policies)
      /\ \A m \in Bytes : Gives(ReadPolicyList(x \o m), p.policies, m)
  BY <1>1, PolicyListBytes, Zenon
<1>3. /\ y \in Bytes /\ Len(y) = SizeString(p.max_fee)
      /\ \A m \in Bytes : Gives(ReadString(y \o m), p.max_fee, m)
  BY <1>1, StringBytes, Zenon
<1> HIDE DEF x, y
<1>4. /\ x \o y \in Bytes /\ Len(x \o y) = Len(x) + Len(y)
      /\ \A m \in Bytes : y \o m \in Bytes /\ (x \o y) \o m = x \o (y \o m)
  BY <1>2, <1>3, TwoParts, Zenon
<1>5. ASSUME NEW more \in Bytes
      PROVE  Gives(ReadPolicies((x \o y) \o more), p, more)
  <2> DEFINE bytes == (x \o y) \o more
  <2>1. Gives(ReadPolicyList(bytes), p.policies, y \o more)
    BY <1>2, <1>4, Zenon
  <2>2. Gives(ReadString(y \o more), p.max_fee, more)
    BY <1>3, Zenon
  <2> HIDE DEF bytes
  <2>3. ReadPolicies(bytes) = Result([policies |-> p.policies, max_fee |-> p.max_fee], more)
    BY <2>1, <2>2, Zenon DEF ReadPolicies, Gives
  <2>4. ReadPolicies(bytes) = Result(p, more)
    BY <1>1, <2>3, Zenon
  <2>5. Gives(ReadPolicies(bytes), p, more)
    BY <2>4 DEF Gives, Result
  <2> QED
    BY <2>5 DEF bytes
<1>6. WritePolicies(p) = x \o y /\ SizePolicies(p) = Len(x) + Len(y)
  BY <1>2, <1>3, Zenon DEF WritePolicies, SizePolicies, x, y
<1> QED
  BY <1>4, <1>5, <1>6, Zenon

\* The rows of a record of two fields, and of three, one after the other.
LEMMA FlattenTwo ==
  ASSUME NEW a \in Bytes, NEW b \in Bytes
  PROVE  FlattenSeq([i \in 1..2 |-> IF i = 1 THEN a ELSE b]) = a \o b
<1> DEFINE rows == [i \in 1..2 |-> IF i = 1 THEN a ELSE b]
<1>1. rows \in [1..2 -> Bytes] /\ rows[1] = a /\ rows[2] = b
  OBVIOUS
<1> HIDE DEF rows
<1>2. PICK flat : /\ flat \in [0..2 -> Bytes] /\ flat[0] = <<>>
                  /\ flat[2] = FlattenSeq(rows)
                  /\ \A i \in 1..2 : flat[i] = flat[i - 1] \o rows[i]
  <2>1. 2 \in Nat
    OBVIOUS
  <2> QED
    BY <1>1, <2>1, FlattenStep, Zenon
<1>3. 1 \in 1..2 /\ 2 \in 1..2 /\ 1 - 1 = 0 /\ 2 - 1 = 1
  OBVIOUS
<1>4. flat[1] = flat[0] \o rows[1] /\ flat[2] = flat[1] \o rows[2]
  BY <1>2, <1>3
<1>5. <<>> \o a = a
  BY Joined, Zenon
<1> QED
  BY <1>1, <1>2, <1>4, <1>5, Zenon DEF rows

LEMMA FlattenThree ==
  ASSUME NEW a \in Bytes, NEW b \in Bytes, NEW c \in Bytes
  PROVE  FlattenSeq([i \in 1..3 |-> IF i = 1 THEN a ELSE IF i = 2 THEN b ELSE c])
           = (a \o b) \o c
<1> DEFINE rows == [i \in 1..3 |-> IF i = 1 THEN a ELSE IF i = 2 THEN b ELSE c]
<1>1. rows \in [1..3 -> Bytes] /\ rows[1] = a /\ rows[2] = b /\ rows[3] = c
  OBVIOUS
<1> HIDE DEF rows
<1>2. PICK flat : /\ flat \in [0..3 -> Bytes] /\ flat[0] = <<>>
                  /\ flat[3] = FlattenSeq(rows)
                  /\ \A i \in 1..3 : flat[i] = flat[i - 1] \o rows[i]
  <2>1. 3 \in Nat
    OBVIOUS
  <2> QED
    BY <1>1, <2>1, FlattenStep, Zenon
<1>3. /\ 1 \in 1..3 /\ 2 \in 1..3 /\ 3 \in 1..3
      /\ 1 - 1 = 0 /\ 2 - 1 = 1 /\ 3 - 1 = 2
  OBVIOUS
<1>4. /\ flat[1] = flat[0] \o rows[1] /\ flat[2] = flat[1] \o rows[2]
      /\ flat[3] = flat[2] \o rows[3]
  BY <1>2, <1>3
<1>5. <<>> \o a = a
  BY Joined, Zenon
<1> QED
  <2>1. flat[1] = a
    BY <1>1, <1>2, <1>4, <1>5, Zenon
  <2>2. flat[2] = a \o b
    BY <1>1, <1>4, <2>1, Zenon
  <2>3. flat[3] = (a \o b) \o c
    BY <1>1, <1>4, <2>2, Zenon
  <2> QED
    BY <1>2, <2>3, Zenon DEF rows

\* What Rust writes of a policy, a call and the policies of a session.
LEMMA RustWritesPolicy ==
  ASSUME NEW p \in PolicyValue
  PROVE  RustPolicy(p) = WritePolicy(p)
<1> DEFINE x == WriteString(p.contract_address)
           y == WriteString(p.entrypoint)
<1>1. x \in Bytes /\ y \in Bytes
  <2>1. p.contract_address \in Text /\ p.entrypoint \in Text
    BY DEF PolicyValue
  <2> QED
    BY <2>1, StringBytes, Zenon
<1>2. RustString(p.contract_address) = x /\ RustString(p.entrypoint) = y
  BY DEF RustString, WriteString
<1> HIDE DEF x, y
<1>3. [i \in DOMAIN UdlSessionPolicy |-> RustString(p[UdlSessionPolicy[i]])]
        = [i \in 1..2 |-> IF i = 1 THEN x ELSE y]
  BY <1>2 DEF UdlSessionPolicy
<1>4. RustPolicy(p) = FlattenSeq([i \in DOMAIN UdlSessionPolicy |-> RustString(p[UdlSessionPolicy[i]])])
  BY Zenon DEF RustPolicy, RustRecord
<1>5. WritePolicy(p) = x \o y
  BY Zenon DEF WritePolicy, x, y
<1> QED
  BY <1>1, <1>3, <1>4, <1>5, FlattenTwo, Zenon

LEMMA RustWritesCall ==
  ASSUME NEW c \in CallValue
  PROVE  RustCall(c) = WriteCall(c)
<1> DEFINE x == WriteString(c.contract_address)
           y == WriteString(c.entrypoint)
           z == WriteFieldElements(c.calldata)
           Write(field, v) == IF field = "calldata" THEN RustStrings(v) ELSE RustString(v)
<1>1. x \in Bytes /\ y \in Bytes /\ z \in Bytes
  <2>1. c.contract_address \in Text /\ c.entrypoint \in Text /\ c.calldata \in Counted(Text)
    BY DEF CallValue
  <2> QED
    BY <2>1, StringBytes, StringsBytes, Zenon
<1>2. RustString(c.contract_address) = x /\ RustString(c.entrypoint) = y
  BY DEF RustString, WriteString
<1>3. RustStrings(c.calldata) = z
  BY Zenon DEF RustStrings, WriteFieldElements, WriteMany, RustString, WriteString
<1> HIDE DEF x, y, z
<1>4. [i \in DOMAIN UdlCall |-> Write(UdlCall[i], c[UdlCall[i]])]
        = [i \in 1..3 |-> IF i = 1 THEN x ELSE IF i = 2 THEN y ELSE z]
  BY <1>2, <1>3 DEF UdlCall
<1>5. RustCall(c) = FlattenSeq([i \in DOMAIN UdlCall |-> Write(UdlCall[i], c[UdlCall[i]])])
  BY Zenon DEF RustCall, RustRecord
<1>6. WriteCall(c) = (x \o y) \o z
  BY Zenon DEF WriteCall, x, y, z
<1>7. FlattenSeq([i \in 1..3 |-> IF i = 1 THEN x ELSE IF i = 2 THEN y ELSE z])
        = (x \o y) \o z
  BY <1>1, FlattenThree, Zenon
<1> QED
  BY <1>4, <1>5, <1>6, <1>7, Zenon

LEMMA RustWritesPolicies ==
  ASSUME NEW p \in PoliciesValue
  PROVE  RustPolicies(p) = WritePolicies(p)
<1> DEFINE x == WritePolicyList(p.policies)
           y == WriteString(p.max_fee)
           Write(field, v) == IF field = "policies" THEN WriteMany(v, RustPolicy) ELSE RustString(v)
<1>1. p.policies \in Counted(PolicyValue) /\ p.max_fee \in Text
  BY DEF PoliciesValue
<1>2. x \in Bytes /\ y \in Bytes
  BY <1>1, StringBytes, PolicyListBytes, Zenon
<1>3. WriteMany(p.policies, RustPolicy) = x
  <2>1. \A i \in DOMAIN p.policies : p.policies[i] \in PolicyValue
    <3>1. p.policies \in Seq(PolicyValue)
      BY <1>1, CountedType
    <3> QED
      BY <3>1
  <2>2. \A i \in DOMAIN p.policies : RustPolicy(p.policies[i]) = WritePolicy(p.policies[i])
    BY <2>1, RustWritesPolicy, Zenon
  <2>3. [i \in DOMAIN p.policies |-> RustPolicy(p.policies[i])]
          = [i \in DOMAIN p.policies |-> WritePolicy(p.policies[i])]
    BY <2>2, Zenon
  <2> QED
    BY <2>3, Zenon DEF WriteMany, WritePolicyList
<1>4. RustString(p.max_fee) = y
  BY DEF RustString, WriteString
<1> HIDE DEF x, y
<1>5. [i \in DOMAIN UdlSessionPolicies |-> Write(UdlSessionPolicies[i], p[UdlSessionPolicies[i]])]
        = [i \in 1..2 |-> IF i = 1 THEN x ELSE y]
  BY <1>3, <1>4 DEF UdlSessionPolicies
<1>6. RustPolicies(p)
        = FlattenSeq([i \in DOMAIN UdlSessionPolicies |->
                       Write(UdlSessionPolicies[i], p[UdlSessionPolicies[i]])])
  BY Zenon DEF RustPolicies, RustRecord
<1>7. WritePolicies(p) = x \o y
  BY Zenon DEF WritePolicies, x, y
<1> QED
  BY <1>2, <1>5, <1>6, <1>7, FlattenTwo, Zenon

(* What crosses. *)

\* The policies of a session reach the library as they are, and come back so.
THEOREM PoliciesCross ==
  ASSUME NEW p \in PoliciesValue
  PROVE  /\ Lower(WritePolicies(p), SizePolicies(p)) = RustPolicies(p)
         /\ ReadPolicies(RustPolicies(p)) = Result(p, <<>>)
<1>1. /\ WritePolicies(p) \in Bytes /\ Len(WritePolicies(p)) = SizePolicies(p)
      /\ \A more \in Bytes : Gives(ReadPolicies(WritePolicies(p) \o more), p, more)
  BY PoliciesBytes, Zenon
<1>2. Lower(WritePolicies(p), SizePolicies(p)) = WritePolicies(p)
  BY <1>1, LowerAll, Zenon
<1>3. <<>> \in Bytes /\ WritePolicies(p) \o <<>> = WritePolicies(p)
  BY <1>1, Joined, Zenon
<1>4. ReadPolicies(WritePolicies(p)) = Result(p, <<>>)
  BY <1>1, <1>3, Zenon DEF Gives
<1> QED
  BY <1>2, <1>4, RustWritesPolicies, Zenon

\* A list of calls reaches the library as it is, and comes back so.
THEOREM CallsCross ==
  ASSUME NEW s \in Counted(CallValue)
  PROVE  /\ Lower(WriteCalls(s), SizeCalls(s)) = WriteMany(s, RustCall)
         /\ ReadCalls(WriteMany(s, RustCall)) = Result(s, <<>>)
<1>1. /\ WriteCalls(s) \in Bytes /\ Len(WriteCalls(s)) = SizeCalls(s)
      /\ \A more \in Bytes : Gives(ReadCalls(WriteCalls(s) \o more), s, more)
  BY CallsBytes, Zenon
<1>2. Lower(WriteCalls(s), SizeCalls(s)) = WriteCalls(s)
  BY <1>1, LowerAll, Zenon
<1>3. <<>> \in Bytes /\ WriteCalls(s) \o <<>> = WriteCalls(s)
  BY <1>1, Joined, Zenon
<1>4. ReadCalls(WriteCalls(s)) = Result(s, <<>>)
  BY <1>1, <1>3, Zenon DEF Gives
<1>5. WriteMany(s, RustCall) = WriteCalls(s)
  <2>1. \A i \in DOMAIN s : s[i] \in CallValue
    <3>1. s \in Seq(CallValue)
      BY CountedType
    <3> QED
      BY <3>1
  <2>2. \A i \in DOMAIN s : RustCall(s[i]) = WriteCall(s[i])
    BY <2>1, RustWritesCall, Zenon
  <2>3. [i \in DOMAIN s |-> RustCall(s[i])] = [i \in DOMAIN s |-> WriteCall(s[i])]
    BY <2>2, Zenon
  <2> QED
    BY <2>3, Zenon DEF WriteMany, WriteCalls
<1> QED
  BY <1>2, <1>4, <1>5, Zenon

\* The flag alone.
LEMMA NoneBytes ==
  Lower(<<0>>, 1) = <<0>> /\ After(1, <<0>>) = <<>>
<1> DEFINE b == <<0>>
<1>1. b \in Bytes /\ Len(b) = 1 /\ <<>> \in Bytes
  BY DEF Bytes
<1> HIDE DEF b
<1>2. Lower(b, 1) = b
  BY <1>1, LowerAll, Zenon
<1>3. After(Len(b), b \o <<>>) = <<>> /\ b \o <<>> = b
  BY <1>1, Joined, Zenon
<1>4. After(1, b) = <<>>
  BY <1>1, <1>3, Zenon
<1> QED
  BY <1>2, <1>4, Zenon DEF b

\* An optional string or number keeps its value, and whether it has one.
THEOREM OptionalStringCrosses ==
  ASSUME NEW v, v = <<>> \/ \E s \in Text : v = <<s>>
  PROVE  /\ Lower(WriteOptionalString(v), SizeOptionalString(v)) = WriteOptionalString(v)
         /\ ReadOptionalString(WriteOptionalString(v)) = Result(v, <<>>)
<1>1. CASE v = <<>>
  <2>1. WriteOptionalString(v) = <<0>> /\ SizeOptionalString(v) = 1
    BY <1>1 DEF WriteOptionalString, WriteOptional, SizeOptionalString
  <2>2. Lower(<<0>>, 1) = <<0>> /\ After(1, <<0>>) = <<>>
    BY NoneBytes, Zenon
  <2>3. ReadOptionalString(<<0>>) = Result(<<>>, <<>>)
    BY <2>2 DEF ReadOptionalString, ReadOptional
  <2> QED
    BY <1>1, <2>1, <2>2, <2>3, Zenon
<1>2. CASE \E s \in Text : v = <<s>>
  <2>1. PICK s \in Text : v = <<s>>
    BY <1>2
  <2>2. v[1] = s /\ v # <<>>
    BY <2>1
  <2> DEFINE b == WriteString(s)
             flag == <<1>>
  <2>3. b \in Bytes /\ Len(b) = SizeString(s) /\ b \o <<>> = b
        /\ \A m \in Bytes : Gives(ReadString(b \o m), s, m)
    BY StringBytes, Joined, Zenon
  <2> HIDE DEF b
  <2>4. flag \in Bytes /\ Len(flag) = 1 /\ <<>> \in Bytes /\ flag[1] = 1
    BY DEF Bytes
  <2> HIDE DEF flag
  <2>5. flag \o b \in Bytes /\ Len(flag \o b) = 1 + SizeString(s) /\ After(1, flag \o b) = b
    <3>1. flag \o b \in Bytes /\ Len(flag \o b) = Len(flag) + Len(b) /\ After(Len(flag), flag \o b) = b
      BY <2>3, <2>4, Joined, Zenon
    <3> QED
      BY <2>3, <2>4, <3>1, Zenon
  <2>6. (flag \o b)[1] = 1
    <3>1. 1 > 0
      OBVIOUS
    <3>2. (flag \o b)[Len(flag)] = flag[Len(flag)]
      BY <2>3, <2>4, <3>1, Joined, Zenon
    <3> QED
      BY <2>3, <2>4, <3>2, Zenon
  <2>7. WriteOptionalString(v) = flag \o b /\ SizeOptionalString(v) = 1 + SizeString(s)
    BY <2>2, Zenon DEF WriteOptionalString, WriteOptional, SizeOptionalString, b, flag
  <2>8. Lower(flag \o b, 1 + SizeString(s)) = flag \o b
    BY <2>5, LowerAll, Zenon
  <2>9. Gives(ReadString(b), s, <<>>)
    BY <2>3, <2>4, Zenon
  <2>10. ReadOptionalString(flag \o b) = Result(<<s>>, <<>>)
    <3>1. (flag \o b)[1] # 0
      BY <2>6
    <3> QED
      BY <2>5, <2>9, <3>1, Zenon DEF ReadOptionalString, ReadOptional, Gives
  <2> QED
    BY <2>1, <2>7, <2>8, <2>10, Zenon
<1> QED
  BY <1>1, <1>2

THEOREM OptionalUInt64Crosses ==
  ASSUME NEW v, v = <<>> \/ \E n \in UInt64 : v = <<n>>
  PROVE  /\ Lower(WriteOptionalUInt64(v), SizeOptionalUInt64(v)) = WriteOptionalUInt64(v)
         /\ ReadOptionalUInt64(WriteOptionalUInt64(v)) = Result(v, <<>>)
<1>1. CASE v = <<>>
  <2>1. WriteOptionalUInt64(v) = <<0>> /\ SizeOptionalUInt64(v) = 1
    BY <1>1 DEF WriteOptionalUInt64, WriteOptional, SizeOptionalUInt64
  <2>2. Lower(<<0>>, 1) = <<0>> /\ After(1, <<0>>) = <<>>
    BY NoneBytes, Zenon
  <2>3. ReadOptionalUInt64(<<0>>) = Result(<<>>, <<>>)
    BY <2>2 DEF ReadOptionalUInt64, ReadOptional
  <2> QED
    BY <1>1, <2>1, <2>2, <2>3, Zenon
<1>2. CASE \E n \in UInt64 : v = <<n>>
  <2>1. PICK n \in UInt64 : v = <<n>>
    BY <1>2
  <2>2. v[1] = n /\ v # <<>>
    BY <2>1
  <2> DEFINE b == WriteUInt64(n)
             flag == <<1>>
  <2>3. flag \in Bytes /\ Len(flag) = 1 /\ <<>> \in Bytes /\ flag[1] = 1
    BY DEF Bytes
  <2>4. b \in Bytes /\ Len(b) = 8 /\ b \o <<>> = b /\ ReadUInt64(b \o <<>>) = Result(n, <<>>)
    <3>1. b \in Bytes /\ Len(b) = 8 /\ ReadUInt64(b \o <<>>) = Result(n, <<>>)
      BY <2>3, EightBytes, IntegerBytes, Zenon DEF WriteUInt64, ReadUInt64
    <3> QED
      BY <3>1, Joined, Zenon
  <2> HIDE DEF b, flag
  <2>5. flag \o b \in Bytes /\ Len(flag \o b) = 1 + 8 /\ After(1, flag \o b) = b
    <3>1. flag \o b \in Bytes /\ Len(flag \o b) = Len(flag) + Len(b) /\ After(Len(flag), flag \o b) = b
      BY <2>3, <2>4, Joined, Zenon
    <3> QED
      BY <2>3, <2>4, <3>1, Zenon
  <2>6. (flag \o b)[1] = 1
    <3>1. 1 > 0
      OBVIOUS
    <3>2. (flag \o b)[Len(flag)] = flag[Len(flag)]
      BY <2>3, <2>4, <3>1, Joined, Zenon
    <3> QED
      BY <2>3, <2>4, <3>2, Zenon
  <2>7. WriteOptionalUInt64(v) = flag \o b /\ SizeOptionalUInt64(v) = 1 + 8
    BY <2>2, Zenon DEF WriteOptionalUInt64, WriteOptional, SizeOptionalUInt64, b, flag
  <2>8. Lower(flag \o b, 1 + 8) = flag \o b
    BY <2>5, LowerAll, Zenon
  <2>9. Gives(ReadUInt64(b), n, <<>>)
    <3>1. ReadUInt64(b) = Result(n, <<>>)
      BY <2>4, Zenon
    <3> QED
      BY <3>1 DEF Gives, Result
  <2>10. ReadOptionalUInt64(flag \o b) = Result(<<n>>, <<>>)
    <3>1. (flag \o b)[1] # 0
      BY <2>6
    <3> QED
      BY <2>5, <2>9, <3>1, Zenon DEF ReadOptionalUInt64, ReadOptional, Gives
  <2> QED
    BY <2>1, <2>7, <2>8, <2>10, Zenon
<1> QED
  BY <1>1, <1>2

\* A number of four bytes, alone or before others.
\* Small numbers fit.
LEMMA SmallNumbers == \A i \in 1..7 : i \in Int32
BY SMT DEF Int32, MaxInt32

LEMMA NumberBytes ==
  ASSUME NEW n \in Int32
  PROVE  /\ Lower(WriteInteger(n, 4), 4) = WriteInteger(n, 4)
         /\ Gives(ReadInteger(WriteInteger(n, 4), 4), n, <<>>)
         /\ \A m \in Bytes : Gives(ReadInteger(WriteInteger(n, 4) \o m, 4), n, m)
<1> DEFINE b == WriteInteger(n, 4)
<1>1. <<>> \in Bytes
  BY DEF Bytes
<1>2. b \in Bytes /\ Len(b) = 4 /\ \A m \in Bytes : ReadInteger(b \o m, 4) = Result(n, m)
  <2>1. 4 \in Nat \ {0} /\ n \in Nat /\ Shifted(n, 4)[4] = 0
    BY FourBytes, Zenon
  <2>2. b \in Bytes /\ Len(b) = 4
    BY <2>1, <1>1, IntegerBytes, Zenon
  <2>3. \A m \in Bytes : ReadInteger(b \o m, 4) = Result(n, m)
    BY <2>1, IntegerBytes, Zenon
  <2> QED
    BY <2>2, <2>3, Zenon
<1> HIDE DEF b
<1>3. Lower(b, 4) = b
  BY <1>2, LowerAll, Zenon
<1>4. \A m \in Bytes : Gives(ReadInteger(b \o m, 4), n, m)
  BY <1>2 DEF Gives, Result
<1>5. b \o <<>> = b
  BY <1>2, Joined, Zenon
<1> QED
  BY <1>1, <1>3, <1>4, <1>5, Zenon DEF b

\* A variant crosses as its place in controller.udl, and comes back as itself.
THEOREM NumbersCross ==
  /\ \A i \in DOMAIN UdlSignerTypes :
       Lower(WriteEnum(SignerType, UdlSignerTypes[i]), SizeEnum) = WriteInteger(i, 4)
  /\ \A i \in DOMAIN UdlVersions :
       /\ Lower(WriteEnum(Version, UdlVersions[i]), SizeEnum) = WriteInteger(i, 4)
       /\ ReadEnum(Version, WriteInteger(i, 4)) = Result(UdlVersions[i], <<>>)
<1>1. \A i \in DOMAIN UdlSignerTypes : i \in Int32 /\ SignerType[UdlSignerTypes[i]] = i
  BY SmallNumbers DEF UdlSignerTypes, SignerType
<1>2. \A i \in DOMAIN UdlVersions :
        i \in Int32 /\ UdlVersions[i] \in DOMAIN Version /\ Version[UdlVersions[i]] = i
  BY SmallNumbers DEF UdlVersions, Version
<1>3. \A v, w \in DOMAIN Version : Version[v] = Version[w] => v = w
  BY DEF Version
<1>4. \A i \in DOMAIN UdlSignerTypes :
        Lower(WriteEnum(SignerType, UdlSignerTypes[i]), SizeEnum) = WriteInteger(i, 4)
  BY <1>1, NumberBytes, Zenon DEF WriteEnum, SizeEnum
<1>5. ASSUME NEW i \in DOMAIN UdlVersions
      PROVE  /\ Lower(WriteEnum(Version, UdlVersions[i]), SizeEnum) = WriteInteger(i, 4)
             /\ ReadEnum(Version, WriteInteger(i, 4)) = Result(UdlVersions[i], <<>>)
  <2>1. Lower(WriteEnum(Version, UdlVersions[i]), SizeEnum) = WriteInteger(i, 4)
    BY <1>2, NumberBytes, Zenon DEF WriteEnum, SizeEnum
  <2> DEFINE read == ReadInteger(WriteInteger(i, 4), 4)
  <2>2. read.value = i /\ read.rest = <<>>
    BY <1>2, NumberBytes, Zenon DEF Gives
  <2> HIDE DEF read
  <2>3. (CHOOSE v \in DOMAIN Version : Version[v] = read.value) = UdlVersions[i]
    BY <1>2, <1>3, <2>2
  <2>4. ReadEnum(Version, WriteInteger(i, 4))
          = Result(CHOOSE v \in DOMAIN Version : Version[v] = read.value, read.rest)
    BY Zenon DEF ReadEnum, read
  <2> QED
    BY <2>1, <2>2, <2>3, <2>4, Zenon
<1> QED
  BY <1>4, <1>5, Zenon

\* An error comes back as the class of its variant, with its text.
THEOREM ErrorsCross ==
  ASSUME NEW i \in DOMAIN UdlErrors, NEW what \in Text
  PROVE  ReadError(WriteInteger(i, 4) \o RustString(what))
           = Result([class |-> UdlErrors[i], what |-> what], <<>>)
<1> DEFINE text == WriteString(what)
           b == WriteInteger(i, 4) \o text
<1>1. i \in Int32
  BY SmallNumbers DEF UdlErrors
<1>2. <<>> \in Bytes /\ text \in Bytes /\ \A m \in Bytes : Gives(ReadString(text \o m), what, m)
  BY StringBytes, Joined, Zenon
<1> HIDE DEF text
<1>3. text \o <<>> = text
  BY <1>2, Joined, Zenon
<1>4. Gives(ReadString(text), what, <<>>)
  BY <1>2, <1>3, Zenon
<1>5. Gives(ReadInteger(b, 4), i, text)
  BY <1>1, <1>2, NumberBytes, Zenon
<1>6. RustString(what) = text
  BY Zenon DEF RustString, WriteString, text
<1>7. ErrorClass = UdlErrors
  BY DEF ErrorClass, UdlErrors
<1> HIDE DEF b
<1>8. ReadError(b) = Result([class |-> UdlErrors[i], what |-> what], <<>>)
  BY <1>4, <1>5, <1>7, Zenon DEF ReadError, Gives
<1> QED
  BY <1>6, <1>8, Zenon DEF b

\* What the application lists is written in bytes.
LEMMA ListedBytes ==
  ASSUME ListType
  PROVE  /\ Addresses \subseteq Text
         /\ \A fee \in Addresses : ListedPolicies(fee) \in PoliciesValue
         /\ ListedCalls \in Counted(CallValue)
         /\ 1000 * Len(listed) \in UInt64
<1>0. \A n \in Nat : n <= Len(listed) => n \in Int32
  <2>1. Len(listed) \in Nat /\ Len(listed) <= MaxLength /\ MaxLength <= MaxInt32
        /\ MaxLength \in Nat /\ MaxInt32 \in Nat
    BY LengthAssumption, ListAssumption, SMT
    DEF ListType, ListAssumption, LengthAssumption, MaxInt32
  <2> QED
    BY <2>1 DEF Int32
<1>1. Addresses \subseteq Text
  <2>1. ASSUME NEW a \in Addresses
        PROVE  a \in Seq(0..(Base - 1)) /\ Len(a) \in 1..Width
    BY ListAssumption DEF ListAssumption, Address
  <2>2. Base \in Nat /\ Width \in Nat /\ Width <= MaxInt32 /\ MaxInt32 \in Nat
    BY PolicyAssumption, LengthAssumption, SMT DEF PolicyAssumption, LengthAssumption, MaxInt32
  <2>3. ASSUME NEW a \in Addresses
        PROVE  a \in Text
    <3>1. a \in Bytes
      BY <2>1, <2>2 DEF Bytes
    <3>2. Len(a) \in Int32
      BY <2>1, <2>2 DEF Int32
    <3> QED
      BY <3>1, <3>2 DEF Text
  <2> QED
    BY <2>3
<1>2. /\ Len(listed) \in Nat /\ DOMAIN listed = 1..Len(listed)
      /\ \A i \in DOMAIN listed :
           listed[i].contract_address \in Text /\ listed[i].entrypoint \in Nat
  <2>1. Len(listed) \in Nat /\ DOMAIN listed = 1..Len(listed)
    BY DEF ListType
  <2>2. \A i \in DOMAIN listed : listed[i] \in Policy
    BY DEF ListType
  <2>3. \A i \in DOMAIN listed :
          listed[i].contract_address \in Addresses /\ listed[i].entrypoint \in Name
    BY <2>2 DEF Policy
  <2>4. Name \subseteq Nat
    BY PolicyAssumption DEF PolicyAssumption
  <2> QED
    BY <1>1, <2>1, <2>3, <2>4, Zenon
<1>3. \A i \in DOMAIN listed : <<listed[i].entrypoint>> \in Text
  <2>1. \A n \in Nat : <<n>> \in Bytes /\ Len(<<n>>) = 1
    BY DEF Bytes
  <2>2. 1 \in Int32
    BY SmallNumbers
  <2> QED
    BY <1>2, <2>1, <2>2, Zenon DEF Text
<1>4. \A fee \in Addresses : ListedPolicies(fee) \in PoliciesValue
  <2> DEFINE list == [i \in DOMAIN listed |->
                       [contract_address |-> listed[i].contract_address,
                        entrypoint |-> <<listed[i].entrypoint>>]]
  <2>1. \A i \in 1..Len(listed) :
          [contract_address |-> listed[i].contract_address,
           entrypoint |-> <<listed[i].entrypoint>>] \in PolicyValue
    BY <1>2, <1>3 DEF PolicyValue
  <2>2. list \in Counted(PolicyValue)
    <3>1. list \in [1..Len(listed) -> PolicyValue]
      BY <1>2, <2>1, Zenon
    <3> HIDE DEF list
    <3>2. list \in Seq(PolicyValue) /\ Len(list) = Len(listed)
      BY <1>2, <3>1
    <3> QED
      BY <1>0, <1>2, <3>2 DEF Counted
  <2> HIDE DEF list
  <2>3. \A fee \in Addresses : [policies |-> list, max_fee |-> fee] \in PoliciesValue
    BY <1>1, <2>2 DEF PoliciesValue
  <2> QED
    BY <2>3, Zenon DEF ListedPolicies, list
<1>5. ListedCalls \in Counted(CallValue)
  <2> DEFINE data(i) == [j \in 1..(i - 1) |-> listed[j].contract_address]
             call(i) == [contract_address |-> listed[i].contract_address,
                         entrypoint |-> <<listed[i].entrypoint>>,
                         calldata |-> data(i)]
  <2>1. ASSUME NEW i \in 1..Len(listed)
        PROVE  call(i) \in CallValue
    <3>1. i - 1 \in Nat /\ \A j \in 1..(i - 1) : j \in 1..Len(listed)
      BY <1>2
    <3>2. data(i) \in [1..(i - 1) -> Text]
      BY <1>2, <3>1
    <3> HIDE DEF data
    <3>3. data(i) \in Counted(Text)
      <4>1. data(i) \in Seq(Text) /\ Len(data(i)) = i - 1
        BY <3>1, <3>2
      <4>2. i - 1 \in Int32
        BY <1>0, <1>2, <3>1
      <4> QED
        BY <4>1, <4>2, Zenon DEF Counted
    <3> QED
      BY <1>2, <1>3, <3>3 DEF CallValue
  <2>2. ListedCalls \in [1..Len(listed) -> CallValue]
    BY <1>2, <2>1, Zenon DEF ListedCalls
  <2>3. ListedCalls \in Seq(CallValue) /\ Len(ListedCalls) = Len(listed)
    BY <1>2, <2>2
  <2> QED
    BY <1>0, <1>2, <2>3 DEF Counted
<1>6. 1000 * Len(listed) \in UInt64
  <2>1. Len(listed) \in Nat /\ Len(listed) <= MaxInt32
    BY <1>0, <1>2 DEF Int32
  <2> QED
    BY <2>1, SMT DEF UInt64, MaxUInt64, MaxInt32
<1> QED
  BY <1>1, <1>4, <1>5, <1>6, Zenon

\* Whatever an application lists, its policies and calls cross to the library
\* and back in full: no buffer is too short for what it holds or too long, and
\* no field is taken for another (the converters of bindings/cpp).
THEOREM BuffersCorrect == ListSpec => []BuffersMatchTheLibrary
<1>1. ListType => BuffersMatchTheLibrary
  <2> SUFFICES ASSUME ListType
               PROVE  BuffersMatchTheLibrary
    OBVIOUS
  <2>1. /\ Addresses \subseteq Text /\ ListedCalls \in Counted(CallValue)
        /\ 1000 * Len(listed) \in UInt64
        /\ \A fee \in Addresses : ListedPolicies(fee) \in PoliciesValue
    BY ListedBytes
  <2>2. \A fee \in Addresses :
          /\ Lower(WritePolicies(ListedPolicies(fee)), SizePolicies(ListedPolicies(fee)))
               = RustPolicies(ListedPolicies(fee))
          /\ ReadPolicies(RustPolicies(ListedPolicies(fee))) = Result(ListedPolicies(fee), <<>>)
    BY <2>1, PoliciesCross, Zenon
  <2>3. /\ Lower(WriteCalls(ListedCalls), SizeCalls(ListedCalls)) = WriteMany(ListedCalls, RustCall)
        /\ ReadCalls(WriteMany(ListedCalls, RustCall)) = Result(ListedCalls, <<>>)
    BY <2>1, CallsCross, Zenon
  <2>4. \A v \in OptionalStrings :
          /\ Lower(WriteOptionalString(v), SizeOptionalString(v)) = WriteOptionalString(v)
          /\ ReadOptionalString(WriteOptionalString(v)) = Result(v, <<>>)
    <3>1. \A v \in OptionalStrings : v = <<>> \/ \E s \in Text : v = <<s>>
      BY <2>1, Zenon DEF OptionalStrings
    <3> QED
      BY <3>1, OptionalStringCrosses, Zenon
  <2> DEFINE number == 1000 * Len(listed)
  <2>5. number \in UInt64
    BY <2>1
  <2> HIDE DEF number
  <2>6. \A v \in {<<>>, <<number>>} :
          /\ Lower(WriteOptionalUInt64(v), SizeOptionalUInt64(v)) = WriteOptionalUInt64(v)
          /\ ReadOptionalUInt64(WriteOptionalUInt64(v)) = Result(v, <<>>)
    <3>1. \A v \in {<<>>, <<number>>} : v = <<>> \/ \E n \in UInt64 : v = <<n>>
      BY <2>5, Zenon
    <3> QED
      BY <3>1, OptionalUInt64Crosses, Zenon
  <2>7. \A i \in DOMAIN UdlErrors, what \in Addresses :
          ReadError(WriteInteger(i, 4) \o RustString(what))
            = Result([class |-> UdlErrors[i], what |-> what], <<>>)
    BY <2>1, ErrorsCross, Zenon
  <2> QED
    <3>1. \A v \in {<<>>, <<1000 * Len(listed)>>} :
            /\ Lower(WriteOptionalUInt64(v), SizeOptionalUInt64(v)) = WriteOptionalUInt64(v)
            /\ ReadOptionalUInt64(WriteOptionalUInt64(v)) = Result(v, <<>>)
      BY <2>6, SMT DEF number
    <3> QED
      BY <2>2, <2>3, <2>4, <2>7, <3>1, NumbersCross, SMT DEF BuffersMatchTheLibrary
<1> QED
  BY <1>1, ListTypeInvariant, PTL

(* The registration. *)

\* What the application of SessionRegistration may list is readable.
LEMMA EntriesReadable == Readable(Entries)
BY RegistrationAssumption DEF RegistrationAssumption, Readable

(* The invariant. *)

\* A URL in the making carries the canonical list, and so does all that came
\* out of one.
UrlInv ==
  /\ url_call = "waiting" => Parses(policies) /\ posted = Canonicalize(policies)
  /\ \A p \in pages : Parses(policies) /\ p = Canonicalize(policies)
  /\ approved \subseteq pages

\* The list that a subscription was given is the application's in some order.
GivenInv == sub_call # "idle" \/ sub_result # "none" => Alike(given, policies)

\* What is known of the answer at each stage, and of what is made from it.
AnswerInv ==
  /\ sub_call \in {"build", "fill"} \/ InHand => Authorized(response)
  /\ sub_call = "fill" \/ InHand =>
       /\ response.authorization = <<"registered", "guid">>
       /\ Parses(given)
  /\ sub_call = "fill" => session = Fresh(SdkPolicies(given), "guid")
  /\ InHand =>
       session = [Fresh(SdkPolicies(given), "guid") EXCEPT
                    !.session_id = "id", !.username = "account", !.app_id = "app",
                    !.is_revoked = response.is_revoked]

IInv == TypeOK /\ UrlInv /\ GivenInv /\ AnswerInv

\* What the backend's answer may be.
LEMMA AnswerType ==
  ASSUME TypeOK
  PROVE  /\ response.authorization \in Authorization
         /\ response.is_revoked \in BOOLEAN
         /\ Authorized(response) => approved # {}
<1>1. CASE response = NoResponse
  BY <1>1 DEF NoResponse, Authorization, Authorized
<1>2. CASE \E p \in approved : response \in Answers(p)
  <2>1. PICK p \in approved : response \in Answers(p)
    BY <1>2
  <2>2. CASE response = NoResponse
    BY <1>1, <2>2
  <2>3. CASE response \in [data : {TRUE}, authorization : Authorization,
                           chain_id : {"short", "long"}, is_revoked : BOOLEAN, policies : {p}]
    BY <2>1, <2>3
  <2> QED
    BY <2>1, <2>2, <2>3 DEF Answers
<1> QED
  BY <1>1, <1>2 DEF TypeOK

\* A handle is made of what the types say.
LEMMA FreshType ==
  ASSUME NEW l \in Seq(Entries), Parses(l)
  PROVE  Fresh(SdkPolicies(l), "guid") \in Handle
<1> DEFINE c == Canonicalize(l)
           q == [i \in DOMAIN c |-> [contract |-> c[i].target, selector |-> c[i].method]]
<1>1. c \in Seq(Canonical)
  BY EntriesReadable, CanonicalPlaces
<1>2. q \in Seq([contract : [1..Width -> 0..(Base - 1)], selector : Name])
  <2> HIDE DEF c
  <2>1. \A i \in 1..Len(c) : c[i] \in Canonical
    BY <1>1
  <2>2. \A i \in 1..Len(c) : [contract |-> c[i].target, selector |-> c[i].method] \in
                             [contract : [1..Width -> 0..(Base - 1)], selector : Name]
    BY <2>1 DEF Canonical, Hex
  <2>3. DOMAIN c = 1..Len(c) /\ Len(c) \in Nat
    BY <1>1
  <2> QED
    BY <2>2, <2>3
<1>3. SdkPolicies(l) = q
  BY DEF SdkPolicies
<1> HIDE DEF q
<1> QED
  BY <1>2, <1>3 DEF Fresh, Handle

LEMMA IInvInit == Init => IInv
<1> SUFFICES ASSUME Init
             PROVE  IInv
  OBVIOUS
<1>1. policies \in Seq(Entries) /\ given \in Seq(Entries)
  BY RegistrationAssumption DEF Init, RegistrationAssumption
<1>2. TypeOK
  <2>1. \E l \in Lists : Len(policies) = Len(l)
    BY DEF Init
  <2>2. urls \in 0..MaxUrls /\ subs \in 0..MaxSubs
    BY RegistrationAssumption DEF Init, RegistrationAssumption
  <2>3. approved \subseteq pages \ {None}
    BY DEF Init
  <2> QED
    BY <1>1, <2>1, <2>2, <2>3 DEF Init, TypeOK
<1>3. UrlInv /\ GivenInv /\ AnswerInv
  BY DEF Init, UrlInv, GivenInv, AnswerInv, InHand
<1> QED
  BY <1>2, <1>3 DEF IInv

\* Reorder keeps the canonical list.
LEMMA ReorderStep ==
  ASSUME IInv, Reorder
  PROVE  IInv'
<1> USE DEF IInv
<1>1. PICK i \in DOMAIN policies, j \in DOMAIN policies :
        policies' = Swapped(policies, i, j)
  BY DEF Reorder, Swapped
<1>2. UNCHANGED <<urlSide, approved, subSide>>
  BY DEF Reorder
<1>3. policies \in Seq(Entries)
  BY DEF TypeOK
<1>4. /\ policies' \in Seq(Entries)
      /\ Len(policies') = Len(policies)
      /\ Alike(policies, policies')
  BY <1>1, <1>3, EntriesReadable, OrderIgnored
<1>5. TypeOK'
  BY <1>2, <1>4 DEF TypeOK, urlSide, subSide
<1>6. UrlInv'
  BY <1>2, <1>4 DEF UrlInv, Alike, urlSide
<1>7. GivenInv'
  BY <1>2, <1>4 DEF GivenInv, Alike, subSide
<1>8. AnswerInv'
  BY <1>2 DEF AnswerInv, InHand, subSide
<1> QED
  BY <1>5, <1>6, <1>7, <1>8

\* The steps of the URL side leave the subscription's side alone, and that of
\* the user with it.
LEMMA UrlStep ==
  ASSUME IInv, CreateUrl \/ ShortenerStores \/ ParseShortenResponse \/ TimesOut \/ UserApproves
  PROVE  IInv'
<1> USE DEF IInv
<1>1. UNCHANGED <<policies, subSide>>
  BY DEF CreateUrl, ShortenerStores, ParseShortenResponse, TimesOut, UserApproves, urlSide, subSide
<1>2. GivenInv' /\ AnswerInv'
  BY <1>1 DEF GivenInv, AnswerInv, InHand, subSide
<1>3. approved \subseteq approved'
  BY DEF CreateUrl, ShortenerStores, ParseShortenResponse, TimesOut, UserApproves
<1>4. response' = NoResponse \/ \E p \in approved' : response' \in Answers(p)
  BY <1>1, <1>3 DEF TypeOK, subSide
<1>5. CASE CreateUrl
  <2>1. urls' \in 0..MaxUrls
    <3>1. urls \in 0..MaxUrls /\ urls < MaxUrls /\ urls' = urls + 1
      BY <1>5 DEF TypeOK, CreateUrl
    <3> QED
      BY <3>1, RegistrationAssumption DEF RegistrationAssumption
  <2>2. /\ url_call' \in {"idle", "waiting"} /\ stored' \in BOOLEAN
        /\ url_result' \in {"none", "Ok", "InvalidInput", "NetworkError"}
        /\ UNCHANGED <<pages, approved>>
    BY <1>5 DEF TypeOK, CreateUrl, UrlReturns
  <2>3. TypeOK'
    BY <1>1, <1>4, <2>1, <2>2 DEF TypeOK, subSide
  <2>4. UrlInv'
    BY <1>5 DEF UrlInv, CreateUrl, UrlReturns
  <2> QED
    BY <1>2, <2>3, <2>4
<1>6. CASE ShortenerStores
  <2>1. TypeOK'
    BY <1>1, <1>4, <1>6 DEF TypeOK, ShortenerStores, subSide
  <2>2. UrlInv'
    BY <1>6 DEF UrlInv, ShortenerStores
  <2> QED
    BY <1>2, <2>1, <2>2
<1>7. CASE ParseShortenResponse
  <2>1. pages' = pages \/ pages' = pages \cup {posted}
    BY <1>7 DEF ParseShortenResponse, ValidShortUrl
  <2>2. /\ url_call = "waiting" /\ url_call' = "idle"
        /\ url_result' \in {"Ok", "NetworkError"}
        /\ UNCHANGED <<policies, posted, stored, urls, approved, subSide>>
    BY <1>7 DEF ParseShortenResponse, UrlReturns
  <2>3. TypeOK'
    BY <1>4, <2>1, <2>2 DEF TypeOK, subSide
  <2>4. UrlInv'
    BY <2>1, <2>2 DEF UrlInv
  <2> QED
    BY <1>2, <2>3, <2>4
<1>8. CASE TimesOut
  <2>1. TypeOK'
    BY <1>1, <1>4, <1>8 DEF TypeOK, TimesOut, UrlReturns, subSide
  <2>2. UrlInv'
    BY <1>8 DEF UrlInv, TimesOut, UrlReturns
  <2> QED
    BY <1>2, <2>1, <2>2
<1>9. CASE UserApproves
  <2>1. PICK p \in pages \ {None} : approved' = approved \cup {p}
    BY <1>9 DEF UserApproves
  <2>2. TypeOK'
    BY <1>1, <1>4, <1>9, <2>1 DEF TypeOK, UserApproves, urlSide, subSide
  <2>3. UrlInv'
    BY <1>9, <2>1 DEF UrlInv, UserApproves, urlSide
  <2> QED
    BY <1>2, <2>2, <2>3
<1> QED
  BY <1>5, <1>6, <1>7, <1>8, <1>9

\* The steps of the subscription leave the URL side, the application's list and
\* what was approved alone.
LEMMA SubStep ==
  ASSUME IInv,
         \/ Subscribe \/ BackendAnswers \/ ValidateAuthorization
         \/ BuildSession \/ FillMetadata
  PROVE  IInv'
<1> USE DEF IInv
<1>1. UNCHANGED <<policies, urlSide, approved>>
  BY DEF Subscribe, BackendAnswers, ValidateAuthorization, BuildSession, FillMetadata
<1>2. UrlInv'
  BY <1>1 DEF UrlInv, urlSide
<1>3. /\ policies' \in Seq(Entries)
      /\ \E l \in Lists : Len(policies') = Len(l)
      /\ url_call' \in {"idle", "waiting"} /\ stored' \in BOOLEAN
      /\ url_result' \in {"none", "Ok", "InvalidInput", "NetworkError"}
      /\ urls' \in 0..MaxUrls
      /\ approved' \subseteq pages' \ {None}
  BY <1>1 DEF TypeOK, urlSide
<1>4. CASE Subscribe
  <2>1. /\ sub_call = "idle" /\ given' = policies /\ session' = None
        /\ response' = NoResponse
        /\ \/ sub_call' = "idle" /\ sub_result' = "InitializationError"
           \/ sub_call' = "waiting" /\ sub_result' = sub_result
    BY <1>4 DEF Subscribe, SubReturns
  <2>2. subs' \in 0..MaxSubs
    <3>1. subs \in 0..MaxSubs /\ subs < MaxSubs /\ subs' = subs + 1
      BY <1>4 DEF TypeOK, Subscribe
    <3> QED
      BY <3>1, RegistrationAssumption DEF RegistrationAssumption
  <2>3. given' \in Seq(Entries) /\ Len(given') = Len(policies')
    BY <1>1, <2>1 DEF TypeOK
  <2>4. TypeOK'
    BY <1>3, <2>1, <2>2, <2>3 DEF TypeOK
  <2>5. GivenInv'
    BY <1>1, <2>1 DEF GivenInv, Alike
  <2>6. AnswerInv'
    BY <2>1 DEF AnswerInv, InHand
  <2> QED
    BY <1>2, <2>4, <2>5, <2>6
<1>5. CASE BackendAnswers
  <2>1. /\ sub_call = "waiting"
        /\ UNCHANGED <<policies, given, subs, session>>
        /\ \/ /\ \E p \in approved : response' \in Answers(p)
              /\ sub_call' = "validate" /\ sub_result' = sub_result
           \/ /\ sub_call' = "idle" /\ sub_result' = "SignupError"
              /\ response' = response
    BY <1>5 DEF BackendAnswers, SubReturns
  <2>2. response' = NoResponse \/ \E p \in approved' : response' \in Answers(p)
    BY <1>1, <2>1 DEF TypeOK
  <2>3. TypeOK'
    BY <1>3, <2>1, <2>2 DEF TypeOK
  <2>4. GivenInv'
    BY <2>1 DEF GivenInv, Alike
  <2>5. AnswerInv'
    BY <2>1 DEF AnswerInv, InHand
  <2> QED
    BY <1>2, <2>3, <2>4, <2>5
<1>6. CASE ValidateAuthorization
  <2>1. /\ sub_call = "validate"
        /\ UNCHANGED <<policies, approved, given, response, subs, session>>
        /\ \/ sub_call' = "idle" /\ sub_result' \in {"SignupError", "InitializationError"}
           \/ Authorized(response) /\ sub_call' = "build" /\ sub_result' = sub_result
    BY <1>6 DEF ValidateAuthorization, SubReturns
  <2>2. TypeOK'
    BY <1>3, <2>1 DEF TypeOK
  <2>3. GivenInv'
    BY <2>1 DEF GivenInv, Alike
  <2>4. AnswerInv'
    BY <2>1 DEF AnswerInv, InHand, Authorized
  <2> QED
    BY <1>2, <2>2, <2>3, <2>4
<1>7. CASE BuildSession
  <2>1. /\ sub_call = "build"
        /\ UNCHANGED <<policies, approved, given, response, subs>>
    BY <1>7 DEF BuildSession
  <2>2. Authorized(response)
    BY <2>1 DEF AnswerInv
  <2>3. GivenInv'
    BY <1>7 DEF GivenInv, Alike, BuildSession, SubReturns
  <2>4. CASE sub_call' = "idle" /\ UNCHANGED session /\
             sub_result' \in {"InitializationError", "InvalidInput"}
    <3>1. TypeOK'
      BY <1>3, <2>1, <2>4 DEF TypeOK
    <3>2. AnswerInv'
      BY <2>1, <2>4 DEF AnswerInv, InHand
    <3> QED
      BY <1>2, <2>3, <3>1, <3>2
  <2>5. CASE /\ response.authorization[2] # "not_felt" /\ Parses(given)
             /\ session' = Fresh(SdkPolicies(given), response.authorization[2])
             /\ sub_call' = "fill" /\ UNCHANGED sub_result
    <3>1. response.authorization = <<"registered", "guid">>
      <4>1. response.authorization \in Authorization
        BY AnswerType
      <4>2. Len(response.authorization) >= 2 /\ response.authorization[1] = "registered"
        BY <2>2 DEF Authorized
      <4> QED
        BY <2>5, <4>1, <4>2 DEF Authorization
    <3>2. session' = Fresh(SdkPolicies(given), "guid")
      BY <2>5, <3>1
    <3>3. given \in Seq(Entries)
      BY DEF TypeOK
    <3>4. session' \in Handle
      BY <2>5, <3>2, <3>3, FreshType
    <3>5. TypeOK'
      BY <1>3, <2>1, <2>5, <3>4 DEF TypeOK
    <3>6. AnswerInv'
      BY <2>1, <2>2, <2>5, <3>1, <3>2 DEF AnswerInv, InHand, Authorized
    <3> QED
      BY <1>2, <2>3, <3>5, <3>6
  <2> QED
    BY <1>7, <2>4, <2>5 DEF BuildSession, SubReturns
<1>8. CASE FillMetadata
  <2>1. /\ sub_call = "fill" /\ sub_call' = "idle" /\ sub_result' = "Ok"
        /\ UNCHANGED <<policies, approved, given, response, subs>>
        /\ session' = [session EXCEPT !.session_id = "id", !.username = "account",
                                      !.app_id = "app", !.is_revoked = response.is_revoked]
    BY <1>8 DEF FillMetadata, SubReturns
  <2>2. session = Fresh(SdkPolicies(given), "guid") /\ session \in Handle
    BY <2>1 DEF AnswerInv, TypeOK
  <2>3. session' \in Handle
    BY <2>1, <2>2, AnswerType DEF Handle
  <2>4. TypeOK'
    BY <1>3, <2>1, <2>3 DEF TypeOK
  <2>5. GivenInv'
    BY <2>1 DEF GivenInv, Alike
  <2>6. AnswerInv'
    BY <2>1, <2>2 DEF AnswerInv, InHand, Authorized
  <2> QED
    BY <1>2, <2>4, <2>5, <2>6
<1> QED
  BY <1>4, <1>5, <1>6, <1>7, <1>8

LEMMA IInvNext == IInv /\ [Next]_vars => IInv'
<1> SUFFICES ASSUME IInv, [Next]_vars
             PROVE  IInv'
  OBVIOUS
<1>1. CASE UNCHANGED vars
  BY <1>1 DEF vars, urlSide, subSide, IInv, TypeOK, UrlInv, GivenInv, AnswerInv, InHand,
              Alike, Authorized
<1> QED
  BY <1>1, ReorderStep, UrlStep, SubStep DEF Next

\* Each part of the invariant holds throughout, for every list of policies and
\* however often the application asks and subscribes.
THEOREM Invariance == Spec => []IInv
  BY IInvInit, IInvNext, PTL DEF Spec

\* The variables have their types; the handle's policies are parsed ones.
THEOREM TypeCorrect == Spec => []TypeOK
<1>1. IInv => TypeOK
  BY DEF IInv
<1> QED
  BY <1>1, Invariance, PTL

\* A registration URL leads to the application's policies and no others.
THEOREM LinkCorrect == Spec => []LinkLeadsToThePolicies
<1>1. IInv => LinkLeadsToThePolicies
  BY DEF IInv, UrlInv, LinkLeadsToThePolicies
<1> QED
  BY <1>1, Invariance, PTL

\* No handle without an authorization of a registered session.
THEOREM AuthorizedCorrect == Spec => []SessionsAreAuthorized
<1>1. IInv => SessionsAreAuthorized
  BY DEF IInv, AnswerInv, SessionsAreAuthorized
<1> QED
  BY <1>1, Invariance, PTL

\* The session in hand is one that was approved, policy by policy, though URL
\* and session were made from lists in different orders.
THEOREM ApprovedCorrect == Spec => []SessionIsWhatWasApproved
<1>1. IInv => SessionIsWhatWasApproved
  <2> SUFFICES ASSUME IInv, InHand
               PROVE  \E p \in approved :
                        session.policies = [i \in DOMAIN p |->
                                             [contract |-> p[i].target, selector |-> p[i].method]]
    BY DEF SessionIsWhatWasApproved
  <2>1. Authorized(response) /\ Parses(given) /\ session.policies = SdkPolicies(given)
    BY DEF IInv, AnswerInv, Fresh
  <2>2. PICK p \in approved : TRUE
    BY <2>1, AnswerType DEF IInv
  <2>3. p = Canonicalize(policies)
    BY DEF IInv, UrlInv
  <2>4. Alike(given, policies)
    BY DEF IInv, GivenInv, InHand
  <2>5. p = Canonicalize(given)
    BY <2>1, <2>3, <2>4 DEF Alike
  <2> QED
    BY <2>1, <2>5 DEF SdkPolicies
<1> QED
  BY <1>1, Invariance, PTL
=============================================================================
