--------------------------- MODULE RttPrintfProofs ---------------------------
(* Proofs about printf, for words of any width, buffers of any size and every *)
(* argument.                                                                  *)
EXTENDS RttPrintf, RttTerminalProofs, WellFoundedInduction

------------------------------------------------------------------------------
(* Induction and recursion.                                                   *)

(* A set of numbers that is not empty has a least one.                        *)
LEMMA LeastNumber ==
  ASSUME NEW T, T \subseteq Nat, T # {}
  PROVE  \E m \in T : \A k \in T : m <= k
<1> DEFINE R == {ss \in Nat \X Nat : ss[1] < ss[2]}
<1>1. IsWellFoundedOn(R, Nat)
  BY NatLessThanWellFounded DEF OpToRel
<1>2. \A k, m \in Nat : k < m => <<k, m>> \in R
  OBVIOUS
<1> HIDE DEF R
<1>3. PICK m \in T : \A k \in T : ~(<<k, m>> \in R)
  BY <1>1, WFMin
<1>4. \A k \in T : ~(k < m)
  BY <1>2, <1>3
<1> QED BY <1>3, <1>4

(* A set that holds 0 and with a number the next holds every number ...       *)
LEMMA Induction ==
  ASSUME NEW S, 0 \in S, \A n \in Nat : n \in S => n + 1 \in S
  PROVE  \A n \in Nat : n \in S
<1> DEFINE T == {n \in Nat : n \notin S}
<1> SUFFICES ASSUME T # {} PROVE FALSE
  OBVIOUS
<1>1. PICK m \in T : \A k \in T : m <= k
  <2>1. T \subseteq Nat
    OBVIOUS
  <2> HIDE DEF T
  <2> QED BY <2>1, LeastNumber
<1>2. m \in Nat /\ m # 0 /\ m \notin S
  OBVIOUS
<1>3. m - 1 \in Nat /\ m - 1 \notin T
  BY <1>1, <1>2
<1>4. (m - 1) + 1 \in S
  BY <1>3
<1> QED BY <1>2, <1>4

(* ... and so does one that holds every number when it holds all below it.    *)
LEMMA StrongInduction ==
  ASSUME NEW S, \A n \in Nat : (\A m \in 0..(n - 1) : m \in S) => n \in S
  PROVE  \A n \in Nat : n \in S
<1> DEFINE T == {n \in Nat : n \notin S}
<1> SUFFICES ASSUME T # {} PROVE FALSE
  OBVIOUS
<1>1. PICK m \in T : \A k \in T : m <= k
  <2>1. T \subseteq Nat
    OBVIOUS
  <2> HIDE DEF T
  <2> QED BY <2>1, LeastNumber
<1>2. m \in Nat /\ m \notin S
  OBVIOUS
<1>3. ASSUME NEW k \in 0..(m - 1) PROVE k \in S
  BY <1>1, <1>2
<1> QED BY <1>2, <1>3

(* A recursion over the arguments D: in Stop the value is that of base, for   *)
(* any other argument a step is made from the value of the next one.          *)
Follows(f, E, Stop, base, next, step) ==
  \A x \in E : f[x] = IF x \in Stop THEN base[x] ELSE step[<<x, f[next[x]]>>]

(* It ends: every argument has a size, which the next one has less of.        *)
Descends(D, V, Stop, base, next, step, size) ==
  /\ \A x \in D : size[x] \in Nat
  /\ \A x \in D : x \in Stop => base[x] \in V
  /\ \A x \in D : x \notin Stop =>
       /\ next[x] \in D /\ size[next[x]] < size[x]
       /\ \A v \in V : step[<<x, v>>] \in V

Below(D, size, n) == {x \in D : size[x] < n}

(* Two functions that follow the recursion are the same ...                   *)
LEMMA RecursionUnique ==
  ASSUME NEW D, NEW V, NEW Stop, NEW base, NEW next, NEW step, NEW size,
         Descends(D, V, Stop, base, next, step, size),
         NEW n \in Nat, NEW f, NEW g,
         Follows(f, Below(D, size, n), Stop, base, next, step),
         Follows(g, Below(D, size, n), Stop, base, next, step)
  PROVE  \A x \in Below(D, size, n) : f[x] = g[x]
<1> DEFINE E == Below(D, size, n)
           Bad == {x \in E : f[x] # g[x]}
           T == {size[x] : x \in Bad}
<1>1. SUFFICES ASSUME Bad # {} PROVE FALSE
  OBVIOUS
<1>2. \A x \in E : x \in D /\ size[x] \in Nat /\ size[x] < n
  BY DEF Below, Descends
<1>3. T \subseteq Nat /\ T # {}
  BY <1>1, <1>2
<1>4. PICK m \in T : \A k \in T : m <= k
  BY <1>3, LeastNumber
<1>5. PICK x \in Bad : size[x] = m
  BY <1>4
<1>6. /\ f[x] = IF x \in Stop THEN base[x] ELSE step[<<x, f[next[x]]>>]
      /\ g[x] = IF x \in Stop THEN base[x] ELSE step[<<x, g[next[x]]>>]
  BY <1>5 DEF Follows
<1>7. x \notin Stop
  BY <1>5, <1>6
<1>8. next[x] \in D /\ size[next[x]] < size[x] /\ size[next[x]] \in Nat
  BY <1>2, <1>5, <1>7 DEF Descends
<1>9. next[x] \in E
  BY <1>2, <1>5, <1>8 DEF Below
<1>10. f[next[x]] # g[next[x]]
  BY <1>5, <1>6, <1>7
<1>11. size[next[x]] \in T
  BY <1>9, <1>10
<1> QED BY <1>2, <1>4, <1>5, <1>8, <1>11

(* ... and there is one.                                                      *)
LEMMA Recursion ==
  ASSUME NEW D, NEW V, NEW Stop, NEW base, NEW next, NEW step, NEW size,
         Descends(D, V, Stop, base, next, step, size)
  PROVE  \E f \in [D -> V] : Follows(f, D, Stop, base, next, step)
<1> DEFINE E(n) == Below(D, size, n)
           Has(n) == \E f \in [E(n) -> V] : Follows(f, E(n), Stop, base, next, step)
<1>1. \A n \in Nat : Has(n)
  <2> DEFINE T == {n \in Nat : ~Has(n)}
  <2> SUFFICES ASSUME T # {} PROVE FALSE
    OBVIOUS
  <2>1. PICK n \in T : \A k \in T : n <= k
    <3> HIDE DEF T
    <3>1. T \subseteq Nat
      BY DEF T
    <3> QED BY <3>1, LeastNumber
  <2>2. n \in Nat /\ ~Has(n)
    OBVIOUS
  <2>3. n # 0
    <3>1. SUFFICES ASSUME n = 0 PROVE FALSE
      OBVIOUS
    <3>2. E(n) = {}
      BY <3>1 DEF Below, Descends
    <3>3. [x \in E(n) |-> x] \in [E(n) -> V]
      BY <3>2
    <3> QED BY <2>2, <3>2, <3>3 DEF Follows
  <2>4. n - 1 \in Nat /\ n - 1 \notin T
    BY <2>1, <2>2, <2>3
  <2>5. Has(n - 1)
    BY <2>4
  <2>6. PICK g \in [E(n - 1) -> V] :
               Follows(g, E(n - 1), Stop, base, next, step)
    BY <2>5
  <2> DEFINE f == [x \in E(n) |->
                     IF x \in Stop THEN base[x] ELSE step[<<x, g[next[x]]>>]]
  <2>7. \A x \in E(n) : x \notin Stop => next[x] \in E(n - 1)
    BY <2>2, <2>4 DEF Below, Descends
  <2>8. f \in [E(n) -> V]
    BY <2>6, <2>7 DEF Below, Descends
  <2>9. \A x \in E(n - 1) : x \in E(n) /\ f[x] = g[x]
    <3> TAKE x \in E(n - 1)
    <3>1. x \in E(n)
      BY <2>2, <2>4 DEF Below, Descends
    <3> QED BY <2>6, <3>1 DEF Follows
  <2>10. \A x \in E(n) : x \notin Stop => f[next[x]] = g[next[x]]
    <3> HIDE DEF f
    <3> QED BY <2>7, <2>9
  <2>11. Follows(f, E(n), Stop, base, next, step)
    <3>1. \A x \in E(n) : f[x] = IF x \in Stop THEN base[x]
                                 ELSE step[<<x, g[next[x]]>>]
      OBVIOUS
    <3> HIDE DEF f
    <3> QED BY <2>10, <3>1 DEF Follows
  <2> QED BY <2>2, <2>8, <2>11
<1> DEFINE F(n) == CHOOSE f \in [E(n) -> V] :
                     Follows(f, E(n), Stop, base, next, step)
<1>2. \A n \in Nat : /\ F(n) \in [E(n) -> V]
                     /\ Follows(F(n), E(n), Stop, base, next, step)
  BY <1>1
<1> HIDE DEF F
<1> DEFINE f == [x \in D |-> F(size[x] + 1)[x]]
<1>3. \A x \in D : size[x] \in Nat /\ size[x] + 1 \in Nat /\ x \in E(size[x] + 1)
  BY DEF Below, Descends
<1>4. f \in [D -> V]
  BY <1>2, <1>3
<1>5. ASSUME NEW x \in D, x \notin Stop
      PROVE  F(size[x] + 1)[next[x]] = f[next[x]]
  <2> DEFINE y == next[x]
             n == size[y] + 1
             m == size[x] + 1
  <2>1. y \in D /\ size[y] < size[x] /\ n \in Nat /\ m \in Nat
    BY <1>3, <1>5 DEF Descends
  <2>2. Follows(F(n), E(n), Stop, base, next, step)
    BY <1>2, <2>1
  <2>3. Follows(F(m), E(m), Stop, base, next, step)
    BY <1>2, <2>1
  <2>4. E(n) \subseteq E(m)
    BY <1>3, <2>1 DEF Below
  <2>5. Follows(F(m), E(n), Stop, base, next, step)
    BY <2>3, <2>4 DEF Follows
  <2>6. y \in E(n)
    BY <1>3, <2>1
  <2>7. F(n)[y] = F(m)[y]
    <3> HIDE DEF n, m, y
    <3> QED BY <2>1, <2>2, <2>5, <2>6, RecursionUnique
  <2> QED BY <2>1, <2>7
<1>6. \A x \in D : f[x] = IF x \in Stop THEN base[x] ELSE step[<<x, f[next[x]]>>]
  <2> TAKE x \in D
  <2>1. f[x] = F(size[x] + 1)[x]
    OBVIOUS
  <2>2. F(size[x] + 1)[x] = IF x \in Stop THEN base[x]
                            ELSE step[<<x, F(size[x] + 1)[next[x]]>>]
    BY <1>2, <1>3 DEF Follows
  <2> HIDE DEF f
  <2> QED BY <1>5, <2>1, <2>2
<1> HIDE DEF f
<1> QED BY <1>4, <1>6 DEF Follows

------------------------------------------------------------------------------
(* Division.                                                                  *)

(* The quotient of q times m and a rest.                                      *)
LEMMA QuotientAndRest ==
  ASSUME NEW m \in Nat, NEW q \in Nat, NEW r \in Nat, r < m
  PROVE  (q * m + r) \div m = q /\ (q * m + r) % m = r
<1>1. (q * m + r) \div m = q
  OBVIOUS
<1>2. (q * m + r) % m = r
  OBVIOUS
<1> QED BY <1>1, <1>2

(* Of what is below the divisor all is rest.                                  *)
LEMMA QuotientNone ==
  ASSUME NEW m \in Nat, NEW r \in Nat, r < m
  PROVE  r \div m = 0 /\ r % m = r
OBVIOUS

(* Every number is of this form ...                                           *)
LEMMA Divided ==
  ASSUME NEW m \in Nat \ {0}, NEW n \in Nat
  PROVE  /\ n \div m \in Nat /\ n % m \in Nat /\ n % m < m
         /\ n = (n \div m) * m + (n % m)
<1>1. n \div m \in Nat
  OBVIOUS
<1>2. n % m \in Nat /\ n % m < m
  OBVIOUS
<1>3. n = (n \div m) * m + (n % m)
  OBVIOUS
<1> QED BY <1>1, <1>2, <1>3

(* ... and in one way.                                                        *)
LEMMA QuotientIs ==
  ASSUME NEW m \in Nat, NEW q \in Nat, NEW r \in Nat, r < m,
         NEW n, n = q * m + r
  PROVE  n \div m = q /\ n % m = r
BY QuotientAndRest

(* A quotient is below the factor its number is below of.                     *)
LEMMA QuotientBelow ==
  ASSUME NEW m \in Nat \ {0}, NEW n \in Nat, NEW k \in Nat
  PROVE  n \div m < k <=> n < k * m
<1> DEFINE q == n \div m
           r == n % m
<1>1. q \in Nat /\ r \in Nat /\ r < m /\ n = q * m + r
  BY Divided
<1> HIDE DEF q, r
<1>2. ASSUME q < k PROVE n < k * m
  <2>1. (q + 1) * m <= k * m
    BY <1>1, <1>2
  <2>2. (q + 1) * m = q * m + m
    BY <1>1
  <2> QED BY <1>1, <2>1, <2>2
<1>3. ASSUME k <= q PROVE k * m <= n
  <2>1. k * m <= q * m
    BY <1>1, <1>3
  <2> QED BY <1>1, <2>1
<1>4. k * m \in Nat
  OBVIOUS
<1> QED BY <1>1, <1>2, <1>3, <1>4 DEF q

------------------------------------------------------------------------------
(* Powers.                                                                    *)

(* A base is a number.                                                        *)
LEMMA BaseIs == \A b \in Bases : b \in Nat /\ b >= 10
BY DEF Bases

(* A number divided by a base, as the loops do it, gets smaller.              *)
LEMMA DividedByBase ==
  ASSUME NEW b \in Bases, NEW n \in Nat
  PROVE  /\ n \div b \in Nat /\ n % b \in Nat /\ n % b < b
         /\ n = (n \div b) * b + (n % b)
         /\ n # 0 => n \div b < n
<1>1. b \in Nat \ {0} /\ b >= 10
  BY BaseIs
<1>2. /\ n \div b \in Nat /\ n % b \in Nat /\ n % b < b
      /\ n = (n \div b) * b + (n % b)
  BY <1>1, Divided
<1>3. ASSUME n # 0 PROVE n \div b < n
  <2>1. n < n * b
    BY <1>1, <1>3
  <2>2. n \div b < n <=> n < n * b
    BY <1>1, QuotientBelow
  <2> QED BY <2>1, <2>2
<1> QED BY <1>2, <1>3

(* The powers, as the model defines them.                                     *)
LEMMA PowerIs ==
  ASSUME NEW b \in Bases
  PROVE  /\ \A n \in Nat : Power(b, n) \in Nat
         /\ Power(b, 0) = 1
         /\ \A n \in Nat : Power(b, n + 1) = b * Power(b, n)
<1> DEFINE Stop == {0}
           base == [x \in Nat |-> 1]
           next == [x \in Nat |-> x - 1]
           size == [x \in Nat |-> x]
           step == [y \in Nat \X Nat |-> b * y[2]]
           Rule(f) == [k \in Nat |-> IF k = 0 THEN 1 ELSE b * f[k - 1]]
           power == CHOOSE f : f = Rule(f)
<1>0. \A v \in Nat : b * v \in Nat
  BY BaseIs
<1>1. Descends(Nat, Nat, Stop, base, next, step, size)
  <2>1. \A x, v \in Nat : step[<<x, v>>] = b * v
    OBVIOUS
  <2> HIDE DEF step
  <2> QED BY <1>0, <2>1 DEF Descends
<1>2. PICK f \in [Nat -> Nat] : Follows(f, Nat, Stop, base, next, step)
  <2> HIDE DEF Stop, base, next, step, size
  <2> QED BY <1>1, Recursion
<1>3. \A n \in Nat : f[n] = IF n = 0 THEN 1 ELSE b * f[n - 1]
  <2> TAKE n \in Nat
  <2>1. f[n] = IF n \in Stop THEN base[n] ELSE step[<<n, f[next[n]]>>]
    BY <1>2 DEF Follows
  <2>2. CASE n = 0
    BY <2>1, <2>2
  <2>3. CASE n # 0
    <3>1. n - 1 \in Nat /\ f[n - 1] \in Nat
      BY <1>2, <2>3
    <3> QED BY <2>1, <2>3, <3>1
  <2> QED BY <2>2, <2>3
<1>4. f = Rule(f)
  BY <1>2, <1>3
<1>5. power = Rule(power)
  <2> HIDE DEF Rule
  <2> QED BY <1>4
<1>6. \A n : Power(b, n) = power[n]
  BY DEF Power
<1> HIDE DEF power
<1>7. \A n \in Nat : power[n] = IF n = 0 THEN 1 ELSE b * power[n - 1]
  BY <1>5
<1>8. power[0] = 1 /\ \A n \in Nat : power[n + 1] = b * power[n]
  <2>1. \A n \in Nat : n + 1 \in Nat /\ n + 1 # 0 /\ (n + 1) - 1 = n
    OBVIOUS
  <2> QED BY <1>7, <2>1
<1>9. \A n \in Nat : n \in {k \in Nat : power[k] \in Nat}
  <2> DEFINE S == {k \in Nat : power[k] \in Nat}
  <2>1. 0 \in S /\ \A n \in Nat : n \in S => n + 1 \in S
    BY <1>0, <1>8
  <2> HIDE DEF S
  <2> QED BY <2>1, Induction DEF S
<1> QED BY <1>6, <1>8, <1>9

(* Powers are positive and grow, faster than their exponents.                 *)
LEMMA PowerGrows ==
  ASSUME NEW b \in Bases, NEW n \in Nat
  PROVE  /\ Power(b, n) \in Nat \ {0}
         /\ n < Power(b, n)
         /\ Power(b, n) < Power(b, n + 1)
<1> DEFINE S == {k \in Nat : Power(b, k) \in Nat \ {0} /\ k < Power(b, k)}
<1>1. \A k \in Nat : /\ Power(b, k) \in Nat
                     /\ Power(b, k + 1) = b * Power(b, k)
  BY PowerIs
<1>2. 0 \in S
  BY PowerIs
<1>3. ASSUME NEW p \in Nat \ {0} PROVE b * p >= p + 1
  <2>1. b * p >= 10 * p
    BY BaseIs
  <2> QED BY <2>1, BaseIs
<1>4. ASSUME NEW k \in Nat, k \in S PROVE k + 1 \in S
  <2>1. b * Power(b, k) >= Power(b, k) + 1
    BY <1>3, <1>4
  <2> QED BY <1>1, <1>4, <2>1
<1> HIDE DEF S
<1>5. n \in S
  BY <1>2, <1>4, Induction
<1>6. Power(b, n) \in Nat \ {0} /\ n < Power(b, n)
  BY <1>5 DEF S
<1>7. b * Power(b, n) >= Power(b, n) + 1
  BY <1>3, <1>6
<1>8. Power(b, n) < Power(b, n + 1)
  BY <1>1, <1>6, <1>7
<1> QED BY <1>6, <1>8

(* The product of powers.                                                     *)
LEMMA PowerSum ==
  ASSUME NEW b \in Bases, NEW m \in Nat, NEW n \in Nat
  PROVE  Power(b, m + n) = Power(b, m) * Power(b, n)
<1> DEFINE S == {k \in Nat : Power(b, m + k) = Power(b, m) * Power(b, k)}
<1>1. /\ \A k \in Nat : Power(b, k) \in Nat
      /\ \A k \in Nat : Power(b, k + 1) = b * Power(b, k)
      /\ Power(b, 0) = 1 /\ b \in Nat
  BY PowerIs, BaseIs
<1>2. 0 \in S
  BY <1>1
<1>3. ASSUME NEW k \in Nat, k \in S PROVE k + 1 \in S
  <2>1. m + (k + 1) = (m + k) + 1 /\ m + k \in Nat
    OBVIOUS
  <2>2. Power(b, m + (k + 1)) = b * (Power(b, m) * Power(b, k))
    BY <1>1, <1>3, <2>1
  <2>3. \A x, y \in Nat : b * (x * y) = x * (b * y)
    BY <1>1
  <2>4. Power(b, m + (k + 1)) = Power(b, m) * Power(b, k + 1)
    BY <1>1, <2>2, <2>3
  <2> QED BY <2>4
<1> HIDE DEF S
<1>4. n \in S
  BY <1>2, <1>3, Induction
<1> QED BY <1>4 DEF S

(* A larger exponent makes a larger power.                                    *)
LEMMA PowerOrder ==
  ASSUME NEW b \in Bases, NEW m \in Nat, NEW n \in Nat, m <= n
  PROVE  Power(b, m) <= Power(b, n)
<1> DEFINE S == {k \in Nat : Power(b, m) <= Power(b, m + k)}
<1>1. \A k \in Nat : Power(b, k) \in Nat /\ Power(b, k) < Power(b, k + 1)
  BY PowerGrows
<1>2. 0 \in S
  BY <1>1
<1>3. ASSUME NEW k \in Nat, k \in S PROVE k + 1 \in S
  <2>1. m + (k + 1) = (m + k) + 1 /\ m + k \in Nat
    OBVIOUS
  <2>2. Power(b, m) <= Power(b, m + (k + 1))
    BY <1>1, <1>3, <2>1
  <2> QED BY <2>2
<1> HIDE DEF S
<1>4. n - m \in S
  BY <1>2, <1>3, Induction
<1>5. m + (n - m) = n
  OBVIOUS
<1> QED BY <1>4, <1>5 DEF S

------------------------------------------------------------------------------
(* The loops of _PrintUnsigned.                                               *)

(* The larger of two numbers.                                                 *)
LEMMA LargerIs ==
  ASSUME NEW m \in Int, NEW n \in Int
  PROVE  /\ Larger(m, n) \in {m, n}
         /\ m <= Larger(m, n) /\ n <= Larger(m, n)
BY DEF Larger

(* The first loop ends: it divides what is left by the base.                  *)
LEMMA DigitsOfRule ==
  ASSUME NEW b \in Bases, NEW v \in Nat
  PROVE  /\ DigitsOf(v, b) \in Nat
         /\ DigitsOf(v, b) = IF v < b THEN 1 ELSE 1 + DigitsOf(v \div b, b)
<1> DEFINE Stop == {x \in Nat : x < b}
           base == [x \in Nat |-> 1]
           next == [x \in Nat |-> x \div b]
           size == [x \in Nat |-> x]
           step == [y \in Nat \X Nat |-> 1 + y[2]]
           Rule(f) == [n \in Nat |-> IF n < b THEN 1 ELSE 1 + f[n \div b]]
           digits == CHOOSE f : f = Rule(f)
<1>1. Descends(Nat, Nat, Stop, base, next, step, size)
  <2>1. \A x, n \in Nat : step[<<x, n>>] = 1 + n
    OBVIOUS
  <2>2. ASSUME NEW x \in Nat, x \notin Stop
        PROVE  next[x] \in Nat /\ size[next[x]] < size[x]
    <3>1. x # 0
      BY <2>2, BaseIs
    <3> QED BY <3>1, DividedByBase
  <2> HIDE DEF step, next
  <2> QED BY <2>1, <2>2 DEF Descends
<1>2. PICK f \in [Nat -> Nat] : Follows(f, Nat, Stop, base, next, step)
  <2> HIDE DEF Stop, base, next, step, size
  <2> QED BY <1>1, Recursion
<1>3. \A n \in Nat : f[n] = IF n < b THEN 1 ELSE 1 + f[n \div b]
  <2> TAKE n \in Nat
  <2>1. f[n] = IF n \in Stop THEN base[n] ELSE step[<<n, f[next[n]]>>]
    BY <1>2 DEF Follows
  <2>2. n \div b \in Nat
    BY BaseIs, Divided
  <2>3. f[n \div b] \in Nat
    BY <1>2, <2>2
  <2> QED BY <2>1, <2>2, <2>3
<1>4. f = Rule(f)
  BY <1>2, <1>3
<1>5. digits = Rule(digits)
  <2> HIDE DEF Rule
  <2> QED BY <1>4
<1>6. \A n : DigitsOf(n, b) = digits[n]
  BY DEF DigitsOf
<1> HIDE DEF digits
<1>7. \A n \in Nat : digits[n] = IF n < b THEN 1 ELSE 1 + digits[n \div b]
  BY <1>5
<1>8. digits[v] \in Nat
  <2> DEFINE S == {n \in Nat : digits[n] \in Nat}
  <2>1. ASSUME NEW n \in Nat, \A m \in 0..(n - 1) : m \in S PROVE n \in S
    <3>1. CASE n < b
      BY <1>7, <3>1
    <3>2. CASE ~(n < b)
      <4>3. n \div b \in Nat /\ n \div b < n
        <5>1. n # 0
          BY <3>2, BaseIs
        <5> QED BY <5>1, DividedByBase
      <4>4. digits[n \div b] \in Nat
        BY <2>1, <4>3
      <4> QED BY <1>7, <3>2, <4>4
    <3> QED BY <3>1, <3>2
  <2> HIDE DEF S
  <2>2. v \in S
    BY <2>1, StrongInduction
  <2> QED BY <2>2 DEF S
<1> QED BY <1>6, <1>7, <1>8

(* It counts the digits: v has so many and no fewer.                          *)
LEMMA DigitsOfIs ==
  ASSUME NEW b \in Bases, NEW v \in Nat
  PROVE  /\ DigitsOf(v, b) \in Nat \ {0}
         /\ v < Power(b, DigitsOf(v, b))
         /\ DigitsOf(v, b) = 1 \/ Power(b, DigitsOf(v, b) - 1) <= v
<1> DEFINE D(n) == DigitsOf(n, b)
           Counted(n) == /\ D(n) \in Nat \ {0} /\ n < Power(b, D(n))
                         /\ D(n) = 1 \/ Power(b, D(n) - 1) <= n
           S == {n \in Nat : Counted(n)}
<1>1. /\ \A k \in Nat : Power(b, k) \in Nat
      /\ \A k \in Nat : Power(b, k + 1) = b * Power(b, k)
      /\ Power(b, 0) = 1 /\ b \in Nat /\ b >= 10
  BY PowerIs, BaseIs
<1>2. Power(b, 1) = b
  <2>1. Power(b, 0 + 1) = b * Power(b, 0)
    BY <1>1
  <2> QED BY <1>1, <2>1
<1>3. ASSUME NEW n \in Nat, \A m \in 0..(n - 1) : m \in S PROVE n \in S
  <2>1. CASE n < b
    <3>1. D(n) = 1
      BY <2>1, DigitsOfRule
    <3> HIDE DEF D
    <3> QED BY <1>2, <2>1, <3>1
  <2>2. CASE ~(n < b)
    <3> DEFINE q == n \div b
               r == n % b
               d == D(q)
    <3>1. q \in Nat /\ r \in Nat /\ r < b /\ n = q * b + r
      BY DividedByBase
    <3>2. n # 0
      BY <2>2, BaseIs
    <3>3. q < n
      BY <3>2, DividedByBase
    <3>4. D(n) = 1 + d
      BY <2>2, DigitsOfRule
    <3> HIDE DEF q, r, D
    <3>5. d \in Nat \ {0} /\ q < Power(b, d)
          /\ (d = 1 \/ Power(b, d - 1) <= q)
      BY <1>3, <3>1, <3>3
    <3> HIDE DEF d
    <3>6. n < Power(b, d + 1)
      <4>0. ASSUME NEW x \in Nat, NEW y \in Nat, x <= y PROVE x * b <= y * b
        BY <4>0, BaseIs
      <4>1. (q + 1) * b <= Power(b, d) * b
        <5>1. q + 1 \in Nat /\ Power(b, d) \in Nat /\ q + 1 <= Power(b, d)
          BY <1>1, <3>1, <3>5
        <5> QED BY <4>0, <5>1
      <4>2. (q + 1) * b = q * b + b /\ Power(b, d) * b = b * Power(b, d)
        BY <1>1, <3>1, <3>5
      <4>3. Power(b, d) * b = Power(b, d + 1) /\ Power(b, d + 1) \in Nat
        BY <1>1, <3>5, <4>2
      <4>4. q * b \in Nat
        BY <1>1, <3>1
      <4> QED BY <1>1, <3>1, <4>1, <4>2, <4>3, <4>4
    <3>7. Power(b, d) <= n
      <4>1. CASE d = 1
        BY <1>2, <2>2, <4>1, <1>1
      <4>2. CASE d # 1
        <5>1. d - 1 \in Nat /\ (d - 1) + 1 = d /\ Power(b, d - 1) <= q
          BY <3>5, <4>2
        <5>2. Power(b, d) = b * Power(b, d - 1) /\ Power(b, d - 1) \in Nat
          BY <1>1, <5>1
        <5>3. ASSUME NEW x \in Nat, x <= q PROVE b * x <= q * b + r
          BY <3>1, <5>3, BaseIs
        <5> QED BY <3>1, <5>1, <5>2, <5>3
      <4> QED BY <4>1, <4>2
    <3>8. D(n) = d + 1 /\ D(n) \in Nat \ {0} /\ D(n) - 1 = d
      BY <3>4, <3>5
    <3> QED BY <3>6, <3>7, <3>8
  <2> QED BY <2>1, <2>2
<1>4. v \in S
  <2> HIDE DEF S
  <2> QED BY <1>3, StrongInduction
<1> QED BY <1>4

(* The second loop: the word Digit, by its rounds.                            *)
LEMMA DigitAfterRule ==
  ASSUME NEW b \in Bases
  PROVE  /\ DigitAfter(0, b) = 1
         /\ \A k \in Nat : DigitAfter(k + 1, b) = (DigitAfter(k, b) * b) % WordMod
<1> DEFINE Stop == {0}
           base == [x \in Nat |-> 1]
           next == [x \in Nat |-> x - 1]
           size == [x \in Nat |-> x]
           step == [y \in Nat \X Nat |-> (y[2] * b) % WordMod]
           Rule(f) == [n \in Nat |->
                         IF n = 0 THEN 1 ELSE (f[n - 1] * b) % WordMod]
           Digit == CHOOSE f : f = Rule(f)
<1>0. \A v \in Nat : (v * b) % WordMod \in Nat
  <2>1. \A v \in Nat : v * b \in Nat
    BY BaseIs
  <2>2. \A n \in Nat : n % WordMod \in Nat
    BY PrintfAssumption, Divided
  <2> QED BY <2>1, <2>2
<1>1. Descends(Nat, Nat, Stop, base, next, step, size)
  <2>1. \A x, v \in Nat : step[<<x, v>>] = (v * b) % WordMod
    OBVIOUS
  <2> HIDE DEF step
  <2> QED BY <1>0, <2>1 DEF Descends
<1>2. PICK f \in [Nat -> Nat] : Follows(f, Nat, Stop, base, next, step)
  <2> HIDE DEF Stop, base, next, step, size
  <2> QED BY <1>1, Recursion
<1>3. \A n \in Nat : f[n] = IF n = 0 THEN 1 ELSE (f[n - 1] * b) % WordMod
  <2> TAKE n \in Nat
  <2>1. f[n] = IF n \in Stop THEN base[n] ELSE step[<<n, f[next[n]]>>]
    BY <1>2 DEF Follows
  <2>2. CASE n = 0
    BY <2>1, <2>2
  <2>3. CASE n # 0
    <3>1. n - 1 \in Nat /\ f[n - 1] \in Nat
      BY <1>2, <2>3
    <3> QED BY <2>1, <2>3, <3>1
  <2> QED BY <2>2, <2>3
<1>4. f = Rule(f)
  BY <1>2, <1>3
<1>5. Digit = Rule(Digit)
  <2> HIDE DEF Rule
  <2> QED BY <1>4
<1>6. \A k : DigitAfter(k, b) = Digit[k]
  BY DEF DigitAfter
<1> HIDE DEF Digit
<1>7. \A n \in Nat : Digit[n] = IF n = 0 THEN 1 ELSE (Digit[n - 1] * b) % WordMod
  BY <1>5
<1>8. \A n \in Nat : n + 1 \in Nat /\ n + 1 # 0 /\ (n + 1) - 1 = n
  OBVIOUS
<1> QED BY <1>6, <1>7, <1>8

(* As long as a word holds it, it is a power of the base.                     *)
LEMMA DigitAfterIs ==
  ASSUME NEW b \in Bases, NEW k \in Nat, k = 0 \/ Power(b, k) < WordMod
  PROVE  DigitAfter(k, b) = Power(b, k)
<1> DEFINE S == {n \in Nat : n = 0 \/ Power(b, n) < WordMod =>
                               DigitAfter(n, b) = Power(b, n)}
<1>1. /\ \A n \in Nat : /\ Power(b, n) \in Nat
                        /\ Power(b, n + 1) = b * Power(b, n)
                        /\ Power(b, n) < Power(b, n + 1)
      /\ Power(b, 0) = 1 /\ b \in Nat /\ WordMod \in Nat
  BY PowerIs, PowerGrows, BaseIs, PrintfAssumption
<1>2. 0 \in S
  BY <1>1, DigitAfterRule
<1>3. ASSUME NEW n \in Nat, n \in S PROVE n + 1 \in S
  <2>1. SUFFICES ASSUME Power(b, n + 1) < WordMod
                 PROVE  DigitAfter(n + 1, b) = Power(b, n + 1)
    OBVIOUS
  <2>2. DigitAfter(n, b) = Power(b, n)
    BY <1>1, <1>3, <2>1
  <2>3. DigitAfter(n + 1, b) = (Power(b, n) * b) % WordMod
    BY <2>2, DigitAfterRule
  <2>4. Power(b, n) * b = Power(b, n + 1) /\ Power(b, n + 1) \in Nat
    BY <1>1
  <2>5. Power(b, n + 1) = 0 * WordMod + Power(b, n + 1)
    BY <1>1
  <2>6. Power(b, n + 1) % WordMod = Power(b, n + 1)
    BY <1>1, <2>1, <2>4, <2>5, QuotientIs
  <2> QED BY <2>3, <2>4, <2>6
<1> HIDE DEF S
<1>4. k \in S
  BY <1>2, <1>3, Induction
<1> QED BY <1>4 DEF S

(* Where the second loop ends: at the weight of the first of so many digits.  *)
LEMMA FirstDigitIs ==
  ASSUME NEW b \in Bases, NEW v \in Nat, v < WordMod, NEW N \in Nat,
         N = 0 \/ Power(b, N - 1) < WordMod
  PROVE  FirstDigit(v, b, N) = Power(b, Larger(DigitsOf(v, b), N) - 1)
<1> DEFINE d == DigitsOf(v, b)
           w == Larger(d, N)
           Ends(k) == N <= k + 1 /\ v \div DigitAfter(k, b) < b
           First(k) == Ends(k) /\ \A i \in 0..(k - 1) : ~Ends(i)
<1>1. /\ d \in Nat \ {0} /\ v < Power(b, d)
      /\ d = 1 \/ Power(b, d - 1) <= v
  BY DigitsOfIs
<1> HIDE DEF d
<1>2. w \in {d, N} /\ d <= w /\ N <= w /\ w \in Nat \ {0}
  <2>1. w \in {d, N} /\ d <= w /\ N <= w
    BY <1>1, LargerIs
  <2> QED BY <1>1, <2>1
<1> HIDE DEF w
<1>3. \A k \in Nat : Power(b, k) \in Nat \ {0} /\ k < Power(b, k)
  BY PowerGrows
<1>4. w - 1 \in Nat /\ (w - 1 = 0 \/ Power(b, w - 1) < WordMod)
  <2>1. CASE w = d
    <3>1. w = 1 \/ Power(b, w - 1) <= v
      BY <1>1, <2>1
    <3>2. ASSUME w # 1 PROVE Power(b, w - 1) < WordMod
      <4>1. w - 1 \in Nat /\ Power(b, w - 1) <= v
        BY <1>2, <3>1, <3>2
      <4>2. Power(b, w - 1) \in Nat
        BY <1>3, <4>1
      <4> QED BY <4>1, <4>2, PrintfAssumption
    <3> QED BY <1>2, <3>2
  <2>2. CASE w = N
    BY <1>2, <2>2
  <2> QED BY <1>2, <2>1, <2>2
<1>5. DigitAfter(w - 1, b) = Power(b, w - 1)
  BY <1>4, DigitAfterIs
<1>6. Ends(w - 1)
  <2>1. Power(b, d) <= Power(b, w)
    BY <1>1, <1>2, PowerOrder
  <2>2. Power(b, (w - 1) + 1) = b * Power(b, w - 1) /\ (w - 1) + 1 = w
    BY <1>2, <1>4, PowerIs
  <2>3. Power(b, d) \in Nat /\ Power(b, w) \in Nat /\ Power(b, w - 1) \in Nat \ {0}
    BY <1>1, <1>2, <1>3, <1>4
  <2>4. v < b * Power(b, w - 1)
    BY <1>1, <2>1, <2>2, <2>3
  <2>5. v \div Power(b, w - 1) < b
    BY <2>3, <2>4, BaseIs, QuotientBelow
  <2> QED BY <1>2, <1>5, <2>5
<1>7. ASSUME NEW i \in 0..(w - 2) PROVE ~Ends(i)
  <2>0. i \in Nat /\ i + 1 < w /\ i + 1 \in Nat
    BY <1>2
  <2>1. CASE w = N
    BY <2>0, <2>1
  <2>2. CASE w = d
    <3>1. Power(b, d - 1) <= v /\ d - 1 \in Nat /\ i + 1 <= d - 1
      BY <1>1, <1>2, <2>0, <2>2
    <3>2. Power(b, i + 1) <= Power(b, d - 1)
      BY <2>0, <3>1, PowerOrder
    <3>3. Power(b, i + 1) = b * Power(b, i)
      BY <2>0, PowerIs
    <3>4. Power(b, i) < Power(b, i + 1)
      BY <2>0, PowerGrows
    <3>5. /\ Power(b, i) \in Nat \ {0} /\ Power(b, i + 1) \in Nat
          /\ Power(b, d - 1) \in Nat
      BY <1>3, <2>0, <3>1
    <3>6. Power(b, i) < WordMod
      BY <3>1, <3>2, <3>4, <3>5, PrintfAssumption
    <3>7. DigitAfter(i, b) = Power(b, i)
      BY <2>0, <3>6, DigitAfterIs
    <3>8. ~(v < b * Power(b, i))
      BY <3>1, <3>2, <3>3, <3>5
    <3>9. ~(v \div Power(b, i) < b)
      BY <3>5, <3>8, BaseIs, QuotientBelow
    <3> QED BY <3>7, <3>9
  <2> QED BY <1>2, <2>1, <2>2
<1>8. w - 1 \in 0..Larger(v, N)
  <2>1. v <= Larger(v, N) /\ N <= Larger(v, N) /\ Larger(v, N) \in Nat
    BY LargerIs DEF Larger
  <2>2. d - 1 <= v
    <3>1. CASE d = 1
      BY <3>1
    <3>2. CASE d # 1
      <4>1. d - 1 \in Nat /\ Power(b, d - 1) <= v /\ d - 1 < Power(b, d - 1)
            /\ Power(b, d - 1) \in Nat
        BY <1>1, <1>3, <3>2
      <4> QED BY <4>1
    <3> QED BY <3>1, <3>2
  <2> QED BY <1>1, <1>2, <2>1, <2>2
<1> HIDE DEF Ends
<1>9. First(w - 1)
  <2>1. (w - 1) - 1 = w - 2
    BY <1>2
  <2> QED BY <1>6, <1>7, <2>1
<1>10. ASSUME NEW k \in 0..Larger(v, N), First(k) PROVE k = w - 1
  <2>1. ~(k < w - 1)
    BY <1>4, <1>7, <1>10, <1>2
  <2>2. ~(w - 1 < k)
    BY <1>4, <1>6, <1>10
  <2> QED BY <1>2, <2>1, <2>2
<1>11. (CHOOSE k \in 0..Larger(v, N) : First(k)) = w - 1
  <2> HIDE DEF First
  <2> QED BY <1>8, <1>9, <1>10
<1>12. FirstDigit(v, b, N)
         = DigitAfter(CHOOSE k \in 0..Larger(v, N) : First(k), b)
  BY DEF FirstDigit, Ends
<1> QED BY <1>5, <1>11, <1>12 DEF w, d

(* The third loop: a digit, and what is left of v and of the weight.          *)
Digits == {_aV2C(n) : n \in Nat}

LEMMA DigitsFromRule ==
  ASSUME NEW b \in Bases
  PROVE  \A d \in Nat \ {0}, v \in Nat :
           /\ DigitsFrom(v, b, d) \in Seq(Digits)
           /\ DigitsFrom(v, b, d) =
                <<_aV2C(v \div d)>>
                  \o (IF d \div b = 0 THEN <<>>
                      ELSE DigitsFrom(v % d, b, d \div b))
<1> DEFINE D == Nat \ {0}
           V == [Nat -> Seq(Digits)]
           Stop == {d \in D : d \div b = 0}
           base == [d \in D |-> [n \in Nat |-> <<_aV2C(n \div d)>> \o <<>>]]
           next == [d \in D |-> d \div b]
           size == [d \in D |-> d]
           step == [y \in D \X V |->
                      [n \in Nat |-> <<_aV2C(n \div y[1])>> \o y[2][n % y[1]]]]
           Rule(f) == [d \in Nat \ {0} |->
                        [n \in Nat |-> <<_aV2C(n \div d)>>
                                         \o (IF d \div b = 0 THEN <<>>
                                             ELSE f[d \div b][n % d])]]
           digits == CHOOSE f : f = Rule(f)
<1>0. ASSUME NEW d \in D, NEW n \in Nat
      PROVE  <<_aV2C(n \div d)>> \in Seq(Digits) /\ n % d \in Nat
  <2>1. n \div d \in Nat /\ n % d \in Nat
    BY Divided
  <2> QED BY <2>1 DEF Digits
<1>1. Descends(D, V, Stop, base, next, step, size)
  <2>1. \A d \in D, g \in V :
          step[<<d, g>>] = [n \in Nat |-> <<_aV2C(n \div d)>> \o g[n % d]]
    OBVIOUS
  <2>2. ASSUME NEW d \in D PROVE base[d] \in V
    BY <1>0
  <2>3. ASSUME NEW d \in D, NEW g \in V PROVE step[<<d, g>>] \in V
    <3> HIDE DEF step
    <3>1. ASSUME NEW n \in Nat
          PROVE  <<_aV2C(n \div d)>> \o g[n % d] \in Seq(Digits)
      <4>1. <<_aV2C(n \div d)>> \in Seq(Digits) /\ n % d \in Nat
        BY <1>0
      <4>2. g[n % d] \in Seq(Digits)
        BY <4>1
      <4> QED BY <4>1, <4>2
    <3>2. step[<<d, g>>] = [n \in Nat |-> <<_aV2C(n \div d)>> \o g[n % d]]
      <4> HIDE DEF V, D
      <4> QED BY <2>1
    <3> QED BY <3>1, <3>2
  <2>4. ASSUME NEW d \in D, d \notin Stop PROVE next[d] \in D /\ next[d] < d
    <3>1. d \div b \in Nat /\ d \div b # 0
      BY <2>4, DividedByBase
    <3>2. d \div b < d
      BY DividedByBase
    <3> QED BY <3>1, <3>2
  <2>5. \A d \in D : size[d] = d /\ size[d] \in Nat
    OBVIOUS
  <2> HIDE DEF D, V, Stop, base, next, size, step
  <2> QED BY <2>2, <2>3, <2>4, <2>5 DEF Descends
<1>2. PICK f \in [D -> V] : Follows(f, D, Stop, base, next, step)
  <2> HIDE DEF D, V, Stop, base, next, step, size
  <2> QED BY <1>1, Recursion
<1>3. \A d \in D : f[d] = [n \in Nat |-> <<_aV2C(n \div d)>>
                                 \o (IF d \div b = 0 THEN <<>>
                                     ELSE f[d \div b][n % d])]
  <2> TAKE d \in D
  <2>1. f[d] = IF d \in Stop THEN base[d] ELSE step[<<d, f[next[d]]>>]
    BY <1>2 DEF Follows
  <2>2. CASE d \div b = 0
    BY <2>1, <2>2
  <2>3. CASE d \div b # 0
    <3>1. d \div b \in D /\ f[d \div b] \in V /\ next[d] = d \div b
      <4>1. d \div b \in D
        BY <2>3, DividedByBase
      <4> QED BY <1>2, <4>1
    <3>2. step[<<d, f[d \div b]>>]
            = [n \in Nat |-> <<_aV2C(n \div d)>> \o f[d \div b][n % d]]
      BY <3>1
    <3> HIDE DEF step, V, next, base
    <3> QED BY <2>1, <2>3, <3>1, <3>2
  <2> QED BY <2>2, <2>3
<1>4. f = Rule(f)
  <2> HIDE DEF V
  <2> QED BY <1>2, <1>3
<1>5. digits = Rule(digits)
  <2> HIDE DEF Rule
  <2> QED BY <1>4
<1>6. \A d, v : DigitsFrom(v, b, d) = digits[d][v]
  BY DEF DigitsFrom
<1> HIDE DEF digits
<1>7. \A d \in D : digits[d] = [n \in Nat |-> <<_aV2C(n \div d)>>
                                 \o (IF d \div b = 0 THEN <<>>
                                     ELSE digits[d \div b][n % d])]
  BY <1>5
<1>8. \A d \in D, v \in Nat :
        digits[d][v] = <<_aV2C(v \div d)>>
                         \o (IF d \div b = 0 THEN <<>>
                             ELSE digits[d \div b][v % d])
  BY <1>7
<1>9. ASSUME NEW e \in D PROVE \A v \in Nat : digits[e][v] \in Seq(Digits)
  <2> DEFINE S == {d \in Nat : d # 0 =>
                     \A v \in Nat : digits[d][v] \in Seq(Digits)}
  <2>1. ASSUME NEW d \in Nat, \A m \in 0..(d - 1) : m \in S PROVE d \in S
    <3>1. SUFFICES ASSUME d # 0, NEW v \in Nat
                   PROVE  digits[d][v] \in Seq(Digits)
      OBVIOUS
    <3>2. <<_aV2C(v \div d)>> \in Seq(Digits) /\ v % d \in Nat
      BY <1>0, <3>1
    <3>3. digits[d][v] = <<_aV2C(v \div d)>>
                           \o (IF d \div b = 0 THEN <<>>
                               ELSE digits[d \div b][v % d])
      BY <1>8, <3>1
    <3>4. CASE d \div b = 0
      BY <3>2, <3>3, <3>4
    <3>5. CASE d \div b # 0
      <4>1. d \div b \in Nat /\ d \div b < d
        BY <3>1, DividedByBase
      <4> HIDE DEF S
      <4>2. d \div b \in S
        <5>1. d \div b \in 0..(d - 1)
          BY <4>1
        <5> QED BY <2>1, <5>1
      <4>3. digits[d \div b][v % d] \in Seq(Digits)
        BY <3>2, <3>5, <4>1, <4>2 DEF S
      <4> QED BY <3>2, <3>3, <3>5, <4>3
    <3> QED BY <3>4, <3>5
  <2> HIDE DEF S
  <2>2. e \in S
    BY <2>1, StrongInduction
  <2> QED BY <2>2 DEF S
<1> SUFFICES ASSUME NEW d \in D, NEW v \in Nat
             PROVE  /\ DigitsFrom(v, b, d) \in Seq(Digits)
                    /\ DigitsFrom(v, b, d) =
                         <<_aV2C(v \div d)>>
                           \o (IF d \div b = 0 THEN <<>>
                               ELSE DigitsFrom(v % d, b, d \div b))
  OBVIOUS
<1>10. digits[d][v] \in Seq(Digits)
  BY <1>9
<1>11. digits[d][v] = <<_aV2C(v \div d)>>
                        \o (IF d \div b = 0 THEN <<>>
                            ELSE digits[d \div b][v % d])
  BY <1>8
<1> QED BY <1>6, <1>10, <1>11, Zenon

(* The digits of v, of which there are n.                                     *)
Numerals(v, b, n) == [k \in 1..n |-> _aV2C((v \div Power(b, n - k)) % b)]

(* A digit is not changed by what is left of those above it.                  *)
LEMMA DigitOfRest ==
  ASSUME NEW b \in Bases, NEW p \in Nat \ {0}, NEW e \in Nat \ {0},
         NEW v \in Nat
  PROVE  /\ p * (b * e) \in Nat \ {0}
         /\ ((v % (p * (b * e))) \div p) % b = (v \div p) % b
<1> DEFINE d == p * (b * e)
           q == v \div d
           r == v % d
           s == r \div p
           t == r % p
           x == s \div b
           y == s % b
<1>0. b \in Nat \ {0} /\ b * e \in Nat \ {0}
  <2>1. \A i, j \in Nat \ {0} : i * j \in Nat \ {0}
    OBVIOUS
  <2> QED BY <2>1, BaseIs
<1>1. d \in Nat \ {0}
  BY <1>0
<1>2. q \in Nat /\ r \in Nat /\ v = q * d + r
  <2> HIDE DEF d
  <2> QED BY <1>1, Divided
<1>3. s \in Nat /\ t \in Nat /\ t < p /\ r = s * p + t
  <2> HIDE DEF r
  <2> QED BY <1>2, Divided
<1>4. x \in Nat /\ y \in Nat /\ y < b /\ s = x * b + y
  <2> HIDE DEF s
  <2> QED BY <1>0, <1>3, Divided
<1> HIDE DEF q, r, s, t, x, y
<1>5. q * d = (q * (b * e)) * p
  BY <1>0, <1>2
<1>6. ASSUME NEW i \in Nat, NEW j \in Nat PROVE (i + j) * p = i * p + j * p
  OBVIOUS
<1>7. q * (b * e) \in Nat /\ q * (b * e) = (q * e) * b /\ q * e \in Nat
  BY <1>0, <1>2
<1>8. (q * (b * e) + s) * p = (q * (b * e)) * p + s * p
  BY <1>3, <1>6, <1>7
<1>9. v \div p = q * (b * e) + s
  <2>0. (q * (b * e)) * p \in Nat /\ s * p \in Nat
    BY <1>3, <1>7
  <2>1. v = ((q * (b * e)) * p + s * p) + t
    <3> HIDE DEF d
    <3> QED BY <1>2, <1>3, <1>5, <2>0
  <2>2. v = (q * (b * e) + s) * p + t
    BY <1>8, <2>1
  <2>3. q * (b * e) + s \in Nat
    BY <1>3, <1>7
  <2> QED BY <1>3, <2>2, <2>3, QuotientIs
<1>10. (q * e + x) * b = (q * e) * b + x * b
  BY <1>0, <1>4, <1>7
<1>11. (v \div p) % b = y
  <2>0. (q * e) * b \in Nat /\ x * b \in Nat /\ q * e + x \in Nat
    BY <1>0, <1>4, <1>7
  <2>1. v \div p = (q * e + x) * b + y
    BY <1>4, <1>7, <1>9, <1>10, <2>0
  <2> QED BY <1>0, <1>4, <2>0, <2>1, QuotientIs
<1> QED BY <1>1, <1>11 DEF y, s, r

(* The third loop stores the digits of v.                                     *)
LEMMA DigitsFromIs ==
  ASSUME NEW b \in Bases, NEW n \in Nat, NEW v \in Nat, v < Power(b, n + 1)
  PROVE  DigitsFrom(v, b, Power(b, n)) = Numerals(v, b, n + 1)
<1> DEFINE S == {m \in Nat : \A u \in Nat : u < Power(b, m + 1) =>
                   DigitsFrom(u, b, Power(b, m)) = Numerals(u, b, m + 1)}
<1>1. /\ \A m \in Nat : Power(b, m) \in Nat \ {0}
      /\ \A m \in Nat : Power(b, m + 1) = b * Power(b, m)
      /\ Power(b, 0) = 1 /\ b \in Nat \ {0} /\ b >= 10
  BY PowerIs, PowerGrows, BaseIs
<1>2. ASSUME NEW m \in Nat, NEW u \in Nat
      PROVE  /\ Numerals(u, b, m) \in Seq(Digits) /\ Len(Numerals(u, b, m)) = m
             /\ \A k \in 1..m :
                  Numerals(u, b, m)[k] = _aV2C((u \div Power(b, m - k)) % b)
  <2>1. ASSUME NEW k \in 1..m
        PROVE  _aV2C((u \div Power(b, m - k)) % b) \in Digits
    <3>1. Power(b, m - k) \in Nat \ {0}
      BY <1>1
    <3>2. u \div Power(b, m - k) \in Nat
      BY <3>1, Divided
    <3>3. (u \div Power(b, m - k)) % b \in Nat
      BY <1>1, <3>2, Divided
    <3> QED BY <3>3 DEF Digits
  <2> QED BY <2>1 DEF Numerals
<1>3. 0 \in S
  <2> SUFFICES ASSUME NEW u \in Nat, u < Power(b, 0 + 1)
               PROVE  DigitsFrom(u, b, Power(b, 0)) = Numerals(u, b, 0 + 1)
    OBVIOUS
  <2>1. u < b
    <3>1. Power(b, 0 + 1) = b * Power(b, 0)
      BY <1>1
    <3> QED BY <1>1, <3>1
  <2>2. 1 \div b = 0 /\ u % b = u /\ u \div 1 = u
    <3>1. u = u * 1 + 0
      OBVIOUS
    <3>2. 1 \div b = 0
      BY <1>1, QuotientNone
    <3>3. u % b = u
      BY <1>1, <2>1, QuotientNone
    <3>4. u \div 1 = u
      BY <3>1, QuotientIs
    <3> QED BY <3>2, <3>3, <3>4
  <2>3. DigitsFrom(u, b, 1) = <<_aV2C(u)>> \o <<>>
    <3>1. 1 \in Nat \ {0}
      OBVIOUS
    <3>2. DigitsFrom(u, b, 1) =
            <<_aV2C(u \div 1)>>
              \o (IF 1 \div b = 0 THEN <<>>
                  ELSE DigitsFrom(u % 1, b, 1 \div b))
      BY <3>1, DigitsFromRule
    <3> QED BY <2>2, <3>2, Zenon
  <2>4. _aV2C(u) \in Digits
    BY DEF Digits
  <2>5. Numerals(u, b, 1)[1] = _aV2C(u)
    <3>1. Numerals(u, b, 1)[1] = _aV2C((u \div Power(b, 1 - 1)) % b)
      BY <1>2
    <3> QED BY <1>1, <2>2, <3>1
  <2>6. Numerals(u, b, 1) \in Seq(Digits) /\ Len(Numerals(u, b, 1)) = 1
    BY <1>2
  <2>7. /\ <<_aV2C(u)>> \o <<>> \in Seq(Digits)
        /\ Len(<<_aV2C(u)>> \o <<>>) = 1 /\ (<<_aV2C(u)>> \o <<>>)[1] = _aV2C(u)
    <3>1. <<_aV2C(u)>> \o <<>> = <<_aV2C(u)>>
      BY <2>4, ConcatEmptySeq
    <3>2. <<_aV2C(u)>> \in Seq(Digits)
      BY <2>4
    <3> QED BY <3>1, <3>2
  <2>8. Numerals(u, b, 1) = <<_aV2C(u)>> \o <<>>
    BY <2>5, <2>6, <2>7, SeqEqual
  <2> QED BY <1>1, <2>3, <2>8
<1>4. ASSUME NEW m \in Nat, m \in S PROVE m + 1 \in S
  <2> SUFFICES ASSUME NEW u \in Nat, u < Power(b, (m + 1) + 1)
               PROVE  DigitsFrom(u, b, Power(b, m + 1))
                        = Numerals(u, b, (m + 1) + 1)
    OBVIOUS
  <2> DEFINE d == Power(b, m + 1)
             r == u % d
  <2>1. d \in Nat \ {0} /\ d = b * Power(b, m) /\ Power(b, m) \in Nat \ {0}
    BY <1>1
  <2>2. d \div b = Power(b, m)
    <3>1. d = Power(b, m) * b + 0
      BY <1>1, <2>1
    <3> HIDE DEF d
    <3> QED BY <1>1, <2>1, <3>1, QuotientIs
  <2>3. r \in Nat /\ r < d /\ u \div d \in Nat
    <3> HIDE DEF d
    <3> QED BY <2>1, Divided
  <2>4. u \div d < b
    <3>1. u < b * d
      BY <1>1
    <3> HIDE DEF d
    <3> QED BY <1>1, <2>1, <3>1, QuotientBelow
  <2> HIDE DEF d, r
  <2>5. DigitsFrom(u, b, d) = <<_aV2C(u \div d)>>
                                \o DigitsFrom(r, b, Power(b, m))
    BY <2>1, <2>2, DigitsFromRule DEF r
  <2>6. DigitsFrom(r, b, Power(b, m)) = Numerals(r, b, m + 1)
    BY <1>4, <2>3 DEF d
  <2> DEFINE one == <<_aV2C(u \div d)>>
             more == Numerals(r, b, m + 1)
             all == Numerals(u, b, m + 2)
  <2>7. /\ one \in Seq(Digits) /\ Len(one) = 1 /\ one[1] = _aV2C(u \div d)
        /\ more \in Seq(Digits) /\ Len(more) = m + 1
        /\ \A k \in 1..(m + 1) :
             more[k] = _aV2C((r \div Power(b, (m + 1) - k)) % b)
        /\ all \in Seq(Digits) /\ Len(all) = m + 2
        /\ \A k \in 1..(m + 2) :
             all[k] = _aV2C((u \div Power(b, (m + 2) - k)) % b)
    <3>1. one \in Seq(Digits) /\ Len(one) = 1 /\ one[1] = _aV2C(u \div d)
      BY <2>3 DEF Digits
    <3>2. m + 1 \in Nat /\ m + 2 \in Nat
      OBVIOUS
    <3> QED BY <1>2, <2>3, <3>1, <3>2
  <2> HIDE DEF one, more, all
  <2>8. /\ one \o more \in Seq(Digits) /\ Len(one \o more) = m + 2
        /\ \A i \in 1..(m + 2) : (one \o more)[i] =
             IF i <= 1 THEN one[i] ELSE more[i - 1]
    <3>1. /\ one \o more \in Seq(Digits)
          /\ Len(one \o more) = Len(one) + Len(more)
          /\ \A i \in 1..(Len(one) + Len(more)) : (one \o more)[i] =
               IF i <= Len(one) THEN one[i] ELSE more[i - Len(one)]
      BY <2>7, ConcatProperties
    <3>2. Len(one) + Len(more) = m + 2
      BY <2>7
    <3> QED BY <2>7, <3>1, <3>2
  <2>9. ASSUME NEW i \in 1..(m + 2) PROVE (one \o more)[i] = all[i]
    <3>1. CASE i = 1
      <4>1. (m + 2) - i = m + 1
        BY <3>1
      <4>2. all[i] = _aV2C((u \div d) % b)
        BY <2>7, <4>1 DEF d
      <4>3. (u \div d) % b = u \div d
        <5>1. u \div d = 0 * b + (u \div d)
          BY <1>1, <2>3
        <5> QED BY <1>1, <2>3, <2>4, <5>1, QuotientIs
      <4> QED BY <2>7, <2>8, <3>1, <4>2, <4>3
    <3>2. CASE i # 1
      <4> DEFINE j == (m + 2) - i
                 p == Power(b, j)
                 e == Power(b, m - j)
      <4>0. /\ i - 1 \in 1..(m + 1) /\ j \in Nat /\ m - j \in Nat
            /\ (m + 1) - (i - 1) = j /\ j + (m - j) = m
        BY <3>2
      <4>1. p \in Nat \ {0} /\ e \in Nat \ {0}
        BY <1>1, <4>0
      <4>2. d = p * (b * e)
        <5>1. Power(b, m) = p * e
          BY <4>0, PowerSum
        <5> HIDE DEF p, e
        <5>2. \A x, y \in Nat : b * (x * y) = x * (b * y)
          BY <1>1
        <5>3. b * (p * e) = p * (b * e)
          BY <4>1, <5>2
        <5> QED BY <2>1, <5>1, <5>3
      <4>3. (r \div p) % b = (u \div p) % b
        <5> HIDE DEF p, e
        <5> QED BY <4>1, <4>2, DigitOfRest DEF r
      <4>4. more[i - 1] = _aV2C((r \div p) % b)
        BY <2>7, <4>0
      <4>5. all[i] = _aV2C((u \div p) % b)
        BY <2>7
      <4>6. (one \o more)[i] = more[i - 1]
        BY <2>8, <3>2
      <4> QED BY <4>3, <4>4, <4>5, <4>6
    <3> QED BY <3>1, <3>2
  <2>10. one \o more = all
    BY <2>7, <2>8, <2>9, SeqEqual
  <2>11. (m + 1) + 1 = m + 2
    OBVIOUS
  <2> QED BY <2>5, <2>6, <2>10, <2>11 DEF one, more, all, d
<1> HIDE DEF S
<1>5. n \in S
  BY <1>3, <1>4, Induction
<1> QED BY <1>5 DEF S

(* The length the notes choose for a number is the one the loops count.       *)
LEMMA NumeralIs ==
  ASSUME NEW b \in Bases, NEW v \in Nat, v < WordMod, NEW least \in Nat
  PROVE  Numeral(v, b, least) = Numerals(v, b, Larger(DigitsOf(v, b), least))
<1> DEFINE d == DigitsOf(v, b)
           w == Larger(d, least)
           Fits(n) == /\ n >= least /\ v < Power(b, n)
                      /\ n = 1 \/ n = least \/ v >= Power(b, n - 1)
<1>1. /\ d \in Nat \ {0} /\ v < Power(b, d)
      /\ d = 1 \/ Power(b, d - 1) <= v
  BY DigitsOfIs
<1> HIDE DEF d
<1>2. w \in {d, least} /\ d <= w /\ least <= w /\ w \in Nat \ {0}
  <2>1. w \in {d, least} /\ d <= w /\ least <= w
    BY <1>1, LargerIs
  <2> QED BY <1>1, <2>1
<1> HIDE DEF w
<1>3. \A n \in Nat : Power(b, n) \in Nat /\ n < Power(b, n)
  BY PowerGrows
<1>4. w \in 1..Larger(WordMod, least)
  <2>1. WordMod <= Larger(WordMod, least) /\ least <= Larger(WordMod, least)
        /\ Larger(WordMod, least) \in Nat /\ WordMod \in Nat \ {0}
    BY PrintfAssumption, LargerIs DEF Larger
  <2>2. d <= WordMod
    <3>1. CASE d = 1
      BY <2>1, <3>1
    <3>2. CASE d # 1
      <4>1. d - 1 \in Nat /\ Power(b, d - 1) <= v /\ d - 1 < Power(b, d - 1)
            /\ Power(b, d - 1) \in Nat
        BY <1>1, <1>3, <3>2
      <4>2. d - 1 < WordMod
        BY <2>1, <4>1
      <4> QED BY <1>1, <2>1, <4>2
    <3> QED BY <3>1, <3>2
  <2> QED BY <1>1, <1>2, <2>1, <2>2
<1>5. Fits(w)
  <2>1. v < Power(b, w)
    <3>1. Power(b, d) <= Power(b, w) /\ Power(b, d) \in Nat /\ Power(b, w) \in Nat
      BY <1>1, <1>2, <1>3, PowerOrder
    <3> QED BY <1>1, <3>1
  <2>2. w = 1 \/ w = least \/ v >= Power(b, w - 1)
    <3>1. CASE w = least
      BY <3>1
    <3>2. CASE w = d
      <4>1. w = 1 \/ Power(b, w - 1) <= v
        BY <1>1, <3>2
      <4> QED BY <4>1
    <3> QED BY <1>2, <3>1, <3>2
  <2> QED BY <1>2, <2>1, <2>2
<1>6. ASSUME NEW n \in 1..Larger(WordMod, least), Fits(n) PROVE n = w
  <2>0. n \in Nat \ {0} /\ n - 1 \in Nat
    <3>1. Larger(WordMod, least) \in Nat
      BY PrintfAssumption, LargerIs DEF Larger
    <3> QED BY <3>1
  <2>1. d <= n
    <3> SUFFICES ASSUME n < d PROVE FALSE
      BY <1>1, <2>0
    <3>1. d - 1 \in Nat /\ n <= d - 1 /\ Power(b, d - 1) <= v
      BY <1>1, <2>0
    <3>2. Power(b, n) <= Power(b, d - 1) /\ Power(b, n) \in Nat
          /\ Power(b, d - 1) \in Nat
      BY <1>3, <2>0, <3>1, PowerOrder
    <3> QED BY <1>6, <3>1, <3>2
  <2>2. w <= n
    BY <1>1, <1>2, <1>6, <2>1
  <2>3. ~(w < n)
    <3> SUFFICES ASSUME w < n PROVE FALSE
      OBVIOUS
    <3>1. v >= Power(b, n - 1)
      BY <1>2, <1>6, <2>0
    <3>2. d <= n - 1
      BY <1>1, <1>2, <2>0
    <3>3. Power(b, d) <= Power(b, n - 1) /\ Power(b, d) \in Nat
          /\ Power(b, n - 1) \in Nat
      BY <1>1, <1>3, <2>0, <3>2, PowerOrder
    <3> QED BY <1>1, <3>1, <3>3
  <2> QED BY <1>2, <2>0, <2>2, <2>3
<1>7. (CHOOSE n \in 1..Larger(WordMod, least) : Fits(n)) = w
  <2> HIDE DEF Fits
  <2> QED BY <1>4, <1>5, <1>6
<1>8. Numeral(v, b, least)
        = Numerals(v, b, CHOOSE n \in 1..Larger(WordMod, least) : Fits(n))
  BY DEF Numeral, Numerals
<1> QED BY <1>7, <1>8 DEF w, d

(* What the three loops store is what the notes say.                          *)
LEMMA LoopsPrintNumeral ==
  ASSUME NEW b \in Bases, NEW v \in Nat, v < WordMod, NEW N \in Nat,
         N = 0 \/ Power(b, N - 1) < WordMod
  PROVE  /\ DigitsFrom(v, b, FirstDigit(v, b, N)) = Numeral(v, b, N)
         /\ Numeral(v, b, N) \in Seq(Digits)
         /\ Len(Numeral(v, b, N)) = Larger(DigitsOf(v, b), N)
         /\ Larger(DigitsOf(v, b), N) \in Nat /\ N <= Larger(DigitsOf(v, b), N)
<1> DEFINE d == DigitsOf(v, b)
           w == Larger(d, N)
<1>1. d \in Nat \ {0} /\ v < Power(b, d)
  BY DigitsOfIs
<1> HIDE DEF d
<1>2. w \in {d, N} /\ d <= w /\ N <= w /\ w \in Nat \ {0}
  <2>1. w \in {d, N} /\ d <= w /\ N <= w
    BY <1>1, LargerIs
  <2> QED BY <1>1, <2>1
<1> HIDE DEF w
<1>3. w - 1 \in Nat /\ (w - 1) + 1 = w
  BY <1>2
<1>4. v < Power(b, w)
  <2>1. Power(b, d) <= Power(b, w) /\ Power(b, d) \in Nat /\ Power(b, w) \in Nat
    BY <1>1, <1>2, PowerOrder, PowerGrows
  <2> QED BY <1>1, <2>1
<1>5. FirstDigit(v, b, N) = Power(b, w - 1)
  BY FirstDigitIs DEF w, d
<1>6. DigitsFrom(v, b, Power(b, w - 1)) = Numerals(v, b, w)
  <2>1. v < Power(b, (w - 1) + 1)
    BY <1>3, <1>4
  <2>2. DigitsFrom(v, b, Power(b, w - 1)) = Numerals(v, b, (w - 1) + 1)
    BY <1>3, <2>1, DigitsFromIs
  <2> QED BY <1>3, <2>2
<1>7. Numeral(v, b, N) = Numerals(v, b, w)
  BY NumeralIs DEF w, d
<1>8. Numerals(v, b, w) \in Seq(Digits)
  <2>1. Power(b, w - 1) \in Nat \ {0}
    BY <1>3, PowerGrows
  <2>2. DigitsFrom(v, b, Power(b, w - 1)) \in Seq(Digits)
    BY <2>1, DigitsFromRule
  <2> QED BY <1>6, <2>2
<1>9. Len(Numerals(v, b, w)) = w
  BY <1>2 DEF Numerals
<1>10. DigitsFrom(v, b, FirstDigit(v, b, N)) = Numeral(v, b, N)
  BY <1>5, <1>6, <1>7
<1> QED BY <1>2, <1>7, <1>8, <1>9, <1>10 DEF w, d

------------------------------------------------------------------------------
(* Fields.                                                                    *)

Characters == Digits \union {"-", "+", " ", "0", "c"}

(* The filling, if there is any to do.                                        *)
LEMMA FillIs ==
  ASSUME NEW c \in Characters, NEW n \in Int
  PROVE  /\ Fill(c, n) \in Seq(Characters)
         /\ n <= 0 => Fill(c, n) = <<>>
         /\ Fill(c, Larger(n, 0)) = Fill(c, n)
<1>1. Larger(n, 0) \in Nat /\ (n <= 0 => Larger(n, 0) = 0)
      /\ Larger(Larger(n, 0), 0) = Larger(n, 0)
  BY DEF Larger
<1>2. Fill(c, n) \in Seq(Characters)
  BY <1>1 DEF Fill
<1>3. ASSUME n <= 0 PROVE Fill(c, n) = <<>>
  BY <1>1, <1>3 DEF Fill
<1>4. Fill(c, Larger(n, 0)) = Fill(c, n)
  BY <1>1 DEF Fill
<1> QED BY <1>2, <1>3, <1>4

(* A text with nothing before, in or after it.                                *)
LEMMA Nothing ==
  ASSUME NEW s \in Seq(Characters)
  PROVE  s \o <<>> = s /\ <<>> \o s = s
BY ConcatEmptySeq

(* An argument as the word it is passed in, and its absolute value.           *)
LEMMA Words ==
  ASSUME NEW v \in Values
  PROVE  /\ AsUnsigned(v) \in Nat /\ AsUnsigned(v) < WordMod
         /\ Abs(v) \in Nat /\ Abs(v) < WordMod
<1>1. v \in Int /\ -WordMod < 2 * v /\ 2 * v < WordMod /\ WordMod \in Nat
  BY PrintfAssumption
<1> QED BY <1>1 DEF AsUnsigned, Abs

(* _PrintUnsigned puts the number into its field.                             *)
LEMMA UnsignedAsDocumented ==
  ASSUME NEW b \in Bases, NEW v \in Nat, v < WordMod, NEW N \in Nat,
         N = 0 \/ Power(b, N - 1) < WordMod, NEW W \in Int, NEW flags
  PROVE  _PrintUnsigned(v, b, N, W, flags)
           = InField(<<>>, Numeral(v, b, N), W, flags, N)
<1> DEFINE num == Numeral(v, b, N)
           w == Larger(DigitsOf(v, b), N)
<1>1. /\ DigitsFrom(v, b, FirstDigit(v, b, N)) = num
      /\ num \in Seq(Characters) /\ Len(num) = w /\ w \in Nat
  <2>1. num \in Seq(Digits) /\ Digits \subseteq Characters
    BY LoopsPrintNumeral DEF Characters
  <2>2. num \in Seq(Characters)
    <3> HIDE DEF num
    <3> QED BY <2>1, SeqMonotonic
  <2> QED BY <2>2, LoopsPrintNumeral
<1> DEFINE print(front, back) == front \o num \o back
           pad == IF "0" \in flags /\ N = 0 THEN "0" ELSE " "
<1>2. _PrintUnsigned(v, b, N, W, flags) =
        print(IF "-" \in flags THEN <<>> ELSE Fill(pad, W - w),
              IF "-" \in flags THEN Fill(" ", W - w) ELSE <<>>)
  BY <1>1 DEF _PrintUnsigned
<1> HIDE DEF num, w
<1>3. /\ W - w \in Int /\ W - Len(<<>>) - Len(num) = W - w
  BY <1>1
<1>4. /\ Fill(" ", W - w) \in Seq(Characters)
      /\ Fill("0", W - w) \in Seq(Characters)
  BY <1>3, FillIs DEF Characters
<1>5. CASE "-" \in flags
  <2>1. InField(<<>>, num, W, flags, N) = <<>> \o num \o Fill(" ", W - w)
    BY <1>3, <1>5 DEF InField
  <2> QED BY <1>2, <1>5, <2>1 DEF num
<1>6. CASE "-" \notin flags
  <2>1. _PrintUnsigned(v, b, N, W, flags) = (Fill(pad, W - w) \o num) \o <<>>
    BY <1>2, <1>6
  <2>2. pad \in {" ", "0"} /\ Fill(pad, W - w) \in Seq(Characters)
    BY <1>4
  <2>3. (Fill(pad, W - w) \o num) \o <<>> = Fill(pad, W - w) \o num
    <3>1. Fill(pad, W - w) \o num \in Seq(Characters)
      BY <1>1, <2>2, ConcatProperties
    <3> QED BY <3>1, Nothing
  <2>4. CASE "0" \in flags /\ N = 0
    <3>1. InField(<<>>, num, W, flags, N) = (<<>> \o Fill("0", W - w)) \o num
      BY <1>3, <1>6, <2>4 DEF InField
    <3>2. <<>> \o Fill("0", W - w) = Fill("0", W - w)
      BY <1>4, Nothing
    <3> QED BY <2>1, <2>3, <2>4, <3>1, <3>2 DEF num
  <2>5. CASE ~("0" \in flags /\ N = 0)
    <3>1. InField(<<>>, num, W, flags, N) = (Fill(" ", W - w) \o <<>>) \o num
      BY <1>3, <1>6, <2>5 DEF InField
    <3>2. Fill(" ", W - w) \o <<>> = Fill(" ", W - w)
      BY <1>4, Nothing
    <3> QED BY <2>1, <2>3, <2>5, <3>1, <3>2 DEF num
  <2> QED BY <2>4, <2>5
<1> QED BY <1>5, <1>6

(* What is to be put into a field is made of characters.                      *)
LEMMA InFieldType ==
  ASSUME NEW sign \in Seq(Characters), NEW digits \in Seq(Characters),
         NEW W \in Int, NEW flags, NEW N
  PROVE  InField(sign, digits, W, flags, N) \in Seq(Characters)
<1> DEFINE fill == W - Len(sign) - Len(digits)
<1>1. fill \in Int
  BY LenProperties
<1> HIDE DEF fill
<1>2. Fill(" ", fill) \in Seq(Characters) /\ Fill("0", fill) \in Seq(Characters)
  BY <1>1, FillIs DEF Characters
<1>3. ASSUME NEW r \in Seq(Characters), NEW s \in Seq(Characters),
             NEW t \in Seq(Characters)
      PROVE  (r \o s) \o t \in Seq(Characters)
  <2>1. r \o s \in Seq(Characters)
    BY ConcatProperties
  <2> QED BY <2>1, ConcatProperties
<1>4. InField(sign, digits, W, flags, N) =
        IF "-" \in flags THEN sign \o digits \o Fill(" ", fill)
        ELSE IF "0" \in flags /\ N = 0 THEN sign \o Fill("0", fill) \o digits
        ELSE Fill(" ", fill) \o sign \o digits
  BY DEF InField, fill
<1>5. CASE "-" \in flags
  <2>1. InField(sign, digits, W, flags, N) = (sign \o digits) \o Fill(" ", fill)
    BY <1>4, <1>5
  <2>2. (sign \o digits) \o Fill(" ", fill) \in Seq(Characters)
    BY <1>2, <1>3
  <2> QED BY <2>1, <2>2, Zenon
<1>6. CASE "-" \notin flags /\ "0" \in flags /\ N = 0
  <2>1. InField(sign, digits, W, flags, N) = (sign \o Fill("0", fill)) \o digits
    BY <1>4, <1>6
  <2>2. (sign \o Fill("0", fill)) \o digits \in Seq(Characters)
    BY <1>2, <1>3
  <2> QED BY <2>1, <2>2, Zenon
<1>7. CASE "-" \notin flags /\ ~("0" \in flags /\ N = 0)
  <2>1. InField(sign, digits, W, flags, N) = (Fill(" ", fill) \o sign) \o digits
    BY <1>4, <1>7
  <2>2. (Fill(" ", fill) \o sign) \o digits \in Seq(Characters)
    BY <1>2, <1>3
  <2> QED BY <2>1, <2>2, Zenon
<1> QED BY <1>5, <1>6, <1>7

(* _PrintInt puts the number and its sign into the field.                     *)
LEMMA IntAsDocumented ==
  ASSUME NEW b \in Bases, NEW v \in Int, Abs(v) \in Nat, Abs(v) < WordMod,
         NEW N \in Nat, N = 0 \/ Power(b, N - 1) < WordMod,
         NEW W \in Nat, NEW flags
  PROVE  _PrintInt(v, b, N, W, flags)
           = InField(IF v < 0 THEN <<"-">>
                     ELSE IF "+" \in flags THEN <<"+">> ELSE <<>>,
                     Numeral(Abs(v), b, N), W, flags, N)
<1> DEFINE num == Numeral(Abs(v), b, N)
           w == Larger(DigitsOf(Abs(v), b), N)
           sign == IF v < 0 THEN <<"-">>
                   ELSE IF "+" \in flags THEN <<"+">> ELSE <<>>
           Field == Larger(W - Len(sign), 0)
           padded == "-" \notin flags /\ Field > w
           spaces == padded /\ ("0" \notin flags \/ N # 0)
           zeros == padded /\ ~spaces
           front == IF spaces THEN Fill(" ", Field - w) ELSE <<>>
           middle == IF zeros THEN Fill("0", Field - w) ELSE <<>>
           inner == IF padded THEN w ELSE Field
           print == _PrintUnsigned(Abs(v), b, N, inner, flags)
           fill == W - Len(sign) - Len(num)
<1>1. /\ num \in Seq(Characters) /\ Len(num) = w /\ w \in Nat
  <2>1. num \in Seq(Digits) /\ Digits \subseteq Characters
    BY LoopsPrintNumeral DEF Characters
  <2>2. num \in Seq(Characters)
    <3> HIDE DEF num
    <3> QED BY <2>1, SeqMonotonic
  <2> QED BY <2>2, LoopsPrintNumeral
<1>2. _PrintInt(v, b, N, W, flags) = ((front \o sign) \o middle) \o print
  BY DEF _PrintInt
<1>3. sign \in Seq(Characters) /\ Len(sign) \in Nat
  <2>1. <<"-">> \in Seq(Characters) /\ <<"+">> \in Seq(Characters)
        /\ <<>> \in Seq(Characters)
    BY DEF Characters
  <2>2. sign \in Seq(Characters)
    BY <2>1
  <2> QED BY <2>2, LenProperties
<1> HIDE DEF sign
<1>4. Field \in Nat /\ Field = Larger(W - Len(sign), 0) /\ W - Len(sign) \in Int
      /\ (Field = W - Len(sign) \/ (Field = 0 /\ W - Len(sign) < 0))
  BY <1>3 DEF Larger
<1>5. print = InField(<<>>, num, inner, flags, N)
  <2>1. inner \in Int
    BY <1>1, <1>4
  <2> HIDE DEF inner
  <2> QED BY <2>1, UnsignedAsDocumented
<1> HIDE DEF num, w, Field
<1>6. /\ fill \in Int /\ Field - w \in Int /\ fill = W - Len(sign) - w
      /\ (Field > w => fill = Field - w)
      /\ (~(Field > w) => fill <= 0 /\ Field - w <= 0)
  BY <1>1, <1>3, <1>4
<1>7. /\ Fill(" ", fill) \in Seq(Characters) /\ Fill("0", fill) \in Seq(Characters)
      /\ fill <= 0 => Fill(" ", fill) = <<>> /\ Fill("0", fill) = <<>>
      /\ Fill(" ", Field - w) \in Seq(Characters)
      /\ Field - w <= 0 => Fill(" ", Field - w) = <<>>
  BY <1>6, FillIs DEF Characters
<1> DEFINE all == InField(sign, num, W, flags, N)
<1>8. all = IF "-" \in flags THEN sign \o num \o Fill(" ", fill)
            ELSE IF "0" \in flags /\ N = 0 THEN sign \o Fill("0", fill) \o num
            ELSE Fill(" ", fill) \o sign \o num
  BY DEF InField
<1>9. /\ <<>> \o sign = sign /\ sign \o <<>> = sign
      /\ <<>> \o num = num /\ num \o <<>> = num
  BY <1>1, <1>3, Nothing
<1>10. CASE "-" \in flags
  <2>1. front = <<>> /\ middle = <<>> /\ inner = Field
    BY <1>10
  <2>2. Fill(" ", Field - w) = Fill(" ", fill)
    <3>1. CASE Field > w
      BY <1>6, <3>1
    <3>2. CASE ~(Field > w)
      BY <1>6, <1>7, <3>2
    <3> QED BY <3>1, <3>2
  <2>3. print = (<<>> \o num) \o Fill(" ", Field - w)
    <3>1. Field - Len(<<>>) - Len(num) = Field - w
      BY <1>1, <1>4
    <3>2. InField(<<>>, num, Field, flags, N)
            = (<<>> \o num) \o Fill(" ", Field - Len(<<>>) - Len(num))
      BY <1>10 DEF InField
    <3> HIDE DEF print, inner
    <3> QED BY <1>5, <2>1, <3>1, <3>2
  <2>4. (sign \o num) \o Fill(" ", fill) = sign \o (num \o Fill(" ", fill))
    <3>1. \A t \in Seq(Characters) : (sign \o num) \o t = sign \o (num \o t)
      BY <1>1, <1>3, ConcatAssociative
    <3> HIDE DEF fill
    <3> QED BY <1>7, <3>1
  <2> HIDE DEF front, middle, print, fill, inner
  <2>5. _PrintInt(v, b, N, W, flags) = sign \o (num \o Fill(" ", fill))
    BY <1>2, <1>9, <2>1, <2>2, <2>3
  <2>6. all = (sign \o num) \o Fill(" ", fill)
    BY <1>8, <1>10
  <2> QED BY <2>4, <2>5, <2>6 DEF num, sign
<1>11. CASE "-" \notin flags
  <2>1. print = num
    <3>1. inner - Len(<<>>) - Len(num) <= 0 /\ inner - Len(<<>>) - Len(num) \in Int
      <4>1. inner <= w /\ inner \in Int
        BY <1>1, <1>4, <1>11
      <4> HIDE DEF inner
      <4> QED BY <1>1, <4>1
    <3>2. /\ Fill(" ", inner - Len(<<>>) - Len(num)) = <<>>
          /\ Fill("0", inner - Len(<<>>) - Len(num)) = <<>>
      <4> HIDE DEF inner
      <4> QED BY <3>1, FillIs DEF Characters
    <3>3. InField(<<>>, num, inner, flags, N) =
            IF "0" \in flags /\ N = 0 THEN (<<>> \o <<>>) \o num
            ELSE (<<>> \o <<>>) \o num
      <4> HIDE DEF inner
      <4> QED BY <1>11, <3>2 DEF InField
    <3>4. <<>> \o <<>> = <<>>
      <4>1. <<>> \in Seq(Characters)
        OBVIOUS
      <4> QED BY <4>1, Nothing
    <3> HIDE DEF print, inner
    <3> QED BY <1>5, <1>9, <3>3, <3>4
  <2> HIDE DEF print, fill
  <2>2. CASE spaces
    <3>1. front = Fill(" ", fill) /\ middle = <<>>
      BY <1>6, <2>2
    <3>2. (Fill(" ", fill) \o sign) \o <<>> = Fill(" ", fill) \o sign
      <4>1. Fill(" ", fill) \o sign \in Seq(Characters)
        BY <1>3, <1>7, ConcatProperties
      <4> QED BY <4>1, Nothing
    <3>3. all = (Fill(" ", fill) \o sign) \o num
      BY <1>8, <1>11, <2>2
    <3> HIDE DEF front, middle
    <3> QED BY <1>2, <2>1, <3>1, <3>2, <3>3 DEF num, sign
  <2>3. CASE zeros
    <3>1. front = <<>> /\ middle = Fill("0", fill)
      BY <1>6, <2>3
    <3>2. all = (sign \o Fill("0", fill)) \o num
      BY <1>8, <1>11, <2>3
    <3> HIDE DEF front, middle
    <3> QED BY <1>2, <1>9, <2>1, <3>1, <3>2 DEF num, sign
  <2>4. CASE ~padded
    <3>1. front = <<>> /\ middle = <<>>
      BY <2>4
    <3>2. Fill(" ", fill) = <<>> /\ Fill("0", fill) = <<>>
      BY <1>6, <1>7, <1>11, <2>4
    <3>3. all = sign \o num
      BY <1>8, <1>9, <1>11, <3>2
    <3> HIDE DEF front, middle
    <3> QED BY <1>2, <1>9, <2>1, <3>1, <3>3 DEF num, sign
  <2> QED BY <2>2, <2>3, <2>4
<1> QED BY <1>10, <1>11

(* Every conversion is formatted as the notes of SEGGER_RTT_printf say.       *)
THEOREM FormattedAsDocumented ==
  \A c \in Conversions : /\ Formatted(c) = Documented(c)
                         /\ Documented(c) \in Seq(Characters)
<1> SUFFICES ASSUME NEW c \in Conversions
             PROVE  /\ Formatted(c) = Documented(c)
                    /\ Documented(c) \in Seq(Characters)
  OBVIOUS
<1>b. 10 \in Bases /\ 16 \in Bases
  BY DEF Bases
<1>e. <<>> \in Seq(Characters) /\ <<"-">> \in Seq(Characters)
      /\ <<"+">> \in Seq(Characters)
  BY DEF Characters
<1>n. ASSUME NEW b \in Bases, NEW v \in Nat, v < WordMod, NEW N \in Nat,
             N = 0 \/ Power(b, N - 1) < WordMod
      PROVE  Numeral(v, b, N) \in Seq(Characters)
  <2>1. Numeral(v, b, N) \in Seq(Digits) /\ Digits \subseteq Characters
    BY <1>n, LoopsPrintNumeral DEF Characters
  <2> QED BY <2>1, SeqMonotonic
<1>1. CASE c \in {a \in [spec : {"d", "u", "x"}, v : Values,
                         flags : SUBSET {"-", "0", "+"}, width : Widths,
                         precision : Precisions] : FitsWord(a)}
  <2>0. /\ c.spec \in {"d", "u", "x"} /\ c.v \in Values
        /\ c.width \in Nat /\ c.precision \in Nat /\ FitsWord(c)
    BY <1>1, PrintfAssumption
  <2>1. /\ AsUnsigned(c.v) \in Nat /\ AsUnsigned(c.v) < WordMod
        /\ Abs(c.v) \in Nat /\ Abs(c.v) < WordMod /\ c.v \in Int
    BY <2>0, Words, PrintfAssumption
  <2>2. c.precision = 0 \/ Power(IF c.spec = "x" THEN 16 ELSE 10,
                                 c.precision - 1) < WordMod
    BY <2>0 DEF FitsWord
  <2>3. CASE c.spec = "d"
    <3> DEFINE sign == IF c.v < 0 THEN <<"-">>
                       ELSE IF "+" \in c.flags THEN <<"+">> ELSE <<>>
               num == Numeral(Abs(c.v), 10, c.precision)
    <3>1. c.precision = 0 \/ Power(10, c.precision - 1) < WordMod
      BY <2>2, <2>3
    <3>2. Formatted(c) = _PrintInt(c.v, 10, c.precision, c.width, c.flags)
      BY <2>3 DEF Formatted
    <3>3. Documented(c) = InField(sign, num, c.width, c.flags, c.precision)
      BY <2>3 DEF Documented
    <3>4. _PrintInt(c.v, 10, c.precision, c.width, c.flags)
            = InField(sign, num, c.width, c.flags, c.precision)
      BY <1>b, <2>0, <2>1, <3>1, IntAsDocumented
    <3>5. sign \in Seq(Characters) /\ num \in Seq(Characters) /\ c.width \in Int
      BY <1>b, <1>e, <1>n, <2>0, <2>1, <3>1
    <3> HIDE DEF sign, num
    <3>6. InField(sign, num, c.width, c.flags, c.precision) \in Seq(Characters)
      BY <3>5, InFieldType
    <3> QED BY <3>2, <3>3, <3>4, <3>6
  <2>4. CASE c.spec # "d"
    <3> DEFINE b == IF c.spec = "u" THEN 10 ELSE 16
               num == Numeral(AsUnsigned(c.v), b, c.precision)
    <3>1. b \in Bases /\ c.spec \in {"u", "x"}
      BY <1>b, <2>0, <2>4
    <3>2. c.precision = 0 \/ Power(b, c.precision - 1) < WordMod
      BY <2>0, <2>2, <2>4
    <3>3. Formatted(c)
            = _PrintUnsigned(AsUnsigned(c.v), b, c.precision, c.width, c.flags)
      BY <3>1 DEF Formatted
    <3>4. Documented(c) = InField(<<>>, num, c.width, c.flags, c.precision)
      BY <3>1 DEF Documented
    <3> HIDE DEF b
    <3>5. _PrintUnsigned(AsUnsigned(c.v), b, c.precision, c.width, c.flags)
            = InField(<<>>, num, c.width, c.flags, c.precision)
      <4>1. c.width \in Int
        BY <2>0
      <4> QED BY <2>0, <2>1, <3>1, <3>2, <4>1, UnsignedAsDocumented
    <3>6. num \in Seq(Characters) /\ c.width \in Int
      BY <1>n, <2>0, <2>1, <3>1, <3>2
    <3> HIDE DEF num
    <3>7. InField(<<>>, num, c.width, c.flags, c.precision) \in Seq(Characters)
      BY <1>e, <3>6, InFieldType
    <3> QED BY <3>3, <3>4, <3>5, <3>7
  <2> QED BY <2>3, <2>4
<1>2. CASE c \in [spec : {"p"}, v : Values]
  <2> DEFINE num == Numeral(AsUnsigned(c.v), 16, PointerDigits)
             w == Larger(DigitsOf(AsUnsigned(c.v), 16), PointerDigits)
  <2>0. c.spec = "p" /\ c.v \in Values /\ PointerDigits \in Nat
    BY <1>2, PrintfAssumption
  <2>1. AsUnsigned(c.v) \in Nat /\ AsUnsigned(c.v) < WordMod
    BY <2>0, Words
  <2>2. /\ num \in Seq(Characters) /\ Len(num) = w /\ w \in Nat
        /\ PointerDigits <= w
    BY <1>b, <1>n, <2>0, <2>1, PointerAssumption, LoopsPrintNumeral
  <2>3. Formatted(c) =
          _PrintUnsigned(AsUnsigned(c.v), 16, PointerDigits, PointerDigits, {})
    BY <2>0 DEF Formatted
  <2>4. Documented(c) = num
    BY <2>0 DEF Documented
  <2>5. _PrintUnsigned(AsUnsigned(c.v), 16, PointerDigits, PointerDigits, {})
          = InField(<<>>, num, PointerDigits, {}, PointerDigits)
    <3>1. PointerDigits \in Int
      BY <2>0
    <3> QED BY <1>b, <2>0, <2>1, <3>1, PointerAssumption, UnsignedAsDocumented
  <2> HIDE DEF num, w
  <2>6. PointerDigits - Len(<<>>) - Len(num) \in Int
        /\ PointerDigits - Len(<<>>) - Len(num) <= 0
    BY <2>0, <2>2
  <2>7. Fill(" ", PointerDigits - Len(<<>>) - Len(num)) = <<>>
    BY <2>6, FillIs DEF Characters
  <2>8. InField(<<>>, num, PointerDigits, {}, PointerDigits)
          = (<<>> \o <<>>) \o num
    BY <2>7 DEF InField
  <2>9. <<>> \o <<>> = <<>> /\ <<>> \o num = num
    BY <1>e, <2>2, Nothing
  <2> QED BY <2>2, <2>3, <2>4, <2>5, <2>8, <2>9
<1>3. CASE c \in [spec : {"s"}, width : Lengths]
  <2>1. c.spec = "s" /\ c.width \in Int
    <3>1. c.spec = "s" /\ c.width \in Lengths
      BY <1>3
    <3>2. \A n \in Lengths : n \in Int
      BY PrintfAssumption
    <3> QED BY <3>1, <3>2
  <2>2. Formatted(c) = Fill("c", c.width) /\ Documented(c) = Fill("c", c.width)
    BY <2>1 DEF Formatted, Documented
  <2>3. Fill("c", c.width) \in Seq(Characters)
    BY <2>1, FillIs DEF Characters
  <2> QED BY <2>2, <2>3
<1> QED BY <1>1, <1>2, <1>3 DEF Conversions

------------------------------------------------------------------------------
(* The calls.                                                                 *)

(* Some of the text is handed over; what was taken and what is left are       *)
(* together the same as before.                                               *)
LEMMA HandedOver ==
  ASSUME NEW s \in Seq(Characters), NEW r \in Seq(Characters),
         NEW m \in 0..Len(r)
  PROVE  /\ SubSeq(r, m + 1, Len(r)) \in Seq(Characters)
         /\ s \o SubSeq(r, 1, m) \in Seq(Characters)
         /\ Len(s \o SubSeq(r, 1, m)) = Len(s) + m
         /\ s \o r \in Seq(Characters) /\ Len(s \o r) = Len(s) + Len(r)
         /\ s \o SubSeq(r, 1, m) = SubSeq(s \o r, 1, Len(s) + m)
         /\ (s \o SubSeq(r, 1, m)) \o SubSeq(r, m + 1, Len(r)) = s \o r
<1> DEFINE f == SubSeq(r, 1, m)
           g == SubSeq(r, m + 1, Len(r))
           C == Characters
<1> HIDE DEF C
<1>0. /\ Len(r) \in Nat /\ Len(s) \in Nat /\ m \in Nat /\ m <= Len(r)
      /\ \A i \in 1..Len(r) : r[i] \in C
  BY ElementOfSeq, LenProperties DEF C
<1>1. /\ f \in Seq(C) /\ Len(f) = m /\ \A i \in 1..m : f[i] = r[i]
  <2>1. /\ f \in Seq(C) /\ Len(f) = IF 1 <= m THEN m - 1 + 1 ELSE 0
        /\ \A i \in 1..(m - 1 + 1) : f[i] = r[1 + i - 1]
    <3>1. \A i \in 1..m : r[i] \in C
      BY <1>0
    <3> QED BY <1>0, <3>1, SubSeqProperties
  <2> HIDE DEF f
  <2> QED BY <1>0, <2>1
<1>2. g \in Seq(C)
  <2>1. \A i \in (m + 1)..Len(r) : r[i] \in C
    BY <1>0
  <2> QED BY <1>0, <2>1, SubSeqProperties
<1>3. f \o g = r
  <2>1. f \o g = SubSeq(r, 1, Len(r))
    <3>1. /\ 1 \in 1..(Len(r) + 1) /\ m \in (1 - 1)..Len(r)
          /\ Len(r) \in m..Len(r) /\ r \in Seq(C)
      BY <1>0 DEF C
    <3> QED BY <3>1, ConcatAdjacentSubSeq
  <2>2. SubSeq(r, 1, Len(r)) = r
    BY SubSeqFull
  <2> QED BY <2>1, <2>2
<1> HIDE DEF f, g
<1>4. s \in Seq(C) /\ r \in Seq(C)
  BY DEF C
<1>5. /\ s \o f \in Seq(C) /\ Len(s \o f) = Len(s) + m
      /\ \A i \in 1..(Len(s) + m) : (s \o f)[i] =
           IF i <= Len(s) THEN s[i] ELSE f[i - Len(s)]
  <2>1. /\ s \o f \in Seq(C) /\ Len(s \o f) = Len(s) + Len(f)
        /\ \A i \in 1..(Len(s) + Len(f)) : (s \o f)[i] =
             IF i <= Len(s) THEN s[i] ELSE f[i - Len(s)]
    BY <1>1, <1>4, ConcatProperties
  <2> QED BY <1>1, <2>1
<1>6. /\ s \o r \in Seq(C) /\ Len(s \o r) = Len(s) + Len(r)
      /\ \A i \in 1..(Len(s) + Len(r)) : (s \o r)[i] =
           IF i <= Len(s) THEN s[i] ELSE r[i - Len(s)]
  BY <1>4, ConcatProperties
<1>7. (s \o f) \o g = s \o r
  <2>1. (s \o f) \o g = s \o (f \o g)
    BY <1>1, <1>2, <1>4, ConcatAssociative
  <2> QED BY <1>3, <2>1
<1>8. s \o f = SubSeq(s \o r, 1, Len(s) + m)
  <2> DEFINE h == SubSeq(s \o r, 1, Len(s) + m)
             n == Len(s) + m
  <2>1. \A i \in 1..n : (s \o r)[i] \in C
    <3>1. \A i \in 1..Len(s \o r) : (s \o r)[i] \in C
      BY <1>6, ElementOfSeq
    <3> QED BY <1>0, <1>6, <3>1
  <2>2. n \in Nat
    BY <1>0
  <2> HIDE DEF n
  <2>3. /\ SubSeq(s \o r, 1, n) \in Seq(C)
        /\ Len(SubSeq(s \o r, 1, n)) = IF 1 <= n THEN n - 1 + 1 ELSE 0
        /\ \A i \in 1..(n - 1 + 1) :
             SubSeq(s \o r, 1, n)[i] = (s \o r)[1 + i - 1]
    <3> DEFINE x == s \o r
    <3>1. \A i \in 1..n : x[i] \in C
      BY <2>1
    <3>2. n \in Int /\ 1 \in Int
      BY <2>2
    <3> HIDE DEF x
    <3>3. /\ SubSeq(x, 1, n) \in Seq(C)
          /\ Len(SubSeq(x, 1, n)) = IF 1 <= n THEN n - 1 + 1 ELSE 0
          /\ \A i \in 1..(n - 1 + 1) : SubSeq(x, 1, n)[i] = x[1 + i - 1]
      BY <3>1, <3>2, SubSeqProperties
    <3> QED BY <3>3 DEF x
  <2>4. /\ h \in Seq(C) /\ Len(h) = n
        /\ \A i \in 1..n : h[i] = (s \o r)[i]
    <3>1. h = SubSeq(s \o r, 1, n)
      BY DEF n
    <3> HIDE DEF h
    <3>2. (IF 1 <= n THEN n - 1 + 1 ELSE 0) = n /\ n - 1 + 1 = n
          /\ \A i \in 1..n : 1 + i - 1 = i
      BY <2>2
    <3>3. h \in Seq(C) /\ Len(h) = n
      BY <2>3, <3>1, <3>2
    <3>4. \A i \in 1..n : h[i] = (s \o r)[1 + i - 1]
      BY <2>3, <3>1, <3>2
    <3> QED BY <3>2, <3>3, <3>4
  <2> HIDE DEF h
  <2>5. ASSUME NEW i \in 1..n PROVE (s \o f)[i] = h[i]
    <3>1. h[i] = IF i <= Len(s) THEN s[i] ELSE r[i - Len(s)]
      BY <1>0, <1>6, <2>4 DEF n
    <3>2. (s \o f)[i] = IF i <= Len(s) THEN s[i] ELSE f[i - Len(s)]
      BY <1>5 DEF n
    <3>3. CASE i <= Len(s)
      BY <3>1, <3>2, <3>3
    <3>4. CASE ~(i <= Len(s))
      <4>1. i - Len(s) \in 1..m
        BY <1>0, <3>4 DEF n
      <4> QED BY <1>1, <3>1, <3>2, <3>4, <4>1
    <3> QED BY <3>3, <3>4
  <2>6. Len(s \o f) = Len(h)
    BY <1>5, <2>4 DEF n
  <2>7. \A i \in 1..Len(s \o f) : (s \o f)[i] = h[i]
    BY <1>5, <2>5 DEF n
  <2>8. s \o f = h
    BY <1>5, <2>4, <2>6, <2>7, SeqEqual
  <2> QED BY <2>8 DEF h
<1> QED BY <1>2, <1>5, <1>6, <1>7, <1>8 DEF f, g, C

(* What is printf's result instead of the bytes stored (ResultCounts): with a *)
(* negative one text is lost; else it is the length of the text and once more *)
(* that of the last, partial buffer, whether the RTT has taken that or not.   *)
ResultOvercounts ==
  ppc = "return" =>
    LET text == Documented(conversion) IN
    IF ReturnValue < 0 THEN Len(stored) < Len(text)
    ELSE /\ ReturnValue = Len(text) + Len(rest) /\ Len(rest) < PrintfBufferSize
         /\ Len(stored) >= Len(text) - Len(rest)

(* What is left of a call is what the notes say and the RTT does not have     *)
(* yet; afterwards the result tells how much it did not take.                 *)
FormatInv ==
  ppc = "format" =>
    /\ conversion \in Conversions
    /\ stored \o rest = Documented(conversion)
    /\ ReturnValue = Len(stored)

ReturnInv ==
  ppc = "return" =>
    /\ conversion \in Conversions
    /\ Len(stored) <= Len(Documented(conversion))
    /\ stored = SubSeq(Documented(conversion), 1, Len(stored))
    /\ ReturnValue \in Int
    /\ ResultOvercounts

TextInv ==
  /\ ppc \in {"idle", "format", "return"}
  /\ stored \in Seq(Characters) /\ rest \in Seq(Characters)
  /\ FormatInv /\ ReturnInv

(* The RTT takes no more than there is.                                       *)
LEMMA WrittenIs ==
  ASSUME TerminalTypeOK, NEW n \in Nat
  PROVE  Written(n) \in 0..n
<1>1. Avail \in Nat
  BY TerminalAssumption DEF TerminalTypeOK, Avail
<1> QED BY <1>1 DEF Written, Shorter

(* No call has begun.                                                         *)
LEMMA TextInit == PrintfInit => TextInv
<1>1. <<>> \in Seq(Characters)
  OBVIOUS
<1> QED BY <1>1 DEF PrintfInit, TextInv, FormatInv, ReturnInv

(* The beginning of a call: the text is the documented one.                   *)
LEMMA TextBegins ==
  ASSUME NEW c \in Conversions, SEGGER_RTT_vprintf(c)
  PROVE  TextInv'
<1> DEFINE text == Documented(c)
<1>1. text \in Seq(Characters) /\ Formatted(c) = text
  BY FormattedAsDocumented
<1>2. /\ ppc' = "format" /\ conversion' = c /\ rest' = text /\ stored' = <<>>
      /\ ReturnValue' = 0
  BY <1>1 DEF SEGGER_RTT_vprintf
<1>3. Documented(conversion') = text
  BY <1>2
<1>4. <<>> \o text = text
  <2> HIDE DEF text
  <2> QED BY <1>1, Nothing
<1>5. stored' \o rest' = Documented(conversion')
  BY <1>2, <1>3, <1>4
<1>6. FormatInv'
  <2>1. Len(<<>>) = 0
    OBVIOUS
  <2> QED BY <1>2, <1>5, <2>1 DEF FormatInv
<1>7. ReturnInv'
  BY <1>2 DEF ReturnInv
<1>8. stored' \in Seq(Characters) /\ rest' \in Seq(Characters)
  BY <1>1, <1>2, EmptySeq
<1> QED BY <1>2, <1>6, <1>7, <1>8 DEF TextInv

(* A full buffer: it is taken, or the call ends with an error.                *)
LEMMA TextStored ==
  ASSUME TextInv, TerminalTypeOK, _StoreChar
  PROVE  TextInv'
<1> DEFINE n == PrintfBufferSize
           m == Written(n)
           text == Documented(conversion)
<1>1. n \in Nat \ {0}
  BY PrintfAssumption
<1>2. m \in 0..n
  BY <1>1, WrittenIs
<1>3. /\ ppc = "format" /\ Len(rest) >= n /\ conversion' = conversion
      /\ stored' = stored \o SubSeq(rest, 1, m)
      /\ IF m = n
         THEN /\ rest' = SubSeq(rest, n + 1, Len(rest))
              /\ ReturnValue' = ReturnValue + n /\ ppc' = ppc
         ELSE ReturnValue' = -1 /\ ppc' = "return" /\ rest' = rest
  BY DEF _StoreChar, SEGGER_RTT_Write
<1>4. /\ stored \in Seq(Characters) /\ rest \in Seq(Characters)
      /\ conversion \in Conversions /\ stored \o rest = text
      /\ ReturnValue = Len(stored) /\ Len(rest) \in Nat /\ Len(stored) \in Nat
  BY <1>3, LenProperties DEF TextInv, FormatInv
<1> HIDE DEF m
<1>5. m \in 0..Len(rest)
  BY <1>1, <1>2, <1>3, <1>4
<1>6. /\ SubSeq(rest, m + 1, Len(rest)) \in Seq(Characters)
      /\ stored' \in Seq(Characters) /\ Len(stored') = Len(stored) + m
      /\ Len(text) = Len(stored) + Len(rest)
      /\ stored' = SubSeq(text, 1, Len(stored) + m)
      /\ stored' \o SubSeq(rest, m + 1, Len(rest)) = text
  <2>1. /\ SubSeq(rest, m + 1, Len(rest)) \in Seq(Characters)
        /\ stored \o SubSeq(rest, 1, m) \in Seq(Characters)
        /\ Len(stored \o SubSeq(rest, 1, m)) = Len(stored) + m
        /\ stored \o rest \in Seq(Characters)
        /\ Len(stored \o rest) = Len(stored) + Len(rest)
        /\ stored \o SubSeq(rest, 1, m)
             = SubSeq(stored \o rest, 1, Len(stored) + m)
        /\ (stored \o SubSeq(rest, 1, m)) \o SubSeq(rest, m + 1, Len(rest))
             = stored \o rest
    BY <1>4, <1>5, HandedOver
  <2> HIDE DEF text
  <2> QED BY <1>3, <1>4, <2>1
<1>7. Documented(conversion') = text
  BY <1>3
<1> HIDE DEF text
<1>8. CASE m = n
  <2>1. /\ rest' = SubSeq(rest, m + 1, Len(rest)) /\ ppc' = "format"
        /\ ReturnValue' = ReturnValue + n
    BY <1>3, <1>8
  <2>2. FormatInv'
    <3>1. conversion' \in Conversions /\ ReturnValue' = Len(stored')
      BY <1>1, <1>3, <1>4, <1>6, <1>8, <2>1
    <3>2. stored' \o rest' = Documented(conversion')
      BY <1>6, <1>7, <2>1
    <3> QED BY <3>1, <3>2 DEF FormatInv
  <2>3. ReturnInv'
    BY <2>1 DEF ReturnInv
  <2> QED BY <1>6, <2>1, <2>2, <2>3 DEF TextInv
<1>9. CASE m # n
  <2>1. ReturnValue' = -1 /\ ppc' = "return" /\ rest' = rest
    BY <1>3, <1>9
  <2>2. FormatInv'
    BY <2>1 DEF FormatInv
  <2>3. Len(stored') < Len(text) /\ Len(text) \in Nat /\ Len(stored') \in Nat
    BY <1>1, <1>2, <1>3, <1>4, <1>6, <1>9
  <2>4. ResultOvercounts'
    BY <1>7, <2>1, <2>3 DEF ResultOvercounts
  <2>5. stored' = SubSeq(text, 1, Len(stored'))
    BY <1>6
  <2>6. ReturnInv'
    <3>1. conversion' \in Conversions /\ ReturnValue' \in Int
      BY <1>3, <1>4, <2>1
    <3>2. Len(stored') <= Len(text)
      BY <2>3
    <3> QED BY <1>7, <2>4, <2>5, <3>1, <3>2 DEF ReturnInv
  <2> QED BY <1>4, <1>6, <2>1, <2>2, <2>6 DEF TextInv
<1> QED BY <1>8, <1>9

(* The last characters are counted twice, taken or not.                       *)
LEMMA TextEnds ==
  ASSUME TextInv, TerminalTypeOK, WriteRemaining
  PROVE  TextInv'
<1> DEFINE n == Len(rest)
           m == IF n = 0 THEN 0 ELSE Written(n)
           text == Documented(conversion)
<1>1. /\ ppc = "format" /\ n < PrintfBufferSize /\ conversion' = conversion
      /\ ReturnValue' = ReturnValue + n + n /\ ppc' = "return" /\ rest' = rest
  BY DEF WriteRemaining
<1>2. /\ stored \in Seq(Characters) /\ rest \in Seq(Characters)
      /\ conversion \in Conversions /\ stored \o rest = text
      /\ ReturnValue = Len(stored) /\ n \in Nat /\ Len(stored) \in Nat
  BY <1>1, LenProperties DEF TextInv, FormatInv
<1>3. m \in 0..n
  BY <1>2, WrittenIs
<1>4. stored' = stored \o SubSeq(rest, 1, m)
  <2>1. CASE n # 0
    BY <2>1 DEF WriteRemaining, SEGGER_RTT_Write
  <2>2. CASE n = 0
    <3>1. stored' = stored /\ m = 0
      BY <2>2 DEF WriteRemaining
    <3>2. SubSeq(rest, 1, 0) = <<>>
      BY SubSeqEmpty
    <3>3. stored \o <<>> = stored
      BY <1>2, Nothing
    <3> QED BY <3>1, <3>2, <3>3
  <2> QED BY <2>1, <2>2
<1> HIDE DEF m
<1>5. /\ stored' \in Seq(Characters) /\ Len(stored') = Len(stored) + m
      /\ Len(text) = Len(stored) + n
      /\ stored' = SubSeq(text, 1, Len(stored) + m)
  <2>1. /\ stored \o SubSeq(rest, 1, m) \in Seq(Characters)
        /\ Len(stored \o SubSeq(rest, 1, m)) = Len(stored) + m
        /\ Len(stored \o rest) = Len(stored) + Len(rest)
        /\ stored \o SubSeq(rest, 1, m)
             = SubSeq(stored \o rest, 1, Len(stored) + m)
    BY <1>2, <1>3, HandedOver
  <2> HIDE DEF text
  <2> QED BY <1>2, <1>4, <2>1
<1>6. Documented(conversion') = text
  BY <1>1
<1> HIDE DEF text
<1>7. /\ Len(stored') <= Len(text) /\ Len(text) \in Nat /\ Len(stored') \in Nat
      /\ Len(stored') >= Len(text) - n
  BY <1>1, <1>2, <1>3, <1>5, PrintfAssumption
<1>8. ReturnValue' \in Nat /\ ReturnValue' = Len(text) + n
  BY <1>1, <1>2, <1>5
<1>9. ResultOvercounts'
  BY <1>1, <1>6, <1>7, <1>8 DEF ResultOvercounts
<1>10. stored' = SubSeq(text, 1, Len(stored'))
  BY <1>5
<1>11. ReturnInv'
  BY <1>1, <1>2, <1>6, <1>7, <1>8, <1>9, <1>10 DEF ReturnInv
<1>12. FormatInv'
  BY <1>1 DEF FormatInv
<1> QED BY <1>1, <1>2, <1>5, <1>11, <1>12 DEF TextInv

(* Every step keeps it.                                                       *)
LEMMA TextStep ==
  TextInv /\ TerminalTypeOK /\ [PrintfNext]_allVars => TextInv'
<1> SUFFICES ASSUME TextInv, TerminalTypeOK, [PrintfNext]_allVars PROVE TextInv'
  OBVIOUS
<1>1. CASE UNCHANGED printfVars
  BY <1>1 DEF TextInv, FormatInv, ReturnInv, ResultOvercounts, printfVars, callVars
<1>2. CASE Return
  <2>1. ppc' = "idle" /\ rest' = <<>> /\ stored' = <<>>
    BY <1>2 DEF Return
  <2> QED BY <2>1, EmptySeq DEF TextInv, FormatInv, ReturnInv
<1>3. CASE \E c \in Conversions : SEGGER_RTT_vprintf(c)
  BY <1>3, TextBegins
<1>4. CASE _StoreChar
  BY <1>4, TextStored
<1>5. CASE WriteRemaining
  BY <1>5, TextEnds
<1>6. UNCHANGED allVars => UNCHANGED printfVars
  BY DEF allVars
<1> QED BY <1>1, <1>2, <1>3, <1>4, <1>5, <1>6 DEF PrintfNext, Printf

(* For the terminals printf is a caller like others.                          *)
LEMMA PrintfWrites ==
  TextInv /\ [PrintfNext]_allVars => [AnyNext]_terminalVars
<1> SUFFICES ASSUME TextInv, [PrintfNext]_allVars
             PROVE  [AnyNext]_terminalVars
  OBVIOUS
<1>1. ASSUME NEW n \in Nat, SEGGER_RTT_Write(n) PROVE [AnyNext]_terminalVars
  BY <1>1 DEF SEGGER_RTT_Write, AnyNext
<1>2. CASE _StoreChar
  <2>1. PrintfBufferSize \in Nat /\ SEGGER_RTT_Write(PrintfBufferSize)
    BY <1>2, PrintfAssumption DEF _StoreChar
  <2> QED BY <1>1, <2>1
<1>3. CASE WriteRemaining
  <2>1. Len(rest) \in Nat
    BY LenProperties DEF TextInv
  <2>2. SEGGER_RTT_Write(Len(rest)) \/ UNCHANGED terminalVars
    BY <1>3 DEF WriteRemaining
  <2> QED BY <1>1, <2>1, <2>2
<1>4. CASE UNCHANGED terminalVars
  BY <1>4
<1>5. CASE TerminalCall \/ WriteByte \/ HostReads
  BY <1>5 DEF AnyNext, TerminalNext
<1>6. (\E c \in Conversions : SEGGER_RTT_vprintf(c)) => UNCHANGED terminalVars
  BY DEF SEGGER_RTT_vprintf
<1>7. Return \/ UNCHANGED allVars => UNCHANGED terminalVars
  BY DEF Return, allVars
<1> QED BY <1>2, <1>3, <1>4, <1>5, <1>6, <1>7 DEF PrintfNext, Printf

(* So all of it always holds.                                                 *)
PrintfInv == FitsInv /\ ShownInv /\ TextInv

LEMMA PrintfAlways == PrintfSpec => []PrintfInv
<1>1. PrintfInit => PrintfInv
  BY FitsInit, ShownInit, TextInit DEF PrintfInv, PrintfInit
<1>2. PrintfInv /\ [PrintfNext]_allVars => PrintfInv'
  <2> SUFFICES ASSUME PrintfInv, [PrintfNext]_allVars PROVE PrintfInv'
    OBVIOUS
  <2>1. TerminalTypeOK
    BY DEF PrintfInv, FitsInv
  <2>2. TextInv'
    BY <2>1, TextStep DEF PrintfInv
  <2>3. [AnyNext]_terminalVars
    BY PrintfWrites DEF PrintfInv
  <2> QED BY <2>2, <2>3, FitsStep, ShownStep DEF PrintfInv
<1> QED BY <1>1, <1>2, PTL DEF PrintfSpec

(* What the RTT has taken of a call is at every moment the beginning of the   *)
(* documented text (StoredIsPrefix; _PrintUnsigned, _PrintInt, _StoreChar).   *)
THEOREM TextIsDocumented == PrintfSpec => []StoredIsPrefix
<1>1. PrintfInv => StoredIsPrefix
  <2> SUFFICES ASSUME TextInv PROVE StoredIsPrefix
    BY DEF PrintfInv
  <2>1. CASE ppc = "format"
    <3>1. /\ stored \in Seq(Characters) /\ rest \in Seq(Characters)
          /\ stored \o rest = Documented(conversion)
          /\ Len(stored) \in Nat /\ Len(rest) \in Nat
      BY <2>1, LenProperties DEF TextInv, FormatInv
    <3>2. 0 \in 0..Len(rest) /\ Len(stored) + 0 = Len(stored)
      BY <3>1
    <3>3. stored \o SubSeq(rest, 1, 0) = SubSeq(stored \o rest, 1, Len(stored))
      BY <3>1, <3>2, HandedOver
    <3>4. SubSeq(rest, 1, 0) = <<>>
      BY SubSeqEmpty
    <3>5. stored \o <<>> = stored
      BY <3>1, Nothing
    <3> QED BY <2>1, <3>1, <3>3, <3>4, <3>5 DEF StoredIsPrefix
  <2>2. CASE ppc = "return"
    BY <2>2 DEF TextInv, ReturnInv, StoredIsPrefix
  <2>3. CASE ppc = "idle"
    BY <2>3 DEF StoredIsPrefix
  <2> QED BY <2>1, <2>2, <2>3 DEF TextInv
<1> QED BY <1>1, PrintfAlways, PTL

(* The result of printf is too high by the last, partial buffer, which may    *)
(* not even have been taken, and negative only if a full one was not          *)
(* (ResultOvercounts; SEGGER_RTT_vprintf).                                    *)
THEOREM ResultCountsTwice == PrintfSpec => []ResultOvercounts
<1>1. PrintfInv => ResultOvercounts
  BY DEF PrintfInv, TextInv, ReturnInv, ResultOvercounts
<1> QED BY <1>1, PrintfAlways, PTL

(* With printf among its callers, whatever the size of its buffer, the ring   *)
(* is not overrun, nobody waits for the host with interrupts locked, and      *)
(* text is shown where it is meant for (SEGGER_RTT_Write).                    *)
THEOREM TerminalsWithPrintf ==
  PrintfSpec => [](/\ TerminalTypeOK /\ NeverWaits
                   /\ ShownWhereMeant /\ EndsOnActive)
<1>1. PrintfInv => /\ TerminalTypeOK /\ NeverWaits
                   /\ ShownWhereMeant /\ EndsOnActive
  BY ShownMeans DEF PrintfInv, FitsInv
<1> QED BY <1>1, PrintfAlways, PTL

==============================================================================
