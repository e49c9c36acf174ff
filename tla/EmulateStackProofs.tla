-------------------------- MODULE EmulateStackProofs --------------------------
(***************************************************************************)
(* The proof that EmulateStack implements StackMachine, for every radix of *)
(* a unit, words of two and of four units, every depth of the stack and    *)
(* every program.                                                          *)
(*                                                                         *)
(* First the arithmetic of units: what a reduction, a sum of units and a   *)
(* store leave in each place. Then three facts about the stack that memory *)
(* stands for: a push puts units on top of it (Pushed), a pop takes them   *)
(* away (Popped), and a load from an address on it is the value of its     *)
(* units (LoadStack). Each instruction is a combination of these.          *)
(***************************************************************************)
EXTENDS EmulateStack, TLAPS, SequenceTheorems

(* Quotient and remainder. *)
LEMMA DivMod ==
    ASSUME NEW v \in Int, NEW m \in Nat \ {0}
    PROVE  v \div m \in Int /\ v % m \in 0 .. m - 1 /\ v = m * (v \div m) + (v % m)
OBVIOUS

(* A multiple of a that is nearer to zero than a is zero. *)
LEMMA Multiple ==
    ASSUME NEW a \in Nat \ {0}, NEW d \in Int, a * d < a, -a < a * d
    PROVE  d = 0
<1>1. CASE d >= 1
  <2>1. a * d >= a * 1
    BY <1>1
  <2> QED BY <2>1
<1>2. CASE d <= -1
  <2>1. a * d <= a * (-1)
    BY <1>2
  <2> QED BY <2>1
<1> QED BY <1>1, <1>2

(* Quotient and remainder are unique. *)
LEMMA DivModIs ==
    ASSUME NEW v \in Int, NEW m \in Nat \ {0}, NEW q \in Int, NEW r \in 0 .. m - 1,
           v = m * q + r
    PROVE  v \div m = q /\ v % m = r
<1> DEFINE a == v \div m
           b == v % m
<1>1. a \in Int /\ b \in 0 .. m - 1 /\ v = m * a + b
  BY DivMod
<1> HIDE DEF a, b
<1>2. m * (a - q) = m * a - m * q /\ m * a \in Int /\ m * q \in Int
  BY <1>1
<1>3. m * (a - q) = r - b
  BY <1>1, <1>2
<1>4. m * (a - q) < m /\ -m < m * (a - q) /\ a - q \in Int
  BY <1>1, <1>3
<1>5. a - q = 0
  BY <1>4, Multiple
<1>6. a = q /\ b = r
  BY <1>1, <1>5
<1> QED BY <1>6 DEF a, b

------------------------------------------------------------------------------
(* Units of a word. *)

(* The places exist, being finitely many. *)
LEMMA PlaceDef ==
    Place = [n \in 0 .. WordUnits |-> IF n = 0 THEN 1 ELSE Radix * Place[n - 1]]
<1> DEFINE R2 == Radix * Radix
           R3 == Radix * R2
           R4 == Radix * R3
           f == [n \in 0 .. WordUnits |->
                   IF n = 0 THEN 1 ELSE IF n = 1 THEN Radix ELSE IF n = 2 THEN R2
                   ELSE IF n = 3 THEN R3 ELSE R4]
<1>0. Radix = Radix * 1
  BY SizeAssumption
<1>1. f = [n \in 0 .. WordUnits |-> IF n = 0 THEN 1 ELSE Radix * f[n - 1]]
  <2> SUFFICES ASSUME NEW n \in 0 .. WordUnits
               PROVE  f[n] = IF n = 0 THEN 1 ELSE Radix * f[n - 1]
    OBVIOUS
  <2>1. n \in {0, 1, 2, 3, 4} /\ (n # 0 => n - 1 \in 0 .. WordUnits)
    BY SizeAssumption
  <2>2. n = 0 => f[n] = 1
    OBVIOUS
  <2>3. n = 1 => f[n] = Radix /\ f[n - 1] = 1
    BY <2>1
  <2>4. n = 2 => f[n] = R2 /\ f[n - 1] = Radix
    BY <2>1
  <2>5. n = 3 => f[n] = R3 /\ f[n - 1] = R2
    BY <2>1
  <2>6. n = 4 => f[n] = R4 /\ f[n - 1] = R3
    BY <2>1
  <2> HIDE DEF f
  <2> QED BY <1>0, <2>1, <2>2, <2>3, <2>4, <2>5, <2>6
<1> HIDE DEF f
<1> QED BY <1>1 DEF Place

(* They are powers of the radix. *)
LEMMA Places ==
    /\ Radix \in Nat \ {0, 1} /\ WordUnits \in {2, 4}
    /\ Place[0] = 1 /\ Place[1] = Radix /\ Place[2] = Radix * Radix
    /\ WordUnits = 4 => /\ Place[3] = Radix * (Radix * Radix)
                        /\ Place[4] = Radix * (Radix * (Radix * Radix))
BY PlaceDef, SizeAssumption

(* A place is a positive number. *)
LEMMA PlaceType == \A n \in 0 .. WordUnits : Place[n] \in Nat \ {0}
<1>1. Radix * Radix \in Nat \ {0}
  BY Places
<1>2. Radix * (Radix * Radix) \in Nat \ {0}
  BY Places, <1>1
<1>3. Radix * (Radix * (Radix * Radix)) \in Nat \ {0}
  BY Places, <1>2
<1> QED BY Places, <1>1, <1>2, <1>3

(* A product of positive numbers is positive. *)
LEMMA Product ==
    ASSUME NEW a \in Nat \ {0}, NEW b \in Nat \ {0}
    PROVE  a * b \in Nat \ {0}
OBVIOUS

(* Reduction does not change the units below it. *)
LEMMA UnitOfLow ==
    ASSUME NEW v \in Int, NEW p \in Nat \ {0}, NEW q \in Nat \ {0}
    PROVE  ((v % (p * (Radix * q))) \div p) % Radix = (v \div p) % Radix
<1> DEFINE m == p * (Radix * q)
           r == v % m
           b == r \div p
           c == r % p
           e == b \div Radix
           f == b % Radix
           a == v \div m
<1>1. Radix \in Nat \ {0} /\ Radix * q \in Nat \ {0} /\ m \in Nat \ {0}
  BY Places, Product
<1> HIDE DEF m
<1>2. a \in Int /\ r \in Int /\ v = m * a + r
  BY <1>1, DivMod
<1> HIDE DEF a, r
<1>3. b \in Int /\ c \in 0 .. p - 1 /\ r = p * b + c
  BY <1>2, DivMod
<1> HIDE DEF b, c
<1>4. e \in Int /\ f \in 0 .. Radix - 1 /\ b = Radix * e + f
  BY <1>1, <1>3, DivMod
<1> HIDE DEF e, f
<1>5. q * a \in Int /\ Radix * (q * a) \in Int
  BY <1>1, <1>2
<1>6. m * a = p * (Radix * (q * a))
  BY <1>1, <1>2 DEF m
<1>7. p * (Radix * (q * a) + b) = p * (Radix * (q * a)) + p * b
  BY <1>3, <1>5
<1>8. v = p * (Radix * (q * a) + b) + c
  BY <1>2, <1>3, <1>5, <1>6, <1>7
<1>9. v \div p = Radix * (q * a) + b
  BY <1>3, <1>5, <1>8, DivModIs
<1>10. Radix * (q * a + e) = Radix * (q * a) + Radix * e
  BY <1>1, <1>4, <1>5
<1>11. Radix * (q * a) + b = Radix * (q * a + e) + f
  BY <1>1, <1>4, <1>5, <1>10
<1>12. (v \div p) % Radix = f
  BY <1>1, <1>3, <1>4, <1>5, <1>9, <1>11, DivModIs
<1> QED BY <1>12 DEF f, b, r, m

(* A place is a multiple of the places below it. *)
LEMMA PlaceSplit ==
    ASSUME NEW n \in {1, WordUnits}, NEW k \in 0 .. n - 1
    PROVE  \E q \in Nat \ {0} : Place[n] = Place[k] * (Radix * q)
<1> DEFINE R == Radix
<1>1. R \in Nat \ {0} /\ R * R \in Nat \ {0} /\ R * (R * R) \in Nat \ {0}
  BY Places
<1>2. /\ R = 1 * (R * 1) /\ R * R = 1 * (R * R) /\ R * R = R * (R * 1)
      /\ R * (R * (R * R)) = 1 * (R * (R * (R * R))) /\ R * (R * (R * R)) = R * (R * (R * R))
      /\ R * (R * (R * R)) = (R * R) * (R * R)
      /\ R * (R * (R * R)) = (R * (R * R)) * (R * 1)
  BY <1>1
<1> HIDE DEF R
<1>3. CASE n = 1
  <2>1. k = 0 /\ Place[n] = R /\ Place[k] = 1
    BY <1>3, Places DEF R
  <2>2. Place[n] = Place[k] * (R * 1)
    BY <1>2, <2>1
  <2> QED BY <2>2 DEF R
<1>4. CASE n = 2
  <2>1. Place[n] = R * R /\ Place[0] = 1 /\ Place[1] = R /\ k \in {0, 1}
    BY <1>4, Places DEF R
  <2>2. Place[n] = Place[0] * (R * R) /\ Place[n] = Place[1] * (R * 1)
    BY <1>2, <2>1
  <2> QED BY <1>1, <2>1, <2>2, Places DEF R
<1>5. CASE n = 4
  <2>1. WordUnits = 4 /\ k \in {0, 1, 2, 3}
    BY <1>5, Places
  <2>2. /\ Place[n] = R * (R * (R * R)) /\ Place[0] = 1 /\ Place[1] = R
        /\ Place[2] = R * R /\ Place[3] = R * (R * R)
    BY <1>5, <2>1, Places DEF R
  <2>3. /\ Place[n] = Place[0] * (R * (R * (R * R))) /\ Place[n] = Place[1] * (R * (R * R))
        /\ Place[n] = Place[2] * (R * R) /\ Place[n] = Place[3] * (R * 1)
    BY <1>2, <2>2
  <2>4. \E q \in Nat \ {0} : Place[n] = Place[k] * (R * q)
    BY <1>1, <2>1, <2>3, Zenon
  <2> QED BY <2>4 DEF R
<1> QED BY <1>3, <1>4, <1>5, Places

(* The unit of a value at a place. *)
UnitAt(v, k) == (v \div Place[k]) % Radix

(* The low units of a value are those of what is kept of it. *)
LEMMA LowUnits ==
    ASSUME NEW v \in Int, NEW n \in {1, WordUnits}, NEW k \in 0 .. n - 1
    PROVE  UnitAt(Low(v, n), k) = UnitAt(v, k)
<1>1. PICK q \in Nat \ {0} : Place[n] = Place[k] * (Radix * q)
  BY PlaceSplit
<1>2. Place[k] \in Nat \ {0}
  BY Places, PlaceType
<1> DEFINE p == Place[k]
<1>3. p \in Nat \ {0}
  BY <1>2
<1> HIDE DEF p
<1>4. ((v % (p * (Radix * q))) \div p) % Radix = (v \div p) % Radix
  BY <1>3, UnitOfLow
<1> QED BY <1>1, <1>4 DEF UnitAt, Low, p

(* A quotient in two steps. *)
LEMMA DivDiv ==
    ASSUME NEW v \in Int, NEW p \in Nat \ {0}, NEW q \in Nat \ {0}
    PROVE  v \div (p * q) = (v \div p) \div q
<1> DEFINE a == v \div p
           b == v % p
           c == a \div q
           d == a % q
           r == p * d + b
<1>1. a \in Int /\ b \in 0 .. p - 1 /\ v = p * a + b
  BY DivMod
<1> HIDE DEF a, b
<1>2. c \in Int /\ d \in 0 .. q - 1 /\ a = q * c + d
  BY <1>1, DivMod
<1> HIDE DEF c, d
<1>3. q * c \in Int /\ p * (q * c) = (p * q) * c /\ p * (q * c + d) = p * (q * c) + p * d
  BY <1>2
<1>4. p * d \in Nat /\ p * d <= p * (q - 1) /\ p * (q - 1) = p * q - p /\ p * q \in Nat \ {0}
  BY <1>2, Product
<1>5. r \in 0 .. (p * q) - 1
  BY <1>1, <1>4
<1>6. v = (p * q) * c + r
  BY <1>1, <1>2, <1>3, <1>4
<1> HIDE DEF r
<1>7. v \div (p * q) = c
  BY <1>2, <1>4, <1>5, <1>6, DivModIs
<1> QED BY <1>7 DEF c, a

(* One more unit below a value. *)
LEMMA Horner ==
    ASSUME NEW x \in Unit, NEW p \in Nat \ {0}, NEW h \in 0 .. p - 1
    PROVE  /\ x + Radix * h \in 0 .. (Radix * p) - 1
           /\ (x + Radix * h) \div Radix = h
           /\ (x + Radix * h) % Radix = x
<1>1. Radix \in Nat \ {0} /\ x \in 0 .. Radix - 1
  BY Places DEF Unit
<1>2. Radix * h \in Nat /\ Radix * h <= Radix * (p - 1) /\ Radix * (p - 1) = Radix * p - Radix
      /\ Radix * p \in Nat
  BY <1>1
<1>3. x + Radix * h \in 0 .. (Radix * p) - 1 /\ x + Radix * h = Radix * h + x
  BY <1>1, <1>2
<1> QED BY <1>1, <1>3, DivModIs

(* The value of n units. *)
Total(u, n) ==
    IF n = 1 THEN u[1]
    ELSE IF n = 2 THEN u[1] + Radix * u[2]
    ELSE u[1] + Radix * (u[2] + Radix * (u[3] + Radix * u[4]))

(* The units of a total are those that it was made of. *)
LEMMA TotalUnits ==
    ASSUME NEW n \in {1, WordUnits}, NEW u, \A k \in 1 .. n : u[k] \in Unit
    PROVE  /\ Total(u, n) \in 0 .. Place[n] - 1
           /\ \A k \in 1 .. n : UnitAt(Total(u, n), k - 1) = u[k]
<1> DEFINE t == Total(u, n)
<1>1. Radix \in Nat \ {0} /\ Unit = 0 .. Radix - 1 /\ Unit \subseteq Int
  BY Places DEF Unit
<1>2. \A x \in Int : x \div 1 = x
  OBVIOUS
<1>n. n \in {1, 2, 4}
  BY Places
<1>r. \A x \in Unit : x % Radix = x
  BY <1>1
<1>3. CASE n = 1
  <2>1. t = u[1] /\ u[1] \in 0 .. Radix - 1
    BY <1>1, <1>3 DEF Total
  <2>2. u[1] % Radix = u[1]
    BY <1>1, <2>1
  <2> QED BY <1>1, <1>2, <1>3, <2>1, <2>2, Places DEF UnitAt
<1>4. CASE n = 2
  <2>1. u[1] \in Unit /\ u[2] \in Unit /\ t = u[1] + Radix * u[2]
    BY <1>4 DEF Total
  <2> HIDE DEF t
  <2>2. /\ t \in 0 .. (Radix * Radix) - 1 /\ t \div Radix = u[2] /\ t % Radix = u[1]
    <3>1. u[2] \in 0 .. Radix - 1
      BY <1>1, <2>1
    <3>2. /\ u[1] + Radix * u[2] \in 0 .. (Radix * Radix) - 1
          /\ (u[1] + Radix * u[2]) \div Radix = u[2] /\ (u[1] + Radix * u[2]) % Radix = u[1]
      BY <1>1, <2>1, <3>1, Horner
    <3> QED BY <2>1, <3>2
  <2>3. t \in Int /\ u[2] % Radix = u[2]
    <3>1. Radix * Radix \in Nat
      BY <1>1, Product
    <3> QED BY <2>1, <2>2, <3>1, <1>r
  <2>4. UnitAt(t, 0) = u[1] /\ UnitAt(t, 1) = u[2]
    BY <1>2, <2>2, <2>3, Places DEF UnitAt
  <2>5. \A k \in 1 .. n : (k = 1 /\ k - 1 = 0) \/ (k = 2 /\ k - 1 = 1)
    BY <1>4, <1>n
  <2> QED BY <1>4, <2>2, <2>4, <2>5, Places DEF t
<1>5. CASE n = 4
  <2> DEFINE h2 == u[3] + Radix * u[4]
             h1 == u[2] + Radix * h2
  <2>1. \A k \in {1, 2, 3, 4} : u[k] \in Unit
    BY <1>5
  <2>2. t = u[1] + Radix * h1
    BY <1>5 DEF Total
  <2>3. /\ h2 \in 0 .. (Radix * Radix) - 1 /\ h2 \div Radix = u[4] /\ h2 % Radix = u[3]
    BY <1>1, <2>1, Horner
  <2> HIDE DEF h2
  <2>4. Radix * Radix \in Nat \ {0} /\ Radix * (Radix * Radix) \in Nat \ {0}
    BY <1>1, Product
  <2>5. /\ h1 \in 0 .. (Radix * (Radix * Radix)) - 1
        /\ h1 \div Radix = h2 /\ h1 % Radix = u[2]
    BY <1>1, <2>1, <2>3, <2>4, Horner
  <2> HIDE DEF h1
  <2>6. /\ t \in 0 .. (Radix * (Radix * (Radix * Radix))) - 1
        /\ t \div Radix = h1 /\ t % Radix = u[1]
    <3> DEFINE p == Radix * (Radix * Radix)
    <3>1. p \in Nat \ {0} /\ h1 \in 0 .. p - 1
      BY <2>4, <2>5
    <3> HIDE DEF p
    <3>2. /\ u[1] + Radix * h1 \in 0 .. (Radix * p) - 1
          /\ (u[1] + Radix * h1) \div Radix = h1 /\ (u[1] + Radix * h1) % Radix = u[1]
      BY <2>1, <3>1, Horner
    <3> QED BY <2>2, <3>2 DEF p
  <2> HIDE DEF t
  <2>7. t \in Int /\ h1 \in Int /\ u[4] % Radix = u[4]
    <3>1. u[4] % Radix = u[4]
      BY <2>1, <1>r
    <3> DEFINE p == Radix * (Radix * Radix)
               q == Radix * p
    <3>2. p \in Nat /\ q \in Nat
      BY <1>1, <2>4, Product
    <3>3. t \in 0 .. q - 1 /\ h1 \in 0 .. p - 1
      BY <2>5, <2>6
    <3> HIDE DEF p, q
    <3> QED BY <3>1, <3>2, <3>3
  <2>8. t \div (Radix * Radix) = h2
    BY <1>1, <2>5, <2>6, <2>7, DivDiv
  <2>9. t \div (Radix * (Radix * Radix)) = u[4]
    <3>1. t \div (Radix * (Radix * Radix)) = (t \div Radix) \div (Radix * Radix)
      BY <1>1, <2>4, <2>7, DivDiv
    <3>2. h1 \div (Radix * Radix) = (h1 \div Radix) \div Radix
      BY <1>1, <2>7, DivDiv
    <3> QED BY <2>3, <2>5, <2>6, <3>1, <3>2
  <2>10. WordUnits = 4
    BY <1>5, Places
  <2>11. /\ UnitAt(t, 0) = u[1] /\ UnitAt(t, 1) = u[2] /\ UnitAt(t, 2) = u[3]
         /\ UnitAt(t, 3) = u[4]
    BY <1>2, <2>3, <2>5, <2>6, <2>7, <2>8, <2>9, <2>10, Places DEF UnitAt
  <2>12. \A k \in 1 .. n : \/ k = 1 /\ k - 1 = 0
                           \/ k = 2 /\ k - 1 = 1
                           \/ k = 3 /\ k - 1 = 2
                           \/ k = 4 /\ k - 1 = 3
    BY <1>5, <1>n
  <2>13. \A k \in 1 .. n : UnitAt(t, k - 1) = u[k]
    BY <2>11, <2>12
  <2> QED BY <1>5, <2>6, <2>10, <2>13, Places DEF t
<1> QED BY <1>3, <1>4, <1>5, Places

(* The sums of Load and Value are totals. *)
LEMMA SumTotal ==
    ASSUME NEW n \in {1, WordUnits}, NEW u, \A k \in 1 .. n : u[k] \in Unit
    PROVE  LET Sums(f) == f = [k \in 0 .. n |-> IF k = 0 THEN 0 ELSE f[k - 1] + Place[k - 1] * u[k]]
           IN  (\E f : Sums(f)) /\ (\A f : Sums(f) => f[n] = Total(u, n))
<1> DEFINE Sums(f) == f = [k \in 0 .. n |-> IF k = 0 THEN 0 ELSE f[k - 1] + Place[k - 1] * u[k]]
           s1 == 0 + Place[0] * u[1]
           s2 == s1 + Place[1] * u[2]
           s3 == s2 + Place[2] * u[3]
           s4 == s3 + Place[3] * u[4]
           g == [k \in 0 .. n |-> IF k = 0 THEN 0 ELSE IF k = 1 THEN s1 ELSE IF k = 2 THEN s2
                                  ELSE IF k = 3 THEN s3 ELSE s4]
<1>1. n \in {1, 2, 4}
  BY Places
<1>u. /\ u[1] \in Unit
      /\ n = 2 => u[2] \in Unit
      /\ n = 4 => u[2] \in Unit /\ u[3] \in Unit /\ u[4] \in Unit
  BY <1>1
<1>2. Sums(g)
  <2> SUFFICES ASSUME NEW k \in 0 .. n
               PROVE  g[k] = IF k = 0 THEN 0 ELSE g[k - 1] + Place[k - 1] * u[k]
    OBVIOUS
  <2>1. k \in {0, 1, 2, 3, 4} /\ (k # 0 => k - 1 \in 0 .. n)
    BY <1>1
  <2>2. k = 0 => g[k] = 0
    OBVIOUS
  <2>3. k = 1 => g[k] = s1 /\ g[k - 1] = 0 /\ k - 1 = 0
    BY <2>1
  <2>4. k = 2 => g[k] = s2 /\ g[k - 1] = s1 /\ k - 1 = 1
    BY <2>1
  <2>5. k = 3 => g[k] = s3 /\ g[k - 1] = s2 /\ k - 1 = 2
    BY <2>1
  <2>6. k = 4 => g[k] = s4 /\ g[k - 1] = s3 /\ k - 1 = 3
    BY <2>1
  <2> HIDE DEF g
  <2> QED BY <2>1, <2>2, <2>3, <2>4, <2>5, <2>6, Zenon
<1>3. ASSUME NEW f, Sums(f)
      PROVE  f[n] = Total(u, n)
  <2>1. f[0] = 0
    BY <1>1, <1>3
  <2>2. f[1] = f[0] + Place[0] * u[1]
    BY <1>1, <1>3
  <2>3. n # 1 => f[2] = f[1] + Place[1] * u[2]
    BY <1>1, <1>3
  <2>4. n = 4 => f[3] = f[2] + Place[2] * u[3] /\ f[4] = f[3] + Place[3] * u[4]
    BY <1>1, <1>3
  <2> HIDE DEF Sums
  <2>5. Radix \in Nat \ {0} /\ Unit \subseteq Int
    BY Places DEF Unit
  <2>6. CASE n = 1
    <3>1. u[1] \in Int
      BY <2>5, <2>6, <1>1, <1>u
    <3> QED BY <2>1, <2>2, <2>6, <3>1, Places DEF Total
  <2>7. CASE n = 2
    <3>1. u[1] \in Int /\ u[2] \in Int
      BY <2>5, <2>7, <1>1, <1>u
    <3> QED BY <2>1, <2>2, <2>3, <2>5, <2>7, <3>1, Places DEF Total
  <2>8. CASE n = 4
    <3>0. WordUnits = 4
      BY <2>8, Places
    <3>1. u[1] \in Int /\ u[2] \in Int /\ u[3] \in Int /\ u[4] \in Int
      BY <2>5, <2>8, <1>u
    <3> DEFINE R == Radix
    <3>2. f[4] = ((u[1] + R * u[2]) + (R * R) * u[3]) + (R * (R * R)) * u[4]
      BY <2>1, <2>2, <2>3, <2>4, <2>5, <2>8, <3>0, <3>1, Places
    <3>3. \A a, b, c, d \in Int : ((a + R * b) + (R * R) * c) + (R * (R * R)) * d
                                    = a + R * (b + R * (c + R * d))
      BY <2>5
    <3>4. f[4] = u[1] + R * (u[2] + R * (u[3] + R * u[4]))
      BY <3>1, <3>2, <3>3
    <3> QED BY <2>8, <3>4 DEF Total
  <2> QED BY <1>1, <2>6, <2>7, <2>8
<1> HIDE DEF g
<1> QED BY <1>2, <1>3

------------------------------------------------------------------------------
(* The state. *)

(* The types, and the stack pointer is at or below the base of the stack.   *)
StackInv ==
    /\ regs \in [{"AX", "BP", "SP", "DS"} -> Word]
    /\ SP <= Base /\ regs["DS"] \in Unit
    /\ flags \in Flags /\ ip \in Word
    /\ mem \in [Word -> Unit]

(* The stack that the refinement mapping reads off the memory. *)
Stack == [k \in 1 .. Depth |-> mem[Wrap(SP + k - 1)]]

(* Words are the numbers below the place above them. *)
LEMMA WordRange ==
    /\ Place[WordUnits] \in Nat \ {0}
    /\ Word = 0 .. Place[WordUnits] - 1
    /\ Word \subseteq Int
    /\ \A x \in Word : Wrap(x) = x
    /\ \A x \in Int : Wrap(x) \in Word
<1>1. WordUnits \in {2, 4} /\ Place[WordUnits] \in Nat \ {0}
  BY Places, PlaceType
<1> DEFINE m == Place[WordUnits]
<1>2. m \in Nat \ {0}
  BY <1>1
<1> HIDE DEF m
<1>3. \A x \in 0 .. m - 1 : x % m = x
  BY <1>2
<1>4. \A x \in Int : x % m \in 0 .. m - 1
  BY <1>2
<1>5. Word = 0 .. m - 1
  BY DEF Word, WordMod, m
<1> QED BY <1>1, <1>2, <1>3, <1>4, <1>5 DEF Wrap, WordMod, m

(* What the low units of a value make is a word. *)
LEMMA LowRange ==
    ASSUME NEW n \in {1, WordUnits}
    PROVE  /\ Place[n] \in Nat \ {0} /\ Place[n] <= Place[WordUnits]
           /\ \A v \in Int : Low(v, n) \in 0 .. Place[n] - 1
           /\ \A v \in 0 .. Place[n] - 1 : Low(v, n) = v /\ v \in Word
<1>1. n \in 0 .. WordUnits /\ Place[n] \in Nat \ {0}
  BY Places, PlaceType
<1>2. Place[n] <= Place[WordUnits]
  <2>1. CASE n = WordUnits
    BY <1>1, <2>1
  <2>2. CASE n = 1
    <3>1. PICK q \in Nat \ {0} : Place[WordUnits] = Place[0] * (Radix * q)
      BY PlaceSplit, Places
    <3>2. Radix * q >= Radix
      BY Places
    <3> QED BY <2>2, <3>1, <3>2, Places
  <2> QED BY <2>1, <2>2
<1> DEFINE p == Place[n]
<1>3. p \in Nat \ {0}
  BY <1>1
<1> HIDE DEF p
<1>4. \A v \in Int : v % p \in 0 .. p - 1
  BY <1>3
<1>5. \A v \in 0 .. p - 1 : v % p = v
  BY <1>3
<1>6. \A v \in 0 .. p - 1 : v \in Word
  <2> DEFINE m == Place[WordUnits]
  <2>1. m \in Nat \ {0} /\ p <= m /\ Word = 0 .. m - 1
    BY <1>2, WordRange DEF p
  <2> HIDE DEF m
  <2> QED BY <1>3, <2>1
<1> QED BY <1>1, <1>2, <1>4, <1>5, <1>6 DEF Low, p

(* A unit is one of the units. *)
LEMMA UnitType ==
    ASSUME NEW v \in Int, NEW k \in 0 .. WordUnits
    PROVE  UnitAt(v, k) \in Unit
<1>1. Place[k] \in Nat \ {0} /\ Radix \in Nat \ {0}
  BY Places, PlaceType
<1>2. v \div Place[k] \in Int
  BY <1>1, DivMod
<1>3. (v \div Place[k]) % Radix \in 0 .. Radix - 1
  BY <1>1, <1>2, DivMod
<1> QED BY <1>3 DEF UnitAt, Unit

(* Load and Value make a word of the same units in the same way. *)
LEMMA Loaded ==
    ASSUME NEW n \in {1, WordUnits}, NEW u, NEW a,
           \A k \in 1 .. n : u[k] \in Unit /\ u[k] = mem[Wrap(a + k - 1)]
    PROVE  Load(a, n) = Total(u, n)
<1> DEFINE Sums(f) == f = [k \in 0 .. n |-> IF k = 0 THEN 0 ELSE f[k - 1] + Place[k - 1] * u[k]]
           Loads(f) == f = [k \in 0 .. n |-> IF k = 0 THEN 0
                                 ELSE f[k - 1] + Place[k - 1] * mem[Wrap(a + k - 1)]]
<1>1. (\E f : Sums(f)) /\ (\A f : Sums(f) => f[n] = Total(u, n))
  BY SumTotal
<1>2. \A f : Loads(f) <=> Sums(f)
  <2>1. \A k \in 0 .. n : k = 0 \/ k \in 1 .. n
    BY Places
  <2>2. \A f : [k \in 0 .. n |-> IF k = 0 THEN 0 ELSE f[k - 1] + Place[k - 1] * u[k]]
                 = [k \in 0 .. n |-> IF k = 0 THEN 0
                                 ELSE f[k - 1] + Place[k - 1] * mem[Wrap(a + k - 1)]]
    BY <2>1
  <2> QED BY <2>2
<1>3. Load(a, n) = (CHOOSE f : Loads(f))[n]
  BY DEF Load
<1> HIDE DEF Sums, Loads
<1>4. Loads(CHOOSE f : Loads(f))
  BY <1>1, <1>2
<1> QED BY <1>1, <1>2, <1>3, <1>4

(* The same for a sequence of units. *)
LEMMA Valued ==
    ASSUME NEW n \in {1, WordUnits}, NEW us, Len(us) = n, \A k \in 1 .. n : us[k] \in Unit
    PROVE  Promise!Value(us) = Total(us, n)
<1> DEFINE Sums(f) == f = [k \in 0 .. n |-> IF k = 0 THEN 0 ELSE f[k - 1] + Place[k - 1] * us[k]]
<1>1. (\E f : Sums(f)) /\ (\A f : Sums(f) => f[n] = Total(us, n))
  BY SumTotal
<1>2. Promise!Place = Place
  BY DEF Promise!Place, Place
<1>3. Promise!Value(us) = (CHOOSE f : Sums(f))[n]
  BY <1>2 DEF Promise!Value
<1> HIDE DEF Sums
<1> QED BY <1>1, <1>3

(* Addresses from the stack pointer up to the base do not wrap. *)
LEMMA StackWords ==
    ASSUME StackInv
    PROVE  /\ SP \in Nat /\ Base \in Nat /\ Depth \in Nat /\ Depth = Base - SP
           /\ Base < Place[WordUnits]
           /\ \A x \in 0 .. Base : x \in Word /\ Wrap(x) = x
<1>1. SP \in Word /\ Base \in Word /\ SP <= Base
  BY SizeAssumption DEF StackInv, SP
<1> DEFINE m == Place[WordUnits]
<1>2. m \in Nat \ {0} /\ Word = 0 .. m - 1
  BY WordRange
<1> HIDE DEF m
<1>3. SP \in Nat /\ Base \in Nat /\ Base < m
  BY <1>1, <1>2
<1>4. \A x \in 0 .. Base : x \in Word
  BY <1>2, <1>3
<1> QED BY <1>1, <1>3, <1>4, WordRange DEF Depth, m

(* The abstract stack, place by place. *)
LEMMA StackIs ==
    ASSUME StackInv
    PROVE  /\ Stack = [k \in 1 .. Depth |-> mem[SP + k - 1]]
           /\ Stack \in Seq(Unit) /\ Len(Stack) = Depth
           /\ \A k \in 1 .. Depth : Stack[k] = mem[SP + k - 1] /\ Stack[k] \in Unit
<1>1. \A k \in 1 .. Depth : SP + k - 1 \in 0 .. Base
  BY StackWords
<1>2. \A k \in 1 .. Depth : Wrap(SP + k - 1) = SP + k - 1 /\ mem[SP + k - 1] \in Unit
  BY <1>1, StackWords DEF StackInv
<1>3. Stack = [k \in 1 .. Depth |-> mem[SP + k - 1]]
  BY <1>2 DEF Stack
<1>4. Depth \in Nat
  BY StackWords
<1> QED BY <1>2, <1>3, <1>4

(* A load from the stack is the value of its units. *)
LEMMA LoadStack ==
    ASSUME StackInv, NEW n \in {1, WordUnits}, NEW d \in Nat, d + n <= Depth
    PROVE  /\ Wrap(SP + d) = SP + d
           /\ Promise!Value(SubSeq(Stack, d + 1, d + n)) = Load(SP + d, n)
           /\ Load(SP + d, n) \in 0 .. Place[n] - 1
           /\ Load(SP + d, n) \in Word
           /\ \A k \in 0 .. n - 1 : UnitAt(Load(SP + d, n), k) = mem[SP + d + k]
<1> DEFINE us == SubSeq(Stack, d + 1, d + n)
<1>0. n \in {1, 2, 4}
  BY Places
<1>1. Stack \in Seq(Unit) /\ Len(Stack) = Depth /\ Depth \in Nat /\ SP \in Nat /\ SP + Depth = Base
  BY StackIs, StackWords
<1>2. Len(us) = n /\ \A k \in 1 .. n : us[k] = Stack[d + k]
  BY <1>0, <1>1
<1>3. \A k \in 1 .. n : us[k] \in Unit /\ us[k] = mem[SP + d + k - 1]
  <2> SUFFICES ASSUME NEW k \in 1 .. n PROVE us[k] \in Unit /\ us[k] = mem[SP + d + k - 1]
    OBVIOUS
  <2>1. d + k \in 1 .. Depth
    BY <1>0, <1>1
  <2>2. Stack[d + k] \in Unit /\ Stack[d + k] = mem[SP + (d + k) - 1]
    BY <2>1, StackIs
  <2>3. SP + (d + k) - 1 = SP + d + k - 1
    BY <1>0, <1>1
  <2> QED BY <1>2, <2>2, <2>3
<1>4. \A k \in 1 .. n : Wrap(SP + d + k - 1) = SP + d + k - 1
  BY <1>0, <1>1, StackWords
<1>5. Wrap(SP + d) = SP + d
  BY <1>0, <1>1, StackWords
<1> HIDE DEF us
<1>6. Load(SP + d, n) = Total(us, n)
  BY <1>3, <1>4, Loaded
<1>7. Promise!Value(us) = Total(us, n)
  BY <1>2, <1>3, Valued
<1>8. /\ Total(us, n) \in 0 .. Place[n] - 1
      /\ \A k \in 1 .. n : UnitAt(Total(us, n), k - 1) = us[k]
  BY <1>3, TotalUnits
<1>9. \A k \in 0 .. n - 1 : UnitAt(Load(SP + d, n), k) = mem[SP + d + k]
  <2> SUFFICES ASSUME NEW k \in 0 .. n - 1 PROVE UnitAt(Load(SP + d, n), k) = mem[SP + d + k]
    OBVIOUS
  <2>1. k + 1 \in 1 .. n /\ (k + 1) - 1 = k /\ SP + d + (k + 1) - 1 = SP + d + k
    BY <1>0, <1>1
  <2> QED BY <1>3, <1>6, <1>8, <2>1
<1> QED BY <1>5, <1>6, <1>7, <1>8, <1>9, LowRange DEF us

(* A store changes its units only. *)
LEMMA Stored ==
    ASSUME StackInv, NEW n \in {1, WordUnits}, NEW a \in Nat, a + n <= Base, NEW v \in Int
    PROVE  /\ Store(a, v, n) \in [Word -> Unit]
           /\ \A b \in Word : Store(a, v, n)[b] = IF b \in a .. a + n - 1 THEN UnitAt(v, b - a)
                                                  ELSE mem[b]
<1>0. n \in {1, 2, 4} /\ n <= WordUnits
  BY Places
<1> DEFINE m == Place[WordUnits]
<1>1. m \in Nat \ {0} /\ Word = 0 .. m - 1 /\ Base < m /\ Base \in Nat
  BY WordRange, StackWords
<1> HIDE DEF m
<1>2. ASSUME NEW b \in Word
      PROVE  Wrap(b - a) = IF b >= a THEN b - a ELSE b - a + m
  <2>1. b - a \in Int /\ b \in 0 .. m - 1 /\ a < m
    BY <1>0, <1>1
  <2>2. CASE b >= a
    <3>1. b - a \in Word
      BY <1>1, <2>1, <2>2
    <3> QED BY <2>2, <3>1, WordRange
  <2>3. CASE b < a
    <3> DEFINE q == -1
               r == b - a + m
               x == b - a
    <3>1. q \in Int /\ r \in 0 .. m - 1 /\ x \in Int /\ x = m * q + r
      BY <1>1, <2>1, <2>3
    <3> HIDE DEF q, r, x
    <3>2. x % m = r
      BY <1>1, <3>1, DivModIs
    <3>3. (b - a) % m = b - a + m
      BY <3>2 DEF x, r
    <3> QED BY <2>1, <2>3, <3>3 DEF Wrap, WordMod, m
  <2> QED BY <2>1, <2>2, <2>3
<1>3. ASSUME NEW b \in Word
      PROVE  /\ Store(a, v, n)[b] = IF b \in a .. a + n - 1 THEN UnitAt(v, b - a) ELSE mem[b]
             /\ Store(a, v, n)[b] \in Unit
  <2>1. b \in 0 .. m - 1 /\ mem[b] \in Unit
    BY <1>1 DEF StackInv
  <2>2. Store(a, v, n)[b] = IF Wrap(b - a) < n THEN UnitAt(v, Wrap(b - a)) ELSE mem[b]
    BY DEF Store, UnitAt
  <2>3. CASE b \in a .. a + n - 1
    <3>1. Wrap(b - a) = b - a /\ b - a < n /\ b - a \in 0 .. WordUnits
      BY <1>0, <1>2, <2>1, <2>3, Places
    <3> QED BY <2>2, <2>3, <3>1, UnitType
  <2>4. CASE b \notin a .. a + n - 1
    <3>1. ~(Wrap(b - a) < n)
      <4>1. CASE b >= a
        BY <1>0, <1>2, <2>1, <2>4, <4>1
      <4>2. CASE b < a
        <5>1. Wrap(b - a) = b - a + m
          BY <1>2, <2>1, <4>2
        <5> QED BY <1>0, <1>1, <2>1, <4>2, <5>1
      <4> QED BY <2>1, <4>1, <4>2
    <3> QED BY <2>1, <2>2, <2>4, <3>1
  <2> QED BY <2>3, <2>4
<1>4. Store(a, v, n) = [b \in Word |-> Store(a, v, n)[b]]
  BY DEF Store
<1> QED BY <1>3, <1>4

------------------------------------------------------------------------------
(* What the operators of the stack machine are here. *)
LEMMA SameOperators ==
    /\ Promise!Place = Place /\ Promise!GPRs = GPRs /\ Promise!Word = Word /\ Promise!Unit = Unit
    /\ Promise!Flags = Flags
    /\ \A v : Promise!Wrap(v) = Wrap(v)
    /\ \A v, n : Promise!Low(v, n) = Low(v, n)
    /\ Promise!After(ip) = NextPC
    /\ \A v, n : Promise!Units(v, n) = [k \in 1 .. n |-> UnitAt(v, k - 1)]
<1>1. Promise!Place = Place
  BY DEF Promise!Place, Place
<1> QED
  BY <1>1 DEF Promise!GPRs, GPRs, Promise!Word, Word, Promise!WordMod, WordMod, Promise!Unit,
              Unit, Promise!Flags, Flags, Promise!Wrap, Wrap, Promise!Low, Low, Promise!After, NextPC, Promise!Units,
              UnitAt

(* Concatenation, place by place. *)
LEMMA Concat ==
    ASSUME NEW S, NEW s \in Seq(S), NEW t \in Seq(S)
    PROVE  s \o t = [k \in 1 .. (Len(s) + Len(t)) |-> IF k <= Len(s) THEN s[k] ELSE t[k - Len(s)]]
<1> DEFINE r == s \o t
           n == Len(s) + Len(t)
<1>1. r \in Seq(S) /\ Len(r) = n
      /\ \A i \in 1 .. n : r[i] = IF i <= Len(s) THEN s[i] ELSE t[i - Len(s)]
  BY ConcatProperties
<1> HIDE DEF r, n
<1>2. r = [k \in 1 .. n |-> r[k]]
  BY <1>1
<1>3. r = [k \in 1 .. n |-> IF k <= Len(s) THEN s[k] ELSE t[k - Len(s)]]
  BY <1>1, <1>2
<1> QED BY <1>3 DEF r, n

(* A push of n units makes the stack longer by the units of the value, and  *)
(* by what lies below them if the stack pointer moves further.              *)
LEMMA PushedSlot ==
    ASSUME StackInv, NEW n \in {1, WordUnits}, NEW m \in {n, WordUnits}, Room(m),
           NEW v \in Int, NEW w \in Int,
           \A k \in 0 .. n - 1 : UnitAt(v, k) = UnitAt(w, k),
           mem' = Store(Displaced(n), v, n), SP' = Wrap(SP - m)
    PROVE  /\ SP' \in Word /\ SP' <= Base /\ mem' \in [Word -> Unit]
           /\ \E gap \in [1 .. (m - n) -> Unit] :
                Stack' = (gap \o Promise!Units(w, n)) \o Stack
<1>0. n \in {1, 2, 4} /\ m \in {1, 2, 4} /\ n <= m /\ m <= WordUnits /\ WordUnits \in {2, 4}
  BY Places
<1>1. SP \in Nat /\ Base \in Nat /\ Depth \in Nat /\ Depth = Base - SP
  BY StackWords
<1>2. SP - m \in 0 .. Base /\ SP - n \in 0 .. Base /\ SP - n + n <= Base
  <2>1. MaxDepth \in 0 .. Base /\ Depth + m <= MaxDepth
    BY SizeAssumption DEF Room
  <2> QED BY <1>0, <1>1, <2>1
<1>3. Wrap(SP - n) = SP - n /\ Wrap(SP - m) = SP - m /\ SP' = SP - m /\ SP - m \in Word
  BY <1>2, StackWords
<1>4. /\ mem' \in [Word -> Unit]
      /\ \A b \in Word : mem'[b] = IF b \in SP - n .. SP - n + n - 1 THEN UnitAt(v, b - (SP - n))
                                   ELSE mem[b]
  BY <1>0, <1>2, <1>3, Stored DEF Displaced
<1> DEFINE us == Promise!Units(w, n)
           gap == [k \in 1 .. (m - n) |-> mem[SP - m + k - 1]]
<1>5. us = [k \in 1 .. n |-> UnitAt(w, k - 1)]
  BY SameOperators
<1>6. us \in Seq(Unit) /\ Len(us) = n /\ \A k \in 1 .. n : us[k] = UnitAt(w, k - 1)
  <2>1. \A k \in 1 .. n : UnitAt(w, k - 1) \in Unit
    BY <1>0, UnitType
  <2> QED BY <1>0, <1>5, <2>1
<1>7. /\ gap \in [1 .. (m - n) -> Unit] /\ gap \in Seq(Unit) /\ Len(gap) = m - n
      /\ \A k \in 1 .. (m - n) : gap[k] = mem[SP - m + k - 1]
  <2>1. \A k \in 1 .. (m - n) : SP - m + k - 1 \in 0 .. Base
    BY <1>0, <1>1, <1>2
  <2>2. \A k \in 1 .. (m - n) : mem[SP - m + k - 1] \in Unit
    BY <2>1, StackWords DEF StackInv
  <2>3. m - n \in Nat
    BY <1>0
  <2> QED BY <2>2, <2>3
<1> HIDE DEF us, gap
<1>8. Stack \in Seq(Unit) /\ Len(Stack) = Depth /\ \A k \in 1 .. Depth : Stack[k] = mem[SP + k - 1]
  BY StackIs
<1> DEFINE st == Stack
           top == gap \o us
           all == top \o st
<1>9. /\ top \in Seq(Unit) /\ Len(top) = m
      /\ \A k \in 1 .. m : top[k] = IF k <= m - n THEN gap[k] ELSE us[k - (m - n)]
  <2>1. top \in Seq(Unit) /\ Len(top) = Len(gap) + Len(us)
    BY <1>6, <1>7, ConcatProperties
  <2>2. \A k \in 1 .. (Len(gap) + Len(us)) :
          top[k] = IF k <= Len(gap) THEN gap[k] ELSE us[k - Len(gap)]
    BY <1>6, <1>7, ConcatProperties
  <2>3. Len(gap) + Len(us) = m
    BY <1>0, <1>6, <1>7
  <2> QED BY <1>7, <2>1, <2>2, <2>3
<1> HIDE DEF top
<1>10. all = [k \in 1 .. (Depth + m) |-> IF k <= m THEN top[k] ELSE st[k - m]]
  <2>1. st \in Seq(Unit) /\ Len(st) = Depth
    BY <1>8
  <2> HIDE DEF st
  <2>2. all = [k \in 1 .. (Len(top) + Len(st)) |->
                 IF k <= Len(top) THEN top[k] ELSE st[k - Len(top)]]
    BY <1>9, <2>1, Concat
  <2>3. Len(top) + Len(st) = Depth + m
    BY <1>0, <1>1, <1>9, <2>1
  <2> QED BY <1>9, <2>2, <2>3
<1>11. Stack' = [k \in 1 .. (Depth + m) |-> mem'[Wrap(SP - m + k - 1)]]
  <2>1. Depth' = Depth + m
    BY <1>0, <1>1, <1>3 DEF Depth
  <2> QED BY <1>3, <2>1 DEF Stack, Wrap, WordMod
<1>12. ASSUME NEW k \in 1 .. (Depth + m)
       PROVE  mem'[Wrap(SP - m + k - 1)] = IF k <= m THEN top[k] ELSE st[k - m]
  <2> DEFINE x == SP - m + k - 1
  <2>1. /\ x \in 0 .. Base
        /\ x \in SP - n .. SP - n + n - 1 <=> (k <= m /\ ~(k <= m - n))
        /\ x - (SP - n) = k - (m - n) - 1
        /\ k > m => k - m \in 1 .. Depth /\ SP + (k - m) - 1 = x
        /\ k <= m => k \in 1 .. m
        /\ (k <= m /\ ~(k <= m - n)) => k - (m - n) \in 1 .. n /\ k - (m - n) - 1 \in 0 .. n - 1
        /\ k <= m - n => k \in 1 .. (m - n) /\ k <= m
    BY <1>0, <1>1, <1>2
  <2>2. Wrap(x) = x /\ x \in Word
    BY <2>1, StackWords
  <2>3. x = SP - m + k - 1
    OBVIOUS
  <2> HIDE DEF x
  <2>4. CASE k <= m - n
    <3>1. mem'[x] = mem[x] /\ gap[k] = mem[x]
      BY <1>4, <1>7, <2>1, <2>2, <2>3, <2>4
    <3>2. top[k] = gap[k]
      BY <1>9, <2>1, <2>4
    <3> QED BY <2>1, <2>2, <2>3, <2>4, <3>1, <3>2
  <2>5. CASE k <= m /\ ~(k <= m - n)
    <3> DEFINE j == k - (m - n)
    <3>1. j \in 1 .. n /\ j - 1 \in 0 .. n - 1 /\ x - (SP - n) = j - 1
      BY <2>1, <2>5
    <3>2. top[k] = us[j]
      BY <1>9, <2>1, <2>5
    <3> HIDE DEF j
    <3>3. mem'[x] = UnitAt(v, x - (SP - n))
      BY <1>4, <2>1, <2>2, <2>5
    <3>4. mem'[x] = UnitAt(w, j - 1) /\ us[j] = UnitAt(w, j - 1)
      BY <1>6, <3>1, <3>3
    <3> QED BY <2>2, <2>3, <2>5, <3>2, <3>4
  <2>6. CASE ~(k <= m)
    <3>1. k > m
      BY <1>0, <2>6
    <3>2. mem'[x] = mem[x]
      BY <1>4, <2>1, <2>2, <2>6
    <3>3. st[k - m] = mem[x]
      BY <1>8, <2>1, <3>1
    <3> QED BY <2>2, <2>3, <2>6, <3>2, <3>3
  <2> QED BY <1>0, <2>4, <2>5, <2>6
<1>13. Stack' = all
  BY <1>10, <1>11, <1>12
<1>14. Stack' = (gap \o Promise!Units(w, n)) \o Stack
  BY <1>13 DEF us, top
<1>15. SP' \in Word /\ SP' <= Base
  BY <1>2, <1>3, <1>1
<1>16. \E g \in [1 .. (m - n) -> Unit] : Stack' = (g \o Promise!Units(w, n)) \o Stack
  BY <1>7, <1>14, Zenon
<1> QED BY <1>4, <1>15, <1>16

(* If it moves by the size of the operand, nothing lies between. *)
LEMMA Pushed ==
    ASSUME StackInv, NEW n \in {1, WordUnits}, Room(n), NEW v \in Int, NEW w \in Int,
           \A k \in 0 .. n - 1 : UnitAt(v, k) = UnitAt(w, k),
           mem' = Store(Displaced(n), v, n), SP' = Wrap(SP - n)
    PROVE  /\ SP' \in Word /\ SP' <= Base /\ mem' \in [Word -> Unit]
           /\ Stack' = Promise!Units(w, n) \o Stack
<1>1. n \in {n, WordUnits} /\ n \in {1, 2, 4}
  BY Places
<1>2. /\ SP' \in Word /\ SP' <= Base /\ mem' \in [Word -> Unit]
      /\ \E gap \in [1 .. (n - n) -> Unit] : Stack' = (gap \o Promise!Units(w, n)) \o Stack
  BY <1>1, PushedSlot
<1>3. PICK gap \in [1 .. (n - n) -> Unit] : Stack' = (gap \o Promise!Units(w, n)) \o Stack
  BY <1>2
<1>4. gap = <<>>
  BY <1>1
<1> DEFINE us == Promise!Units(w, n)
<1>5. us \in Seq(Unit)
  <2>1. us = [k \in 1 .. n |-> UnitAt(w, k - 1)]
    BY SameOperators
  <2>2. \A k \in 1 .. n : UnitAt(w, k - 1) \in Unit
    BY <1>1, UnitType, Places
  <2> QED BY <1>1, <2>1, <2>2
<1> HIDE DEF us
<1>6. <<>> \o us = us
  BY <1>5, ConcatEmptySeq
<1> QED BY <1>2, <1>3, <1>4, <1>6 DEF us

(* A pop removes units from the top of the stack. *)
LEMMA Popped ==
    ASSUME StackInv, NEW n \in Nat, n <= Depth, mem' = mem, SP' = Wrap(SP + n)
    PROVE  /\ SP' \in Word /\ SP' <= Base
           /\ Stack' = SubSeq(Stack, n + 1, Len(Stack))
<1>1. SP \in Nat /\ Base \in Nat /\ Depth \in Nat /\ Depth = Base - SP
  BY StackWords
<1>2. SP + n \in 0 .. Base /\ Wrap(SP + n) = SP + n /\ SP + n \in Word
  BY <1>1, StackWords
<1>3. Depth' = Depth - n
  BY <1>1, <1>2 DEF Depth
<1>4. Stack' = [k \in 1 .. (Depth - n) |-> mem[Wrap(SP + n + k - 1)]]
  BY <1>2, <1>3 DEF Stack, Wrap, WordMod
<1>5. Stack \in Seq(Unit) /\ Len(Stack) = Depth /\ \A k \in 1 .. Depth : Stack[k] = mem[SP + k - 1]
  BY StackIs
<1>6. SubSeq(Stack, n + 1, Len(Stack)) = [k \in 1 .. (Depth - n) |-> Stack[n + k]]
  <2>1. Len(Stack) - (n + 1) + 1 = Depth - n
    BY <1>1, <1>5
  <2>2. SubSeq(Stack, n + 1, Len(Stack))
          = [k \in 1 .. (1 + Len(Stack) - (n + 1)) |-> Stack[k + (n + 1) - 1]]
    BY <1>1, <1>5
  <2>3. \A k \in 1 .. (Depth - n) : k + (n + 1) - 1 = n + k
    BY <1>1
  <2>4. 1 + Len(Stack) - (n + 1) = Depth - n
    BY <1>1, <1>5
  <2> QED BY <2>2, <2>3, <2>4
<1>7. ASSUME NEW k \in 1 .. (Depth - n)
      PROVE  mem[Wrap(SP + n + k - 1)] = Stack[n + k]
  <2>1. n + k \in 1 .. Depth /\ SP + (n + k) - 1 = SP + n + k - 1 /\ SP + n + k - 1 \in 0 .. Base
    BY <1>1
  <2> QED BY <1>5, <2>1, StackWords
<1>8. Stack' = SubSeq(Stack, n + 1, Len(Stack))
  BY <1>4, <1>6, <1>7
<1> QED BY <1>2, <1>8

(* What a write to the low units of a register leaves is a word. *)
LEMMA Merged ==
    ASSUME NEW n \in {1, WordUnits}, NEW w \in Word, NEW v \in Int
    PROVE  Low(v, n) + (w - Low(w, n)) \in Word
<1> DEFINE m == Place[WordUnits]
           p == Place[n]
           l == Low(v, n)
           f == Low(w, n)
<1>1. m \in Nat \ {0} /\ Word = 0 .. m - 1 /\ p \in Nat \ {0}
  BY WordRange, LowRange
<1>2. l \in 0 .. p - 1 /\ f \in 0 .. p - 1
  BY WordRange, LowRange
<1>3. PICK q \in Nat \ {0} : m = p * q
  <2>1. CASE n = WordUnits
    BY <1>1, <2>1
  <2>2. CASE n = 1
    <3>1. PICK q \in Nat \ {0} : Place[WordUnits] = Place[0] * (Radix * q)
      BY PlaceSplit, Places
    <3> QED BY <2>2, <3>1, Places
  <2> QED BY <2>1, <2>2
<1>4. w \in Int /\ f = w % p
  BY WordRange DEF Low
<1> HIDE DEF m, p, l, f
<1>5. w \div p \in Int /\ w = p * (w \div p) + f
  BY <1>1, <1>4, DivMod
<1> DEFINE e == w \div p
<1> HIDE DEF e
<1>6. e \in Int /\ w = p * e + f /\ w \in 0 .. m - 1
  BY <1>1, <1>5 DEF e
<1>7. e < q
  <2> SUFFICES ASSUME e >= q PROVE FALSE
    BY <1>3, <1>6
  <2>1. p * e >= p * q
    BY <1>1, <1>3, <1>6
  <2> QED BY <1>1, <1>2, <1>3, <1>6, <2>1
<1>8. p * e <= p * (q - 1) /\ p * (q - 1) = p * q - p /\ p * e \in Int
  BY <1>1, <1>3, <1>6, <1>7
<1>9. e >= 0
  <2> SUFFICES ASSUME e <= -1 PROVE FALSE
    BY <1>6
  <2>1. p * e <= p * (-1)
    BY <1>1, <1>6
  <2> QED BY <1>1, <1>2, <1>6, <2>1
<1>10. p * e >= 0
  BY <1>1, <1>6, <1>9
<1>11. l + (w - f) \in 0 .. m - 1
  BY <1>1, <1>2, <1>3, <1>6, <1>8, <1>10
<1> QED BY <1>1, <1>11 DEF l, f

------------------------------------------------------------------------------
(* The instructions that push. *)

(* The registers that the stack machine has. *)
Gpr == [r \in GPRs |-> regs[r]]

(* The types that an operand may have. *)
LEMMA GprIs ==
    ASSUME StackInv
    PROVE  /\ \A r \in GPRs : Gpr[r] = regs[r] /\ regs[r] \in Word /\ regs[r] \in Int
           /\ SP \in Word /\ SP \in Int /\ flags \in Int /\ ip \in Int /\ NextPC \in Word
<1>1. /\ \A r \in GPRs \cup {"SP"} : regs[r] \in Word
      /\ flags \in Int /\ ip \in Word
  BY DEF StackInv, GPRs, Flags
<1>2. \A r \in GPRs : Gpr[r] = regs[r]
  BY DEF Gpr
<1>3. ip + 1 \in Int
  BY <1>1, WordRange
<1> QED BY <1>1, <1>2, <1>3, WordRange DEF NextPC, SP

(* The stack pointer moves and the other registers stay. *)
LEMMA PointerOnly ==
    ASSUME StackInv, NEW x \in Word, x <= Base, regs' = [regs EXCEPT !["SP"] = x],
           mem' \in [Word -> Unit], flags' \in Flags, ip' \in Word
    PROVE  StackInv' /\ Gpr' = Gpr /\ regs'["DS"] = regs["DS"] /\ SP' = x
<1>1. SP' = x /\ regs' \in [{"AX", "BP", "SP", "DS"} -> Word] /\ regs'["DS"] = regs["DS"]
      /\ \A r \in GPRs : regs'[r] = regs[r]
  BY DEF StackInv, SP, GPRs
<1>2. Gpr' = Gpr
  BY <1>1 DEF Gpr
<1> QED BY <1>1, <1>2 DEF StackInv

(* A push: the value may be any that has the units of the operand. *)
LEMMA PushStep ==
    ASSUME StackInv, NEW n \in {1, WordUnits}, NEW v \in Int, NEW w \in Int,
           \A k \in 0 .. n - 1 : UnitAt(v, k) = UnitAt(w, k),
           Push(v, n, n)
    PROVE  StackInv' /\ Promise!Push(w, n)
<1>1. /\ Room(n) /\ mem' = Store(Displaced(n), v, n) /\ regs' = [regs EXCEPT !["SP"] = Wrap(SP - n)]
      /\ ip' = NextPC /\ flags' = flags
  BY DEF Push
<1>2. SP' = Wrap(SP - n)
  BY <1>1 DEF SP, StackInv
<1>3. /\ SP' \in Word /\ SP' <= Base /\ mem' \in [Word -> Unit]
      /\ Stack' = Promise!Units(w, n) \o Stack
  BY <1>1, <1>2, Pushed
<1>4. StackInv' /\ Gpr' = Gpr /\ regs'["DS"] = regs["DS"]
  <2>1. flags' \in Flags /\ ip' \in Word
    BY <1>1, GprIs DEF StackInv
  <2> QED BY <1>1, <1>2, <1>3, <2>1, PointerOnly
<1>5. ip' = Promise!After(ip)
  BY <1>1, SameOperators
<1> QED BY <1>1, <1>3, <1>4, <1>5 DEF Promise!Push, Promise!Grow, Stack, Gpr

(* PUSH of a register, of which the stack pointer is one. *)
LEMMA PushGPRStep ==
    ASSUME StackInv, NEW n \in {1, WordUnits}, PUSH_GPRv(n)
    PROVE  StackInv' /\ (Promise!PushGPR(n) \/ Promise!PushSP(n))
<1>1. PICK r \in GPRs \cup {"SP"} : Push(Low(regs[r], n), n, n)
  BY DEF PUSH_GPRv, ReadGPR
<1>2. regs[r] \in Int /\ Low(regs[r], n) \in Int
  <2>1. regs[r] \in Int
    BY GprIs DEF SP
  <2> QED BY <2>1, LowRange
<1>3. StackInv' /\ Promise!Push(regs[r], n)
  <2>1. \A k \in 0 .. n - 1 : UnitAt(Low(regs[r], n), k) = UnitAt(regs[r], k)
    BY <1>2, LowUnits
  <2> QED BY <1>1, <1>2, <2>1, PushStep
<1>4. CASE r \in GPRs
  <2>1. Gpr[r] = regs[r] /\ r \in Promise!GPRs
    BY <1>4, GprIs, SameOperators
  <2> QED BY <1>3, <2>1 DEF Promise!PushGPR, Gpr
<1>5. CASE r = "SP"
  <2>1. Base - Len(Stack) = SP /\ Wrap(SP) = SP
    BY StackIs, StackWords
  <2>2. Promise!Wrap(Base - Len(Stack)) = regs[r]
    BY <1>5, <2>1, SameOperators DEF SP
  <2> QED BY <1>3, <2>2 DEF Promise!PushSP, Stack
<1> QED BY <1>1, <1>4, <1>5

(* GetSignedImmediate is cut to 32 bits: an immediate must fit, for an      *)
(* operand of 64 bits to be what the program asks for.                      *)
ImmediatesFit == \A v \in Imms : Wrap(v) < Place[2]

(* PUSH of an immediate. *)
LEMMA PushIMMStep ==
    ASSUME ImmediatesFit, StackInv, NEW n \in {1, WordUnits}, PUSH_IMM(n)
    PROVE  StackInv' /\ Promise!PushImm(n)
<1>1. PICK v \in Imms : Push(Low(Low(v, n), 2), n, n)
  BY DEF PUSH_IMM
<1>2. v \in Int /\ Low(v, n) \in 0 .. Place[n] - 1 /\ Wrap(v) \in Int /\ Low(v, n) \in Int
  BY SizeAssumption, LowRange, WordRange
<1>3. Low(Low(v, n), 2) = Low(v, n)
  <2>1. Place[2] \in Nat \ {0}
    BY Places, PlaceType
  <2>2. Low(v, n) < Place[2]
    <3>1. CASE n = WordUnits
      BY <3>1 DEF ImmediatesFit, Low, Wrap, WordMod
    <3>2. CASE n = 1
      <4>1. Radix <= Radix * Radix
        BY Places
      <4> QED BY <1>2, <3>2, <4>1, Places
    <3> QED BY <3>1, <3>2
  <2> DEFINE p == Place[2]
             x == Low(v, n)
  <2>3. x \in 0 .. p - 1 /\ p \in Nat \ {0}
    BY <1>2, <2>1, <2>2, LowRange
  <2> HIDE DEF p, x
  <2>4. x % p = x
    BY <2>3
  <2> QED BY <2>4 DEF Low, p, x
<1>4. \A k \in 0 .. n - 1 : UnitAt(Low(v, n), k) = UnitAt(Wrap(v), k)
  <2> SUFFICES ASSUME NEW k \in 0 .. n - 1 PROVE UnitAt(Low(v, n), k) = UnitAt(Wrap(v), k)
    OBVIOUS
  <2>1. UnitAt(Low(v, n), k) = UnitAt(v, k)
    BY <1>2, LowUnits
  <2>2. k \in 0 .. WordUnits - 1 /\ WordUnits \in {1, WordUnits} /\ Wrap(v) = Low(v, WordUnits)
    BY Places DEF Wrap, WordMod, Low
  <2>3. UnitAt(Low(v, WordUnits), k) = UnitAt(v, k)
    BY <1>2, <2>2, LowUnits
  <2> QED BY <2>1, <2>2, <2>3
<1>5. StackInv' /\ Promise!Push(Wrap(v), n)
  BY <1>1, <1>2, <1>3, <1>4, PushStep
<1> QED BY <1>5, SameOperators DEF Promise!PushImm

(* PUSH of what is on the stack. *)
LEMMA PushMEMStep ==
    ASSUME StackInv, NEW n \in {1, WordUnits}, PUSH_MEMv(n)
    PROVE  StackInv' /\ Promise!PushMem(n)
<1>1. PICK d \in 0 .. (Depth - n) : Push(Load(Wrap(SP + d), n), n, n)
  BY DEF PUSH_MEMv
<1>2. d \in Nat /\ d + n <= Depth /\ Len(Stack) = Depth
  BY StackWords, StackIs, Places
<1>3. /\ Load(Wrap(SP + d), n) \in Int
      /\ Promise!Value(SubSeq(Stack, d + 1, d + n)) = Load(Wrap(SP + d), n)
  BY <1>2, LoadStack, WordRange
<1>4. StackInv' /\ Promise!Push(Load(Wrap(SP + d), n), n)
  BY <1>1, <1>3, PushStep
<1>5. d \in 0 .. (Len(Stack) - n)
  BY <1>2
<1> QED BY <1>3, <1>4, <1>5 DEF Promise!PushMem, Promise!At, Stack

(* A push into the slot of a word. *)
LEMMA PushSlotStep ==
    ASSUME StackInv, NEW n \in {1, WordUnits}, NEW v \in Int, Push(v, n, WordUnits)
    PROVE  StackInv' /\ Promise!PushSlot(v, n)
<1>1. /\ Room(WordUnits) /\ mem' = Store(Displaced(n), v, n)
      /\ regs' = [regs EXCEPT !["SP"] = Wrap(SP - WordUnits)]
      /\ ip' = NextPC /\ flags' = flags
  BY DEF Push
<1>2. SP' = Wrap(SP - WordUnits)
  BY <1>1 DEF SP, StackInv
<1>3. /\ SP' \in Word /\ SP' <= Base /\ mem' \in [Word -> Unit]
      /\ \E gap \in [1 .. (WordUnits - n) -> Unit] :
           Stack' = (gap \o Promise!Units(v, n)) \o Stack
  BY <1>1, <1>2, PushedSlot
<1>4. StackInv' /\ Gpr' = Gpr /\ regs'["DS"] = regs["DS"]
  <2>1. flags' \in Flags /\ ip' \in Word
    BY <1>1, GprIs DEF StackInv
  <2> QED BY <1>1, <1>2, <1>3, <2>1, PointerOnly
<1>5. ip' = Promise!After(ip) /\ Promise!Unit = Unit
  BY <1>1, SameOperators
<1> QED BY <1>1, <1>3, <1>4, <1>5
        DEF Promise!PushSlot, Promise!GrowSlot, Promise!Grow, Stack, Gpr

(* PUSH of a segment register moves the stack pointer by a word. *)
LEMMA PushSEGStep ==
    ASSUME StackInv, NEW n \in {1, WordUnits}, PUSH_SEG(n)
    PROVE  StackInv' /\ Promise!PushSeg(n)
<1>1. regs["DS"] \in Int
  BY WordRange DEF StackInv
<1> QED BY <1>1, PushSlotStep DEF PUSH_SEG, Promise!PushSeg

(* PUSHF does so, too, with the flags of the host above the client's. *)
LEMMA PushFStep ==
    ASSUME StackInv, NEW n \in {1, WordUnits}, PUSHF(n)
    PROVE  StackInv' /\ Promise!PushFlags(n)
<1>1. PICK h \in HostFlags : Push(flags + FlagMod * h, n, WordUnits)
  BY DEF PUSHF
<1>2. flags + FlagMod * h \in Int
  BY GprIs, FlagAssumption
<1> QED BY <1>1, <1>2, PushSlotStep DEF Promise!PushFlags

(* CALL pushes the next PC and reads its target before. *)
LEMMA CallStep ==
    ASSUME StackInv, NEW n \in {1, WordUnits}, CALL_NEAR(n)
    PROVE  StackInv' /\ Promise!Call(n)
<1>1. /\ Room(WordUnits) /\ mem' = Store(Displaced(n), NextPC, n)
      /\ regs' = [regs EXCEPT !["SP"] = Wrap(SP - WordUnits)] /\ flags' = flags
  BY DEF CALL_NEAR
<1>2. SP' = Wrap(SP - WordUnits)
  BY <1>1 DEF SP, StackInv
<1>3. NextPC \in Int
  BY GprIs, WordRange
<1>4. /\ SP' \in Word /\ SP' <= Base /\ mem' \in [Word -> Unit]
      /\ \E gap \in [1 .. (WordUnits - n) -> Unit] :
           Stack' = (gap \o Promise!Units(NextPC, n)) \o Stack
  BY <1>1, <1>2, <1>3, PushedSlot
<1>5. /\ ip' \in Word
      /\ \/ ip' \in Targets
         \/ \E r \in Promise!GPRs : ip' = Promise!Low(Gpr[r], n)
         \/ \E d \in 0 .. (Len(Stack) - n) : ip' = Promise!Value(SubSeq(Stack, d + 1, d + n))
  <2>1. CASE ip' \in Targets
    BY <2>1, SizeAssumption
  <2>2. CASE \E r \in GPRs : ip' = ReadGPR(r, n)
    <3>1. PICK r \in GPRs : ip' = ReadGPR(r, n)
      BY <2>2
    <3>2. ip' = Low(regs[r], n) /\ regs[r] \in Int /\ Gpr[r] = regs[r]
      BY <3>1, GprIs DEF ReadGPR
    <3>3. ip' = Promise!Low(Gpr[r], n)
      BY <3>2, SameOperators
    <3>4. ip' \in Word
      BY <3>2, LowRange
    <3> QED BY <3>3, <3>4, SameOperators
  <2>3. CASE \E d \in 0 .. (Depth - n) : ip' = Load(Wrap(SP + d), n)
    <3>1. PICK d \in 0 .. (Depth - n) : ip' = Load(Wrap(SP + d), n)
      BY <2>3
    <3>2. d \in Nat /\ d + n <= Depth /\ Len(Stack) = Depth
      BY StackWords, StackIs, Places
    <3>3. /\ Wrap(SP + d) = SP + d /\ Load(SP + d, n) \in Word
          /\ Promise!Value(SubSeq(Stack, d + 1, d + n)) = Load(SP + d, n)
      BY <3>2, LoadStack
    <3>4. d \in 0 .. (Len(Stack) - n)
      BY <3>2
    <3> QED BY <3>1, <3>3, <3>4
  <2> QED BY <2>1, <2>2, <2>3 DEF CALL_NEAR
<1>6. StackInv' /\ Gpr' = Gpr /\ regs'["DS"] = regs["DS"]
  <2>1. flags' \in Flags
    BY <1>1 DEF StackInv
  <2> QED BY <1>1, <1>2, <1>4, <1>5, <2>1, PointerOnly
<1>7. Promise!After(ip) = NextPC /\ Promise!Unit = Unit
  BY SameOperators
<1> QED BY <1>1, <1>4, <1>5, <1>6, <1>7
        DEF Promise!Call, Promise!GrowSlot, Promise!Grow, Promise!At, Stack, Gpr

------------------------------------------------------------------------------
(* The instructions that pop. *)

(* The value on the top of the stack. *)
LEMMA LoadTop ==
    ASSUME StackInv, NEW n \in {1, WordUnits}, n <= Depth
    PROVE  /\ Promise!Value(SubSeq(Stack, 1, n)) = Load(SP, n)
           /\ Load(SP, n) \in Word /\ Load(SP, n) \in Int /\ Low(Load(SP, n), n) = Load(SP, n)
           /\ \A k \in 0 .. n - 1 : UnitAt(Load(SP, n), k) = mem[SP + k]
           /\ Stack[1] = mem[SP] /\ Low(Load(SP, n), 1) = mem[SP] /\ mem[SP] \in Unit
<1>1. SP \in Nat /\ Depth \in Nat /\ n \in {1, 2, 4}
  BY StackWords, Places
<1>2. 0 + n <= Depth /\ SP + 0 = SP /\ 0 + 1 = 1 /\ 0 + n = n /\ 0 \in Nat
  BY <1>1
<1>3. /\ Promise!Value(SubSeq(Stack, 0 + 1, 0 + n)) = Load(SP + 0, n)
      /\ Load(SP + 0, n) \in 0 .. Place[n] - 1 /\ Load(SP + 0, n) \in Word
      /\ \A k \in 0 .. n - 1 : UnitAt(Load(SP + 0, n), k) = mem[SP + 0 + k]
  BY <1>2, LoadStack
<1>4. /\ Promise!Value(SubSeq(Stack, 1, n)) = Load(SP, n)
      /\ Load(SP, n) \in 0 .. Place[n] - 1 /\ Load(SP, n) \in Word
      /\ \A k \in 0 .. n - 1 : UnitAt(Load(SP, n), k) = mem[SP + k]
  BY <1>2, <1>3
<1>5. Load(SP, n) \in Int /\ Low(Load(SP, n), n) = Load(SP, n)
  BY <1>4, LowRange, WordRange
<1>6. Stack[1] = mem[SP] /\ mem[SP] \in Unit
  <2>1. 1 \in 1 .. Depth /\ SP + 1 - 1 = SP
    BY <1>1
  <2> QED BY <2>1, StackIs
<1>7. Low(Load(SP, n), 1) = mem[SP]
  <2>1. 0 \in 0 .. n - 1 /\ SP + 0 = SP
    BY <1>1
  <2>2. UnitAt(Load(SP, n), 0) = mem[SP]
    BY <1>4, <2>1
  <2>3. \A x \in Int : x \div 1 = x
    OBVIOUS
  <2>4. UnitAt(Load(SP, n), 0) = Low(Load(SP, n), 1)
    BY <1>5, <2>3, Places DEF UnitAt, Low
  <2> QED BY <2>2, <2>4
<1> QED BY <1>4, <1>5, <1>6, <1>7

(* POP into a register. *)
LEMMA PopGPRStep ==
    ASSUME StackInv, NEW n \in {1, WordUnits}, POP_GPRv(n)
    PROVE  StackInv' /\ Promise!PopGPR(n)
<1>1. PICK r \in GPRs : regs' = [regs EXCEPT ![r] = WriteGPR(r, Load(SP, n), n),
                                             !["SP"] = Wrap(SP + n)]
  BY DEF POP_GPRv
<1>2. n <= Depth /\ ip' = NextPC /\ flags' = flags /\ mem' = mem
  BY DEF POP_GPRv, Holds
<1> DEFINE v == Load(SP, n)
           x == v + (regs[r] - Low(regs[r], n))
<1>3. /\ v \in Int /\ Low(v, n) = v
      /\ Promise!Value(SubSeq(Stack, 1, n)) = v
  BY <1>2, LoadTop
<1>4. x = WriteGPR(r, v, n) /\ x \in Word /\ regs[r] \in Word /\ Gpr[r] = regs[r]
  <2>1. regs[r] \in Word /\ Gpr[r] = regs[r]
    BY GprIs
  <2>2. Low(v, n) + (regs[r] - Low(regs[r], n)) \in Word
    BY <1>3, <2>1, Merged
  <2> QED BY <1>3, <2>1, <2>2 DEF WriteGPR
<1> HIDE DEF v, x
<1>5. /\ SP' = Wrap(SP + n) /\ regs'["DS"] = regs["DS"]
      /\ \A q \in GPRs : regs'[q] = IF q = r THEN x ELSE regs[q]
      /\ DOMAIN regs' = {"AX", "BP", "SP", "DS"}
      /\ regs' = [regs EXCEPT ![r] = x, !["SP"] = Wrap(SP + n)]
  BY <1>1, <1>4 DEF StackInv, GPRs, SP, v
<1>6. /\ SP' \in Word /\ SP' <= Base
      /\ Stack' = SubSeq(Stack, n + 1, Len(Stack))
  <2>1. n \in Nat
    BY Places
  <2> QED BY <1>2, <1>5, <2>1, Popped
<1>7. regs' \in [{"AX", "BP", "SP", "DS"} -> Word]
  BY <1>4, <1>5, <1>6 DEF StackInv, SP
<1>8. StackInv'
  BY <1>2, <1>5, <1>6, <1>7, GprIs DEF StackInv
<1>9. Gpr' = [Gpr EXCEPT ![r] = Promise!Merge(@, v, n)]
  <2>1. Promise!Merge(Gpr[r], v, n) = x
    BY <1>4, SameOperators DEF Promise!Merge, x
  <2>2. Gpr' = [q \in GPRs |-> IF q = r THEN x ELSE regs[q]]
    BY <1>5 DEF Gpr
  <2>3. [Gpr EXCEPT ![r] = x] = [q \in GPRs |-> IF q = r THEN x ELSE regs[q]]
    BY DEF Gpr
  <2> QED BY <2>1, <2>2, <2>3
<1>10. n <= Len(Stack) /\ r \in Promise!GPRs /\ Promise!After(ip) = NextPC
  BY <1>2, StackIs, SameOperators
<1> QED BY <1>2, <1>3, <1>5, <1>6, <1>8, <1>9, <1>10
        DEF Promise!PopGPR, Promise!Shrink, Promise!Below, Promise!Top, Stack, Gpr

(* POP into a segment register keeps one unit, the top one, and removes a   *)
(* word.                                                                    *)
LEMMA PopSEGStep ==
    ASSUME StackInv, NEW m \in {1, WordUnits}, POP_SEG(m)
    PROVE  StackInv' /\ Promise!PopSeg
<1> DEFINE n == WordUnits
<1>1. /\ n <= Depth /\ ip' = NextPC /\ flags' = flags /\ mem' = mem
      /\ regs' = [regs EXCEPT !["DS"] = Low(Load(SP, m), 1), !["SP"] = Wrap(SP + n)]
  BY DEF POP_SEG, Holds
<1>2. /\ Low(Load(SP, m), 1) = Stack[1] /\ Stack[1] \in Unit
  <2>1. m <= Depth
    BY <1>1, Places, StackWords
  <2> QED BY <2>1, LoadTop
<1>3. Unit \subseteq Word
  BY LowRange, Places DEF Unit
<1>4. /\ SP' = Wrap(SP + n) /\ regs'["DS"] = Stack[1] /\ \A q \in GPRs : regs'[q] = regs[q]
      /\ regs' = [regs EXCEPT !["DS"] = Stack[1], !["SP"] = Wrap(SP + n)]
  BY <1>1, <1>2 DEF StackInv, GPRs, SP
<1>5. /\ SP' \in Word /\ SP' <= Base
      /\ Stack' = SubSeq(Stack, n + 1, Len(Stack))
  <2>1. n \in Nat
    BY Places
  <2> QED BY <1>1, <1>4, <2>1, Popped
<1>6. regs' \in [{"AX", "BP", "SP", "DS"} -> Word]
  BY <1>2, <1>3, <1>4, <1>5 DEF StackInv, SP
<1>7. StackInv'
  BY <1>1, <1>2, <1>4, <1>5, <1>6, GprIs DEF StackInv
<1>8. Gpr' = Gpr
  BY <1>4 DEF Gpr
<1>9. n <= Len(Stack) /\ Promise!After(ip) = NextPC
  BY <1>1, StackIs, SameOperators
<1> QED BY <1>1, <1>4, <1>5, <1>7, <1>8, <1>9
        DEF Promise!PopSeg, Promise!Shrink, Promise!Below, Stack, Gpr

(* POPF. *)
LEMMA PopFStep ==
    ASSUME StackInv, NEW m \in {1, WordUnits}, POPF(m)
    PROVE  StackInv' /\ Promise!PopFlags
<1> DEFINE n == WordUnits
<1>1. /\ n <= Depth /\ ip' = NextPC /\ flags' = Low(Load(SP, m), 1) % FlagMod /\ mem' = mem
      /\ regs' = [regs EXCEPT !["SP"] = Wrap(SP + n)]
  BY DEF POPF, Holds
<1>2. flags' = Stack[1] % FlagMod /\ flags' \in Flags
  <2>1. m <= Depth
    BY <1>1, Places, StackWords
  <2>2. Low(Load(SP, m), 1) = Stack[1] /\ Stack[1] \in Unit
    BY <2>1, LoadTop
  <2>3. Stack[1] \in Int /\ FlagMod \in Nat \ {0}
    BY <2>2, FlagAssumption, Places DEF Unit
  <2>4. Stack[1] % FlagMod \in 0 .. FlagMod - 1
    BY <2>3
  <2> QED BY <1>1, <2>2, <2>4 DEF Flags
<1>3. SP' = Wrap(SP + n)
  BY <1>1 DEF StackInv, SP
<1>4. /\ SP' \in Word /\ SP' <= Base
      /\ Stack' = SubSeq(Stack, n + 1, Len(Stack))
  <2>1. n \in Nat
    BY Places
  <2> QED BY <1>1, <1>3, <2>1, Popped
<1>5. StackInv' /\ Gpr' = Gpr /\ regs'["DS"] = regs["DS"]
  <2>1. mem' \in [Word -> Unit] /\ flags' \in Flags /\ ip' \in Word
    BY <1>1, <1>2, GprIs DEF StackInv
  <2> QED BY <1>1, <1>3, <1>4, <2>1, PointerOnly
<1>6. n <= Len(Stack) /\ Promise!After(ip) = NextPC
  BY <1>1, StackIs, SameOperators
<1> QED BY <1>1, <1>2, <1>4, <1>5, <1>6
        DEF Promise!PopFlags, Promise!Shrink, Promise!Below, Promise!Top, Stack, Gpr

(* RET, with the arguments that it removes. *)
LEMMA RetStep ==
    ASSUME StackInv, NEW m \in {1, WordUnits}, RET_NEAR(m)
    PROVE  StackInv' /\ Promise!Ret(m)
<1> DEFINE w == WordUnits
<1>1. PICK n \in 0 .. (Depth - w) : regs' = [regs EXCEPT !["SP"] = Wrap(SP + w + n)]
  BY DEF RET_NEAR
<1>2. ip' = Load(SP, m) /\ flags' = flags /\ mem' = mem
  BY DEF RET_NEAR
<1>3. /\ w \in {2, 4} /\ Depth \in Nat /\ SP \in Nat /\ w <= Depth /\ m <= Depth
      /\ w + n \in Nat /\ w + n <= Depth /\ SP + w + n = SP + (w + n)
  BY StackWords, Places
<1>4. Load(SP, m) \in Word /\ Promise!Value(SubSeq(Stack, 1, m)) = Load(SP, m)
  BY <1>3, LoadTop
<1>5. SP' = Wrap(SP + (w + n)) /\ regs' = [regs EXCEPT !["SP"] = Wrap(SP + (w + n))]
  BY <1>1, <1>3 DEF StackInv, SP
<1>6. /\ SP' \in Word /\ SP' <= Base
      /\ Stack' = SubSeq(Stack, (w + n) + 1, Len(Stack))
  BY <1>2, <1>3, <1>5, Popped
<1>7. StackInv' /\ Gpr' = Gpr /\ regs'["DS"] = regs["DS"]
  <2>1. mem' \in [Word -> Unit] /\ flags' \in Flags /\ ip' \in Word
    BY <1>2, <1>4 DEF StackInv
  <2> QED BY <1>5, <1>6, <2>1, PointerOnly
<1>8. n \in 0 .. (Len(Stack) - w)
  BY StackIs
<1> QED BY <1>2, <1>4, <1>6, <1>7, <1>8
        DEF Promise!Ret, Promise!Shrink, Promise!Below, Promise!Top, Stack, Gpr

(* POP to memory: the units of the top of the stack go to d units above the *)
(* stack pointer that is left.                                              *)
LEMMA PopMEMStep ==
    ASSUME StackInv, NEW n \in {1, WordUnits}, POP_MEMv(n)
    PROVE  StackInv' /\ Promise!PopMem(n)
<1>1. PICK d \in 0 .. (Depth - 2 * n) : mem' = Store(PoppedTo(d, n), Load(SP, n), n)
  BY DEF POP_MEMv
<1>2. regs' = [regs EXCEPT !["SP"] = Wrap(SP + n)] /\ ip' = NextPC /\ flags' = flags
  BY DEF POP_MEMv
<1>3. /\ n \in {1, 2, 4} /\ SP \in Nat /\ Base \in Nat /\ Depth \in Nat /\ Depth = Base - SP
      /\ n <= Depth /\ d \in Nat /\ SP + d + n \in Nat /\ SP + d + n + n <= Base
      /\ SP + d + n \in 0 .. Base /\ SP + n \in 0 .. Base
  BY StackWords, Places
<1> DEFINE v == Load(SP, n)
           a == SP + d + n
<1>4. v \in Int /\ \A k \in 0 .. n - 1 : UnitAt(v, k) = mem[SP + k]
  BY <1>3, LoadTop
<1>5. Wrap(a) = a /\ Wrap(SP + n) = SP + n /\ SP + n \in Word
  BY <1>3, StackWords
<1>6. mem' = Store(a, v, n)
  BY <1>1, <1>5 DEF PoppedTo
<1> HIDE DEF v, a
<1>7. /\ mem' \in [Word -> Unit]
      /\ \A b \in Word : mem'[b] = IF b \in a .. a + n - 1 THEN UnitAt(v, b - a) ELSE mem[b]
  <2>1. a \in Nat /\ a + n <= Base
    BY <1>3 DEF a
  <2> QED BY <1>4, <1>6, <2>1, Stored
<1>8. StackInv' /\ Gpr' = Gpr /\ regs'["DS"] = regs["DS"] /\ SP' = SP + n
  <2>1. flags' \in Flags /\ ip' \in Word /\ SP + n <= Base
    BY <1>2, <1>3, GprIs DEF StackInv
  <2> QED BY <1>2, <1>5, <1>7, <2>1, PointerOnly
<1>9. Depth' = Depth - n
  BY <1>3, <1>8 DEF Depth
<1>10. /\ Stack \in Seq(Unit) /\ Len(Stack) = Depth
       /\ \A k \in 1 .. Depth : Stack[k] = mem[SP + k - 1]
  BY StackIs
<1> DEFINE below == SubSeq(Stack, n + 1, Len(Stack))
<1>11. \A k \in 1 .. (Depth - n) : below[k] = Stack[n + k]
  <2>1. below = [k \in 1 .. (1 + Len(Stack) - (n + 1)) |-> Stack[k + (n + 1) - 1]]
    BY <1>3, <1>10
  <2>2. 1 + Len(Stack) - (n + 1) = Depth - n
    BY <1>3, <1>10
  <2>3. \A k \in 1 .. (Depth - n) : k + (n + 1) - 1 = n + k
    BY <1>3
  <2> QED BY <2>1, <2>2, <2>3
<1> HIDE DEF below
<1>12. Stack' = [k \in 1 .. (Depth - n) |-> mem'[Wrap(SP + n + k - 1)]]
  BY <1>8, <1>9 DEF Stack, Wrap, WordMod
<1>13. ASSUME NEW k \in 1 .. (Depth - n)
       PROVE  mem'[Wrap(SP + n + k - 1)] = IF k \in (d + 1) .. (d + n) THEN Stack[k - d]
                                           ELSE below[k]
  <2> DEFINE b == SP + n + k - 1
  <2>1. b \in 0 .. Base
    BY <1>3
  <2>2. b \in Word /\ Wrap(b) = b
    BY <2>1, StackWords
  <2>3. CASE k \in (d + 1) .. (d + n)
    <3>1. /\ b \in a .. a + n - 1 /\ b - a = k - d - 1 /\ k - d - 1 \in 0 .. n - 1
          /\ k - d \in 1 .. Depth /\ SP + (k - d - 1) = SP + (k - d) - 1
      BY <1>3, <2>3 DEF a
    <3> HIDE DEF b
    <3>2. mem'[b] = UnitAt(v, k - d - 1)
      BY <1>7, <2>2, <3>1
    <3>3. UnitAt(v, k - d - 1) = mem[SP + (k - d) - 1]
      BY <1>4, <3>1
    <3>4. mem'[Wrap(b)] = Stack[k - d]
      BY <1>10, <2>2, <3>1, <3>2, <3>3
    <3> QED BY <2>3, <3>4 DEF b
  <2>4. CASE k \notin (d + 1) .. (d + n)
    <3>1. /\ b \notin a .. a + n - 1 /\ n + k \in 1 .. Depth /\ SP + (n + k) - 1 = b
      BY <1>3, <2>4 DEF a
    <3> HIDE DEF b
    <3>2. mem'[b] = mem[b]
      BY <1>7, <2>2, <3>1
    <3>3. mem'[Wrap(b)] = below[k]
      BY <1>10, <1>11, <2>2, <3>1, <3>2
    <3> QED BY <2>4, <3>3 DEF b
  <2> QED BY <2>3, <2>4
<1>14. Stack' = [k \in 1 .. (Len(Stack) - n) |->
                   IF k \in (d + 1) .. (d + n) THEN Stack[k - d] ELSE below[k]]
  BY <1>10, <1>12, <1>13
<1>15. d \in 0 .. (Len(Stack) - 2 * n) /\ Promise!After(ip) = NextPC
  BY <1>10, SameOperators
<1> QED BY <1>2, <1>8, <1>14, <1>15
        DEF Promise!PopMem, Promise!Below, Stack, Gpr, below

------------------------------------------------------------------------------
(* The instructions that move no stack pointer. *)

(* A write of a register. *)
LEMMA RegisterStep ==
    ASSUME StackInv, NEW n \in {1, WordUnits}, NEW r \in GPRs, NEW v \in Int, Register(r, v, n)
    PROVE  /\ StackInv' /\ Stack' = Stack /\ regs'["DS"] = regs["DS"]
           /\ flags' = flags /\ ip' = Promise!After(ip)
           /\ Gpr' = [Gpr EXCEPT ![r] = Low(v, n) + (@ - Low(@, n))]
<1> DEFINE x == Low(v, n) + (regs[r] - Low(regs[r], n))
<1>1. regs[r] \in Word /\ Gpr[r] = regs[r]
  BY GprIs
<1>2. x \in Word
  BY <1>1, Merged
<1>3. /\ regs' = [regs EXCEPT ![r] = x] /\ ip' = NextPC /\ flags' = flags /\ mem' = mem
  BY DEF Register, WriteGPR
<1> HIDE DEF x
<1>4. /\ regs' \in [{"AX", "BP", "SP", "DS"} -> Word] /\ SP' = SP /\ regs'["DS"] = regs["DS"]
      /\ \A q \in GPRs : regs'[q] = IF q = r THEN x ELSE regs[q]
  BY <1>2, <1>3 DEF StackInv, GPRs, SP
<1>5. StackInv'
  BY <1>3, <1>4, GprIs DEF StackInv
<1>6. Stack' = Stack
  BY <1>3, <1>4 DEF Stack, Depth, Wrap, WordMod
<1>7. Gpr' = [Gpr EXCEPT ![r] = x]
  BY <1>4 DEF Gpr
<1>8. Gpr' = [Gpr EXCEPT ![r] = Low(v, n) + (@ - Low(@, n))]
  BY <1>1, <1>7 DEF x
<1>9. ip' = Promise!After(ip)
  BY <1>3, SameOperators
<1> QED BY <1>3, <1>4, <1>5, <1>6, <1>8, <1>9

(* The same for the abstract machine. *)
LEMMA SetStep ==
    ASSUME NEW n \in {1, WordUnits}, NEW r \in GPRs, NEW v, NEW w, Low(v, n) = w,
           Stack' = Stack, regs'["DS"] = regs["DS"], flags' = flags, ip' = Promise!After(ip),
           Gpr' = [Gpr EXCEPT ![r] = Low(v, n) + (@ - Low(@, n))]
    PROVE  Promise!SetGPR(w, n)
<1>1. \A x : Promise!Merge(x, w, n) = w + (x - Low(x, n))
  BY SameOperators DEF Promise!Merge
<1>2. Gpr' = [Gpr EXCEPT ![r] = Promise!Merge(@, w, n)]
  BY <1>1
<1>3. r \in Promise!GPRs
  BY SameOperators
<1> QED BY <1>2, <1>3 DEF Promise!SetGPR, Stack, Gpr

(* LEA. *)
LEMMA LEAStep ==
    ASSUME StackInv, NEW n \in {1, WordUnits}, LEA(n)
    PROVE  StackInv' /\ Promise!AddressOf(n)
<1>1. PICK r \in GPRs, d \in {0, Depth} : Register(r, Wrap(SP + d), n)
  BY DEF LEA
<1>2. /\ d \in {0, Len(Stack)} /\ Base - Len(Stack) + d = SP + d /\ SP + d \in Int
  BY StackWords, StackIs
<1> DEFINE v == Wrap(SP + d)
<1>3. v \in Int
  BY <1>2, WordRange
<1>4. Promise!Low(Promise!Wrap(Base - Len(Stack) + d), n) = Low(v, n)
  BY <1>2, SameOperators
<1> HIDE DEF v
<1>5. Register(r, v, n)
  BY <1>1 DEF v
<1>6. StackInv' /\ Promise!SetGPR(Low(v, n), n)
  BY <1>3, <1>5, RegisterStep, SetStep
<1>7. Promise!SetGPR(Promise!Low(Promise!Wrap(Base - Len(Stack) + d), n), n)
  BY <1>4, <1>6
<1> QED BY <1>2, <1>6, <1>7 DEF Promise!AddressOf, Stack

(* MOV from a segment register to a register, *)
LEMMA FromSegStep ==
    ASSUME StackInv, NEW n \in {1, WordUnits}, MOV_GPRv_SEG(n)
    PROVE  StackInv' /\ Promise!FromSeg(n)
<1>1. PICK r \in GPRs : Register(r, ReadGPR("DS", 1), n)
  BY DEF MOV_GPRv_SEG
<1>2. regs["DS"] \in 0 .. Place[1] - 1
  BY Places DEF StackInv, Unit
<1>3. ReadGPR("DS", 1) = regs["DS"] /\ regs["DS"] \in Int
  BY <1>2, LowRange, WordRange DEF ReadGPR
<1>4. Low(regs["DS"], n) = regs["DS"]
  <2>1. CASE n = 1
    BY <1>2, <2>1, LowRange
  <2>2. CASE n = WordUnits
    <3>1. regs["DS"] \in Word
      BY <1>2, LowRange
    <3>2. Wrap(regs["DS"]) = regs["DS"]
      BY <3>1, WordRange
    <3> QED BY <2>2, <3>2 DEF Low, Wrap, WordMod
  <2> QED BY <2>1, <2>2
<1>5. StackInv' /\ Promise!SetGPR(regs["DS"], n)
  BY <1>1, <1>3, <1>4, RegisterStep, SetStep
<1> QED BY <1>5 DEF Promise!FromSeg

(* A write of the segment register. *)
LEMMA SegmentStep ==
    ASSUME StackInv, NEW v \in Int, Register("DS", v, 1)
    PROVE  /\ StackInv' /\ Stack' = Stack /\ Gpr' = Gpr
           /\ flags' = flags /\ ip' = Promise!After(ip) /\ regs'["DS"] = Low(v, 1)
<1> DEFINE w == regs["DS"]
           x == Low(v, 1)
<1>1. Place[1] = Radix /\ Radix \in Nat \ {0}
  BY Places
<1>2. w \in 0 .. Place[1] - 1 /\ x \in 0 .. Place[1] - 1
  BY <1>1, LowRange DEF StackInv, Unit
<1>3. Low(w, 1) = w /\ x \in Word
  BY <1>2, LowRange
<1>4. w \in Int /\ x \in Int
  BY <1>1, <1>2
<1> HIDE DEF w, x
<1>5. x + (w - w) = x
  BY <1>4
<1>6. WriteGPR("DS", v, 1) = x
  BY <1>3, <1>5 DEF WriteGPR, w, x
<1>7. regs' = [regs EXCEPT !["DS"] = x] /\ ip' = NextPC /\ flags' = flags /\ mem' = mem
  BY <1>6 DEF Register
<1>8. /\ regs' \in [{"AX", "BP", "SP", "DS"} -> Word] /\ SP' = SP /\ regs'["DS"] = x
      /\ \A q \in GPRs : regs'[q] = regs[q]
  BY <1>3, <1>7 DEF StackInv, GPRs, SP
<1>9. x \in Unit
  BY <1>1, <1>2 DEF Unit
<1>10. StackInv'
  BY <1>7, <1>8, <1>9, GprIs DEF StackInv
<1>11. Stack' = Stack /\ Gpr' = Gpr
  BY <1>7, <1>8 DEF Stack, Gpr, Depth, Wrap, WordMod
<1> QED BY <1>7, <1>8, <1>10, <1>11, SameOperators DEF x

(* from a register to a segment register, *)
LEMMA ToSegGPRStep ==
    ASSUME StackInv, MOV_SEG_GPR16
    PROVE  StackInv' /\ Promise!ToSeg
<1>1. PICK r \in GPRs : Register("DS", ReadGPR(r, 1), 1)
  BY DEF MOV_SEG_GPR16
<1>2. Gpr[r] = regs[r] /\ regs[r] \in Int /\ r \in Promise!GPRs
  BY GprIs, SameOperators
<1>3. Low(regs[r], 1) \in Int /\ Low(Low(regs[r], 1), 1) = Low(regs[r], 1)
  <2>1. Low(regs[r], 1) \in 0 .. Place[1] - 1
    BY <1>2, LowRange
  <2> QED BY <2>1, LowRange, WordRange
<1>4. /\ StackInv' /\ Stack' = Stack /\ Gpr' = Gpr
      /\ flags' = flags /\ ip' = Promise!After(ip) /\ regs'["DS"] = Low(regs[r], 1)
  BY <1>1, <1>3, SegmentStep DEF ReadGPR
<1>5. regs'["DS"] = Promise!Low(Gpr[r], 1)
  BY <1>2, <1>4, SameOperators
<1> QED BY <1>2, <1>4, <1>5 DEF Promise!ToSeg, Stack, Gpr

(* from memory, *)
LEMMA ToSegMEMStep ==
    ASSUME StackInv, MOV_SEG_MEMw
    PROVE  StackInv' /\ Promise!ToSeg
<1>1. PICK d \in 0 .. (Depth - 1) : Register("DS", Load(Wrap(SP + d), 1), 1)
  BY DEF MOV_SEG_MEMw
<1>2. /\ d \in Nat /\ d + 1 <= Depth /\ 1 \in {1, WordUnits} /\ d + 1 \in 1 .. Depth
      /\ SP + (d + 1) - 1 = SP + d /\ SP + d + 0 = SP + d /\ 0 \in 0 .. 1 - 1
  BY StackWords
<1> DEFINE v == Load(SP + d, 1)
<1>3. /\ Wrap(SP + d) = SP + d /\ v \in 0 .. Place[1] - 1 /\ v \in Word
      /\ UnitAt(v, 0) = mem[SP + d]
  BY <1>2, LoadStack
<1> HIDE DEF v
<1>4. v \in Int /\ Low(v, 1) = v
  BY <1>3, LowRange, WordRange
<1>5. UnitAt(v, 0) = Low(v, 1)
  <2>1. \A x \in Int : x \div 1 = x
    OBVIOUS
  <2> QED BY <1>4, <2>1, Places DEF UnitAt, Low
<1>6. /\ StackInv' /\ Stack' = Stack /\ Gpr' = Gpr
      /\ flags' = flags /\ ip' = Promise!After(ip) /\ regs'["DS"] = Low(v, 1)
  <2>1. Register("DS", v, 1)
    BY <1>1, <1>3 DEF v
  <2> QED BY <1>4, <2>1, SegmentStep
<1>7. d + 1 \in DOMAIN Stack /\ regs'["DS"] = Stack[d + 1]
  BY <1>2, <1>3, <1>5, <1>6, StackIs
<1> QED BY <1>6, <1>7 DEF Promise!ToSeg, Stack, Gpr

(* and to memory. *)
LEMMA SegToMEMStep ==
    ASSUME StackInv, MOV_MEMw_SEG
    PROVE  StackInv' /\ Promise!SegToMem
<1>1. PICK d \in 0 .. (Depth - 1) : mem' = Store(Wrap(SP + d), ReadGPR("DS", 1), 1)
  BY DEF MOV_MEMw_SEG
<1>2. ip' = NextPC /\ regs' = regs /\ flags' = flags
  BY DEF MOV_MEMw_SEG
<1>3. /\ d + 1 \in 1 .. Depth /\ 1 \in {1, WordUnits} /\ SP + d \in Nat /\ SP + d + 1 <= Base
      /\ Wrap(SP + d) = SP + d
  BY StackWords
<1> DEFINE a == SP + d
           v == regs["DS"]
<1>4. ReadGPR("DS", 1) = v /\ v \in Int /\ UnitAt(v, 0) = v
  <2>1. v \in 0 .. Place[1] - 1
    BY Places DEF StackInv, Unit
  <2>2. \A x \in Int : x \div 1 = x
    OBVIOUS
  <2>3. Low(v, 1) = v /\ v \in Int
    BY <2>1, LowRange, WordRange
  <2>4. UnitAt(v, 0) = Low(v, 1)
    BY <2>2, <2>3, Places DEF UnitAt, Low
  <2> QED BY <2>3, <2>4 DEF ReadGPR
<1>5. a \in Nat /\ a + 1 <= Base
  BY <1>3
<1> HIDE DEF a, v
<1>6. mem' = Store(a, v, 1)
  BY <1>1, <1>3, <1>4 DEF a
<1>7. /\ mem' \in [Word -> Unit]
      /\ \A b \in Word : mem'[b] = IF b \in a .. a + 1 - 1 THEN UnitAt(v, b - a) ELSE mem[b]
  BY <1>3, <1>4, <1>5, <1>6, Stored
<1>8. \A b \in Word : mem'[b] = IF b = a THEN v ELSE mem[b]
  <2> SUFFICES ASSUME NEW b \in Word PROVE mem'[b] = IF b = a THEN v ELSE mem[b]
    OBVIOUS
  <2>1. b \in Int
    BY WordRange
  <2>2. CASE b = a
    <3>1. b \in a .. a + 1 - 1 /\ b - a = 0
      BY <1>5, <2>2
    <3> QED BY <1>4, <1>7, <2>2, <3>1
  <2>3. CASE b # a
    <3>1. b \notin a .. a + 1 - 1
      BY <1>5, <2>1, <2>3
    <3> QED BY <1>7, <2>3, <3>1
  <2> QED BY <2>2, <2>3
<1>9. StackInv' /\ Gpr' = Gpr /\ SP' = SP /\ Depth' = Depth
  <2>1. ip' \in Word
    BY <1>2, GprIs
  <2> QED BY <1>2, <1>7, <2>1 DEF StackInv, Gpr, SP, Depth
<1>10. Stack' = [k \in 1 .. Depth |-> mem'[Wrap(SP + k - 1)]]
  BY <1>9 DEF Stack, Wrap, WordMod
<1>11. ASSUME NEW k \in 1 .. Depth
       PROVE  mem'[Wrap(SP + k - 1)] = IF k = d + 1 THEN v ELSE Stack[k]
  <2> DEFINE b == SP + k - 1
  <2>1. b \in 0 .. Base /\ (b = a <=> k = d + 1)
    BY StackWords DEF a
  <2>2. b \in Word /\ Wrap(b) = b
    BY <2>1, StackWords
  <2>3. Stack[k] = mem[b]
    BY StackIs
  <2> HIDE DEF b
  <2>4. mem'[Wrap(b)] = IF k = d + 1 THEN v ELSE Stack[k]
    BY <1>8, <2>1, <2>2, <2>3
  <2> QED BY <2>4 DEF b
<1>12. Stack = [k \in 1 .. Depth |-> Stack[k]] /\ DOMAIN Stack = 1 .. Depth
  BY DEF Stack
<1>13. Stack' = [Stack EXCEPT ![d + 1] = v]
  BY <1>3, <1>10, <1>11, <1>12
<1>14. d + 1 \in DOMAIN Stack /\ Promise!After(ip) = NextPC
  BY <1>3, <1>12, SameOperators
<1> QED BY <1>2, <1>9, <1>13, <1>14 DEF Promise!SegToMem, Stack, Gpr, v

------------------------------------------------------------------------------
(* All of them. *)

(* The stack is empty at first. *)
LEMMA InitStack == Init => StackInv /\ Promise!Init
<1> SUFFICES ASSUME Init PROVE StackInv /\ Promise!Init
  OBVIOUS
<1>1. /\ regs \in [{"AX", "BP", "SP", "DS"} -> Word] /\ regs["SP"] = Base /\ regs["DS"] \in Segs
      /\ flags \in Flags /\ ip = 0 /\ mem = [a \in Word |-> 0]
  BY DEF Init
<1>2. Base \in Word /\ Segs \subseteq Unit /\ Words \subseteq Word
  BY SizeAssumption
<1>3. Base \in Int /\ 0 \in Word /\ 0 \in Unit
  <2>1. 0 \in Unit
    BY Places DEF Unit
  <2> DEFINE m == Place[WordUnits]
  <2>2. m \in Nat \ {0} /\ Word = 0 .. m - 1
    BY WordRange
  <2> HIDE DEF m
  <2> QED BY <1>2, <2>1, <2>2
<1>4. SP = Base /\ SP <= Base /\ Depth = 0
  BY <1>1, <1>3 DEF SP, Depth
<1>5. StackInv
  BY <1>1, <1>2, <1>3, <1>4 DEF StackInv
<1>6. Stack = <<>>
  BY <1>4 DEF Stack
<1>7. Gpr \in [Promise!GPRs -> Promise!Word]
  BY <1>1, SameOperators DEF Gpr, GPRs
<1>8. regs["DS"] \in Promise!Unit /\ flags \in Promise!Flags /\ ip \in Promise!Word
  BY <1>1, <1>2, <1>3, SameOperators
<1> QED BY <1>5, <1>6, <1>7, <1>8 DEF Promise!Init, Stack, Gpr

(* Every step keeps the types and is one of the stack machine's.            *)
LEMMA StepStack ==
    ASSUME ImmediatesFit, StackInv, [Next]_vars
    PROVE  StackInv' /\ [Promise!Next]_(Promise!vars)
<1>1. Sizes \subseteq {1, WordUnits}
  BY SizeAssumption
<1>2. ASSUME NEW n \in Sizes, PUSH_GPRv(n) \/ PUSH_IMM(n) \/ PUSH_MEMv(n) \/ POP_GPRv(n)
                              \/ POP_MEMv(n) \/ LEA(n) \/ MOV_GPRv_SEG(n)
                              \/ PUSH_SEG(n) \/ PUSHF(n) \/ POP_SEG(n) \/ POPF(n)
      PROVE  StackInv' /\ Promise!Next
  <2>1. n \in {1, WordUnits}
    BY <1>1
  <2>2. StackInv' /\ (\/ Promise!PushGPR(n) \/ Promise!PushSP(n) \/ Promise!PushImm(n)
                      \/ Promise!PushMem(n) \/ Promise!PopGPR(n) \/ Promise!PopMem(n)
                      \/ Promise!AddressOf(n) \/ Promise!FromSeg(n) \/ Promise!PushSeg(n)
                      \/ Promise!PushFlags(n) \/ Promise!PopSeg \/ Promise!PopFlags)
    <3>1. CASE PUSH_SEG(n) \/ PUSHF(n) \/ POP_SEG(n) \/ POPF(n)
      BY <2>1, <3>1, PushSEGStep, PushFStep, PopSEGStep, PopFStep
    <3> QED BY <1>2, <2>1, <3>1, PushGPRStep, PushIMMStep, PushMEMStep, PopGPRStep, PopMEMStep,
               LEAStep, FromSegStep
  <2> QED BY <2>2 DEF Promise!Next
<1>3. ASSUME NEW n \in BranchSizes, CALL_NEAR(n) \/ RET_NEAR(n)
      PROVE  StackInv' /\ Promise!Next
  <2>1. n \in {1, WordUnits}
    BY SizeAssumption
  <2>2. StackInv' /\ (Promise!Call(n) \/ Promise!Ret(n))
    BY <1>3, <2>1, CallStep, RetStep
  <2> QED BY <2>2 DEF Promise!Next
<1>4. CASE MOV_SEG_GPR16 \/ MOV_SEG_MEMw \/ MOV_MEMw_SEG
  <2>1. StackInv' /\ (Promise!ToSeg \/ Promise!SegToMem)
    BY <1>4, ToSegGPRStep, ToSegMEMStep, SegToMEMStep
  <2> QED BY <2>1 DEF Promise!Next
<1>5. CASE Done \/ UNCHANGED vars
  <2>1. UNCHANGED <<regs, flags, ip, mem>>
    BY <1>5 DEF Done, vars
  <2>2. StackInv' /\ Stack' = Stack /\ Gpr' = Gpr
    BY <2>1 DEF StackInv, Stack, Gpr, SP, Depth, Wrap, WordMod
  <2>3. UNCHANGED Promise!vars
    BY <2>1, <2>2 DEF Promise!vars, Stack, Gpr
  <2> QED BY <2>2, <2>3
<1> QED BY <1>2, <1>3, <1>4, <1>5 DEF Next

(* The quotient of a number below a product. *)
LEMMA DivBelow ==
    ASSUME NEW r \in Nat \ {0}, NEW p \in Nat \ {0}, NEW v \in 0 .. (r * p) - 1
    PROVE  /\ v \div r \in 0 .. p - 1 /\ v % r \in 0 .. r - 1
           /\ v = (v % r) + r * (v \div r)
<1> DEFINE q == v \div r
           m == v % r
<1>0. r * p \in Nat
  OBVIOUS
<1>1. v \in Int /\ v >= 0 /\ v <= (r * p) - 1
  BY <1>0
<1>2. q \in Int /\ m \in 0 .. r - 1 /\ v = r * q + m
  BY <1>1, DivMod
<1> HIDE DEF q, m
<1>3. q < p
  <2> SUFFICES ASSUME q >= p PROVE FALSE
    BY <1>2
  <2>1. r * q >= r * p
    BY <1>2
  <2> QED BY <1>0, <1>1, <1>2, <2>1
<1>4. q >= 0
  <2> SUFFICES ASSUME q <= -1 PROVE FALSE
    BY <1>2
  <2>1. r * q <= r * (-1) /\ r * (-1) = -r
    BY <1>2
  <2> QED BY <1>1, <1>2, <2>1
<1>5. v = m + r * q
  BY <1>1, <1>2
<1> QED BY <1>2, <1>3, <1>4, <1>5 DEF q, m

(* A value is the total of its units. *)
LEMMA UnitsTotal ==
    ASSUME NEW n \in {1, WordUnits}, NEW v \in 0 .. Place[n] - 1,
           NEW u, \A k \in 1 .. n : u[k] = UnitAt(v, k - 1)
    PROVE  Total(u, n) = v
<1> DEFINE R == Radix
<1>1. R \in Nat \ {0} /\ R * R \in Nat \ {0} /\ R * (R * R) \in Nat \ {0} /\ v \in Int
  BY Places, PlaceType
<1>2. \A x \in Int : x \div 1 = x
  OBVIOUS
<1>3. CASE n = 1
  <2>1. v \in 0 .. R - 1 /\ u[1] = v % R
    BY <1>1, <1>2, <1>3, Places DEF UnitAt
  <2>2. v % R = v
    BY <1>1, <2>1
  <2> QED BY <1>3, <2>1, <2>2 DEF Total
<1>4. CASE n = 2
  <2>1. v \in 0 .. (R * R) - 1 /\ u[1] = v % R /\ u[2] = (v \div R) % R
    <3>1. u[1] = UnitAt(v, 0) /\ u[2] = UnitAt(v, 1)
      BY <1>4
    <3> QED BY <1>1, <1>2, <1>4, <3>1, Places DEF UnitAt
  <2>2. /\ v \div R \in 0 .. R - 1 /\ v = (v % R) + R * (v \div R)
    BY <1>1, <2>1, DivBelow
  <2>3. (v \div R) % R = v \div R
    BY <1>1, <2>2
  <2> QED BY <1>4, <2>1, <2>2, <2>3 DEF Total
<1>5. CASE n = 4 /\ WordUnits = 4
  <2> DEFINE a == v \div R
             b == a \div R
             c == b \div R
  <2>1. v \in 0 .. (R * (R * (R * R))) - 1
    BY <1>5, Places
  <2>2. a \in 0 .. (R * (R * R)) - 1 /\ v = (v % R) + R * a
    BY <1>1, <2>1, DivBelow
  <2>3. a \in Int /\ R * R \in Int /\ R * (R * R) \in Int
    BY <1>1, <2>2
  <2> HIDE DEF a
  <2>4. b \in 0 .. (R * R) - 1 /\ a = (a % R) + R * b
    BY <1>1, <2>2, DivBelow
  <2>5. b \in Int
    BY <2>3, <2>4
  <2> HIDE DEF b
  <2>6. c \in 0 .. R - 1 /\ b = (b % R) + R * c
    BY <1>1, <2>4, DivBelow
  <2>7. c % R = c
    BY <1>1, <2>6
  <2>8. v \div (R * R) = b /\ v \div (R * (R * R)) = c
    <3>1. (v \div R) \div R = v \div (R * R)
      BY <1>1, DivDiv
    <3>2. (v \div (R * R)) \div R = v \div ((R * R) * R)
      BY <1>1, DivDiv
    <3>3. (R * R) * R = R * (R * R)
      BY <1>1
    <3> QED BY <3>1, <3>2, <3>3 DEF a, b
  <2>9. u[1] = v % R /\ u[2] = a % R /\ u[3] = b % R /\ u[4] = c % R
    <3>1. u[1] = UnitAt(v, 0) /\ u[2] = UnitAt(v, 1) /\ u[3] = UnitAt(v, 2) /\ u[4] = UnitAt(v, 3)
      BY <1>5
    <3>2. Place[0] = 1 /\ Place[1] = R /\ Place[2] = R * R /\ Place[3] = R * (R * R)
      BY <1>5, Places
    <3> QED BY <1>1, <1>2, <2>8, <3>1, <3>2 DEF UnitAt, a
  <2> HIDE DEF c
  <2>10. Total(u, n) = u[1] + R * (u[2] + R * (u[3] + R * u[4]))
    BY <1>5 DEF Total
  <2>11. u[3] + R * u[4] = b
    BY <2>6, <2>7, <2>9
  <2>12. u[2] + R * b = a
    BY <2>4, <2>9
  <2> QED BY <2>2, <2>9, <2>10, <2>11, <2>12
<1> QED BY <1>3, <1>4, <1>5, Places

(* What a push puts on the stack machine a pop of the same size takes off   *)
(* again, and PushFlags with PopFlags keeps the client's flags.             *)
THEOREM ComesBack ==
    ASSUME NEW n \in {1, WordUnits}, NEW s \in Seq(Unit)
    PROVE  /\ \A v \in 0 .. Place[n] - 1 :
                Promise!Value(SubSeq(Promise!Units(v, n) \o s, 1, n)) = v
           /\ \A f \in Flags, h \in HostFlags :
                (Promise!Units(f + FlagMod * h, n) \o s)[1] % FlagMod = f
<1>1. n \in {1, 2, 4} /\ n <= WordUnits /\ WordUnits \in {2, 4}
  BY Places
<1>2. ASSUME NEW v \in Int
      PROVE  LET us == Promise!Units(v, n)
             IN  /\ us \in Seq(Unit) /\ Len(us) = n /\ \A k \in 1 .. n : us[k] = UnitAt(v, k - 1)
                 /\ SubSeq(us \o s, 1, n) = us /\ (us \o s)[1] = us[1]
  <2> DEFINE us == Promise!Units(v, n)
  <2>1. us = [k \in 1 .. n |-> UnitAt(v, k - 1)]
    BY SameOperators
  <2>2. \A k \in 1 .. n : UnitAt(v, k - 1) \in Unit
    BY <1>1, UnitType
  <2>3. us \in Seq(Unit) /\ Len(us) = n /\ \A k \in 1 .. n : us[k] = UnitAt(v, k - 1)
    BY <1>1, <2>1, <2>2
  <2> HIDE DEF us
  <2>4. 1 \in 1 .. Len(us) /\ n \in 1 .. Len(us) /\ 1 \in 1 .. Len(us) + Len(s)
    BY <1>1, <2>3
  <2>5. SubSeq(us \o s, 1, n) = SubSeq(us, 1, n)
    BY <2>3, <2>4, SubSeqOfConcat1
  <2>6. SubSeq(us, 1, n) = us
    BY <1>1, <2>3
  <2>7. (us \o s)[1] = us[1]
    BY <2>3, <2>4, ConcatProperties
  <2> QED BY <2>3, <2>5, <2>6, <2>7 DEF us
<1>3. ASSUME NEW v \in 0 .. Place[n] - 1
      PROVE  Promise!Value(SubSeq(Promise!Units(v, n) \o s, 1, n)) = v
  <2> DEFINE us == Promise!Units(v, n)
  <2>1. v \in Int
    BY <1>1, PlaceType
  <2>2. /\ us \in Seq(Unit) /\ Len(us) = n /\ \A k \in 1 .. n : us[k] = UnitAt(v, k - 1)
        /\ SubSeq(us \o s, 1, n) = us
    BY <1>2, <2>1
  <2> HIDE DEF us
  <2>3. \A k \in 1 .. n : us[k] \in Unit
    BY <2>2
  <2>4. Promise!Value(us) = Total(us, n)
    BY <2>2, <2>3, Valued
  <2>5. Total(us, n) = v
    BY <2>2, UnitsTotal
  <2> QED BY <2>2, <2>4, <2>5 DEF us
<1>4. ASSUME NEW f \in Flags, NEW h \in HostFlags
      PROVE  (Promise!Units(f + FlagMod * h, n) \o s)[1] % FlagMod = f
  <2> DEFINE v == f + FlagMod * h
             us == Promise!Units(v, n)
  <2>1. FlagMod \in Nat \ {0} /\ h \in Nat /\ f \in 0 .. FlagMod - 1 /\ Radix % FlagMod = 0
    BY FlagAssumption DEF Flags
  <2>2. v \in Int /\ v = FlagMod * h + f
    BY <2>1
  <2> HIDE DEF v
  <2>3. (us \o s)[1] = UnitAt(v, 0)
    <3>1. 1 \in 1 .. n /\ 1 - 1 = 0
      BY <1>1
    <3> HIDE DEF us
    <3>2. (us \o s)[1] = us[1] /\ us[1] = UnitAt(v, 1 - 1)
      BY <1>2, <2>2, <3>1 DEF us
    <3> QED BY <3>1, <3>2
  <2>4. UnitAt(v, 0) = v % Radix
    <3>1. v \div 1 = v
      BY <2>2
    <3> QED BY <3>1, Places DEF UnitAt
  <2> DEFINE m == Radix \div FlagMod
             q == v \div Radix
             x == v % Radix
  <2>5. m \in Int /\ Radix = FlagMod * m /\ Radix \in Nat \ {0}
    <3>1. Radix \in Int /\ Radix = FlagMod * m + (Radix % FlagMod) /\ m \in Int
      BY <2>1, Places, DivMod
    <3>2. FlagMod * m \in Int
      BY <2>1, <3>1
    <3> QED BY <2>1, <3>1, <3>2, Places
  <2>6. q \in Int /\ x \in Int /\ v = Radix * q + x
    <3>1. v \in Int /\ Radix \in Nat \ {0}
      BY <2>2, <2>5
    <3>2. q \in Int /\ x \in 0 .. Radix - 1 /\ v = Radix * q + x
      BY <3>1, DivMod
    <3> QED BY <3>1, <3>2
  <2> HIDE DEF m, q, x
  <2>7. x = FlagMod * (h - m * q) + f
    <3>1. m * q \in Int /\ (FlagMod * m) * q = FlagMod * (m * q)
      BY <2>1, <2>5, <2>6
    <3>2. FlagMod * (h - m * q) = FlagMod * h - FlagMod * (m * q)
      BY <2>1, <3>1
    <3>3. FlagMod * h \in Int /\ FlagMod * (m * q) \in Int
      BY <2>1, <3>1
    <3>4. v = FlagMod * (m * q) + x
      BY <2>5, <2>6, <3>1
    <3> QED BY <2>1, <2>2, <2>6, <3>2, <3>3, <3>4
  <2>8. h - m * q \in Int
    BY <2>1, <2>5, <2>6
  <2>9. x % FlagMod = f
    <3> DEFINE e == h - m * q
    <3>1. e \in Int /\ x = FlagMod * e + f
      BY <2>7, <2>8
    <3> HIDE DEF e
    <3> QED BY <2>1, <2>6, <3>1, DivModIs
  <2> QED BY <2>3, <2>4, <2>9 DEF v, x
<1> QED BY <1>3, <1>4

(* The stack instructions of Emulate implement the stack machine, whatever  *)
(* the size of a word, the depth of the stack, the program, the operand     *)
(* sizes and what it pushes, if no immediate is wider than the 32 bits that *)
(* Emulate keeps of it: a push adds the operand, or a word with the operand *)
(* in its far end, and changes nothing else, a pop takes the operand from   *)
(* the top and removes it, or a word. With ComesBack it follows that        *)
(* registers, immediates and memory operands come back as they were pushed, *)
(* and that segment registers, the client's flags and return addresses do   *)
(* if they were pushed without an operand-size prefix.                      *)
THEOREM StackImplemented ==
    ASSUME ImmediatesFit
    PROVE  Spec => ImplementsStack
<1>1. Init => StackInv /\ Promise!Init
  BY InitStack
<1>2. StackInv /\ [Next]_vars => StackInv' /\ [Promise!Next]_(Promise!vars)
  BY StepStack
<1> QED BY <1>1, <1>2, PTL DEF Spec, ImplementsStack, Promise!Spec

==============================================================================
