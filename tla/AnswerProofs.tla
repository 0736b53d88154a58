---------------------------- MODULE AnswerProofs ----------------------------
(***************************************************************************)
(* What the client computes with numbers.  Its entry is decoded for all    *)
(* moduli, all errors within the budget and every mask, the words of the   *)
(* code wrap around nowhere, and the mask is drawn uniformly.  FindCutoff, *)
(* for rows of any length and any filters: the loop that moves values to   *)
(* the front of the array it is reading, and the selection that only       *)
(* places one of them, return the median of the row that was given.        *)
(***************************************************************************)
EXTENDS AnswerArith, CutoffLoop, FiniteSetTheorems, FunctionTheorems, TLAPS

-----------------------------------------------------------------------------
(* The numbers behind one query (module AnswerArith).                      *)

(* A product with a positive number keeps the order.                       *)
LEMMA MulOrder ==
  ASSUME NEW b \in Nat, b > 0, NEW x \in Int, NEW y \in Int
  PROVE  /\ x < y => b * x + b <= b * y
         /\ b * x \in Int
OBVIOUS

(* What division with remainder gives, and that nothing else is it.        *)
LEMMA DivMod ==
  ASSUME NEW a \in Int, NEW b \in Nat, b > 0
  PROVE  /\ a \div b \in Int /\ a % b \in Int
         /\ a = b * (a \div b) + (a % b) /\ 0 <= a % b /\ a % b < b
OBVIOUS

Division(a, b, q, r) == q \in Int /\ r \in Int /\ a = b * q + r /\ 0 <= r /\ r < b

(* Quotient and remainder are the only numbers of that kind.               *)
LEMMA DivModUnique ==
  ASSUME NEW a \in Int, NEW b \in Nat, b > 0, NEW q, NEW r, Division(a, b, q, r)
  PROVE  a \div b = q /\ a % b = r
<1> USE DEF Division
<1>1. /\ a \div b \in Int /\ a % b \in Int
      /\ a = b * (a \div b) + (a % b) /\ 0 <= a % b /\ a % b < b
  BY DivMod
<1>2. ~ (q < a \div b) /\ ~ (a \div b < q)
  BY <1>1, MulOrder
<1>3. q = a \div b
  BY <1>1, <1>2
<1>4. QED
  BY <1>1, <1>3

(* Numbers that differ by a multiple of the modulus have one residue.      *)
LEMMA SameResidue ==
  ASSUME NEW a \in Int, NEW c \in Int, NEW t \in Int, NEW b \in Nat, b > 0, a = c + b * t
  PROVE  a % b = c % b
<1>1. /\ c \div b \in Int /\ c % b \in Int
      /\ c = b * (c \div b) + (c % b) /\ 0 <= c % b /\ c % b < b
  BY DivMod
<1> DEFINE q == c \div b + t
           r == c % b
<1>2. Division(a, b, q, r)
  BY <1>1 DEF Division
<1> HIDE DEF q, r
<1>3. a % b = r
  BY <1>2, DivModUnique
<1>4. QED
  BY <1>3 DEF r

(* A residue differs from its number by a multiple of the modulus.         *)
LEMMA ResidueStep ==
  ASSUME NEW a \in Int, NEW b \in Nat, b > 0
  PROVE  \E t \in Int : a % b = a + b * t
<1>1. a \div b \in Int /\ a = b * (a \div b) + (a % b) /\ a % b \in Int
  BY DivMod
<1>2. a % b = a + b * (0 - (a \div b))
  BY <1>1
<1>3. QED
  BY <1>1, <1>2

(* A word that does not reach the modulus of the machine stays.            *)
LEMMA NoWrap ==
  ASSUME WidthAssumption, NEW x \in Int, 0 <= x, x < 2 ^ W
  PROVE  U(x) = x
BY DEF U, WidthAssumption

(* The modular addition of a signed number is exact for every width of the *)
(* words, every modulus and every number a signed word can hold, the most  *)
(* negative one included: no intermediate value wraps but where it should. *)
THEOREM SignedAddIsExact ==
  ASSUME WidthAssumption, NEW value \in Nat, NEW modulus \in Nat, 0 < modulus, modulus < 2 ^ W,
         NEW delta \in Int, - (2 ^ W) < delta, delta < 2 ^ W
  PROVE  AddSignedMod(value, delta, modulus) = (value + delta) % modulus
<1> USE DEF WidthAssumption
<1> DEFINE v == value % modulus
           q == value \div modulus
<1>1. /\ v \in Int /\ q \in Int /\ 0 <= v /\ v < modulus /\ value = modulus * q + v
      /\ value % modulus = v
  BY DivMod
<1> HIDE DEF v, q
<1>2. U(modulus - v) = modulus - v
  BY <1>1, NoWrap
<1>3. CASE delta >= 0
  <2> DEFINE w == delta % modulus
             d == delta \div modulus
  <2>1. /\ w \in Int /\ d \in Int /\ 0 <= w /\ w < modulus /\ delta = modulus * d + w
        /\ delta % modulus = w
    BY DivMod
  <2> HIDE DEF w, d
  <2>2. AddSignedMod(value, delta, modulus) =
          IF w >= modulus - v THEN U(w - (modulus - v)) ELSE U(v + w)
    BY <1>1, <1>2, <1>3, <2>1 DEF AddSignedMod
  <2>3. CASE w >= modulus - v
    <3>1. U(w - (modulus - v)) = w - (modulus - v)
      BY <1>1, <2>1, <2>3, NoWrap
    <3>2. value + delta = modulus * (q + d + 1) + (w - (modulus - v))
      BY <1>1, <2>1
    <3>3. (value + delta) % modulus = w - (modulus - v)
      <4> DEFINE x == w - (modulus - v)
                 y == q + d + 1
      <4>1. /\ x \in Int /\ 0 <= x /\ x < modulus /\ value + delta \in Int
            /\ Division(value + delta, modulus, y, x)
        BY <1>1, <2>1, <2>3, <3>2 DEF Division
      <4> HIDE DEF x, y
      <4>2. (value + delta) % modulus = x
        BY <4>1, DivModUnique
      <4>3. QED
        BY <4>2 DEF x
    <3>4. QED
      BY <2>2, <2>3, <3>1, <3>3
  <2>4. CASE ~ w >= modulus - v
    <3> DEFINE x == v + w
               y == q + d
    <3>1. /\ x \in Int /\ 0 <= x /\ x < modulus /\ value + delta \in Int
          /\ Division(value + delta, modulus, y, x)
      BY <1>1, <2>1, <2>4 DEF Division
    <3>2. U(x) = x
      BY <3>1, NoWrap
    <3>3. AddSignedMod(value, delta, modulus) = U(x)
      BY <2>2, <2>4
    <3> HIDE DEF x, y
    <3>4. (value + delta) % modulus = x
      BY <3>1, DivModUnique
    <3>5. QED
      BY <3>2, <3>3, <3>4
  <2>5. QED
    BY <2>3, <2>4
<1>4. CASE ~ delta >= 0
  <2>1. U(-(delta + 1)) = -(delta + 1)
    BY <1>4, NoWrap
  <2>2. U(-(delta + 1) + 1) = - delta
    BY <1>4, NoWrap
  <2> DEFINE w == (- delta) % modulus
             d == (- delta) \div modulus
  <2>3. /\ w \in Int /\ d \in Int /\ 0 <= w /\ w < modulus /\ - delta = modulus * d + w
        /\ (- delta) % modulus = w
    BY DivMod
  <2> HIDE DEF w, d
  <2>4. AddSignedMod(value, delta, modulus) =
          IF v >= w THEN U(v - w) ELSE U(modulus - U(w - v))
    BY <1>1, <1>4, <2>1, <2>2, <2>3 DEF AddSignedMod
  <2>5. CASE v >= w
    <3> DEFINE x == v - w
               y == q - d
    <3>1. /\ x \in Int /\ 0 <= x /\ x < modulus /\ value + delta \in Int
          /\ Division(value + delta, modulus, y, x)
      BY <1>1, <2>3, <2>5 DEF Division
    <3>2. U(x) = x
      BY <3>1, NoWrap
    <3>3. AddSignedMod(value, delta, modulus) = U(x)
      BY <2>4, <2>5
    <3> HIDE DEF x, y
    <3>4. (value + delta) % modulus = x
      BY <3>1, DivModUnique
    <3>5. QED
      BY <3>2, <3>3, <3>4
  <2>6. CASE ~ v >= w
    <3> DEFINE x == modulus - (w - v)
               y == q - d - 1
    <3>1. /\ x \in Int /\ 0 <= x /\ x < modulus /\ value + delta \in Int
          /\ Division(value + delta, modulus, y, x)
      BY <1>1, <2>3, <2>6 DEF Division
    <3>2. U(w - v) = w - v
      BY <1>1, <2>3, <2>6, NoWrap
    <3>3. U(x) = x
      BY <3>1, NoWrap
    <3>4. AddSignedMod(value, delta, modulus) = U(x)
      BY <2>4, <2>6, <3>2
    <3> HIDE DEF x, y
    <3>5. (value + delta) % modulus = x
      BY <3>1, DivModUnique
    <3>6. QED
      BY <3>3, <3>4, <3>5
  <2>7. QED
    BY <2>5, <2>6
<1>5. QED
  BY <1>3, <1>4

-----------------------------------------------------------------------------
(* Rejection sampling: the draws SecureRandomUint64Below accepts, and those *)
(* of them that give r.                                                    *)
Accepted(u)  == {x \in Word : x >= RejectionThreshold(u)}
Giving(u, r) == {x \in Accepted(u) : x % u = r}

(* The number of draws that are not rejected is a positive multiple of the *)
(* bound, for each bound that fits a word.                                 *)
LEMMA AcceptedAre ==
  ASSUME WidthAssumption, NEW u \in Word \ {0}
  PROVE  /\ RejectionThreshold(u) \in Nat /\ RejectionThreshold(u) < u
         /\ u < 2 ^ W /\ 2 ^ W \in Nat
         /\ \E n \in Nat : n > 0 /\ 2 ^ W = u * n + RejectionThreshold(u)
<1> DEFINE N == 2 ^ W
           v == N - u
           q == v \div u
           t == v % u
<1>1. N \in Int /\ u \in Nat /\ 0 < u /\ u < N /\ N \in Nat
  BY DEF WidthAssumption, Word
<1>2. v \in Nat /\ v > 0 /\ v < N
  BY <1>1
<1>3. U(- u) = v
  <2>1. Division(- u, N, -1, v)
    BY <1>1, <1>2 DEF Division
  <2> HIDE DEF N, v
  <2>2. (- u) % N = v
    BY <1>1, <2>1, DivModUnique
  <2> QED
    BY <2>2 DEF U, N
<1> HIDE DEF v
<1>4. RejectionThreshold(u) = t
  BY <1>3 DEF RejectionThreshold
<1>5. q \in Int /\ t \in Int /\ v = u * q + t /\ 0 <= t /\ t < u
  BY <1>1, <1>2, DivMod
<1> HIDE DEF q, t
<1>6. q >= 0
  <2> SUFFICES ASSUME q < 0 PROVE FALSE
    BY <1>5
  <2>1. u * q + u <= u * 0
    BY <1>1, <1>5, MulOrder
  <2> QED
    BY <1>1, <1>2, <1>5, <2>1
<1>7. N = u * (q + 1) + t /\ q + 1 \in Nat /\ q + 1 > 0
  <2>1. u * (q + 1) = u * q + u
    BY <1>1, <1>5
  <2> QED
    BY <1>1, <1>5, <1>6, <2>1 DEF v
<1> DEFINE n == q + 1
<1>8. n \in Nat /\ n > 0 /\ N = u * n + RejectionThreshold(u)
  BY <1>4, <1>7
<1>9. u < N /\ N \in Nat /\ t \in Nat
  BY <1>1, <1>5
<1> HIDE DEF n
<1>10. \E m \in Nat : m > 0 /\ 2 ^ W = u * m + RejectionThreshold(u)
  BY <1>8 DEF N
<1>11. RejectionThreshold(u) \in Nat /\ RejectionThreshold(u) < u
  BY <1>4, <1>5, <1>9
<1> QED
  BY <1>9, <1>10, <1>11 DEF N

(* A residue may replace its number under a sum.                           *)
LEMMA ShiftedResidue ==
  ASSUME NEW b \in Nat, b > 0, NEW x \in Int, NEW a, x % b = a, NEW c \in Int
  PROVE  (x + c) % b = (a + c) % b
<1> DEFINE m == x \div b
           y == x + c
           z == a + c
<1>1. m \in Int /\ a \in Int /\ x = b * m + a
  BY DivMod
<1> HIDE DEF m
<1>2. y \in Int /\ z \in Int /\ y = z + b * m
  BY <1>1
<1> HIDE DEF y, z
<1>3. y % b = z % b
  BY <1>1, <1>2, SameResidue
<1> QED
  BY <1>3, Zenon DEF y, z

(* utils.cpp, SecureRandomUint64Below: for every width of word and every   *)
(* bound, each value below the bound is given by the same number of the    *)
(* draws that are accepted, and more than half of all draws are; so the    *)
(* client's mask is uniform modulo q, and the loop may be expected to end. *)
THEOREM DrawsAreUniform ==
  ASSUME WidthAssumption, NEW u \in Word \ {0}
  PROVE  /\ \A r \in 0 .. u - 1 : Cardinality(Giving(u, r)) = Cardinality(Giving(u, 0))
         /\ 2 * Cardinality(Accepted(u)) > 2 ^ W
<1> DEFINE N == 2 ^ W
           t == RejectionThreshold(u)
<1>1. PICK n \in Nat : n > 0 /\ N = u * n + t
  BY AcceptedAre
<1>2. t \in Nat /\ t < u /\ u < N /\ N \in Nat /\ u \in Nat /\ u > 0
  BY AcceptedAre DEF Word
<1>3. Accepted(u) = t .. N - 1
  BY <1>2 DEF Accepted, Word
<1> HIDE DEF N, t
<1> DEFINE L == u * n
<1>4. L \in Nat /\ L >= u /\ N = L + t
  BY <1>1, <1>2
<1>5. IsFiniteSet(Accepted(u)) /\ Cardinality(Accepted(u)) = L
  <2>1. ~ (t > N - 1) /\ (N - 1) - t + 1 = L
    BY <1>2, <1>4
  <2> HIDE DEF L
  <2> QED
    BY <1>2, <1>3, <2>1, FS_Interval
<1>6. 2 * Cardinality(Accepted(u)) > 2 ^ W
  <2> HIDE DEF L
  <2> QED
    BY <1>2, <1>4, <1>5 DEF N
<1>7. ASSUME NEW r \in 0 .. u - 1
      PROVE  Cardinality(Giving(u, r)) = Cardinality(Giving(u, 0))
  <2> DEFINE From == Giving(u, 0)
             To   == Giving(u, r)
             f    == [x \in From |-> IF x + r < N THEN x + r ELSE (x + r) - L]
  <2>1. /\ \A x : x \in From <=> x \in t .. N - 1 /\ x % u = 0
        /\ \A x : x \in To <=> x \in t .. N - 1 /\ x % u = r
    BY <1>3 DEF Giving
  <2>2. r \in Nat /\ r < u
    BY <1>2
  <2> HIDE DEF From, To
  <2>3. \A x \in Int, a \in 0 .. u - 1, c \in Int : x % u = a => (x + c) % u = (a + c) % u
    <3> SUFFICES ASSUME NEW x \in Int, NEW a \in 0 .. u - 1, NEW c \in Int, x % u = a
                 PROVE  (x + c) % u = (a + c) % u
      OBVIOUS
    <3>1. u \in Nat /\ u > 0
      BY <1>2
    <3> QED
      BY <3>1, ShiftedResidue
  <2>4. \A a \in 0 .. u - 1 : a % u = a
    BY <1>2
  <2>5. \A x \in Int : (x - L) % u = x % u /\ (x + L) % u = x % u
    <3> SUFFICES ASSUME NEW x \in Int PROVE (x - L) % u = x % u /\ (x + L) % u = x % u
      OBVIOUS
    <3> DEFINE y == x - L
               z == x + L
    <3>1. y = x + u * (- n) /\ z = x + u * n /\ y \in Int /\ z \in Int
      BY <1>1, <1>2, <1>4
    <3> HIDE DEF y, z, L
    <3>2. y % u = x % u /\ z % u = x % u
      BY <1>1, <1>2, <3>1, SameResidue
    <3> QED
      BY <3>2 DEF y, z
  <2> HIDE DEF L
  <2>6. \A x \in From : f[x] \in To
    <3> SUFFICES ASSUME NEW x \in From PROVE f[x] \in To
      OBVIOUS
    <3>1. x \in Int /\ t <= x /\ x < N /\ x % u = 0 /\ 0 \in 0 .. u - 1
      BY <1>2, <2>1
    <3>2. (x + r) % u = (0 + r) % u /\ (0 + r) % u = r
      <4>1. (x + r) % u = (0 + r) % u
        BY <2>2, <2>3, <3>1
      <4>2. r % u = r /\ 0 + r = r
        BY <2>2, <2>4
      <4> QED
        BY <4>1, <4>2
    <3>3. ((x + r) - L) % u = (x + r) % u
      <4> DEFINE w == x + r
      <4>1. w \in Int
        BY <2>2, <3>1
      <4> HIDE DEF w
      <4>2. (w - L) % u = w % u
        BY <2>5, <4>1
      <4> QED
        BY <4>2, Zenon DEF w
    <3>4. CASE x + r < N
      <4>1. f[x] = x + r /\ x + r \in t .. N - 1
        BY <1>2, <2>2, <3>1, <3>4
      <4> QED
        BY <2>1, <3>2, <4>1
    <3>5. CASE ~ (x + r < N)
      <4>1. f[x] = (x + r) - L /\ (x + r) - L \in t .. N - 1
        BY <1>2, <1>4, <2>2, <3>1, <3>5
      <4> QED
        BY <2>1, <3>2, <3>3, <4>1
    <3> QED
      BY <3>4, <3>5
  <2>7. \A x, y \in From : f[x] = f[y] => x = y
    <3>1. \A x \in From : x \in Int /\ t <= x /\ x < N
      BY <1>2, <2>1
    <3> QED
      BY <1>2, <1>4, <2>2, <3>1
  <2>8. \A y \in To : \E x \in From : f[x] = y
    <3> SUFFICES ASSUME NEW y \in To PROVE \E x \in From : f[x] = y
      OBVIOUS
    <3>1. y \in Int /\ t <= y /\ y < N /\ y % u = r /\ r \in 0 .. u - 1 /\ - r \in Int
      BY <1>2, <2>1, <2>2
    <3> DEFINE c == - r
               w == y - r
    <3>2. (y + c) % u = (r + c) % u
      <4>1. c \in Int
        BY <3>1
      <4> HIDE DEF c
      <4> QED
        BY <2>3, <3>1, <4>1
    <3>3. w \in Int /\ y + c = w /\ r + c = 0 /\ 0 % u = 0
      BY <1>2, <2>2, <3>1
    <3>4. w % u = 0 /\ (w + L) % u = 0
      <4> HIDE DEF c, w
      <4>1. w % u = 0
        BY <3>2, <3>3
      <4> QED
        BY <2>5, <3>3, <4>1
    <3>5. CASE t <= y - r
      <4>1. y - r \in t .. N - 1 /\ y - r + r < N /\ y - r + r = y
        BY <1>2, <2>2, <3>1, <3>5
      <4>2. y - r \in From
        BY <2>1, <3>4, <4>1
      <4>3. f[y - r] = y
        BY <4>1, <4>2
      <4> QED
        BY <4>2, <4>3
    <3>6. CASE ~ (t <= y - r)
      <4>1. y - r + L \in t .. N - 1 /\ ~ (y - r + L + r < N) /\ ((y - r + L) + r) - L = y
        BY <1>2, <1>4, <2>2, <3>1, <3>6
      <4>2. y - r + L \in From
        BY <2>1, <3>4, <4>1
      <4>3. f[y - r + L] = y
        BY <4>1, <4>2
      <4> QED
        BY <4>2, <4>3
    <3> QED
      BY <3>5, <3>6
  <2>9. f \in [From -> To]
    <3> DEFINE g(x) == IF x + r < N THEN x + r ELSE (x + r) - L
    <3>1. \A x \in From : g(x) \in To
      BY <2>6
    <3> HIDE DEF g
    <3>2. [x \in From |-> g(x)] \in [From -> To]
      BY <3>1
    <3> QED
      BY <3>2 DEF g
  <2> HIDE DEF f
  <2>10. ExistsBijection(From, To)
    <3>1. f \in Bijection(From, To)
      BY <2>7, <2>8, <2>9, Fun_IsBij
    <3> QED
      BY <3>1 DEF ExistsBijection
  <2>11. IsFiniteSet(From)
    <3>1. From \in SUBSET Accepted(u)
      BY DEF From, Giving
    <3> QED
      BY <1>5, <3>1, FS_Subset
  <2>12. Cardinality(To) = Cardinality(From)
    BY <2>10, <2>11, FS_Bijection
  <2> QED
    BY <2>12 DEF From, To
<1> QED
  BY <1>6, <1>7

-----------------------------------------------------------------------------
(* Decoding *)

(* The phase of the hint's ciphertext and its mask, and the answer, when   *)
(* the group adds up to s.                                                 *)
HintPhase(x, s, e)        == (Scale((x + s) % P) + e) % Q
AnswerTo(phi, s, d, noise) == AddSignedMod((phi + Q - Scaled(s, d)) % Q, noise, Q)

(* A residue is below its modulus.                                         *)
LEMMA ResidueType ==
  ASSUME NEW a \in Int, NEW b \in Nat, b > 0
  PROVE  a % b \in 0 .. b - 1
BY DivMod

(* The three errors and two roundings stay below half a step.              *)
LEMMA WithinBudget ==
  ASSUME BudgetAssumption, NEW e \in - EncErr .. EncErr,
         NEW d \in - FloatErr .. FloatErr, NEW noise \in - NoiseBound .. NoiseBound
  PROVE  /\ 2 * (P * (e - d + noise)) <= Q - 3 * P
         /\ 3 * P - Q <= 2 * (P * (e - d + noise))
         /\ P * (e - d + noise) \in Int
<1> DEFINE B == EncErr + FloatErr + NoiseBound
           x == e - d + noise
<1>1. /\ P \in Nat /\ Q \in Nat /\ P > 0 /\ B \in Nat /\ x \in Int /\ - B <= x /\ x <= B
  BY DEF BudgetAssumption
<1>2. 2 * (P * B) + 3 * P <= Q
  BY DEF BudgetAssumption
<1> HIDE DEF B, x
<1>3. P * x <= P * B /\ P * x \in Int /\ P * B \in Int
  BY <1>1, MulOrder
<1>4. P * (- B) <= P * x /\ P * (- B) = - (P * B)
  BY <1>1, MulOrder
<1>5. 2 * (P * x) <= Q - 3 * P /\ 3 * P - Q <= 2 * (P * x)
  BY <1>1, <1>2, <1>3, <1>4
<1>6. QED
  BY <1>3, <1>5 DEF x

(* Masking, answering, unmasking and rounding give the entry back,         *)
(* whatever mask, errors and noise within the budget.                      *)
LEMMA DecodeExact ==
  ASSUME WidthAssumption, BudgetAssumption,
         NEW x \in 0 .. P - 1, NEW s \in 0 .. P - 1, NEW e \in - EncErr .. EncErr, NEW m \in 0 .. Q - 1,
         NEW d \in - FloatErr .. FloatErr, NEW noise \in - NoiseBound .. NoiseBound
  PROVE  RoundScale((AnswerTo((HintPhase(x, s, e) + m) % Q, s, d, noise) + Q - (m % Q)) % Q) = x
<1>1. /\ P \in Nat /\ P > 1 /\ Q \in Nat /\ Q > P /\ Q < 2 ^ W /\ 2 ^ W \in Int
      /\ x \in Nat /\ x < P /\ s \in Nat /\ s < P /\ m \in Nat /\ m < Q
      /\ e \in Int /\ d \in Int /\ noise \in Int
  BY DEF BudgetAssumption, WidthAssumption
<1> DEFINE g   == (x + s) % P
           c   == (x + s) \div P
           h   == Scale(g)
           r   == (2 * Q * g + P) % (2 * P)
           ph  == HintPhase(x, s, e)
           mk  == (ph + m) % Q
           b   == (s * Q) \div P
           rb  == (s * Q) % P
           d1  == IF s = 0 THEN 0 ELSE d
           sc  == Scaled(s, d)
           y   == (mk + Q - sc) % Q
           an  == AnswerTo(mk, s, d, noise)
           z   == (an + Q - (m % Q)) % Q
<1>2. g \in Int /\ c \in Int /\ x + s = P * c + g /\ g \in 0 .. P - 1
  BY <1>1, DivMod
<1>3. h \in Int /\ r \in Int /\ 2 * (Q * g) + P = 2 * (P * h) + r /\ 0 <= r /\ r < 2 * P /\ Q * g \in Int
  <2>1. 2 * Q * g + P \in Int /\ 2 * P \in Nat /\ 2 * P > 0 /\ Q * g \in Int /\ 2 * Q * g = 2 * (Q * g)
    BY <1>1, <1>2
  <2>2. /\ h \in Int /\ r \in Int /\ 2 * Q * g + P = (2 * P) * h + r /\ 0 <= r /\ r < 2 * P
    BY <2>1, DivMod DEF Scale
  <2>3. (2 * P) * h = 2 * (P * h)
    BY <1>1, <2>2
  <2>4. QED
    BY <2>1, <2>2, <2>3
<1>4. b \in Int /\ rb \in Int /\ s * Q = P * b + rb /\ 0 <= rb /\ rb < P
  BY <1>1, DivMod
<1>5. d1 \in - FloatErr .. FloatErr /\ d1 \in Int
  BY <1>1 DEF BudgetAssumption
<1> HIDE DEF c, r, b, rb, d1
<1>6. PICK t1 \in Int : ph = h + e + Q * t1
  <2> DEFINE a == h + e
  <2>1. a \in Int /\ ph = a % Q
    BY <1>1, <1>3 DEF HintPhase
  <2> HIDE DEF a, ph
  <2>2. \E t \in Int : a % Q = a + Q * t
    BY <1>1, <2>1, ResidueStep
  <2>3. \E t \in Int : ph = a + Q * t
    BY <2>1, <2>2
  <2>4. QED
    BY <2>3 DEF a
<1>7. ph \in Int
  BY <1>1, <1>3, DivMod DEF HintPhase
<1> HIDE DEF g, h, ph
<1>8. PICK t2 \in Int : mk = ph + m + Q * t2
  BY <1>1, <1>7, ResidueStep
<1>9. mk \in Int
  BY <1>1, <1>7, DivMod
<1>10. sc = (b + d1) % Q
  BY DEF Scaled, b, d1
<1>11. PICK t3 \in Int : sc = b + d1 + Q * t3
  <2> DEFINE a == b + d1
  <2>1. a \in Int /\ sc = a % Q
    BY <1>1, <1>4, <1>5, <1>10
  <2> HIDE DEF a, sc
  <2>2. \E t \in Int : a % Q = a + Q * t
    BY <1>1, <2>1, ResidueStep
  <2>3. \E t \in Int : sc = a + Q * t
    BY <2>1, <2>2
  <2>4. QED
    BY <2>3 DEF a
<1>12. sc \in Int
  BY <1>1, <1>4, <1>5, <1>10, DivMod
<1>13. an = AddSignedMod(y, noise, Q)
  BY DEF AnswerTo
<1> HIDE DEF mk, sc
<1>14. PICK t4 \in Int : y = mk + Q - sc + Q * t4
  <2> DEFINE a == mk + Q - sc
  <2>1. a \in Int /\ y = a % Q
    BY <1>1, <1>9, <1>12
  <2> HIDE DEF a, y
  <2>2. \E t \in Int : a % Q = a + Q * t
    BY <1>1, <2>1, ResidueStep
  <2>3. \E t \in Int : y = a + Q * t
    BY <2>1, <2>2
  <2>4. QED
    BY <2>3 DEF a
<1>15. y \in Nat
  BY <1>1, <1>9, <1>12, DivMod
<1> HIDE DEF y, an
<1>16. an = (y + noise) % Q
  <2>1. - Q < noise /\ noise < Q
    <3>1. P * (2 * (EncErr + FloatErr + NoiseBound) + 3) <= Q /\ 2 * (EncErr + FloatErr + NoiseBound) + 3 \in Nat
      BY DEF BudgetAssumption
    <3>2. P * (2 * (EncErr + FloatErr + NoiseBound) + 3) >= 2 * (EncErr + FloatErr + NoiseBound) + 3
      <4> DEFINE B == 2 * (EncErr + FloatErr + NoiseBound) + 3
      <4>1. B \in Nat
        BY <3>1
      <4> HIDE DEF B
      <4>2. P * B = B * P /\ B * P >= B
        BY <1>1, <4>1
      <4>3. QED
        BY <4>2 DEF B
    <3>3. NoiseBound < Q
      BY <3>1, <3>2, <1>1 DEF BudgetAssumption
    <3>4. QED
      BY <3>3, <1>1 DEF BudgetAssumption
  <2>2. - (2 ^ W) < noise /\ noise < 2 ^ W /\ 0 < Q
    BY <1>1, <2>1
  <2>3. QED
    BY <1>1, <1>13, <1>15, <2>2, SignedAddIsExact
<1>17. PICK t5 \in Int : an = y + noise + Q * t5
  <2> DEFINE a == y + noise
  <2>1. a \in Int /\ an = a % Q
    BY <1>1, <1>15, <1>16
  <2> HIDE DEF a, an
  <2>2. \E t \in Int : a % Q = a + Q * t
    BY <1>1, <2>1, ResidueStep
  <2>3. \E t \in Int : an = a + Q * t
    BY <2>1, <2>2
  <2>4. QED
    BY <2>3 DEF a
<1>18. an \in Int
  BY <1>1, <1>15, <1>16, DivMod
<1>19. m % Q = m
  BY <1>1
<1>20. PICK t6 \in Int : z = an + Q - m + Q * t6
  BY <1>1, <1>18, <1>19, ResidueStep
<1>21. z \in Int
  BY <1>1, <1>18, <1>19, DivMod
<1> HIDE DEF z
<1> DEFINE T   == t1 + t2 - t3 + t4 + t5 + t6 + 2
           err == e - d1 + noise
           rho == Q + (P - r) + 2 * (P * err) + 2 * rb
           u   == x + P * (T - c)
<1>22. T \in Int /\ err \in Int /\ z = h - b + err + Q * T
  <2>1. z = h - b + err + (Q * t1 + Q * t2 - Q * t3 + Q * t4 + Q * t5 + Q * t6 + 2 * Q)
    BY <1>1, <1>3, <1>4, <1>5, <1>6, <1>8, <1>11, <1>14, <1>17, <1>20
  <2>2. Q * T = Q * t1 + Q * t2 - Q * t3 + Q * t4 + Q * t5 + Q * t6 + 2 * Q
    BY <1>1
  <2>3. QED
    BY <1>1, <1>5, <2>1, <2>2
<1>23. /\ P * err \in Int /\ 2 * (P * err) <= Q - 3 * P /\ 3 * P - Q <= 2 * (P * err)
  BY <1>5, WithinBudget
<1> HIDE DEF T, err
<1>24. rho \in Int /\ 0 <= rho /\ rho < 2 * Q /\ u \in Int
  BY <1>1, <1>2, <1>3, <1>4, <1>22, <1>23
<1>25. 2 * P * z + Q = (2 * Q) * u + rho
  <2>1. P * z = P * h - P * b + P * err + P * (Q * T)
    BY <1>1, <1>3, <1>4, <1>22
  <2>2. Q * g = Q * x + Q * s - Q * (P * c)
    BY <1>1, <1>2
  <2>3. Q * u = Q * x + P * (Q * T) - Q * (P * c)
    BY <1>1, <1>2, <1>22
  <2>4. 2 * P * z = 2 * (P * z) /\ (2 * Q) * u = 2 * (Q * u) /\ s * Q = Q * s
    BY <1>1, <1>21, <1>24
  <2> DEFINE Ph == P * h
             Pb == P * b
             Pe == P * err
             PQT == P * (Q * T)
             Qg == Q * g
             Qx == Q * x
             Qs == Q * s
             QPc == Q * (P * c)
             Qu == Q * u
             Pz == P * z
  <2>5. /\ Ph \in Int /\ Pb \in Int /\ Pe \in Int /\ PQT \in Int /\ Qg \in Int /\ Qx \in Int
        /\ Qs \in Int /\ QPc \in Int /\ Qu \in Int /\ Pz \in Int
    BY <1>1, <1>2, <1>3, <1>4, <1>21, <1>22, <1>24
  <2>6. /\ Pz = Ph - Pb + Pe + PQT /\ Qg = Qx + Qs - QPc /\ Qu = Qx + PQT - QPc
        /\ 2 * Qg + P = 2 * Ph + r /\ Qs = Pb + rb /\ rho = Q + (P - r) + 2 * Pe + 2 * rb
    BY <1>3, <1>4, <2>1, <2>2, <2>3, <2>4
  <2>7. 2 * P * z + Q = 2 * Pz + Q /\ (2 * Q) * u + rho = 2 * Qu + rho
    BY <2>4
  <2> HIDE DEF Ph, Pb, Pe, PQT, Qg, Qx, Qs, QPc, Qu, Pz, rho, u
  <2>8. 2 * Pz + Q = 2 * Qu + rho
    BY <1>1, <1>3, <1>4, <2>5, <2>6
  <2>9. QED
    BY <2>7, <2>8
<1>26. 2 * P * z + Q \in Int /\ 2 * Q \in Nat /\ 2 * Q > 0
  BY <1>1, <1>21
<1>27. Division(2 * P * z + Q, 2 * Q, u, rho)
  BY <1>24, <1>25 DEF Division
<1>28. (2 * P * z + Q) \div (2 * Q) = u
  BY <1>26, <1>27, DivModUnique
<1>29. u % P = x % P /\ x % P = x
  BY <1>1, <1>2, <1>22, SameResidue
<1>30. RoundScale(z) = x
  BY <1>28, <1>29 DEF RoundScale
<1>31. QED
  BY <1>30 DEF z, an, mk, ph


-----------------------------------------------------------------------------
(* The inductive invariant.  What the hint was built from stays fixed      *)
(* while the query is masked, summed and answered: the partial sums s of   *)
(* the group and the error e of the ciphertext.                            *)
Typed ==
  /\ entry \in 0 .. P - 1 /\ group \in [1 .. GroupLen -> 0 .. P - 1]
  /\ summed \in 0 .. GroupLen

Traced(s, e) ==
  /\ AddsUp(s) /\ sum = s[summed]
  /\ stage = "hint" => summed = 0 /\ phase = HintPhase(entry, s[GroupLen], e)
  /\ stage \in {"query", "answer"} =>
       rando \in 0 .. Q - 1 /\ phase = (HintPhase(entry, s[GroupLen], e) + rando) % Q
  /\ stage = "answer" =>
       /\ summed = GroupLen
       /\ \E d \in - FloatErr .. FloatErr, noise \in - NoiseBound .. NoiseBound :
            answer = AnswerTo(phase, sum, d, noise)

Decoding ==
  /\ Typed
  /\ \E s \in Sums, e \in - EncErr .. EncErr : Traced(s, e)
  /\ DecodesEntry

(* The invariant of a query holds when the hint is made,                   *)
LEMMA DecodingInit ==
  ASSUME BudgetAssumption, Init PROVE Decoding
<1>1. PICK s \in Sums, e \in - EncErr .. EncErr :
        AddsUp(s) /\ phase = HintPhase(entry, s[GroupLen], e)
  BY DEF Init, HintPhase
<1>2. Typed
  BY DEF Init, Typed, BudgetAssumption
<1>3. Traced(s, e)
  BY <1>1 DEF Traced, Init, AddsUp
<1>4. DecodesEntry
  BY DEF Init, DecodesEntry
<1>5. QED
  BY <1>2, <1>3, <1>4 DEF Decoding

(* and every step of client and server keeps it.                           *)
LEMMA DecodingStep ==
  ASSUME WidthAssumption, BudgetAssumption, Decoding, [Next]_vars PROVE Decoding'
<1>1. PICK s \in Sums, e \in - EncErr .. EncErr : Traced(s, e)
  BY DEF Decoding
<1>2. SUFFICES Typed' /\ Traced(s, e)' /\ DecodesEntry'
  BY DEF Decoding, Sums
<1>3. Typed /\ DecodesEntry /\ AddsUp(s) /\ sum = s[summed]
  BY <1>1 DEF Decoding, Traced
<1>4. CASE \E m \in Masks : MaskQuery(m)
  <2>1. PICK m \in Masks : MaskQuery(m)
    BY <1>4
  <2>2. m \in 0 .. Q - 1
    BY DEF BudgetAssumption
  <2>3. Typed' /\ DecodesEntry' /\ AddsUp(s)' /\ (sum = s[summed])'
    BY <1>3, <2>1 DEF MaskQuery, Typed, DecodesEntry, AddsUp
  <2>4. /\ stage' = "query" /\ rando' \in 0 .. Q - 1
        /\ phase' = (HintPhase(entry', s[GroupLen], e) + rando') % Q
    BY <1>1, <2>1, <2>2 DEF MaskQuery, Traced
  <2>5. QED
    BY <2>3, <2>4 DEF Traced
<1>5. CASE SumEntry
  <2>1. summed \in 0 .. GroupLen /\ summed < GroupLen /\ GroupLen \in Nat
    BY <1>3, <1>5 DEF SumEntry, Typed, BudgetAssumption
  <2>2. summed + 1 \in 1 .. GroupLen /\ summed + 1 - 1 = summed /\ summed + 1 \in 0 .. GroupLen
    BY <2>1
  <2>3. s[summed + 1] = (s[summed] + group[summed + 1]) % P
    <3>1. \A n \in 1 .. GroupLen : s[n] = (s[n - 1] + group[n]) % P
      BY <1>3 DEF AddsUp
    <3>2. s[summed + 1] = (s[(summed + 1) - 1] + group[summed + 1]) % P
      BY <2>2, <3>1
    <3>3. (summed + 1) - 1 = summed
      BY <2>1
    <3>4. QED
      BY <3>2, <3>3
  <2>4. (sum = s[summed])'
    BY <1>3, <1>5, <2>3 DEF SumEntry
  <2>5. Typed' /\ DecodesEntry' /\ AddsUp(s)'
    BY <1>3, <1>5, <2>2 DEF SumEntry, Typed, DecodesEntry, AddsUp
  <2>6. QED
    BY <1>1, <1>5, <2>4, <2>5 DEF SumEntry, Traced
<1>6. CASE \E d \in - FloatErr .. FloatErr, noise \in - NoiseBound .. NoiseBound :
             AnswerQuery(d, noise)
  <2>1. PICK d \in - FloatErr .. FloatErr, noise \in - NoiseBound .. NoiseBound :
          AnswerQuery(d, noise)
    BY <1>6
  <2>2. Typed' /\ DecodesEntry' /\ AddsUp(s)' /\ (sum = s[summed])'
    BY <1>3, <2>1 DEF AnswerQuery, Typed, DecodesEntry, AddsUp
  <2>3. answer' = AnswerTo(phase', sum', d, noise)
    BY <2>1 DEF AnswerQuery, AnswerTo
  <2>4. QED
    BY <1>1, <2>1, <2>2, <2>3 DEF AnswerQuery, Traced
<1>7. CASE Decode
  <2>1. PICK d \in - FloatErr .. FloatErr, noise \in - NoiseBound .. NoiseBound :
          answer = AnswerTo(phase, sum, d, noise)
    BY <1>1, <1>7 DEF Decode, Traced
  <2>2. /\ rando \in 0 .. Q - 1 /\ sum = s[GroupLen]
        /\ phase = (HintPhase(entry, s[GroupLen], e) + rando) % Q
    BY <1>1, <1>7 DEF Decode, Traced
  <2>3. entry \in 0 .. P - 1 /\ s[GroupLen] \in 0 .. P - 1
    BY <1>3 DEF Typed, Sums, BudgetAssumption
  <2>4. decoded' = entry
    BY <1>7, <2>1, <2>2, <2>3, DecodeExact DEF Decode
  <2>5. Typed' /\ DecodesEntry' /\ AddsUp(s)' /\ (sum = s[summed])'
    BY <1>3, <1>7, <2>4 DEF Decode, Typed, DecodesEntry, AddsUp
  <2>6. QED
    BY <1>7, <2>5 DEF Decode, Traced
<1>8. CASE Finished \/ UNCHANGED vars
  <2>1. UNCHANGED vars
    BY <1>8 DEF Finished
  <2>2. QED
    BY <1>1, <1>3, <2>1 DEF vars, Typed, Traced, DecodesEntry, AddsUp
<1>9. QED
  BY <1>4, <1>5, <1>6, <1>7, <1>8 DEF Next

(* onlineQuery and the client that reads its answer: whatever the moduli,  *)
(* the group and the mask are, and however the errors and the noise fall   *)
(* within their bounds, the number the client decodes is the entry it      *)
(* asked for.                                                              *)
THEOREM AnswersDecode ==
  ASSUME WidthAssumption, BudgetAssumption PROVE Spec => []DecodesEntry
<1>1. Init => Decoding
  BY DecodingInit
<1>2. Decoding /\ [Next]_vars => Decoding'
  BY DecodingStep
<1>3. Decoding => DecodesEntry
  BY DEF Decoding
<1>4. QED
  BY <1>1, <1>2, <1>3, PTL DEF Spec

-----------------------------------------------------------------------------
(* FindCutoff (module CutoffLoop).                                         *)

(* The places before n that a filter counts, and those both let through.   *)
Below(n)   == {p \in Parts : p < n /\ row[p] < LowerFilter}
Above(n)   == {p \in Parts : p < n /\ row[p] >= LowerFilter /\ row[p] > UpperFilter}
Between(n) == {p \in Parts : p < n /\ row[p] >= LowerFilter /\ row[p] <= UpperFilter}

(* The front of the array holds the values between the filters, each once: *)
(* h names the place in the row that a value came from.                    *)
Gathers(h) ==
  /\ h \in [Kept -> Parts]
  /\ \A j, l \in Kept : h[j] = h[l] => j = l
  /\ \A p \in Parts : p \in Between(k) <=> \E j \in Kept : h[j] = p
  /\ \A j \in Kept : prfVals[j] = row[h[j]]
Gathered == \E h \in [Kept -> Parts] : Gathers(h)

Types ==
  /\ row \in [Parts -> Nat] /\ prfVals \in [Parts -> Nat]
  /\ k \in Nat /\ k <= PartNum
  /\ LowerCnt \in Nat /\ UpperCnt \in Nat /\ MiddleCnt \in Nat

Counted ==
  /\ LowerCnt = Cardinality(Below(k))
  /\ UpperCnt = Cardinality(Above(k))
  /\ LowerCnt + UpperCnt + MiddleCnt = k

(* The value at the median's place has none greater before it and none     *)
(* smaller behind it.                                                      *)
MedianPlaced ==
  \A j \in Kept : /\ j < Median => prfVals[j] <= prfVals[Median]
                  /\ j > Median => prfVals[j] >= prfVals[Median]

(* The inductive invariant. *)
Selecting ==
  /\ Types /\ Counted
  /\ pc = "filter" => Gathered
  /\ pc = "scan" => Gathered /\ MedianPlaced /\ k = PartNum /\ ~ FilteredTooMuch
  /\ MedianInPrefix /\ ReturnsMedian

-----------------------------------------------------------------------------
(* Counting *)

LEMMA PartsFinite ==
  /\ IsFiniteSet(Parts) /\ Cardinality(Parts) = PartNum
  /\ \A S \in SUBSET Parts : IsFiniteSet(S) /\ Cardinality(S) \in Nat
<1>1. PartNum \in Nat /\ PartNum > 1
  BY SizeAssumption
<1>2. IsFiniteSet(Parts) /\ Cardinality(Parts) = PartNum
  BY <1>1, FS_Interval DEF Parts
<1>3. QED
  BY <1>2, FS_Subset, FS_CardinalityType

(* Before an index there are as many natural numbers as it says.           *)
LEMMA Initial ==
  ASSUME NEW n \in Nat
  PROVE  IsFiniteSet(0 .. n - 1) /\ Cardinality(0 .. n - 1) = n
BY FS_Interval

(* A map that takes no value twice keeps the size of every set.            *)
LEMMA ImageSize ==
  ASSUME NEW D, NEW T, NEW h \in [D -> T], \A j, l \in D : h[j] = h[l] => j = l,
         NEW A \in SUBSET D, IsFiniteSet(A)
  PROVE  /\ IsFiniteSet({h[j] : j \in A})
         /\ Cardinality({h[j] : j \in A}) = Cardinality(A)
<1> DEFINE I == {h[j] : j \in A}
           g == [j \in A |-> h[j]]
<1>1. g \in [A -> I]
  OBVIOUS
<1>2. g \in Injection(A, I)
  BY <1>1 DEF Injection, IsInjective
<1>3. g \in Surjection(A, I)
  BY <1>1 DEF Surjection
<1>4. ExistsBijection(A, I)
  BY <1>2, <1>3 DEF ExistsBijection, Bijection
<1>5. QED
  BY <1>4, FS_Bijection

(* Disjoint sets of places are counted together.                           *)
LEMMA DisjointSize ==
  ASSUME NEW S \in SUBSET Parts, NEW T \in SUBSET Parts, S \cap T = {}
  PROVE  Cardinality(S \cup T) = Cardinality(S) + Cardinality(T)
<1>1. IsFiniteSet(S) /\ IsFiniteSet(T) /\ Cardinality(S) \in Nat /\ Cardinality(T) \in Nat
  BY PartsFinite
<1>2. Cardinality(S \cap T) = 0
  BY FS_EmptySet
<1>3. Cardinality(S \cup T) = Cardinality(S) + Cardinality(T) - Cardinality(S \cap T)
  BY <1>1, FS_Union
<1>4. QED
  BY <1>1, <1>2, <1>3

-----------------------------------------------------------------------------
(* The loop *)

LEMMA SelectingInit == CutoffConstants /\ CutoffInit => Selecting
<1> SUFFICES ASSUME CutoffConstants, CutoffInit PROVE Selecting
  OBVIOUS
<1> USE DEF CutoffInit, CutoffConstants
<1>1. PartNum \in Nat /\ Types
  <2>1. \A j \in Parts : row[j] \in Nat
    OBVIOUS
  <2>2. row \in [Parts -> Nat]
    BY <2>1
  <2>3. QED
    BY <2>2, SizeAssumption DEF Types
<1>2. Below(0) = {} /\ Above(0) = {} /\ Between(0) = {}
  BY DEF Below, Above, Between, Parts
<1>3. Counted
  BY <1>2, FS_EmptySet DEF Counted
<1>4. Kept = {}
  BY DEF Kept
<1>5. Gathered
  <2>1. [j \in {} |-> 0] \in [Kept -> Parts]
    BY <1>4
  <2>2. Gathers([j \in {} |-> 0])
    BY <1>2, <1>4, <2>1 DEF Gathers
  <2>3. QED
    BY <2>1, <2>2 DEF Gathered
<1>6. QED
  BY <1>1, <1>3, <1>5 DEF Selecting, MedianInPrefix, ReturnsMedian

(* The value at k is counted by exactly one of the three.                  *)
LEMMA NextPlace ==
  ASSUME Types, k < PartNum
  PROVE  /\ k \in Parts
         /\ k \notin Below(k) /\ k \notin Above(k) /\ k \notin Between(k)
         /\ Below(k + 1) = IF row[k] < LowerFilter THEN Below(k) \cup {k} ELSE Below(k)
         /\ Above(k + 1) = IF row[k] >= LowerFilter /\ row[k] > UpperFilter
                           THEN Above(k) \cup {k} ELSE Above(k)
         /\ Between(k + 1) = IF row[k] >= LowerFilter /\ row[k] <= UpperFilter
                             THEN Between(k) \cup {k} ELSE Between(k)
<1>1. PartNum \in Nat /\ k \in Nat /\ k \in Parts
  BY SizeAssumption DEF Types, Parts
<1>2. \A p \in Parts : p \in Nat /\ (p < k + 1 <=> p < k \/ p = k)
  BY <1>1 DEF Parts
<1>3. Below(k + 1) = IF row[k] < LowerFilter THEN Below(k) \cup {k} ELSE Below(k)
  BY <1>1, <1>2 DEF Below
<1>4. Above(k + 1) = IF row[k] >= LowerFilter /\ row[k] > UpperFilter
                     THEN Above(k) \cup {k} ELSE Above(k)
  BY <1>1, <1>2 DEF Above
<1>5. Between(k + 1) = IF row[k] >= LowerFilter /\ row[k] <= UpperFilter
                       THEN Between(k) \cup {k} ELSE Between(k)
  BY <1>1, <1>2 DEF Between
<1>6. QED
  BY <1>1, <1>3, <1>4, <1>5 DEF Below, Above, Between

(* One place more in a set of places.                                      *)
LEMMA OneMore ==
  ASSUME NEW S \in SUBSET Parts, NEW p \in Parts, p \notin S
  PROVE  Cardinality(S \cup {p}) = Cardinality(S) + 1
BY PartsFinite, FS_AddElement

(* What a filter step does to the counts and to the front of the array.    *)
LEMMA FilterSelecting ==
  ASSUME Selecting, Filter
  PROVE  Selecting'
<1> USE DEF Selecting
<1>1. /\ Types /\ Counted /\ Gathered /\ pc = "filter" /\ k < PartNum
      /\ k' = k + 1 /\ row' = row /\ pc' = "filter"
      /\ \A j \in Parts : j >= k => prfVals[j] = row[j]
  BY DEF Filter, MedianInPrefix
<1>2. /\ PartNum \in Nat /\ LowerFilter \in Nat /\ UpperFilter \in Nat
      /\ k \in Nat /\ k \in Parts /\ LowerCnt \in Nat /\ UpperCnt \in Nat /\ MiddleCnt \in Nat
      /\ LowerCnt + UpperCnt + MiddleCnt = k /\ row[k] \in Nat /\ prfVals[k] = row[k]
  BY <1>1, SizeAssumption, PrfAssumption DEF Types, Counted, Parts
<1>3. Below(k) \in SUBSET Parts /\ Above(k) \in SUBSET Parts
  BY DEF Below, Above
<1>4. Below(k)' = Below(k + 1) /\ Above(k)' = Above(k + 1) /\ Between(k)' = Between(k + 1)
  BY <1>1 DEF Below, Above, Between
<1>5. SUFFICES Types' /\ Counted' /\ Gathered' /\ \A j \in Parts : j >= k' => prfVals'[j] = row[j]
  BY <1>1 DEF MedianInPrefix, ReturnsMedian
<1>6. CASE row[k] < LowerFilter
  <2>1. LowerCnt' = LowerCnt + 1 /\ UNCHANGED <<UpperCnt, MiddleCnt, prfVals>>
    BY <1>2, <1>6 DEF Filter
  <2>2. /\ Below(k + 1) = Below(k) \cup {k} /\ Above(k + 1) = Above(k)
        /\ Between(k + 1) = Between(k) /\ k \notin Below(k)
    BY <1>1, <1>2, <1>6, NextPlace
  <2>3. Types' /\ Counted'
    BY <1>1, <1>2, <1>3, <1>4, <2>1, <2>2, OneMore DEF Types, Counted
  <2>4. Gathered'
    BY <1>1, <1>4, <2>1, <2>2 DEF Gathered, Gathers, Kept
  <2>5. QED
    BY <1>1, <1>2, <2>1, <2>3, <2>4 DEF Parts
<1>7. CASE row[k] >= LowerFilter /\ row[k] > UpperFilter
  <2>1. UpperCnt' = UpperCnt + 1 /\ UNCHANGED <<LowerCnt, MiddleCnt, prfVals>>
    BY <1>2, <1>7 DEF Filter
  <2>2. /\ Below(k + 1) = Below(k) /\ Above(k + 1) = Above(k) \cup {k}
        /\ Between(k + 1) = Between(k) /\ k \notin Above(k)
    BY <1>1, <1>2, <1>7, NextPlace
  <2>3. Types' /\ Counted'
    BY <1>1, <1>2, <1>3, <1>4, <2>1, <2>2, OneMore DEF Types, Counted
  <2>4. Gathered'
    BY <1>1, <1>4, <2>1, <2>2 DEF Gathered, Gathers, Kept
  <2>5. QED
    BY <1>1, <1>2, <2>1, <2>3, <2>4 DEF Parts
<1>8. CASE row[k] >= LowerFilter /\ row[k] <= UpperFilter
  <2>1. /\ MiddleCnt' = MiddleCnt + 1 /\ UNCHANGED <<LowerCnt, UpperCnt>>
        /\ prfVals' = [prfVals EXCEPT ![MiddleCnt] = row[k]]
    BY <1>2, <1>8 DEF Filter
  <2>2. /\ Below(k + 1) = Below(k) /\ Above(k + 1) = Above(k)
        /\ Between(k + 1) = Between(k) \cup {k} /\ k \notin Between(k)
    BY <1>1, <1>2, <1>8, NextPlace
  <2>3. prfVals \in [Parts -> Nat] /\ MiddleCnt \in Parts /\ MiddleCnt <= k
    BY <1>1, <1>2 DEF Types, Parts
  <2>4. /\ prfVals' \in [Parts -> Nat] /\ prfVals'[MiddleCnt] = row[k]
        /\ \A j \in Parts : j # MiddleCnt => prfVals'[j] = prfVals[j]
    BY <1>2, <2>1, <2>3
  <2>5. Types' /\ Counted'
    BY <1>1, <1>2, <1>4, <2>1, <2>2, <2>4 DEF Types, Counted
  <2>6. Gathered'
    <3>1. PICK h \in [Kept -> Parts] : Gathers(h)
      BY <1>1 DEF Gathered
    <3> DEFINE g == [j \in 0 .. MiddleCnt |-> IF j = MiddleCnt THEN k ELSE h[j]]
    <3>2. /\ Kept' = 0 .. MiddleCnt /\ MiddleCnt \in 0 .. MiddleCnt
          /\ \A j \in 0 .. MiddleCnt : j = MiddleCnt \/ j \in Kept
          /\ \A j \in Kept : j \in 0 .. MiddleCnt /\ j # MiddleCnt /\ j \in Parts
      BY <1>2, <2>1, <2>3 DEF Kept, Parts
    <3>3. /\ g[MiddleCnt] = k /\ \A j \in Kept : g[j] = h[j]
          /\ g \in [0 .. MiddleCnt -> Parts]
      BY <1>2, <3>2
    <3>4. \A j \in Kept : h[j] \in Between(k) /\ h[j] # k /\ prfVals[j] = row[h[j]]
      BY <2>2, <3>1 DEF Gathers
    <3>5. \A j, l \in 0 .. MiddleCnt : g[j] = g[l] => j = l
      BY <3>1, <3>2, <3>3, <3>4 DEF Gathers
    <3>6. \A p \in Parts : p \in Between(k + 1) <=> \E j \in 0 .. MiddleCnt : g[j] = p
      BY <2>2, <3>1, <3>2, <3>3 DEF Gathers
    <3>7. \A j \in 0 .. MiddleCnt : prfVals'[j] = row'[g[j]]
      BY <1>1, <2>4, <3>2, <3>3, <3>4
    <3>8. PICK q \in [0 .. MiddleCnt -> Parts] :
            /\ \A j, l \in 0 .. MiddleCnt : q[j] = q[l] => j = l
            /\ \A p \in Parts : p \in Between(k + 1) <=> \E j \in 0 .. MiddleCnt : q[j] = p
            /\ \A j \in 0 .. MiddleCnt : prfVals'[j] = row'[q[j]]
      BY <3>3, <3>5, <3>6, <3>7
    <3>9. Gathers(q)'
      BY <1>4, <3>2, <3>8 DEF Gathers
    <3>10. QED
      BY <3>2, <3>8, <3>9 DEF Gathered
  <2>7. \A j \in Parts : j >= k' => prfVals'[j] = row[j]
    BY <1>1, <1>2, <2>3, <2>4 DEF Parts
  <2>8. QED
    BY <2>5, <2>6, <2>7
<1>9. QED
  BY <1>2, <1>6, <1>7, <1>8

(* With neither filter taking half of the row, the median is kept.         *)
LEMMA MedianKept ==
  ASSUME Types, LowerCnt + UpperCnt + MiddleCnt = PartNum, ~ FilteredTooMuch
  PROVE  Median \in Kept /\ Median \in Nat
<1>1. /\ PartNum \in Nat /\ PartNum % 2 = 0
      /\ LowerCnt \in Nat /\ UpperCnt \in Nat /\ MiddleCnt \in Nat
  BY SizeAssumption DEF Types
<1>2. PartNum - PartNum \div 2 = PartNum \div 2 /\ PartNum \div 2 \in Nat
  BY <1>1
<1>3. LowerCnt < PartNum \div 2 /\ UpperCnt < PartNum \div 2
  BY <1>1, <1>2 DEF FilteredTooMuch
<1>4. QED
  BY <1>1, <1>2, <1>3 DEF Median, Kept

(* Selecting the median moves the kept values among themselves.            *)
LEMMA NthElementSelecting ==
  ASSUME Selecting, NthElement
  PROVE  Selecting'
<1> USE DEF Selecting
<1>1. /\ Types /\ Counted /\ Gathered /\ k = PartNum /\ ~ FilteredTooMuch /\ pc' = "scan"
      /\ UNCHANGED <<row, k, LowerCnt, UpperCnt, MiddleCnt>>
  BY DEF NthElement
<1>2. PICK f \in [Kept -> Kept] :
        /\ \A j, l \in Kept : f[j] = f[l] => j = l
        /\ \A j \in Kept : /\ j < Median => prfVals[f[j]] <= prfVals[f[Median]]
                           /\ j > Median => prfVals[f[j]] >= prfVals[f[Median]]
        /\ prfVals' = [j \in Parts |-> IF j \in Kept THEN prfVals[f[j]] ELSE prfVals[j]]
  <2>1. Median \in Kept
    BY <1>1, MedianKept DEF Counted
  <2>2. QED
    BY <2>1 DEF NthElement
<1>3. /\ PartNum \in Nat /\ MiddleCnt \in Nat /\ MiddleCnt <= PartNum
      /\ LowerCnt \in Nat /\ UpperCnt \in Nat
  BY <1>1, SizeAssumption DEF Types, Counted
<1>4. Kept \subseteq Parts /\ IsFiniteSet(Kept)
  BY <1>3, FS_Interval DEF Kept, Parts
<1>5. /\ Median \in Kept /\ Kept' = Kept /\ Median' = Median
      /\ \A j \in Kept : prfVals'[j] = prfVals[f[j]]
  BY <1>1, <1>2, <1>4, MedianKept DEF Kept, Median, Counted
<1>6. Types'
  <2>1. \A j \in Parts : (IF j \in Kept THEN prfVals[f[j]] ELSE prfVals[j]) \in Nat
    BY <1>1, <1>2, <1>4 DEF Types
  <2>2. prfVals' \in [Parts -> Nat]
    BY <1>2, <2>1
  <2>3. QED
    BY <1>1, <2>2 DEF Types
<1>7. Counted'
  BY <1>1 DEF Counted, Below, Above
<1>8. Gathered'
  <2>1. PICK h \in [Kept -> Parts] : Gathers(h)
    BY <1>1 DEF Gathered
  <2>2. f \in Injection(Kept, Kept)
    BY <1>2 DEF Injection, IsInjective
  <2>3. f \in Surjection(Kept, Kept)
    BY <1>4, <2>2, FS_Injection
  <2>4. \A l \in Kept : \E j \in Kept : f[j] = l
    BY <2>3 DEF Surjection
  <2> DEFINE g == [j \in Kept |-> h[f[j]]]
  <2>5. g \in [Kept -> Parts] /\ \A j \in Kept : g[j] = h[f[j]] /\ f[j] \in Kept
    BY <1>2, <2>1
  <2>6. \A j, l \in Kept : g[j] = g[l] => j = l
    BY <1>2, <2>1, <2>5 DEF Gathers
  <2>7. \A p \in Parts : p \in Between(k) <=> \E j \in Kept : g[j] = p
    BY <2>1, <2>4, <2>5 DEF Gathers
  <2>8. \A j \in Kept : prfVals'[j] = row[g[j]]
    BY <1>5, <2>1, <2>5 DEF Gathers
  <2>9. PICK q \in [Kept -> Parts] :
          /\ \A j, l \in Kept : q[j] = q[l] => j = l
          /\ \A p \in Parts : p \in Between(k) <=> \E j \in Kept : q[j] = p
          /\ \A j \in Kept : prfVals'[j] = row[q[j]]
    BY <2>5, <2>6, <2>7, <2>8
  <2>10. Between(k)' = Between(k)
    BY <1>1 DEF Between
  <2>11. Gathers(q)'
    BY <1>1, <1>5, <2>9, <2>10 DEF Gathers
  <2>12. QED
    BY <1>5, <2>9, <2>11 DEF Gathered
<1>9. MedianPlaced'
  BY <1>2, <1>5 DEF MedianPlaced
<1>10. k' = PartNum /\ ~ FilteredTooMuch'
  BY <1>1 DEF FilteredTooMuch
<1>11. MedianInPrefix' /\ ReturnsMedian'
  BY <1>1, <1>5 DEF MedianInPrefix, ReturnsMedian
<1>12. QED
  BY <1>1, <1>6, <1>7, <1>8, <1>9, <1>10, <1>11

-----------------------------------------------------------------------------
(* What the loop returns *)

Lower    == {p \in Parts : row[p] < LowerFilter}
Upper    == {p \in Parts : row[p] > UpperFilter}
Less(c)  == {p \in Parts : row[p] < c}
IsMedian(p) ==
  /\ p \in Parts \ (Lower \cup Upper)
  /\ Cardinality(Less(row[p])) = PartNum \div 2
  /\ \A j \in Parts \ {p} : row[j] # row[p]
TooMuch ==
  Cardinality(Lower) >= PartNum \div 2 \/ Cardinality(Upper) >= PartNum \div 2

(* FindCutoff in these words.                                              *)
LEMMA CutoffIs ==
  /\ TooMuch \/ (\A p \in Parts : ~ IsMedian(p)) => FindCutoff(row) = 0
  /\ \A p \in Parts : ~ TooMuch /\ IsMedian(p) /\ (\A j \in Parts : IsMedian(j) => j = p)
       => FindCutoff(row) = row[p]
<1> DEFINE median == {p \in Parts \ (Lower \cup Upper) :
                        /\ Cardinality(Less(row[p])) = PartNum \div 2
                        /\ \A j \in Parts \ {p} : row[j] # row[p]}
<1>1. FindCutoff(row) = IF TooMuch \/ median = {} THEN 0 ELSE row[CHOOSE p \in median : TRUE]
  BY DEF FindCutoff, Lower, Upper, Less, TooMuch
<1>2. \A p : p \in median <=> p \in Parts /\ IsMedian(p)
  BY DEF IsMedian
<1> HIDE DEF median
<1>3. ASSUME TooMuch \/ \A p \in Parts : ~ IsMedian(p)
      PROVE  FindCutoff(row) = 0
  BY <1>1, <1>2, <1>3
<1>4. ASSUME NEW p \in Parts, ~ TooMuch, IsMedian(p), \A j \in Parts : IsMedian(j) => j = p
      PROVE  FindCutoff(row) = row[p]
  <2>1. p \in median /\ \A j \in median : j = p
    BY <1>2, <1>4
  <2>2. (CHOOSE j \in median : TRUE) = p
    BY <2>1
  <2>3. QED
    BY <1>1, <1>4, <2>1, <2>2
<1>5. QED
  BY <1>3, <1>4

(* The filters together let nothing through twice or not at all.           *)
LEMMA FiltersCount ==
  ASSUME Types, k = PartNum
  PROVE  /\ Lower = Below(k) /\ Above(k) \subseteq Upper
         /\ Between(k) = Parts \ (Lower \cup Upper)
         /\ Between(k) # {} => Upper = Above(k)
<1>1. /\ PartNum \in Nat /\ LowerFilter \in Nat /\ UpperFilter \in Nat
      /\ \A p \in Parts : p < k /\ row[p] \in Nat
  BY SizeAssumption, PrfAssumption DEF Types, Parts
<1>2. QED
  BY <1>1 DEF Lower, Upper, Below, Above, Between

(* A row of which a filter takes half has no cutoff.                       *)
LEMMA GiveUpSelecting ==
  ASSUME Selecting, GiveUp
  PROVE  Selecting'
<1> USE DEF Selecting
<1>1. /\ Types /\ Counted /\ k = PartNum /\ FilteredTooMuch
      /\ pc' = "done" /\ result' = 0
      /\ UNCHANGED <<row, prfVals, k, LowerCnt, UpperCnt, MiddleCnt>>
  BY DEF GiveUp
<1>2. TooMuch
  <2>1. Lower = Below(k) /\ Above(k) \in SUBSET Upper /\ IsFiniteSet(Upper)
    BY <1>1, FiltersCount, PartsFinite DEF Upper
  <2>2. Cardinality(Above(k)) <= Cardinality(Upper)
    BY <2>1, FS_Subset
  <2>3. /\ Cardinality(Upper) \in Nat /\ Cardinality(Above(k)) \in Nat
        /\ PartNum \in Nat /\ PartNum \div 2 \in Nat
    BY <2>1, PartsFinite, SizeAssumption DEF Upper
  <2>4. QED
    BY <1>1, <2>1, <2>2, <2>3 DEF Counted, FilteredTooMuch, TooMuch
<1>3. FindCutoff(row) = 0
  BY <1>2, CutoffIs
<1>4. Types' /\ Counted' /\ MedianInPrefix' /\ ReturnsMedian'
  BY <1>1, <1>3 DEF Types, Counted, Below, Above, MedianInPrefix, ReturnsMedian
<1>5. QED
  BY <1>1, <1>4

(* A kept value has below it what the lower filter took and the kept       *)
(* values that are smaller.                                                *)
Smaller(j) == {l \in Kept : prfVals[l] < prfVals[j]}

(* The front of the array is part of the array, its sets are finite.       *)
LEMMA KeptFinite ==
  ASSUME Types, Counted
  PROVE  /\ Kept \subseteq Parts /\ Kept \subseteq Nat
         /\ \A S \in SUBSET Kept : IsFiniteSet(S) /\ Cardinality(S) \in Nat
<1>1. /\ PartNum \in Nat /\ MiddleCnt \in Nat /\ MiddleCnt <= PartNum
      /\ LowerCnt \in Nat /\ UpperCnt \in Nat /\ k \in Nat
  BY SizeAssumption DEF Types, Counted
<1>2. Kept \subseteq Parts /\ Kept \subseteq Nat
  BY <1>1 DEF Kept, Parts
<1>3. QED
  BY <1>2, PartsFinite

(* The rank of a kept value in the row is its rank among the kept ones and *)
(* the number of values below the filter.                                  *)
LEMMA LessThanKept ==
  ASSUME Types, Counted, k = PartNum, NEW h \in [Kept -> Parts], Gathers(h), NEW j \in Kept
  PROVE  Cardinality(Less(row[h[j]])) = LowerCnt + Cardinality(Smaller(j))
<1> DEFINE I == {h[l] : l \in Smaller(j)}
<1>1. /\ LowerFilter \in Nat /\ UpperFilter \in Nat
      /\ \A p \in Parts : row[p] \in Nat
      /\ \A l \in Kept : h[l] \in Between(k) /\ h[l] \in Parts /\ prfVals[l] = row[h[l]]
      /\ \A p \in Between(k) : \E l \in Kept : h[l] = p
  <2>1. \A p \in Between(k) : p \in Parts
    BY DEF Between
  <2>2. QED
    BY <2>1, PrfAssumption DEF Types, Gathers
<1>2. \A p \in Between(k) : row[p] >= LowerFilter /\ row[p] <= UpperFilter
  BY DEF Between
<1>3. \A p \in Parts : p \in Lower \/ p \in Upper \/ p \in Between(k)
  BY FiltersCount
<1>4. Less(row[h[j]]) = Lower \cup I
  <2>1. ASSUME NEW p \in Parts, row[p] < row[h[j]] PROVE p \in Lower \cup I
    <3>1. CASE p \in Lower
      BY <3>1
    <3>2. CASE p \in Upper
      BY <1>1, <1>2, <2>1, <3>2 DEF Upper
    <3>3. CASE p \in Between(k)
      BY <1>1, <2>1, <3>3 DEF Smaller
    <3>4. QED
      BY <1>3, <3>1, <3>2, <3>3
  <2>2. ASSUME NEW p \in Lower PROVE p \in Parts /\ row[p] < row[h[j]]
    BY <1>1, <1>2, <2>2 DEF Lower
  <2>3. ASSUME NEW p \in I PROVE p \in Parts /\ row[p] < row[h[j]]
    BY <1>1, <2>3 DEF Smaller
  <2>4. QED
    BY <2>1, <2>2, <2>3 DEF Less
<1>5. Lower \cap I = {}
  BY <1>1, <1>2 DEF Lower, Smaller
<1>6. Lower \in SUBSET Parts /\ I \in SUBSET Parts
  BY <1>1 DEF Lower, Smaller
<1>7. Cardinality(I) = Cardinality(Smaller(j))
  <2>1. Smaller(j) \in SUBSET Kept /\ IsFiniteSet(Smaller(j))
    BY KeptFinite DEF Smaller
  <2>2. \A l, m \in Kept : h[l] = h[m] => l = m
    BY DEF Gathers
  <2> HIDE DEF Smaller
  <2>3. QED
    BY <2>1, <2>2, ImageSize
<1>8. Lower = Below(k)
  BY FiltersCount
<1>9. QED
  BY <1>4, <1>5, <1>6, <1>7, <1>8, DisjointSize DEF Counted

(* As many kept values lie before the median's place as the place says;    *)
(* only the value there has so many below it.                              *)
LEMMA MedianPlace ==
  ASSUME Types, Counted, MedianPlaced, Median \in Kept, Median \in Nat,
         NEW j \in Kept, Cardinality(Smaller(j)) = Median
  PROVE  prfVals[j] = prfVals[Median]
<1>1. /\ \A l \in Kept : l \in Nat /\ prfVals[l] \in Nat
      /\ Kept = 0 .. MiddleCnt - 1 /\ MiddleCnt \in Nat
  BY KeptFinite DEF Types, Kept
<1>2. Smaller(j) \subseteq Kept /\ IsFiniteSet(Smaller(j))
  BY KeptFinite DEF Smaller
<1>3. ASSUME prfVals[j] > prfVals[Median] PROVE FALSE
  <2>1. \A l \in 0 .. Median : l \in Kept /\ prfVals[l] <= prfVals[Median]
    BY <1>1 DEF MedianPlaced
  <2>2. 0 .. Median \in SUBSET Smaller(j)
    BY <1>1, <1>3, <2>1 DEF Smaller
  <2>3. Cardinality(0 .. Median) = Median + 1
    BY FS_Interval
  <2>4. Cardinality(0 .. Median) <= Cardinality(Smaller(j))
    BY <1>2, <2>2, FS_Subset
  <2>5. QED
    BY <2>3, <2>4
<1>4. ASSUME prfVals[j] < prfVals[Median] PROVE FALSE
  <2>1. j \in 0 .. Median - 1
    BY <1>1, <1>4 DEF MedianPlaced
  <2>2. Smaller(j) \in SUBSET ((0 .. Median - 1) \ {j})
    BY <1>1, <1>4 DEF Smaller, MedianPlaced
  <2>3. IsFiniteSet(0 .. Median - 1) /\ Cardinality(0 .. Median - 1) = Median
    BY Initial
  <2>4. /\ IsFiniteSet((0 .. Median - 1) \ {j})
        /\ Cardinality((0 .. Median - 1) \ {j}) = Median - 1
    BY <2>1, <2>3, FS_RemoveElement
  <2>5. Cardinality(Smaller(j)) <= Cardinality((0 .. Median - 1) \ {j})
    BY <2>2, <2>4, FS_Subset
  <2>6. QED
    BY <2>4, <2>5
<1>5. QED
  BY <1>1, <1>3, <1>4

(* The median's slot is cleared; the row has a cutoff unless the value is  *)
(* found again among those kept.                                           *)
LEMMA ScanReturns ==
  ASSUME Types, Counted, k = PartNum, MedianPlaced, ~ FilteredTooMuch, Median \in Kept, Median \in Nat,
         NEW h \in [Kept -> Parts], Gathers(h)
  PROVE  FindCutoff(row) = IF \E j \in Kept : j # Median /\ prfVals[j] = prfVals[Median]
                           THEN 0 ELSE prfVals[Median]
<1>1. /\ \A p \in Parts : row[p] \in Nat
      /\ \A l \in Kept : h[l] \in Between(k) /\ h[l] \in Parts /\ prfVals[l] = row[h[l]] /\ l \in Nat
      /\ \A p \in Between(k) : \E l \in Kept : h[l] = p
      /\ \A j, l \in Kept : h[j] = h[l] => j = l
  <2>1. \A p \in Between(k) : p \in Parts
    BY DEF Between
  <2>2. QED
    BY <2>1, KeptFinite DEF Types, Gathers
<1>2. /\ PartNum \in Nat /\ PartNum \div 2 \in Nat /\ LowerCnt \in Nat
      /\ Median = PartNum \div 2 - LowerCnt
  BY SizeAssumption DEF Types, Median
<1>3. /\ Between(k) = Parts \ (Lower \cup Upper)
      /\ Lower = Below(k) /\ Upper = Above(k)
  BY <1>1, FiltersCount
<1>4. ~ TooMuch
  BY <1>3 DEF TooMuch, Counted, FilteredTooMuch
<1>5. \A j \in Kept : Cardinality(Less(row[h[j]])) = LowerCnt + Cardinality(Smaller(j))
                      /\ Cardinality(Smaller(j)) \in Nat
  <2>1. \A j \in Kept : Smaller(j) \in SUBSET Kept
    BY DEF Smaller
  <2>2. QED
    BY <2>1, KeptFinite, LessThanKept
<1>6. ASSUME NEW p \in Parts, IsMedian(p)
      PROVE  p = h[Median]
  <2>1. PICK j \in Kept : h[j] = p
    BY <1>1, <1>3, <1>6 DEF IsMedian
  <2>2. Cardinality(Smaller(j)) = Median
    BY <1>2, <1>5, <1>6, <2>1 DEF IsMedian
  <2>3. prfVals[j] = prfVals[Median]
    BY <2>2, MedianPlace
  <2>4. QED
    BY <1>1, <1>6, <2>1, <2>3 DEF IsMedian
<1>7. CASE \E j \in Kept : j # Median /\ prfVals[j] = prfVals[Median]
  <2>1. ~ IsMedian(h[Median])
    BY <1>1, <1>7 DEF IsMedian
  <2>2. \A p \in Parts : ~ IsMedian(p)
    BY <1>6, <2>1
  <2>3. QED
    BY <1>7, <2>2, CutoffIs
<1>8. CASE ~ \E j \in Kept : j # Median /\ prfVals[j] = prfVals[Median]
  <2>1. \A l \in Kept : prfVals[l] \in Nat
    BY <1>1
  <2>2. Smaller(Median) = 0 .. Median - 1
    <3>1. /\ MiddleCnt \in Nat /\ Median < MiddleCnt
          /\ \A l : l \in Kept <=> l \in Nat /\ l < MiddleCnt
      BY DEF Kept, Types
    <3>2. \A l \in Kept : l < Median => prfVals[l] < prfVals[Median]
      BY <1>8, <2>1, <3>1 DEF MedianPlaced
    <3>3. \A l \in Kept : l >= Median => ~ prfVals[l] < prfVals[Median]
      BY <2>1, <3>1 DEF MedianPlaced
    <3>4. \A l : l \in 0 .. Median - 1 <=> l \in Kept /\ l < Median
      BY <3>1
    <3>5. \A l \in Kept : l < Median \/ l >= Median
      BY <3>1
    <3>6. QED
      BY <3>2, <3>3, <3>4, <3>5 DEF Smaller
  <2>3. Cardinality(Less(row[h[Median]])) = PartNum \div 2
    BY <1>2, <1>5, <2>2, Initial
  <2>4. \A j \in Parts \ {h[Median]} : row[j] # row[h[Median]]
    <3>1. ASSUME NEW j \in Parts \ {h[Median]}, row[j] = row[h[Median]] PROVE FALSE
      <4>1. j \in Between(k)
        BY <1>1, <1>2, <3>1 DEF Between, Parts
      <4>2. PICK l \in Kept : h[l] = j
        BY <1>1, <4>1
      <4>3. QED
        BY <1>1, <1>8, <3>1, <4>2
    <3>2. QED
      BY <3>1
  <2>5. IsMedian(h[Median])
    BY <1>1, <1>3, <2>3, <2>4 DEF IsMedian
  <2>6. FindCutoff(row) = row[h[Median]]
    BY <1>1, <1>4, <1>6, <2>5, CutoffIs
  <2>7. QED
    BY <1>1, <1>8, <2>6
<1>9. QED
  BY <1>7, <1>8

(* Looking for a second median keeps the invariant.                        *)
LEMMA ScanSelecting ==
  ASSUME Selecting, Scan
  PROVE  Selecting'
<1> USE DEF Selecting
<1>1. /\ Types /\ Counted /\ Gathered /\ MedianPlaced /\ k = PartNum /\ ~ FilteredTooMuch
      /\ pc' = "done" /\ UNCHANGED <<row, k, LowerCnt, UpperCnt, MiddleCnt>>
      /\ prfVals' = [prfVals EXCEPT ![Median] = 0]
      /\ result' = IF \E j \in Kept : [prfVals EXCEPT ![Median] = 0][j] = prfVals[Median]
                   THEN 0 ELSE prfVals[Median]
  BY DEF Scan
<1>2. Median \in Kept /\ Median \in Nat /\ Kept \subseteq Parts
  BY <1>1, MedianKept, KeptFinite DEF Counted
<1>3. /\ prfVals \in [Parts -> Nat] /\ prfVals[Median] \in Nat
      /\ \A j \in Kept : [prfVals EXCEPT ![Median] = 0][j] = IF j = Median THEN 0 ELSE prfVals[j]
  BY <1>1, <1>2 DEF Types
<1>4. PICK h \in [Kept -> Parts] : Gathers(h)
  BY <1>1 DEF Gathered
<1>5. FindCutoff(row) = IF \E j \in Kept : j # Median /\ prfVals[j] = prfVals[Median]
                        THEN 0 ELSE prfVals[Median]
  BY <1>1, <1>2, <1>4, ScanReturns
<1>6. result' = FindCutoff(row)
  BY <1>1, <1>2, <1>3, <1>5
<1>7. Types' /\ Counted'
  BY <1>1, <1>2, <1>3 DEF Types, Counted, Below, Above
<1>8. MedianInPrefix' /\ ReturnsMedian'
  BY <1>1, <1>6 DEF MedianInPrefix, ReturnsMedian
<1>9. QED
  BY <1>1, <1>7, <1>8

-----------------------------------------------------------------------------
(* Every step of FindCutoff keeps the invariant.                           *)
LEMMA SelectingNext == Selecting /\ [CutoffNext]_cutoffVars => Selecting'
<1> SUFFICES ASSUME Selecting, [CutoffNext]_cutoffVars PROVE Selecting'
  OBVIOUS
<1>1. CASE Filter
  BY <1>1, FilterSelecting
<1>2. CASE GiveUp
  BY <1>2, GiveUpSelecting
<1>3. CASE NthElement
  BY <1>3, NthElementSelecting
<1>4. CASE Scan
  BY <1>4, ScanSelecting
<1>5. CASE UNCHANGED cutoffVars
  <2> USE <1>5 DEF cutoffVars
  <2>1. Types' = Types /\ Counted' = Counted
    BY DEF Types, Counted, Below, Above
  <2>2. Kept' = Kept /\ Median' = Median /\ FilteredTooMuch' = FilteredTooMuch
    BY DEF Kept, Median, FilteredTooMuch
  <2>3. Gathered' = Gathered
    BY <2>2 DEF Gathered, Gathers, Between
  <2>4. MedianPlaced' = MedianPlaced
    BY <2>2 DEF MedianPlaced
  <2>5. MedianInPrefix' = MedianInPrefix /\ ReturnsMedian' = ReturnsMedian
    BY <2>2 DEF MedianInPrefix, ReturnsMedian
  <2>6. QED
    BY <2>1, <2>2, <2>3, <2>4, <2>5 DEF Selecting
<1>6. QED
  BY <1>1, <1>2, <1>3, <1>4, <1>5 DEF CutoffNext, Returned

(* utils.cpp, FindCutoff: at every point of the loop the front of the      *)
(* array holds the values between the filters, and what is still to be     *)
(* read is as it was given.                                                *)
THEOREM AlwaysSelecting == CutoffConstants /\ CutoffSpec => []Selecting
BY SelectingInit, SelectingNext, PTL DEF CutoffSpec

(* utils.cpp, FindCutoff: for a row of any length, any values and any      *)
(* filters, what the loop returns is the median of the row as it was       *)
(* given, or 0 when a filter took half of it or the median occurs twice.   *)
THEOREM LoopReturnsMedian == CutoffConstants /\ CutoffSpec => []ReturnsMedian
<1>1. Selecting => ReturnsMedian
  BY DEF Selecting
<1>2. QED
  BY <1>1, AlwaysSelecting, PTL

(* utils.cpp, FindCutoff: moving a value never overwrites one that has     *)
(* still to be read, and the median's place lies among the values kept.    *)
THEOREM MedianAlwaysInPrefix == CutoffConstants /\ CutoffSpec => []MedianInPrefix
<1>1. Selecting => MedianInPrefix
  BY DEF Selecting
<1>2. QED
  BY <1>1, AlwaysSelecting, PTL

=============================================================================
