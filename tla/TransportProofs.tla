---------------------------- MODULE TransportProofs ----------------------------
(***************************************************************************)
(* Batches arrive as they were sent however send() and recv() cut the      *)
(* stream up: what is on the wire is always the next piece of one stream   *)
(* of frames, and parsing a payload undoes packing it.                     *)
(***************************************************************************)
EXTENDS Transport, SequenceTheorems, WellFoundedInduction, TLAPS

(* The least of a set of numbers, for arguments by least counterexample.   *)
LessOnNat == {pair \in Nat \X Nat : pair[1] < pair[2]}

(* Every nonempty set of naturals has a least member.                      *)
LEMMA LeastOf ==
  ASSUME NEW T, T \subseteq Nat, T # {}
  PROVE  \E m \in T : \A l \in T : m <= l
<1>1. IsWellFoundedOn(LessOnNat, Nat)
  BY NatLessThanWellFounded DEF OpToRel, LessOnNat
<1>2. PICK m \in T : \A l \in T : ~ (<<l, m>> \in LessOnNat)
  BY <1>1, WFMin
<1>3. \A l \in T : ~ (l < m)
  BY <1>2 DEF LessOnNat
<1> QED
  BY <1>3

(* A function on 0 .. N given by its first value and a step exists.        *)
Iterates(U, S, b, N, step) ==
  /\ U \in [0 .. N -> S]
  /\ U[0] = b
  /\ \A m \in 1 .. N : U[m] = step[m][U[m - 1]]

(* A function given by its first value and a step for each next one        *)
(* exists, by the least place where it would not.                          *)
LEMMA IterationExists ==
  ASSUME NEW S, NEW b \in S, NEW N \in Nat, NEW step \in [1 .. N -> [S -> S]]
  PROVE  \E U : Iterates(U, S, b, N, step)
<1> DEFINE Bad == {m \in 0 .. N : ~ \E U : Iterates(U, S, b, m, step)}
<1> SUFFICES ASSUME Bad # {} PROVE FALSE
  OBVIOUS
<1>1. Bad \subseteq Nat
  OBVIOUS
<1>2. PICK m \in Bad : \A l \in Bad : m <= l
  <2> HIDE DEF Bad
  <2> QED
    BY <1>1, LeastOf
<1>3. m \in 0 .. N /\ ~ \E U : Iterates(U, S, b, m, step)
  OBVIOUS
<1>4. CASE m = 0
  <2> DEFINE V == [l \in 0 .. 0 |-> b]
  <2>1. V \in [0 .. 0 -> S] /\ V[0] = b
    OBVIOUS
  <2>2. Iterates(V, S, b, 0, step)
    BY <2>1 DEF Iterates
  <2> QED
    BY <1>3, <1>4, <2>2
<1>5. CASE m # 0
  <2>1. m - 1 \in 0 .. N /\ ~ (m <= m - 1) /\ m \in 1 .. N /\ m \in Nat
    BY <1>3, <1>5
  <2>2. PICK U : Iterates(U, S, b, m - 1, step)
    BY <1>2, <2>1
  <2> HIDE DEF Bad
  <2>3. U \in [0 .. m - 1 -> S] /\ U[0] = b /\ \A l \in 1 .. m - 1 : U[l] = step[l][U[l - 1]]
    BY <2>2 DEF Iterates
  <2> DEFINE V == [l \in 0 .. m |-> IF l = m THEN step[m][U[m - 1]] ELSE U[l]]
  <2>4. U[m - 1] \in S
    BY <2>1, <2>3
  <2>5. step[m][U[m - 1]] \in S
    BY <2>1, <2>4
  <2>6. \A l \in 0 .. m : V[l] \in S
    BY <2>1, <2>3, <2>5
  <2>7. V \in [0 .. m -> S]
    BY <2>6
  <2>8. V[0] = b
    BY <2>1, <2>3
  <2>9. ASSUME NEW l \in 1 .. m PROVE V[l] = step[l][V[l - 1]]
    <3>1. V[l - 1] = U[l - 1]
      BY <2>1
    <3>2. CASE l = m
      BY <2>1, <3>1, <3>2
    <3>3. CASE l # m
      <4>1. l \in 1 .. m - 1 /\ V[l] = U[l]
        BY <2>1, <3>3
      <4> QED
        BY <2>3, <3>1, <4>1
    <3> QED
      BY <3>2, <3>3
  <2>10. Iterates(V, S, b, m, step)
    BY <2>7, <2>8, <2>9 DEF Iterates
  <2> QED
    BY <1>3, <2>10
<1> QED
  BY <1>4, <1>5

(* The concatenations of a first piece and the first m of further pieces.  *)
Concats(U, C, first, pieces, N) ==
  /\ U \in [0 .. N -> Seq(C)]
  /\ U[0] = first
  /\ \A m \in 1 .. N : U[m] = U[m - 1] \o pieces[m]

(* The concatenations of a list of pieces exist,                           *)
LEMMA ConcatsExist ==
  ASSUME NEW C, NEW first \in Seq(C), NEW N \in Nat, NEW pieces \in [1 .. N -> Seq(C)]
  PROVE  \E U : Concats(U, C, first, pieces, N)
<1> DEFINE step == [m \in 1 .. N |-> [s \in Seq(C) |-> s \o pieces[m]]]
<1>1. \A m \in 1 .. N, s \in Seq(C) : s \o pieces[m] \in Seq(C)
  <2> SUFFICES ASSUME NEW m \in 1 .. N, NEW s \in Seq(C) PROVE s \o pieces[m] \in Seq(C)
    OBVIOUS
  <2>1. pieces[m] \in Seq(C)
    OBVIOUS
  <2> QED
    BY <2>1, ConcatProperties
<1>2. step \in [1 .. N -> [Seq(C) -> Seq(C)]]
  <2> SUFFICES ASSUME NEW m \in 1 .. N PROVE [s \in Seq(C) |-> s \o pieces[m]] \in [Seq(C) -> Seq(C)]
    OBVIOUS
  <2> QED
    BY <1>1
<1>3. \A m \in 1 .. N, s \in Seq(C) : step[m][s] = s \o pieces[m]
  OBVIOUS
<1> HIDE DEF step
<1>4. PICK U : Iterates(U, Seq(C), first, N, step)
  BY <1>2, IterationExists
<1>5. U \in [0 .. N -> Seq(C)] /\ U[0] = first /\ \A m \in 1 .. N : U[m] = step[m][U[m - 1]]
  BY <1>4 DEF Iterates
<1>6. \A m \in 1 .. N : U[m] = U[m - 1] \o pieces[m]
  <2> SUFFICES ASSUME NEW m \in 1 .. N PROVE U[m] = U[m - 1] \o pieces[m]
    OBVIOUS
  <2>1. m - 1 \in 0 .. N
    OBVIOUS
  <2>2. U[m - 1] \in Seq(C)
    BY <1>5, <2>1
  <2> QED
    BY <1>3, <1>5, <2>2
<1> QED
  BY <1>5, <1>6 DEF Concats

(* Each is a prefix of the later ones, and the next piece follows it.      *)
Follows(U, pieces, m) ==
  /\ Len(U[m]) = Len(U[m - 1]) + Len(pieces[m])
  /\ \A j \in 1 .. Len(U[m - 1]) : U[m][j] = U[m - 1][j]
  /\ \A j \in 1 .. Len(pieces[m]) : U[m][Len(U[m - 1]) + j] = pieces[m][j]

(* each is the one before it and a piece more,                             *)
LEMMA ConcatsGrow ==
  ASSUME NEW C, NEW first, NEW N \in Nat, NEW pieces \in [1 .. N -> Seq(C)],
         NEW U, Concats(U, C, first, pieces, N)
  PROVE  /\ \A m \in 0 .. N : U[m] \in Seq(C) /\ Len(U[m]) \in Nat
         /\ \A m \in 1 .. N : Follows(U, pieces, m)
<1>1. \A m \in 0 .. N : U[m] \in Seq(C)
  BY DEF Concats
<1>2. \A m \in 0 .. N : Len(U[m]) \in Nat
  BY <1>1, LenProperties
<1>3. ASSUME NEW m \in 1 .. N
      PROVE  Follows(U, pieces, m)
  <2>1. m - 1 \in 0 .. N /\ pieces[m] \in Seq(C) /\ U[m] = U[m - 1] \o pieces[m]
    BY DEF Concats
  <2> DEFINE s == U[m - 1]
             p == pieces[m]
  <2>2. s \in Seq(C) /\ p \in Seq(C) /\ U[m] = s \o p
    BY <1>1, <2>1
  <2> HIDE DEF s, p
  <2>3. /\ Len(U[m]) = Len(s) + Len(p)
        /\ \A j \in 1 .. Len(s) : U[m][j] = s[j]
        /\ \A j \in 1 .. Len(p) : U[m][Len(s) + j] = p[j]
    <3>1. /\ Len(s \o p) = Len(s) + Len(p) /\ Len(s) \in Nat /\ Len(p) \in Nat
          /\ \A j \in 1 .. Len(s) + Len(p) :
               (s \o p)[j] = IF j <= Len(s) THEN s[j] ELSE p[j - Len(s)]
      BY <2>2, ConcatProperties, LenProperties
    <3>2. \A j \in 1 .. Len(s) : (s \o p)[j] = s[j]
      BY <3>1
    <3>3. \A j \in 1 .. Len(p) : (s \o p)[Len(s) + j] = p[j]
      BY <3>1
    <3> QED
      BY <2>2, <3>1, <3>2, <3>3
  <2> QED
    BY <2>3 DEF s, p, Follows
<1> QED
  BY <1>1, <1>2, <1>3

Begins(U, i, m) == /\ Len(U[i]) <= Len(U[m])
                   /\ \A j \in 1 .. Len(U[i]) : U[m][j] = U[i][j]

(* and begins with every earlier one.                                      *)
LEMMA ConcatsPrefix ==
  ASSUME NEW C, NEW first, NEW N \in Nat, NEW pieces \in [1 .. N -> Seq(C)],
         NEW U, Concats(U, C, first, pieces, N), NEW i \in 0 .. N
  PROVE  \A m \in 0 .. N : i <= m => Begins(U, i, m)
<1> DEFINE Bad == {m \in 0 .. N : i <= m /\ ~ Begins(U, i, m)}
<1> SUFFICES ASSUME Bad # {} PROVE FALSE
  OBVIOUS
<1>1. Bad \subseteq Nat
  OBVIOUS
<1>2. PICK m \in Bad : \A l \in Bad : m <= l
  <2> HIDE DEF Bad
  <2> QED
    BY <1>1, LeastOf
<1>3. m \in 0 .. N /\ i <= m /\ ~ Begins(U, i, m)
  OBVIOUS
<1>4. \A l \in 0 .. N : Len(U[l]) \in Nat
  BY ConcatsGrow
<1>5. m # i
  BY <1>3, <1>4 DEF Begins
<1>6. m \in 1 .. N /\ m - 1 \in 0 .. N /\ i <= m - 1 /\ ~ (m <= m - 1)
  BY <1>3, <1>5
<1>7. Begins(U, i, m - 1)
  BY <1>2, <1>6
<1> HIDE DEF Bad
<1>8. Follows(U, pieces, m)
  BY <1>6, ConcatsGrow
<1>9. /\ Len(U[m]) = Len(U[m - 1]) + Len(pieces[m])
      /\ \A j \in 1 .. Len(U[m - 1]) : U[m][j] = U[m - 1][j]
  BY <1>8 DEF Follows
<1>10. Len(pieces[m]) \in Nat /\ Len(U[m]) \in Nat /\ Len(U[m - 1]) \in Nat /\ Len(U[i]) \in Nat
  BY <1>4, <1>6, LenProperties
<1>11. Begins(U, i, m)
  <2> DEFINE s == U[m]
             p == U[m - 1]
             f == U[i]
  <2>1. /\ Len(f) <= Len(p) /\ \A j \in 1 .. Len(f) : p[j] = f[j]
        /\ Len(s) = Len(p) + Len(pieces[m]) /\ \A j \in 1 .. Len(p) : s[j] = p[j]
        /\ Len(pieces[m]) \in Nat /\ Len(s) \in Nat /\ Len(p) \in Nat /\ Len(f) \in Nat
    BY <1>7, <1>9, <1>10 DEF Begins
  <2> HIDE DEF s, p, f
  <2>2. Len(f) <= Len(s) /\ \A j \in 1 .. Len(f) : s[j] = f[j]
    BY <2>1
  <2> QED
    BY <2>2 DEF s, f, Begins
<1> QED
  BY <1>3, <1>11

(* What the recursive definition of a payload defines. *)
ConcatenatesFrom(V, first, pieces, N) ==
  V = [m \in 0 .. N |-> IF m = 0 THEN first ELSE V[m - 1] \o pieces[m]]

(* The recursive function of the model is these concatenations,            *)
LEMMA ConcatenatesIsConcats ==
  ASSUME NEW C, NEW first \in Seq(C), NEW N \in Nat, NEW pieces \in [1 .. N -> Seq(C)],
         NEW V, ConcatenatesFrom(V, first, pieces, N)
  PROVE  Concats(V, C, first, pieces, N)
<1>1. V = [m \in 0 .. N |-> IF m = 0 THEN first ELSE V[m - 1] \o pieces[m]]
  BY DEF ConcatenatesFrom
<1>2. V[0] = first /\ \A m \in 1 .. N : V[m] = V[m - 1] \o pieces[m]
  <2>1. 0 \in 0 .. N
    OBVIOUS
  <2>2. V[0] = first
    BY <1>1, <2>1
  <2>3. ASSUME NEW m \in 1 .. N PROVE V[m] = V[m - 1] \o pieces[m]
    <3>1. m \in 0 .. N /\ m # 0
      OBVIOUS
    <3> QED
      BY <1>1, <3>1
  <2> QED
    BY <2>2, <2>3
<1> DEFINE Bad == {m \in 0 .. N : V[m] \notin Seq(C)}
<1>3. Bad = {}
  <2> SUFFICES ASSUME Bad # {} PROVE FALSE
    OBVIOUS
  <2>1. Bad \subseteq Nat
    OBVIOUS
  <2>2. PICK m \in Bad : \A l \in Bad : m <= l
    <3> HIDE DEF Bad
    <3> QED
      BY <2>1, LeastOf
  <2>3. m \in 0 .. N /\ V[m] \notin Seq(C)
    OBVIOUS
  <2>4. m # 0
    BY <1>2, <2>3
  <2>5. m \in 1 .. N /\ m - 1 \in 0 .. N /\ ~ (m <= m - 1)
    BY <2>3, <2>4
  <2>6. V[m - 1] \in Seq(C) /\ pieces[m] \in Seq(C)
    BY <2>2, <2>5
  <2>7. V[m - 1] \o pieces[m] \in Seq(C)
    BY <2>6, ConcatProperties
  <2> QED
    BY <1>2, <2>3, <2>5, <2>7
<1>4. V \in [0 .. N -> Seq(C)]
  <2>1. \A m \in 0 .. N : V[m] \in Seq(C)
    BY <1>3
  <2> DEFINE g == [m \in 0 .. N |-> IF m = 0 THEN first ELSE V[m - 1] \o pieces[m]]
  <2>2. V = g /\ g = [m \in 0 .. N |-> g[m]]
    BY <1>1
  <2> HIDE DEF g
  <2>3. \A m \in 0 .. N : g[m] \in Seq(C)
    BY <2>1, <2>2
  <2> QED
    BY <2>2, <2>3
<1> QED
  BY <1>2, <1>4 DEF Concats

(* and exists.                                                             *)
LEMMA ConcatenatesExists ==
  ASSUME NEW C, NEW first \in Seq(C), NEW N \in Nat, NEW pieces \in [1 .. N -> Seq(C)]
  PROVE  \E V : ConcatenatesFrom(V, first, pieces, N)
<1>1. PICK U : Concats(U, C, first, pieces, N)
  BY ConcatsExist
<1>2. U \in [0 .. N -> Seq(C)] /\ U[0] = first /\ \A m \in 1 .. N : U[m] = U[m - 1] \o pieces[m]
  BY <1>1 DEF Concats
<1> DEFINE g == [m \in 0 .. N |-> IF m = 0 THEN first ELSE U[m - 1] \o pieces[m]]
<1>3. \A m \in 0 .. N : U[m] = g[m]
  <2> SUFFICES ASSUME NEW m \in 0 .. N PROVE U[m] = g[m]
    OBVIOUS
  <2>1. CASE m = 0
    BY <1>2, <2>1
  <2>2. CASE m # 0
    <3>1. m \in 1 .. N
      BY <2>2
    <3> QED
      BY <1>2, <2>2, <3>1
  <2> QED
    BY <2>1, <2>2
<1>4. g = [m \in 0 .. N |-> g[m]] /\ U = [m \in 0 .. N |-> U[m]]
  BY <1>2
<1> HIDE DEF g
<1>5. U = g
  BY <1>3, <1>4
<1> QED
  BY <1>5 DEF g, ConcatenatesFrom

-----------------------------------------------------------------------------
(* Packing and parsing one query. *)

(* Where bit k is: bit k % 8 of byte k / 8.                                *)
LEMMA BitPlace ==
  ASSUME TransportConstants, NEW pn \in Nat
  PROVE  /\ ByteCount(pn) \in Nat
         /\ \A k \in 0 .. pn - 1 :
              /\ (k \div ByteBits) + 1 \in 1 .. ByteCount(pn)
              /\ k % ByteBits \in 0 .. ByteBits - 1
              /\ ByteBits * (k \div ByteBits) + (k % ByteBits) = k
<1> DEFINE B == ByteBits
<1>1. B \in Nat /\ B > 0
  BY DEF TransportConstants
<1>2. \A x \in Int : /\ x \div B \in Int /\ x % B \in Int
                     /\ x = B * (x \div B) + (x % B) /\ 0 <= x % B /\ x % B < B
  BY <1>1
<1>3. \A x, y \in Int : B * x \in Int /\ (x < y => B * x + B <= B * y)
  BY <1>1
<1> DEFINE c == (pn + B - 1) \div B
           m == (pn + B - 1) % B
<1>4. c \in Int /\ m \in Int /\ pn + B - 1 = B * c + m /\ m < B
  BY <1>1, <1>2
<1>5. ByteCount(pn) = c
  BY DEF ByteCount
<1> HIDE DEF B, c, m
<1>6. c >= 0
  <2> SUFFICES ASSUME c < 0 PROVE FALSE
    BY <1>4
  <2>1. B * c + B <= B * 0 /\ B * 0 = 0 /\ B * c \in Int
    BY <1>1, <1>3, <1>4
  <2> QED
    BY <1>1, <1>4, <2>1
<1>7. ASSUME NEW k \in 0 .. pn - 1
      PROVE  /\ (k \div B) + 1 \in 1 .. c /\ k % B \in 0 .. B - 1
             /\ B * (k \div B) + (k % B) = k
  <2> DEFINE q == k \div B
             r == k % B
  <2>1. q \in Int /\ r \in Int /\ k = B * q + r /\ 0 <= r /\ r < B /\ k \in Nat /\ k < pn
    BY <1>2
  <2> HIDE DEF q, r
  <2>2. B * q \in Int /\ B * c \in Int
    BY <1>3, <1>4, <2>1
  <2>3. q >= 0
    <3> SUFFICES ASSUME q < 0 PROVE FALSE
      BY <2>1
    <3>1. B * q + B <= B * 0 /\ B * 0 = 0
      BY <1>1, <1>3, <2>1
    <3> QED
      BY <1>1, <2>1, <2>2, <3>1
  <2>4. q < c
    <3> SUFFICES ASSUME ~ (q < c) PROVE FALSE
      OBVIOUS
    <3>1. c = q \/ B * c + B <= B * q
      BY <1>3, <1>4, <2>1
    <3>2. B * c <= B * q
      BY <1>1, <2>2, <3>1
    <3> QED
      BY <1>1, <1>4, <2>1, <2>2, <3>2
  <2>5. q + 1 \in 1 .. c /\ r \in 0 .. B - 1 /\ B * q + r = k
    BY <1>1, <1>4, <2>1, <2>3, <2>4
  <2> QED
    BY <2>5 DEF q, r
<1> QED
  BY <1>4, <1>5, <1>6, <1>7 DEF B

(* Four sequences one behind the other. *)
InARow(s, S, a, b, c, d) ==
  /\ s \in Seq(S)
  /\ Len(s) = Len(a) + Len(b) + Len(c) + Len(d)
  /\ \A j \in 1 .. Len(a) : s[j] = a[j]
  /\ \A j \in 1 .. Len(b) : s[Len(a) + j] = b[j]
  /\ \A j \in 1 .. Len(c) : s[Len(a) + Len(b) + j] = c[j]
  /\ \A j \in 1 .. Len(d) : s[Len(a) + Len(b) + Len(c) + j] = d[j]

(* The places of four sequences, one after the other.                      *)
LEMMA FourParts ==
  ASSUME NEW S, NEW a \in Seq(S), NEW b \in Seq(S), NEW c \in Seq(S), NEW d \in Seq(S)
  PROVE  InARow(a \o b \o c \o d, S, a, b, c, d)
<1>1. Len(a) \in Nat /\ Len(b) \in Nat /\ Len(c) \in Nat /\ Len(d) \in Nat
  BY LenProperties
<1> DEFINE ab   == a \o b
           abc  == ab \o c
           abcd == abc \o d
<1>2. /\ ab \in Seq(S) /\ Len(ab) = Len(a) + Len(b)
      /\ \A j \in 1 .. Len(a) + Len(b) : ab[j] = IF j <= Len(a) THEN a[j] ELSE b[j - Len(a)]
  BY ConcatProperties
<1> HIDE DEF ab
<1>10. ab \in Seq(S)
  BY <1>2
<1>3. /\ abc \in Seq(S) /\ Len(abc) = Len(ab) + Len(c)
      /\ \A j \in 1 .. Len(ab) + Len(c) : abc[j] = IF j <= Len(ab) THEN ab[j] ELSE c[j - Len(ab)]
  BY <1>10, ConcatProperties
<1> HIDE DEF abc
<1>11. abc \in Seq(S)
  BY <1>3
<1>4. /\ abcd \in Seq(S) /\ Len(abcd) = Len(abc) + Len(d)
      /\ \A j \in 1 .. Len(abc) + Len(d) : abcd[j] = IF j <= Len(abc) THEN abc[j] ELSE d[j - Len(abc)]
  BY <1>11, ConcatProperties
<1> HIDE DEF abcd
<1>5. /\ abcd \in Seq(S)
      /\ Len(abcd) = Len(a) + Len(b) + Len(c) + Len(d)
  BY <1>1, <1>2, <1>3, <1>4
<1>6. \A j \in 1 .. Len(a) : abcd[j] = a[j]
  BY <1>1, <1>2, <1>3, <1>4
<1>7. \A j \in 1 .. Len(b) : abcd[Len(a) + j] = b[j]
  <2> SUFFICES ASSUME NEW j \in 1 .. Len(b) PROVE abcd[Len(a) + j] = b[j]
    OBVIOUS
  <2> DEFINE l == Len(a) + j
  <2>1. l \in Nat /\ 1 <= l /\ l <= Len(a) + Len(b) /\ ~ (l <= Len(a)) /\ l - Len(a) = j
    BY <1>1
  <2> HIDE DEF l
  <2>2. abcd[l] = abc[l] /\ abc[l] = ab[l]
    BY <1>1, <1>2, <1>3, <1>4, <2>1
  <2>3. ab[l] = b[j]
    BY <1>1, <1>2, <2>1
  <2> QED
    BY <2>2, <2>3 DEF l
<1>8. \A j \in 1 .. Len(c) : abcd[Len(a) + Len(b) + j] = c[j]
  <2> SUFFICES ASSUME NEW j \in 1 .. Len(c) PROVE abcd[Len(a) + Len(b) + j] = c[j]
    OBVIOUS
  <2> DEFINE l == Len(a) + Len(b) + j
  <2>1. l \in Nat /\ 1 <= l /\ l <= Len(ab) + Len(c) /\ ~ (l <= Len(ab)) /\ l - Len(ab) = j
    BY <1>1, <1>2
  <2> HIDE DEF l
  <2>2. abcd[l] = abc[l]
    BY <1>1, <1>2, <1>3, <1>4, <2>1
  <2>3. abc[l] = c[j]
    BY <1>1, <1>2, <1>3, <2>1
  <2> QED
    BY <2>2, <2>3 DEF l
<1>9. \A j \in 1 .. Len(d) : abcd[Len(a) + Len(b) + Len(c) + j] = d[j]
  <2> SUFFICES ASSUME NEW j \in 1 .. Len(d) PROVE abcd[Len(a) + Len(b) + Len(c) + j] = d[j]
    OBVIOUS
  <2> DEFINE l == Len(a) + Len(b) + Len(c) + j
  <2>1. l \in Nat /\ 1 <= l /\ l <= Len(abc) + Len(d) /\ ~ (l <= Len(abc)) /\ l - Len(abc) = j
    BY <1>1, <1>2, <1>3
  <2> HIDE DEF l
  <2>2. abcd[l] = d[j]
    BY <1>1, <1>2, <1>3, <1>4, <2>1
  <2> QED
    BY <2>2 DEF l
<1> QED
  BY <1>5, <1>6, <1>7, <1>8, <1>9 DEF abcd, abc, ab, InARow

(* The cells of a packed query: its bytes of bits, its offsets, the size   *)
(* of its ciphertext and the ciphertext.                                   *)
QueryCells(pn, q, s) ==
  /\ s \in Seq(Cell)
  /\ Len(s) = FixedCells(pn) + Len(q.ciphertext)
  /\ \A j \in 1 .. ByteCount(pn) : s[j] = PackByte(pn, q.bvec, j - 1)
  /\ \A j \in 1 .. pn : s[ByteCount(pn) + j] = PackField(q.Svec[j - 1])
  /\ s[FixedCells(pn)] = PackField(Len(q.ciphertext))
  /\ \A j \in 1 .. Len(q.ciphertext) : s[FixedCells(pn) + j] = q.ciphertext[j]

(* A packed number is a cell with that value.                              *)
LEMMA FieldsAreCells ==
  /\ \A x \in Nat : PackField(x) \in Cell /\ PackField(x).value = x
  /\ Field \subseteq Cell
BY DEF PackField, Cell, Field

(* The parts of a query.                                                   *)
LEMMA QueryParts ==
  ASSUME NEW pn, NEW q \in QueryOf(pn)
  PROVE  /\ q.bvec \in [0 .. pn - 1 -> {0, 1}] /\ q.Svec \in [0 .. pn - 1 -> Nat]
         /\ q.ciphertext \in Seq(Field) /\ Len(q.ciphertext) \in Nat
         /\ q = [bvec |-> q.bvec, Svec |-> q.Svec, ciphertext |-> q.ciphertext]
<1>1. /\ q.bvec \in [0 .. pn - 1 -> {0, 1}] /\ q.Svec \in [0 .. pn - 1 -> Nat]
      /\ q.ciphertext \in Seq(Field)
      /\ q = [bvec |-> q.bvec, Svec |-> q.Svec, ciphertext |-> q.ciphertext]
  BY DEF QueryOf
<1> QED
  BY <1>1, LenProperties

(* What is where in a packed query.                                        *)
LEMMA PackedQuery ==
  ASSUME TransportConstants, NEW pn \in Nat, NEW q \in QueryOf(pn)
  PROVE  QueryCells(pn, q, PackQuery(pn, q))
<1>1. /\ q.bvec \in [0 .. pn - 1 -> {0, 1}] /\ q.Svec \in [0 .. pn - 1 -> Nat]
      /\ q.ciphertext \in Seq(Field) /\ Len(q.ciphertext) \in Nat
  BY QueryParts
<1> DEFINE a == [j \in 1 .. ByteCount(pn) |-> PackByte(pn, q.bvec, j - 1)]
           b == [j \in 1 .. pn |-> PackField(q.Svec[j - 1])]
           c == <<PackField(Len(q.ciphertext))>>
           d == q.ciphertext
<1>2. ByteCount(pn) \in Nat
  BY BitPlace
<1>3. \A j \in 1 .. ByteCount(pn) : PackByte(pn, q.bvec, j - 1) \in Cell
  <2> SUFFICES ASSUME NEW j \in 1 .. ByteCount(pn) PROVE PackByte(pn, q.bvec, j - 1) \in Cell
    OBVIOUS
  <2> DEFINE bit(i) == IF ByteBits * (j - 1) + i < pn THEN q.bvec[ByteBits * (j - 1) + i] ELSE 0
  <2>1. ASSUME NEW i \in 0 .. ByteBits - 1 PROVE bit(i) \in {0, 1}
    <3> DEFINE k == ByteBits * (j - 1) + i
    <3>1. k \in Nat
      <4>1. ByteBits \in Nat /\ j - 1 \in Nat /\ i \in Nat
        BY <1>2 DEF TransportConstants
      <4>2. ByteBits * (j - 1) \in Nat
        BY <4>1
      <4> QED
        BY <4>1, <4>2
    <3> HIDE DEF k
    <3>2. k < pn => q.bvec[k] \in {0, 1}
      BY <1>1, <3>1
    <3>3. (IF k < pn THEN q.bvec[k] ELSE 0) \in {0, 1}
      BY <3>2
    <3> QED
      BY <3>3 DEF k
  <2>2. PackByte(pn, q.bvec, j - 1) = [bits |-> [i \in 0 .. ByteBits - 1 |-> bit(i)]]
    BY DEF PackByte
  <2> HIDE DEF bit
  <2>3. [i \in 0 .. ByteBits - 1 |-> bit(i)] \in [0 .. ByteBits - 1 -> {0, 1}]
    BY <2>1
  <2> QED
    BY <2>2, <2>3 DEF Cell, Byte
<1>4. \A j \in 1 .. pn : PackField(q.Svec[j - 1]) \in Cell
  <2> SUFFICES ASSUME NEW j \in 1 .. pn PROVE PackField(q.Svec[j - 1]) \in Cell
    OBVIOUS
  <2>1. j - 1 \in 0 .. pn - 1
    OBVIOUS
  <2>2. q.Svec[j - 1] \in Nat
    BY <1>1, <2>1
  <2> QED
    BY <2>2, FieldsAreCells
<1>5. /\ a \in Seq(Cell) /\ Len(a) = ByteCount(pn)
      /\ \A j \in 1 .. ByteCount(pn) : a[j] = PackByte(pn, q.bvec, j - 1)
  BY <1>2, <1>3
<1>6. /\ b \in Seq(Cell) /\ Len(b) = pn
      /\ \A j \in 1 .. pn : b[j] = PackField(q.Svec[j - 1])
  BY <1>4
<1>7. c \in Seq(Cell) /\ Len(c) = 1 /\ c[1] = PackField(Len(q.ciphertext))
  <2>1. PackField(Len(q.ciphertext)) \in Cell
    BY <1>1, FieldsAreCells
  <2> QED
    BY <2>1
<1>8. d \in Seq(Cell)
  BY <1>1, FieldsAreCells
<1>9. PackQuery(pn, q) = a \o b \o c \o d
  BY DEF PackQuery
<1> HIDE DEF a, b, c, d
<1> DEFINE s == a \o b \o c \o d
<1>18. a \in Seq(Cell) /\ b \in Seq(Cell) /\ c \in Seq(Cell) /\ d \in Seq(Cell)
  BY <1>5, <1>6, <1>7, <1>8
<1>19. InARow(s, Cell, a, b, c, d)
  BY <1>18, FourParts
<1> HIDE DEF s
<1>10. /\ s \in Seq(Cell)
       /\ Len(s) = Len(a) + Len(b) + Len(c) + Len(d)
       /\ \A j \in 1 .. Len(a) : s[j] = a[j]
       /\ \A j \in 1 .. Len(b) : s[Len(a) + j] = b[j]
       /\ \A j \in 1 .. Len(c) : s[Len(a) + Len(b) + j] = c[j]
       /\ \A j \in 1 .. Len(d) : s[Len(a) + Len(b) + Len(c) + j] = d[j]
  BY <1>19 DEF InARow
<1>11. PackQuery(pn, q) = s
  BY <1>9 DEF s
<1>12. FixedCells(pn) = ByteCount(pn) + pn + 1
  BY DEF FixedCells
<1>13. Len(s) = FixedCells(pn) + Len(d)
  BY <1>5, <1>6, <1>7, <1>10, <1>12
<1>14. \A j \in 1 .. ByteCount(pn) : s[j] = PackByte(pn, q.bvec, j - 1)
  BY <1>5, <1>10
<1>15. \A j \in 1 .. pn : s[ByteCount(pn) + j] = PackField(q.Svec[j - 1])
  BY <1>5, <1>6, <1>10
<1>16. s[FixedCells(pn)] = PackField(Len(q.ciphertext))
  <2>1. s[ByteCount(pn) + pn + 1] = c[1]
    BY <1>5, <1>6, <1>7, <1>10
  <2> QED
    BY <1>7, <1>12, <2>1
<1>17. \A j \in 1 .. Len(d) : s[FixedCells(pn) + j] = d[j]
  BY <1>5, <1>6, <1>7, <1>10, <1>12
<1> QED
  BY <1>10, <1>11, <1>13, <1>14, <1>15, <1>16, <1>17 DEF QueryCells, d

(* Reading a query back where it was packed gives the query.               *)
LEMMA ReadBack ==
  ASSUME TransportConstants, NEW pn \in Nat, NEW q \in QueryOf(pn),
         NEW s, QueryCells(pn, q, s), NEW p \in Seq(Cell), NEW o \in Nat,
         o + Len(s) <= Len(p), \A j \in 1 .. Len(s) : p[o + j] = s[j]
  PROVE  LET fixed == o + FixedCells(pn)
         IN  /\ fixed \in Nat /\ fixed <= Len(p)
             /\ p[fixed].value = Len(q.ciphertext)
             /\ fixed + Len(q.ciphertext) = o + Len(s)
             /\ UnpackBits(pn, p, o) = q.bvec
             /\ UnpackOffsets(pn, p, o) = q.Svec
             /\ SubSeq(p, fixed + 1, fixed + Len(q.ciphertext)) = q.ciphertext
<1> DEFINE bc == ByteCount(pn)
           fc == FixedCells(pn)
           ct == q.ciphertext
<1>1. /\ q.bvec \in [0 .. pn - 1 -> {0, 1}] /\ q.Svec \in [0 .. pn - 1 -> Nat]
      /\ ct \in Seq(Field) /\ Len(ct) \in Nat
  BY QueryParts
<1>2. /\ s \in Seq(Cell) /\ Len(s) = fc + Len(ct)
      /\ \A j \in 1 .. bc : s[j] = PackByte(pn, q.bvec, j - 1)
      /\ \A j \in 1 .. pn : s[bc + j] = PackField(q.Svec[j - 1])
      /\ s[fc] = PackField(Len(ct))
      /\ \A j \in 1 .. Len(ct) : s[fc + j] = ct[j]
  BY DEF QueryCells
<1>3. bc \in Nat /\ fc = bc + pn + 1 /\ Len(p) \in Nat
  BY BitPlace, LenProperties DEF FixedCells
<1> HIDE DEF bc, fc, ct
<1>4. fc \in Nat /\ fc >= 1 /\ o + fc \in Nat /\ o + fc <= Len(p) /\ (o + fc) + Len(ct) = o + Len(s)
  BY <1>1, <1>2, <1>3
<1>5. p[o + fc].value = Len(ct)
  <2>1. fc \in 1 .. Len(s)
    BY <1>1, <1>2, <1>4
  <2>2. p[o + fc] = PackField(Len(ct))
    BY <1>2, <2>1
  <2> QED
    BY <1>1, <2>2, FieldsAreCells
<1>6. UnpackBits(pn, p, o) = q.bvec
  <2>1. ASSUME NEW k \in 0 .. pn - 1
        PROVE  p[o + (k \div ByteBits) + 1].bits[k % ByteBits] = q.bvec[k]
    <3> DEFINE d == k \div ByteBits
               i == k % ByteBits
    <3>1. d + 1 \in 1 .. bc /\ i \in 0 .. ByteBits - 1 /\ ByteBits * d + i = k
      BY BitPlace DEF bc
    <3>2. k < pn /\ k \in Nat /\ d \in Int
      <4>1. ByteBits \in Nat /\ ByteBits > 0
        BY DEF TransportConstants
      <4> QED
        BY <4>1
    <3> HIDE DEF d, i
    <3>3. d + 1 \in 1 .. Len(s) /\ (d + 1) - 1 = d
      BY <1>1, <1>2, <1>3, <3>1, <3>2
    <3>4. p[o + (d + 1)] = PackByte(pn, q.bvec, (d + 1) - 1)
      BY <1>2, <3>1, <3>3
    <3>5. o + (d + 1) = o + d + 1
      BY <3>2
    <3>6. p[o + d + 1] = PackByte(pn, q.bvec, d)
      BY <3>3, <3>4, <3>5
    <3>7. PackByte(pn, q.bvec, d).bits[i] =
            IF ByteBits * d + i < pn THEN q.bvec[ByteBits * d + i] ELSE 0
      BY <3>1 DEF PackByte
    <3>8. PackByte(pn, q.bvec, d).bits[i] = q.bvec[k]
      BY <3>1, <3>2, <3>7
    <3> QED
      BY <3>6, <3>8 DEF d, i
  <2> DEFINE g(k) == p[o + (k \div ByteBits) + 1].bits[k % ByteBits]
  <2>2. UnpackBits(pn, p, o) = [k \in 0 .. pn - 1 |-> g(k)] /\ \A k \in 0 .. pn - 1 : g(k) = q.bvec[k]
    BY <2>1 DEF UnpackBits
  <2> HIDE DEF g
  <2>3. q.bvec = [k \in 0 .. pn - 1 |-> q.bvec[k]]
    BY <1>1
  <2> QED
    BY <2>2, <2>3
<1>7. UnpackOffsets(pn, p, o) = q.Svec
  <2>1. ASSUME NEW k \in 0 .. pn - 1 PROVE p[o + bc + k + 1].value = q.Svec[k]
    <3>1. k + 1 \in 1 .. pn /\ (k + 1) - 1 = k /\ bc + (k + 1) \in 1 .. Len(s)
          /\ o + (bc + (k + 1)) = o + bc + k + 1
      BY <1>1, <1>2, <1>3
    <3>2. s[bc + (k + 1)] = PackField(q.Svec[(k + 1) - 1])
      BY <1>2, <3>1
    <3>3. p[o + (bc + (k + 1))] = s[bc + (k + 1)]
      BY <3>1
    <3>4. p[o + bc + k + 1] = PackField(q.Svec[k])
      BY <3>1, <3>2, <3>3
    <3>5. q.Svec[k] \in Nat
      BY <1>1
    <3> QED
      BY <3>4, <3>5, FieldsAreCells
  <2> DEFINE g(k) == p[o + bc + k + 1].value
  <2>2. UnpackOffsets(pn, p, o) = [k \in 0 .. pn - 1 |-> g(k)] /\ \A k \in 0 .. pn - 1 : g(k) = q.Svec[k]
    BY <2>1 DEF UnpackOffsets, bc
  <2> HIDE DEF g
  <2>3. q.Svec = [k \in 0 .. pn - 1 |-> q.Svec[k]]
    BY <1>1
  <2> QED
    BY <2>2, <2>3
<1>8. SubSeq(p, (o + fc) + 1, (o + fc) + Len(ct)) = ct
  <2> DEFINE f == o + fc
             l == Len(ct)
             u == SubSeq(p, f + 1, f + l)
  <2>1. f \in Nat /\ l \in Nat /\ f + l <= Len(p)
    BY <1>1, <1>2, <1>4
  <2>2. \A j \in 1 .. l : p[f + j] = ct[j]
    <3> SUFFICES ASSUME NEW j \in 1 .. l PROVE p[f + j] = ct[j]
      OBVIOUS
    <3>1. fc + j \in 1 .. Len(s) /\ o + (fc + j) = f + j
      BY <1>1, <1>2, <1>4
    <3>2. p[o + (fc + j)] = s[fc + j] /\ s[fc + j] = ct[j]
      BY <1>2, <3>1
    <3> QED
      BY <3>1, <3>2
  <2> HIDE DEF f, l
  <2>3. u = [j \in 1 .. l |-> p[f + j]]
    BY <1>3, <2>1
  <2>4. ct = [j \in 1 .. l |-> ct[j]]
    BY <1>1 DEF l
  <2>5. u = ct
    <3> HIDE DEF u
    <3> QED
      BY <2>2, <2>3, <2>4
  <2> QED
    BY <2>5 DEF f, l
<1> QED
  BY <1>4, <1>5, <1>6, <1>7, <1>8 DEF fc, ct

-----------------------------------------------------------------------------
(* Payloads, and the stream they make. *)
Pieces(pn, batch) == [m \in 1 .. Len(batch) |-> PackQuery(pn, batch[m])]

(* A payload is the concatenation of its packed queries behind their       *)
(* number.                                                                 *)
LEMMA PackedConcats ==
  ASSUME TransportConstants, NEW pn \in Nat, NEW batch \in Seq(QueryOf(pn))
  PROVE  /\ Len(batch) \in Nat /\ PackField(Len(batch)) \in Cell
         /\ Pieces(pn, batch) \in [1 .. Len(batch) -> Seq(Cell)]
         /\ \A m \in 1 .. Len(batch) : /\ batch[m] \in QueryOf(pn)
                                       /\ Pieces(pn, batch)[m] = PackQuery(pn, batch[m])
                                       /\ QueryCells(pn, batch[m], PackQuery(pn, batch[m]))
         /\ Concats(Packed(pn, batch), Cell, <<PackField(Len(batch))>>, Pieces(pn, batch), Len(batch))
<1>1. Len(batch) \in Nat /\ \A m \in 1 .. Len(batch) : batch[m] \in QueryOf(pn)
  BY LenProperties
<1>2. PackField(Len(batch)) \in Cell
  BY <1>1, FieldsAreCells
<1>3. <<PackField(Len(batch))>> \in Seq(Cell)
  BY <1>2
<1>4. \A m \in 1 .. Len(batch) : QueryCells(pn, batch[m], PackQuery(pn, batch[m]))
  BY <1>1, PackedQuery
<1>5. \A m \in 1 .. Len(batch) : PackQuery(pn, batch[m]) \in Seq(Cell)
  BY <1>4 DEF QueryCells
<1>6. /\ Pieces(pn, batch) \in [1 .. Len(batch) -> Seq(Cell)]
      /\ \A m \in 1 .. Len(batch) : Pieces(pn, batch)[m] = PackQuery(pn, batch[m])
  BY <1>5 DEF Pieces
<1> DEFINE first == <<PackField(Len(batch))>>
           N     == Len(batch)
           P     == Pieces(pn, batch)
           packed == CHOOSE V : V = [m \in 0 .. N |-> IF m = 0 THEN first
                                                     ELSE V[m - 1] \o PackQuery(pn, batch[m])]
<1>7. Packed(pn, batch) = packed
  BY DEF Packed
<1>8. \A V : ConcatenatesFrom(V, first, P, N)
               <=> V = [m \in 0 .. N |-> IF m = 0 THEN first ELSE V[m - 1] \o PackQuery(pn, batch[m])]
  <2> SUFFICES ASSUME NEW V
               PROVE  [m \in 0 .. N |-> IF m = 0 THEN first ELSE V[m - 1] \o P[m]]
                        = [m \in 0 .. N |-> IF m = 0 THEN first ELSE V[m - 1] \o PackQuery(pn, batch[m])]
    BY Zenon DEF ConcatenatesFrom
  <2> HIDE DEF P, first
  <2>1. \A m \in 0 .. N : m = 0 \/ m \in 1 .. N
    BY <1>1
  <2>2. \A m \in 0 .. N : m = 0 \/ P[m] = PackQuery(pn, batch[m])
    BY <1>6, <2>1 DEF P
  <2> DEFINE f(m) == IF m = 0 THEN first ELSE V[m - 1] \o P[m]
             g(m) == IF m = 0 THEN first ELSE V[m - 1] \o PackQuery(pn, batch[m])
  <2>3. \A m \in 0 .. N : f(m) = g(m)
    BY <2>2, Zenon
  <2> HIDE DEF f, g
  <2>4. [m \in 0 .. N |-> f(m)] = [m \in 0 .. N |-> g(m)]
    BY <2>3
  <2> QED
    BY <2>4 DEF f, g
<1>9. \E V : ConcatenatesFrom(V, first, P, N)
  BY <1>1, <1>3, <1>6, ConcatenatesExists
<1>10. ConcatenatesFrom(packed, first, P, N)
  <2>1. \E V : V = [m \in 0 .. N |-> IF m = 0 THEN first ELSE V[m - 1] \o PackQuery(pn, batch[m])]
    BY <1>8, <1>9, Zenon
  <2>2. packed = [m \in 0 .. N |-> IF m = 0 THEN first ELSE packed[m - 1] \o PackQuery(pn, batch[m])]
    BY <2>1, Zenon
  <2> HIDE DEF packed
  <2> QED
    BY <1>8, <2>2, Zenon
<1> HIDE DEF packed
<1>11. Concats(packed, Cell, first, P, N)
  <2> HIDE DEF first, P, N
  <2>1. first \in Seq(Cell) /\ N \in Nat /\ P \in [1 .. N -> Seq(Cell)]
    BY <1>1, <1>3, <1>6 DEF first, P, N
  <2> QED
    BY <1>10, <2>1, ConcatenatesIsConcats
<1> QED
  BY <1>1, <1>2, <1>4, <1>6, <1>7, <1>11

(* The cells of a payload: its number of queries, then each query where    *)
(* the one before ends.                                                    *)
PackedTo(pn, batch, m) == Len(Packed(pn, batch)[m])
QueryAtPlace(pn, batch, m) ==
  LET s == PackQuery(pn, batch[m + 1])
  IN  /\ PackedTo(pn, batch, m + 1) = PackedTo(pn, batch, m) + Len(s)
      /\ \A j \in 1 .. Len(s) : PackBatch(pn, batch)[PackedTo(pn, batch, m) + j] = s[j]

(* In a payload, each query begins where the ones before it end, and the   *)
(* last one ends with the payload.                                         *)
LEMMA Payload ==
  ASSUME TransportConstants, NEW pn \in Nat, NEW batch \in Seq(QueryOf(pn))
  PROVE  /\ PackBatch(pn, batch) \in Seq(Cell)
         /\ PackBatch(pn, batch)[1] = PackField(Len(batch))
         /\ PackedTo(pn, batch, 0) = 1 /\ PackedTo(pn, batch, Len(batch)) = Len(PackBatch(pn, batch))
         /\ \A m \in 0 .. Len(batch) : /\ PackedTo(pn, batch, m) \in Nat
                                       /\ 1 <= PackedTo(pn, batch, m)
                                       /\ PackedTo(pn, batch, m) <= Len(PackBatch(pn, batch))
         /\ \A m \in 0 .. Len(batch) - 1 : QueryAtPlace(pn, batch, m)
<1> DEFINE first == <<PackField(Len(batch))>>
           N == Len(batch)
           P == Pieces(pn, batch)
           U == Packed(pn, batch)
<1>1. /\ N \in Nat /\ P \in [1 .. N -> Seq(Cell)] /\ Concats(U, Cell, first, P, N)
      /\ \A m \in 1 .. N : P[m] = PackQuery(pn, batch[m])
  BY PackedConcats
<1>2. Len(first) = 1 /\ first[1] = PackField(N)
  OBVIOUS
<1>3. PackBatch(pn, batch) = U[N]
  BY DEF PackBatch
<1> HIDE DEF first, P, U, N
<1>4. \A m \in 0 .. N : U[m] \in Seq(Cell) /\ Len(U[m]) \in Nat
  BY <1>1, ConcatsGrow
<1>5. U[0] = first
  BY <1>1 DEF Concats
<1>6. \A i, m \in 0 .. N : i <= m => /\ Len(U[i]) <= Len(U[m])
                                     /\ \A j \in 1 .. Len(U[i]) : U[m][j] = U[i][j]
  <2>1. \A i, m \in 0 .. N : i <= m => Begins(U, i, m)
    BY <1>1, ConcatsPrefix
  <2> QED
    BY <2>1 DEF Begins
<1>7. 0 \in 0 .. N /\ N \in 0 .. N /\ \A m \in 0 .. N : 0 <= m /\ m <= N
  BY <1>1
<1>8. U[N] \in Seq(Cell) /\ U[N][1] = PackField(N)
  <2>1. 1 \in 1 .. Len(U[0])
    BY <1>2, <1>5
  <2>2. U[N][1] = U[0][1]
    BY <1>6, <1>7, <2>1
  <2> QED
    BY <1>2, <1>4, <1>5, <1>7, <2>2
<1>9. \A m \in 0 .. N : Len(U[m]) \in Nat /\ 1 <= Len(U[m]) /\ Len(U[m]) <= Len(U[N])
  <2>1. Len(U[0]) = 1
    BY <1>2, <1>5
  <2>2. \A m \in 0 .. N : Len(U[0]) <= Len(U[m]) /\ Len(U[m]) <= Len(U[N])
    BY <1>6, <1>7
  <2> QED
    BY <1>4, <2>1, <2>2
<1>10. ASSUME NEW m \in 0 .. N - 1 PROVE QueryAtPlace(pn, batch, m)
  <2> DEFINE s == PackQuery(pn, batch[m + 1])
             a == Len(U[m])
             b == Len(U[m + 1])
  <2>1. m \in 0 .. N /\ m + 1 \in 1 .. N /\ m + 1 \in 0 .. N /\ (m + 1) - 1 = m
    BY <1>1
  <2>2. Follows(U, P, m + 1)
    BY <1>1, <2>1, ConcatsGrow
  <2>3. P[m + 1] = s /\ P[m + 1] \in Seq(Cell)
    BY <1>1, <2>1
  <2> HIDE DEF s
  <2>4. b = a + Len(s) /\ \A j \in 1 .. Len(s) : U[m + 1][a + j] = s[j]
    BY <2>1, <2>2, <2>3 DEF Follows
  <2>5. a \in Nat /\ b \in Nat /\ Len(s) \in Nat
    BY <1>4, <2>1, <2>3, LenProperties
  <2>6. \A j \in 1 .. b : U[N][j] = U[m + 1][j]
    BY <1>6, <1>7, <2>1
  <2> HIDE DEF a, b
  <2>7. \A j \in 1 .. Len(s) : a + j \in 1 .. b
    BY <2>4, <2>5
  <2>8. \A j \in 1 .. Len(s) : U[N][a + j] = s[j]
    BY <2>4, <2>6, <2>7
  <2> QED
    BY <1>3, <2>4, <2>8 DEF QueryAtPlace, PackedTo, s, a, b, U
<1> QED
  BY <1>2, <1>3, <1>5, <1>8, <1>9, <1>10 DEF PackedTo, U, N

(* The stream: a frame per batch, its payload behind the payload's size.   *)
Frame(pn, batch)  == <<PackField(Len(PackBatch(pn, batch)))>> \o PackBatch(pn, batch)
Frames(pn, bs)    == [m \in 1 .. Len(bs) |-> Frame(pn, bs[m])]
Stream(pn, bs)    == CHOOSE U : Concats(U, Cell, << >>, Frames(pn, bs), Len(bs))
UpTo(pn, bs, m)   == Len(Stream(pn, bs)[m])
Cells(pn, bs)     == Stream(pn, bs)[Len(bs)]
FrameAt(pn, bs, m) ==
  LET p == PackBatch(pn, bs[m + 1])
  IN  /\ bs[m + 1] \in Seq(QueryOf(pn)) /\ p \in Seq(Cell) /\ Len(p) \in Nat /\ Len(p) >= 1
      /\ UpTo(pn, bs, m + 1) = UpTo(pn, bs, m) + 1 + Len(p)
      /\ Cells(pn, bs)[UpTo(pn, bs, m) + 1] = PackField(Len(p))
      /\ \A j \in 1 .. Len(p) : Cells(pn, bs)[UpTo(pn, bs, m) + 1 + j] = p[j]

(* In the stream, each frame begins where the ones before it end.          *)
LEMMA StreamOfFrames ==
  ASSUME TransportConstants, NEW pn \in Nat, NEW bs \in Seq(Seq(QueryOf(pn)))
  PROVE  /\ Len(bs) \in Nat /\ Cells(pn, bs) \in Seq(Cell)
         /\ UpTo(pn, bs, 0) = 0 /\ UpTo(pn, bs, Len(bs)) = Len(Cells(pn, bs))
         /\ \A m \in 0 .. Len(bs) : UpTo(pn, bs, m) \in Nat /\ UpTo(pn, bs, m) <= Len(Cells(pn, bs))
         /\ \A m \in 0 .. Len(bs) - 1 : FrameAt(pn, bs, m)
<1> DEFINE N == Len(bs)
           P == Frames(pn, bs)
           U == Stream(pn, bs)
<1>1. N \in Nat /\ \A m \in 1 .. N : bs[m] \in Seq(QueryOf(pn))
  BY LenProperties
<1>2. ASSUME NEW m \in 1 .. N
      PROVE  LET p == PackBatch(pn, bs[m])
             IN  /\ p \in Seq(Cell) /\ Len(p) \in Nat /\ Len(p) >= 1
                 /\ Frame(pn, bs[m]) \in Seq(Cell) /\ Len(Frame(pn, bs[m])) = Len(p) + 1
                 /\ Frame(pn, bs[m])[1] = PackField(Len(p))
                 /\ \A j \in 1 .. Len(p) : Frame(pn, bs[m])[1 + j] = p[j]
  <2> DEFINE p == PackBatch(pn, bs[m])
             f == <<PackField(Len(p))>>
  <2>1. bs[m] \in Seq(QueryOf(pn))
    BY <1>1
  <2>2. Len(bs[m]) \in Nat
    BY <2>1, LenProperties
  <2>3. p \in Seq(Cell) /\ 1 <= Len(p)
    <3>1. 0 \in 0 .. Len(bs[m])
      BY <2>2
    <3> QED
      BY <2>1, <3>1, Payload
  <2>4. Frame(pn, bs[m]) = f \o p
    BY DEF Frame
  <2> HIDE DEF p
  <2>5. Len(p) \in Nat
    BY <2>3, LenProperties
  <2>6. f \in Seq(Cell) /\ Len(f) = 1 /\ f[1] = PackField(Len(p))
    <3>1. PackField(Len(p)) \in Cell
      BY <2>5, FieldsAreCells
    <3> QED
      BY <3>1
  <2> HIDE DEF f
  <2>7. p \in Seq(Cell) /\ f \in Seq(Cell)
    BY <2>3, <2>6
  <2>8. /\ f \o p \in Seq(Cell) /\ Len(f \o p) = Len(f) + Len(p)
        /\ \A j \in 1 .. Len(f) + Len(p) : (f \o p)[j] = IF j <= Len(f) THEN f[j] ELSE p[j - Len(f)]
    BY <2>7, ConcatProperties
  <2> DEFINE g == f \o p
  <2>9. /\ g \in Seq(Cell) /\ Len(g) = Len(f) + Len(p)
        /\ \A j \in 1 .. Len(f) + Len(p) : g[j] = IF j <= Len(f) THEN f[j] ELSE p[j - Len(f)]
    BY <2>8
  <2>10. Frame(pn, bs[m]) = g
    BY <2>4
  <2> HIDE DEF g
  <2>11. g \in Seq(Cell) /\ Len(g) = Len(p) + 1 /\ g[1] = PackField(Len(p))
    BY <2>5, <2>6, <2>9
  <2>12. \A j \in 1 .. Len(p) : g[1 + j] = p[j]
    BY <2>5, <2>6, <2>9
  <2> QED
    BY <2>3, <2>5, <2>10, <2>11, <2>12 DEF p
<1>3. P \in [1 .. N -> Seq(Cell)] /\ \A m \in 1 .. N : P[m] = Frame(pn, bs[m])
  BY <1>2 DEF Frames
<1>4. Concats(U, Cell, << >>, P, N)
  <2>1. << >> \in Seq(Cell)
    OBVIOUS
  <2> HIDE DEF N, P
  <2>2. \E V : Concats(V, Cell, << >>, P, N)
    BY <1>1, <1>3, <2>1, ConcatsExist
  <2> QED
    BY <2>2, Zenon DEF Stream, N, P
<1> HIDE DEF N, P, U
<1>5. \A m \in 0 .. N : U[m] \in Seq(Cell) /\ Len(U[m]) \in Nat
  BY <1>1, <1>3, <1>4, ConcatsGrow
<1>6. U[0] = << >> /\ Len(U[0]) = 0
  BY <1>4 DEF Concats
<1>7. \A i, m \in 0 .. N : i <= m => /\ Len(U[i]) <= Len(U[m])
                                     /\ \A j \in 1 .. Len(U[i]) : U[m][j] = U[i][j]
  <2>1. \A i, m \in 0 .. N : i <= m => Begins(U, i, m)
    BY <1>1, <1>3, <1>4, ConcatsPrefix
  <2> QED
    BY <2>1 DEF Begins
<1>8. N \in 0 .. N /\ \A m \in 0 .. N : m <= N
  BY <1>1
<1>9. ASSUME NEW m \in 0 .. N - 1 PROVE FrameAt(pn, bs, m)
  <2> DEFINE p == PackBatch(pn, bs[m + 1])
             f == Frame(pn, bs[m + 1])
             a == Len(U[m])
             b == Len(U[m + 1])
  <2>1. m \in 0 .. N /\ m + 1 \in 1 .. N /\ m + 1 \in 0 .. N /\ (m + 1) - 1 = m
    BY <1>1
  <2>2. Follows(U, P, m + 1)
    BY <1>1, <1>3, <1>4, <2>1, ConcatsGrow
  <2>3. P[m + 1] = f
    BY <1>3, <2>1
  <2>4. /\ p \in Seq(Cell) /\ Len(p) \in Nat /\ Len(p) >= 1
        /\ f \in Seq(Cell) /\ Len(f) = Len(p) + 1 /\ f[1] = PackField(Len(p))
        /\ \A j \in 1 .. Len(p) : f[1 + j] = p[j]
    BY <1>2, <2>1
  <2>5. bs[m + 1] \in Seq(QueryOf(pn))
    BY <1>1, <2>1
  <2> HIDE DEF p, f
  <2>6. b = a + Len(f) /\ \A j \in 1 .. Len(f) : U[m + 1][a + j] = f[j]
    BY <2>1, <2>2, <2>3 DEF Follows
  <2>7. a \in Nat /\ b \in Nat
    BY <1>5, <2>1
  <2>8. \A j \in 1 .. b : U[N][j] = U[m + 1][j]
    BY <1>7, <1>8, <2>1
  <2> HIDE DEF a, b
  <2>9. \A j \in 1 .. Len(f) : U[N][a + j] = f[j]
    <3>1. \A j \in 1 .. Len(f) : a + j \in 1 .. b
      BY <2>4, <2>6, <2>7
    <3> QED
      BY <2>6, <2>8, <3>1
  <2>10. b = a + 1 + Len(p)
    BY <2>4, <2>6, <2>7
  <2>11. U[N][a + 1] = PackField(Len(p))
    <3>1. 1 \in 1 .. Len(f)
      BY <2>4
    <3> QED
      BY <2>4, <2>9, <3>1
  <2>12. \A j \in 1 .. Len(p) : U[N][a + 1 + j] = p[j]
    <3> SUFFICES ASSUME NEW j \in 1 .. Len(p) PROVE U[N][a + 1 + j] = p[j]
      OBVIOUS
    <3>1. 1 + j \in 1 .. Len(f) /\ a + (1 + j) = a + 1 + j
      BY <2>4, <2>7
    <3> QED
      BY <2>4, <2>9, <3>1
  <2> QED
    BY <2>4, <2>5, <2>10, <2>11, <2>12 DEF FrameAt, UpTo, Cells, a, b, p, U, N
<1> QED
  BY <1>1, <1>5, <1>6, <1>7, <1>8, <1>9 DEF UpTo, Cells, U, N

-----------------------------------------------------------------------------
(* Where sender and receiver are in the stream. *)
Payloads(m) == PackBatch(PartNum, batches[m + 1])
Place(m)    == UpTo(PartNum, batches, m)
Sized       == IF sending = "payload" THEN 1 ELSE 0
SentTo      == Place(n) + Sized + totalSent
Got         == CASE recving = "payload" -> 1 + Len(buf)
                 [] recving = "parse"   -> 1 + payloadSize
                 [] OTHER               -> 0
ReadTo      == Place(Len(delivered)) + Got

Loaded == PartNum \in Nat /\ batches \in Seq(Seq(QueryOf(PartNum))) /\ Len(batches) > 0

(* The sender is within the frame of batch n + 1, or has sent them all.    *)
Sending ==
  /\ totalSent \in Nat
  /\ \/ sending = "size" /\ n \in 0 .. Len(batches) - 1 /\ totalSent = 0
     \/ sending = "payload" /\ n \in 0 .. Len(batches) - 1 /\ totalSent < Len(Payloads(n))
     \/ sending = "idle" /\ n = Len(batches) /\ totalSent = 0
  /\ totalBytesSent = Place(n) + Sized

(* The receiver has the batches before, and of the frame it is within what *)
(* the sender packed.                                                      *)
HasSize ==
  /\ recving = "size" /\ buf = << >> /\ queries = << >>
  /\ totalBytesRecv = Place(Len(delivered))
HasPayload ==
  /\ recving = "payload" /\ queries = << >>
  /\ Len(delivered) < Len(batches)
  /\ LET p == Payloads(Len(delivered))
     IN  /\ payloadSize = Len(p)
         /\ buf \in Seq(Cell) /\ Len(buf) < Len(p)
         /\ \A j \in 1 .. Len(buf) : buf[j] = p[j]
  /\ totalBytesRecv = Place(Len(delivered)) + 1
Parses ==
  /\ recving = "parse"
  /\ Len(delivered) < Len(batches)
  /\ buf = Payloads(Len(delivered)) /\ payloadSize = Len(buf)
  /\ totalBytesRecv = Place(Len(delivered)) + 1 + payloadSize
  /\ LET batch == batches[Len(delivered) + 1]
     IN  /\ queries \in Seq(QueryOf(PartNum)) /\ Len(queries) <= Len(batch)
         /\ \A j \in 1 .. Len(queries) : queries[j] = batch[j]
         /\ off = PackedTo(PartNum, batch, Len(queries))
GaveUp ==
  /\ recving = "failed" /\ ~ open
  /\ Len(delivered) = Len(batches) => totalBytesRecv = Place(Len(delivered))

HandedOver ==
  /\ delivered \in Seq(Seq(QueryOf(PartNum))) /\ Len(delivered) <= Len(batches)
  /\ \A j \in 1 .. Len(delivered) : delivered[j] = batches[j]
Receiving == HandedOver /\ (HasSize \/ HasPayload \/ Parses \/ GaveUp)

(* On the wire is the piece of the stream between the two; only its end    *)
(* may be missing, once the sender is gone.                                *)
OnWire ==
  recving # "failed" =>
    /\ wire \in Seq(Cell)
    /\ ReadTo + Len(wire) <= SentTo
    /\ open => ReadTo + Len(wire) = SentTo
    /\ \A j \in 1 .. Len(wire) : wire[j] = Cells(PartNum, batches)[ReadTo + j]

Framed == Loaded /\ Sending /\ Receiving /\ OnWire

(* The same of the stream of the batches to be sent.                       *)
LEMMA StreamFacts ==
  ASSUME TransportConstants, Loaded
  PROVE  /\ PartNum \in Nat /\ Len(batches) \in Nat
         /\ Cells(PartNum, batches) \in Seq(Cell) /\ Len(Cells(PartNum, batches)) \in Nat
         /\ Place(0) = 0 /\ Place(Len(batches)) = Len(Cells(PartNum, batches))
         /\ \A m \in 0 .. Len(batches) : Place(m) \in Nat /\ Place(m) <= Len(Cells(PartNum, batches))
<1>1. PartNum \in Nat /\ batches \in Seq(Seq(QueryOf(PartNum)))
  BY DEF Loaded
<1> QED
  BY <1>1, StreamOfFrames, LenProperties DEF Place

(* The frame of batch m + 1, in the terms of the invariant.                *)
LEMMA FrameFacts ==
  ASSUME TransportConstants, Loaded, NEW m \in Nat, m < Len(batches)
  PROVE  /\ batches[m + 1] \in Seq(QueryOf(PartNum))
         /\ Payloads(m) \in Seq(Cell) /\ Len(Payloads(m)) \in Nat /\ Len(Payloads(m)) >= 1
         /\ Place(m + 1) = Place(m) + 1 + Len(Payloads(m))
         /\ Cells(PartNum, batches)[Place(m) + 1] = PackField(Len(Payloads(m)))
         /\ \A j \in 1 .. Len(Payloads(m)) :
              Cells(PartNum, batches)[Place(m) + 1 + j] = Payloads(m)[j]
<1>1. PartNum \in Nat /\ batches \in Seq(Seq(QueryOf(PartNum)))
  BY DEF Loaded
<1>2. m \in 0 .. Len(batches) - 1
  BY StreamFacts
<1>3. FrameAt(PartNum, batches, m)
  BY <1>1, <1>2, StreamOfFrames
<1> QED
  BY <1>3 DEF FrameAt, Place, Payloads

(* What has been sent is within the stream.                                *)
LEMMA SentWithin ==
  ASSUME TransportConstants, Loaded, Sending
  PROVE  /\ SentTo \in Nat /\ SentTo <= Len(Cells(PartNum, batches))
         /\ n \in Nat /\ n <= Len(batches) /\ Place(n) \in Nat
<1>1. n \in Nat /\ n <= Len(batches)
  BY StreamFacts DEF Sending
<1>2. Place(n) \in Nat
  BY <1>1, StreamFacts
<1>3. Len(Cells(PartNum, batches)) \in Nat /\ \A m \in 0 .. Len(batches) : Place(m) <= Len(Cells(PartNum, batches))
  BY StreamFacts
<1>4. CASE sending = "idle"
  <2>1. SentTo = Place(n)
    BY <1>2, <1>4 DEF Sending, SentTo, Sized
  <2> QED
    BY <1>1, <1>2, <1>3, <2>1, StreamFacts
<1>5. CASE sending # "idle"
  <2>1. n < Len(batches) /\ n + 1 \in 0 .. Len(batches)
    BY <1>1, <1>5, StreamFacts DEF Sending
  <2>2. /\ Place(n + 1) = Place(n) + 1 + Len(Payloads(n))
        /\ Len(Payloads(n)) \in Nat /\ Len(Payloads(n)) >= 1
    BY <1>1, <2>1, FrameFacts
  <2>3. Place(n + 1) <= Len(Cells(PartNum, batches)) /\ Place(n + 1) \in Nat
    BY <2>1, StreamFacts
  <2>4. /\ Sized \in {0, 1} /\ totalSent \in Nat
        /\ Sized + totalSent <= Len(Payloads(n)) + 1
    BY <1>5, <2>2 DEF Sending, Sized
  <2>5. SentTo \in Nat /\ SentTo <= Place(n + 1)
    BY <1>2, <2>2, <2>4 DEF SentTo
  <2> QED
    BY <1>1, <1>2, <1>3, <2>3, <2>5
<1> QED
  BY <1>4, <1>5

(* What a step leaves alone.                                               *)
LEMMA LoadedKept ==
  ASSUME Loaded, PartNum' = PartNum, batches' = batches
  PROVE  Loaded' /\ Cells(PartNum, batches)' = Cells(PartNum, batches)
BY DEF Loaded

(* A step that leaves the sender alone keeps what is known of it,          *)
LEMMA SendingKept ==
  ASSUME Sending, PartNum' = PartNum, batches' = batches, UNCHANGED sender
  PROVE  Sending' /\ SentTo' = SentTo
BY DEF Sending, SentTo, Sized, Place, Payloads, sender

(* and one that leaves the receiver alone what is known of that.           *)
LEMMA ReceivingKept ==
  ASSUME Receiving, PartNum' = PartNum, batches' = batches, UNCHANGED receiver, open' => open
  PROVE  Receiving' /\ ReadTo' = ReadTo /\ recving' = recving
<1>1. /\ recving' = recving /\ buf' = buf /\ payloadSize' = payloadSize /\ off' = off
      /\ queries' = queries /\ delivered' = delivered /\ totalBytesRecv' = totalBytesRecv
  BY DEF receiver
<1>2. ReadTo' = ReadTo
  BY <1>1 DEF ReadTo, Got, Place
<1>3. HandedOver'
  BY <1>1 DEF Receiving, HandedOver
<1>4. CASE HasSize
  BY <1>1, <1>2, <1>3, <1>4 DEF Receiving, HasSize, Place
<1>5. CASE HasPayload
  BY <1>1, <1>2, <1>3, <1>5 DEF Receiving, HasPayload, Place, Payloads
<1>6. CASE Parses
  BY <1>1, <1>2, <1>3, <1>6 DEF Receiving, Parses, Place, Payloads
<1>7. CASE GaveUp
  <2>1. ~ open'
    BY <1>7 DEF GaveUp
  <2>2. GaveUp'
    BY <1>1, <1>7, <2>1 DEF GaveUp, Place
  <2> QED
    BY <1>1, <1>2, <1>3, <2>2 DEF Receiving
<1> QED
  BY <1>4, <1>5, <1>6, <1>7 DEF Receiving

(* The invariant holds when the connection is made.                        *)
LEMMA FramedInit == ASSUME TransportConstants, TransportInit PROVE Framed
<1>1. PICK c \in BatchChoices : PartNum = c.partNum /\ batches = c.batches
  BY DEF TransportInit
<1>2. Loaded
  BY <1>1 DEF TransportConstants, Loaded
<1>3. Place(0) = 0 /\ Len(batches) \in Nat /\ Len(batches) > 0
  BY <1>2, StreamFacts DEF Loaded
<1>4. Sending
  BY <1>3 DEF TransportInit, Sending, Sized
<1>5. /\ recving = "size" /\ buf = << >> /\ queries = << >> /\ delivered = << >> /\ wire = << >>
      /\ totalBytesRecv = 0 /\ totalSent = 0 /\ n = 0 /\ sending = "size"
  BY DEF TransportInit
<1>6. Len(delivered) = 0 /\ Len(wire) = 0 /\ delivered \in Seq(Seq(QueryOf(PartNum))) /\ wire \in Seq(Cell)
  BY <1>5
<1>7. HandedOver /\ HasSize
  BY <1>3, <1>5, <1>6 DEF HandedOver, HasSize
<1>8. ReadTo = 0 /\ SentTo = 0
  BY <1>3, <1>5, <1>6 DEF ReadTo, SentTo, Sized, Got
<1>9. OnWire
  BY <1>6, <1>8 DEF OnWire
<1> QED
  BY <1>2, <1>4, <1>7, <1>9 DEF Framed, Receiving

(* Cells appended to the wire by the sender, and taken off by the receiver, *)
(* keep it the piece of the stream between the two.                         *)
Between(w, stream, from) ==
  w \in Seq(Cell) /\ \A j \in 1 .. Len(w) : w[j] = stream[from + j]

(* A piece of the stream that grows at its end by the next cells,          *)
LEMMA BetweenAppends ==
  ASSUME NEW w, NEW d \in Seq(Cell), NEW stream, NEW from \in Nat, Between(w, stream, from),
         \A j \in 1 .. Len(d) : d[j] = stream[from + Len(w) + j]
  PROVE  Between(w \o d, stream, from) /\ Len(w \o d) = Len(w) + Len(d)
<1>1. w \in Seq(Cell) /\ \A j \in 1 .. Len(w) : w[j] = stream[from + j]
  BY DEF Between
<1>2. Len(w) \in Nat /\ Len(d) \in Nat
  BY <1>1, LenProperties
<1>3. w \in Seq(Cell)
  BY <1>1
<1> DEFINE s == w \o d
<1>4. /\ s \in Seq(Cell) /\ Len(s) = Len(w) + Len(d)
      /\ \A j \in 1 .. Len(w) + Len(d) : s[j] = IF j <= Len(w) THEN w[j] ELSE d[j - Len(w)]
  BY <1>3, ConcatProperties
<1> HIDE DEF s
<1>5. ASSUME NEW j \in 1 .. Len(s) PROVE s[j] = stream[from + j]
  <2>1. CASE j <= Len(w)
    <3>1. j \in 1 .. Len(w) /\ j \in 1 .. Len(w) + Len(d)
      BY <1>2, <1>4, <2>1
    <3> QED
      BY <1>1, <1>4, <2>1, <3>1
  <2>2. CASE ~ (j <= Len(w))
    <3> DEFINE i == j - Len(w)
    <3>1. i \in 1 .. Len(d) /\ from + Len(w) + i = from + j /\ j \in 1 .. Len(w) + Len(d)
      BY <1>2, <1>4, <2>2
    <3>2. s[j] = d[i]
      BY <1>4, <2>2, <3>1
    <3> HIDE DEF i
    <3>3. d[i] = stream[from + Len(w) + i]
      BY <3>1
    <3> QED
      BY <3>1, <3>2, <3>3
  <2> QED
    BY <2>1, <2>2
<1>6. Between(s, stream, from)
  BY <1>4, <1>5 DEF Between
<1> QED
  BY <1>4, <1>6 DEF s

(* and one that is taken from at its beginning, are pieces of the stream.  *)
LEMMA BetweenTakes ==
  ASSUME NEW w, NEW stream, NEW from \in Nat, Between(w, stream, from),
         NEW k \in Nat, k <= Len(w)
  PROVE  /\ Between(SubSeq(w, k + 1, Len(w)), stream, from + k)
         /\ Len(SubSeq(w, k + 1, Len(w))) = Len(w) - k
         /\ Between(SubSeq(w, 1, k), stream, from) /\ Len(SubSeq(w, 1, k)) = k
         /\ \A j \in 1 .. k : SubSeq(w, 1, k)[j] = w[j]
<1>1. w \in Seq(Cell) /\ \A j \in 1 .. Len(w) : w[j] = stream[from + j]
  BY DEF Between
<1>2. Len(w) \in Nat /\ \A j \in 1 .. Len(w) : w[j] \in Cell
  BY <1>1, LenProperties
<1> DEFINE a == SubSeq(w, k + 1, Len(w))
           b == SubSeq(w, 1, k)
<1>3. /\ a \in Seq(Cell) /\ Len(a) = Len(w) - k
      /\ \A j \in 1 .. Len(w) - k : a[j] = w[k + j]
  <2>1. \A j \in k + 1 .. Len(w) : w[j] \in Cell
    BY <1>2
  <2>2. k + 1 \in Int /\ Len(w) \in Int
    BY <1>2
  <2>3. /\ a \in Seq(Cell) /\ Len(a) = IF k + 1 <= Len(w) THEN Len(w) - (k + 1) + 1 ELSE 0
        /\ \A j \in 1 .. Len(w) - (k + 1) + 1 : a[j] = w[k + 1 + j - 1]
    BY <2>1, <2>2, SubSeqProperties
  <2> HIDE DEF a
  <2>4. \A j \in 1 .. Len(w) - k : j \in 1 .. Len(w) - (k + 1) + 1 /\ k + 1 + j - 1 = k + j
    BY <1>2
  <2> QED
    BY <1>2, <2>3, <2>4
<1>4. /\ b \in Seq(Cell) /\ Len(b) = k /\ \A j \in 1 .. k : b[j] = w[j]
  <2>1. \A j \in 1 .. k : w[j] \in Cell
    BY <1>2
  <2>2. /\ b \in Seq(Cell) /\ Len(b) = IF 1 <= k THEN k - 1 + 1 ELSE 0
        /\ \A j \in 1 .. k - 1 + 1 : b[j] = w[1 + j - 1]
    BY <2>1, SubSeqProperties
  <2> HIDE DEF b
  <2>3. \A j \in 1 .. k : j \in 1 .. k - 1 + 1 /\ 1 + j - 1 = j
    OBVIOUS
  <2> QED
    BY <2>2, <2>3
<1> HIDE DEF a, b
<1>5. Between(a, stream, from + k)
  <2>1. \A j \in 1 .. Len(a) : k + j \in 1 .. Len(w) /\ from + (k + j) = from + k + j
    BY <1>2, <1>3
  <2> QED
    BY <1>1, <1>3, <2>1 DEF Between
<1>6. Between(b, stream, from)
  BY <1>1, <1>2, <1>4 DEF Between
<1> QED
  BY <1>3, <1>4, <1>5, <1>6 DEF a, b

(* What is on the wire, with the places it lies between.                   *)
LEMMA OnWireIs ==
  OnWire <=> (recving # "failed" => /\ Between(wire, Cells(PartNum, batches), ReadTo)
                                    /\ ReadTo + Len(wire) <= SentTo
                                    /\ open => ReadTo + Len(wire) = SentTo)
BY DEF OnWire, Between

(* The receiver's place is a number.                                       *)
LEMMA ReadToIs ==
  ASSUME TransportConstants, Loaded, Receiving
  PROVE  /\ Len(delivered) \in Nat /\ Place(Len(delivered)) \in Nat
         /\ recving # "failed" => ReadTo \in Nat
<1>1. delivered \in Seq(Seq(QueryOf(PartNum))) /\ Len(delivered) <= Len(batches)
  BY DEF Receiving, HandedOver
<1>2. Len(delivered) \in Nat
  BY <1>1, LenProperties
<1>3. Place(Len(delivered)) \in Nat
  BY <1>1, <1>2, StreamFacts
<1>4. recving # "failed" => Got \in Nat
  <2>1. CASE HasSize
    BY <2>1 DEF HasSize, Got
  <2>2. CASE HasPayload
    <3>1. Len(buf) \in Nat
      BY <2>2, LenProperties DEF HasPayload
    <3> QED
      BY <2>2, <3>1 DEF HasPayload, Got
  <2>3. CASE Parses
    <3>1. Len(Payloads(Len(delivered))) \in Nat
      BY <1>2, <2>3, FrameFacts DEF Parses
    <3> QED
      BY <2>3, <3>1 DEF Parses, Got
  <2>4. CASE GaveUp
    BY <2>4 DEF GaveUp
  <2> QED
    BY <2>1, <2>2, <2>3, <2>4 DEF Receiving
<1> QED
  BY <1>2, <1>3, <1>4 DEF ReadTo

-----------------------------------------------------------------------------
(* Every step keeps the invariant. *)

LEMMA NextCells ==
  ASSUME NEW w \in Seq(Cell), NEW from \in Nat, NEW k \in Nat, from + k <= Len(w)
  PROVE  /\ SubSeq(w, from + 1, from + k) \in Seq(Cell)
         /\ Len(SubSeq(w, from + 1, from + k)) = k
         /\ \A j \in 1 .. k : SubSeq(w, from + 1, from + k)[j] = w[from + j]
<1> DEFINE a == from + 1
           b == from + k
           d == SubSeq(w, a, b)
<1>1. Len(w) \in Nat /\ \A j \in 1 .. Len(w) : w[j] \in Cell
  BY LenProperties
<1>2. a \in Int /\ b \in Int /\ a = from + 1 /\ b = from + k
  OBVIOUS
<1>3. \A j \in a .. b : w[j] \in Cell
  BY <1>1
<1> HIDE DEF a, b
<1>4. /\ d \in Seq(Cell) /\ Len(d) = IF a <= b THEN b - a + 1 ELSE 0
      /\ \A j \in 1 .. b - a + 1 : d[j] = w[a + j - 1]
  BY <1>2, <1>3, SubSeqProperties
<1> HIDE DEF d
<1>5. \A j \in 1 .. k : j \in 1 .. b - a + 1 /\ a + j - 1 = from + j
  BY <1>2
<1>6. d \in Seq(Cell) /\ Len(d) = k /\ \A j \in 1 .. k : d[j] = w[from + j]
  BY <1>2, <1>4, <1>5
<1> QED
  BY <1>6 DEF d, a, b

(* sendData: the k cells are the next ones of the stream. *)
LEMMA FramedSends ==
  ASSUME TransportConstants, Framed, NEW k \in 1 .. MaxCells, SendSome(k)
  PROVE  Framed'
<1>1. Loaded /\ Sending /\ Receiving /\ OnWire
  BY DEF Framed
<1>2. /\ open /\ open' = open /\ sending # "idle" /\ PartNum' = PartNum /\ batches' = batches
      /\ UNCHANGED receiver
  BY DEF SendSome
<1>3. k \in Nat /\ k >= 1 /\ k <= Len(Data) - totalSent
  BY DEF SendSome, TransportConstants
<1>4. Loaded' /\ Cells(PartNum, batches)' = Cells(PartNum, batches)
  BY <1>1, <1>2, LoadedKept
<1>5. Receiving' /\ ReadTo' = ReadTo /\ recving' = recving
  BY <1>1, <1>2, ReceivingKept
<1>6. n \in Nat /\ n < Len(batches) /\ Place(n) \in Nat /\ Len(batches) \in Nat
  BY <1>1, <1>2, StreamFacts, SentWithin DEF Sending
<1> DEFINE p == Payloads(n)
           stream == Cells(PartNum, batches)
           d == SubSeq(Data, totalSent + 1, totalSent + k)
<1>7. /\ p \in Seq(Cell) /\ Len(p) \in Nat /\ Len(p) >= 1
      /\ Place(n + 1) = Place(n) + 1 + Len(p)
      /\ stream[Place(n) + 1] = PackField(Len(p))
      /\ \A j \in 1 .. Len(p) : stream[Place(n) + 1 + j] = p[j]
  BY <1>1, <1>6, FrameFacts
<1>8. \A m : UpTo(PartNum', batches', m) = Place(m) /\ Payloads(m)' = Payloads(m)
  BY <1>2 DEF Place, Payloads
<1>9. PackField(Len(p)) \in Cell
  BY <1>7, FieldsAreCells
<1>10. /\ sending = "size" => Data = <<PackField(Len(p))>>
       /\ sending = "payload" => Data = p
  BY DEF Data, Payloads
<1>11. wire' = wire \o d
  BY DEF SendSome
<1> HIDE DEF p, stream, d
<1>12. /\ Sending' /\ SentTo' = SentTo + k
       /\ d \in Seq(Cell) /\ Len(d) = k
       /\ \A j \in 1 .. k : d[j] = stream[SentTo + j]
  <2>1. CASE sending = "size"
    <3>1. totalSent = 0 /\ totalBytesSent = Place(n)
      BY <1>1, <1>6, <2>1 DEF Sending, Sized
    <3>2. Len(Data) = 1 /\ Data[1] = PackField(Len(p)) /\ Data \in Seq(Cell)
      <4> DEFINE x == PackField(Len(p))
      <4>1. x \in Cell /\ Data = << x >>
        BY <1>9, <1>10, <2>1
      <4> HIDE DEF x
      <4>2. Len(Data) = 1 /\ Data[1] = x /\ Data \in Seq(Cell)
        BY <4>1
      <4> QED
        BY <4>2 DEF x
    <3>3. k = 1
      BY <1>3, <3>1, <3>2
    <3>4. totalSent' = 0 /\ totalBytesSent' = Place(n) + 1 /\ n' = n /\ sending' = "payload"
      <4>1. ~ (totalSent + k < Len(Data))
        BY <3>1, <3>2, <3>3
      <4>2. /\ totalSent' = 0 /\ totalBytesSent' = totalBytesSent + Len(Data)
            /\ n' = n /\ sending' = "payload"
        <5>1. /\ totalSent' = 0 /\ totalBytesSent' = totalBytesSent + Len(Data)
              /\ n' = IF sending = "size" THEN n ELSE n + 1
              /\ sending' = CASE sending = "size" -> "payload"
                              [] sending = "payload" /\ n + 1 < Len(batches) -> "size"
                              [] OTHER -> "idle"
          BY <4>1, Zenon DEF SendSome
        <5> QED
          BY <1>6, <2>1, <5>1
      <4> QED
        BY <3>1, <3>2, <4>2
    <3>5. Sending'
      <4>1. Sized' = 1
        BY <3>4 DEF Sized
      <4>2. Place(n)' = Place(n) /\ Payloads(n)' = p /\ batches' = batches
        BY <1>2, <1>8, <3>4 DEF Place, p
      <4>3. n \in 0 .. Len(batches) - 1
        BY <1>6
      <4> QED
        BY <1>7, <3>4, <4>1, <4>2, <4>3 DEF Sending
    <3>6. SentTo' = SentTo + 1 /\ SentTo = Place(n)
      <4>1. SentTo = Place(n)
        BY <1>6, <2>1, <3>1 DEF SentTo, Sized
      <4>2. SentTo' = Place(n) + 1
        BY <1>6, <1>8, <3>4 DEF SentTo, Sized, Place
      <4> QED
        BY <4>1, <4>2
    <3>7. d \in Seq(Cell) /\ Len(d) = k /\ \A j \in 1 .. k : d[j] = Data[totalSent + j]
      BY <1>3, <3>1, <3>2, <3>3, NextCells DEF d
    <3>8. \A j \in 1 .. k : d[j] = stream[SentTo + j]
      BY <1>7, <3>1, <3>2, <3>3, <3>6, <3>7
    <3> QED
      BY <3>3, <3>5, <3>6, <3>7, <3>8
  <2>2. CASE sending = "payload"
    <3>1. totalSent \in Nat /\ totalSent < Len(p) /\ totalBytesSent = Place(n) + 1
      BY <1>1, <2>2 DEF Sending, Sized, p
    <3>2. Data = p /\ totalSent + k <= Len(p)
      BY <1>3, <1>7, <1>10, <2>2, <3>1
    <3>3. SentTo = Place(n) + 1 + totalSent
      BY <1>6, <2>2, <3>1 DEF SentTo, Sized
    <3>4. Sending' /\ SentTo' = Place(n) + 1 + (totalSent + k)
      <4>1. CASE totalSent + k < Len(p)
        <5>1. totalSent' = totalSent + k /\ n' = n /\ sending' = sending /\ totalBytesSent' = totalBytesSent
          BY <3>2, <4>1 DEF SendSome
        <5>2. Sized' = 1
          BY <2>2, <5>1 DEF Sized
        <5>3. Place(n)' = Place(n) /\ Payloads(n)' = p /\ batches' = batches
          BY <1>2, <1>8, <5>1 DEF Place, p
        <5>4. n \in 0 .. Len(batches) - 1 /\ totalSent + k \in Nat
          BY <1>3, <1>6, <3>1
        <5>5. Sending'
          BY <2>2, <3>1, <4>1, <5>1, <5>2, <5>3, <5>4 DEF Sending
        <5> QED
          BY <5>1, <5>2, <5>3, <5>5 DEF SentTo
      <4>2. CASE ~ (totalSent + k < Len(p))
        <5>1. totalSent + k = Len(p)
          BY <1>3, <1>7, <3>1, <3>2, <4>2
        <5>2. /\ totalSent' = 0 /\ totalBytesSent' = totalBytesSent + Len(p) /\ n' = n + 1
              /\ sending' = IF n + 1 < Len(batches) THEN "size" ELSE "idle"
          BY <2>2, <3>2, <4>2 DEF SendSome
        <5>3. Sized' = 0
          BY <5>2 DEF Sized
        <5>4. Place(n)' = Place(n + 1) /\ batches' = batches
          BY <1>2, <1>8, <5>2 DEF Place
        <5>5. totalBytesSent' = Place(n + 1) /\ Place(n + 1) \in Nat
          BY <1>6, <1>7, <3>1, <5>2
        <5>6. /\ n + 1 < Len(batches) => n + 1 \in 0 .. Len(batches) - 1
              /\ ~ (n + 1 < Len(batches)) => n + 1 = Len(batches)
          BY <1>6
        <5>7. /\ totalSent' \in Nat /\ totalBytesSent' = Place(n)' + Sized'
          BY <5>2, <5>3, <5>4, <5>5
        <5>8. \/ sending' = "size" /\ n' \in 0 .. Len(batches') - 1 /\ totalSent' = 0
              \/ sending' = "idle" /\ n' = Len(batches') /\ totalSent' = 0
          BY <5>2, <5>4, <5>6
        <5>9. Sending'
          BY <5>7, <5>8 DEF Sending
        <5>10. SentTo' = Place(n + 1)
          BY <5>2, <5>3, <5>4, <5>5 DEF SentTo
        <5> QED
          BY <1>6, <1>7, <5>1, <5>9, <5>10
      <4> QED
        BY <4>1, <4>2
    <3>5. d \in Seq(Cell) /\ Len(d) = k /\ \A j \in 1 .. k : d[j] = p[totalSent + j]
      <4>1. d = SubSeq(p, totalSent + 1, totalSent + k)
        BY <3>2 DEF d
      <4> QED
        BY <1>3, <1>7, <3>1, <3>2, <4>1, NextCells
    <3>6. \A j \in 1 .. k : d[j] = stream[SentTo + j]
      <4> SUFFICES ASSUME NEW j \in 1 .. k PROVE d[j] = stream[SentTo + j]
        OBVIOUS
      <4>1. totalSent + j \in 1 .. Len(p) /\ Place(n) + 1 + (totalSent + j) = SentTo + j
        BY <1>3, <1>6, <1>7, <3>1, <3>2, <3>3
      <4> QED
        BY <1>7, <3>5, <4>1
    <3>7. SentTo' = SentTo + k
      <4>1. SentTo' = Place(n) + 1 + (totalSent + k)
        BY <3>4
      <4> QED
        BY <1>3, <1>6, <3>1, <3>3, <4>1
    <3> QED
      BY <3>4, <3>5, <3>6, <3>7
  <2> QED
    BY <1>1, <1>2, <2>1, <2>2 DEF Sending
<1>13. OnWire'
  <2> SUFFICES ASSUME recving # "failed" PROVE OnWire'
    BY <1>5 DEF OnWire
  <2>1. /\ Between(wire, stream, ReadTo) /\ ReadTo + Len(wire) = SentTo
        /\ ReadTo \in Nat /\ Len(wire) \in Nat
    <3>1. Between(wire, stream, ReadTo) /\ ReadTo + Len(wire) = SentTo
      BY <1>1, <1>2, OnWireIs DEF stream
    <3>2. ReadTo \in Nat
      BY <1>1, ReadToIs
    <3>3. wire \in Seq(Cell)
      BY <3>1 DEF Between
    <3> QED
      BY <3>1, <3>2, <3>3, LenProperties
  <2>2. \A j \in 1 .. Len(d) : d[j] = stream[ReadTo + Len(wire) + j]
    BY <1>12, <2>1
  <2>3. d \in Seq(Cell)
    BY <1>12
  <2>4. Between(wire \o d, stream, ReadTo) /\ Len(wire \o d) = Len(wire) + Len(d)
    BY <2>1, <2>2, <2>3, BetweenAppends
  <2>5. Between(wire', stream, ReadTo) /\ Len(wire') = Len(wire) + k
    BY <1>11, <1>12, <2>4
  <2>6. ReadTo + Len(wire') = SentTo' /\ SentTo' \in Nat
    BY <1>3, <1>12, <2>1, <2>5
  <2>7. Between(wire, Cells(PartNum, batches), ReadTo)'
    BY <1>4, <1>5, <2>5 DEF stream
  <2> QED
    BY <1>2, <1>5, <2>6, <2>7 DEF OnWire, Between
<1> QED
  BY <1>4, <1>5, <1>12, <1>13 DEF Framed

(* The sender's end keeps the invariant,                                   *)
LEMMA FramedStops ==
  ASSUME TransportConstants, Framed, SenderStops
  PROVE  Framed'
<1>1. Loaded /\ Sending /\ Receiving /\ OnWire
  BY DEF Framed
<1>2. /\ ~ open' /\ PartNum' = PartNum /\ batches' = batches
      /\ UNCHANGED sender /\ UNCHANGED receiver
  BY DEF SenderStops
<1>3. Loaded' /\ Cells(PartNum, batches)' = Cells(PartNum, batches)
  BY <1>1, <1>2, LoadedKept
<1>4. Sending' /\ SentTo' = SentTo
  BY <1>1, <1>2, SendingKept
<1>5. Receiving' /\ ReadTo' = ReadTo /\ recving' = recving
  BY <1>1, <1>2, ReceivingKept
<1>6. OnWire'
  <2> SUFFICES ASSUME recving # "failed" PROVE OnWire'
    BY <1>5 DEF OnWire
  <2> DEFINE stream == Cells(PartNum, batches)
  <2>1. Between(wire, stream, ReadTo) /\ ReadTo + Len(wire) <= SentTo
    BY <1>1, OnWireIs
  <2> HIDE DEF stream
  <2>2. ReadTo \in Nat /\ SentTo \in Nat
    BY <1>1, ReadToIs, SentWithin
  <2>3. wire \in Seq(Cell)
    BY <2>1 DEF Between
  <2>4. Len(wire) \in Nat
    BY <2>3, LenProperties
  <2>5. PICK m \in 0 .. Len(wire) : wire' = SubSeq(wire, 1, m)
    BY DEF SenderStops
  <2>6. m \in Nat /\ m <= Len(wire)
    BY <2>4
  <2>7. Between(wire', stream, ReadTo) /\ Len(wire') = m
    BY <2>1, <2>2, <2>5, <2>6, BetweenTakes
  <2>8. ReadTo + Len(wire') <= SentTo
    BY <2>1, <2>2, <2>4, <2>6, <2>7
  <2>9. Between(wire, Cells(PartNum, batches), ReadTo)'
    BY <1>3, <1>5, <2>7 DEF stream
  <2> QED
    BY <1>2, <1>4, <1>5, <2>8, <2>9 DEF OnWire, Between
<1> QED
  BY <1>3, <1>4, <1>5, <1>6 DEF Framed

(* recvData: the k cells are those the receiver waits for.                 *)
LEMMA TakenOffWire ==
  ASSUME TransportConstants, Framed, NEW k \in 1 .. MaxCells, RecvSome(k)
  PROVE  /\ k \in Nat /\ k >= 1 /\ k <= Len(wire) /\ Len(wire) \in Nat
         /\ ReadTo \in Nat /\ ReadTo + k <= Len(Cells(PartNum, batches))
         /\ Between(SubSeq(wire, 1, k), Cells(PartNum, batches), ReadTo)
         /\ Len(SubSeq(wire, 1, k)) = k /\ wire[1] = Cells(PartNum, batches)[ReadTo + 1]
         /\ ReadTo' = ReadTo + k => OnWire'
         /\ Loaded' /\ Sending' /\ Cells(PartNum, batches)' = Cells(PartNum, batches)
<1>1. Loaded /\ Sending /\ Receiving /\ OnWire
  BY DEF Framed
<1>2. /\ open' = open /\ PartNum' = PartNum /\ batches' = batches /\ recving # "failed"
      /\ UNCHANGED sender /\ wire' = SubSeq(wire, k + 1, Len(wire)) /\ k <= Len(wire)
  BY DEF RecvSome
<1>3. Loaded' /\ Cells(PartNum, batches)' = Cells(PartNum, batches)
  BY <1>1, <1>2, LoadedKept
<1>4. Sending' /\ SentTo' = SentTo
  BY <1>1, <1>2, SendingKept
<1> DEFINE stream == Cells(PartNum, batches)
<1>5. Between(wire, stream, ReadTo) /\ ReadTo + Len(wire) <= SentTo /\ (open => ReadTo + Len(wire) = SentTo)
  BY <1>1, <1>2, OnWireIs
<1>6. ReadTo \in Nat /\ SentTo \in Nat /\ SentTo <= Len(stream)
  BY <1>1, <1>2, ReadToIs, SentWithin
<1>7. Len(stream) \in Nat
  BY <1>1, StreamFacts
<1> HIDE DEF stream
<1>8. k \in Nat /\ k >= 1
  BY DEF TransportConstants
<1>9. wire \in Seq(Cell)
  BY <1>5 DEF Between
<1>10. Len(wire) \in Nat
  BY <1>9, LenProperties
<1>11. /\ Between(wire', stream, ReadTo + k) /\ Len(wire') = Len(wire) - k
       /\ Between(SubSeq(wire, 1, k), stream, ReadTo) /\ Len(SubSeq(wire, 1, k)) = k
  BY <1>2, <1>5, <1>6, <1>8, BetweenTakes
<1>12. wire[1] = stream[ReadTo + 1]
  <2>1. 1 \in 1 .. Len(wire)
    BY <1>2, <1>8, <1>10
  <2> QED
    BY <1>5, <2>1 DEF Between
<1>13. ASSUME ReadTo' = ReadTo + k PROVE OnWire'
  <2>1. Between(wire, Cells(PartNum, batches), ReadTo)'
    BY <1>3, <1>11, <1>13 DEF stream
  <2>2. /\ ReadTo' + Len(wire') = ReadTo + Len(wire)
    BY <1>6, <1>8, <1>10, <1>11, <1>13
  <2>3. ReadTo' + Len(wire') <= SentTo' /\ (open' => ReadTo' + Len(wire') = SentTo')
    BY <1>2, <1>4, <1>5, <2>2
  <2> QED
    BY <2>1, <2>3 DEF OnWire, Between
<1>14. ReadTo + k <= Len(stream)
  BY <1>2, <1>5, <1>6, <1>7, <1>8, <1>10
<1> QED
  BY <1>2, <1>3, <1>4, <1>6, <1>8, <1>10, <1>11, <1>12, <1>13, <1>14 DEF stream

(* a call of recv() keeps it, whatever it takes,                           *)
LEMMA FramedReceives ==
  ASSUME TransportConstants, Framed, NEW k \in 1 .. MaxCells, RecvSome(k)
  PROVE  Framed'
<1>1. Loaded /\ Receiving /\ HandedOver
  BY DEF Framed, Receiving
<1> DEFINE r == Len(delivered)
           p == Payloads(r)
           stream == Cells(PartNum, batches)
           front == SubSeq(wire, 1, k)
<1>2. /\ k \in Nat /\ k >= 1 /\ k <= Len(wire) /\ Len(wire) \in Nat
      /\ ReadTo \in Nat /\ ReadTo + k <= Len(stream)
      /\ Between(front, stream, ReadTo) /\ Len(front) = k /\ wire[1] = stream[ReadTo + 1]
      /\ ReadTo' = ReadTo + k => OnWire'
      /\ Loaded' /\ Sending'
  BY TakenOffWire
<1>3. /\ PartNum' = PartNum /\ batches' = batches /\ delivered' = delivered /\ queries' = queries
      /\ recving \in {"size", "payload"} /\ k <= Wanted - Len(buf)
  BY DEF RecvSome
<1>4. HandedOver'
  BY <1>1, <1>3 DEF HandedOver
<1>5. /\ \A m : UpTo(PartNum', batches', m) = Place(m)
      /\ Payloads(Len(delivered))' = p /\ Place(Len(delivered))' = Place(r)
  BY <1>3 DEF Place, Payloads
<1>6. r \in Nat /\ Place(r) \in Nat /\ r <= Len(batches) /\ Len(batches) \in Nat
  BY <1>1, ReadToIs, StreamFacts DEF HandedOver
<1> SUFFICES (HasSize \/ HasPayload \/ Parses)' /\ ReadTo' = ReadTo + k
  BY <1>2, <1>4 DEF Framed, Receiving
<1>7. CASE recving = "size"
  <2>1. HasSize
    BY <1>1, <1>7 DEF Receiving, HasPayload, Parses, GaveUp
  <2>2. Len(buf) = 0 /\ totalBytesRecv = Place(r) /\ queries = << >>
    BY <2>1 DEF HasSize
  <2>3. Wanted = 1 /\ k = 1
    BY <1>2, <1>3, <1>7, <2>2 DEF Wanted
  <2>4. ReadTo = Place(r)
    BY <1>6, <1>7 DEF ReadTo, Got
  <2>5. r < Len(batches)
    <3>1. Place(Len(batches)) = Len(stream)
      BY <1>1, StreamFacts
    <3> HIDE DEF r, stream
    <3>2. r # Len(batches)
      BY <1>2, <1>6, <2>3, <2>4, <3>1
    <3> QED
      BY <1>6, <3>2
  <2>6. /\ p \in Seq(Cell) /\ Len(p) \in Nat /\ Len(p) >= 1
        /\ stream[Place(r) + 1] = PackField(Len(p))
    BY <1>1, <1>6, <2>5, FrameFacts
  <2>7. ~ (Len(buf) + k < Wanted)
    BY <2>2, <2>3
  <2>8. /\ totalBytesRecv' = totalBytesRecv + Wanted /\ payloadSize' = Head(wire).value
        /\ buf' = << >> /\ recving' = "payload"
    BY <1>7, <2>7 DEF RecvSome
  <2>9. payloadSize' = Len(p)
    <3>1. Head(wire) = wire[1]
      OBVIOUS
    <3>2. Head(wire) = PackField(Len(p))
      BY <1>2, <2>4, <2>6, <3>1
    <3> QED
      BY <2>6, <2>8, <3>2, FieldsAreCells
  <2>10. buf' \in Seq(Cell) /\ Len(buf') = 0
    BY <2>8
  <2>11. totalBytesRecv' = Place(r) + 1
    BY <2>2, <2>3, <2>8
  <2> HIDE DEF r, p, stream, front
  <2>12. HasPayload'
    BY <1>3, <1>5, <2>2, <2>5, <2>6, <2>8, <2>9, <2>10, <2>11 DEF HasPayload, r
  <2>13. ReadTo' = Place(r) + 1
    BY <1>5, <1>6, <2>8, <2>10 DEF ReadTo, Got
  <2> QED
    BY <2>3, <2>4, <2>12, <2>13
<1>8. CASE recving = "payload"
  <2>1. HasPayload
    BY <1>1, <1>8 DEF Receiving, HasSize, Parses, GaveUp
  <2>2. /\ r < Len(batches) /\ payloadSize = Len(p) /\ buf \in Seq(Cell) /\ Len(buf) < Len(p)
        /\ \A j \in 1 .. Len(buf) : buf[j] = p[j]
        /\ totalBytesRecv = Place(r) + 1 /\ queries = << >>
    BY <2>1 DEF HasPayload
  <2>3. /\ p \in Seq(Cell) /\ Len(p) \in Nat /\ batches[r + 1] \in Seq(QueryOf(PartNum))
        /\ \A j \in 1 .. Len(p) : stream[Place(r) + 1 + j] = p[j]
    BY <1>1, <1>6, <2>2, FrameFacts
  <2>4. Len(buf) \in Nat
    BY <2>2, LenProperties
  <2>5. ReadTo = Place(r) + (1 + Len(buf)) /\ Wanted = Len(p) /\ Len(buf) + k <= Len(p)
    BY <1>2, <1>3, <1>8, <2>2, <2>3, <2>4 DEF ReadTo, Got, Wanted
  <2> DEFINE b == buf \o front
  <2> HIDE DEF r, p, stream, front
  <2>6. front \in Seq(Cell) /\ Len(front) = k /\ \A j \in 1 .. k : front[j] = stream[ReadTo + j]
    BY <1>2 DEF Between
  <2>7. front \in Seq(Cell) /\ buf \in Seq(Cell)
    BY <2>2, <2>6
  <2>8. /\ b \in Seq(Cell) /\ Len(b) = Len(buf) + Len(front)
        /\ \A j \in 1 .. Len(buf) + Len(front) : b[j] = IF j <= Len(buf) THEN buf[j] ELSE front[j - Len(buf)]
    BY <2>7, ConcatProperties
  <2> HIDE DEF b
  <2>9. \A j \in 1 .. Len(b) : b[j] = p[j]
    <3> SUFFICES ASSUME NEW j \in 1 .. Len(b) PROVE b[j] = p[j]
      OBVIOUS
    <3>1. j \in Nat /\ 1 <= j /\ j <= Len(buf) + k /\ j \in 1 .. Len(buf) + Len(front)
      BY <1>2, <2>4, <2>6, <2>8
    <3>2. CASE j <= Len(buf)
      <4>1. j \in 1 .. Len(buf)
        BY <2>4, <3>1, <3>2
      <4> QED
        BY <2>2, <2>8, <3>1, <3>2, <4>1
    <3>3. CASE ~ (j <= Len(buf))
      <4> DEFINE i == j - Len(buf)
      <4>0. Place(r) \in Nat /\ Len(p) \in Nat /\ Len(buf) \in Nat /\ k \in Nat
        BY <1>2, <1>6, <2>3, <2>4
      <4>1. i \in 1 .. k /\ ReadTo + i = Place(r) + 1 + j /\ j \in 1 .. Len(p)
        <5> DEFINE place == Place(r)
                   at == Len(buf)
                   long == Len(p)
        <5>1. /\ place \in Nat /\ at \in Nat /\ long \in Nat /\ k \in Nat /\ ReadTo = place + (1 + at)
              /\ at + k <= long /\ j \in Nat /\ 1 <= j /\ j <= at + k /\ ~ (j <= at)
          BY <4>0, <2>5, <3>1, <3>3
        <5> HIDE DEF place, at, long
        <5>2. j - at \in 1 .. k /\ ReadTo + (j - at) = place + 1 + j /\ j \in 1 .. long
          BY <5>1
        <5> QED
          BY <5>2 DEF place, at, long
      <4>2. b[j] = front[i]
        BY <2>8, <3>1, <3>3
      <4> HIDE DEF i
      <4>3. front[i] = stream[Place(r) + 1 + j]
        BY <2>6, <4>1
      <4> QED
        BY <2>3, <4>1, <4>2, <4>3
    <3> QED
      BY <3>2, <3>3
  <2>10. CASE Len(buf) + k < Wanted
    <3>1. /\ buf' = b /\ recving' = "payload" /\ payloadSize' = Len(p) /\ totalBytesRecv' = Place(r) + 1
      <4>1. buf' = buf \o front /\ UNCHANGED <<recving, payloadSize, off, totalBytesRecv>>
        BY <2>10 DEF RecvSome, front
      <4> QED
        BY <1>8, <2>2, <4>1 DEF b
    <3>2. Len(b) = Len(buf) + k /\ Len(b) < Len(p)
      BY <2>5, <2>6, <2>8, <2>10
    <3>3. HasPayload'
      BY <1>3, <1>5, <2>2, <2>8, <2>9, <3>1, <3>2 DEF HasPayload, r
    <3>4. ReadTo' = Place(r) + (1 + Len(b))
      BY <1>5, <3>1 DEF ReadTo, Got
    <3>5. Place(r) + (1 + Len(b)) = Place(r) + (1 + Len(buf)) + k
      <4>1. Place(r) \in Nat /\ Len(buf) \in Nat /\ k \in Nat
        BY <1>2, <1>6, <2>4
      <4> QED
        BY <3>2, <4>1
    <3>6. ReadTo' = ReadTo + k
      BY <2>5, <3>4, <3>5
    <3> QED
      BY <3>3, <3>6
  <2>11. CASE ~ (Len(buf) + k < Wanted)
    <3>1. Len(buf) + k = Len(p)
      BY <1>2, <2>3, <2>4, <2>5, <2>11
    <3>2. b = p
      <4>1. Len(b) = Len(p)
        BY <2>6, <2>8, <3>1
      <4> QED
        BY <2>3, <2>8, <2>9, <4>1, SeqEqual
    <3>3. /\ buf' = p /\ recving' = "parse" /\ payloadSize' = Len(p) /\ off' = 1
          /\ totalBytesRecv' = Place(r) + 1 + Len(p)
      <4>1. /\ totalBytesRecv' = totalBytesRecv + Wanted /\ buf' = buf \o front /\ off' = 1
            /\ recving' = "parse" /\ payloadSize' = payloadSize
        BY <1>8, <2>11 DEF RecvSome, front
      <4> QED
        BY <2>2, <2>5, <3>2, <4>1 DEF b
    <3>4. PackedTo(PartNum, batches[r + 1], 0) = 1 /\ Len(batches[r + 1]) \in Nat
      <4>1. PartNum \in Nat
        BY <1>1 DEF Loaded
      <4> QED
        BY <2>3, <4>1, Payload, LenProperties
    <3>5. queries' = << >> /\ queries' \in Seq(QueryOf(PartNum)) /\ Len(queries') = 0
      BY <1>3, <2>2
    <3>6. Parses'
      <4> DEFINE batch == batches[r + 1]
      <4>1. batches[Len(delivered) + 1]' = batch
        BY <1>3 DEF r
      <4> HIDE DEF batch
      <4>2. /\ queries' \in Seq(QueryOf(PartNum')) /\ Len(queries') <= Len(batch)
            /\ \A j \in 1 .. Len(queries') : queries'[j] = batch[j]
            /\ off' = PackedTo(PartNum', batch, Len(queries'))
        BY <1>3, <3>3, <3>4, <3>5 DEF batch
      <4>3. /\ recving' = "parse" /\ Len(delivered') < Len(batches')
            /\ buf' = Payloads(Len(delivered))' /\ payloadSize' = Len(buf')
            /\ totalBytesRecv' = Place(Len(delivered))' + 1 + payloadSize'
        BY <1>3, <1>5, <2>2, <3>3 DEF r
      <4> QED
        BY <4>1, <4>2, <4>3 DEF Parses
    <3>7. ReadTo' = Place(r) + (1 + Len(p))
      BY <1>5, <3>3 DEF ReadTo, Got
    <3>8. Place(r) + (1 + Len(p)) = Place(r) + (1 + Len(buf)) + k
      <4>1. Place(r) \in Nat /\ Len(buf) \in Nat /\ k \in Nat
        BY <1>2, <1>6, <2>4
      <4> QED
        BY <3>1, <4>1
    <3>9. ReadTo' = ReadTo + k
      BY <2>5, <3>7, <3>8
    <3> QED
      BY <3>6, <3>9
  <2> QED
    BY <2>10, <2>11
<1> QED
  BY <1>3, <1>7, <1>8

(* Steps that leave the wire alone.                                        *)
LEMMA OnWireKept ==
  ASSUME OnWire, Loaded, Sending, PartNum' = PartNum, batches' = batches, UNCHANGED sender,
         wire' = wire, open' = open, recving # "failed", recving' # "failed" => ReadTo' = ReadTo
  PROVE  Loaded' /\ Sending' /\ OnWire'
<1>1. Loaded' /\ Cells(PartNum, batches)' = Cells(PartNum, batches)
  BY LoadedKept
<1>2. Sending' /\ SentTo' = SentTo
  BY SendingKept
<1>3. OnWire'
  BY <1>1, <1>2 DEF OnWire
<1> QED
  BY <1>1, <1>2, <1>3

(* recvData gives up only at the end of a stream its sender has left.      *)
LEMMA FramedFails ==
  ASSUME TransportConstants, Framed, RecvFails
  PROVE  Framed'
<1>1. Loaded /\ Sending /\ Receiving /\ OnWire
  BY DEF Framed
<1>2. /\ PartNum' = PartNum /\ batches' = batches /\ UNCHANGED sender /\ wire' = wire
      /\ open' = open /\ ~ open /\ recving \in {"size", "payload"} /\ recving' = "failed"
      /\ delivered' = delivered /\ totalBytesRecv' = totalBytesRecv
  BY DEF RecvFails
<1>3. Loaded' /\ Sending' /\ OnWire'
  BY <1>1, <1>2, OnWireKept
<1>4. HandedOver'
  BY <1>1, <1>2 DEF Receiving, HandedOver
<1>5. Len(delivered) = Len(batches) => totalBytesRecv = Place(Len(delivered))
  <2>1. CASE HasSize
    BY <2>1 DEF HasSize
  <2>2. CASE HasPayload
    <3>1. Len(delivered) < Len(batches) /\ Len(delivered) \in Nat /\ Len(batches) \in Nat
      BY <1>1, <2>2, ReadToIs, StreamFacts DEF HasPayload
    <3> QED
      BY <3>1
  <2> QED
    BY <1>1, <1>2, <2>1, <2>2 DEF Receiving, Parses, GaveUp
<1>6. GaveUp'
  <2>1. Place(Len(delivered))' = Place(Len(delivered))
    BY <1>2 DEF Place
  <2> QED
    BY <1>2, <1>5, <2>1 DEF GaveUp
<1> QED
  BY <1>3, <1>4, <1>6 DEF Framed, Receiving

(* What parsing finds: the queries so far are the first of the batch, and  *)
(* the payload is the batch as it was packed.                              *)
LEMMA ParsesFacts ==
  ASSUME TransportConstants, Loaded, Receiving, recving = "parse"
  PROVE  LET r     == Len(delivered)
             batch == batches[r + 1]
         IN  /\ r \in Nat /\ r < Len(batches) /\ Len(batches) \in Nat /\ PartNum \in Nat
             /\ batch \in Seq(QueryOf(PartNum)) /\ Len(batch) \in Nat
             /\ buf = PackBatch(PartNum, batch) /\ buf = Payloads(r)
             /\ buf \in Seq(Cell) /\ Len(buf) \in Nat
             /\ buf[1].value = Len(batch) /\ payloadSize = Len(buf)
             /\ totalBytesRecv = Place(r) + 1 + payloadSize
             /\ queries \in Seq(QueryOf(PartNum)) /\ Len(queries) \in Nat /\ Len(queries) <= Len(batch)
             /\ \A j \in 1 .. Len(queries) : queries[j] = batch[j]
             /\ off = PackedTo(PartNum, batch, Len(queries))
             /\ Place(r) \in Nat /\ ReadTo = Place(r) + (1 + payloadSize)
<1> DEFINE r     == Len(delivered)
           batch == batches[r + 1]
<1>1. Parses
  BY DEF Receiving, HasSize, HasPayload, GaveUp
<1>2. r \in Nat /\ Place(r) \in Nat /\ Len(batches) \in Nat /\ PartNum \in Nat /\ r < Len(batches)
  BY <1>1, ReadToIs, StreamFacts DEF Parses
<1>3. batch \in Seq(QueryOf(PartNum))
  BY <1>2, FrameFacts
<1>4. buf = PackBatch(PartNum, batch) /\ buf = Payloads(r)
  BY <1>1 DEF Parses, Payloads
<1>5. /\ payloadSize = Len(buf) /\ totalBytesRecv = Place(r) + 1 + payloadSize
      /\ queries \in Seq(QueryOf(PartNum)) /\ Len(queries) <= Len(batch)
      /\ \A j \in 1 .. Len(queries) : queries[j] = batch[j]
      /\ off = PackedTo(PartNum, batch, Len(queries))
  BY <1>1 DEF Parses
<1>6. ReadTo = Place(r) + (1 + payloadSize)
  BY DEF ReadTo, Got
<1> HIDE DEF r, batch
<1>7. /\ PackBatch(PartNum, batch) \in Seq(Cell)
      /\ PackBatch(PartNum, batch)[1] = PackField(Len(batch))
  BY <1>2, <1>3, Payload
<1>8. Len(batch) \in Nat /\ Len(queries) \in Nat
  BY <1>3, <1>5, LenProperties
<1>9. buf \in Seq(Cell) /\ buf[1].value = Len(batch)
  BY <1>4, <1>7, <1>8, FieldsAreCells
<1>10. Len(buf) \in Nat
  BY <1>9, LenProperties
<1> QED
  BY <1>2, <1>3, <1>4, <1>5, <1>6, <1>8, <1>9, <1>10 DEF r, batch

(* recvBatchQueries: one query is read back as it was packed.              *)
LEMMA FramedParses ==
  ASSUME TransportConstants, Framed, ParseQuery
  PROVE  Framed'
<1>1. Loaded /\ Sending /\ Receiving /\ OnWire /\ HandedOver /\ recving = "parse"
  BY DEF Framed, Receiving, ParseQuery
<1> DEFINE r     == Len(delivered)
           batch == batches[r + 1]
           m     == Len(queries)
           q     == batch[m + 1]
           s     == PackQuery(PartNum, q)
           fixed == off + FixedCells(PartNum)
           ct    == IF fixed <= Len(buf) THEN buf[fixed].value ELSE 0
<1>2. /\ r \in Nat /\ r < Len(batches) /\ PartNum \in Nat
      /\ batch \in Seq(QueryOf(PartNum)) /\ Len(batch) \in Nat
      /\ buf = PackBatch(PartNum, batch) /\ buf = Payloads(r) /\ buf \in Seq(Cell)
      /\ buf[1].value = Len(batch) /\ payloadSize = Len(buf)
      /\ totalBytesRecv = Place(r) + 1 + payloadSize
      /\ queries \in Seq(QueryOf(PartNum)) /\ m \in Nat
      /\ \A j \in 1 .. m : queries[j] = batch[j]
      /\ off = PackedTo(PartNum, batch, m)
  BY <1>1, ParsesFacts
<1>3. /\ PartNum' = PartNum /\ batches' = batches /\ UNCHANGED sender /\ wire' = wire
      /\ open' = open /\ delivered' = delivered /\ totalBytesRecv' = totalBytesRecv
      /\ buf' = buf /\ payloadSize' = payloadSize /\ m < buf[1].value
  BY DEF ParseQuery
<1>4. IF fixed <= Len(buf) /\ fixed + ct <= Len(buf)
      THEN /\ queries' = Append(queries,
                [bvec       |-> UnpackBits(PartNum, buf, off),
                 Svec       |-> UnpackOffsets(PartNum, buf, off),
                 ciphertext |-> SubSeq(buf, fixed + 1, fixed + ct)])
           /\ off' = fixed + ct /\ recving' = recving
      ELSE recving' = "failed" /\ UNCHANGED <<queries, off>>
  BY DEF ParseQuery
<1>5. HandedOver'
  BY <1>1, <1>3 DEF HandedOver
<1>6. /\ Place(Len(delivered))' = Place(r) /\ Payloads(Len(delivered))' = Payloads(r)
      /\ batches[Len(delivered) + 1]' = batch
  BY <1>3 DEF Place, Payloads
<1> HIDE DEF r, batch, m
<1>7. m < Len(batch) /\ m + 1 \in 1 .. Len(batch) /\ m \in 0 .. Len(batch) - 1 /\ m + 1 \in 0 .. Len(batch)
  BY <1>2, <1>3
<1>8. q \in QueryOf(PartNum)
  BY <1>2, <1>7
<1>9. QueryCells(PartNum, q, s)
  BY <1>2, <1>8, PackedQuery
<1>10. /\ PackedTo(PartNum, batch, m + 1) = PackedTo(PartNum, batch, m) + Len(s)
       /\ \A j \in 1 .. Len(s) : PackBatch(PartNum, batch)[PackedTo(PartNum, batch, m) + j] = s[j]
  <2>1. QueryAtPlace(PartNum, batch, m)
    BY <1>2, <1>7, Payload
  <2> QED
    BY <2>1 DEF QueryAtPlace
<1>11. /\ off \in Nat /\ PackedTo(PartNum, batch, m + 1) <= Len(buf)
  <2>1. \A i \in 0 .. Len(batch) : /\ PackedTo(PartNum, batch, i) \in Nat
                                    /\ PackedTo(PartNum, batch, i) <= Len(PackBatch(PartNum, batch))
    BY <1>2, Payload
  <2>2. m \in 0 .. Len(batch)
    BY <1>2, <1>7
  <2> QED
    BY <1>2, <1>7, <2>1, <2>2
<1> HIDE DEF s, q
<1>12. off + Len(s) <= Len(buf) /\ \A j \in 1 .. Len(s) : buf[off + j] = s[j]
  BY <1>2, <1>10, <1>11
<1>13. /\ fixed \in Nat /\ fixed <= Len(buf) /\ buf[fixed].value = Len(q.ciphertext)
       /\ fixed + Len(q.ciphertext) = off + Len(s)
       /\ UnpackBits(PartNum, buf, off) = q.bvec /\ UnpackOffsets(PartNum, buf, off) = q.Svec
       /\ SubSeq(buf, fixed + 1, fixed + Len(q.ciphertext)) = q.ciphertext
  <2>1. PartNum \in Nat /\ buf \in Seq(Cell) /\ off \in Nat
    BY <1>2, <1>11
  <2> QED
    BY <1>8, <1>9, <1>12, <2>1, ReadBack
<1> HIDE DEF fixed
<1>14. ct = Len(q.ciphertext)
  BY <1>13
<1> HIDE DEF ct
<1>15. fixed + ct = PackedTo(PartNum, batch, m + 1) /\ fixed <= Len(buf) /\ fixed + ct <= Len(buf)
  BY <1>2, <1>10, <1>12, <1>13, <1>14
<1>16. q = [bvec |-> q.bvec, Svec |-> q.Svec, ciphertext |-> q.ciphertext]
  BY <1>8, QueryParts
<1>17. /\ queries' = Append(queries, q) /\ off' = PackedTo(PartNum, batch, m + 1)
       /\ recving' = "parse"
  <2>1. /\ queries' = Append(queries,
                [bvec       |-> UnpackBits(PartNum, buf, off),
                 Svec       |-> UnpackOffsets(PartNum, buf, off),
                 ciphertext |-> SubSeq(buf, fixed + 1, fixed + ct)])
        /\ off' = fixed + ct /\ recving' = recving
    BY <1>4, <1>15
  <2> QED
    BY <1>1, <1>13, <1>14, <1>15, <1>16, <2>1
<1>18. /\ queries' \in Seq(QueryOf(PartNum)) /\ Len(queries') = m + 1
       /\ \A j \in 1 .. m : queries'[j] = queries[j]
       /\ queries'[m + 1] = q
  BY <1>2, <1>8, <1>17, AppendProperties DEF m
<1>19. \A j \in 1 .. Len(queries') : queries'[j] = batch[j]
  <2> SUFFICES ASSUME NEW j \in 1 .. Len(queries') PROVE queries'[j] = batch[j]
    OBVIOUS
  <2>1. j \in 1 .. m \/ j = m + 1
    BY <1>2, <1>18
  <2> QED
    BY <1>2, <1>18, <2>1 DEF q
<1>20. Parses'
  <2>1. /\ queries' \in Seq(QueryOf(PartNum')) /\ Len(queries') <= Len(batch)
        /\ off' = PackedTo(PartNum', batch, Len(queries'))
    BY <1>2, <1>3, <1>7, <1>17, <1>18
  <2>2. /\ Len(delivered') < Len(batches') /\ buf' = Payloads(Len(delivered))'
        /\ payloadSize' = Len(buf')
        /\ totalBytesRecv' = Place(Len(delivered))' + 1 + payloadSize'
    BY <1>2, <1>3, <1>6 DEF r
  <2> QED
    BY <1>6, <1>17, <1>19, <2>1, <2>2 DEF Parses
<1>21. ReadTo' = ReadTo
  BY <1>1, <1>3, <1>6, <1>17 DEF ReadTo, Got, r
<1>22. Loaded' /\ Sending' /\ OnWire'
  BY <1>1, <1>3, <1>21, OnWireKept
<1> QED
  BY <1>5, <1>20, <1>22 DEF Framed, Receiving

(* recvBatchQueries: with the last query of the batch the payload is used  *)
(* up, and the batch handed over is the one that was sent.                 *)
LEMMA FramedDone ==
  ASSUME TransportConstants, Framed, ParseDone
  PROVE  Framed'
<1>1. Loaded /\ Sending /\ Receiving /\ OnWire /\ HandedOver /\ recving = "parse"
  BY DEF Framed, Receiving, ParseDone
<1> DEFINE r     == Len(delivered)
           batch == batches[r + 1]
<1>2. /\ r \in Nat /\ r < Len(batches) /\ Len(batches) \in Nat /\ PartNum \in Nat
      /\ batch \in Seq(QueryOf(PartNum)) /\ Len(batch) \in Nat
      /\ buf = PackBatch(PartNum, batch) /\ buf = Payloads(r) /\ Len(buf) \in Nat
      /\ buf[1].value = Len(batch) /\ payloadSize = Len(buf)
      /\ totalBytesRecv = Place(r) + 1 + payloadSize
      /\ queries \in Seq(QueryOf(PartNum))
      /\ \A j \in 1 .. Len(queries) : queries[j] = batch[j]
      /\ off = PackedTo(PartNum, batch, Len(queries))
      /\ Place(r) \in Nat /\ ReadTo = Place(r) + (1 + payloadSize)
  BY <1>1, ParsesFacts
<1>3. /\ PartNum' = PartNum /\ batches' = batches /\ UNCHANGED sender /\ wire' = wire
      /\ open' = open /\ totalBytesRecv' = totalBytesRecv
      /\ buf' = << >> /\ queries' = << >> /\ Len(queries) = buf[1].value
  BY DEF ParseDone
<1>4. IF off = Len(buf)
      THEN delivered' = Append(delivered, queries) /\ recving' = "size"
      ELSE recving' = "failed" /\ UNCHANGED delivered
  BY DEF ParseDone
<1>5. delivered \in Seq(Seq(QueryOf(PartNum))) /\ \A j \in 1 .. r : delivered[j] = batches[j]
  BY <1>1 DEF HandedOver
<1> HIDE DEF batch
<1>6. off = Len(buf)
  <2>1. PackedTo(PartNum, batch, Len(batch)) = Len(PackBatch(PartNum, batch))
    BY <1>2, Payload
  <2> QED
    BY <1>2, <1>3, <2>1
<1>7. queries = batch
  <2>1. Len(queries) = Len(batch)
    BY <1>2, <1>3
  <2> QED
    BY <1>2, <2>1, SeqEqual
<1>8. delivered' = Append(delivered, batch) /\ recving' = "size"
  BY <1>4, <1>6, <1>7
<1>9. /\ delivered' \in Seq(Seq(QueryOf(PartNum))) /\ Len(delivered') = r + 1
      /\ \A j \in 1 .. r : delivered'[j] = delivered[j]
      /\ delivered'[r + 1] = batch
  BY <1>2, <1>5, <1>8, AppendProperties
<1> HIDE DEF r
<1>10. HandedOver'
  <2>1. Len(delivered') <= Len(batches')
    BY <1>2, <1>3, <1>9
  <2>2. ASSUME NEW j \in 1 .. Len(delivered') PROVE delivered'[j] = batches'[j]
    <3>1. j \in 1 .. r \/ j = r + 1
      BY <1>2, <1>9
    <3> QED
      BY <1>3, <1>5, <1>9, <3>1 DEF batch
  <2> QED
    BY <1>3, <1>9, <2>1, <2>2 DEF HandedOver
<1>11. Place(r + 1) = Place(r) + 1 + Len(buf)
  BY <1>1, <1>2, FrameFacts
<1>12. Place(Len(delivered))' = Place(r + 1)
  BY <1>3, <1>9 DEF Place
<1>13. HasSize'
  <2>1. totalBytesRecv' = Place(Len(delivered))'
    BY <1>2, <1>3, <1>11, <1>12
  <2> QED
    BY <1>3, <1>8, <2>1 DEF HasSize
<1>14. ReadTo' = ReadTo
  <2>1. ReadTo' = Place(r + 1) + 0
    BY <1>8, <1>12 DEF ReadTo, Got
  <2>2. Place(r) + (1 + Len(buf)) = Place(r) + 1 + Len(buf) /\ Place(r) + 1 + Len(buf) \in Nat
    BY <1>2
  <2> QED
    BY <1>2, <1>11, <2>1, <2>2
<1>15. Loaded' /\ Sending' /\ OnWire'
  BY <1>1, <1>3, <1>14, OnWireKept
<1> QED
  BY <1>10, <1>13, <1>15 DEF Framed, Receiving

(* and so does a step that changes nothing.                                *)
LEMMA FramedStutters ==
  ASSUME Framed, UNCHANGED transportVars
  PROVE  Framed'
<1>1. /\ PartNum' = PartNum /\ batches' = batches /\ UNCHANGED sender /\ UNCHANGED receiver
      /\ wire' = wire /\ open' = open /\ Loaded /\ Sending /\ Receiving /\ OnWire
  BY DEF transportVars, Framed
<1>2. Loaded' /\ Cells(PartNum, batches)' = Cells(PartNum, batches)
  BY <1>1, LoadedKept
<1>3. Sending' /\ SentTo' = SentTo
  BY <1>1, SendingKept
<1>4. Receiving' /\ ReadTo' = ReadTo /\ recving' = recving
  BY <1>1, ReceivingKept
<1>5. OnWire'
  BY <1>1, <1>2, <1>3, <1>4 DEF OnWire
<1> QED
  BY <1>2, <1>3, <1>4, <1>5 DEF Framed

(* Whatever send() and recv() take and give and wherever the sender stops, *)
(* sender and receiver are at two places of one stream of frames, a size   *)
(* and a payload per batch, with the wire holding the cells between them,  *)
(* and what is parsed of a payload is what was packed (NetworkHelper's     *)
(* sendData, recvData, sendBatchQueries and recvBatchQueries,              *)
(* network.cpp:19-51, 216-305).                                            *)
THEOREM AlwaysFramed == ASSUME TransportConstants PROVE TransportSpec => []Framed
<1>1. TransportInit => Framed
  BY FramedInit
<1>2. Framed /\ [TransportNext]_transportVars => Framed'
  <2> SUFFICES ASSUME Framed, [TransportNext]_transportVars PROVE Framed'
    OBVIOUS
  <2>1. CASE Send
    BY <2>1, FramedSends DEF Send
  <2>2. CASE Receive
    BY <2>2, FramedReceives, FramedFails, FramedParses, FramedDone DEF Receive
  <2>3. CASE SenderStops
    BY <2>3, FramedStops
  <2>4. CASE TransportFinished \/ UNCHANGED transportVars
    BY <2>4, FramedStutters DEF TransportFinished
  <2> QED
    BY <2>1, <2>2, <2>3, <2>4 DEF TransportNext
<1> QED
  BY <1>1, <1>2, PTL DEF TransportSpec

(* The batches handed to the caller of recvBatchQueries are those given to *)
(* sendBatchQueries, in order, whatever their number, their size and the   *)
(* number of partitions; the receiver fails only when the sender is gone,  *)
(* and after the last batch both count the same bytes (network.cpp:216-305). *)
THEOREM BatchesAlwaysIntact == ASSUME TransportConstants PROVE TransportSpec => []BatchesIntact
<1>1. ASSUME Framed PROVE BatchesIntact
  <2>1. Loaded /\ Sending /\ Receiving /\ HandedOver
    BY <1>1 DEF Framed, Receiving
  <2> DEFINE r == Len(delivered)
  <2>2. /\ delivered \in Seq(Seq(QueryOf(PartNum))) /\ r <= Len(batches)
        /\ \A j \in 1 .. r : delivered[j] = batches[j]
    BY <2>1 DEF HandedOver
  <2>3. r \in Nat /\ Len(batches) \in Nat /\ Place(r) \in Nat
    BY <2>1, ReadToIs, StreamFacts
  <2>4. delivered = SubSeq(batches, 1, r)
    <3>1. batches \in Seq(Seq(QueryOf(PartNum)))
      BY <2>1 DEF Loaded
    <3>2. delivered = [j \in 1 .. r |-> delivered[j]]
      BY <2>2
    <3> HIDE DEF r
    <3>3. SubSeq(batches, 1, r) = [j \in 1 .. r |-> batches[j]]
      BY <2>2, <2>3, <3>1
    <3> QED
      BY <2>2, <3>2, <3>3
  <2>5. recving = "failed" => ~ open
    BY <2>1 DEF Receiving, HasSize, HasPayload, Parses, GaveUp
  <2>6. sending = "idle" /\ r = Len(batches) => totalBytesRecv = totalBytesSent
    <3> SUFFICES ASSUME sending = "idle", r = Len(batches) PROVE totalBytesRecv = totalBytesSent
      OBVIOUS
    <3>1. totalBytesSent = Place(r) + 0
      BY <2>1 DEF Sending, Sized
    <3>2. ~ (r < Len(batches))
      BY <2>3
    <3>3. totalBytesRecv = Place(r)
      BY <2>1, <3>2 DEF Receiving, HasSize, HasPayload, Parses, GaveUp
    <3> QED
      BY <2>3, <3>1, <3>3
  <2> QED
    BY <2>2, <2>4, <2>5, <2>6 DEF BatchesIntact
<1>2. TransportSpec => []Framed
  BY AlwaysFramed
<1> QED
  BY <1>1, <1>2, PTL
=============================================================================
