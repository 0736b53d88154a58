---------------------------- MODULE EvaluatorProofs ----------------------------
(***************************************************************************)
(* For every chain of primes, every scheme and every sequence of calls:    *)
(* the headers of ciphertexts and plaintexts are true of what they hold.   *)
(* The form of a ciphertext's data is what the NTTs applied to it made it, *)
(* so a flag set without its transform, or a product taken across domains, *)
(* would show.                                                             *)
(***************************************************************************)
EXTENDS EvaluatorCalls, WellFoundedInduction, SequenceTheorems, TLAPS

LessOnNat == {pair \in Nat \X Nat : pair[1] < pair[2]}

(* Every nonempty set of naturals has a least member.                      *)
LEMMA LeastOf ==
  ASSUME NEW Values, Values \subseteq Nat, Values # {}
  PROVE  \E m \in Values : \A l \in Values : m <= l
<1>1. IsWellFoundedOn(LessOnNat, Nat)
  BY NatLessThanWellFounded DEF OpToRel, LessOnNat
<1>2. PICK m \in Values : \A l \in Values : ~ (<<l, m>> \in LessOnNat)
  BY <1>1, WFMin
<1>3. \A l \in Values : ~ (l < m)
  BY <1>2 DEF LessOnNat
<1> QED
  BY <1>3

(* A function on 0 .. N given by its first value and a step exists.        *)
Iterates(U, S, b, N, step) ==
  /\ U \in [0 .. N -> S]
  /\ U[0] = b
  /\ \A m \in 1 .. N : U[m] = step[m][U[m - 1]]

(* A function on 0 .. N given by its first value and a step for each       *)
(* further argument exists.                                                *)
LEMMA IterationExists ==
  ASSUME NEW S, NEW b \in S, NEW N \in Nat, NEW step \in [1 .. N -> [S -> S]]
  PROVE  \E U : Iterates(U, S, b, N, step)
<1> DEFINE Bad == {m \in 0 .. N : ~ \E U : Iterates(U, S, b, m, step)}
<1> SUFFICES ASSUME Bad # {} PROVE FALSE
  OBVIOUS
<1>1. Bad \subseteq Nat
  OBVIOUS
<1>2. PICK m \in Bad : \A l \in Bad : m <= l
  <2> HIDE DEF Bad
  <2> QED
    BY <1>1, LeastOf
<1>3. m \in 0 .. N /\ ~ \E U : Iterates(U, S, b, m, step)
  OBVIOUS
<1>4. CASE m = 0
  <2> DEFINE V == [l \in 0 .. 0 |-> b]
  <2>1. V \in [0 .. 0 -> S] /\ V[0] = b
    OBVIOUS
  <2>2. Iterates(V, S, b, 0, step)
    BY <2>1 DEF Iterates
  <2> QED
    BY <1>3, <1>4, <2>2
<1>5. CASE m # 0
  <2>1. m - 1 \in 0 .. N /\ ~ (m <= m - 1) /\ m \in 1 .. N /\ m \in Nat
    BY <1>3, <1>5
  <2>2. PICK U : Iterates(U, S, b, m - 1, step)
    BY <1>2, <2>1
  <2> HIDE DEF Bad
  <2>3. U \in [0 .. m - 1 -> S] /\ U[0] = b /\ \A l \in 1 .. m - 1 : U[l] = step[l][U[l - 1]]
    BY <2>2 DEF Iterates
  <2> DEFINE V == [l \in 0 .. m |-> IF l = m THEN step[m][U[m - 1]] ELSE U[l]]
  <2>4. U[m - 1] \in S
    BY <2>1, <2>3
  <2>5. step[m][U[m - 1]] \in S
    BY <2>1, <2>4
  <2>6. \A l \in 0 .. m : V[l] \in S
    BY <2>1, <2>3, <2>5
  <2>7. V \in [0 .. m -> S]
    BY <2>6
  <2>8. V[0] = b
    BY <2>1, <2>3
  <2>9. ASSUME NEW l \in 1 .. m PROVE V[l] = step[l][V[l - 1]]
    <3>1. V[l - 1] = U[l - 1]
      BY <2>1
    <3>2. CASE l = m
      BY <2>1, <3>1, <3>2
    <3>3. CASE l # m
      <4>1. l \in 1 .. m - 1 /\ V[l] = U[l]
        BY <2>1, <3>3
      <4> QED
        BY <2>3, <3>1, <4>1
    <3> QED
      BY <3>2, <3>3
  <2>10. Iterates(V, S, b, m, step)
    BY <2>7, <2>8, <2>9 DEF Iterates
  <2> QED
    BY <1>3, <2>10
<1> QED
  BY <1>4, <1>5

(* The number of bits of a level is that of the level below and its prime. *)
LEMMA BitsOfLevels ==
  /\ Top \in Nat /\ \A l \in 1 .. Top : QBits[l] \in Nat \ {0}
  /\ \A l \in 0 .. Top : total_bits(l) \in Nat
  /\ \A l \in 1 .. Top : total_bits(l) = total_bits(l - 1) + QBits[l]
<1>1. Top \in Nat /\ \A l \in 1 .. Top : QBits[l] \in Nat \ {0}
  <2>1. QBits \in Seq(Nat \ {0})
    BY EvaluatorConstants
  <2> QED
    BY <2>1, LenProperties, ElementOfSeq DEF Top
<1> DEFINE step == [m \in 1 .. Top |-> [x \in Nat |-> x + QBits[m]]]
           bits == CHOOSE U : U = [n \in 0 .. Top |-> IF n = 0 THEN 0 ELSE U[n - 1] + QBits[n]]
<1>2. step \in [1 .. Top -> [Nat -> Nat]]
  <2>1. \A m \in 1 .. Top : \A x \in Nat : x + QBits[m] \in Nat
    BY <1>1
  <2> QED
    BY <2>1
<1>3. PICK U : Iterates(U, Nat, 0, Top, step)
  <2> HIDE DEF step
  <2> QED
    BY <1>1, <1>2, IterationExists
<1>4. U \in [0 .. Top -> Nat] /\ U[0] = 0 /\ \A m \in 1 .. Top : U[m] = step[m][U[m - 1]]
  BY <1>3 DEF Iterates
<1>5. \A m \in 1 .. Top : U[m] = U[m - 1] + QBits[m]
  <2> SUFFICES ASSUME NEW m \in 1 .. Top PROVE U[m] = U[m - 1] + QBits[m]
    OBVIOUS
  <2>1. m - 1 \in 0 .. Top
    BY <1>1
  <2> QED
    BY <1>4, <2>1
<1>6. U = [n \in 0 .. Top |-> IF n = 0 THEN 0 ELSE U[n - 1] + QBits[n]]
  <2>1. \A n \in 0 .. Top : U[n] = IF n = 0 THEN 0 ELSE U[n - 1] + QBits[n]
    <3> HIDE DEF step
    <3> QED
      BY <1>1, <1>4, <1>5
  <2> HIDE DEF step
  <2> QED
    BY <1>4, <2>1
<1>7. bits = [n \in 0 .. Top |-> IF n = 0 THEN 0 ELSE bits[n - 1] + QBits[n]]
  <2> HIDE DEF step
  <2> QED
    BY <1>6
<1>8. \A l : total_bits(l) = bits[l]
  BY DEF total_bits
<1> HIDE DEF step, bits
<1>9. \A n \in 0 .. Top : bits[n] = IF n = 0 THEN 0 ELSE bits[n - 1] + QBits[n]
  BY <1>7
<1>10. \A n \in 0 .. Top : bits[n] \in Nat
  <2> DEFINE Bad == {n \in 0 .. Top : bits[n] \notin Nat}
  <2> SUFFICES ASSUME Bad # {} PROVE FALSE
    OBVIOUS
  <2>1. Bad \subseteq Nat
    OBVIOUS
  <2>2. PICK m \in Bad : \A l \in Bad : m <= l
    <3> HIDE DEF Bad
    <3> QED
      BY <2>1, LeastOf
  <2>3. m \in 0 .. Top /\ m - 1 \notin Bad
    BY <2>2
  <2>4. CASE m = 0
    BY <1>9, <2>2, <2>4
  <2>5. CASE m # 0
    <3>1. bits[m] = bits[m - 1] + QBits[m] /\ QBits[m] \in Nat /\ m - 1 \in 0 .. Top
      BY <1>1, <1>9, <2>3, <2>5
    <3>2. bits[m - 1] \in Nat
      BY <2>3, <3>1
    <3> QED
      BY <2>2, <3>1, <3>2
  <2> QED
    BY <2>4, <2>5
<1>11. \A l \in 1 .. Top : bits[l] = bits[l - 1] + QBits[l]
  BY <1>9
<1> QED
  BY <1>1, <1>8, <1>10, <1>11

(* A header of the scheme, a form flag that is true, a scale that fits;    *)
(* and what a call may leave: a header of the scheme in any case, and all  *)
(* of it when it does not throw.                                           *)
Record(c) == c \in [lvl : 0 .. Top, ntt : BOOLEAN, dat : Int, scale : Int,
                    cf : {c.cf}, seed : {c.seed}, polys : {c.polys}]
Header(c) == /\ Record(c)
             /\ scheme # "CKKS" => c.scale = 0
             /\ scheme # "BGV" => c.cf = 1
FormTrue(c) == c.dat = IF c.ntt THEN 1 ELSE 0
RoomLeft(c) == scheme = "CKKS" => is_scale_within_bounds(c.scale, c.lvl)
Sound(c) == Header(c) /\ (c.lvl # 0 => FormTrue(c) /\ RoomLeft(c))
Result(r) == /\ r.err \in BOOLEAN
             /\ Header(r.ct)
             /\ ~r.err => Sound(r.ct)

(* A destination prepared like an operand has the operand's header, and no *)
(* seed.                                                                   *)
LEMMA LikeKeeps ==
  ASSUME NEW e, NEW p, Header(e)
  PROVE  /\ Header(like(e, p)) /\ like(e, p).lvl = e.lvl /\ like(e, p).scale = e.scale
         /\ like(e, p).dat = e.dat /\ like(e, p).ntt = e.ntt /\ like(e, p).seed = 0
         /\ like(e, p).cf = e.cf /\ like(e, p).polys = p
  BY DEF Header, like, Record

(* A call that throws and leaves its destination alone is harmless.        *)
LEMMA ThrewKeeps ==
  ASSUME NEW d, Header(d) PROVE Result(Threw(d))
  BY DEF Result, Threw

(* A call that returns something sound is harmless.                        *)
LEMMA DoneKeeps ==
  ASSUME NEW d, Sound(d) PROVE Result(Done(d))
  BY DEF Result, Done, Sound

(* negate: the header is its operand's.                                    *)
LEMMA NegateKeeps ==
  ASSUME NEW e, NEW d, Sound(e), Header(d)
  PROVE  Result(negate(e, d))
<1>1. CASE contains_seed(e) \/ e.lvl = 0
  BY <1>1, ThrewKeeps DEF negate
<1>2. CASE ~ (contains_seed(e) \/ e.lvl = 0)
  <2> DEFINE p == [i \in DOMAIN e.polys |-> (T - e.polys[i]) % T]
  <2>1. negate(e, d) = Done(like(e, p))
    BY <1>2 DEF negate
  <2> HIDE DEF p
  <2>2. Sound(like(e, p))
    BY LikeKeeps DEF Sound, FormTrue, RoomLeft
  <2> QED BY <2>1, <2>2, DoneKeeps
<1> QED BY <1>1, <1>2

(* What the products leave: the form of the data is stored last, the scale *)
(* (CKKS) is judged after it was set, the factor (BGV) is any.             *)
LEMMA ReformedKeeps ==
  ASSUME NEW c, NEW f \in Int, Header(c), RoomLeft(c), f = IF c.ntt THEN 1 ELSE 0
  PROVE  Result(Done([c EXCEPT !.dat = f]))
<1>1. Sound([c EXCEPT !.dat = f])
  BY DEF Sound, FormTrue, RoomLeft, Header, Record
<1> QED
  BY <1>1, DoneKeeps

(* A CKKS product whose scale does not fit throws with a header that says  *)
(* so.                                                                     *)
LEMMA ScaledKeeps ==
  ASSUME NEW c, NEW f \in Int, NEW s \in Int, Header(c), scheme = "CKKS",
         f = IF c.ntt THEN 1 ELSE 0
  PROVE  Result([err |-> ~is_scale_within_bounds(s, c.lvl), ct |-> [c EXCEPT !.scale = s, !.dat = f]])
<1> DEFINE r == [c EXCEPT !.scale = s, !.dat = f]
<1>1. Header(r) /\ FormTrue(r) /\ r.lvl = c.lvl /\ r.scale = s
  BY DEF FormTrue, Header, Record
<1>2. Result([err |-> ~is_scale_within_bounds(s, c.lvl), ct |-> r])
  <2> HIDE DEF r
  <2> QED
    BY <1>1 DEF Result, Sound, RoomLeft, is_scale_within_bounds
<1> QED
  BY <1>2

(* A BGV product may have any correction factor.                           *)
LEMMA FactoredKeeps ==
  ASSUME NEW c, NEW f \in Int, NEW x, Header(c), scheme = "BGV", f = IF c.ntt THEN 1 ELSE 0
  PROVE  Result(Done([c EXCEPT !.cf = x, !.dat = f]))
<1>1. Sound([c EXCEPT !.cf = x, !.dat = f])
  BY DEF Sound, FormTrue, RoomLeft, Header, Record
<1> QED
  BY <1>1, DoneKeeps

(* The results of the evaluator's operations: whatever they throw, what    *)
(* they leave has a header of its scheme, and what they return is sound.   *)
LEMMA ExpandKeeps ==
  ASSUME NEW e, Sound(e)
  PROVE  Result(Done(expand_seed(e)))
  BY DoneKeeps DEF expand_seed, Sound, Header, Record, FormTrue, RoomLeft

(* The empty ciphertext, which destinations start as, is sound.            *)
LEMMA NoneIsSound == Sound(NoCiphertext) /\ NoCiphertext.lvl = 0
<1>1. 0 \in 0 .. Top
  BY BitsOfLevels
<1> QED
  BY <1>1 DEF NoCiphertext, Sound, Header, Record, FormTrue, RoomLeft

(* A sum has the header of its first operand. *)
HasForm(c) == Header(c) /\ (c.lvl # 0 => FormTrue(c))

(* add and sub: the sum has its first operand's level, scale and form,     *)
(* balanced (BGV) or not, also when the operand's scale has no room.       *)
LEMMA TranslateForms ==
  ASSUME NEW e1, NEW e2, NEW d, NEW sub, HasForm(e1), HasForm(e2)
  PROVE  \/ translate(e1, e2, d, sub) = Threw(d)
         \/ /\ translate(e1, e2, d, sub) = Done(translate(e1, e2, d, sub).ct)
            /\ HasForm(translate(e1, e2, d, sub).ct)
            /\ translate(e1, e2, d, sub).ct.lvl = e1.lvl
            /\ translate(e1, e2, d, sub).ct.scale = e1.scale
<1>1. CASE TranslateRefuses(e1, e2) \/ contains_seed(d)
  BY <1>1 DEF translate
<1>2. CASE ~ (TranslateRefuses(e1, e2) \/ contains_seed(d))
  <2> DEFINE f == SameForm(e1.dat, e2.dat)
  <2>1. e1.lvl = e2.lvl /\ e1.ntt = e2.ntt /\ e1.lvl # 0
    BY <1>2 DEF TranslateRefuses
  <2>2. f = e1.dat /\ e1.dat \in Int /\ FormTrue(e1) /\ Header(e1)
    BY <2>1 DEF HasForm, FormTrue, SameForm, Header, Record
  <2>3. CASE e1.cf = e2.cf
    <3> DEFINE p == Combined(e1.polys, e2.polys, sub)
               b == like(e1, p)
               r == [b EXCEPT !.dat = f]
    <3>1. translate(e1, e2, d, sub) = Done(r)
      BY <1>2, <2>3 DEF translate
    <3> HIDE DEF p, f
    <3>2. Header(b) /\ b.lvl = e1.lvl /\ b.ntt = e1.ntt /\ b.scale = e1.scale
      BY <2>2, LikeKeeps
    <3> HIDE DEF b
    <3>3. Header(r) /\ r.lvl = e1.lvl /\ r.ntt = e1.ntt /\ r.scale = e1.scale /\ r.dat = e1.dat
      BY <2>2, <3>2 DEF Header, Record
    <3> HIDE DEF r
    <3> QED
      BY <2>2, <3>1, <3>3 DEF Done, HasForm, FormTrue
  <2>4. CASE e1.cf # e2.cf
    <3> DEFINE x == balance_correction_factors(e1.cf, e2.cf)
               p1 == [i \in DOMAIN e1.polys |-> (e1.polys[i] * x.e1) % T]
               p2 == [i \in DOMAIN e2.polys |-> (e2.polys[i] * x.e2) % T]
               p == Combined(p1, p2, sub)
               b == like(e1, p)
               r == [b EXCEPT !.cf = x.prod, !.dat = f]
    <3>1. translate(e1, e2, d, sub) = Done(r)
      BY <1>2, <2>4 DEF translate
    <3>2. scheme = "BGV"
      BY <2>4 DEF HasForm, Header
    <3> HIDE DEF x, p1, p2, p, f
    <3>3. Header(b) /\ b.lvl = e1.lvl /\ b.ntt = e1.ntt /\ b.scale = e1.scale
      BY <2>2, LikeKeeps
    <3> HIDE DEF b
    <3>4. Header(r) /\ r.lvl = e1.lvl /\ r.ntt = e1.ntt /\ r.scale = e1.scale /\ r.dat = e1.dat
      BY <2>2, <3>2, <3>3 DEF Header, Record
    <3> HIDE DEF r
    <3> QED
      BY <2>2, <3>1, <3>4 DEF Done, HasForm, FormTrue
  <2> QED
    BY <2>3, <2>4
<1> QED
  BY <1>1, <1>2

(* add and sub with a destination.                                         *)
LEMMA TranslateKeeps ==
  ASSUME NEW e1, NEW e2, NEW d, NEW sub, Sound(e1), Sound(e2), Header(d)
  PROVE  Result(translate(e1, e2, d, sub))
<1> DEFINE t == translate(e1, e2, d, sub)
<1>1. HasForm(e1) /\ HasForm(e2)
  BY DEF Sound, HasForm
<1>2. \/ t = Threw(d)
      \/ t = Done(t.ct) /\ HasForm(t.ct) /\ t.ct.lvl = e1.lvl /\ t.ct.scale = e1.scale
  BY <1>1, TranslateForms
<1> HIDE DEF t
<1>3. CASE t = Threw(d)
  BY <1>3, ThrewKeeps DEF t
<1>4. CASE t = Done(t.ct) /\ HasForm(t.ct) /\ t.ct.lvl = e1.lvl /\ t.ct.scale = e1.scale
  <2> DEFINE c == t.ct
  <2>1. Sound(c)
    <3> HIDE DEF c
    <3>1. HasForm(c) /\ c.lvl = e1.lvl /\ c.scale = e1.scale
      BY <1>4 DEF c
    <3> QED
      BY <3>1 DEF HasForm, Sound, RoomLeft
  <2>2. t = Done(c)
    BY <1>4
  <2> HIDE DEF c
  <2> QED
    BY <2>1, <2>2, DoneKeeps DEF t
<1> QED
  BY <1>2, <1>3, <1>4

(* add_inplace and sub_inplace.                                            *)
LEMMA TranslateInplaceKeeps ==
  ASSUME NEW e1, NEW e2, NEW sub, Sound(e1), Sound(e2)
  PROVE  Result(translate_inplace(e1, e2, sub))
  BY TranslateKeeps, ThrewKeeps, NoneIsSound DEF translate_inplace, Sound

(* multiply: the transforms of the BFV product cancel, CKKS judges the sum *)
(* of the scales after storing it, BGV multiplies the factors.             *)
LEMMA MultiplyKeeps ==
  ASSUME NEW e1, NEW e2, NEW d, Sound(e1), Sound(e2), Header(d),
         scheme \in {"BFV", "CKKS", "BGV"}
  PROVE  Result(multiply(e1, e2, d))
<1> DEFINE refused == \/ contains_seed(e1) \/ contains_seed(e2) \/ e1.lvl # e2.lvl \/ e1.lvl = 0
                      \/ \E e \in {e1, e2} : e.ntt # (scheme # "BFV")
                      \/ LikeThrows(Len(e1.polys) + Len(e2.polys) - 1)
           p == Convolution(e1.polys, e2.polys)
           c == like(e1, p)
<1>1. CASE refused
  BY <1>1, ThrewKeeps DEF multiply
<1>2. CASE ~ refused
  <2>0. e1.ntt \in BOOLEAN /\ e2.ntt \in BOOLEAN /\ e1.scale \in Int /\ e2.scale \in Int
    BY DEF Sound, Header, Record
  <2>1. e1.lvl = e2.lvl /\ e1.lvl # 0
    BY <1>2
  <2>2. /\ scheme = "BFV" => ~e1.ntt /\ e1.dat = 0 /\ e2.dat = 0
        /\ scheme # "BFV" => e1.ntt /\ e1.dat = 1 /\ e2.dat = 1
    <3>1. e1.ntt = (scheme # "BFV") /\ e2.ntt = (scheme # "BFV")
      BY <1>2, Zenon
    <3> QED
      BY <2>0, <2>1, <3>1 DEF Sound, FormTrue
  <2>6. /\ Header(c) /\ c.lvl = e1.lvl /\ c.ntt = e1.ntt /\ c.scale = e1.scale
        /\ e1.scale \in Int /\ e2.scale \in Int
    <3> HIDE DEF p
    <3> QED
      BY LikeKeeps DEF Sound, Header, Record
  <2>3. CASE scheme = "BFV"
    <3> DEFINE q == [i \in DOMAIN p |-> (p[i] * Inv(Delta(e1.lvl))) % T]
               b == like(e1, q)
               f == SameForm(e1.dat, e2.dat)
    <3>1. multiply(e1, e2, d) = Done([b EXCEPT !.dat = f])
      BY <1>2, <2>3 DEF multiply, BehzProduct
    <3>2. f \in Int /\ f = IF e1.ntt THEN 1 ELSE 0
      BY <2>1, <2>2, <2>3 DEF SameForm
    <3> HIDE DEF p, q, f
    <3>3. Header(b) /\ b.ntt = e1.ntt /\ RoomLeft(b)
      BY <2>3, LikeKeeps DEF Sound, RoomLeft
    <3> HIDE DEF b
    <3>4. f = IF b.ntt THEN 1 ELSE 0
      BY <3>2, <3>3
    <3>5. Result(Done([b EXCEPT !.dat = f]))
      BY <3>2, <3>3, <3>4, ReformedKeeps, Zenon
    <3> QED
      BY <3>1, <3>5
  <2>4. CASE scheme = "CKKS"
    <3> DEFINE x == e1.scale + e2.scale
               f == DyadicForm(e1.dat, e2.dat)
    <3>1. multiply(e1, e2, d) = [err |-> ~is_scale_within_bounds(x, e1.lvl), ct |-> [c EXCEPT !.scale = x, !.dat = f]]
      <4> DEFINE r == [c EXCEPT !.scale = x, !.dat = f]
      <4>1. multiply(e1, e2, d) = [err |-> ~is_scale_within_bounds(r.scale, e1.lvl), ct |-> r]
        BY <1>2, <2>4 DEF multiply
      <4> HIDE DEF c
      <4>2. r.scale = x
        BY <2>6 DEF Header, Record
      <4> QED
        BY <4>1, <4>2
    <3>2. f \in Int /\ f = (IF c.ntt THEN 1 ELSE 0) /\ x \in Int
      <4>1. f = 1
        BY <2>2, <2>4 DEF DyadicForm
      <4>2. c.ntt
        <5> HIDE DEF c
        <5> QED
          BY <2>0, <2>2, <2>4, <2>6
      <4> HIDE DEF c, f
      <4> QED
        BY <2>0, <4>1, <4>2
    <3> HIDE DEF c, x, f
    <3>3. Result([err |-> ~is_scale_within_bounds(x, c.lvl), ct |-> [c EXCEPT !.scale = x, !.dat = f]])
      BY <2>4, <2>6, <3>2, ScaledKeeps, Zenon
    <3> QED
      BY <2>6, <3>1, <3>3, Zenon
  <2>5. CASE scheme = "BGV"
    <3> DEFINE x == (e1.cf * e2.cf) % T
               f == DyadicForm(e1.dat, e2.dat)
    <3>1. multiply(e1, e2, d) = Done([c EXCEPT !.cf = x, !.dat = f])
      BY <1>2, <2>5 DEF multiply
    <3>2. f \in Int /\ f = IF c.ntt THEN 1 ELSE 0
      <4>1. f = 1
        BY <2>2, <2>5 DEF DyadicForm
      <4>2. c.ntt
        <5> HIDE DEF c
        <5> QED
          BY <2>0, <2>2, <2>5, <2>6
      <4> HIDE DEF c, f
      <4> QED
        BY <2>0, <4>1, <4>2
    <3> HIDE DEF c, x, f
    <3>3. Result(Done([c EXCEPT !.cf = x, !.dat = f]))
      BY <2>5, <2>6, <3>2, FactoredKeeps, Zenon
    <3> QED
      BY <3>1, <3>3
  <2> QED
    BY <2>3, <2>4, <2>5
<1> QED
  BY <1>1, <1>2

(* square, whose own path needs two polynomials, and which is multiply     *)
(* otherwise.                                                              *)
LEMMA SquareKeeps ==
  ASSUME NEW e, NEW d, Sound(e), Header(d), scheme \in {"BFV", "CKKS", "BGV"}
  PROVE  Result(square(e, d))
<1> DEFINE refused == contains_seed(e) \/ e.lvl = 0 \/ e.ntt # (scheme # "BFV")
           p == SquarePolys(e)
           c == like(e, p)
<1>1. CASE refused
  BY <1>1, ThrewKeeps DEF square
<1>2. CASE ~ refused /\ Len(e.polys) # 2
  BY <1>2, MultiplyKeeps DEF square
<1>3. CASE ~ refused /\ Len(e.polys) = 2
  <2>0. e.ntt \in BOOLEAN /\ e.scale \in Int
    BY DEF Sound, Header, Record
  <2>1. e.lvl # 0
    BY <1>3
  <2>2. /\ scheme = "BFV" => ~e.ntt /\ e.dat = 0
        /\ scheme # "BFV" => e.ntt /\ e.dat = 1
    <3>1. e.ntt = (scheme # "BFV")
      BY <1>3, Zenon
    <3> QED
      BY <2>0, <2>1, <3>1 DEF Sound, FormTrue
  <2>6. /\ Header(c) /\ c.lvl = e.lvl /\ c.ntt = e.ntt /\ c.scale = e.scale
        /\ e.scale \in Int
    <3> HIDE DEF p
    <3> QED
      BY LikeKeeps DEF Sound, Header, Record
  <2>3. CASE scheme = "BFV"
    <3> DEFINE q == [i \in DOMAIN p |-> (p[i] * Inv(Delta(e.lvl))) % T]
               b == like(e, q)
    <3>1. square(e, d) = Done(b)
      BY <1>3, <2>3 DEF square, BehzSquare
    <3> HIDE DEF p, q
    <3>2. Sound(b)
      BY LikeKeeps DEF Sound, FormTrue, RoomLeft
    <3> HIDE DEF b
    <3> QED
      BY <3>1, <3>2, DoneKeeps
  <2>4. CASE scheme = "CKKS"
    <3> DEFINE x == e.scale + e.scale
               f == DyadicForm(e.dat, e.dat)
    <3>1. square(e, d) = [err |-> ~is_scale_within_bounds(x, e.lvl), ct |-> [c EXCEPT !.scale = x, !.dat = f]]
      BY <1>3, <2>4 DEF square
    <3>2. f \in Int /\ f = (IF c.ntt THEN 1 ELSE 0) /\ x \in Int
      <4>1. f = 1
        BY <2>2, <2>4 DEF DyadicForm
      <4>2. c.ntt
        <5> HIDE DEF c
        <5> QED
          BY <2>0, <2>2, <2>4, <2>6
      <4> HIDE DEF c, f
      <4> QED
        BY <2>0, <4>1, <4>2
    <3> HIDE DEF c, x, f
    <3>3. Result([err |-> ~is_scale_within_bounds(x, c.lvl), ct |-> [c EXCEPT !.scale = x, !.dat = f]])
      BY <2>4, <2>6, <3>2, ScaledKeeps, Zenon
    <3> QED
      BY <2>6, <3>1, <3>3, Zenon
  <2>5. CASE scheme = "BGV"
    <3> DEFINE x == (e.cf * e.cf) % T
               f == DyadicForm(e.dat, e.dat)
    <3>1. square(e, d) = Done([c EXCEPT !.cf = x, !.dat = f])
      BY <1>3, <2>5 DEF square
    <3>2. f \in Int /\ f = IF c.ntt THEN 1 ELSE 0
      <4>1. f = 1
        BY <2>2, <2>5 DEF DyadicForm
      <4>2. c.ntt
        <5> HIDE DEF c
        <5> QED
          BY <2>0, <2>2, <2>5, <2>6
      <4> HIDE DEF c, f
      <4> QED
        BY <2>0, <4>1, <4>2
    <3> HIDE DEF c, x, f
    <3>3. Result(Done([c EXCEPT !.cf = x, !.dat = f]))
      BY <2>5, <2>6, <3>2, FactoredKeeps, Zenon
    <3> QED
      BY <3>1, <3>3
  <2> QED
    BY <2>3, <2>4, <2>5
<1> QED
  BY <1>1, <1>2, <1>3

(* relinearize: in place it keeps the header; with a destination it writes *)
(* one only if there was something to relinearize.                         *)
LEMMA RelinearizeKeeps ==
  ASSUME NEW e, NEW d, Sound(e), Header(d), scheme = "BGV" => e.ntt
  PROVE  /\ Result(relinearize_inplace_internal(e))
         /\ Len(e.polys) # 2 => Result(relinearize_internal(e, d))
<1> DEFINE refused == contains_seed(e) \/ e.lvl = 0 \/ Len(e.polys) < 2
           p == RelinPolys(e.polys)
           r == [e EXCEPT !.polys = p, !.dat = RelinForm(e)]
           s == [like(e, p) EXCEPT !.dat = RelinForm(e)]
<1>1. CASE refused
  BY <1>1, ThrewKeeps DEF relinearize_inplace_internal, relinearize_internal, Sound
<1>2. CASE ~ refused
  <2>1. RelinForm(e) = e.dat /\ e.dat \in Int
    BY <1>2 DEF RelinForm, Sound, FormTrue, SameForm, Header, Record
  <2>2. relinearize_inplace_internal(e) = Done(r)
    BY <1>2 DEF relinearize_inplace_internal
  <2>3. Len(e.polys) # 2 => relinearize_internal(e, d) = Done(s)
    BY <1>2 DEF relinearize_internal
  <2>4. Sound(r)
    BY <2>1 DEF Sound, FormTrue, RoomLeft, Header, Record
  <2>5. Sound(s)
    BY <2>1, LikeKeeps DEF Sound, FormTrue, RoomLeft, Header, Record
  <2> HIDE DEF r, s
  <2> QED
    BY <2>2, <2>3, <2>4, <2>5, DoneKeeps
<1> QED
  BY <1>1, <1>2

(* Modulus switching: the scale loses the prime's bits with the level.     *)
LEMMA ScaleDown ==
  ASSUME NEW e, NEW d, Sound(e), Header(d), scheme \in {"BFV", "CKKS", "BGV"}
  PROVE  Result(mod_switch_scale_to_next_internal(e, d))
<1> DEFINE refused == e.lvl <= 1 \/ e.ntt # (scheme # "BFV") \/ contains_seed(d) \/ LikeThrows(Len(e.polys))
           p == [i \in DOMAIN e.polys |-> (e.polys[i] * Inv(Pow2(QBits[e.lvl]))) % T]
           s == IF scheme = "CKKS" THEN e.scale - QBits[e.lvl] ELSE d.scale
           x == IF scheme = "BGV" THEN (e.cf * Inv(Pow2(QBits[e.lvl]))) % T ELSE d.cf
           r == [d EXCEPT !.lvl = e.lvl - 1, !.ntt = e.ntt, !.dat = e.dat,
                          !.polys = p, !.scale = s, !.cf = x]
<1>1. CASE refused
  BY <1>1, ThrewKeeps DEF mod_switch_scale_to_next_internal
<1>2. CASE ~ refused
  <2>1. mod_switch_scale_to_next_internal(e, d) = Done(r)
    BY <1>2 DEF mod_switch_scale_to_next_internal
  <2>2. /\ e.lvl \in 1 .. Top /\ e.lvl - 1 \in 0 .. Top /\ e.ntt \in BOOLEAN /\ e.dat \in Int
        /\ e.scale \in Int /\ QBits[e.lvl] \in Nat
        /\ total_bits(e.lvl) \in Nat /\ total_bits(e.lvl - 1) \in Nat
        /\ total_bits(e.lvl) = total_bits(e.lvl - 1) + QBits[e.lvl]
    <3>1. e.lvl \in 1 .. Top /\ e.lvl - 1 \in 0 .. Top
      BY <1>2, BitsOfLevels DEF Sound, Header, Record
    <3> QED
      BY <3>1, BitsOfLevels DEF Sound, Header, Record
  <2>3. /\ s \in Int /\ (scheme # "CKKS" => s = 0)
        /\ (scheme # "BGV" => x = 1)
    BY <2>2 DEF Header, Record
  <2>4. scheme = "CKKS" => s < total_bits(e.lvl - 1)
    BY <2>2 DEF Sound, RoomLeft, is_scale_within_bounds
  <2>5. FormTrue(e)
    BY <2>2 DEF Sound
  <2> HIDE DEF p, s, x
  <2>6. /\ Header(r) /\ r.lvl = e.lvl - 1 /\ r.scale = s /\ r.ntt = e.ntt /\ r.dat = e.dat
    BY <2>2, <2>3 DEF Header, Record
  <2> HIDE DEF r
  <2>7. Sound(r)
    BY <2>4, <2>5, <2>6 DEF Sound, FormTrue, RoomLeft, is_scale_within_bounds
  <2> QED
    BY <2>1, <2>7, DoneKeeps
<1> QED
  BY <1>1, <1>2

(* mod_switch_drop_to_internal: dropping primes judges the scale at the    *)
(* new level before it writes.                                             *)
LEMMA DropKeeps ==
  ASSUME NEW e, NEW d, NEW l \in 0 .. Top, Sound(e), Header(d), e.lvl # 0
  PROVE  Result(mod_switch_drop_to_internal(e, d, l))
<1> DEFINE refused == \/ scheme = "CKKS" /\ ~e.ntt
                      \/ e.lvl <= 1 \/ l = 0 \/ ~is_scale_within_bounds(e.scale, l)
                      \/ LikeThrows(Len(e.polys))
           c == like(e, e.polys)
           r == [c EXCEPT !.lvl = l]
<1>1. CASE refused
  BY <1>1, ThrewKeeps DEF mod_switch_drop_to_internal
<1>2. CASE ~ refused
  <2>1. mod_switch_drop_to_internal(e, d, l) = Done(r)
    BY <1>2 DEF mod_switch_drop_to_internal
  <2>2. Header(c) /\ c.ntt = e.ntt /\ c.dat = e.dat /\ c.scale = e.scale
    BY LikeKeeps DEF Sound
  <2> HIDE DEF c
  <2>3. Header(r) /\ r.ntt = e.ntt /\ r.dat = e.dat /\ r.scale = e.scale /\ r.lvl = l
    BY <2>2 DEF Header, Record
  <2> HIDE DEF r
  <2>4. Sound(r)
    BY <1>2, <2>3 DEF Sound, FormTrue, RoomLeft
  <2> QED
    BY <2>1, <2>4, DoneKeeps
<1> QED
  BY <1>1, <1>2

(* mod_switch_to_next and rescale_to_next.                                 *)
LEMMA SwitchToNextKeeps ==
  ASSUME NEW e, NEW d, Sound(e), Header(d), scheme \in {"BFV", "CKKS", "BGV"}
  PROVE  /\ Result(mod_switch_to_next(e, d)) /\ Result(rescale_to_next(e, d))
<1>1. Result(Threw(d)) /\ Result(mod_switch_scale_to_next_internal(e, d))
  BY ThrewKeeps, ScaleDown
<1>2. CASE e.lvl = 0
  <2>1. mod_switch_drop_to_internal(e, d, e.lvl - 1) = Threw(d)
    BY <1>2 DEF mod_switch_drop_to_internal
  <2> QED
    BY <1>1, <2>1 DEF mod_switch_to_next, rescale_to_next
<1>3. CASE e.lvl # 0
  <2>1. e.lvl - 1 \in 0 .. Top
    BY <1>3, BitsOfLevels DEF Sound, Header, Record
  <2>2. Result(mod_switch_drop_to_internal(e, d, e.lvl - 1))
    BY <1>3, <2>1, DropKeeps
  <2> QED
    BY <1>1, <2>2 DEF mod_switch_to_next, rescale_to_next
<1> QED
  BY <1>2, <1>3


(* Down to a level, prime by prime: the loop of mod_switch_to as a         *)
(* function from levels to results, which exists from the top down.        *)
SwitchStep(p) ==
  IF p.err THEN p
  ELSE LET n == mod_switch_to_next(p.ct, NoCiphertext)
       IN  IF n.err THEN Threw(p.ct) ELSE n
Switches(g, b, k, n) ==
  g = [l \in k .. n |-> IF l = n THEN b ELSE SwitchStep(g[l + 1])]

(* mod_switch_to goes down the chain one prime at a time: its loop defines *)
(* a function.                                                             *)
LEMMA SwitchesExist ==
  ASSUME NEW b, NEW k \in Nat, NEW n \in Nat, k <= n
  PROVE  \E g : Switches(g, b, k, n)
<1> DEFINE Bad == {m \in 0 .. n - k : ~ \E g : Switches(g, b, n - m, n)}
<1>1. Bad = {}
  <2> SUFFICES ASSUME Bad # {} PROVE FALSE
    OBVIOUS
  <2>1. Bad \subseteq Nat
    OBVIOUS
  <2>2. PICK m \in Bad : \A j \in Bad : m <= j
    <3> HIDE DEF Bad
    <3> QED
      BY <2>1, LeastOf
  <2>3. m \in 0 .. n - k /\ ~ \E g : Switches(g, b, n - m, n)
    OBVIOUS
  <2>4. CASE m = 0
    <3> DEFINE g == [l \in n .. n |-> b]
    <3>1. g = [l \in n .. n |-> IF l = n THEN b ELSE SwitchStep(g[l + 1])]
      OBVIOUS
    <3>2. Switches(g, b, n - m, n)
      <4>1. n - m = n
        BY <2>4
      <4> HIDE DEF g
      <4> QED
        BY <3>1, <4>1 DEF Switches
    <3> QED
      BY <2>3, <3>2
  <2>5. CASE m # 0
    <3>1. m - 1 \in 0 .. n - k /\ ~ (m <= m - 1) /\ n - (m - 1) = (n - m) + 1 /\ n - m \in Nat
      BY <2>3, <2>5
    <3>2. PICK g : Switches(g, b, (n - m) + 1, n)
      BY <2>2, <3>1
    <3> DEFINE j == n - m
    <3>3. j \in Nat /\ j < n
      BY <2>3, <2>5, <3>1
    <3> HIDE DEF j
    <3> DEFINE h == [l \in j .. n |-> IF l = j THEN SwitchStep(g[j + 1]) ELSE g[l]]
    <3>4. g = [l \in j + 1 .. n |-> IF l = n THEN b ELSE SwitchStep(g[l + 1])]
      BY <3>2 DEF Switches, j
    <3>5. \A l \in j .. n : h[l] = IF l = n THEN b ELSE SwitchStep(h[l + 1])
      <4> SUFFICES ASSUME NEW l \in j .. n PROVE h[l] = IF l = n THEN b ELSE SwitchStep(h[l + 1])
        OBVIOUS
      <4>1. CASE l = j
        <5>1. h[l + 1] = g[j + 1] /\ h[l] = SwitchStep(g[j + 1]) /\ l # n
          BY <3>3, <4>1
        <5> QED
          BY <5>1, <4>1
      <4>2. CASE l # j
        <5>1. l \in j + 1 .. n /\ h[l] = g[l]
          BY <3>3, <4>2
        <5>2. g[l] = IF l = n THEN b ELSE SwitchStep(g[l + 1])
          <6> HIDE DEF h
          <6> QED
            BY <3>4, <5>1
        <5>3. l # n => h[l + 1] = g[l + 1]
          BY <3>3, <5>1
        <5> HIDE DEF h
        <5> QED
          BY <5>1, <5>2, <5>3
      <4> QED
        BY <4>1, <4>2
    <3>6. h = [l \in j .. n |-> h[l]]
      OBVIOUS
    <3> HIDE DEF h
    <3>7. h = [l \in j .. n |-> IF l = n THEN b ELSE SwitchStep(h[l + 1])]
      BY <3>5, <3>6
    <3>8. Switches(h, b, n - m, n)
      BY <3>7 DEF Switches, j
    <3> QED
      BY <2>3, <3>8
  <2> QED
    BY <2>4, <2>5
<1>2. n - k \in 0 .. n - k /\ n - (n - k) = k
  OBVIOUS
<1> QED
  BY <1>1, <1>2

(* Wherever the loop of mod_switch_to stops, by a throw or at its target,  *)
(* it leaves a sound ciphertext or throws.                                 *)
LEMMA SwitchesKeep ==
  ASSUME NEW b, NEW k \in Nat, NEW n \in Nat, k <= n, NEW g, Switches(g, b, k, n),
         Result(b), scheme \in {"BFV", "CKKS", "BGV"}
  PROVE  Result(g[k])
<1> DEFINE Bad == {m \in 0 .. n - k : ~ Result(g[n - m])}
<1>1. Bad = {}
  <2> SUFFICES ASSUME Bad # {} PROVE FALSE
    OBVIOUS
  <2>1. Bad \subseteq Nat
    OBVIOUS
  <2>2. PICK m \in Bad : \A j \in Bad : m <= j
    <3> HIDE DEF Bad
    <3> QED
      BY <2>1, LeastOf
  <2>3. m \in 0 .. n - k /\ ~ Result(g[n - m])
    OBVIOUS
  <2> DEFINE l == n - m
  <2>4. l \in k .. n
    BY <2>3
  <2>5. g[l] = IF l = n THEN b ELSE SwitchStep(g[l + 1])
    <3> HIDE DEF l
    <3> QED
      BY <2>4 DEF Switches
  <2>6. m # 0 /\ l # n
    BY <2>3, <2>5
  <2>7. m - 1 \in 0 .. n - k /\ ~ (m <= m - 1) /\ n - (m - 1) = l + 1
    BY <2>3, <2>6
  <2>8. Result(g[l + 1])
    BY <2>2, <2>7
  <2> DEFINE p == g[l + 1]
             x == mod_switch_to_next(p.ct, NoCiphertext)
  <2>9. Result(p) /\ g[l] = SwitchStep(p)
    BY <2>5, <2>6, <2>8
  <2> HIDE DEF l, p
  <2>10. CASE p.err
    <3>1. g[l] = p
      BY <2>9, <2>10 DEF SwitchStep
    <3> QED
      BY <2>3, <2>9, <3>1 DEF l
  <2>11. CASE ~ p.err
    <3>1. Sound(p.ct) /\ Header(p.ct)
      BY <2>9, <2>11 DEF Result
    <3>2. Result(x) /\ Result(Threw(p.ct))
      BY <3>1, NoneIsSound, SwitchToNextKeeps, ThrewKeeps DEF Sound
    <3>3. g[l] = IF x.err THEN Threw(p.ct) ELSE x
      BY <2>9, <2>11 DEF SwitchStep
    <3> HIDE DEF x
    <3>4. Result(g[l])
      BY <3>2, <3>3
    <3> QED
      BY <2>3, <3>4 DEF l
  <2> QED
    BY <2>10, <2>11
<1>2. n - k \in 0 .. n - k /\ n - (n - k) = k
  OBVIOUS
<1> QED
  BY <1>1, <1>2

(* mod_switch_to.                                                          *)
LEMMA SwitchToKeeps ==
  ASSUME NEW e, NEW d, NEW target \in 0 .. Top, Sound(e), Header(d),
         scheme \in {"BFV", "CKKS", "BGV"}
  PROVE  Result(mod_switch_to(e, target, d))
<1>0. e.lvl \in Nat /\ target \in Nat
  BY BitsOfLevels DEF Sound, Header, Record
<1>1. CASE e.lvl < target \/ target = 0
  BY <1>1, ThrewKeeps DEF mod_switch_to
<1>2. CASE ~ (e.lvl < target \/ target = 0) /\ e.lvl = target
  BY <1>2, DoneKeeps DEF mod_switch_to
<1>3. CASE ~ (e.lvl < target \/ target = 0) /\ e.lvl # target /\ scheme = "CKKS"
  <2>1. e.lvl # 0
    BY <1>0, <1>3
  <2> QED
    BY <1>3, <2>1, DropKeeps DEF mod_switch_to
<1>4. CASE ~ (e.lvl < target \/ target = 0) /\ e.lvl # target /\ scheme # "CKKS"
  <2> DEFINE n == e.lvl - 1
             b == mod_switch_to_next(e, d)
             r == CHOOSE g : Switches(g, b, target, n)
  <2>1. n \in Nat /\ target <= n
    BY <1>0, <1>4
  <2>2. Result(b)
    BY SwitchToNextKeeps
  <2>3. mod_switch_to(e, target, d) = r[target]
    BY <1>4 DEF mod_switch_to, Switches, SwitchStep
  <2> HIDE DEF n, b
  <2>4. Switches(r, b, target, n)
    BY <1>0, <2>1, SwitchesExist
  <2> HIDE DEF r
  <2> QED
    BY <1>0, <2>1, <2>2, <2>3, <2>4, SwitchesKeep
<1> QED
  BY <1>0, <1>1, <1>2, <1>3, <1>4

(* transform_to_ntt and transform_from_ntt: the flag changes with the      *)
(* data.                                                                   *)
LEMMA TransformKeeps ==
  ASSUME NEW e, NEW d, Sound(e), Header(d)
  PROVE  /\ Result(transform_to_ntt(e, d))
         /\ ~transform_to_ntt(e, d).err => /\ transform_to_ntt(e, d).ct.ntt
                                           /\ transform_to_ntt(e, d).ct.lvl = e.lvl
         /\ Result(transform_from_ntt(e, d))
<1> DEFINE x == e.dat + 1
           y == e.dat - 1
           r == [e EXCEPT !.ntt = TRUE, !.dat = x]
           s == [e EXCEPT !.ntt = FALSE, !.dat = y]
<1>1. Result(Threw(d)) /\ Threw(d).err
  BY ThrewKeeps DEF Threw
<1>2. CASE contains_seed(e) \/ e.lvl = 0
  BY <1>1, <1>2 DEF transform_to_ntt, transform_from_ntt
<1>3. CASE ~ (contains_seed(e) \/ e.lvl = 0)
  <2>1. FormTrue(e) /\ RoomLeft(e) /\ e.ntt \in BOOLEAN
    BY <1>3 DEF Sound, Header, Record
  <2>2. ASSUME ~e.ntt PROVE Sound(r) /\ r.ntt /\ r.lvl = e.lvl
    <3>0. x \in Int
      BY DEF Sound, Header, Record
    <3> HIDE DEF x
    <3>1. Record(r) /\ r.lvl = e.lvl /\ r.ntt = TRUE /\ r.dat = x /\ r.scale = e.scale /\ r.cf = e.cf
      BY <3>0 DEF Sound, Header, Record
    <3> HIDE DEF r
    <3> QED
      BY <2>1, <2>2, <3>1 DEF Sound, FormTrue, RoomLeft, Header, x
  <2>3. ASSUME e.ntt PROVE Sound(s)
    <3>0. y \in Int
      BY DEF Sound, Header, Record
    <3> HIDE DEF y
    <3>1. Record(s) /\ s.lvl = e.lvl /\ s.ntt = FALSE /\ s.dat = y /\ s.scale = e.scale /\ s.cf = e.cf
      BY <3>0 DEF Sound, Header, Record
    <3> HIDE DEF s
    <3> QED
      BY <2>1, <2>3, <3>1 DEF Sound, FormTrue, RoomLeft, Header, y
  <2>4. /\ e.ntt => transform_to_ntt(e, d) = Threw(d)
        /\ ~e.ntt => transform_to_ntt(e, d) = Done(r)
    BY <1>3 DEF transform_to_ntt
  <2>5. /\ ~e.ntt => transform_from_ntt(e, d) = Threw(d)
        /\ e.ntt => transform_from_ntt(e, d) = Done(s)
    BY <1>3 DEF transform_from_ntt
  <2> HIDE DEF r, s
  <2>6. ~e.ntt => Result(Done(r)) /\ Done(r).ct = r
    BY <2>2, DoneKeeps DEF Done
  <2>7. e.ntt => Result(Done(s))
    BY <2>3, DoneKeeps
  <2> QED
    BY <1>1, <2>1, <2>2, <2>4, <2>5, <2>6, <2>7
<1> QED
  BY <1>2, <1>3

(* Plaintexts. *)
PlainSound(p) ==
  /\ p \in [lvl : 0 .. Top, ntt : BOOLEAN, dat : Int, scale : Int, val : {p.val}]
  /\ p.dat = IF p.ntt THEN 1 ELSE 0
  /\ scheme # "CKKS" => p.scale = 0
PlainResult(r) == r.err \in BOOLEAN /\ (~r.err => PlainSound(r.ct))

(* A call on a plaintext that throws leaves it alone.                      *)
LEMMA PlainThrew ==
  ASSUME NEW d PROVE PlainResult(Threw(d)) /\ Threw(d).err
  BY DEF PlainResult, Threw

(* A call on a plaintext that returns something sound is harmless.         *)
LEMMA PlainDone ==
  ASSUME NEW p, PlainSound(p) PROVE PlainResult(Done(p)) /\ Done(p).ct = p
  BY DEF PlainResult, Done

(* The operations on plaintexts keep the flag true and the unused scale    *)
(* zero.                                                                   *)
LEMMA PlaintextsKeep ==
  ASSUME NEW p, NEW l \in 1 .. Top, NEW d, PlainSound(p)
  PROVE  /\ PlainResult(bfv_centralize(p, l, d)) /\ PlainResult(bfv_scale_up(p, l, d))
         /\ PlainResult(transform_plain_to_ntt_inplace(p, l))
         /\ PlainResult(transform_plain_from_ntt(p, d))
         /\ PlainResult(mod_switch_plain_to(p, l, d)) /\ PlainResult(mod_switch_plain_to_next(p, d))
<1>0. l \in 0 .. Top /\ l # 0 /\ p.lvl \in 0 .. Top /\ p.ntt \in BOOLEAN /\ p.dat \in Int
  BY BitsOfLevels DEF PlainSound
<1>1. PlainResult(Threw(d)) /\ PlainResult(Threw(p)) /\ PlainResult(Done(p))
  BY PlainThrew, PlainDone
<1>2. PlainResult(bfv_centralize(p, l, d))
  <2> DEFINE r == [p EXCEPT !.lvl = l]
  <2>1. PlainSound(r)
    BY <1>0 DEF PlainSound
  <2>2. bfv_centralize(p, l, d) \in {Threw(d), Done(r)}
    BY DEF bfv_centralize
  <2> HIDE DEF r
  <2> QED
    BY <1>1, <2>1, <2>2, PlainDone
<1>3. PlainResult(bfv_scale_up(p, l, d))
  <2> DEFINE r == [p EXCEPT !.lvl = l, !.val = (p.val * Delta(l)) % T]
  <2>1. PlainSound(r)
    BY <1>0 DEF PlainSound
  <2>2. bfv_scale_up(p, l, d) \in {Threw(d), Done(r)}
    BY DEF bfv_scale_up
  <2> HIDE DEF r
  <2> QED
    BY <1>1, <2>1, <2>2, PlainDone
<1>4. PlainResult(transform_plain_to_ntt_inplace(p, l))
  <2> DEFINE s == IF p.lvl = 0 THEN 0 ELSE p.scale
             x == p.dat + 1
             r == [p EXCEPT !.lvl = l, !.ntt = TRUE, !.dat = x, !.scale = s]
  <2>1. s \in Int /\ (scheme # "CKKS" => s = 0)
    BY DEF PlainSound
  <2>2. \/ transform_plain_to_ntt_inplace(p, l) = Threw(p)
        \/ ~p.ntt /\ transform_plain_to_ntt_inplace(p, l) = Done(r)
    BY <1>0 DEF transform_plain_to_ntt_inplace
  <2> HIDE DEF s
  <2>3. ASSUME ~p.ntt PROVE PlainSound(r)
    <3>0. x \in Int
      BY <1>0
    <3> HIDE DEF x
    <3>1. r.ntt = TRUE /\ r.dat = x /\ r.scale = s /\ r.val = p.val
          /\ r \in [lvl : 0 .. Top, ntt : BOOLEAN, dat : Int, scale : Int, val : {p.val}]
      BY <1>0, <2>1, <3>0 DEF PlainSound
    <3> HIDE DEF r
    <3> QED
      BY <2>1, <2>3, <3>1 DEF PlainSound, x
  <2> HIDE DEF r
  <2> QED
    BY <1>1, <2>2, <2>3, PlainDone
<1>5. PlainResult(transform_plain_from_ntt(p, d))
  <2> DEFINE x == p.dat - 1
             r == [p EXCEPT !.ntt = FALSE, !.dat = x]
  <2>1. \/ transform_plain_from_ntt(p, d) = Threw(d)
        \/ p.ntt /\ transform_plain_from_ntt(p, d) = Done(r)
    BY <1>0 DEF transform_plain_from_ntt
  <2>2. ASSUME p.ntt PROVE PlainSound(r)
    <3>0. x \in Int
      BY <1>0
    <3> HIDE DEF x
    <3>1. r.ntt = FALSE /\ r.dat = x /\ r.scale = p.scale /\ r.val = p.val
          /\ r \in [lvl : 0 .. Top, ntt : BOOLEAN, dat : Int, scale : Int, val : {p.val}]
      BY <1>0, <3>0 DEF PlainSound
    <3> HIDE DEF r
    <3> QED
      BY <2>2, <3>1 DEF PlainSound, x
  <2> HIDE DEF r
  <2> QED
    BY <1>1, <2>1, <2>2, PlainDone
<1>6. PlainResult(mod_switch_plain_to(p, l, d))
  <2> DEFINE r == [p EXCEPT !.lvl = l]
  <2>1. PlainSound(r)
    BY <1>0 DEF PlainSound
  <2>2. mod_switch_plain_to(p, l, d) \in {Threw(d), Done(p), Done(r)}
    BY DEF mod_switch_plain_to
  <2> HIDE DEF r
  <2> QED
    BY <1>1, <2>1, <2>2, PlainDone
<1>7. PlainResult(mod_switch_plain_to_next(p, d))
  <2> DEFINE r == [p EXCEPT !.lvl = @ - 1]
  <2>1. \/ mod_switch_plain_to_next(p, d) = Threw(d)
        \/ p.lvl > 1 /\ mod_switch_plain_to_next(p, d) = Done(r)
    BY <1>0, BitsOfLevels DEF mod_switch_plain_to_next
  <2>2. p.lvl > 1 => PlainSound(r)
    BY <1>0, BitsOfLevels DEF PlainSound
  <2> HIDE DEF r
  <2> QED
    BY <1>1, <2>1, <2>2, PlainDone
<1> QED
  BY <1>2, <1>3, <1>4, <1>5, <1>6, <1>7

(* transform_plain_to_ntt also gives the plaintext the level it was asked  *)
(* for.                                                                    *)
LEMMA PlainToNttKeeps ==
  ASSUME NEW p, NEW l \in 0 .. Top, NEW d, PlainSound(p)
  PROVE  /\ PlainResult(transform_plain_to_ntt(p, l, d))
         /\ ~transform_plain_to_ntt(p, l, d).err =>
              /\ transform_plain_to_ntt(p, l, d).ct.ntt
              /\ transform_plain_to_ntt(p, l, d).ct.lvl = l
              /\ transform_plain_to_ntt(p, l, d).ct.scale = p.scale
<1> DEFINE x == p.dat + 1
           r == [p EXCEPT !.lvl = l, !.ntt = TRUE, !.dat = x]
           s == [p EXCEPT !.lvl = l, !.dat = Garbage]
<1>1. \/ transform_plain_to_ntt(p, l, d) \in {Threw(d), Threw(s)}
      \/ ~p.ntt /\ transform_plain_to_ntt(p, l, d) = Done(r)
  BY DEF transform_plain_to_ntt
<1>2. ASSUME ~p.ntt PROVE PlainSound(r) /\ r.ntt /\ r.lvl = l /\ r.scale = p.scale
  <2>0. x \in Int
    BY DEF PlainSound
  <2> HIDE DEF x
  <2>1. r.ntt = TRUE /\ r.dat = x /\ r.scale = p.scale /\ r.val = p.val /\ r.lvl = l
        /\ r \in [lvl : 0 .. Top, ntt : BOOLEAN, dat : Int, scale : Int, val : {p.val}]
    BY <2>0 DEF PlainSound
  <2> HIDE DEF r
  <2> QED
    BY <1>2, <2>1 DEF PlainSound, x
<1> HIDE DEF r, s
<1>3. CASE transform_plain_to_ntt(p, l, d) \in {Threw(d), Threw(s)}
  BY <1>3, PlainThrew
<1>4. CASE ~p.ntt /\ transform_plain_to_ntt(p, l, d) = Done(r)
  BY <1>2, <1>4, PlainDone
<1> QED
  BY <1>1, <1>3, <1>4

(* Sums with a plaintext: the addend has the ciphertext's form.  p has a   *)
(* level the scheme adds: the ciphertext's own for CKKS.                   *)
LEMMA AddendForm ==
  ASSUME NEW e, NEW p, Sound(e), PlainSound(p), ~TranslatePlainRefuses(e, p),
         scheme \in {"BFV", "CKKS", "BGV"}, scheme = "CKKS" => p.lvl = e.lvl
  PROVE  SameForm(e.dat, Addend(e, p)[2]) = e.dat /\ e.dat \in Int /\ FormTrue(e) /\ RoomLeft(e)
<1>1. e.lvl # 0 /\ e.lvl \in Nat /\ e.dat \in Int /\ e.ntt \in BOOLEAN /\ p.ntt \in BOOLEAN /\ p.dat \in Int
  <2>1. e.lvl # 0
    BY DEF TranslatePlainRefuses
  <2> QED
    BY <2>1, BitsOfLevels DEF Sound, Header, Record, PlainSound
<1>2. FormTrue(e) /\ RoomLeft(e)
  BY <1>1 DEF Sound
<1>3. CASE scheme = "BFV"
  <2>1. e.ntt = p.ntt
    BY <1>3 DEF TranslatePlainRefuses
  <2>2. Addend(e, p)[2] = p.dat
    BY <1>3 DEF Addend
  <2> QED
    BY <1>1, <1>2, <2>1, <2>2 DEF FormTrue, PlainSound, SameForm
<1>4. CASE scheme = "CKKS"
  <2>1. e.ntt /\ p.ntt /\ p.lvl = e.lvl
    BY <1>1, <1>4 DEF TranslatePlainRefuses
  <2>2. Addend(e, p)[2] = p.dat
    BY <1>1, <1>4, <2>1 DEF Addend, PlainForm
  <2> QED
    BY <1>1, <1>2, <2>1, <2>2 DEF FormTrue, PlainSound, SameForm
<1>5. CASE scheme = "BGV"
  <2>1. e.ntt /\ ~p.ntt
    BY <1>1, <1>5 DEF TranslatePlainRefuses
  <2>2. Addend(e, p)[2] = p.dat + 1
    BY <1>5 DEF Addend
  <2>3. p.dat = 0 /\ e.dat = 1
    BY <1>2, <2>1 DEF FormTrue, PlainSound
  <2> QED
    BY <1>1, <1>2, <2>2, <2>3 DEF SameForm
<1> QED
  BY <1>3, <1>4, <1>5

(* add_plain and sub_plain, with a destination and in place.               *)
LEMMA TranslatePlainKeeps ==
  ASSUME NEW e, NEW p, NEW d, NEW sub, Sound(e), PlainSound(p), Header(d),
         scheme \in {"BFV", "CKKS", "BGV"}, scheme = "CKKS" => p.lvl = e.lvl
  PROVE  Result(translate_plain(e, p, d, sub)) /\ Result(translate_plain_inplace(e, p, sub))
<1>1. ASSUME NEW c, Header(c) PROVE Result(translate_plain(e, p, c, sub))
  <2>1. CASE TranslatePlainRefuses(e, p)
    BY <1>1, <2>1, ThrewKeeps DEF translate_plain
  <2>2. CASE ~TranslatePlainRefuses(e, p) /\ scheme # "CKKS" /\ p.lvl \notin {0, e.lvl}
    <3> DEFINE b == like(e, e.polys)
               r == [b EXCEPT !.dat = Garbage]
    <3>1. translate_plain(e, p, c, sub) = Threw(r)
      BY <2>2 DEF translate_plain
    <3>2. Header(b)
      BY LikeKeeps DEF Sound
    <3> HIDE DEF b
    <3>3. Garbage \in Int
      BY DEF Garbage
    <3>4. Header(r)
      BY <3>2, <3>3 DEF Header, Record
    <3> QED
      BY <3>1, <3>4, ThrewKeeps
  <2>3. CASE ~TranslatePlainRefuses(e, p) /\ ~(scheme # "CKKS" /\ p.lvl \notin {0, e.lvl})
    <3> DEFINE x == IF sub THEN (T - 1) * Addend(e, p)[1] ELSE Addend(e, p)[1]
               b == like(e, [e.polys EXCEPT ![1] = (@ + x) % T])
               f == SameForm(e.dat, Addend(e, p)[2])
    <3>1. translate_plain(e, p, c, sub) = Done([b EXCEPT !.dat = f])
      BY <2>3 DEF translate_plain
    <3>2. f = e.dat /\ f \in Int /\ FormTrue(e) /\ RoomLeft(e)
      BY <2>3, AddendForm
    <3> HIDE DEF x, f
    <3>3. Header(b) /\ RoomLeft(b) /\ f = IF b.ntt THEN 1 ELSE 0
      BY <3>2, LikeKeeps DEF Sound, RoomLeft, FormTrue
    <3> HIDE DEF b
    <3>4. Result(Done([b EXCEPT !.dat = f]))
      BY <3>2, <3>3, ReformedKeeps, Zenon
    <3> QED
      BY <3>1, <3>4
  <2> QED
    BY <2>1, <2>2, <2>3
<1>2. Result(translate_plain(e, p, d, sub)) /\ Result(translate_plain(e, p, e, sub)) /\ Result(Threw(e))
  BY <1>1, ThrewKeeps DEF Sound
<1> QED
  BY <1>2 DEF translate_plain_inplace

(* A product whose form is f, put under the header of h, a ciphertext of   *)
(* the same level and scale as e.                                          *)
LEMMA ScaledProduct ==
  ASSUME NEW e, NEW p, NEW h, NEW q, NEW f \in Int, Header(h), Header(e), PlainSound(p),
         h.lvl = e.lvl, h.scale = e.scale, f = IF h.ntt THEN 1 ELSE 0,
         scheme \in {"BFV", "CKKS", "BGV"}
  PROVE  Result(Scaled(e, p, [like(h, q) EXCEPT !.dat = f]))
<1> DEFINE c == like(h, q)
           r == [c EXCEPT !.dat = f]
           s == e.scale + p.scale
<1>1. Header(c) /\ c.ntt = h.ntt /\ c.lvl = e.lvl /\ c.scale = e.scale
  BY LikeKeeps
<1>2. s \in Int
  BY DEF Header, Record, PlainSound
<1>3. CASE scheme # "CKKS"
  <2> HIDE DEF c
  <2>1. RoomLeft(c) /\ f = IF c.ntt THEN 1 ELSE 0
    BY <1>1, <1>3 DEF RoomLeft
  <2>2. Result(Done([c EXCEPT !.dat = f]))
    BY <1>1, <2>1, ReformedKeeps, Zenon
  <2>3. Scaled(e, p, [c EXCEPT !.dat = f]) = Done([c EXCEPT !.dat = f])
    BY <1>3 DEF Scaled
  <2> QED
    BY <2>2, <2>3 DEF c
<1>4. CASE scheme = "CKKS"
  <2> HIDE DEF c
  <2>1. f = IF c.ntt THEN 1 ELSE 0
    BY <1>1
  <2> HIDE DEF s
  <2>2. Result([err |-> ~is_scale_within_bounds(s, c.lvl), ct |-> [c EXCEPT !.scale = s, !.dat = f]])
    BY <1>1, <1>2, <1>4, <2>1, ScaledKeeps, Zenon
  <2>3. [[c EXCEPT !.dat = f] EXCEPT !.scale = s] = [c EXCEPT !.scale = s, !.dat = f]
    BY <1>1, <1>2 DEF Header, Record
  <2>4. Scaled(e, p, [c EXCEPT !.dat = f])
          = [err |-> ~is_scale_within_bounds(s, e.lvl), ct |-> [[c EXCEPT !.dat = f] EXCEPT !.scale = s]]
    BY <1>4 DEF Scaled, s
  <2>5. Scaled(e, p, [c EXCEPT !.dat = f])
          = [err |-> ~is_scale_within_bounds(s, c.lvl), ct |-> [c EXCEPT !.scale = s, !.dat = f]]
    BY <1>1, <2>3, <2>4, Zenon
  <2> QED
    BY <2>2, <2>5, Zenon DEF c
<1> QED
  BY <1>3, <1>4

(* The two direct products with a plaintext: in the NTT domain the levels  *)
(* are compared; the normal one reads a plaintext of too few primes past   *)
(* its end, so it needs the level.                                         *)
LEMMA MultiplyPlainForms ==
  ASSUME NEW e, NEW p, NEW d, Sound(e), PlainSound(p), Header(d), scheme \in {"BFV", "CKKS", "BGV"}
  PROVE  /\ e.ntt /\ p.ntt => Result(multiply_plain_ntt(e, p, d))
         /\ ~e.ntt /\ ~p.ntt /\ p.lvl \in {0, e.lvl} => Result(multiply_plain_normal(e, p, d))
<1>0. Header(e) /\ e.lvl \in Nat /\ e.dat \in Int /\ e.ntt \in BOOLEAN /\ p.ntt \in BOOLEAN /\ p.dat \in Int
  BY BitsOfLevels DEF Sound, Header, Record, PlainSound
<1>1. Result(Threw(d))
  BY ThrewKeeps
<1> DEFINE q == ProductPolys(e, p)
<1>2. ASSUME e.ntt, p.ntt PROVE Result(multiply_plain_ntt(e, p, d))
  <2>1. CASE contains_seed(e) \/ e.lvl # p.lvl \/ e.lvl = 0
    BY <1>1, <2>1 DEF multiply_plain_ntt
  <2>2. CASE ~ (contains_seed(e) \/ e.lvl # p.lvl \/ e.lvl = 0)
    <3> DEFINE f == DyadicForm(e.dat, p.dat)
    <3>1. multiply_plain_ntt(e, p, d) = Scaled(e, p, [like(e, q) EXCEPT !.dat = f])
      BY <2>2 DEF multiply_plain_ntt
    <3>2. e.dat = 1 /\ p.dat = 1
      BY <1>2, <2>2 DEF Sound, FormTrue, PlainSound
    <3>3. f = 1
      BY <3>2 DEF DyadicForm
    <3>4. f \in Int /\ f = IF e.ntt THEN 1 ELSE 0
      BY <1>2, <3>3
    <3> HIDE DEF f, q
    <3>5. Result(Scaled(e, p, [like(e, q) EXCEPT !.dat = f]))
      BY <1>0, <3>4, ScaledProduct, Zenon
    <3> QED
      BY <3>1, <3>5
  <2> QED
    BY <2>1, <2>2
<1>3. ASSUME ~e.ntt, ~p.ntt, p.lvl \in {0, e.lvl} PROVE Result(multiply_plain_normal(e, p, d))
  <2>1. CASE contains_seed(e) \/ e.lvl = 0
    BY <1>1, <2>1 DEF multiply_plain_normal
  <2>2. CASE ~ (contains_seed(e) \/ e.lvl = 0)
    <3> DEFINE f == DyadicForm(e.dat + 1, PlainForm(e, p) + 1) - 1
    <3>1. multiply_plain_normal(e, p, d) = Scaled(e, p, [like(e, q) EXCEPT !.dat = f])
      BY <2>2 DEF multiply_plain_normal
    <3>2. e.dat = 0 /\ PlainForm(e, p) = 0
      BY <1>0, <1>3, <2>2 DEF Sound, FormTrue, PlainSound, PlainForm
    <3>3. f = 0
      BY <3>2 DEF DyadicForm
    <3>4. f \in Int /\ f = IF e.ntt THEN 1 ELSE 0
      BY <1>3, <3>3
    <3> HIDE DEF f, q
    <3>5. Result(Scaled(e, p, [like(e, q) EXCEPT !.dat = f]))
      BY <1>0, <3>4, ScaledProduct, Zenon
    <3> QED
      BY <3>1, <3>5
  <2> QED
    BY <2>1, <2>2
<1> QED
  BY <1>2, <1>3

(* multiply_plain in the four combinations of the operands' domains: the   *)
(* mixed ones transform one operand, and the ciphertext's product back.    *)
LEMMA MultiplyPlainKeeps ==
  ASSUME NEW e, NEW p, NEW d, Sound(e), PlainSound(p), Header(d), scheme \in {"BFV", "CKKS", "BGV"},
         p.lvl \in {0, e.lvl}
  PROVE  Result(multiply_plain(e, p, d))
<1>0. e.lvl \in 0 .. Top /\ e.ntt \in BOOLEAN /\ p.ntt \in BOOLEAN
  BY DEF Sound, Header, Record, PlainSound
<1>1. Result(Threw(d))
  BY ThrewKeeps
<1>2. CASE e.ntt /\ p.ntt
  BY <1>2, MultiplyPlainForms DEF multiply_plain
<1>3. CASE ~e.ntt /\ ~p.ntt
  BY <1>3, MultiplyPlainForms DEF multiply_plain
<1>4. CASE e.ntt /\ ~p.ntt
  <2> DEFINE q == transform_plain_to_ntt(p, e.lvl, NoPlaintext)
  <2>1. multiply_plain(e, p, d) = IF q.err THEN Threw(d) ELSE multiply_plain_ntt(e, q.ct, d)
    BY <1>4 DEF multiply_plain
  <2>2. PlainResult(q) /\ (~q.err => q.ct.ntt)
    BY <1>0, PlainToNttKeeps
  <2> HIDE DEF q
  <2>3. CASE q.err
    BY <1>1, <2>1, <2>3
  <2>4. CASE ~q.err
    <3>1. PlainSound(q.ct) /\ q.ct.ntt
      BY <2>2, <2>4 DEF PlainResult
    <3> QED
      BY <1>4, <2>1, <2>4, <3>1, MultiplyPlainForms
  <2> QED
    BY <2>3, <2>4
<1>5. CASE ~e.ntt /\ p.ntt
  <2> DEFINE f == transform_to_ntt(e, NoCiphertext)
             r == multiply_plain_ntt(f.ct, p, d)
  <2>1. multiply_plain(e, p, d) = IF f.err THEN Threw(d) ELSE IF r.err THEN r ELSE transform_from_ntt(r.ct, r.ct)
    BY <1>5 DEF multiply_plain
  <2>2. Result(f) /\ (~f.err => f.ct.ntt)
    BY NoneIsSound, TransformKeeps DEF Sound
  <2> HIDE DEF f
  <2>3. CASE f.err
    BY <1>1, <2>1, <2>3
  <2>4. CASE ~f.err
    <3>1. Sound(f.ct) /\ f.ct.ntt
      BY <2>2, <2>4 DEF Result
    <3>2. Result(r)
      BY <1>5, <3>1, MultiplyPlainForms
    <3> HIDE DEF r
    <3>3. ~r.err => Sound(r.ct) /\ Header(r.ct)
      BY <3>2 DEF Result
    <3>4. ~r.err => Result(transform_from_ntt(r.ct, r.ct))
      BY <3>3, TransformKeeps
    <3> QED
      BY <2>1, <2>4, <3>2, <3>4
  <2> QED
    BY <2>3, <2>4
<1> QED
  BY <1>0, <1>2, <1>3, <1>4, <1>5

(* Lists of two ciphertexts: a list worked on in place is taken over when  *)
(* none of its results threw, and then all of them are sound.              *)
TakenSound(rs) == rs[1].err \/ rs[2].err \/ (Sound(rs[1].ct) /\ Sound(rs[2].ct))

(* A list of two of which one throws is refused whole.                     *)
LEMMA AllOrNoneKeeps ==
  ASSUME NEW rs, DOMAIN rs = 1 .. 2, Result(rs[1]), Result(rs[2])
  PROVE  TakenSound(rs) /\ TakenSound(AllOrNone(rs))
<1>1. TakenSound(rs)
  BY DEF TakenSound, Result
<1>2. CASE \E i \in DOMAIN rs : rs[i].err
  <2>1. AllOrNone(rs) = [i \in DOMAIN rs |-> Threw(rs[i].ct)]
    BY <1>2 DEF AllOrNone
  <2>2. AllOrNone(rs)[1] = Threw(rs[1].ct)
    BY <2>1
  <2>3. AllOrNone(rs)[1].err
    BY <2>2 DEF Threw
  <2> QED
    BY <1>1, <2>3 DEF TakenSound
<1>3. CASE ~ \E i \in DOMAIN rs : rs[i].err
  BY <1>1, <1>3 DEF AllOrNone
<1> QED
  BY <1>1, <1>2, <1>3

(* A refused list changes nothing.                                         *)
LEMMA RefusedKeeps ==
  ASSUME NEW a, NEW b
  PROVE  TakenSound(Refused(<<a, b>>))
<1>1. Refused(<<a, b>>)[1] = Threw(a)
  BY DEF Refused
<1> QED
  BY <1>1 DEF TakenSound, Threw

(* The in-place operations on lists of two ciphertexts.                    *)
LEMMA BatchesKeep ==
  ASSUME NEW a, NEW b, NEW c, NEW sub, NEW l \in 0 .. Top, NEW to,
         Sound(a), Sound(b), Sound(c), scheme \in {"BFV", "CKKS", "BGV"}
  PROVE  /\ TakenSound(negate_inplace_batched(<<a, b>>))
         /\ TakenSound(translate_inplace_batched(<<a, b>>, <<c, c>>, sub))
         /\ TakenSound(mod_switch_to_inplace_batched(<<a, b>>, l))
         /\ TakenSound(transform_inplace_batched(<<a, b>>, to))
<1>0. /\ DOMAIN <<a, b>> = 1 .. 2 /\ <<a, b>>[1] = a /\ <<a, b>>[2] = b
      /\ <<c, c>>[1] = c /\ <<c, c>>[2] = c /\ Header(a) /\ Header(b) /\ Sound(NoCiphertext) /\ Header(NoCiphertext)
  BY NoneIsSound DEF Sound
<1> DEFINE es == <<a, b>>
           cs == <<c, c>>
<1> HIDE DEF es, cs
<1>00. DOMAIN es = 1 .. 2 /\ es[1] = a /\ es[2] = b /\ cs[1] = c /\ cs[2] = c
  BY <1>0 DEF es, cs
<1>01. TakenSound(Refused(es))
  BY RefusedKeeps DEF es
<1>1. TakenSound(negate_inplace_batched(es))
  <2> DEFINE rs == [i \in DOMAIN es |-> negate(es[i], es[i])]
  <2>1. DOMAIN rs = 1 .. 2 /\ rs[1] = negate(a, a) /\ rs[2] = negate(b, b)
    BY <1>00
  <2>2. negate_inplace_batched(es) \in {Refused(es), AllOrNone(rs)}
    BY DEF negate_inplace_batched
  <2> HIDE DEF rs
  <2>3. Result(rs[1]) /\ Result(rs[2])
    BY <1>0, <2>1, NegateKeeps
  <2>4. TakenSound(AllOrNone(rs))
    BY <2>1, <2>3, AllOrNoneKeeps
  <2> QED
    BY <1>01, <2>2, <2>4
<1>2. TakenSound(translate_inplace_batched(es, cs, sub))
  <2> DEFINE rs == [i \in DOMAIN es |-> translate_inplace(es[i], cs[i], sub)]
  <2>1. DOMAIN rs = 1 .. 2 /\ rs[1] = translate_inplace(a, c, sub) /\ rs[2] = translate_inplace(b, c, sub)
    BY <1>00
  <2>2. translate_inplace_batched(es, cs, sub) \in {Refused(es), AllOrNone(rs)}
    BY DEF translate_inplace_batched
  <2> HIDE DEF rs
  <2>3. Result(rs[1]) /\ Result(rs[2])
    BY <2>1, TranslateInplaceKeeps
  <2>4. TakenSound(AllOrNone(rs))
    BY <2>1, <2>3, AllOrNoneKeeps
  <2> QED
    BY <1>01, <2>2, <2>4
<1>3. TakenSound(mod_switch_to_inplace_batched(es, l))
  <2> DEFINE rs == [i \in DOMAIN es |-> mod_switch_to(es[i], l, NoCiphertext)]
  <2>1. DOMAIN rs = 1 .. 2 /\ rs[1] = mod_switch_to(a, l, NoCiphertext) /\ rs[2] = mod_switch_to(b, l, NoCiphertext)
    BY <1>00
  <2>2. mod_switch_to_inplace_batched(es, l) \in {Refused(es), AllOrNone(rs)}
    BY DEF mod_switch_to_inplace_batched
  <2> HIDE DEF rs
  <2>3. Result(rs[1]) /\ Result(rs[2])
    BY <1>0, <2>1, SwitchToKeeps
  <2>4. TakenSound(AllOrNone(rs))
    BY <2>1, <2>3, AllOrNoneKeeps
  <2> QED
    BY <1>01, <2>2, <2>4
<1>4. TakenSound(transform_inplace_batched(es, to))
  <2> DEFINE rs == [i \in DOMAIN es |-> IF to THEN transform_to_ntt(es[i], es[i])
                                        ELSE transform_from_ntt(es[i], es[i])]
  <2>1. /\ DOMAIN rs = 1 .. 2
        /\ rs[1] = IF to THEN transform_to_ntt(a, a) ELSE transform_from_ntt(a, a)
        /\ rs[2] = IF to THEN transform_to_ntt(b, b) ELSE transform_from_ntt(b, b)
    BY <1>00
  <2>2. transform_inplace_batched(es, to) \in {Refused(es), AllOrNone(rs)}
    BY DEF transform_inplace_batched
  <2> HIDE DEF rs
  <2>3. Result(rs[1]) /\ Result(rs[2])
    BY <1>0, <2>1, TransformKeeps
  <2>4. TakenSound(AllOrNone(rs))
    BY <2>1, <2>3, AllOrNoneKeeps
  <2> QED
    BY <1>01, <2>2, <2>4
<1> QED
  BY <1>1, <1>2, <1>3, <1>4 DEF es, cs

(* A list of one: where the tails were listed twice the data is garbage.   *)
LEMMA TranslateBatchedKeeps ==
  ASSUME NEW a, NEW b, NEW d, NEW sub, Sound(a), Sound(b), Header(d),
         scheme \in {"BFV", "CKKS", "BGV"}
  PROVE  Result(translate_batched(<<a>>, <<b>>, <<d>>, sub)[1])
<1> DEFINE es1 == <<a>>
           es2 == <<b>>
           ds == <<d>>
<1>1. DOMAIN es1 = {1} /\ 1 \in DOMAIN es1 /\ es1[1] = a /\ es2[1] = b /\ ds[1] = d
  OBVIOUS
<1> HIDE DEF es1, es2, ds
<1> DEFINE rs == translate_batched(es1, es2, ds, sub)
           refused == ~SameHeader(es1) \/ ~SameHeader(es2) \/ \E i \in DOMAIN es1 : TranslateRefuses(es1[i], es2[i])
           short == Len(es1[1].polys) < Len(es2[1].polys) /\ es1[1].cf = es2[1].cf
           r(i) == translate(es1[i], es2[i], NoCiphertext, sub).ct
           t == translate(a, b, NoCiphertext, sub)
<1>2. CASE refused
  <2>1. rs = [i \in DOMAIN es1 |-> Threw(ds[i])]
    BY <1>2 DEF translate_batched
  <2>2. rs[1] = Threw(d)
    <3> HIDE DEF rs
    <3> QED
      BY <1>1, <2>1
  <2> QED
    BY <2>2, ThrewKeeps DEF es1, es2, ds
<1>3. CASE ~refused /\ (~SameFactor(es1) \/ ~SameFactor(es2))
  <2>1. rs = [i \in DOMAIN es1 |-> Threw(NoCiphertext)]
    BY <1>3 DEF translate_batched
  <2>2. rs[1] = Threw(NoCiphertext)
    <3> HIDE DEF rs
    <3> QED
      BY <1>1, <2>1
  <2> QED
    BY <2>2, ThrewKeeps, NoneIsSound DEF es1, es2, ds, Sound
<1>4. CASE ~refused /\ ~(~SameFactor(es1) \/ ~SameFactor(es2))
  <2>1. rs = [i \in DOMAIN es1 |-> IF short THEN Threw([r(i) EXCEPT !.dat = Garbage]) ELSE Done(r(i))]
    BY <1>4 DEF translate_batched
  <2>2. rs[1] = IF short THEN Threw([t.ct EXCEPT !.dat = Garbage]) ELSE Done(t.ct)
    <3> HIDE DEF rs, short
    <3> QED
      BY <1>1, <2>1
  <2>3. Result(t) /\ NoCiphertext.seed = 0
    BY TranslateKeeps, NoneIsSound DEF Sound, NoCiphertext
  <2>4. ~TranslateRefuses(a, b)
    BY <1>1, <1>4
  <2>5. ~t.err
    BY <2>3, <2>4 DEF translate, contains_seed, Done
  <2> HIDE DEF t, rs, short
  <2>6. Sound(t.ct) /\ Header(t.ct)
    BY <2>3, <2>5 DEF Result
  <2>7. Header([t.ct EXCEPT !.dat = Garbage])
    BY <2>6 DEF Header, Record, Garbage
  <2>8. Result(rs[1])
    BY <2>2, <2>6, <2>7, ThrewKeeps, DoneKeeps
  <2> QED
    BY <2>8 DEF rs, es1, es2, ds
<1> QED
  BY <1>2, <1>3, <1>4

(* Products of a list with one plaintext, each under the first's header.   *)
LEMMA NttBatchedKeeps ==
  ASSUME NEW es, NEW ps, NEW ds, DOMAIN es = 1 .. 2, scheme \in {"BFV", "CKKS", "BGV"},
         Sound(es[1]), Sound(es[2]), es[1].ntt, es[2].ntt, Header(ds[1]), Header(ds[2]),
         PlainSound(ps[1]), PlainSound(ps[2]), ps[1].ntt, ps[2].ntt, ps[1].scale = ps[2].scale,
         ps[1].lvl \in {0, es[1].lvl}, ps[2].lvl \in {0, es[2].lvl}
  PROVE  LET r == multiply_plain_ntt_batched(es, ps, ds)
         IN  r[1].err \/ (~r[2].err /\ Sound(r[1].ct) /\ Sound(r[2].ct))
<1> DEFINE r == multiply_plain_ntt_batched(es, ps, ds)
           refused == ~SameHeader(es) \/ es[1].lvl = 0 \/ \E i \in DOMAIN es : contains_seed(es[i])
<1>0. 1 \in DOMAIN es /\ 2 \in DOMAIN es
  OBVIOUS
<1>1. CASE refused
  <2>1. r = [i \in DOMAIN es |-> Threw(ds[i])]
    BY <1>1 DEF multiply_plain_ntt_batched
  <2>2. r[1] = Threw(ds[1])
    BY <1>0, <2>1
  <2> QED
    BY <2>2 DEF Threw
<1>2. CASE ~refused
  <2>1. es[2].lvl = es[1].lvl /\ es[2].scale = es[1].scale /\ es[1].lvl # 0
    BY <1>0, <1>2 DEF SameHeader
  <2> DEFINE f(i) == DyadicForm(es[i].dat, PlainForm(es[i], ps[i]))
             s(i) == Scaled(es[i], ps[i], [like(es[1], ProductPolys(es[i], ps[i])) EXCEPT !.dat = f(i)])
  <2>2. r = [i \in DOMAIN es |-> s(i)]
    BY <1>2 DEF multiply_plain_ntt_batched
  <2>3. r[1] = s(1) /\ r[2] = s(2)
    <3> HIDE DEF r, s
    <3> QED
      BY <1>0, <2>2
  <2>4. ASSUME NEW i \in {1, 2} PROVE Result(s(i))
    <3>1. PlainForm(es[i], ps[i]) = 1 /\ es[i].dat = 1
      <4>1. es[i].dat = 1 /\ ps[i].dat = 1
        BY <2>1 DEF Sound, FormTrue, PlainSound
      <4>2. ps[i].lvl = 0 \/ ps[i].lvl = es[i].lvl
        BY <2>1
      <4>3. es[i].lvl \in Nat
        BY BitsOfLevels DEF Sound, Header, Record
      <4> QED
        BY <4>1, <4>2, <4>3 DEF PlainForm
    <3>2. f(i) = 1
      BY <3>1 DEF DyadicForm
    <3> DEFINE x == f(i)
    <3>3. x \in Int /\ x = IF es[1].ntt THEN 1 ELSE 0
      BY <3>2
    <3> HIDE DEF x
    <3>4. Header(es[1]) /\ Header(es[i]) /\ PlainSound(ps[i]) /\ es[1].lvl = es[i].lvl /\ es[1].scale = es[i].scale
      BY <2>1 DEF Sound
    <3> DEFINE e == es[i]
               p == ps[i]
               h == es[1]
               q == ProductPolys(e, p)
    <3>5. Header(h) /\ Header(e) /\ PlainSound(p) /\ h.lvl = e.lvl /\ h.scale = e.scale /\ x = IF h.ntt THEN 1 ELSE 0
      BY <3>3, <3>4
    <3> HIDE DEF e, p, h, q
    <3>6. Result(Scaled(e, p, [like(h, q) EXCEPT !.dat = x]))
      BY <3>3, <3>5, ScaledProduct, Zenon
    <3> QED
      BY <3>6, Zenon DEF e, p, h, q, x
  <2>5. s(1).err => s(2).err
    BY <2>1 DEF Scaled, Done
  <2>6. s(2).err => s(1).err
    BY <2>1 DEF Scaled, Done
  <2> HIDE DEF s, r
  <2>7. Result(s(1)) /\ Result(s(2))
    BY <2>4
  <2> QED
    BY <2>3, <2>6, <2>7 DEF Result, r
<1> QED
  BY <1>1, <1>2

(* multiply_plain on a list of two ciphertexts and one plaintext, which    *)
(* may transform the ciphertexts there and back.                           *)
LEMMA MultiplyPlainBatchedKeeps ==
  ASSUME NEW a, NEW b, NEW p, Sound(a), Sound(b), PlainSound(p),
         p.lvl \in {0, a.lvl}, p.lvl \in {0, b.lvl}, scheme \in {"BFV", "CKKS", "BGV"}
  PROVE  TakenSound(multiply_plain_batched(<<a, b>>, <<p, p>>, <<NoCiphertext, NoCiphertext>>))
<1> DEFINE es == <<a, b>>
           ps == <<p, p>>
           ds == <<NoCiphertext, NoCiphertext>>
<1>1. /\ DOMAIN es = 1 .. 2 /\ es[1] = a /\ es[2] = b /\ ps[1] = p /\ ps[2] = p
      /\ ds[1] = NoCiphertext /\ ds[2] = NoCiphertext
  OBVIOUS
<1>0. /\ a.ntt \in BOOLEAN /\ b.ntt \in BOOLEAN /\ p.ntt \in BOOLEAN /\ Header(NoCiphertext)
      /\ a.lvl \in 0 .. Top /\ b.lvl \in 0 .. Top /\ Header(a) /\ Header(b)
  BY NoneIsSound DEF Sound, Header, Record, PlainSound
<1> HIDE DEF es, ps, ds
<1> DEFINE mixed == \E i, j \in DOMAIN es : es[i].ntt # es[j].ntt \/ ps[i].ntt # ps[j].ntt
           f == [i \in DOMAIN es |-> IF es[i].ntt THEN Done(es[i]) ELSE transform_to_ntt(es[i], NoCiphertext)]
           q == [i \in DOMAIN es |->
                   IF ps[i].ntt THEN Done(ps[i]) ELSE transform_plain_to_ntt(ps[i], es[1].lvl, NoPlaintext)]
           fs == [i \in DOMAIN es |-> f[i].ct]
           qs == [i \in DOMAIN es |-> q[i].ct]
           r == multiply_plain_ntt_batched(fs, qs, ds)
           res == multiply_plain_batched(es, ps, ds)
           threw == [i \in DOMAIN es |-> Threw(ds[i])]
           normal == [i \in DOMAIN es |-> multiply_plain_normal(es[i], ps[i], ds[i])]
           back == [i \in DOMAIN es |-> transform_from_ntt(r[i].ct, r[i].ct)]
<1>2. TakenSound(threw)
  BY <1>1 DEF TakenSound, Threw
<1>3. CASE mixed
  BY <1>2, <1>3 DEF multiply_plain_batched, es, ps, ds
<1>4. CASE ~mixed
  <2>1. a.ntt = b.ntt
    BY <1>1, <1>4
  <2>2. res = IF ~es[1].ntt /\ ~ps[1].ntt
              THEN IF ~SameHeader(es) THEN threw ELSE normal
              ELSE IF \E i \in DOMAIN es : f[i].err \/ q[i].err THEN threw
              ELSE IF es[1].ntt \/ r[1].err THEN r
              ELSE back
    BY <1>4 DEF multiply_plain_batched
  <2>3. /\ f[1] = IF a.ntt THEN Done(a) ELSE transform_to_ntt(a, NoCiphertext)
        /\ f[2] = IF b.ntt THEN Done(b) ELSE transform_to_ntt(b, NoCiphertext)
        /\ q[1] = IF p.ntt THEN Done(p) ELSE transform_plain_to_ntt(p, a.lvl, NoPlaintext)
        /\ q[2] = q[1]
        /\ fs[1] = f[1].ct /\ fs[2] = f[2].ct /\ qs[1] = q[1].ct /\ qs[2] = q[2].ct /\ DOMAIN fs = 1 .. 2
    BY <1>1
  <2>4. CASE ~a.ntt /\ ~p.ntt
    <3>1. normal[1] = multiply_plain_normal(a, p, NoCiphertext) /\ normal[2] = multiply_plain_normal(b, p, NoCiphertext)
          /\ DOMAIN normal = 1 .. 2
      BY <1>1
    <3>2. Result(normal[1]) /\ Result(normal[2])
      BY <1>0, <2>1, <2>4, <3>1, MultiplyPlainForms
    <3> HIDE DEF normal
    <3>3. TakenSound(normal)
      BY <3>1, <3>2, AllOrNoneKeeps
    <3> HIDE DEF threw, res, r
    <3>4. res \in {threw, normal}
      BY <1>1, <2>2, <2>4
    <3>5. TakenSound(res)
      BY <1>2, <3>3, <3>4
    <3> QED
      BY <3>5 DEF res, es, ps, ds
  <2>5. CASE ~(~a.ntt /\ ~p.ntt) /\ ~(f[1].err \/ f[2].err \/ q[1].err)
    <3>1. Result(f[1]) /\ f[1].ct.ntt /\ f[1].ct.lvl = a.lvl
      BY <1>0, <2>3, <2>5, DoneKeeps, TransformKeeps DEF Done
    <3>2. Result(f[2]) /\ f[2].ct.ntt /\ f[2].ct.lvl = b.lvl
      BY <1>0, <2>1, <2>3, <2>5, DoneKeeps, TransformKeeps DEF Done
    <3>3. PlainResult(q[1]) /\ q[1].ct.ntt /\ q[1].ct.lvl \in {0, a.lvl}
      BY <1>0, <2>3, <2>5, PlainDone, PlainToNttKeeps
    <3> HIDE DEF f, q, fs, qs
    <3>4. Sound(fs[1]) /\ Sound(fs[2]) /\ PlainSound(qs[1]) /\ PlainSound(qs[2])
      BY <2>3, <2>5, <3>1, <3>2, <3>3 DEF Result, PlainResult
    <3>5. CASE b.lvl = a.lvl
      <4>1. r[1].err \/ (~r[2].err /\ Sound(r[1].ct) /\ Sound(r[2].ct))
        BY <1>0, <1>1, <2>3, <3>1, <3>2, <3>3, <3>4, <3>5, NttBatchedKeeps
      <4>2. back[1] = transform_from_ntt(r[1].ct, r[1].ct) /\ back[2] = transform_from_ntt(r[2].ct, r[2].ct)
            /\ DOMAIN back = 1 .. 2
        BY <1>1
      <4> HIDE DEF r, back, threw, res
      <4>3. TakenSound(r)
        BY <4>1 DEF TakenSound
      <4>4. ~r[1].err => TakenSound(back)
        <5> SUFFICES ASSUME ~r[1].err PROVE TakenSound(back)
          OBVIOUS
        <5>1. Sound(r[1].ct) /\ Sound(r[2].ct) /\ Header(r[1].ct) /\ Header(r[2].ct)
          BY <4>1 DEF Sound
        <5>2. Result(back[1]) /\ Result(back[2])
          BY <4>2, <5>1, TransformKeeps
        <5> QED
          BY <4>2, <5>2, AllOrNoneKeeps
      <4>5. TakenSound(res)
        BY <1>2, <2>2, <4>3, <4>4, <1>1, <2>5
      <4> QED
        BY <4>5 DEF res, es, ps, ds
    <3>6. CASE b.lvl # a.lvl
      <4>1. ~SameHeader(fs)
        BY <2>3, <3>1, <3>2, <3>6 DEF SameHeader
      <4>2. r = [i \in DOMAIN fs |-> Threw(ds[i])]
        BY <4>1 DEF multiply_plain_ntt_batched
      <4> HIDE DEF r
      <4>3. r[1] = Threw(ds[1])
        BY <2>3, <4>2
      <4>4. r[1].err
        BY <4>3 DEF Threw
      <4>5. TakenSound(r)
        BY <4>4 DEF TakenSound
      <4> HIDE DEF back, threw, res
      <4>6. res \in {threw, r}
        BY <1>1, <2>2, <2>5, <4>4
      <4>7. TakenSound(res)
        BY <1>2, <4>5, <4>6
      <4> QED
        BY <4>7 DEF res, es, ps, ds
    <3> QED
      BY <3>5, <3>6
  <2>6. CASE ~(~a.ntt /\ ~p.ntt) /\ (f[1].err \/ f[2].err \/ q[1].err)
    <3> HIDE DEF f, q, r, back, threw, res
    <3>1. \E i \in DOMAIN es : f[i].err \/ q[i].err
      BY <1>1, <2>6
    <3>2. res = threw
      BY <1>1, <2>2, <2>6, <3>1
    <3>3. TakenSound(res)
      BY <1>2, <3>2
    <3> QED
      BY <3>3 DEF res, es, ps, ds
  <2> QED
    BY <2>4, <2>5, <2>6
<1> QED
  BY <1>3, <1>4

(* What a product in the other domain leaves, whether its scale fits or    *)
(* not: the header of its ciphertext, but for the scale.                   *)
LEMMA NormalForms ==
  ASSUME NEW e, NEW p, NEW d, Sound(e), PlainSound(p), ~e.ntt, ~p.ntt, p.lvl \in {0, e.lvl},
         e.lvl # 0, e.seed = 0, scheme \in {"BFV", "CKKS", "BGV"}
  PROVE  /\ HasForm(multiply_plain_normal(e, p, d).ct)
         /\ multiply_plain_normal(e, p, d).ct.lvl = e.lvl
<1> DEFINE f == DyadicForm(e.dat + 1, PlainForm(e, p) + 1) - 1
           c == like(e, ProductPolys(e, p))
           r == [c EXCEPT !.dat = f]
           s == [r EXCEPT !.scale = e.scale + p.scale]
           m == multiply_plain_normal(e, p, d)
<1>1. m = Scaled(e, p, r)
  BY DEF multiply_plain_normal, contains_seed
<1>2. m.ct = IF scheme # "CKKS" THEN r ELSE s
  BY <1>1 DEF Scaled, Done
<1>3. e.dat = 0 /\ PlainForm(e, p) = 0
  <2>1. e.lvl \in Nat
    BY BitsOfLevels DEF Sound, Header, Record
  <2> QED
    BY <2>1 DEF Sound, FormTrue, PlainSound, PlainForm
<1>4. f = 0
  BY <1>3 DEF DyadicForm
<1>5. Header(c) /\ c.lvl = e.lvl /\ c.ntt = e.ntt
  BY LikeKeeps DEF Sound
<1> HIDE DEF c, f
<1>6. Header(r) /\ r.lvl = e.lvl /\ r.ntt = e.ntt /\ r.dat = 0
  BY <1>4, <1>5 DEF Header, Record
<1> HIDE DEF r
<1> DEFINE x == e.scale + p.scale
<1>7. x \in Int
  BY DEF Sound, Header, Record, PlainSound
<1> HIDE DEF x
<1>8. s = [r EXCEPT !.scale = x]
  BY DEF x
<1> HIDE DEF s
<1>9. scheme = "CKKS" => Header(s) /\ s.lvl = e.lvl /\ s.ntt = e.ntt /\ s.dat = 0
  BY <1>6, <1>7, <1>8 DEF Header, Record
<1> HIDE DEF m
<1>10. HasForm(m.ct) /\ m.ct.lvl = e.lvl
  BY <1>2, <1>6, <1>9 DEF HasForm, FormTrue
<1> QED
  BY <1>10 DEF m

(* A product in the NTT domain added into a destination leaves the         *)
(* destination's form.                                                     *)
LEMMA IntoNtt ==
  ASSUME NEW d, NEW e, NEW p, HasForm(d), Sound(e), PlainSound(p), d.lvl = e.lvl, d.lvl # 0,
         d.ntt, e.ntt, p.ntt, p.lvl \in {0, e.lvl}, scheme \in {"BFV", "CKKS", "BGV"}
  PROVE  /\ HasForm(AccumulateInto(d, e, p)) /\ AccumulateInto(d, e, p).lvl = d.lvl
         /\ AccumulateInto(d, e, p).ntt
<1> DEFINE q == [i \in DOMAIN d.polys |-> (d.polys[i] + e.polys[i] * p.val) % T]
           f == IF DyadicForm(e.dat, PlainForm(e, p)) = 1 THEN SameForm(d.dat, 1) ELSE Garbage
           x == IF scheme = "CKKS" THEN e.scale + p.scale ELSE d.scale
           r == [d EXCEPT !.polys = q, !.dat = f, !.scale = x]
<1>1. e.dat = 1 /\ d.dat = 1 /\ PlainForm(e, p) = 1
  <2>1. e.lvl \in Nat
    BY BitsOfLevels DEF Sound, Header, Record
  <2> QED
    BY <2>1 DEF Sound, HasForm, FormTrue, PlainSound, PlainForm
<1>2. f = 1
  BY <1>1 DEF DyadicForm, SameForm
<1>3. x \in Int /\ (scheme # "CKKS" => x = 0)
  BY DEF HasForm, Sound, Header, Record, PlainSound
<1>4. AccumulateInto(d, e, p) = r
  BY Zenon DEF AccumulateInto
<1> HIDE DEF q, f, x
<1>5. Header(r) /\ r.lvl = d.lvl /\ r.ntt = d.ntt /\ r.dat = 1
  <2>1. Header(d) /\ f \in Int
    BY <1>2 DEF HasForm
  <2>2. Record(r) /\ r.lvl = d.lvl /\ r.ntt = d.ntt /\ r.dat = f /\ r.scale = x /\ r.cf = d.cf
    BY <1>3, <2>1 DEF Header, Record
  <2> HIDE DEF r
  <2> QED
    BY <1>2, <1>3, <2>1, <2>2 DEF Header
<1> HIDE DEF r
<1> QED
  BY <1>4, <1>5 DEF HasForm, FormTrue


(* multiply_plain_accumulate of two products into one destination: the     *)
(* sum's form is its products' in each of the domains the program asks     *)
(* for, and its scale is judged at the end.                                *)
LEMMA AccumulateKeeps ==
  ASSUME NEW a, NEW b, NEW p, NEW d, NEW set_zero \in BOOLEAN,
         Sound(a), Sound(b), PlainSound(p), Header(d), ~set_zero => Sound(d),
         p.lvl \in {0, a.lvl}, p.lvl \in {0, b.lvl}, scheme \in {"BFV", "CKKS", "BGV"},
         a.ntt \/ ~p.ntt
  PROVE  Result(multiply_plain_accumulate(<<a, b>>, <<p, p>>, d, set_zero))
<1> DEFINE es == <<a, b>>
           ps == <<p, p>>
           refused == \/ \E i, j \in DOMAIN es : es[i].ntt # es[j].ntt \/ ps[i].ntt # ps[j].ntt
                      \/ ~SameHeader(es) \/ es[1].lvl = 0 \/ \E i \in DOMAIN es : contains_seed(es[i])
           ntt == es[1].ntt \/ ps[1].ntt
           f(i) == IF ntt /\ ~es[i].ntt THEN [es[i] EXCEPT !.ntt = TRUE, !.dat = @ + 1] ELSE es[i]
           q(i) == IF ntt /\ ~ps[i].ntt THEN transform_plain_to_ntt(ps[i], es[1].lvl, NoPlaintext)
                   ELSE Done(ps[i])
           zero == [like(f(Len(es)), [i \in DOMAIN es[1].polys |-> 0]) EXCEPT !.dat = IF ntt THEN 1 ELSE 0]
           d0 == IF set_zero THEN zero ELSE d
           next(i, c) ==
             IF ntt THEN AccumulateInto(c, f(i), q(i).ct)
             ELSE LET m == multiply_plain_normal(es[i], ps[i], NoCiphertext).ct
                  IN  translate([c EXCEPT !.scale = m.scale], m, NoCiphertext, FALSE).ct
           acc == CHOOSE g : g = [i \in 0 .. Len(es) |-> IF i = 0 THEN d0 ELSE next(i, g[i - 1])]
           back == [acc[Len(es)] EXCEPT !.ntt = FALSE, !.dat = @ - Len(es)]
           threw == \/ \E i \in DOMAIN es : q(i).err
                    \/ ~set_zero /\ (d.lvl # es[1].lvl \/ d.ntt # f(1).ntt)
           res == multiply_plain_accumulate(es, ps, d, set_zero)
<1>1. CASE refused
  <2>1. res = Threw(d)
    BY <1>1 DEF multiply_plain_accumulate
  <2> QED
    BY <2>1, ThrewKeeps
<1>2. CASE ~refused /\ threw
  <2>1. res = Threw(d)
    BY <1>2 DEF multiply_plain_accumulate
  <2> QED
    BY <2>1, ThrewKeeps
<1>3. CASE ~refused /\ ~threw
  <2>1. res = [err |-> scheme = "CKKS" /\ ~is_scale_within_bounds(acc[Len(es)].scale, es[1].lvl),
               ct  |-> IF ~es[1].ntt /\ ps[1].ntt THEN back ELSE acc[Len(es)]]
    BY <1>3 DEF multiply_plain_accumulate
  <2>2. /\ DOMAIN es = 1 .. 2 /\ Len(es) = 2 /\ es[1] = a /\ es[2] = b /\ ps[1] = p /\ ps[2] = p
    OBVIOUS
  <2> HIDE DEF es, ps
  <2>3. /\ a.ntt = b.ntt /\ a.lvl = b.lvl /\ a.lvl # 0 /\ a.seed = 0 /\ b.seed = 0
    BY <1>3, <2>2 DEF SameHeader, contains_seed
  <2>4. /\ ntt = (a.ntt \/ p.ntt) /\ a.ntt \in BOOLEAN /\ b.ntt \in BOOLEAN /\ p.ntt \in BOOLEAN
        /\ (ntt <=> a.ntt) /\ f(1) = a /\ f(2) = b
        /\ a.lvl \in 0 .. Top
    BY <2>2, <2>3 DEF Sound, Header, Record, PlainSound
  <2>5. acc[2] = next(2, next(1, d0))
    <3> HIDE DEF d0, next
    <3> DEFINE g == [i \in 0 .. 2 |-> IF i = 0 THEN d0 ELSE IF i = 1 THEN next(1, d0) ELSE next(2, next(1, d0))]
    <3>1. g = [i \in 0 .. Len(es) |-> IF i = 0 THEN d0 ELSE next(i, g[i - 1])]
      <4>1. \A i \in 0 .. 2 : g[i] = IF i = 0 THEN d0 ELSE next(i, g[i - 1])
        OBVIOUS
      <4>2. g = [i \in 0 .. 2 |-> g[i]]
        OBVIOUS
      <4> HIDE DEF g
      <4> QED
        BY <2>2, <4>1, <4>2
    <3>2. acc = [i \in 0 .. Len(es) |-> IF i = 0 THEN d0 ELSE next(i, acc[i - 1])]
      <4> HIDE DEF g
      <4> QED
        BY <3>1
    <3> HIDE DEF acc
    <3>3. acc[0] = d0 /\ acc[1] = next(1, acc[0]) /\ acc[2] = next(2, acc[1])
      BY <2>2, <3>2
    <3> QED
      BY <3>3
  <2>6. ~set_zero => d.lvl = a.lvl /\ d.ntt = a.ntt
    BY <1>3, <2>2, <2>4
  <2>7. ~q(1).err /\ ~q(2).err
    <3>1. \A i \in DOMAIN es : ~q(i).err
      BY <1>3
    <3> HIDE DEF q
    <3> QED
      BY <2>2, <3>1
  <2>8. HasForm(d0) /\ d0.lvl = a.lvl /\ (d0.ntt <=> a.ntt)
    <3>1. CASE ~set_zero
      BY <2>6, <3>1 DEF Sound, HasForm
    <3>2. CASE set_zero
      <4> DEFINE c == like(b, [i \in DOMAIN es[1].polys |-> 0])
                 x == IF ntt THEN 1 ELSE 0
                 r == [c EXCEPT !.dat = x]
      <4>1. d0 = r
        BY <2>2, <2>4, <3>2
      <4>2. Header(c) /\ c.lvl = b.lvl /\ c.ntt = b.ntt
        BY LikeKeeps DEF Sound
      <4>3. x \in Int
        OBVIOUS
      <4> HIDE DEF c, d0
      <4>4. Header(r) /\ r.lvl = b.lvl /\ r.ntt = b.ntt /\ r.dat = x
        <5> HIDE DEF x
        <5> QED
          BY <4>2, <4>3 DEF Header, Record
      <4>5. r.dat = IF b.ntt THEN 1 ELSE 0
        BY <2>3, <2>4, <4>4
      <4> HIDE DEF r, ntt
      <4> QED
        BY <2>3, <4>1, <4>4, <4>5 DEF HasForm, FormTrue
    <3> QED
      BY <3>1, <3>2
  <2> DEFINE c1 == next(1, d0)
             c2 == next(2, c1)
  <2>9. c2 = NoCiphertext \/ (HasForm(c2) /\ c2.lvl = a.lvl)
    <3> HIDE DEF d0
    <3>1. CASE a.ntt
      <4>1. PlainSound(q(1).ct) /\ q(1).ct.ntt /\ q(1).ct.lvl \in {0, a.lvl} /\ q(2) = q(1)
        <5>1. q(1) = (IF ~p.ntt THEN transform_plain_to_ntt(p, a.lvl, NoPlaintext) ELSE Done(p)) /\ q(2) = q(1)
          BY <2>2, <2>4, <3>1
        <5>2. PlainResult(q(1)) /\ q(1).ct.ntt /\ q(1).ct.lvl \in {0, a.lvl}
          BY <2>4, <2>7, <5>1, PlainToNttKeeps, PlainDone
        <5> HIDE DEF q
        <5> QED
          BY <2>7, <5>1, <5>2 DEF PlainResult
      <4> DEFINE k == q(1).ct
      <4>2. c1 = AccumulateInto(d0, a, k)
        BY <2>4, <3>1
      <4>4. c2 = AccumulateInto(c1, b, k)
        BY <2>4, <3>1, <4>1
      <4>5. PlainSound(k) /\ k.ntt /\ k.lvl \in {0, a.lvl} /\ k.lvl \in {0, b.lvl}
        BY <2>3, <4>1
      <4> HIDE DEF k, c1, c2, next
      <4>6. d0.lvl = a.lvl /\ d0.lvl # 0 /\ d0.ntt /\ HasForm(d0) /\ b.ntt /\ a.lvl = b.lvl
        BY <2>3, <2>8, <3>1
      <4>3. HasForm(c1) /\ c1.lvl = a.lvl /\ c1.ntt
        BY <3>1, <4>2, <4>5, <4>6, IntoNtt
      <4>7. HasForm(c2) /\ c2.lvl = c1.lvl
        BY <3>1, <4>3, <4>4, <4>5, <4>6, IntoNtt
      <4> QED
        BY <4>3, <4>7
    <3>2. CASE ~a.ntt
      <4> DEFINE m1 == multiply_plain_normal(a, p, NoCiphertext).ct
                 m2 == multiply_plain_normal(b, p, NoCiphertext).ct
                 t1 == translate([d0 EXCEPT !.scale = m1.scale], m1, NoCiphertext, FALSE)
                 t2 == translate([c1 EXCEPT !.scale = m2.scale], m2, NoCiphertext, FALSE)
      <4>1. c1 = t1.ct /\ c2 = t2.ct
        BY <2>2, <2>4, <3>2
      <4>2. HasForm(m1) /\ HasForm(m2) /\ ~p.ntt
        BY <2>3, <2>4, <3>2, NormalForms
      <4> HIDE DEF m1, m2, next
      <4>3. ASSUME NEW c, HasForm(c), NEW m, HasForm(m)
            PROVE  /\ HasForm([c EXCEPT !.scale = m.scale]) /\ [c EXCEPT !.scale = m.scale].lvl = c.lvl
        <5> DEFINE s == m.scale
                   r == [c EXCEPT !.scale = s]
        <5>1. s \in Int /\ (scheme # "CKKS" => s = 0)
          BY <4>3 DEF HasForm, Header, Record
        <5> HIDE DEF s
        <5>2. Header(r) /\ r.lvl = c.lvl /\ r.ntt = c.ntt /\ r.dat = c.dat
          BY <4>3, <5>1 DEF HasForm, Header, Record
        <5>3. HasForm(r)
          <6> HIDE DEF r
          <6> QED
            BY <4>3, <5>2 DEF HasForm, FormTrue
        <5> QED
          BY <5>2, <5>3 DEF s
      <4>4. ASSUME NEW c, HasForm(c), NEW m, HasForm(m)
            PROVE  LET t == translate([c EXCEPT !.scale = m.scale], m, NoCiphertext, FALSE).ct
                   IN  t = NoCiphertext \/ (HasForm(t) /\ t.lvl = c.lvl)
        <5> DEFINE k == [c EXCEPT !.scale = m.scale]
                   no == FALSE
                   t == translate(k, m, NoCiphertext, no)
        <5>1. HasForm(k) /\ k.lvl = c.lvl
          BY <4>3, <4>4
        <5> HIDE DEF k, no
        <5>2. t = Threw(NoCiphertext) \/ (HasForm(t.ct) /\ t.ct.lvl = k.lvl)
          BY <4>4, <5>1, TranslateForms
        <5> HIDE DEF t
        <5>3. t.ct = NoCiphertext \/ (HasForm(t.ct) /\ t.ct.lvl = c.lvl)
          BY <5>1, <5>2 DEF Threw
        <5> QED
          BY <5>3 DEF t, k, no
      <4>5. c1 = NoCiphertext \/ (HasForm(c1) /\ c1.lvl = d0.lvl)
        <5>1. t1.ct = NoCiphertext \/ (HasForm(t1.ct) /\ t1.ct.lvl = d0.lvl)
          BY <2>8, <4>2, <4>4, Zenon
        <5> QED
          BY <4>1, <5>1
      <4>6. HasForm(NoCiphertext) /\ NoCiphertext.lvl = 0
        BY NoneIsSound DEF Sound, HasForm
      <4>7. CASE c1 = NoCiphertext
        <5>1. [c1 EXCEPT !.scale = m2.scale].lvl = 0
          BY <4>2, <4>3, <4>6, <4>7
        <5>2. m2.lvl # 0
          BY <2>3, <2>4, <3>2, <4>2, NormalForms DEF m2
        <5>3. TranslateRefuses([c1 EXCEPT !.scale = m2.scale], m2)
          BY <5>1, <5>2 DEF TranslateRefuses
        <5>4. t2 = Threw(NoCiphertext)
          <6> HIDE DEF c1
          <6> QED
            BY <5>3 DEF translate
        <5> HIDE DEF t2
        <5> QED
          BY <4>1, <5>4 DEF Threw
      <4>8. CASE HasForm(c1) /\ c1.lvl = d0.lvl
        <5>1. t2.ct = NoCiphertext \/ (HasForm(t2.ct) /\ t2.ct.lvl = c1.lvl)
          BY <4>2, <4>4, <4>8, Zenon
        <5> QED
          BY <2>8, <4>1, <4>8, <5>1
      <4> QED
        BY <4>5, <4>7, <4>8
    <3> QED
      BY <2>4, <3>1, <3>2
  <2> HIDE DEF c1, acc
  <2>10. acc[2] = c2
    BY <2>5 DEF c1
  <2>11. ~(~es[1].ntt /\ ps[1].ntt)
    BY <2>2
  <2> HIDE DEF c2, back, es, ps
  <2>12. res = [err |-> scheme = "CKKS" /\ ~is_scale_within_bounds(c2.scale, a.lvl), ct |-> c2]
    BY <2>1, <2>2, <2>10, <2>11
  <2> HIDE DEF res
  <2>13. c2 = NoCiphertext => Result(res)
    BY <2>12, NoneIsSound DEF Result, Sound
  <2>14. HasForm(c2) /\ c2.lvl = a.lvl => Result(res)
    BY <2>12 DEF Result, Sound, HasForm, RoomLeft
  <2>15. Result(res)
    BY <2>9, <2>13, <2>14
  <2> QED
    BY <2>15 DEF res, es, ps
<1> QED
  BY <1>1, <1>2, <1>3

(* The scheme never changes, so a step is judged by what it leaves.        *)
Kept(c, s) == /\ c \in [lvl : 0 .. Top, ntt : BOOLEAN, dat : Int, scale : Int,
                        cf : {c.cf}, seed : {c.seed}, polys : {c.polys}]
              /\ s # "CKKS" => c.scale = 0
              /\ s # "BGV" => c.cf = 1
Room(c, s) == s = "CKKS" => c.scale < total_bits(c.lvl)
Whole(c, s) == Kept(c, s) /\ (c.lvl # 0 => FormTrue(c) /\ Room(c, s))
PlainKept(p, s) ==
  /\ p \in [lvl : 0 .. Top, ntt : BOOLEAN, dat : Int, scale : Int, val : {p.val}]
  /\ p.dat = IF p.ntt THEN 1 ELSE 0
  /\ s # "CKKS" => p.scale = 0

(* The properties of headers, with the scheme they depend on as an         *)
(* argument.                                                               *)
LEMMA ByScheme ==
  /\ \A c : Header(c) <=> Kept(c, scheme)
  /\ \A c : Sound(c) <=> Whole(c, scheme)
  /\ \A p : PlainSound(p) <=> PlainKept(p, scheme)
<1>1. \A c : Header(c) <=> Kept(c, scheme)
  BY Zenon DEF Header, Record, Kept
<1>2. ASSUME NEW c PROVE Sound(c) <=> Whole(c, scheme)
  <2>1. RoomLeft(c) <=> Room(c, scheme)
    BY DEF RoomLeft, Room, is_scale_within_bounds
  <2>2. Header(c) <=> Kept(c, scheme)
    BY <1>1, Zenon
  <2> QED
    BY <2>1, <2>2, Zenon DEF Sound, Whole
<1>3. \A c : Sound(c) <=> Whole(c, scheme)
  BY <1>2, Zenon
<1>4. \A p : PlainSound(p) <=> PlainKept(p, scheme)
  BY Zenon DEF PlainSound, PlainKept
<1> QED
  BY <1>1, <1>3, <1>4

(* The inductive invariant.  HeadersTrue says nothing of a ciphertext that *)
(* a call threw on, but modulus switching leaves fields of the destination *)
(* as they were, nor of levels, which index the chain: so every ciphertext *)
(* has a header of its scheme, and those no call threw on are sound.       *)
HeadersKept ==
  /\ scheme \in {"BFV", "CKKS", "BGV"}
  /\ reg = [r \in Regs |-> reg[r]]
  /\ failed \subseteq Regs
  /\ \A r \in Regs : Kept(reg[r], scheme)
  /\ \A r \in Regs \ failed : Whole(reg[r], scheme)
  /\ PlainKept(pl, scheme)

(* A call with a destination keeps the invariant: a destination it threw   *)
(* on after preparing it is marked.                                        *)
LEMMA IntoKeeps ==
  ASSUME HeadersKept, NEW r \in Regs, NEW res, NEW m, Result(res), Into(r, res, m), scheme' = scheme
  PROVE  HeadersKept'
<1>1. Kept(res.ct, scheme) /\ (~res.err => Whole(res.ct, scheme)) /\ res.err \in BOOLEAN
  BY ByScheme DEF Result
<1>2. reg' = [reg EXCEPT ![r] = res.ct] /\ pl' = pl
  BY DEF Into, plvars
<1>3. failed' = IF res.err /\ res.ct # reg[r] THEN failed \cup {r} ELSE
                IF res.err THEN failed ELSE failed \ {r}
  BY DEF Into
<1>4. \A s \in Regs : reg'[s] = IF s = r THEN res.ct ELSE reg[s]
  BY <1>2 DEF HeadersKept
<1>5. reg' = [s \in Regs |-> reg'[s]]
  BY <1>2 DEF HeadersKept
<1>6. failed' \subseteq Regs
  BY <1>3 DEF HeadersKept
<1>7. \A s \in Regs : Kept(reg'[s], scheme)
  BY <1>1, <1>4 DEF HeadersKept
<1>8. \A s \in Regs \ failed' : Whole(reg'[s], scheme)
  <2> TAKE s \in Regs \ failed'
  <2>1. CASE s # r
    BY <1>3, <1>4, <2>1 DEF HeadersKept
  <2>2. CASE s = r /\ res.err
    <3>1. r \notin failed /\ res.ct = reg[r]
      BY <1>3, <2>2
    <3> QED
      BY <1>4, <2>2, <3>1 DEF HeadersKept
  <2>3. CASE s = r /\ ~res.err
    BY <1>1, <1>4, <2>3
  <2> QED
    BY <1>1, <2>1, <2>2, <2>3
<1> QED
  BY <1>2, <1>5, <1>6, <1>7, <1>8 DEF HeadersKept

(* A call in place keeps the invariant: when it throws, nothing was        *)
(* written.                                                                *)
LEMMA InPlaceKeeps ==
  ASSUME HeadersKept, NEW r \in Regs, NEW res, NEW m, Result(res), InPlace(r, res, m), scheme' = scheme
  PROVE  HeadersKept'
<1>1. Kept(res.ct, scheme) /\ (~res.err => Whole(res.ct, scheme)) /\ res.err \in BOOLEAN
  BY ByScheme DEF Result
<1>2. pl' = pl /\ failed' = failed /\ reg' = IF res.err THEN reg ELSE [reg EXCEPT ![r] = res.ct]
  BY DEF InPlace, plvars
<1>3. \A s \in Regs : reg'[s] = IF s = r /\ ~res.err THEN res.ct ELSE reg[s]
  BY <1>2 DEF HeadersKept
<1>4. reg' = [s \in Regs |-> reg'[s]]
  BY <1>2 DEF HeadersKept
<1>5. \A s \in Regs : Kept(reg'[s], scheme)
  BY <1>1, <1>3 DEF HeadersKept
<1>6. \A s \in Regs \ failed' : Whole(reg'[s], scheme)
  BY <1>1, <1>2, <1>3 DEF HeadersKept
<1> QED
  BY <1>2, <1>4, <1>5, <1>6 DEF HeadersKept

(* A call on the list of the first two ciphertexts keeps the invariant.    *)
LEMMA BatchKeeps ==
  ASSUME HeadersKept, NEW rs, NEW m1, NEW m2, TakenSound(rs), BatchInPlace(rs, m1, m2), scheme' = scheme
  PROVE  HeadersKept'
<1> DEFINE bad == rs[1].err \/ rs[2].err
<1>1. bad \/ (Whole(rs[1].ct, scheme) /\ Whole(rs[2].ct, scheme))
  BY ByScheme DEF TakenSound
<1>2. pl' = pl /\ failed' = failed /\ reg' = IF bad THEN reg ELSE <<rs[1].ct, rs[2].ct, reg[3]>>
  BY DEF BatchInPlace, plvars
<1> HIDE DEF bad
<1>3. CASE bad
  BY <1>2, <1>3 DEF HeadersKept
<1>4. CASE ~bad
  <2>1. /\ reg' = [s \in Regs |-> reg'[s]]
        /\ reg'[1] = rs[1].ct /\ reg'[2] = rs[2].ct /\ reg'[3] = reg[3]
    BY <1>2, <1>4 DEF Regs
  <2>2. \A s \in Regs : s = 1 \/ s = 2 \/ s = 3
    BY DEF Regs
  <2>3. \A s \in Regs : Kept(reg'[s], scheme)
    BY <1>1, <1>4, <2>1, <2>2 DEF HeadersKept, Whole
  <2>4. \A s \in Regs \ failed' : Whole(reg'[s], scheme)
    BY <1>1, <1>2, <1>4, <2>1, <2>2 DEF HeadersKept
  <2> QED
    BY <1>2, <2>1, <2>3, <2>4 DEF HeadersKept
<1> QED
  BY <1>3, <1>4

(* A call on the plaintext keeps the invariant.                            *)
LEMMA PlainCallKeeps ==
  ASSUME HeadersKept, NEW res, NEW k, PlainResult(res), PlainCall(res, k), scheme' = scheme
  PROVE  HeadersKept'
<1>1. ~res.err => PlainKept(res.ct, scheme)
  BY ByScheme DEF PlainResult
<1>2. pl' = (IF res.err THEN pl ELSE res.ct) /\ reg' = reg /\ failed' = failed
  BY DEF PlainCall
<1>3. PlainKept(pl', scheme)
  BY <1>1, <1>2 DEF HeadersKept
<1> QED
  BY <1>2, <1>3 DEF HeadersKept

(* What the encoders make is sound.                                        *)
LEMMA EncodedKept ==
  ASSUME NEW m, NEW l \in 0 .. Top PROVE PlainKept(Encoded(m, l), scheme)
<1>1. 0 \in 0 .. Top /\ FreshScale \in Int
  BY BitsOfLevels, ProgramConstants
<1> DEFINE v == (m * Pow2(FreshScale)) % T
           x == [lvl |-> l, ntt |-> TRUE, dat |-> 1, scale |-> FreshScale, val |-> v]
           y == [NoPlaintext EXCEPT !.val = m]
<1>2. Encoded(m, l) = IF scheme = "CKKS" THEN x ELSE y
  BY DEF Encoded
<1> HIDE DEF v
<1>3. scheme = "CKKS" => PlainKept(x, scheme)
  BY <1>1 DEF PlainKept
<1>4. scheme # "CKKS" => PlainKept(y, scheme)
  <2>1. y \in [lvl : {0}, ntt : {FALSE}, dat : {0}, scale : {0}, val : {m}]
    BY DEF NoPlaintext
  <2> HIDE DEF y
  <2>2. y.lvl = 0 /\ y.ntt = FALSE /\ y.dat = 0 /\ y.scale = 0
    BY <2>1
  <2>3. y \in [lvl : 0 .. Top, ntt : BOOLEAN, dat : Int, scale : Int, val : {y.val}]
    <3>1. y.ntt \in BOOLEAN
      BY <2>2, Zenon
    <3>2. y.lvl \in 0 .. Top /\ y.dat \in Int /\ y.scale \in Int
      BY <1>1, <2>2
    <3> QED
      BY <2>1, <3>1, <3>2
  <2> QED
    BY <2>2, <2>3 DEF PlainKept
<1> HIDE DEF x, y
<1> QED
  BY <1>2, <1>3, <1>4

(* What encryption makes is sound.                                         *)
LEMMA InitKeeps == Init => HeadersKept
<1> SUFFICES ASSUME Init PROVE HeadersKept
  OBVIOUS
<1>1. scheme \in {"BFV", "CKKS", "BGV"} /\ failed = {} /\ Top \in Nat /\ Top >= 1
  BY ProgramConstants, BitsOfLevels DEF Init
<1>2. PICK m1 \in Messages, m2 \in Messages, seeded \in BOOLEAN :
        reg = <<Fresh(m1, FALSE), Fresh(m2, seeded), NoCiphertext>> /\ pl = Encoded(m2, Top)
  BY DEF Init
<1>3. ASSUME NEW m, NEW s \in BOOLEAN PROVE Whole(Fresh(m, s), scheme)
  <2> DEFINE c == [NoCiphertext EXCEPT !.lvl = Top, !.ntt = scheme # "BFV",
                                       !.dat = IF scheme = "BFV" THEN 0 ELSE 1,
                                       !.scale = IF scheme = "CKKS" THEN FreshScale ELSE 0]
             c0 == (m * Factor(c) + (T - 1) * Mask * Secret) % T
             p == <<c0, IF c.ntt THEN Mask ELSE 0>>
             w == <<c0, Mask>>
  <2>1. Fresh(m, s) = IF s THEN [c EXCEPT !.polys = p, !.seed = Mask + 1] ELSE [c EXCEPT !.polys = w]
    BY DEF Fresh
  <2>2. /\ c \in [lvl : {Top}, ntt : {scheme # "BFV"}, dat : {IF scheme = "BFV" THEN 0 ELSE 1},
                  scale : {IF scheme = "CKKS" THEN FreshScale ELSE 0}, cf : {1}, seed : {0}, polys : {<< >>}]
    BY DEF NoCiphertext
  <2> HIDE DEF c
  <2> HIDE DEF p, w
  <2>3. Fresh(m, s) \in [lvl : {Top}, ntt : {scheme # "BFV"}, dat : {IF scheme = "BFV" THEN 0 ELSE 1},
                  scale : {IF scheme = "CKKS" THEN FreshScale ELSE 0}, cf : {1},
                  seed : {0, Mask + 1}, polys : {p, w}]
    BY <2>1, <2>2
  <2> DEFINE f == Fresh(m, s)
  <2> HIDE DEF f
  <2>4. f \in [lvl : {Top}, ntt : {scheme # "BFV"}, dat : {IF scheme = "BFV" THEN 0 ELSE 1},
                  scale : {IF scheme = "CKKS" THEN FreshScale ELSE 0}, cf : {1},
                  seed : {0, Mask + 1}, polys : {p, w}]
    BY <2>3 DEF f
  <2>5. Top \in 0 .. Top /\ FreshScale \in Int /\ FreshScale < total_bits(Top)
    BY <1>1, ProgramConstants
  <2>6. /\ f.lvl = Top /\ f.dat = IF f.ntt THEN 1 ELSE 0
        /\ f.scale = IF scheme = "CKKS" THEN FreshScale ELSE 0
        /\ f.cf = 1
    BY <1>1, <2>4
  <2>7. f \in [lvl : 0 .. Top, ntt : BOOLEAN, dat : Int, scale : Int,
               cf : {f.cf}, seed : {f.seed}, polys : {f.polys}]
    <3>1. f.lvl = Top /\ f.ntt \in BOOLEAN /\ f.dat \in {0, 1}
      <4>1. f.ntt = (scheme # "BFV") /\ f.lvl = Top
        BY <2>4
      <4>2. (scheme # "BFV") \in BOOLEAN
        OBVIOUS
      <4>3. f.ntt \in BOOLEAN
        BY <4>1, <4>2
      <4> QED
        BY <2>6, <4>1, <4>3
    <3>2. f.scale \in Int
      BY <2>5, <2>6
    <3>3. f.lvl \in 0 .. Top /\ f.dat \in Int
      BY <2>5, <3>1
    <3> QED
      BY <2>4, <3>1, <3>2, <3>3
  <2>8. Kept(f, scheme)
    BY <2>6, <2>7 DEF Kept
  <2>9. Whole(f, scheme)
    BY <2>5, <2>6, <2>8 DEF Whole, FormTrue, Room
  <2> QED
    BY <2>9 DEF f
<1>4. Whole(NoCiphertext, scheme)
  BY ByScheme, NoneIsSound
<1>5. reg = [r \in Regs |-> reg[r]] /\ \A r \in Regs : Whole(reg[r], scheme)
  <2>1. /\ reg = [r \in Regs |-> reg[r]] /\ reg[1] = Fresh(m1, FALSE)
        /\ reg[2] = Fresh(m2, seeded) /\ reg[3] = NoCiphertext
    BY <1>2 DEF Regs
  <2>2. \A r \in Regs : r = 1 \/ r = 2 \/ r = 3
    BY DEF Regs
  <2> QED
    BY <1>3, <1>4, <2>1, <2>2
<1>7. PlainKept(pl, scheme)
  <2>1. Top \in 0 .. Top
    BY <1>1
  <2> QED
    BY <1>2, <2>1, EncodedKept
<1>8. \A r \in Regs : Kept(reg[r], scheme)
  BY <1>5 DEF Whole
<1> QED
  BY <1>1, <1>5, <1>7, <1>8 DEF HeadersKept

(* Every call, whatever its operands and whether or not it throws, keeps   *)
(* the invariant.                                                          *)
LEMMA NextKeeps == HeadersKept /\ [Next]_vars => HeadersKept'
<1> SUFFICES ASSUME HeadersKept, [Next]_vars PROVE HeadersKept'
  OBVIOUS
<1>1. scheme \in {"BFV", "CKKS", "BGV"}
  BY DEF HeadersKept
<1>2. /\ \A r \in Regs : Header(reg[r])
      /\ \A r \in Regs : Usable(r) => Sound(reg[r])
      /\ PlainSound(pl)
  BY ByScheme DEF HeadersKept, Usable
<1>3. Sound(NoCiphertext) /\ Header(NoCiphertext)
  BY NoneIsSound DEF Sound
<1>4. Call => scheme' = scheme
  BY DEF Call
<1>5. CASE UNCHANGED vars
  BY <1>5 DEF vars, HeadersKept
<1>6. ASSUME NEW r \in Regs, ExpandSeed(r) PROVE HeadersKept'
  <2>1. Result(Done(expand_seed(reg[r]))) /\ scheme' = scheme
    BY <1>2, <1>4, <1>6, ExpandKeeps DEF ExpandSeed
  <2> QED
    BY <1>6, <2>1, InPlaceKeeps DEF ExpandSeed
<1>7. ASSUME NEW r \in Regs, NEW s \in Regs, Negate(r, s) PROVE HeadersKept'
  <2>1. Result(negate(reg[s], NoCiphertext)) /\ Result(negate(reg[s], reg[r])) /\ scheme' = scheme
    BY <1>2, <1>3, <1>4, <1>7, NegateKeeps DEF Negate
  <2> QED
    BY <1>7, <2>1, InPlaceKeeps, IntoKeeps DEF Negate
<1>8. ASSUME NEW r \in Regs, NEW s \in Regs, Square(r, s) PROVE HeadersKept'
  <2>1. Result(square(reg[s], NoCiphertext)) /\ Result(square(reg[s], reg[r])) /\ scheme' = scheme
    BY <1>1, <1>2, <1>3, <1>4, <1>8, SquareKeeps DEF Square
  <2> QED
    BY <1>8, <2>1, InPlaceKeeps, IntoKeeps DEF Square
<1>9. ASSUME NEW r \in Regs, NEW s \in Regs, Relinearize(r, s) PROVE HeadersKept'
  <2>1. /\ Result(relinearize_inplace_internal(reg[s])) /\ scheme' = scheme
        /\ Len(reg[s].polys) # 2 => Result(relinearize_internal(reg[s], reg[r]))
    BY <1>2, <1>4, <1>9, RelinearizeKeeps DEF Relinearize
  <2> QED
    BY <1>9, <2>1, InPlaceKeeps, IntoKeeps DEF Relinearize
<1>10. ASSUME NEW r \in Regs, NEW s \in Regs, ModSwitchToNext(r, s) PROVE HeadersKept'
  <2>1. /\ Result(mod_switch_to_next(reg[s], NoCiphertext)) /\ scheme' = scheme
        /\ Result(mod_switch_to_next(reg[s], reg[r]))
    BY <1>1, <1>2, <1>3, <1>4, <1>10, SwitchToNextKeeps DEF ModSwitchToNext
  <2> QED
    BY <1>10, <2>1, InPlaceKeeps, IntoKeeps DEF ModSwitchToNext
<1>11. ASSUME NEW r \in Regs, NEW s \in Regs, RescaleToNext(r, s) PROVE HeadersKept'
  <2>1. /\ Result(rescale_to_next(reg[s], NoCiphertext)) /\ scheme' = scheme
        /\ Result(rescale_to_next(reg[s], reg[r]))
    BY <1>1, <1>2, <1>3, <1>4, <1>11, SwitchToNextKeeps DEF RescaleToNext
  <2> QED
    BY <1>11, <2>1, InPlaceKeeps, IntoKeeps DEF RescaleToNext
<1>12. ASSUME NEW r \in Regs, NEW s \in Regs, TransformCiphertext(r, s) PROVE HeadersKept'
  <2>1. /\ Result(transform_to_ntt(reg[s], NoCiphertext)) /\ Result(transform_to_ntt(reg[s], reg[r]))
        /\ Result(transform_from_ntt(reg[s], NoCiphertext)) /\ Result(transform_from_ntt(reg[s], reg[r]))
        /\ scheme' = scheme
    BY <1>2, <1>3, <1>4, <1>12, TransformKeeps DEF TransformCiphertext
  <2>2. \/ InPlace(r, transform_to_ntt(reg[s], NoCiphertext), msg[s])
        \/ Into(r, transform_to_ntt(reg[s], reg[r]), msg[s])
        \/ InPlace(r, transform_from_ntt(reg[s], NoCiphertext), msg[s])
        \/ Into(r, transform_from_ntt(reg[s], reg[r]), msg[s])
    BY <1>12 DEF TransformCiphertext
  <2> QED
    BY <2>1, <2>2, InPlaceKeeps, IntoKeeps
<1>13. ASSUME NEW r \in Regs, NEW s \in Regs, MultiplyPlain(r, s) PROVE HeadersKept'
  <2>1. pl.lvl \in {0, reg[s].lvl}
    BY <1>13 DEF MultiplyPlain, Multiplier
  <2>2. /\ Result(multiply_plain(reg[s], pl, NoCiphertext)) /\ scheme' = scheme
        /\ Result(multiply_plain(reg[s], pl, reg[r]))
    BY <1>1, <1>2, <1>3, <1>4, <1>13, <2>1, MultiplyPlainKeeps DEF MultiplyPlain
  <2> QED
    BY <1>13, <2>2, InPlaceKeeps, IntoKeeps DEF MultiplyPlain
<1>14. ASSUME NEW r \in Regs, NEW s1 \in Regs, NEW s2 \in Regs, Multiply(r, s1, s2) PROVE HeadersKept'
  <2>1. /\ Result(multiply(reg[s1], reg[s2], NoCiphertext)) /\ scheme' = scheme
        /\ Result(multiply(reg[s1], reg[s2], reg[r]))
    BY <1>1, <1>2, <1>3, <1>4, <1>14, MultiplyKeeps DEF Multiply
  <2> QED
    BY <1>14, <2>1, InPlaceKeeps, IntoKeeps DEF Multiply
<1>15. ASSUME NEW r \in Regs, NEW s1 \in Regs, NEW s2 \in Regs, NEW sub \in BOOLEAN, AddSub(r, s1, s2, sub)
       PROVE  HeadersKept'
  <2>1. /\ Result(translate_inplace(reg[s1], reg[s2], sub)) /\ scheme' = scheme
        /\ Result(translate(reg[s1], reg[s2], reg[r], sub))
    BY <1>2, <1>4, <1>15, TranslateKeeps, TranslateInplaceKeeps DEF AddSub
  <2> QED
    BY <1>15, <2>1, InPlaceKeeps, IntoKeeps DEF AddSub
<1>16. ASSUME NEW r \in Regs, NEW s1 \in Regs, NEW s2 \in Regs, NEW sub \in BOOLEAN,
              AddSubBatched(r, s1, s2, sub)
       PROVE  HeadersKept'
  <2>1. /\ Result(translate_batched(<<reg[s1]>>, <<reg[s2]>>, <<reg[r]>>, sub)[1]) /\ scheme' = scheme
    BY <1>1, <1>2, <1>4, <1>16, TranslateBatchedKeeps DEF AddSubBatched
  <2> QED
    BY <1>16, <2>1, IntoKeeps DEF AddSubBatched
<1>17. ASSUME NEW r \in Regs, NEW s \in Regs, NEW l \in 1 .. Top, ModSwitchTo(r, s, l) PROVE HeadersKept'
  <2>1. l \in 0 .. Top
    BY BitsOfLevels
  <2>2. /\ Result(mod_switch_to(reg[s], l, NoCiphertext)) /\ scheme' = scheme
        /\ Result(mod_switch_to(reg[s], l, reg[r]))
    BY <1>1, <1>2, <1>3, <1>4, <1>17, <2>1, SwitchToKeeps DEF ModSwitchTo
  <2> QED
    BY <1>17, <2>2, InPlaceKeeps, IntoKeeps DEF ModSwitchTo
<1>18. ASSUME NEW r \in Regs, NEW s \in Regs, NEW sub \in BOOLEAN, AddSubPlain(r, s, sub)
       PROVE  HeadersKept'
  <2>1. scheme = "CKKS" => pl.lvl = reg[s].lvl
    BY <1>18 DEF AddSubPlain, Addable
  <2>2. /\ Result(translate_plain_inplace(reg[s], pl, sub)) /\ scheme' = scheme
        /\ Result(translate_plain(reg[s], pl, reg[r], sub))
    BY <1>1, <1>2, <1>4, <1>18, <2>1, TranslatePlainKeeps DEF AddSubPlain
  <2> QED
    BY <1>18, <2>2, InPlaceKeeps, IntoKeeps DEF AddSubPlain
<1>19. CASE Encode
  <2>1. PICK m \in Messages, l \in 1 .. Top : pl' = Encoded(m, l)
    BY <1>19 DEF Encode
  <2>2. scheme' = scheme /\ reg' = reg /\ failed' = failed /\ l \in 0 .. Top
    BY <1>4, <1>19, BitsOfLevels DEF Encode
  <2>3. PlainKept(pl', scheme)
    BY <2>1, <2>2, EncodedKept
  <2> QED
    BY <2>2, <2>3 DEF HeadersKept
<1>20. ASSUME NEW l \in 1 .. Top, Centralize(l) PROVE HeadersKept'
  <2>1. PlainResult(bfv_centralize(pl, l, NoPlaintext)) /\ scheme' = scheme
    BY <1>2, <1>4, <1>20, PlaintextsKeep DEF Centralize
  <2> QED
    BY <1>20, <2>1, PlainCallKeeps DEF Centralize
<1>21. ASSUME NEW l \in 1 .. Top, ScaleUp(l) PROVE HeadersKept'
  <2>1. PlainResult(bfv_scale_up(pl, l, NoPlaintext)) /\ scheme' = scheme
    BY <1>2, <1>4, <1>21, PlaintextsKeep DEF ScaleUp
  <2> QED
    BY <1>21, <2>1, PlainCallKeeps DEF ScaleUp
<1>22. ASSUME NEW l \in 1 .. Top, TransformPlain(l) PROVE HeadersKept'
  <2>1. l \in 0 .. Top
    BY BitsOfLevels
  <2>2. /\ PlainResult(transform_plain_to_ntt(pl, l, NoPlaintext)) /\ scheme' = scheme
        /\ PlainResult(transform_plain_to_ntt_inplace(pl, l))
        /\ PlainResult(transform_plain_from_ntt(pl, NoPlaintext))
    BY <1>2, <1>4, <1>22, <2>1, PlaintextsKeep, PlainToNttKeeps DEF TransformPlain
  <2> QED
    BY <1>22, <2>2, PlainCallKeeps DEF TransformPlain
<1>23. ASSUME NEW l \in 1 .. Top, ModSwitchPlain(l) PROVE HeadersKept'
  <2>1. PlainResult(mod_switch_plain_to(pl, l, NoPlaintext)) /\ scheme' = scheme
    BY <1>2, <1>4, <1>23, PlaintextsKeep DEF ModSwitchPlain
  <2> QED
    BY <1>23, <2>1, PlainCallKeeps DEF ModSwitchPlain
<1>24. CASE ModSwitchPlainToNext
  <2>1. 1 \in 1 .. Top
    BY ProgramConstants, BitsOfLevels
  <2>2. PlainResult(mod_switch_plain_to_next(pl, NoPlaintext)) /\ scheme' = scheme
    BY <1>2, <1>4, <1>24, <2>1, PlaintextsKeep DEF ModSwitchPlainToNext
  <2> QED
    BY <1>24, <2>2, PlainCallKeeps DEF ModSwitchPlainToNext
<1>25. \A r \in Regs : Usable(r) => Sound(reg[r])
  BY <1>2
<1>26. 1 \in Regs /\ 2 \in Regs /\ 3 \in Regs /\ 0 \in 0 .. Top
  BY BitsOfLevels DEF Regs
<1>27. CASE NegateBatched
  <2>1. TakenSound(negate_inplace_batched(Batch)) /\ scheme' = scheme
    BY <1>1, <1>4, <1>25, <1>26, <1>27, BatchesKeep DEF NegateBatched, Batch
  <2> QED
    BY <1>27, <2>1, BatchKeeps DEF NegateBatched
<1>28. ASSUME NEW b \in BOOLEAN, AddSubInPlaceBatched(b) PROVE HeadersKept'
  <2>1. TakenSound(translate_inplace_batched(Batch, <<reg[3], reg[3]>>, b)) /\ scheme' = scheme
    BY <1>1, <1>4, <1>25, <1>26, <1>28, BatchesKeep DEF AddSubInPlaceBatched, Batch
  <2> QED
    BY <1>28, <2>1, BatchKeeps DEF AddSubInPlaceBatched
<1>29. ASSUME NEW l \in 1 .. Top, ModSwitchToBatched(l) PROVE HeadersKept'
  <2>1. l \in 0 .. Top
    BY BitsOfLevels
  <2>2. TakenSound(mod_switch_to_inplace_batched(Batch, l)) /\ scheme' = scheme
    BY <1>1, <1>4, <1>25, <1>26, <1>29, <2>1, BatchesKeep DEF ModSwitchToBatched, Batch
  <2> QED
    BY <1>29, <2>2, BatchKeeps DEF ModSwitchToBatched
<1>30. ASSUME NEW b \in BOOLEAN, TransformBatched(b) PROVE HeadersKept'
  <2>1. TakenSound(transform_inplace_batched(Batch, b)) /\ scheme' = scheme
    BY <1>1, <1>4, <1>25, <1>26, <1>30, BatchesKeep DEF TransformBatched, Batch
  <2> QED
    BY <1>30, <2>1, BatchKeeps DEF TransformBatched
<1>31. CASE MultiplyPlainBatched
  <2>1. pl.lvl \in {0, reg[1].lvl} /\ pl.lvl \in {0, reg[2].lvl}
    BY <1>31 DEF MultiplyPlainBatched, Multiplier
  <2>2. /\ scheme' = scheme
        /\ TakenSound(multiply_plain_batched(Batch, <<pl, pl>>, <<NoCiphertext, NoCiphertext>>))
    BY <1>1, <1>2, <1>4, <1>26, <1>31, <2>1, MultiplyPlainBatchedKeeps DEF MultiplyPlainBatched, Batch
  <2> QED
    BY <1>31, <2>2, BatchKeeps DEF MultiplyPlainBatched
<1>32. ASSUME NEW set_zero \in BOOLEAN, MultiplyPlainAccumulate(set_zero) PROVE HeadersKept'
  <2>1. pl.lvl \in {0, reg[1].lvl} /\ pl.lvl \in {0, reg[2].lvl} /\ (reg[1].ntt \/ ~pl.ntt)
    BY <1>32 DEF MultiplyPlainAccumulate, Multiplier
  <2>2. Usable(1) /\ Usable(2) /\ (~set_zero => Usable(3)) /\ scheme' = scheme
    BY <1>4, <1>32 DEF MultiplyPlainAccumulate, Regs
  <2>3. Sound(reg[1]) /\ Sound(reg[2]) /\ (~set_zero => Sound(reg[3])) /\ Header(reg[3]) /\ PlainSound(pl)
    BY <1>2, <1>26, <2>2
  <2>4. Result(multiply_plain_accumulate(Batch, <<pl, pl>>, reg[3], set_zero))
    BY <1>1, <2>1, <2>3, AccumulateKeeps DEF Batch
  <2> QED
    BY <1>26, <1>32, <2>2, <2>4, IntoKeeps DEF MultiplyPlainAccumulate
<1> QED
  BY <1>5, <1>6, <1>7, <1>8, <1>9, <1>10, <1>11, <1>12, <1>13, <1>14, <1>15, <1>16, <1>17, <1>18,
     <1>19, <1>20, <1>21, <1>22, <1>23, <1>24, <1>27, <1>28, <1>29, <1>30, <1>31, <1>32 DEF Next

(* After any sequence of calls on ciphertexts and plaintexts, of any       *)
(* length and over any chain of primes, the headers are those of the       *)
(* scheme, and a ciphertext whose last call did not throw on it is sound.  *)
THEOREM HeadersInvariant == Spec => []HeadersKept
<1> QED
  BY InitKeeps, NextKeeps, PTL DEF Spec

(* So the form flags of ciphertexts and plaintexts are always true of      *)
(* their data, the fields the scheme does not use are neutral, and a CKKS  *)
(* scale always fits its level.                                            *)
THEOREM HeadersAreTrue == Spec => []HeadersTrue
<1>1. HeadersKept => HeadersTrue
  <2> SUFFICES ASSUME HeadersKept PROVE HeadersTrue
    OBVIOUS
  <2>1. \A r \in Live : Sound(reg[r]) /\ reg[r].lvl # 0
    BY ByScheme DEF HeadersKept, Live
  <2>2. pl.dat = IF pl.ntt THEN 1 ELSE 0
    BY DEF HeadersKept, PlainKept
  <2> QED
    BY <2>1, <2>2 DEF HeadersTrue, FormsTrue, UnusedFieldsNeutral, ScaleHasRoom, Sound, Header,
                      FormTrue, RoomLeft
<1> QED
  BY <1>1, HeadersInvariant, PTL
=============================================================================
