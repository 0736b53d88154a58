------------------------------- MODULE Evaluator -------------------------------
(***************************************************************************)
(* The operations of troy::Evaluator on ciphertexts and plaintexts, as     *)
(* operators from the operands (and the old destination) to what the call  *)
(* leaves in the destination and whether it throws.                        *)
(*                                                                         *)
(* A ciphertext is its header and its polynomials.  A polynomial is        *)
(* abstracted to one residue modulo the prime T, which for BGV is the      *)
(* plain modulus: what the decryptor computes, up to noise, is the         *)
(* evaluation of these residues at the secret.  dat counts the NTTs        *)
(* applied to the data, so that a flag that lies about it shows.  A scale  *)
(* is its logarithm; the prime at level l of the chain is 2^QBits[l].      *)
(* Level 0 is parms_id_zero.                                               *)
(***************************************************************************)
EXTENDS SmallMod

CONSTANTS
  T,          \* the prime residues are taken by
  Secret,     \* the secret key, a residue
  QBits,      \* the bit lengths of the primes of the chain, the last prime last
  MaxPolys,   \* HE_CIPHERTEXT_SIZE_MAX
  PlainBits   \* the bit length of the plain modulus

VARIABLE scheme   \* of the context: "BFV", "CKKS" or "BGV"

ASSUME EvaluatorConstants ==
  /\ T \in Nat \ {0, 1} /\ Secret \in 0 .. T - 1
  /\ QBits \in Seq(Nat \ {0}) /\ MaxPolys \in Nat \ {0, 1}

Top == Len(QBits)

(* Residues. *)
Pow2(e) == (2 ^ (e % (T - 1))) % T            \* 2^e mod T, e of either sign
Inv(x) == CHOOSE y \in 1 .. T - 1 : (x * y) % T = 1
total_bits(l) ==   \* of the first l primes
  LET bits[n \in 0 .. Top] == IF n = 0 THEN 0 ELSE bits[n - 1] + QBits[n] IN bits[l]
Delta(l) == Pow2(total_bits(l))               \* q / t at level l

is_scale_within_bounds(scale, l) ==
  scale < (IF scheme = "CKKS" THEN total_bits(l) ELSE PlainBits)

(* Headers. *)
Garbage == 9      \* the form of data made from operands of different forms
SameForm(a, b) == IF a = b THEN a ELSE Garbage
DyadicForm(a, b) == IF a = 1 /\ b = 1 THEN 1 ELSE Garbage

NoCiphertext == [lvl |-> 0, ntt |-> FALSE, dat |-> 0, scale |-> 0, cf |-> 1,
                 seed |-> 0, polys |-> << >>]
like(e, polys) == [e EXCEPT !.seed = 0, !.polys = polys]
LikeThrows(n) == n < 2 \/ n > MaxPolys

(* What a call leaves: the destination, and whether it threw. *)
Threw(d) == [err |-> TRUE, ct |-> d]
Done(d) == [err |-> FALSE, ct |-> d]

contains_seed(e) == e.seed # 0
expand_seed(e) == [e EXCEPT !.polys[2] = e.seed - 1, !.seed = 0]

(* What a ciphertext decrypts to. *)
Phase(e) == MapThenSumSet(LAMBDA i : e.polys[i] * Secret ^ (i - 1), DOMAIN e.polys) % T
Factor(e) == CASE scheme = "BFV"  -> Delta(e.lvl)
               [] scheme = "CKKS" -> Pow2(e.scale)
               [] scheme = "BGV"  -> e.cf
Message(e) == (Phase(e) * Inv(Factor(e))) % T

(* Negation. *)
negate(e, d) ==
  IF contains_seed(e) \/ e.lvl = 0 THEN Threw(d)
  ELSE Done(like(e, [i \in DOMAIN e.polys |-> (T - e.polys[i]) % T]))

(* Addition and subtraction. *)
SumAbs(x, y) ==
  LET Bal(z) == IF z > T \div 2 THEN T - z ELSE z IN Bal(x) + Bal(y)
ModT(x) == LET r == (IF x < 0 THEN -x ELSE x) % T
           IN  IF x < 0 /\ r # 0 THEN T - r ELSE r

Mutantbalance_correction_factors(f1, f2) ==   \* the ratio is taken the wrong way round
  LET ratio == (try_invert_uint64_mod(f2, T) * f1) % T
  IN  [prod |-> (ratio * f1) % T, e1 |-> ratio, e2 |-> 1]
balance_correction_factors(f1, f2) ==   \* the code throws when f1 has no inverse
  LET ratio == (try_invert_uint64_mod(f1, T) * f2) % T
      r[i \in Nat] ==
        IF i = 0
        THEN [pa |-> T, pb |-> 0, a |-> ratio, b |-> 1,
              e1 |-> ratio, e2 |-> 1, sum |-> SumAbs(f1, f2)]
        ELSE LET p == r[i - 1]
             IN  IF p.a = 0 THEN p
                 ELSE LET a == p.pa % p.a
                          b == p.pb - (p.pa \div p.a) * p.b
                          s == SumAbs(ModT(a), ModT(b))
                          better == /\ ModT(a) # 0
                                    /\ gcd(ModT(a), T) = 1
                                    /\ s < p.sum
                      IN  [pa |-> p.a, pb |-> p.b, a |-> a, b |-> b,
                           e1 |-> IF better THEN ModT(a) ELSE p.e1,
                           e2 |-> IF better THEN ModT(b) ELSE p.e2,
                           sum |-> IF better THEN s ELSE p.sum]
      out == r[T]
  IN  [prod |-> (out.e1 * f1) % T, e1 |-> out.e1, e2 |-> out.e2]

At(p, i) == IF i <= Len(p) THEN p[i] ELSE 0
Larger(a, b) == IF a > b THEN a ELSE b
Combined(p1, p2, sub) ==
  [i \in 1 .. Larger(Len(p1), Len(p2)) |->
     (At(p1, i) + (IF sub THEN T - At(p2, i) ELSE At(p2, i))) % T]

TranslateRefuses(e1, e2) ==
  \/ contains_seed(e1) \/ contains_seed(e2)
  \/ e1.lvl # e2.lvl \/ e1.scale # e2.scale \/ e1.ntt # e2.ntt \/ e1.lvl = 0

translate(e1, e2, d, sub) ==
  IF TranslateRefuses(e1, e2) \/ contains_seed(d) THEN Threw(d)
  ELSE IF e1.cf = e2.cf
  THEN Done([like(e1, Combined(e1.polys, e2.polys, sub)) EXCEPT !.dat = SameForm(e1.dat, e2.dat)])
  ELSE LET b == balance_correction_factors(e1.cf, e2.cf)
           p1 == [i \in DOMAIN e1.polys |-> (e1.polys[i] * b.e1) % T]
           p2 == [i \in DOMAIN e2.polys |-> (e2.polys[i] * b.e2) % T]
       IN  Done([like(e1, Combined(p1, p2, sub))
                   EXCEPT !.cf = b.prod, !.dat = SameForm(e1.dat, e2.dat)])

(* The batched form.  Where the second operands have more polynomials than *)
(* the first and need no balancing, the list of their tails is built twice *)
(* over and the copy refuses lists of different lengths: the destinations  *)
(* are left without their tails.  The balanced case ends in the in-place   *)
(* form, which builds the list once.                                       *)
SameHeader(es) == \A i, j \in DOMAIN es :
  /\ es[i].lvl = es[j].lvl /\ es[i].ntt = es[j].ntt /\ es[i].scale = es[j].scale
  /\ Len(es[i].polys) = Len(es[j].polys)
SameFactor(es) == \A i, j \in DOMAIN es : es[i].cf = es[j].cf

translate_inplace(e1, e2, sub) ==
  IF TranslateRefuses(e1, e2) THEN Threw(e1) ELSE translate(e1, e2, NoCiphertext, sub)

translate_batched(es1, es2, ds, sub) ==
  IF ~SameHeader(es1) \/ ~SameHeader(es2) \/ \E i \in DOMAIN es1 : TranslateRefuses(es1[i], es2[i])
  THEN [i \in DOMAIN es1 |-> Threw(ds[i])]
  ELSE IF ~SameFactor(es1) \/ ~SameFactor(es2)
  THEN [i \in DOMAIN es1 |-> Threw(NoCiphertext)]
  ELSE LET short == Len(es1[1].polys) < Len(es2[1].polys) /\ es1[1].cf = es2[1].cf
           r(i)  == translate(es1[i], es2[i], NoCiphertext, sub).ct
       IN  [i \in DOMAIN es1 |-> IF short THEN Threw([r(i) EXCEPT !.dat = Garbage]) ELSE Done(r(i))]

(* Lists of ciphertexts worked on in place: one refusal refuses them all. *)
AllOrNone(res) ==
  IF \E i \in DOMAIN res : res[i].err THEN [i \in DOMAIN res |-> Threw(res[i].ct)] ELSE res
Refused(es) == [i \in DOMAIN es |-> Threw(es[i])]
SameLevel(es) == \A i, j \in DOMAIN es : es[i].lvl = es[j].lvl
SameCount(es) == \A i, j \in DOMAIN es : Len(es[i].polys) = Len(es[j].polys)

negate_inplace_batched(es) ==
  IF ~SameLevel(es) \/ ~SameCount(es) THEN Refused(es)
  ELSE AllOrNone([i \in DOMAIN es |-> negate(es[i], es[i])])
translate_inplace_batched(es1, es2, sub) ==
  IF ~SameHeader(es1) \/ ~SameHeader(es2) \/ ~SameFactor(es1) \/ ~SameFactor(es2) THEN Refused(es1)
  ELSE AllOrNone([i \in DOMAIN es1 |-> translate_inplace(es1[i], es2[i], sub)])

(* Products.  BEHZ scales the product of two BFV ciphertexts by t / q. *)
Convolution(p1, p2) ==
  [k \in 1 .. Len(p1) + Len(p2) - 1 |->
     MapThenSumSet(LAMBDA i : IF k + 1 - i \in DOMAIN p2 THEN p1[i] * p2[k + 1 - i] ELSE 0,
                   DOMAIN p1) % T]

BehzProduct(e1, e2) ==
  LET p == Convolution(e1.polys, e2.polys)
  IN  [like(e1, [i \in DOMAIN p |-> (p[i] * Inv(Delta(e1.lvl))) % T])
         EXCEPT !.dat = SameForm(e1.dat, e2.dat)]
multiply(e1, e2, d) ==
  IF \/ contains_seed(e1) \/ contains_seed(e2) \/ e1.lvl # e2.lvl \/ e1.lvl = 0
     \/ \E e \in {e1, e2} : e.ntt # (scheme # "BFV")
     \/ LikeThrows(Len(e1.polys) + Len(e2.polys) - 1)
  THEN Threw(d)
  ELSE LET p == Convolution(e1.polys, e2.polys)
           c == like(e1, p)
       IN  CASE scheme = "BFV"  ->
                  Done(BehzProduct(e1, e2))
             [] scheme = "CKKS" ->
                  LET r == [c EXCEPT !.scale = e1.scale + e2.scale, !.dat = DyadicForm(e1.dat, e2.dat)]
                  IN  [err |-> ~is_scale_within_bounds(r.scale, e1.lvl), ct |-> r]
             [] scheme = "BGV"  ->
                  Done([c EXCEPT !.cf = (e1.cf * e2.cf) % T, !.dat = DyadicForm(e1.dat, e2.dat)])

SquarePolys(e) ==
  LET cross == (e.polys[1] * e.polys[2]) % T
  IN  <<(e.polys[1] * e.polys[1]) % T, (cross + cross) % T, (e.polys[2] * e.polys[2]) % T>>
BehzSquare(e) ==
  LET p == SquarePolys(e) IN like(e, [i \in DOMAIN p |-> (p[i] * Inv(Delta(e.lvl))) % T])
square(e, d) ==
  IF contains_seed(e) \/ e.lvl = 0 \/ e.ntt # (scheme # "BFV") THEN Threw(d)
  ELSE IF Len(e.polys) # 2 THEN multiply(e, e, d)
  ELSE LET p == SquarePolys(e)
           c == like(e, p)
       IN  CASE scheme = "BFV"  ->
                  Done(BehzSquare(e))
             [] scheme = "CKKS" ->
                  [err |-> ~is_scale_within_bounds(e.scale + e.scale, e.lvl),
                   ct  |-> [c EXCEPT !.scale = e.scale + e.scale, !.dat = DyadicForm(e.dat, e.dat)]]
             [] scheme = "BGV"  ->
                  Done([c EXCEPT !.cf = (e.cf * e.cf) % T, !.dat = DyadicForm(e.dat, e.dat)])

(* Key switching, as the rest of the evaluator uses it: two polynomials    *)
(* that decrypt under the secret to target times the key's own secret.     *)
switch_key(target, keySecret) ==
  LET c1 == target IN <<(target * keySecret + (T - 1) * c1 * Secret) % T, c1>>

(* Relinearization removes the last polynomial, with the key of its power, *)
(* until two are left.  At the size wanted the call returns at once: the   *)
(* form with a destination leaves it as it was.                            *)
RelinPolys(p) ==
  LET r[n \in 2 .. Len(p)] ==   \* n polynomials are left
        IF n = Len(p) THEN p
        ELSE LET q == r[n + 1]
                 k == switch_key(q[n + 1], Secret ^ n)
             IN  [SubSeq(q, 1, n) EXCEPT ![1] = (@ + k[1]) % T, ![2] = (@ + k[2]) % T]
  IN  r[2]
(* The BGV branches of the key switching leave NTT form whatever the form  *)
(* of the ciphertext they add to (see module KeySwitch).                   *)
RelinForm(e) == IF scheme = "BGV" /\ Len(e.polys) > 2 THEN SameForm(e.dat, 1) ELSE e.dat
relinearize_inplace_internal(e) ==
  IF contains_seed(e) \/ e.lvl = 0 \/ Len(e.polys) < 2 THEN Threw(e)
  ELSE Done([e EXCEPT !.polys = RelinPolys(e.polys), !.dat = RelinForm(e)])
relinearize_internal(e, d) ==
  IF contains_seed(e) \/ e.lvl = 0 \/ Len(e.polys) < 2 THEN Threw(d)
  ELSE IF Len(e.polys) = 2 THEN Done(d)
  ELSE Done([like(e, RelinPolys(e.polys)) EXCEPT !.dat = RelinForm(e)])

(* Modulus switching.  resize keeps the destination's scale, correction    *)
(* factor and seed; each scheme then sets what it uses.                    *)
MutantFormLeft(e, d) ==   \* the destination's form flag is not set
  IF e.lvl <= 1 \/ e.ntt # (scheme # "BFV") \/ contains_seed(d) \/ LikeThrows(Len(e.polys)) THEN Threw(d)
  ELSE LET invq == Inv(Pow2(QBits[e.lvl]))
       IN  Done([d EXCEPT !.lvl = e.lvl - 1, !.dat = e.dat,
                          !.polys = [i \in DOMAIN e.polys |-> (e.polys[i] * invq) % T],
                          !.scale = IF scheme = "CKKS" THEN e.scale - QBits[e.lvl] ELSE d.scale,
                          !.cf = IF scheme = "BGV" THEN (e.cf * invq) % T ELSE d.cf])
mod_switch_scale_to_next_internal(e, d) ==
  IF e.lvl <= 1 \/ e.ntt # (scheme # "BFV") \/ contains_seed(d) \/ LikeThrows(Len(e.polys)) THEN Threw(d)
  ELSE LET invq == Inv(Pow2(QBits[e.lvl]))
       IN  Done([d EXCEPT !.lvl = e.lvl - 1, !.ntt = e.ntt, !.dat = e.dat,
                          !.polys = [i \in DOMAIN e.polys |-> (e.polys[i] * invq) % T],
                          !.scale = IF scheme = "CKKS" THEN e.scale - QBits[e.lvl] ELSE d.scale,
                          !.cf = IF scheme = "BGV" THEN (e.cf * invq) % T ELSE d.cf])

mod_switch_drop_to_internal(e, d, target) ==
  IF \/ scheme = "CKKS" /\ ~e.ntt
     \/ e.lvl <= 1 \/ target = 0 \/ ~is_scale_within_bounds(e.scale, target)
     \/ LikeThrows(Len(e.polys))
  THEN Threw(d)
  ELSE Done([like(e, e.polys) EXCEPT !.lvl = target])

mod_switch_to_next(e, d) ==
  IF contains_seed(e) \/ e.lvl = 1 THEN Threw(d)
  ELSE IF scheme = "CKKS" THEN mod_switch_drop_to_internal(e, d, e.lvl - 1)
  ELSE mod_switch_scale_to_next_internal(e, d)

mod_switch_to(e, target, d) ==
  IF e.lvl < target \/ target = 0 THEN Threw(d)
  ELSE IF e.lvl = target THEN Done(e)
  ELSE IF scheme = "CKKS" THEN mod_switch_drop_to_internal(e, d, target)
  ELSE LET r[l \in target .. e.lvl - 1] ==   \* at level l; a throw ends the loop
             IF l = e.lvl - 1 THEN mod_switch_to_next(e, d)
             ELSE LET p == r[l + 1]
                  IN  IF p.err THEN p
                      ELSE LET n == mod_switch_to_next(p.ct, NoCiphertext)
                           IN  IF n.err THEN Threw(p.ct) ELSE n
       IN  r[target]

mod_switch_to_inplace_batched(es, target) ==
  IF ~SameLevel(es) \/ ~SameCount(es) THEN Refused(es)
  ELSE AllOrNone([i \in DOMAIN es |-> mod_switch_to(es[i], target, NoCiphertext)])

rescale_to_next(e, d) ==
  IF contains_seed(e) \/ e.lvl = 1 \/ scheme # "CKKS" THEN Threw(d)
  ELSE mod_switch_scale_to_next_internal(e, d)

(* The transforms of ciphertexts. *)
transform_to_ntt(e, d) ==
  IF contains_seed(e) \/ e.ntt \/ e.lvl = 0 THEN Threw(d)
  ELSE Done([e EXCEPT !.ntt = TRUE, !.dat = @ + 1])
transform_from_ntt(e, d) ==
  IF contains_seed(e) \/ ~e.ntt \/ e.lvl = 0 THEN Threw(d)
  ELSE Done([e EXCEPT !.ntt = FALSE, !.dat = @ - 1])
transform_inplace_batched(es, to) ==
  IF ~SameLevel(es) \/ ~SameCount(es) THEN Refused(es)
  ELSE AllOrNone([i \in DOMAIN es |-> IF to THEN transform_to_ntt(es[i], es[i])
                                      ELSE transform_from_ntt(es[i], es[i])])
=============================================================================
